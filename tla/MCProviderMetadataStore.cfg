SPECIFICATION Spec
CONSTANTS
    alice = alice
    bob = bob
    alice1 = alice1
    alice2 = alice2
    bob1 = bob1
    call1 = call1
    call2 = call2
    thread1 = thread1
    thread2 = thread2
    Threads = {thread1, thread2}
    Principals = {alice, bob}
    Scopes = {alice1, alice2, bob1}
    CallIds = {call1, call2}
    PrincipalOf <- MCPrincipalOf
    Sizes = {1, 3, 4}
    ttl = 1
    max_size = 2
    max_entry_bytes = 3
    max_bytes_per_scope = 3
    max_entries_per_principal = 3
    max_bytes_per_principal = 4
    max_bytes_global = 5
    MaxTime = 2
SYMMETRY Symmetry
INVARIANTS
    TypeOK
    AccountsBalance
PROPERTIES
    LossIsFair
