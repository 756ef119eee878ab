---------------------- MODULE MCProviderMetadataStore ----------------------
(* ProviderMetadataStore on a small instance: two threads, two principals, one *)
(* of them with two scopes, and limits each of which is the first to be        *)
(* reached somewhere.                                                          *)
EXTENDS ProviderMetadataStore, TLC

CONSTANTS alice, bob, alice1, alice2, bob1, call1, call2, thread1, thread2

MCPrincipalOf == [s \in Scopes |-> IF s = bob1 THEN bob ELSE alice]
Symmetry == Permutations(CallIds) \cup Permutations(Threads) \cup Permutations({alice1, alice2})
=============================================================================
