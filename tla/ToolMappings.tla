---------------------------- MODULE ToolMappings ----------------------------
(***************************************************************************)
(* The table of tool-call mappings, as concurrent requests of one window   *)
(* use it: gateway/proxy.py, observability/persistence.py.                 *)
(*                                                                         *)
(* A request loads and renews the mappings of its scope, translates the    *)
(* calls its history mentions, and once the upstream answers it deletes    *)
(* those it loaded and did not need.  While its stream is read it stores a *)
(* mapping for each call before the client sees the call.  The table is a  *)
(* SQLite file and outlives a restart; rows expire.  Each step on the      *)
(* table is one transaction.  What a row holds is abstracted to its size.  *)
(***************************************************************************)
EXTENDS Integers, FiniteSets

CONSTANTS
    Scopes,               \* the models (or providers) the window talks to
    Calls,                \* tool call ids
    Requests,             \* requests of the window that can be open at once
    Ttl,                  \* lifetime of a row, in ticks of the clock
    max_row_bytes,                            \* limit of a row
    max_session_rows, max_session_bytes,      \* limits of a scope
    max_principal_rows, max_principal_bytes   \* limits of the window's owner

NoScope == "none"

ASSUME ScopesAssumption ==
    IsFiniteSet(Scopes) /\ IsFiniteSet(Calls) /\ NoScope \notin Scopes
ASSUME TtlAssumption == Ttl \in Nat \ {0}
ASSUME LimitsAssumption ==
    {max_row_bytes, max_session_rows, max_session_bytes, max_principal_rows,
     max_principal_bytes} \subseteq Nat \ {0}

Keys == Scopes \X Calls
Sizes == 1..max_row_bytes
Rows == [left : 0..Ttl, bytes : Sizes]

VARIABLES
    table,                \* [Keys' subset -> Rows]: ticks to live, size
    \* per request
    phase,                \* "idle", "sent" (waits for the upstream), "streaming"
    scope,                \* its state_scope
    unused,               \* calls loaded and not in its history
    stored,               \* calls stored that its client has not been given yet
    \* the client
    received,             \* the calls it has been given and may mention
    \* history: what the client has done to its calls
    issued,               \* per call: the scope that it came from
    neglect               \* per call: ticks since a request used its scope, Ttl for one
                          \* that was left out of a history

requests == <<phase, scope, unused, stored>>
history == <<issued, neglect>>
vars == <<table, requests, received, history>>

Init ==
    /\ table = [k \in {} |-> 0]
    /\ phase = [r \in Requests |-> "idle"]
    /\ scope = [r \in Requests |-> NoScope]
    /\ unused = [r \in Requests |-> {}]
    /\ stored = [r \in Requests |-> {}]
    /\ received = {}
    /\ issued = [c \in Calls |-> NoScope]
    /\ neglect = [c \in Calls |-> 0]

-----------------------------------------------------------------------------
(* The table.                                                              *)

Expired == {k \in DOMAIN table : table[k].left = 0}
Loaded(s) == {c \in Calls : <<s, c>> \in DOMAIN table \ Expired}

\* Mutant: the deletion is not committed.
Without_uncommitted(keys) == table

Without(keys) == [k \in DOMAIN table \ keys |-> table[k]]

\* Mutant: reading does not renew.
Renewed_never(s) == table

\* query_tool_call_mappings renews what it reads.
Renewed(s) ==
    [k \in DOMAIN table |-> IF k[1] = s /\ table[k].left > 0 THEN [table[k] EXCEPT !.left = Ttl]
                            ELSE table[k]]

\* Mutant: the scope is not part of the key.
Upserted_unscoped(s, c, bytes) ==
    LET key == <<CHOOSE any \in Scopes : TRUE, c>>
    IN  [k \in (DOMAIN table \ Expired) \cup {key} |->
            IF k = key THEN [left |-> Ttl, bytes |-> bytes] ELSE table[k]]

\* upsert_tool_call_mapping, expired rows deleted first.
Upserted(s, c, bytes) ==
    [k \in (DOMAIN table \ Expired) \cup {<<s, c>>} |->
        IF k = <<s, c>> THEN [left |-> Ttl, bytes |-> bytes] ELSE table[k]]

\* _tool_mapping_usage_locked counts rows, of a scope or all, and their bytes.
RowsOf(s, t) == {k \in DOMAIN t : k[1] = s}
Bytes(t, keys) == Cardinality(UNION {{k} \X (1..t[k].bytes) : k \in keys})

\* What the row adds to a table that may have one under its key.
RowDelta(t, key) == IF key \in DOMAIN t THEN 0 ELSE 1
ByteDelta(t, key, bytes) == bytes - (IF key \in DOMAIN t THEN t[key].bytes ELSE 0)

\* Mutant: the row is looked up before the expired ones are deleted.
Fits_lookup(s, c, bytes) ==
    LET live == Without(Expired)
        Within(keys, rows, size) ==
            /\ Cardinality(keys) + RowDelta(table, <<s, c>>) <= rows
            /\ Bytes(live, keys) + ByteDelta(table, <<s, c>>, bytes) <= size
    IN  /\ Within(RowsOf(s, live), max_session_rows, max_session_bytes)
        /\ Within(DOMAIN live, max_principal_rows, max_principal_bytes)

\* The usage after the deletion, and what the upsert adds: the row is not there yet.
Fits(s, c, bytes) ==
    LET live == Without(Expired)
        Within(keys, rows, size) ==
            /\ Cardinality(keys) + RowDelta(live, <<s, c>>) <= rows
            /\ Bytes(live, keys) + ByteDelta(live, <<s, c>>, bytes) <= size
    IN  /\ Within(RowsOf(s, live), max_session_rows, max_session_bytes)
        /\ Within(DOMAIN live, max_principal_rows, max_principal_bytes)

-----------------------------------------------------------------------------
(* A request.                                                              *)

\* Load, renew, translate, and send.  The client mentions whichever of its calls it
\* likes: it compacts and branches its history.
Send(r, s, mentioned) ==
    /\ phase[r] = "idle"
    /\ mentioned \subseteq received
    /\ phase' = [phase EXCEPT ![r] = "sent"]
    /\ scope' = [scope EXCEPT ![r] = s]
    /\ unused' = [unused EXCEPT ![r] = Loaded(s) \ mentioned]
    /\ table' = Renewed(s)
    /\ neglect' = [c \in Calls |-> IF issued[c] = s /\ neglect[c] < Ttl THEN 0 ELSE neglect[c]]
    /\ UNCHANGED <<stored, received, issued>>

Closed(r) ==
    /\ phase' = [phase EXCEPT ![r] = "idle"]
    /\ scope' = [scope EXCEPT ![r] = NoScope]
    /\ unused' = [unused EXCEPT ![r] = {}]
    /\ stored' = [stored EXCEPT ![r] = {}]

\* No connection to the upstream, or cancelled before it answers: nothing is deleted.
ConnectionFails(r) ==
    /\ phase[r] = "sent"
    /\ Closed(r)
    /\ UNCHANGED <<table, received, history>>

\* A deletion that fails is logged and forgotten.
DeleteUnused(r) ==
    \/ table' = Without({scope[r]} \X unused[r])
    \/ UNCHANGED table

\* The upstream answers, with a stream or with an error.
Answered(r) ==
    /\ phase[r] = "sent"
    /\ DeleteUnused(r)
    /\ neglect' = [c \in Calls |-> IF c \in unused[r] THEN Ttl ELSE neglect[c]]
    /\ \/ /\ phase' = [phase EXCEPT ![r] = "streaming"]
          /\ unused' = [unused EXCEPT ![r] = {}]
          /\ UNCHANGED <<scope, stored>>
       \/ Closed(r)
    /\ UNCHANGED <<received, issued>>

\* A call of the upstream is translated and its mapping stored.  Its id is new, or
\* one that the upstream uses again.
Store(r, c, bytes) ==
    /\ phase[r] = "streaming"
    /\ issued[c] \in {NoScope, scope[r]}
    /\ Fits(scope[r], c, bytes)
    /\ table' = Upserted(scope[r], c, bytes)
    /\ stored' = [stored EXCEPT ![r] = @ \cup {c}]
    /\ issued' = [issued EXCEPT ![c] = scope[r]]
    /\ neglect' = [neglect EXCEPT ![c] = 0]
    /\ UNCHANGED <<phase, scope, unused, received>>

\* The client reads the call.
Deliver(r, c) ==
    /\ c \in stored[r]
    /\ stored' = [stored EXCEPT ![r] = @ \ {c}]
    /\ received' = received \cup {c}
    /\ UNCHANGED <<table, phase, scope, unused, history>>

\* The stream is over, breaks off, is cancelled, or a mapping cannot be stored: the
\* transaction is rolled back and what was stored before stays.
End(r) ==
    /\ phase[r] = "streaming"
    /\ Closed(r)
    /\ UNCHANGED <<table, received, history>>

-----------------------------------------------------------------------------
(* The process and the clock.                                              *)

\* _periodic_tool_call_mapping_cleanup.
Cleanup ==
    /\ Expired # {}
    /\ table' = Without(Expired)
    /\ UNCHANGED <<requests, received, history>>

\* The gateway stops in the middle of everything and starts again: the table stays.
Restart ==
    /\ phase' = [r \in Requests |-> "idle"]
    /\ scope' = [r \in Requests |-> NoScope]
    /\ unused' = [r \in Requests |-> {}]
    /\ stored' = [r \in Requests |-> {}]
    /\ UNCHANGED <<table, received, history>>

Tick ==
    /\ table' = [k \in DOMAIN table |->
                    IF table[k].left = 0 THEN table[k] ELSE [table[k] EXCEPT !.left = @ - 1]]
    /\ neglect' = [c \in Calls |-> IF issued[c] = NoScope \/ neglect[c] = Ttl THEN neglect[c]
                                   ELSE neglect[c] + 1]
    /\ UNCHANGED <<requests, received, issued>>

Next ==
    \/ \E r \in Requests :
          \/ \E s \in Scopes, mentioned \in SUBSET Calls : Send(r, s, mentioned)
          \/ ConnectionFails(r) \/ Answered(r) \/ End(r)
          \/ \E c \in Calls : Deliver(r, c) \/ \E bytes \in Sizes : Store(r, c, bytes)
    \/ Cleanup \/ Restart \/ Tick

Spec == Init /\ [][Next]_vars

\* Time passes and the cleanup task runs; a client and an upstream owe nothing.
FairSpec == Spec /\ WF_vars(Tick) /\ WF_vars(Cleanup)

-----------------------------------------------------------------------------
(* Properties.                                                             *)

\* Type invariant; a row is kept under the scope its call came from.
TypeOK ==
    /\ DOMAIN table \subseteq Keys
    /\ \A k \in DOMAIN table : table[k] \in Rows /\ issued[k[2]] = k[1]
    /\ phase \in [Requests -> {"idle", "sent", "streaming"}]
    /\ scope \in [Requests -> Scopes \cup {NoScope}]
    /\ unused \in [Requests -> SUBSET Calls]
    /\ stored \in [Requests -> SUBSET Calls]
    /\ received \subseteq Calls
    /\ issued \in [Calls -> Scopes \cup {NoScope}]
    /\ neglect \in [Calls -> 0..Ttl]

\* A call that the client was given can be translated back, after any interleaving
\* of requests, models, failures, expiry and restarts, unless a request that could
\* read it left it out of its history, or its scope went unused for the lifetime
\* of a row (docs/en/codex-tool-localization/code-edit.md:70).
HistoryTranslatable ==
    \A c \in received : neglect[c] < Ttl => c \in Loaded(issued[c])

\* The table never exceeds a limit, although no upsert looks at the table it leaves:
\* what expired, is replaced by a row of another size or was stored by another
\* request is accounted for.  So a restart, which counts and refuses to start over
\* a limit, always succeeds (docs/en/gateway-security.md:404-410).
QuotaHolds ==
    /\ \A s \in Scopes :
          /\ Cardinality(RowsOf(s, table)) <= max_session_rows
          /\ Bytes(table, RowsOf(s, table)) <= max_session_bytes
    /\ Cardinality(DOMAIN table) <= max_principal_rows
    /\ Bytes(table, DOMAIN table) <= max_principal_bytes

\* Rows nobody will read, those of a broken stream among them, go away when the
\* window falls silent.
RowsExpire ==
    <>[](\A r \in Requests : phase[r] = "idle") => <>[](DOMAIN table = {})
=============================================================================
