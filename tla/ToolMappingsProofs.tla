------------------------- MODULE ToolMappingsProofs -------------------------
(***************************************************************************)
(* Proofs about ToolMappings, for any number of models, calls and          *)
(* concurrent requests, any lifetime of a row and any limits.              *)
(***************************************************************************)
EXTENDS ToolMappings, FiniteSetTheorems, TLAPS

-----------------------------------------------------------------------------
(* The inductive invariant.                                                 *)

\* What a request has in its hands, and the client has been given, was issued; a
\* request that is under way has a scope.
IssuedInv ==
    /\ \A r \in Requests : phase[r] # "idle" => scope[r] # NoScope
    /\ \A c \in received : issued[c] # NoScope
    /\ \A r \in Requests : \A c \in stored[r] : issued[c] # NoScope

\* The row of a call that is not forgotten (neglected for Ttl) is there, and as old as
\* the call is neglected.
AgeInv ==
    \A c \in Calls : issued[c] # NoScope /\ neglect[c] < Ttl =>
        /\ <<issued[c], c>> \in DOMAIN table
        /\ table[<<issued[c], c>>].left + neglect[c] = Ttl

TableInv == TypeOK /\ IssuedInv /\ AgeInv

LEMMA TableInit == Init => TableInv
<1> SUFFICES ASSUME Init PROVE TableInv
  OBVIOUS
<1>1. TypeOK
  BY TtlAssumption DEF Init, TypeOK
<1>2. IssuedInv /\ AgeInv
  BY DEF Init, IssuedInv, AgeInv
<1> QED
  BY <1>1, <1>2 DEF TableInv

LEMMA StepSend ==
    ASSUME TableInv, NEW r \in Requests, NEW s \in Scopes, NEW mentioned \in SUBSET Calls,
           Send(r, s, mentioned)
    PROVE  TableInv'
<1>1. TypeOK /\ IssuedInv /\ AgeInv /\ Ttl \in Nat \ {0}
  BY TtlAssumption DEF TableInv
<1>2. /\ phase' = [phase EXCEPT ![r] = "sent"] /\ scope' = [scope EXCEPT ![r] = s]
      /\ unused' = [unused EXCEPT ![r] = Loaded(s) \ mentioned]
      /\ neglect' = [c \in Calls |-> IF issued[c] = s /\ neglect[c] < Ttl THEN 0
                                     ELSE neglect[c]]
      /\ UNCHANGED <<stored, received, issued>>
  BY DEF Send
<1>3. table' = [k \in DOMAIN table |-> IF k[1] = s /\ table[k].left > 0
                                       THEN [table[k] EXCEPT !.left = Ttl] ELSE table[k]]
  BY DEF Send, Renewed
<1>4. DOMAIN table' = DOMAIN table
  BY <1>3
<1>5. TypeOK'
  <2>1. \A k \in DOMAIN table' : table'[k] \in Rows
    BY <1>1, <1>3 DEF TypeOK, Rows
  <2>2. unused' \in [Requests -> SUBSET Calls]
    BY <1>1, <1>2 DEF TypeOK, Loaded
  <2>3. neglect' \in [Calls -> 0..Ttl]
    BY <1>1, <1>2 DEF TypeOK
  <2> QED
    BY <1>1, <1>2, <1>4, <2>1, <2>2, <2>3 DEF TypeOK
<1>6. IssuedInv'
  BY <1>1, <1>2, ScopesAssumption DEF IssuedInv, TypeOK
<1>7. AgeInv'
  <2> SUFFICES ASSUME NEW c \in Calls, issued[c] # NoScope, neglect'[c] < Ttl
               PROVE  /\ <<issued[c], c>> \in DOMAIN table'
                      /\ table'[<<issued[c], c>>].left + neglect'[c] = Ttl
    BY <1>2 DEF AgeInv
  <2> DEFINE key == <<issued[c], c>>
  <2>1. /\ neglect'[c] = IF issued[c] = s /\ neglect[c] < Ttl THEN 0 ELSE neglect[c]
        /\ neglect[c] < Ttl /\ neglect[c] \in 0..Ttl
    BY <1>1, <1>2 DEF TypeOK
  <2>2. key \in DOMAIN table /\ table[key].left + neglect[c] = Ttl /\ table[key] \in Rows
    BY <1>1, <2>1 DEF AgeInv, TypeOK
  <2>3. table'[key] = IF issued[c] = s /\ table[key].left > 0
                      THEN [table[key] EXCEPT !.left = Ttl] ELSE table[key]
    BY <1>3, <2>2
  <2> HIDE DEF key
  <2>4. table'[key].left + neglect'[c] = Ttl
    <3>1. table[key].left \in 0..Ttl
      BY <2>2 DEF Rows
    <3>2. CASE issued[c] = s
      BY <1>1, <2>1, <2>2, <2>3, <3>1, <3>2 DEF Rows
    <3>3. CASE issued[c] # s
      BY <2>1, <2>2, <2>3, <3>3
    <3> QED
      BY <3>2, <3>3
  <2> QED
    BY <1>4, <2>2, <2>4 DEF key
<1> QED
  BY <1>5, <1>6, <1>7 DEF TableInv

\* What a step that leaves the table and the client alone keeps.
LEMMA RequestsOnly ==
    ASSUME TableInv, UNCHANGED <<table, received, history>>,
           phase' \in [Requests -> {"idle", "sent", "streaming"}],
           scope' \in [Requests -> Scopes \cup {NoScope}],
           unused' \in [Requests -> SUBSET Calls],
           stored' \in [Requests -> SUBSET Calls],
           \A r \in Requests : stored'[r] \subseteq stored[r],
           \A r \in Requests : phase'[r] # "idle" => scope'[r] # NoScope
    PROVE  TableInv'
<1>1. TypeOK'
  BY DEF TableInv, TypeOK, history
<1>2. IssuedInv' /\ AgeInv'
  BY DEF TableInv, IssuedInv, AgeInv, history
<1> QED
  BY <1>1, <1>2 DEF TableInv

LEMMA ClosedFacts ==
    ASSUME TableInv, NEW r \in Requests, Closed(r)
    PROVE  /\ phase' \in [Requests -> {"idle", "sent", "streaming"}]
           /\ scope' \in [Requests -> Scopes \cup {NoScope}]
           /\ unused' \in [Requests -> SUBSET Calls]
           /\ stored' \in [Requests -> SUBSET Calls]
           /\ \A q \in Requests : stored'[q] \subseteq stored[q]
           /\ \A q \in Requests : phase'[q] # "idle" => scope'[q] # NoScope
BY DEF TableInv, TypeOK, Closed, IssuedInv

LEMMA StepAnswered ==
    ASSUME TableInv, NEW r \in Requests, Answered(r)
    PROVE  TableInv'
<1>1. TypeOK /\ IssuedInv /\ AgeInv
  BY DEF TableInv
<1>2. /\ neglect' = [c \in Calls |-> IF c \in unused[r] THEN Ttl ELSE neglect[c]]
      /\ UNCHANGED <<received, issued>>
  BY DEF Answered
<1>3. /\ phase' \in [Requests -> {"idle", "sent", "streaming"}]
      /\ scope' \in [Requests -> Scopes \cup {NoScope}]
      /\ unused' \in [Requests -> SUBSET Calls]
      /\ stored' \in [Requests -> SUBSET Calls]
      /\ \A q \in Requests : stored'[q] \subseteq stored[q]
      /\ \A q \in Requests : phase'[q] # "idle" => scope'[q] # NoScope
  <2>1. CASE Closed(r)
    BY <2>1, ClosedFacts
  <2>2. CASE /\ phase' = [phase EXCEPT ![r] = "streaming"]
             /\ unused' = [unused EXCEPT ![r] = {}]
             /\ UNCHANGED <<scope, stored>>
    <3>1. phase[r] # "idle"
      BY DEF Answered
    <3> QED
      BY <1>1, <2>2, <3>1 DEF TypeOK, IssuedInv
  <2> QED
    BY <2>1, <2>2 DEF Answered
<1>4. /\ DOMAIN table' \subseteq DOMAIN table
      /\ \A k \in DOMAIN table' : table'[k] = table[k]
      /\ \A k \in DOMAIN table : k \notin {scope[r]} \X unused[r] => k \in DOMAIN table'
  <2>1. CASE table' = Without({scope[r]} \X unused[r])
    BY <2>1 DEF Without
  <2>2. CASE table' = table
    BY <2>2
  <2> QED
    BY <2>1, <2>2 DEF Answered, DeleteUnused
<1>5. TypeOK'
  <2>1. neglect' \in [Calls -> 0..Ttl]
    BY <1>1, <1>2, TtlAssumption DEF TypeOK
  <2> QED
    BY <1>1, <1>2, <1>3, <1>4, <2>1 DEF TypeOK
<1>6. IssuedInv'
  BY <1>1, <1>2, <1>3 DEF IssuedInv
<1>7. AgeInv'
  <2> SUFFICES ASSUME NEW c \in Calls, issued[c] # NoScope, neglect'[c] < Ttl
               PROVE  /\ <<issued[c], c>> \in DOMAIN table'
                      /\ table'[<<issued[c], c>>].left + neglect'[c] = Ttl
    BY <1>2 DEF AgeInv
  <2>1. c \notin unused[r] /\ neglect'[c] = neglect[c]
    BY <1>2, TtlAssumption
  <2>2. /\ <<issued[c], c>> \in DOMAIN table
        /\ table[<<issued[c], c>>].left + neglect[c] = Ttl
    BY <1>1, <2>1 DEF AgeInv
  <2>3. <<issued[c], c>> \in DOMAIN table'
    BY <1>4, <2>1, <2>2
  <2>4. table'[<<issued[c], c>>] = table[<<issued[c], c>>]
    BY <1>4, <2>3
  <2> QED
    BY <2>1, <2>2, <2>3, <2>4
<1> QED
  BY <1>5, <1>6, <1>7 DEF TableInv

LEMMA StepStore ==
    ASSUME TableInv, NEW r \in Requests, NEW c \in Calls, NEW bytes \in Sizes,
           Store(r, c, bytes)
    PROVE  TableInv'
<1>1. TypeOK /\ IssuedInv /\ AgeInv /\ Ttl \in Nat \ {0}
  BY TtlAssumption DEF TableInv
<1> DEFINE s == scope[r]
<1>2. s \in Scopes
  BY <1>1 DEF TypeOK, IssuedInv, Store
<1>3. /\ issued[c] \in {NoScope, s} /\ stored' = [stored EXCEPT ![r] = @ \cup {c}]
      /\ issued' = [issued EXCEPT ![c] = s] /\ neglect' = [neglect EXCEPT ![c] = 0]
      /\ UNCHANGED <<phase, scope, unused, received>>
  BY DEF Store
<1> DEFINE row == [left |-> Ttl, bytes |-> bytes]
<1>4. table' = [k \in (DOMAIN table \ Expired) \cup {<<s, c>>}
                   |-> IF k = <<s, c>> THEN row ELSE table[k]]
  BY DEF Store, Upserted
<1> HIDE DEF s
<1>5. DOMAIN table' = (DOMAIN table \ Expired) \cup {<<s, c>>} /\ table'[<<s, c>>] = row
  BY <1>4
<1>6. \A k \in DOMAIN table' : k # <<s, c>> => k \in DOMAIN table /\ table'[k] = table[k]
  BY <1>4
<1>7. TypeOK'
  <2>1. DOMAIN table' \subseteq Keys
    BY <1>1, <1>2, <1>5 DEF TypeOK, Keys
  <2>2. ASSUME NEW k \in DOMAIN table'
        PROVE  table'[k] \in Rows /\ issued'[k[2]] = k[1]
    <3>1. CASE k = <<s, c>>
      <4>1. row \in Rows
        BY <1>1 DEF Rows
      <4> QED
        BY <1>1, <1>3, <1>5, <3>1, <4>1 DEF TypeOK
    <3>2. CASE k # <<s, c>>
      <4>1. /\ k \in DOMAIN table /\ table'[k] = table[k]
            /\ table[k] \in Rows /\ issued[k[2]] = k[1] /\ k \in Scopes \X Calls
        BY <1>1, <1>6, <3>2 DEF TypeOK, Keys
      <4>2. k[2] # c
        <5> SUFFICES ASSUME k[2] = c PROVE FALSE
          OBVIOUS
        <5>1. k[1] = s
          BY <1>3, <4>1, ScopesAssumption
        <5> QED
          BY <3>2, <4>1, <5>1
      <4> QED
        BY <1>1, <1>3, <4>1, <4>2 DEF TypeOK
    <3> QED
      BY <3>1, <3>2
  <2>3. /\ stored' \in [Requests -> SUBSET Calls]
        /\ issued' \in [Calls -> Scopes \cup {NoScope}]
        /\ neglect' \in [Calls -> 0..Ttl]
    BY <1>1, <1>2, <1>3 DEF TypeOK
  <2> QED
    BY <1>1, <1>3, <2>1, <2>2, <2>3 DEF TypeOK
<1>8. IssuedInv'
  <2>1. \A d \in Calls : issued[d] # NoScope \/ d = c => issued'[d] # NoScope
    BY <1>1, <1>2, <1>3, ScopesAssumption DEF TypeOK
  <2>2. \A q \in Requests : stored'[q] \subseteq stored[q] \cup {c}
    BY <1>1, <1>3 DEF TypeOK
  <2> QED
    BY <1>1, <1>3, <2>1, <2>2 DEF IssuedInv, TypeOK
<1>9. AgeInv'
  <2> SUFFICES ASSUME NEW d \in Calls, issued'[d] # NoScope, neglect'[d] < Ttl
               PROVE  /\ <<issued'[d], d>> \in DOMAIN table'
                      /\ table'[<<issued'[d], d>>].left + neglect'[d] = Ttl
    BY DEF AgeInv
  <2>1. CASE d = c
    <3>1. issued'[c] = s /\ neglect'[c] = 0
      BY <1>1, <1>3 DEF TypeOK
    <3> QED
      BY <1>1, <1>5, <2>1, <3>1
  <2>2. CASE d # c
    <3> DEFINE key == <<issued[d], d>>
    <3>1. issued'[d] = issued[d] /\ neglect'[d] = neglect[d]
      BY <1>1, <1>3, <2>2 DEF TypeOK
    <3>2. /\ key \in DOMAIN table /\ table[key].left + neglect[d] = Ttl
          /\ neglect[d] \in 0..Ttl /\ neglect[d] < Ttl /\ table[key] \in Rows
      BY <1>1, <3>1 DEF AgeInv, TypeOK
    <3>3. key \notin Expired
      BY <3>2, TtlAssumption DEF Expired, Rows
    <3>4. key \in DOMAIN table' /\ table'[key] = table[key]
      BY <1>4, <1>5, <2>2, <3>2, <3>3
    <3> QED
      BY <3>1, <3>2, <3>4
  <2> QED
    BY <2>1, <2>2
<1> QED
  BY <1>7, <1>8, <1>9 DEF TableInv

LEMMA StepDeliver ==
    ASSUME TableInv, NEW r \in Requests, NEW c \in Calls, Deliver(r, c)
    PROVE  TableInv'
<1>1. /\ c \in stored[r] /\ stored' = [stored EXCEPT ![r] = @ \ {c}]
      /\ received' = received \cup {c}
      /\ UNCHANGED <<table, phase, scope, unused, issued, neglect>>
  BY DEF Deliver, history
<1>2. TypeOK'
  BY <1>1 DEF TableInv, TypeOK
<1>3. IssuedInv'
  BY <1>1 DEF TableInv, TypeOK, IssuedInv
<1>4. AgeInv'
  BY <1>1 DEF TableInv, AgeInv
<1> QED
  BY <1>2, <1>3, <1>4 DEF TableInv

LEMMA StepOver ==
    ASSUME TableInv, NEW r \in Requests, ConnectionFails(r) \/ End(r)
    PROVE  TableInv'
<1>1. Closed(r) /\ UNCHANGED <<table, received, history>>
  BY DEF ConnectionFails, End
<1> QED
  BY <1>1, ClosedFacts, RequestsOnly

LEMMA StepRestart ==
    ASSUME TableInv, Restart
    PROVE  TableInv'
<1>1. /\ phase' \in [Requests -> {"idle", "sent", "streaming"}]
      /\ scope' \in [Requests -> Scopes \cup {NoScope}]
      /\ unused' \in [Requests -> SUBSET Calls]
      /\ stored' \in [Requests -> SUBSET Calls]
      /\ \A q \in Requests : stored'[q] \subseteq stored[q]
      /\ \A q \in Requests : phase'[q] # "idle" => scope'[q] # NoScope
  BY DEF Restart
<1> QED
  BY <1>1, RequestsOnly DEF Restart

LEMMA StepCleanup ==
    ASSUME TableInv, Cleanup
    PROVE  TableInv'
<1>1. TypeOK /\ IssuedInv /\ AgeInv
  BY DEF TableInv
<1>2. /\ table' = [k \in DOMAIN table \ Expired |-> table[k]]
      /\ UNCHANGED <<phase, scope, unused, stored, received, issued, neglect>>
  BY DEF Cleanup, Without, requests, history
<1>3. TypeOK'
  BY <1>1, <1>2 DEF TypeOK
<1>4. IssuedInv'
  BY <1>1, <1>2 DEF IssuedInv
<1>5. AgeInv'
  <2> SUFFICES ASSUME NEW c \in Calls, issued[c] # NoScope, neglect[c] < Ttl
               PROVE  /\ <<issued[c], c>> \in DOMAIN table'
                      /\ table'[<<issued[c], c>>].left + neglect[c] = Ttl
    BY <1>2 DEF AgeInv
  <2> DEFINE key == <<issued[c], c>>
  <2>1. /\ key \in DOMAIN table /\ table[key].left + neglect[c] = Ttl
        /\ neglect[c] \in 0..Ttl /\ table[key] \in Rows
    BY <1>1 DEF AgeInv, TypeOK
  <2>2. key \notin Expired
    BY <2>1, TtlAssumption DEF Expired, Rows
  <2> QED
    BY <1>2, <2>1, <2>2
<1> QED
  BY <1>3, <1>4, <1>5 DEF TableInv

LEMMA StepTick ==
    ASSUME TableInv, Tick
    PROVE  TableInv'
<1>1. TypeOK /\ IssuedInv /\ AgeInv /\ Ttl \in Nat \ {0}
  BY TtlAssumption DEF TableInv
<1>2. /\ table' = [k \in DOMAIN table |->
                      IF table[k].left = 0 THEN table[k] ELSE [table[k] EXCEPT !.left = @ - 1]]
      /\ neglect' = [c \in Calls |-> IF issued[c] = NoScope \/ neglect[c] = Ttl
                                     THEN neglect[c] ELSE neglect[c] + 1]
      /\ UNCHANGED <<phase, scope, unused, stored, received, issued>>
  BY DEF Tick, requests
<1>3. TypeOK'
  <2>1. ASSUME NEW k \in DOMAIN table' PROVE table'[k] \in Rows
    <3>1. /\ k \in DOMAIN table /\ table[k] \in Rows
          /\ table'[k] = IF table[k].left = 0 THEN table[k]
                         ELSE [table[k] EXCEPT !.left = @ - 1]
      BY <1>1, <1>2 DEF TypeOK
    <3> QED
      BY <1>1, <3>1 DEF Rows
  <2>2. neglect' \in [Calls -> 0..Ttl]
    <3>1. ASSUME NEW c \in Calls
          PROVE  (IF issued[c] = NoScope \/ neglect[c] = Ttl THEN neglect[c]
                  ELSE neglect[c] + 1) \in 0..Ttl
      <4>1. neglect[c] \in 0..Ttl
        BY <1>1 DEF TypeOK
      <4> QED
        BY <1>1, <4>1
    <3> QED
      BY <1>2, <3>1
  <2>3. DOMAIN table' = DOMAIN table
    BY <1>2
  <2> QED
    BY <1>1, <1>2, <2>1, <2>2, <2>3 DEF TypeOK
<1>4. IssuedInv'
  BY <1>1, <1>2 DEF IssuedInv
<1>5. AgeInv'
  <2> SUFFICES ASSUME NEW c \in Calls, issued[c] # NoScope, neglect'[c] < Ttl
               PROVE  /\ <<issued[c], c>> \in DOMAIN table'
                      /\ table'[<<issued[c], c>>].left + neglect'[c] = Ttl
    BY <1>2 DEF AgeInv
  <2> DEFINE key == <<issued[c], c>>
  <2>1. neglect[c] \in 0..Ttl /\ neglect[c] < Ttl /\ neglect'[c] = neglect[c] + 1
    BY <1>1, <1>2 DEF TypeOK
  <2>2. key \in DOMAIN table /\ table[key].left + neglect[c] = Ttl /\ table[key] \in Rows
    BY <1>1, <2>1 DEF AgeInv, TypeOK
  <2>3. /\ key \in DOMAIN table'
        /\ table'[key] = IF table[key].left = 0 THEN table[key]
                         ELSE [table[key] EXCEPT !.left = @ - 1]
    BY <1>2, <2>2
  <2> HIDE DEF key
  <2>4. table'[key].left + neglect'[c] = Ttl
    BY <1>1, <2>1, <2>2, <2>3 DEF Rows
  <2> QED
    BY <2>3, <2>4 DEF key
<1> QED
  BY <1>3, <1>4, <1>5 DEF TableInv

LEMMA TableStep == TableInv /\ [Next]_vars => TableInv'
<1> SUFFICES ASSUME TableInv, [Next]_vars PROVE TableInv'
  OBVIOUS
<1>1. CASE UNCHANGED vars
  BY <1>1 DEF vars, requests, history, TableInv, TypeOK, IssuedInv, AgeInv
<1> QED
  BY <1>1, StepSend, StepOver, StepAnswered, StepStore, StepDeliver, StepCleanup,
     StepRestart, StepTick DEF Next

-----------------------------------------------------------------------------
(* The limits.  An upsert counts the rows and the bytes that are there, and  *)
(* what it is going to add: the sums are those of the table it leaves.       *)

\* Finitely many rows, of sizes that rows have; rows that have the same sizes in two tables.
Sized(t, keys) == IsFiniteSet(keys) /\ \A k \in keys : t[k].bytes \in Sizes
SameSizes(t, u, keys) == \A k \in keys : t[k].bytes = u[k].bytes

\* The bytes of some rows, those of a part of them and those of the rest.
LEMMA BytesFacts ==
    ASSUME NEW t, NEW K, Sized(t, K), NEW T \in SUBSET K
    PROVE  /\ Bytes(t, K) \in Nat /\ Bytes(t, T) \in Nat /\ Bytes(t, K \ T) \in Nat
           /\ Bytes(t, K) = Bytes(t, T) + Bytes(t, K \ T)
<1> DEFINE in(keys) == UNION {{k} \X (1..t[k].bytes) : k \in keys}
<1>1. in(K) \in SUBSET (K \X Sizes) /\ in(T) \in SUBSET in(K) /\ in(K \ T) \in SUBSET in(K)
  <2>1. ASSUME NEW k \in K, NEW i \in 1..t[k].bytes PROVE i \in Sizes
    BY LimitsAssumption DEF Sizes, Sized
  <2> QED
    BY <2>1
<1>2. in(K) = in(T) \cup in(K \ T) /\ in(T) \cap in(K \ T) = {}
  OBVIOUS
<1>3. IsFiniteSet(K \X Sizes)
  <2>1. IsFiniteSet(Sizes)
    BY LimitsAssumption, FS_Interval DEF Sizes
  <2> QED
    BY <2>1, FS_Product DEF Sized
<1>4. Bytes(t, K) = Cardinality(in(K)) /\ Bytes(t, T) = Cardinality(in(T))
      /\ Bytes(t, K \ T) = Cardinality(in(K \ T))
  BY DEF Bytes
<1> HIDE DEF in
<1>5. IsFiniteSet(in(K)) /\ IsFiniteSet(in(T)) /\ IsFiniteSet(in(K \ T))
  <2>1. IsFiniteSet(in(K))
    BY <1>1, <1>3, FS_Subset
  <2> QED
    BY <1>1, <2>1, FS_Subset
<1>6. Cardinality(in(K)) = Cardinality(in(T)) + Cardinality(in(K \ T))
                           - Cardinality(in(T) \cap in(K \ T))
  BY <1>2, <1>5, FS_Union
<1>7. /\ Cardinality(in(T) \cap in(K \ T)) = 0
      /\ Cardinality(in(K)) \in Nat /\ Cardinality(in(T)) \in Nat
      /\ Cardinality(in(K \ T)) \in Nat
  BY <1>2, <1>5, FS_EmptySet, FS_CardinalityType
<1> QED
  BY <1>4, <1>6, <1>7

LEMMA BytesOfOne ==
    ASSUME NEW t, NEW k, t[k].bytes \in Sizes
    PROVE  Bytes(t, {k}) = t[k].bytes
<1> DEFINE n == t[k].bytes
<1>1. UNION {{j} \X (1..t[j].bytes) : j \in {k}} = {k} \X (1..n)
  OBVIOUS
<1>2. n \in Nat \ {0}
  BY LimitsAssumption DEF Sizes
<1> HIDE DEF n
<1>3. IsFiniteSet({k}) /\ Cardinality({k}) = 1
  BY FS_Singleton
<1>4. IsFiniteSet(1..n) /\ Cardinality(1..n) = n
  <2>1. 1 \in Int /\ n \in Int /\ ~(1 > n) /\ n - 1 + 1 = n
    BY <1>2
  <2> QED
    BY <2>1, FS_Interval
<1>5. Cardinality({k} \X (1..n)) = n
  <2>1. Cardinality({k} \X (1..n)) = Cardinality({k}) * Cardinality(1..n)
    BY <1>3, <1>4, FS_Product
  <2> QED
    BY <1>2, <1>3, <1>4, <2>1
<1> QED
  BY <1>1, <1>5 DEF Bytes, n

\* Only the sizes of the rows that are counted matter.
LEMMA BytesSame ==
    ASSUME NEW t, NEW u, NEW K, SameSizes(t, u, K)
    PROVE  Bytes(t, K) = Bytes(u, K)
<1>1. UNION {{k} \X (1..t[k].bytes) : k \in K} = UNION {{k} \X (1..u[k].bytes) : k \in K}
  BY DEF SameSizes
<1> QED
  BY <1>1 DEF Bytes

\* Fewer rows of the same sizes use less.
LEMMA FewerUsed ==
    ASSUME NEW t, NEW u, NEW K, Sized(t, K), NEW T \in SUBSET K, SameSizes(u, t, T)
    PROVE  /\ Cardinality(T) \in Nat /\ Cardinality(K) \in Nat
           /\ Cardinality(T) <= Cardinality(K)
           /\ Bytes(u, T) \in Nat /\ Bytes(t, K) \in Nat
           /\ Bytes(u, T) <= Bytes(t, K)
<1>1. Bytes(u, T) = Bytes(t, T)
  BY BytesSame
<1>2. /\ Bytes(t, K) \in Nat /\ Bytes(t, T) \in Nat /\ Bytes(t, K \ T) \in Nat
      /\ Bytes(t, K) = Bytes(t, T) + Bytes(t, K \ T)
  BY BytesFacts
<1>3. /\ IsFiniteSet(T) /\ Cardinality(T) <= Cardinality(K)
      /\ Cardinality(T) \in Nat /\ Cardinality(K) \in Nat
  BY FS_Subset, FS_CardinalityType DEF Sized
<1> QED
  BY <1>1, <1>2, <1>3

\* A row is written under a key: what was used and the deltas make what is used.
LEMMA UsageAfter ==
    ASSUME NEW t, NEW K \in SUBSET DOMAIN t, Sized(t, K),
           NEW key, key \in DOMAIN t => key \in K,
           NEW bytes \in Sizes,
           NEW u, SameSizes(u, t, K \ {key}), u[key].bytes = bytes
    PROVE  /\ Cardinality(K \cup {key}) = Cardinality(K) + RowDelta(t, key)
           /\ Bytes(u, K \cup {key}) = Bytes(t, K) + ByteDelta(t, key, bytes)
<1> DEFINE rest == K \ {key}
           all == K \cup {key}
<1>1. Sized(u, all)
  BY FS_AddElement DEF Sized, SameSizes
<1>2. {key} \in SUBSET all /\ all \ {key} = rest
  OBVIOUS
<1>3. Bytes(u, rest) = Bytes(t, rest)
  BY BytesSame
<1> HIDE DEF rest, all
<1>4. /\ Bytes(u, all) = Bytes(u, {key}) + Bytes(u, rest)
      /\ Bytes(u, rest) \in Nat
  BY <1>1, <1>2, BytesFacts
<1>5. Bytes(u, {key}) = bytes
  BY BytesOfOne
<1>6. bytes \in Nat
  BY LimitsAssumption DEF Sizes
<1>7. CASE key \in K
  <2>1. {key} \in SUBSET K
    BY <1>7
  <2>2. Bytes(t, K) = Bytes(t, {key}) + Bytes(t, rest)
    <3> DEFINE T == {key}
    <3>1. T \in SUBSET K
      BY <2>1
    <3> HIDE DEF T
    <3>2. Bytes(t, K) = Bytes(t, T) + Bytes(t, K \ T)
      BY <3>1, BytesFacts
    <3> QED
      BY <3>2 DEF rest, T
  <2>3. Bytes(t, {key}) = t[key].bytes /\ t[key].bytes \in Nat
    <3>1. t[key].bytes \in Sizes
      BY <1>7 DEF Sized
    <3>2. Bytes(t, {key}) = t[key].bytes
      BY <3>1, BytesOfOne
    <3> QED
      BY <3>1, <3>2, LimitsAssumption DEF Sizes
  <2>4. RowDelta(t, key) = 0 /\ ByteDelta(t, key, bytes) = bytes - t[key].bytes
    BY <1>7 DEF RowDelta, ByteDelta
  <2>5. Cardinality(all) = Cardinality(K) /\ Cardinality(K) \in Nat
    <3>1. all = K
      BY <1>7 DEF all
    <3> QED
      BY <3>1, FS_CardinalityType DEF Sized
  <2>6. Bytes(u, all) = Bytes(t, K) + (bytes - t[key].bytes)
    BY <1>3, <1>4, <1>5, <1>6, <2>2, <2>3
  <2> QED
    BY <2>4, <2>5, <2>6 DEF all
<1>8. CASE key \notin K
  <2>1. rest = K
    BY <1>8 DEF rest
  <2>2. RowDelta(t, key) = 1 /\ ByteDelta(t, key, bytes) = bytes - 0
    BY <1>8 DEF RowDelta, ByteDelta
  <2>3. Cardinality(all) = Cardinality(K) + 1
    BY <1>8, FS_AddElement DEF all, Sized
  <2>4. Bytes(u, all) = Bytes(t, K) + (bytes - 0)
    BY <1>3, <1>4, <1>5, <1>6, <2>1
  <2> QED
    BY <2>2, <2>3, <2>4 DEF all
<1> QED
  BY <1>7, <1>8

LEMMA RowsFinite ==
    ASSUME TypeOK
    PROVE  /\ Sized(table, DOMAIN table)
           /\ \A s : RowsOf(s, table) \in SUBSET DOMAIN table /\ Sized(table, RowsOf(s, table))
<1>1. IsFiniteSet(Keys)
  BY ScopesAssumption, FS_Product DEF Keys
<1>2. IsFiniteSet(DOMAIN table)
  BY <1>1, FS_Subset DEF TypeOK
<1>3. \A s : RowsOf(s, table) \in SUBSET DOMAIN table
  BY DEF RowsOf
<1>4. \A s : IsFiniteSet(RowsOf(s, table))
  BY <1>2, <1>3, FS_Subset
<1> QED
  BY <1>2, <1>3, <1>4 DEF TypeOK, Rows, Sized

\* A scope that lost rows, or none, keeps its limits.
LEMMA ScopeFits ==
    ASSUME TypeOK, QuotaHolds, NEW s \in Scopes, RowsOf(s, table') \in SUBSET RowsOf(s, table),
           SameSizes(table', table, RowsOf(s, table'))
    PROVE  /\ Cardinality(RowsOf(s, table')) <= max_session_rows
           /\ Bytes(table', RowsOf(s, table')) <= max_session_bytes
<1> DEFINE K == RowsOf(s, table)
           T == RowsOf(s, table')
<1>1. /\ T \in SUBSET K /\ Sized(table, K) /\ SameSizes(table', table, T)
      /\ Cardinality(K) <= max_session_rows /\ Bytes(table, K) <= max_session_bytes
  <2>1. K \in SUBSET DOMAIN table
    BY RowsFinite
  <2> QED
    BY <2>1, RowsFinite DEF QuotaHolds
<1> HIDE DEF K, T
<1>2. /\ Cardinality(T) \in Nat /\ Cardinality(K) \in Nat /\ Cardinality(T) <= Cardinality(K)
      /\ Bytes(table', T) \in Nat /\ Bytes(table, K) \in Nat
      /\ Bytes(table', T) <= Bytes(table, K)
  BY <1>1, FewerUsed
<1>3. Cardinality(T) <= max_session_rows /\ Bytes(table', T) <= max_session_bytes
  BY <1>1, <1>2, LimitsAssumption
<1> QED
  BY <1>3 DEF T

\* A table with no more rows than one that keeps the limits, and of the same sizes,
\* keeps them.
LEMMA FewerRowsFit ==
    ASSUME TypeOK, QuotaHolds, DOMAIN table' \subseteq DOMAIN table,
           SameSizes(table', table, DOMAIN table')
    PROVE  QuotaHolds'
<1>1. /\ Cardinality(DOMAIN table') <= max_principal_rows
      /\ Bytes(table', DOMAIN table') <= max_principal_bytes
  <2> DEFINE K == DOMAIN table
             T == DOMAIN table'
  <2>1. /\ T \in SUBSET K /\ Sized(table, K) /\ SameSizes(table', table, T)
        /\ Cardinality(K) <= max_principal_rows /\ Bytes(table, K) <= max_principal_bytes
    BY RowsFinite DEF QuotaHolds
  <2> HIDE DEF K, T
  <2>2. /\ Cardinality(T) \in Nat /\ Cardinality(K) \in Nat /\ Cardinality(T) <= Cardinality(K)
        /\ Bytes(table', T) \in Nat /\ Bytes(table, K) \in Nat
        /\ Bytes(table', T) <= Bytes(table, K)
    BY <2>1, FewerUsed
  <2>3. Cardinality(T) <= max_principal_rows /\ Bytes(table', T) <= max_principal_bytes
    BY <2>1, <2>2, LimitsAssumption
  <2> QED
    BY <2>3 DEF T
<1>2. ASSUME NEW s \in Scopes
      PROVE  /\ Cardinality(RowsOf(s, table')) <= max_session_rows
             /\ Bytes(table', RowsOf(s, table')) <= max_session_bytes
  <2>1. /\ RowsOf(s, table') \in SUBSET RowsOf(s, table)
        /\ SameSizes(table', table, RowsOf(s, table'))
    BY DEF RowsOf, SameSizes
  <2> QED
    BY <2>1, ScopeFits
<1> QED
  BY <1>1, <1>2 DEF QuotaHolds, RowsOf, Bytes

LEMMA QuotaInit == Init => QuotaHolds
<1> SUFFICES ASSUME Init PROVE QuotaHolds
  OBVIOUS
<1>1. DOMAIN table = {} /\ \A s \in Scopes : RowsOf(s, table) = {}
  BY DEF Init, RowsOf
<1>2. UNION {{k} \X (1..table[k].bytes) : k \in {}} = {}
  OBVIOUS
<1>3. Cardinality({}) = 0 /\ Bytes(table, {}) = 0
  BY <1>2, FS_EmptySet DEF Bytes
<1>4. /\ 0 <= max_session_rows /\ 0 <= max_session_bytes
      /\ 0 <= max_principal_rows /\ 0 <= max_principal_bytes
  BY LimitsAssumption
<1> QED
  BY <1>1, <1>3, <1>4 DEF QuotaHolds

\* The check covers the scope of the new row; the other scopes get no row.
LEMMA StoreFits ==
    ASSUME TableInv, QuotaHolds, NEW r \in Requests, NEW c \in Calls, NEW bytes \in Sizes,
           Store(r, c, bytes)
    PROVE  QuotaHolds'
<1> DEFINE s == scope[r]
           key == <<s, c>>
           live == Without(Expired)
<1>1. table' = Upserted(s, c, bytes) /\ Fits(s, c, bytes)
  BY DEF Store
<1>2. /\ DOMAIN live = DOMAIN table \ Expired /\ \A k \in DOMAIN live : live[k] = table[k]
      /\ DOMAIN table' = DOMAIN live \cup {key}
      /\ table'[key].bytes = bytes
      /\ \A k \in DOMAIN live \ {key} : table'[k] = live[k]
  BY <1>1 DEF Upserted, Without
<1>3. /\ Cardinality(RowsOf(s, live)) + RowDelta(live, key) <= max_session_rows
      /\ Bytes(live, RowsOf(s, live)) + ByteDelta(live, key, bytes) <= max_session_bytes
      /\ Cardinality(DOMAIN live) + RowDelta(live, key) <= max_principal_rows
      /\ Bytes(live, DOMAIN live) + ByteDelta(live, key, bytes) <= max_principal_bytes
  BY <1>1 DEF Fits
<1>4. TypeOK
  BY DEF TableInv
<1> HIDE DEF live
<1>5. /\ Sized(live, DOMAIN live) /\ Sized(live, RowsOf(s, live))
      /\ RowsOf(s, live) \in SUBSET DOMAIN live
  <2>1. DOMAIN live \in SUBSET DOMAIN table /\ RowsOf(s, live) \in SUBSET DOMAIN live
    BY <1>2 DEF RowsOf
  <2>2. IsFiniteSet(DOMAIN live)
    BY <1>4, <2>1, RowsFinite, FS_Subset DEF Sized
  <2> QED
    BY <1>2, <1>4, <2>1, <2>2, RowsFinite, FS_Subset DEF Sized
<1>6. /\ RowsOf(s, table') = RowsOf(s, live) \cup {key}
      /\ key \in DOMAIN live => key \in RowsOf(s, live)
  BY <1>2 DEF RowsOf
<1>7. /\ SameSizes(table', live, DOMAIN live \ {key})
      /\ SameSizes(table', live, RowsOf(s, live) \ {key})
  BY <1>2 DEF SameSizes, RowsOf
<1>8. /\ Cardinality(DOMAIN table') <= max_principal_rows
      /\ Bytes(table', DOMAIN table') <= max_principal_bytes
  <2> HIDE DEF key, s
  <2>1. /\ Cardinality(DOMAIN live \cup {key}) = Cardinality(DOMAIN live) + RowDelta(live, key)
        /\ Bytes(table', DOMAIN live \cup {key})
              = Bytes(live, DOMAIN live) + ByteDelta(live, key, bytes)
    <3>1. DOMAIN live \in SUBSET DOMAIN live
      OBVIOUS
    <3> QED
      BY <1>2, <1>5, <1>7, <3>1, UsageAfter
  <2> QED
    BY <1>2, <1>3, <2>1
<1>9. /\ Cardinality(RowsOf(s, table')) <= max_session_rows
      /\ Bytes(table', RowsOf(s, table')) <= max_session_bytes
  <2> HIDE DEF key, s
  <2>1. /\ Cardinality(RowsOf(s, live) \cup {key})
              = Cardinality(RowsOf(s, live)) + RowDelta(live, key)
        /\ Bytes(table', RowsOf(s, live) \cup {key})
              = Bytes(live, RowsOf(s, live)) + ByteDelta(live, key, bytes)
    BY <1>2, <1>5, <1>6, <1>7, UsageAfter
  <2> QED
    BY <1>3, <1>6, <2>1
<1>10. ASSUME NEW t \in Scopes
       PROVE  /\ Cardinality(RowsOf(t, table')) <= max_session_rows
              /\ Bytes(table', RowsOf(t, table')) <= max_session_bytes
  <2>1. CASE t = s
    BY <1>9, <2>1
  <2>2. CASE t # s
    <3>1. RowsOf(t, table') \in SUBSET RowsOf(t, table)
      BY <1>2, <2>2 DEF RowsOf
    <3>2. SameSizes(table', table, RowsOf(t, table'))
      BY <1>2, <2>2 DEF RowsOf, SameSizes
    <3> QED
      BY <1>4, <3>1, <3>2, ScopeFits
  <2> QED
    BY <2>1, <2>2
<1> QED
  BY <1>8, <1>10 DEF QuotaHolds, RowsOf, Bytes

LEMMA QuotaStep == TableInv /\ QuotaHolds /\ [Next]_vars => QuotaHolds'
<1> SUFFICES ASSUME TableInv, QuotaHolds, [Next]_vars PROVE QuotaHolds'
  OBVIOUS
<1>1. TypeOK
  BY DEF TableInv
<1>2. ASSUME NEW r \in Requests, NEW s \in Scopes, NEW mentioned \in SUBSET Calls,
             Send(r, s, mentioned)
      PROVE  QuotaHolds'
  <2>1. DOMAIN table' = DOMAIN table /\ SameSizes(table', table, DOMAIN table')
    BY <1>1, <1>2 DEF Send, Renewed, TypeOK, Rows, SameSizes
  <2> QED
    BY <1>1, <2>1, FewerRowsFit
<1>3. ASSUME NEW r \in Requests, ConnectionFails(r) \/ End(r)
      PROVE  QuotaHolds'
  <2>1. DOMAIN table' = DOMAIN table /\ SameSizes(table', table, DOMAIN table')
    BY <1>3 DEF ConnectionFails, End, SameSizes
  <2> QED
    BY <1>1, <2>1, FewerRowsFit
<1>4. ASSUME NEW r \in Requests, Answered(r)
      PROVE  QuotaHolds'
  <2>1. /\ DOMAIN table' \subseteq DOMAIN table
        /\ SameSizes(table', table, DOMAIN table')
    BY <1>4 DEF Answered, DeleteUnused, Without, SameSizes
  <2> QED
    BY <1>1, <2>1, FewerRowsFit
<1>5. ASSUME NEW r \in Requests, NEW c \in Calls, Deliver(r, c)
      PROVE  QuotaHolds'
  <2>1. DOMAIN table' = DOMAIN table /\ SameSizes(table', table, DOMAIN table')
    BY <1>5 DEF Deliver, SameSizes
  <2> QED
    BY <1>1, <2>1, FewerRowsFit
<1>6. CASE Cleanup
  <2>1. /\ DOMAIN table' \subseteq DOMAIN table
        /\ SameSizes(table', table, DOMAIN table')
    BY <1>6 DEF Cleanup, Without, SameSizes
  <2> QED
    BY <1>1, <2>1, FewerRowsFit
<1>7. CASE Restart \/ Tick
  <2>1. DOMAIN table' = DOMAIN table /\ SameSizes(table', table, DOMAIN table')
    BY <1>1, <1>7 DEF Restart, Tick, TypeOK, Rows, SameSizes
  <2> QED
    BY <1>1, <2>1, FewerRowsFit
<1>8. CASE UNCHANGED vars
  <2>1. DOMAIN table' = DOMAIN table /\ SameSizes(table', table, DOMAIN table')
    BY <1>8 DEF vars, SameSizes
  <2> QED
    BY <1>1, <2>1, FewerRowsFit
<1> QED
  BY <1>2, <1>3, <1>4, <1>5, <1>6, <1>7, <1>8, StoreFits DEF Next

-----------------------------------------------------------------------------
(* The theorems.                                                            *)

\* The inductive invariant holds at all times.
THEOREM TableInvariant == Spec => []TableInv
<1> QED
  BY TableInit, TableStep, PTL DEF Spec

\* The state is well typed, and a row is kept under the scope its call came from
\* (the primary key of persistence.py's table), however requests interleave.
THEOREM TableTypeCorrect == Spec => []TypeOK
<1>1. TableInv => TypeOK
  BY DEF TableInv
<1> QED
  BY <1>1, TableInvariant, PTL

\* A call that a client was given, and that is not forgotten, can be translated
\* back when its history returns (_load_persistent_tool_mappings).
THEOREM HistoryCorrect == Spec => []HistoryTranslatable
<1>1. TableInv => HistoryTranslatable
  <2> SUFFICES ASSUME TableInv, NEW c \in received, neglect[c] < Ttl
               PROVE  c \in Loaded(issued[c])
    BY DEF HistoryTranslatable
  <2>1. c \in Calls /\ issued[c] # NoScope
    BY DEF TableInv, TypeOK, IssuedInv
  <2> DEFINE key == <<issued[c], c>>
  <2>2. /\ key \in DOMAIN table /\ table[key].left + neglect[c] = Ttl
        /\ neglect[c] \in 0..Ttl /\ table[key] \in Rows
    BY <2>1 DEF TableInv, AgeInv, TypeOK
  <2>3. key \notin Expired
    BY <2>2, TtlAssumption DEF Expired, Rows
  <2> QED
    BY <2>1, <2>2, <2>3 DEF Loaded
<1> QED
  BY <1>1, TableInvariant, PTL

\* The limits of rows and of bytes, per scope and per owner, hold of the table that
\* every step leaves, so a restart never refuses what it finds: what
\* upsert_tool_call_mapping counts before it writes, and its deltas for a row that is
\* new, replaced or expired, add up to what is there afterwards.
THEOREM QuotaCorrect == Spec => []QuotaHolds
<1> QED
  BY QuotaInit, QuotaStep, TableInvariant, PTL DEF Spec
=============================================================================
