------------------------ MODULE AdminTestTasksProofs ------------------------
(***************************************************************************)
(* Proofs about AdminTestTasks, for any number of tests, any sizes of      *)
(* bodies and all limits.                                                  *)
(***************************************************************************)
EXTENDS AdminTestTasks, SequenceTheorems, FiniteSetTheorems, WellFoundedInduction, TLAPS

-----------------------------------------------------------------------------
(* Sums over finite sets.  MapThenSumSet is a recursive function that takes  *)
(* its set apart one CHOOSE at a time: what can be relied on whatever it     *)
(* chooses.  Facts about all the subsets of a set are proved by induction,   *)
(* stated for the set of the subsets that have the property.                 *)

Total(w, S) == MapThenSumSet(LAMBDA k : w[k], S)

\* A non-empty set of numbers has a least one.
LEMMA LeastOf ==
    ASSUME NEW T \in SUBSET Nat, T # {}
    PROVE  \E n \in T : \A m \in T : n <= m
<1>1. PICK n \in T : \A m \in T : <<m, n>> \notin OpToRel(<, Nat)
  BY NatLessThanWellFounded, WFMin
<1>2. \A m \in T : ~(m < n)
  BY <1>1 DEF OpToRel
<1> QED
  BY <1>2

\* What holds of 0, and of a number when it holds of the one before, holds up to n.
LEMMA PrefixInduction ==
    ASSUME NEW n \in Nat, NEW Good, 0 \in Good,
           \A i \in 1..n : i - 1 \in Good => i \in Good
    PROVE  \A i \in 0..n : i \in Good
<1> DEFINE Bad == (0..n) \ Good
<1> SUFFICES ASSUME Bad # {}
             PROVE  FALSE
  OBVIOUS
<1>1. PICK i \in Bad : \A j \in Bad : i <= j
  <2>1. Bad \in SUBSET Nat
    OBVIOUS
  <2> HIDE DEF Bad
  <2> QED
    BY <2>1, LeastOf
<1>2. i \in 1..n /\ i - 1 \in 0..n /\ ~(i <= i - 1)
  BY <1>1
<1> QED
  BY <1>1, <1>2

\* What holds of a subset when it holds of all the smaller ones holds of them all.
LEMMA SubsetInduction ==
    ASSUME NEW S, IsFiniteSet(S), NEW Good,
           \A s \in SUBSET S : (\A u \in SUBSET s : u # s => u \in Good) => s \in Good
    PROVE  S \in Good
<1> SUFFICES ASSUME S \notin Good
             PROVE  FALSE
  OBVIOUS
<1> DEFINE Bad == (SUBSET S) \ Good
           Counts == {Cardinality(s) : s \in Bad}
<1>1. \A s \in SUBSET S : IsFiniteSet(s) /\ Cardinality(s) \in Nat
  BY FS_Subset, FS_CardinalityType
<1>2. Counts \in SUBSET Nat /\ Counts # {}
  BY <1>1
<1>3. PICK n \in Counts : \A m \in Counts : n <= m
  <2> HIDE DEF Counts
  <2> QED
    BY <1>2, LeastOf
<1>4. PICK s \in Bad : Cardinality(s) = n
  BY <1>3
<1>5. ASSUME NEW u \in SUBSET s, u # s
      PROVE  u \in Good
  <2>1. Cardinality(u) < Cardinality(s) /\ IsFiniteSet(s) /\ u \in SUBSET S
    BY <1>1, <1>4, <1>5, FS_Subset
  <2>2. CASE u \in Bad
    BY <1>1, <1>3, <1>4, <2>1, <2>2
  <2> QED
    BY <2>1, <2>2
<1> QED
  BY <1>4, <1>5

Part(s) == CHOOSE x \in s : TRUE
Sums(g, w, S) ==
    g = [s \in SUBSET S |-> IF s = {} THEN 0 ELSE w[Part(s)] + g[s \ {Part(s)}]]

LEMMA TotalIsSums == ASSUME NEW w, NEW S PROVE Total(w, S) = (CHOOSE g : Sums(g, w, S))[S]
  BY DEF Total, MapThenSumSet, MapThenFoldSet, Sums, Part

LEMMA PartFacts == ASSUME NEW s, s # {} PROVE Part(s) \in s
  BY DEF Part

LEMMA SumsFacts ==
    ASSUME NEW g, NEW w, NEW S, Sums(g, w, S)
    PROVE  /\ g[{}] = 0
           /\ \A s \in SUBSET S : s # {} => g[s] = w[Part(s)] + g[s \ {Part(s)}]
  BY DEF Sums

\* Two of them agree where both are defined.
LEMMA SumsAgree ==
    ASSUME NEW w, NEW g, NEW h, NEW S, NEW T, Sums(g, w, S), Sums(h, w, T),
           IsFiniteSet(S), S \subseteq T
    PROVE  g[S] = h[S]
<1> DEFINE Good == {s \in SUBSET S : g[s] = h[s]}
<1>1. ASSUME NEW s \in SUBSET S, \A u \in SUBSET s : u # s => u \in Good
      PROVE  s \in Good
  <2>1. CASE s = {}
    BY <2>1, SumsFacts
  <2>2. CASE s # {}
    <3>1. s \ {Part(s)} \in SUBSET s /\ s \ {Part(s)} # s
      BY <2>2, PartFacts
    <3>2. g[s \ {Part(s)}] = h[s \ {Part(s)}]
      BY <1>1, <3>1
    <3>3. s \in SUBSET T
      OBVIOUS
    <3> QED
      BY <2>2, <3>2, <3>3, SumsFacts
  <2> QED
    BY <2>1, <2>2
<1> HIDE DEF Good
<1>2. S \in Good
  BY <1>1, SubsetInduction
<1> QED
  BY <1>2 DEF Good

LEMMA SumsExist == ASSUME NEW w, NEW S, IsFiniteSet(S) PROVE \E g : Sums(g, w, S)
<1> DEFINE Good == {s \in SUBSET S : \E g : Sums(g, w, s)}
<1>1. ASSUME NEW s \in SUBSET S, \A u \in SUBSET s : u # s => u \in Good
      PROVE  s \in Good
  <2> DEFINE of(u) == CHOOSE g : Sums(g, w, u)
             low(u) == of(u)[u]
             g == [u \in SUBSET s |->
                      IF u = {} THEN 0 ELSE w[Part(u)] + low(u \ {Part(u)})]
  <2>1. \A u \in SUBSET s : u # s => Sums(of(u), w, u)
    BY <1>1
  <2>2. \A u \in SUBSET s : u # {} => u \ {Part(u)} \in SUBSET s /\ u \ {Part(u)} # s
    BY PartFacts
  <2>3. ASSUME NEW u \in SUBSET s, u # s
        PROVE  low(u) = g[u]
    <3>1. Sums(of(u), w, u)
      BY <2>1, <2>3
    <3>2. CASE u = {}
      BY <3>1, <3>2, SumsFacts
    <3>3. CASE u # {}
      <4> DEFINE v == u \ {Part(u)}
      <4>1. v \in SUBSET s /\ v # s /\ v \subseteq u /\ IsFiniteSet(v)
        BY <2>2, <3>3, FS_Subset
      <4>2. Sums(of(v), w, v)
        BY <2>1, <4>1
      <4> HIDE DEF of, v
      <4>3. of(v)[v] = of(u)[v]
        BY <3>1, <4>1, <4>2, SumsAgree
      <4>4. of(u)[u] = w[Part(u)] + of(u)[v]
        BY <3>1, <3>3, SumsFacts DEF v
      <4> QED
        BY <3>3, <4>3, <4>4 DEF v
    <3> QED
      BY <3>2, <3>3
  <2> HIDE DEF low
  <2>4. g = [u \in SUBSET s |-> IF u = {} THEN 0 ELSE w[Part(u)] + g[u \ {Part(u)}]]
    <3>1. \A u \in SUBSET s : u # {} => low(u \ {Part(u)}) = g[u \ {Part(u)}]
      BY <2>2, <2>3
    <3> QED
      BY <3>1
  <2>5. Sums(g, w, s)
    <3> HIDE DEF g
    <3> QED
      BY <2>4 DEF Sums
  <2> QED
    BY <2>5
<1> HIDE DEF Good
<1>2. S \in Good
  BY <1>1, SubsetInduction
<1> QED
  BY <1>2 DEF Good

LEMMA TotalEmpty == ASSUME NEW w PROVE Total(w, {}) = 0
<1>1. Sums(CHOOSE g : Sums(g, w, {}), w, {})
  BY SumsExist, FS_EmptySet
<1> QED
  BY <1>1, TotalIsSums, SumsFacts

LEMMA TotalPart ==
    ASSUME NEW w, NEW S, IsFiniteSet(S), S # {}
    PROVE  Total(w, S) = w[Part(S)] + Total(w, S \ {Part(S)})
<1> DEFINE T == S \ {Part(S)}
           g == CHOOSE f : Sums(f, w, S)
           h == CHOOSE f : Sums(f, w, T)
<1>1. IsFiniteSet(T) /\ T \subseteq S
  BY FS_Subset
<1>2. Sums(g, w, S) /\ Sums(h, w, T)
  <2> HIDE DEF T
  <2> QED
    BY <1>1, SumsExist
<1>3. Total(w, S) = g[S] /\ Total(w, T) = h[T]
  <2> HIDE DEF T
  <2> QED
    BY TotalIsSums
<1> HIDE DEF g, h
<1>4. h[T] = g[T]
  <2> HIDE DEF T
  <2> QED
    BY <1>1, <1>2, SumsAgree
<1>5. g[S] = w[Part(S)] + g[T]
  BY <1>2, SumsFacts
<1> HIDE DEF T
<1>6. Total(w, S) = w[Part(S)] + Total(w, T)
  BY <1>3, <1>4, <1>5
<1> QED
  BY <1>6 DEF T

\* The sum of sizes is a size.
LEMMA TotalType ==
    ASSUME NEW w, NEW S, IsFiniteSet(S), \A k \in S : w[k] \in Nat
    PROVE  Total(w, S) \in Nat
<1> DEFINE Good == {s \in SUBSET S : Total(w, s) \in Nat}
<1>1. ASSUME NEW s \in SUBSET S, \A u \in SUBSET s : u # s => u \in Good
      PROVE  s \in Good
  <2>1. CASE s = {}
    BY <2>1, TotalEmpty
  <2>2. CASE s # {}
    <3>1. Part(s) \in s /\ IsFiniteSet(s)
      BY <2>2, PartFacts, FS_Subset
    <3>2. Total(w, s \ {Part(s)}) \in Nat /\ w[Part(s)] \in Nat
      BY <1>1, <3>1
    <3>3. Total(w, s) = w[Part(s)] + Total(w, s \ {Part(s)})
      BY <2>2, <3>1, TotalPart
    <3> QED
      BY <3>2, <3>3
  <2> QED
    BY <2>1, <2>2
<1> HIDE DEF Good
<1>2. S \in Good
  BY <1>1, SubsetInduction
<1> QED
  BY <1>2 DEF Good

\* It does not matter which element is taken out.
LEMMA TotalTake ==
    ASSUME NEW w, NEW S, IsFiniteSet(S), \A k \in S : w[k] \in Nat, NEW x \in S
    PROVE  Total(w, S) = w[x] + Total(w, S \ {x})
<1> DEFINE Good == {s \in SUBSET S : \A y \in s : Total(w, s) = w[y] + Total(w, s \ {y})}
<1>1. ASSUME NEW s \in SUBSET S, \A u \in SUBSET s : u # s => u \in Good
      PROVE  s \in Good
  <2> SUFFICES ASSUME NEW y \in s
               PROVE  Total(w, s) = w[y] + Total(w, s \ {y})
    OBVIOUS
  <2> DEFINE p == Part(s)
             u == s \ {p}
             v == s \ {y}
             both == s \ {p, y}
  <2>1. p \in s /\ IsFiniteSet(s) /\ u \in SUBSET s /\ v \in SUBSET s /\ both \in SUBSET s
    BY PartFacts, FS_Subset
  <2>2. Total(w, s) = w[p] + Total(w, u)
    BY <2>1, TotalPart
  <2>3. /\ w[p] \in Nat /\ w[y] \in Nat
        /\ Total(w, u) \in Nat /\ Total(w, v) \in Nat /\ Total(w, both) \in Nat
    <3> HIDE DEF u, v, both
    <3>1. \A r \in SUBSET s : Total(w, r) \in Nat
      BY <2>1, FS_Subset, TotalType
    <3> QED
      BY <2>1, <3>1
  <2>4. CASE y = p
    BY <2>2, <2>4
  <2>5. CASE y # p
    <3>1. u \in Good /\ v \in Good
      BY <1>1, <2>1
    <3>2. y \in u /\ p \in v /\ u \ {y} = both /\ v \ {p} = both
      BY <2>1, <2>5
    <3>3. Total(w, u) = w[y] + Total(w, both) /\ Total(w, v) = w[p] + Total(w, both)
      <4> HIDE DEF u, v, both, p
      <4> QED
        BY <3>1, <3>2
    <3> HIDE DEF u, v, both, p
    <3>4. Total(w, s) = w[y] + Total(w, v)
      BY <2>2, <2>3, <3>3
    <3> QED
      BY <3>4 DEF v
  <2> QED
    BY <2>4, <2>5
<1> HIDE DEF Good
<1>2. S \in Good
  BY <1>1, SubsetInduction
<1> QED
  BY <1>2 DEF Good

\* One element more.
LEMMA TotalAdd ==
    ASSUME NEW w, NEW S, IsFiniteSet(S), NEW x, x \notin S, \A k \in S \cup {x} : w[k] \in Nat
    PROVE  Total(w, S \cup {x}) = w[x] + Total(w, S)
<1>1. IsFiniteSet(S \cup {x}) /\ (S \cup {x}) \ {x} = S
  BY FS_AddElement
<1> QED
  BY <1>1, TotalTake

\* The sum over a part and the sum over the rest.
LEMMA TotalSplit ==
    ASSUME NEW w, NEW S, IsFiniteSet(S), \A k \in S : w[k] \in Nat, NEW T \in SUBSET S
    PROVE  Total(w, S) = Total(w, T) + Total(w, S \ T)
<1> DEFINE Good == {s \in SUBSET T : Total(w, S) = Total(w, s) + Total(w, S \ s)}
<1>1. ASSUME NEW s \in SUBSET T, \A u \in SUBSET s : u # s => u \in Good
      PROVE  s \in Good
  <2>1. CASE s = {}
    <3>1. S \ s = S /\ Total(w, s) = 0 /\ Total(w, S) \in Nat
      BY <2>1, TotalEmpty, TotalType
    <3> QED
      BY <3>1
  <2>2. CASE s # {}
    <3>1. PICK x \in s : TRUE
      BY <2>2
    <3> DEFINE u == s \ {x}
    <3>2. Total(w, S) = Total(w, u) + Total(w, S \ u)
      BY <1>1
    <3>3. IsFiniteSet(s) /\ IsFiniteSet(S \ u) /\ IsFiniteSet(u) /\ IsFiniteSet(S \ s)
      BY FS_Subset
    <3>4. Total(w, s) = w[x] + Total(w, u)
      BY <3>3, TotalTake
    <3>5. (S \ u) \ {x} = S \ s /\ x \in S \ u
      OBVIOUS
    <3>6. \A k \in S \ u : w[k] \in Nat
      OBVIOUS
    <3> HIDE DEF u
    <3>7. Total(w, S \ u) = w[x] + Total(w, S \ s)
      BY <3>3, <3>5, <3>6, TotalTake
    <3>8. Total(w, u) \in Nat /\ Total(w, S \ s) \in Nat /\ w[x] \in Nat
      BY <3>3, TotalType DEF u
    <3> QED
      BY <3>2, <3>4, <3>7, <3>8
  <2> QED
    BY <2>1, <2>2
<1>2. IsFiniteSet(T)
  BY FS_Subset
<1> HIDE DEF Good
<1>3. T \in Good
  BY <1>1, <1>2, SubsetInduction
<1> QED
  BY <1>3 DEF Good

\* Nothing weighs anything.
LEMMA TotalZero ==
    ASSUME NEW w, NEW S, IsFiniteSet(S), \A k \in S : w[k] = 0
    PROVE  Total(w, S) = 0
<1> DEFINE Good == {s \in SUBSET S : Total(w, s) = 0}
<1>1. ASSUME NEW s \in SUBSET S, \A u \in SUBSET s : u # s => u \in Good
      PROVE  s \in Good
  <2>1. CASE s = {}
    BY <2>1, TotalEmpty
  <2>2. CASE s # {}
    <3>1. Part(s) \in s /\ IsFiniteSet(s)
      BY <2>2, PartFacts, FS_Subset
    <3>2. Total(w, s \ {Part(s)}) = 0 /\ w[Part(s)] = 0
      BY <1>1, <3>1
    <3>3. Total(w, s) = w[Part(s)] + Total(w, s \ {Part(s)})
      BY <2>2, <3>1, TotalPart
    <3> QED
      BY <3>2, <3>3
  <2> QED
    BY <2>1, <2>2
<1> HIDE DEF Good
<1>2. S \in Good
  BY <1>1, SubsetInduction
<1> QED
  BY <1>2 DEF Good
-----------------------------------------------------------------------------

(* A pending record has a task that works for it because whatever stops a  *)
(* task ends its record in the same step: no pending test is being         *)
(* cancelled, and a store that is closed has no records.                   *)

Places == {"absent", "running", "responded", "failed", "stopping", "ended"}

IdsInv ==
    /\ started \in 0..MaxTasks
    /\ Stored \subseteq 1..started /\ cancelling \subseteq 1..started
CoroutinesInv ==
    /\ coroutine \in [Ids -> Places]
    /\ \A t \in 1..started : coroutine[t] # "absent"
PendingInv ==
    /\ PendingIsBacked
    /\ Active \cap cancelling = {}
    /\ closed => Stored = {}
BackedInv == IdsInv /\ CoroutinesInv /\ PendingInv

LEMMA BackedInit == Init => BackedInv
<1> SUFFICES ASSUME Init
             PROVE  BackedInv
  OBVIOUS
<1>1. Stored = {} /\ Active = {}
  BY DEF Init, Stored, Active
<1>2. started = 0 /\ cancelling = {} /\ coroutine = [t \in Ids |-> "absent"]
  BY DEF Init
<1>3. 1..started = {}
  BY <1>2
<1> QED
  BY <1>1, <1>2, <1>3, LimitsAssumption
     DEF BackedInv, IdsInv, CoroutinesInv, PendingInv, PendingIsBacked, Places

\* Records that are only taken out, or finished, leave fewer pending ones.
LEMMA KeepFacts ==
    ASSUME NEW S \in SUBSET Stored, tasks' = Keep(tasks, S)
    PROVE  Stored' = S /\ Active' = Active \cap S
  BY DEF Keep, Stored, Active

LEMMA FinishedTasks ==
    ASSUME NEW t, NEW status, NEW body, status # "pending"
    PROVE  \E kept \in SUBSET Stored, final \in {Small, Retained(status, body)} :
               /\ final.status # "pending"
               /\ \/ Finished(t, status, body).tasks = [Keep(tasks, kept) EXCEPT ![t] = final]
                  \/ Finished(t, status, body).tasks = Keep(tasks, kept \ {t})
<1> DEFINE record == Retained(status, body)
           others == Without(order, {t})
           left(k) == completed_bytes - tasks[t].bytes - BytesOf(ToSet(SubSeq(others, 1, k)))
           enough == {k \in 0..Len(others) : left(k) + record.bytes <= MaxCompletedBytes}
           evict == IF enough = {} THEN Len(others) ELSE Min(enough)
           final == IF enough = {} THEN Small ELSE record
           kept == Stored \ ToSet(SubSeq(others, 1, evict))
<1>1. \/ Finished(t, status, body).tasks = [Keep(tasks, kept) EXCEPT ![t] = final]
      \/ Finished(t, status, body).tasks = Keep(tasks, kept \ {t})
  BY DEF Finished
<1>2. record.status # "pending" /\ Small.status # "pending"
  BY DEF Retained, Small
<1> HIDE DEF record, evict, enough
<1>3. /\ final.status # "pending" /\ kept \in SUBSET Stored
      /\ final \in {Small, Retained(status, body)}
  BY <1>2 DEF record
<1> HIDE DEF final, kept
<1> QED
  BY <1>1, <1>3

LEMMA FinishFacts ==
    ASSUME BackedInv, NEW t, NEW status, NEW body, status # "pending", finish(t, status, body)
    PROVE  Stored' \subseteq Stored /\ Active' \subseteq Active \ {t}
<1>1. CASE t \notin Stored \/ closed
  <2>1. tasks' = tasks /\ t \notin Active
    BY <1>1 DEF finish, store, BackedInv, PendingInv, Active
  <2> QED
    BY <2>1 DEF Stored, Active
<1>2. CASE ~(t \notin Stored \/ closed)
  <2>1. tasks' = Finished(t, status, body).tasks
    BY <1>2 DEF finish
  <2>2. PICK kept \in SUBSET Stored, final \in {Small, Retained(status, body)} :
            /\ final.status # "pending"
            /\ \/ tasks' = [Keep(tasks, kept) EXCEPT ![t] = final]
               \/ tasks' = Keep(tasks, kept \ {t})
    BY <2>1, FinishedTasks
  <2>3. CASE tasks' = [Keep(tasks, kept) EXCEPT ![t] = final]
    <3>1. Stored' = kept
      BY <2>3 DEF Keep, Stored
    <3>2. \A i \in kept : tasks'[i] = IF i = t THEN final ELSE tasks[i]
      BY <2>3 DEF Keep
    <3> QED
      BY <2>2, <3>1, <3>2 DEF Active
  <2>4. CASE tasks' = Keep(tasks, kept \ {t})
    BY <2>4, KeepFacts
  <2> QED
    BY <2>2, <2>3, <2>4
<1> QED
  BY <1>1, <1>2

\* A step that starts nothing: who stays pending is not cancelled, and its task
\* stays where it works for the record.
LEMMA BackedMove ==
    ASSUME BackedInv, UNCHANGED started, Stored' \subseteq Stored, Active' \subseteq Active,
           coroutine' \in [Ids -> Places],
           \A t \in 1..started : coroutine'[t] # "absent",
           \A t \in Active' : coroutine'[t] \in {coroutine[t], "failed"},
           cancelling' \subseteq 1..started, Active' \cap cancelling' = {},
           closed' => closed \/ Stored' = {}
    PROVE  BackedInv'
<1>1. IdsInv'
  BY DEF BackedInv, IdsInv
<1>2. CoroutinesInv'
  BY DEF CoroutinesInv
<1>3. PendingInv'
  BY DEF BackedInv, PendingInv, PendingIsBacked
<1> QED
  BY <1>1, <1>2, <1>3 DEF BackedInv

\* Putting a task somewhere else.
LEMMA GotoFacts ==
    ASSUME BackedInv, NEW t \in Ids, NEW place \in Places \ {"absent"}, Goto(t, place)
    PROVE  /\ coroutine' \in [Ids -> Places]
           /\ \A i \in 1..started : coroutine'[i] # "absent"
           /\ coroutine'[t] = place
           /\ \A i \in Ids : i # t => coroutine'[i] = coroutine[i]
<1>1. 1..started \subseteq Ids
  BY LimitsAssumption DEF BackedInv, IdsInv, Ids
<1> QED
  BY <1>1 DEF Goto, BackedInv, CoroutinesInv

LEMMA IdsKnown == BackedInv => 1..started \subseteq Ids /\ Active \subseteq Stored /\ Stored \subseteq Ids
  BY LimitsAssumption DEF BackedInv, IdsInv, Ids, Active

LEMMA StepSweep ==
    ASSUME BackedInv, NEW cut, cleanup_expired(cut), UNCHANGED <<closed, started, coroutine>>
    PROVE  BackedInv'
<1>1. Stored' = Stored \ Expired(cut) /\ Active' = Active \ Expired(cut)
  <2>1. tasks' = Keep(tasks, Stored \ Expired(cut)) /\ Active \subseteq Stored
    BY DEF cleanup_expired, Active
  <2> QED
    BY <2>1, KeepFacts
<1>2. /\ cancelling' \subseteq 1..started /\ Active' \cap cancelling' = {}
  BY <1>1, IdsKnown DEF cleanup_expired, BackedInv, PendingInv, IdsInv
<1> QED
  BY <1>1, <1>2, BackedMove DEF BackedInv, CoroutinesInv

LEMMA StepStart == ASSUME BackedInv, NEW cut, start_test(cut) PROVE BackedInv'
<1> DEFINE t == started + 1
<1>1. /\ started \in Nat /\ t \in Ids /\ t \in 1..t /\ 1..started \subseteq 1..t
      /\ t \notin 1..started /\ \A i \in 1..t : i = t \/ i \in 1..started
      /\ started' = t /\ started' \in 0..MaxTasks
  BY LimitsAssumption DEF BackedInv, IdsInv, Ids, start_test
<1>2. PICK S \in SUBSET (Stored \ Expired(cut)) :
          tasks' = [i \in S \cup {t} |->
                       IF i = t THEN [status |-> "pending", bytes |-> 0] ELSE tasks[i]]
  <2> DEFINE left == Stored \ Expired(cut)
             done == Without(order, Expired(cut))
             evicted == ToSet(SubSeq(done, 1, Surplus(Cardinality(left))))
  <2>1. tasks' = [i \in (left \ evicted) \cup {t} |->
                     IF i = t THEN [status |-> "pending", bytes |-> 0] ELSE tasks[i]]
    BY DEF start_test
  <2>2. left \ evicted \in SUBSET (Stored \ Expired(cut))
    OBVIOUS
  <2> HIDE DEF left, evicted
  <2> QED
    BY <2>1, <2>2
<1>3. /\ cancelling' = cancelling \cup (Expired(cut) \cap Active)
      /\ coroutine' = [coroutine EXCEPT ![t] = "running"]
      /\ closed' = closed /\ ~closed
  BY DEF start_test
<1>4. t \notin Stored /\ t \notin cancelling /\ t \notin Active
  BY <1>1, IdsKnown DEF BackedInv, IdsInv
<1>5. Stored' = S \cup {t} /\ Active' \subseteq (Active \ Expired(cut)) \cup {t}
  <2>1. Stored' = S \cup {t}
    BY <1>2 DEF Stored
  <2>2. \A i \in S : i # t /\ tasks'[i] = tasks[i]
    BY <1>2, <1>4
  <2> QED
    BY <2>1, <2>2 DEF Active
<1> HIDE DEF t
<1>6. IdsInv'
  <2>1. Stored \subseteq 1..started /\ cancelling \subseteq 1..started /\ Active \subseteq Stored
    BY IdsKnown DEF BackedInv, IdsInv
  <2>2. Stored' \subseteq 1..t /\ cancelling' \subseteq 1..t
    BY <1>1, <1>2, <1>3, <1>5, <2>1
  <2> QED
    BY <1>1, <2>2 DEF IdsInv
<1>7. CoroutinesInv'
  BY <1>1, <1>3 DEF BackedInv, CoroutinesInv, Places
<1>8. Active' \cap cancelling' = {}
  BY <1>3, <1>4, <1>5 DEF BackedInv, PendingInv
<1>9. PendingIsBacked'
  <2> SUFFICES ASSUME NEW i \in Active'
               PROVE  coroutine'[i] \in {"running", "failed"}
    BY DEF PendingIsBacked
  <2>1. coroutine \in [Ids -> Places] /\ i \in Ids
    BY <1>1, <1>5, IdsKnown DEF BackedInv, CoroutinesInv
  <2>2. i # t => i \in Active
    BY <1>5
  <2> QED
    BY <1>3, <2>1, <2>2 DEF BackedInv, PendingInv, PendingIsBacked
<1> QED
  BY <1>3, <1>6, <1>7, <1>8, <1>9 DEF BackedInv, PendingInv

LEMMA StepCancel == ASSUME BackedInv, NEW t \in Ids, cancel_test(t) PROVE BackedInv'
<1>1. Stored' \subseteq Stored /\ Active' \subseteq Active \ {t}
  BY FinishFacts DEF cancel_test
<1>2. /\ cancelling' = cancelling \cup {t} /\ t \in 1..started
      /\ UNCHANGED <<closed, started, coroutine>>
  BY IdsKnown DEF cancel_test, BackedInv, IdsInv
<1> QED
  BY <1>1, <1>2, BackedMove DEF BackedInv, IdsInv, CoroutinesInv, PendingInv

LEMMA StepRun == ASSUME BackedInv, NEW t \in Ids, Run(t) PROVE BackedInv'
<1>1. /\ UNCHANGED <<closed, started, cancelling>>
      /\ Active \subseteq Ids
  BY IdsKnown DEF Run, Response, RequestFails, ClientClosed
<1>2. CASE Response(t) \/ ClientClosed(t)
  <2>1. Stored' \subseteq Stored /\ Active' \subseteq Active \ {t}
    <3>1. CASE UNCHANGED store /\ coroutine[t] = "responded"
      BY <3>1 DEF store, Stored, Active, BackedInv, PendingInv, PendingIsBacked
    <3>2. CASE \E status \in {"done", "error", "cancelled"} : \E body : finish(t, status, body)
      BY <3>2, FinishFacts
    <3> QED
      BY <1>2, <3>1, <3>2 DEF Response, ClientClosed
  <2>2. Goto(t, "responded") \/ Goto(t, "ended")
    BY <1>2 DEF Response, ClientClosed
  <2>3. /\ coroutine' \in [Ids -> Places]
        /\ \A i \in 1..started : coroutine'[i] # "absent"
        /\ \A i \in Ids : i # t => coroutine'[i] = coroutine[i]
    BY <2>2, GotoFacts DEF Places
  <2> QED
    BY <1>1, <2>1, <2>3, BackedMove DEF BackedInv, IdsInv, PendingInv
<1>3. CASE RequestFails(t)
  <2>1. Stored' = Stored /\ Active' = Active
    BY <1>3 DEF RequestFails, store, Stored, Active
  <2>2. /\ coroutine' \in [Ids -> Places]
        /\ \A i \in 1..started : coroutine'[i] # "absent"
        /\ coroutine'[t] = "failed"
        /\ \A i \in Ids : i # t => coroutine'[i] = coroutine[i]
    BY <1>3, GotoFacts DEF RequestFails, Places
  <2> QED
    BY <1>1, <2>1, <2>2, BackedMove DEF BackedInv, IdsInv, PendingInv
<1> QED
  BY <1>2, <1>3 DEF Run

LEMMA StepCancelDelivered == ASSUME BackedInv, NEW t \in Ids, CancelDelivered(t) PROVE BackedInv'
<1>1. /\ UNCHANGED <<closed, started>> /\ cancelling' = cancelling \ {t}
      /\ t \in cancelling /\ t \notin Active /\ Active \subseteq Ids
      /\ coroutine[t] \in Places \ {"absent"}
  BY IdsKnown DEF CancelDelivered, BackedInv, IdsInv, PendingInv, CoroutinesInv
<1>2. /\ UNCHANGED store \/ finish(t, "cancelled", 0)
      /\ coroutine' = coroutine \/ Goto(t, "stopping") \/ Goto(t, "ended")
  BY <1>1 DEF CancelDelivered, Places
<1>3. Stored' \subseteq Stored /\ Active' \subseteq Active
  <2>1. CASE UNCHANGED store
    BY <2>1 DEF store, Stored, Active
  <2>2. CASE finish(t, "cancelled", 0)
    BY <2>2, FinishFacts
  <2> QED
    BY <1>2, <2>1, <2>2
<1>4. /\ coroutine' \in [Ids -> Places]
      /\ \A i \in 1..started : coroutine'[i] # "absent"
      /\ \A i \in Ids : i # t => coroutine'[i] = coroutine[i]
  BY <1>2, GotoFacts DEF Places, BackedInv, CoroutinesInv
<1> QED
  BY <1>1, <1>3, <1>4, BackedMove DEF BackedInv, IdsInv, PendingInv

LEMMA StepShutdown == ASSUME BackedInv, shutdown PROVE BackedInv'
<1>1. Stored' = {} /\ Active' = {}
  BY DEF shutdown, Stored, Active
<1>2. cancelling' \subseteq 1..started /\ UNCHANGED <<started, coroutine>>
  BY IdsKnown DEF shutdown, BackedInv, IdsInv
<1> QED
  BY <1>1, <1>2, BackedMove DEF BackedInv, CoroutinesInv

LEMMA BackedStutter ==
    ASSUME BackedInv, UNCHANGED <<store, closed, started, coroutine, cancelling>>
    PROVE  BackedInv'
  BY DEF store, BackedInv, IdsInv, CoroutinesInv, PendingInv, PendingIsBacked, Stored, Active

LEMMA BackedStep == BackedInv /\ [Next]_vars => BackedInv'
<1> SUFFICES ASSUME BackedInv, [Next]_vars
             PROVE  BackedInv'
  OBVIOUS
<1>1. ASSUME NEW cut, start_test_refused(cut) \/ get_test_result(cut)
      PROVE  BackedInv'
  BY <1>1, StepSweep DEF start_test_refused, get_test_result
<1>2. ASSUME NEW cut, start_test(cut)
      PROVE  BackedInv'
  BY <1>2, StepStart
<1>3. ASSUME NEW t \in Ids, cancel_test(t) \/ Run(t) \/ CancelDelivered(t)
      PROVE  BackedInv'
  BY <1>3, StepCancel, StepRun, StepCancelDelivered
<1>4. CASE shutdown
  BY <1>4, StepShutdown
<1>5. CASE Gathered \/ Stopped \/ UNCHANGED vars
  BY <1>5, BackedStutter DEF Gathered, Stopped, vars
<1> QED
  BY <1>1, <1>2, <1>3, <1>4, <1>5 DEF Next

\* Every pending record has a task that will report to it, however cancellations,
\* expiry, failures and the shutdown interleave with the tasks: a slot is never
\* held by a test that is over (AdminTestTaskStore and _run_test_task).
THEOREM BackedCorrect == Spec => []PendingIsBacked
<1>1. BackedInv => PendingIsBacked
  BY DEF BackedInv, PendingInv
<1> QED
  BY <1>1, BackedInit, BackedStep, PTL DEF Spec

-----------------------------------------------------------------------------
(* Sequences without repetition, and what is taken out of them. *)

IsUpTo(F, s, S, n) ==
    F = [i \in 0..n |-> IF i = 0 THEN <<>>
                        ELSE IF s[i] \in S THEN F[i - 1] ELSE Append(F[i - 1], s[i])]

\* The recursive function that defines Without exists.
LEMMA WithoutExists == ASSUME NEW s, NEW S, NEW n \in Nat PROVE \E F : IsUpTo(F, s, S, n)
<1> DEFINE Good == {m \in 0..n : \E F : IsUpTo(F, s, S, m)}
<1>1. 0 \in Good
  <2>1. IsUpTo([i \in 0..0 |-> <<>>], s, S, 0)
    BY DEF IsUpTo
  <2> QED
    BY <2>1
<1>2. ASSUME NEW m \in 1..n, m - 1 \in Good
      PROVE  m \in Good
  <2>1. PICK F : IsUpTo(F, s, S, m - 1)
    BY <1>2
  <2>2. F = [i \in 0..m - 1 |-> IF i = 0 THEN <<>>
                 ELSE IF s[i] \in S THEN F[i - 1] ELSE Append(F[i - 1], s[i])]
    BY <2>1 DEF IsUpTo
  <2> DEFINE G == [i \in 0..m |-> IF i = 0 THEN <<>>
                      ELSE IF s[i] \in S THEN F[i - 1] ELSE Append(F[i - 1], s[i])]
  <2>3. \A i \in 0..m - 1 : i \in 0..m /\ G[i] = F[i]
    <3> SUFFICES ASSUME NEW i \in 0..m - 1
                 PROVE  i \in 0..m /\ G[i] = F[i]
      OBVIOUS
    <3>1. i \in 0..m
      OBVIOUS
    <3>2. F[i] = IF i = 0 THEN <<>>
                 ELSE IF s[i] \in S THEN F[i - 1] ELSE Append(F[i - 1], s[i])
      BY <2>2
    <3> QED
      BY <3>1, <3>2
  <2>4. \A i \in 0..m : i # 0 => i - 1 \in 0..m - 1
    OBVIOUS
  <2>5. \A i \in 0..m : i # 0 => G[i - 1] = F[i - 1]
    <3> HIDE DEF G
    <3> QED
      BY <2>3, <2>4
  <2>6. G = [i \in 0..m |-> IF i = 0 THEN <<>>
                 ELSE IF s[i] \in S THEN G[i - 1] ELSE Append(G[i - 1], s[i])]
    BY <2>5
  <2> HIDE DEF G
  <2>7. IsUpTo(G, s, S, m)
    BY <2>6 DEF IsUpTo
  <2> QED
    BY <2>7
<1> HIDE DEF Good
<1>3. n \in Good
  <2>1. \A m \in 0..n : m \in Good
    BY <1>1, <1>2, PrefixInduction
  <2> QED
    BY <2>1
<1> QED
  BY <1>3 DEF Good

\* A sequence over T without repetition, with just these elements.
Lists(f, T, elements) == f \in Seq(T) /\ IsInjective(f) /\ ToSet(f) = elements

LEMMA ListsEmpty == ASSUME NEW T PROVE Lists(<<>>, T, {})
  BY DEF Lists, IsInjective, ToSet

LEMMA ListsAppend ==
    ASSUME NEW T, NEW f, NEW elements, Lists(f, T, elements), NEW x \in T, x \notin elements
    PROVE  Lists(Append(f, x), T, elements \cup {x})
<1>1. f \in Seq(T) /\ IsInjective(f) /\ ToSet(f) = elements
  BY DEF Lists
<1>2. /\ Append(f, x) \in Seq(T) /\ Len(f) \in Nat
      /\ DOMAIN f = 1..Len(f) /\ DOMAIN Append(f, x) = 1..Len(f) + 1
      /\ \A k \in 1..Len(f) : Append(f, x)[k] = f[k]
      /\ Append(f, x)[Len(f) + 1] = x
  BY <1>1, AppendProperties
<1>3. \A k \in 1..Len(f) + 1 : k \in 1..Len(f) \/ k = Len(f) + 1
  BY <1>2
<1>4. \A k \in 1..Len(f) : f[k] # x /\ k \in 1..Len(f) + 1
  BY <1>1, <1>2 DEF ToSet
<1>5. ToSet(Append(f, x)) = elements \cup {x}
  BY <1>1, <1>2, <1>3, <1>4 DEF ToSet
<1>6. IsInjective(Append(f, x))
  BY <1>1, <1>2, <1>3, <1>4 DEF IsInjective
<1> QED
  BY <1>2, <1>5, <1>6 DEF Lists

\* What is left has the other elements, none of them twice.
LEMMA WithoutFacts ==
    ASSUME NEW T, NEW s, NEW elements, Lists(s, T, elements), NEW S
    PROVE  Lists(Without(s, S), T, elements \ S)
<1> DEFINE F == CHOOSE G : IsUpTo(G, s, S, Len(s))
           n == Len(s)
           upto(i) == {s[j] : j \in 1..i}
           Good == {i \in 0..n : Lists(F[i], T, upto(i) \ S)}
<1>1. Without(s, S) = F[n]
  BY DEF Without, IsUpTo
<1>2. /\ n \in Nat /\ DOMAIN s = 1..n /\ (\A i \in 1..n : s[i] \in T)
      /\ (\A i, j \in 1..n : s[i] = s[j] => i = j)
      /\ elements = upto(n)
  BY DEF Lists, IsInjective, ToSet
<1>3. IsUpTo(F, s, S, n)
  BY <1>2, WithoutExists
<1> HIDE DEF F, n
<1>4. F[0] = <<>> /\ \A i \in 1..n : F[i] = IF s[i] \in S THEN F[i - 1] ELSE Append(F[i - 1], s[i])
  <2>1. F = [i \in 0..n |-> IF i = 0 THEN <<>>
                 ELSE IF s[i] \in S THEN F[i - 1] ELSE Append(F[i - 1], s[i])]
    BY <1>3 DEF IsUpTo
  <2>2. \A i \in 0..n : F[i] = IF i = 0 THEN <<>>
                 ELSE IF s[i] \in S THEN F[i - 1] ELSE Append(F[i - 1], s[i])
    BY <2>1
  <2>3. 0 \in 0..n /\ \A i \in 1..n : i \in 0..n /\ i # 0
    BY <1>2
  <2> QED
    BY <2>2, <2>3
<1>5. 0 \in Good
  <2>1. upto(0) \ S = {} /\ 0 \in 0..n
    BY <1>2
  <2> QED
    BY <1>4, <2>1, ListsEmpty
<1>6. ASSUME NEW i \in 1..n, i - 1 \in Good
      PROVE  i \in Good
  <2>1. Lists(F[i - 1], T, upto(i - 1) \ S) /\ i \in 0..n /\ s[i] \in T
    BY <1>2, <1>6
  <2>2. upto(i) = upto(i - 1) \cup {s[i]} /\ s[i] \notin upto(i - 1)
    <3>1. (\A j \in 1..i : j \in 1..i - 1 \/ j = i) /\ i \in 1..i
          /\ \A j \in 1..i - 1 : j \in 1..i /\ j \in 1..n /\ j # i
      BY <1>2
    <3> QED
      BY <1>2, <3>1
  <2> HIDE DEF upto
  <2>3. CASE s[i] \in S
    <3>1. F[i] = F[i - 1] /\ upto(i) \ S = upto(i - 1) \ S
      BY <1>4, <2>2, <2>3
    <3> QED
      BY <2>1, <3>1
  <2>4. CASE s[i] \notin S
    <3>1. /\ F[i] = Append(F[i - 1], s[i]) /\ s[i] \notin upto(i - 1) \ S
          /\ upto(i) \ S = (upto(i - 1) \ S) \cup {s[i]}
      BY <1>4, <2>2, <2>4
    <3> DEFINE f == F[i - 1]
               x == s[i]
    <3>2. Lists(f, T, upto(i - 1) \ S) /\ x \in T /\ x \notin upto(i - 1) \ S
      BY <2>1, <3>1
    <3> HIDE DEF f, x
    <3>3. Lists(Append(f, x), T, (upto(i - 1) \ S) \cup {x})
      BY <3>2, ListsAppend
    <3> QED
      BY <2>1, <3>1, <3>3 DEF f, x
  <2> QED
    BY <2>3, <2>4
<1>7. \A i \in 0..n : i \in Good
  <2> HIDE DEF Good
  <2> QED
    BY <1>2, <1>5, <1>6, PrefixInduction
<1>8. Lists(F[n], T, upto(n) \ S)
  <2>1. n \in Good
    <3> HIDE DEF Good
    <3>1. n \in 0..n
      BY <1>2
    <3> QED
      BY <1>7, <3>1
  <2> HIDE DEF upto
  <2> QED
    BY <2>1
<1> QED
  BY <1>1, <1>2, <1>8

\* The first k elements and the others.
LEMMA FirstFacts ==
    ASSUME NEW T, NEW s, NEW elements, Lists(s, T, elements), NEW k \in 0..Len(s)
    PROVE  LET first == ToSet(SubSeq(s, 1, k))
           IN  /\ first \subseteq elements
               /\ IsFiniteSet(first) /\ Cardinality(first) = k
               /\ Lists(SubSeq(s, k + 1, Len(s)), T, elements \ first)
<1> DEFINE n == Len(s)
           before == {s[i] : i \in 1..k}
           rest == SubSeq(s, k + 1, n)
<1>1. /\ n \in Nat /\ k \in Nat /\ k <= n /\ n - k \in Nat
      /\ s \in Seq(T) /\ DOMAIN s = 1..n /\ (\A i \in 1..n : s[i] \in T)
      /\ (\A i, j \in 1..n : s[i] = s[j] => i = j)
      /\ elements = {s[i] : i \in 1..n}
      /\ \A i \in 1..k : i \in 1..n
  BY DEF Lists, IsInjective, ToSet
<1>2. ToSet(SubSeq(s, 1, k)) = before
  <2>1. SubSeq(s, 1, k) = [i \in 1..k |-> s[i]]
    BY <1>1
  <2> QED
    BY <2>1 DEF ToSet
<1>3. IsFiniteSet(before) /\ Cardinality(before) = k
  <2> DEFINE f == [i \in 1..k |-> s[i]]
  <2>1. IsFiniteSet(1..k) /\ Cardinality(1..k) = k
    BY <1>1, FS_Interval
  <2>2. f \in [1..k -> before] /\ (\A y \in before : \E i \in 1..k : f[i] = y)
    OBVIOUS
  <2>3. \A i, j \in 1..k : f[i] = f[j] => i = j
    BY <1>1
  <2> HIDE DEF f, before
  <2>4. f \in Bijection(1..k, before)
    BY <2>2, <2>3 DEF Bijection, Injection, Surjection, IsInjective
  <2>5. ExistsBijection(1..k, before)
    BY <2>4 DEF ExistsBijection
  <2> QED
    BY <2>1, <2>5, FS_Bijection
<1>4. /\ rest \in Seq(T) /\ DOMAIN rest = 1..n - k
      /\ \A i \in 1..n - k : rest[i] = s[k + i]
  <2>1. /\ \A i \in k + 1..n : s[i] \in T
        /\ k + 1 \in Int /\ n \in Int
    BY <1>1
  <2>2. /\ rest \in Seq(T)
        /\ Len(rest) = IF k + 1 <= n THEN n - (k + 1) + 1 ELSE 0
        /\ \A i \in 1..n - (k + 1) + 1 : rest[i] = s[k + 1 + i - 1]
    BY <1>1, <2>1, SubSeqProperties
  <2>3. Len(rest) = n - k /\ n - (k + 1) + 1 = n - k
    <3> HIDE DEF rest, n
    <3>1. n - (k + 1) + 1 = n - k /\ ((k + 1 <= n) \/ n - k = 0)
      BY <1>1
    <3> QED
      BY <2>2, <3>1
  <2>4. \A i \in 1..n - k : k + 1 + i - 1 = k + i
    BY <1>1
  <2> HIDE DEF rest
  <2> QED
    BY <2>2, <2>3, <2>4
<1>5. /\ \A i \in 1..n - k : k + i \in 1..n /\ k + i \notin 1..k
      /\ \A j \in 1..n : j \notin 1..k => j - k \in 1..n - k /\ k + (j - k) = j
      /\ \A i, j \in 1..n - k : k + i = k + j => i = j
  BY <1>1
<1> HIDE DEF rest, n
<1>6. IsInjective(rest)
  BY <1>1, <1>4, <1>5 DEF IsInjective
<1>7. ToSet(rest) = elements \ before
  <2>1. ASSUME NEW x \in ToSet(rest)
        PROVE  x \in elements \ before
    <3>1. PICK i \in 1..n - k : x = s[k + i]
      BY <1>4, <2>1 DEF ToSet
    <3> QED
      BY <1>1, <1>5, <3>1
  <2>2. ASSUME NEW x \in elements \ before
        PROVE  x \in ToSet(rest)
    <3>1. PICK j \in 1..n : x = s[j] /\ j \notin 1..k
      BY <1>1, <2>2
    <3>2. j - k \in 1..n - k /\ rest[j - k] = x
      BY <1>4, <1>5, <3>1
    <3> QED
      BY <1>4, <3>2 DEF ToSet
  <2> QED
    BY <2>1, <2>2
<1>8. before \subseteq elements
  BY <1>1
<1>9. Lists(rest, T, elements \ before)
  BY <1>4, <1>6, <1>7 DEF Lists
<1> QED
  BY <1>2, <1>3, <1>8, <1>9 DEF rest, n

-----------------------------------------------------------------------------
(* What records weigh. *)

Weight(f, S) == MapThenSumSet(LAMBDA t : f[t].bytes, S)

LEMMA WeightIsTotal ==
    ASSUME NEW f, NEW S, NEW w, \A t \in S : w[t] = f[t].bytes
    PROVE  Weight(f, S) = Total(w, S)
<1> DEFINE IsIt(g) == g = [s \in SUBSET S |->
                              IF s = {} THEN 0 ELSE f[Part(s)].bytes + g[s \ {Part(s)}]]
<1>1. Weight(f, S) = (CHOOSE g : IsIt(g))[S]
  BY DEF Weight, MapThenSumSet, MapThenFoldSet, Part
<1>2. \A g : IsIt(g) <=> Sums(g, w, S)
  <2>1. \A s \in SUBSET S : s # {} => f[Part(s)].bytes = w[Part(s)]
    BY PartFacts
  <2> HIDE DEF Part
  <2> QED
    BY <2>1 DEF Sums
<1> HIDE DEF IsIt
<1>3. (CHOOSE g : IsIt(g)) = (CHOOSE g : Sums(g, w, S))
  BY <1>2
<1> QED
  BY <1>1, <1>3, TotalIsSums

LEMMA WeightFacts ==
    ASSUME NEW f, NEW S, NEW G, IsFiniteSet(S), G \subseteq S, \A t \in S : f[t].bytes \in Nat
    PROVE  /\ Weight(f, S) \in Nat /\ Weight(f, G) \in Nat /\ Weight(f, S \ G) \in Nat
           /\ Weight(f, S) = Weight(f, G) + Weight(f, S \ G)
<1> DEFINE w == [t \in S |-> f[t].bytes]
<1>1. IsFiniteSet(G) /\ IsFiniteSet(S \ G)
  BY FS_Subset
<1>2. \A t \in S : w[t] = f[t].bytes /\ w[t] \in Nat
  OBVIOUS
<1> HIDE DEF w
<1>3. Weight(f, S) = Total(w, S) /\ Weight(f, G) = Total(w, G) /\ Weight(f, S \ G) = Total(w, S \ G)
  BY <1>2, WeightIsTotal
<1>4. Total(w, S) = Total(w, G) + Total(w, S \ G)
  BY <1>2, TotalSplit
<1>5. Total(w, S) \in Nat /\ Total(w, G) \in Nat
  BY <1>1, <1>2, TotalType
<1>6. Total(w, S \ G) \in Nat
  BY <1>1, <1>2, TotalType
<1> QED
  BY <1>3, <1>4, <1>5, <1>6

LEMMA WeightSame ==
    ASSUME NEW f, NEW g, NEW S, \A t \in S : f[t] = g[t]
    PROVE  Weight(f, S) = Weight(g, S)
<1> DEFINE w == [t \in S |-> f[t].bytes]
<1>1. \A t \in S : w[t] = f[t].bytes /\ w[t] = g[t].bytes
  OBVIOUS
<1> HIDE DEF w
<1> QED
  BY <1>1, WeightIsTotal

\* A record more.
LEMMA WeightAdd ==
    ASSUME NEW f, NEW S, IsFiniteSet(S), NEW t, t \notin S,
           \A i \in S \cup {t} : f[i].bytes \in Nat
    PROVE  Weight(f, S \cup {t}) = f[t].bytes + Weight(f, S)
<1> DEFINE w == [i \in S \cup {t} |-> f[i].bytes]
<1>1. \A i \in S \cup {t} : w[i] = f[i].bytes /\ w[i] \in Nat
  OBVIOUS
<1> HIDE DEF w
<1> DEFINE more == S \cup {t}
<1>2. (\A i \in more : w[i] = f[i].bytes) /\ (\A i \in S : w[i] = f[i].bytes)
  BY <1>1
<1> HIDE DEF more
<1>3. Weight(f, more) = Total(w, more) /\ Weight(f, S) = Total(w, S)
  BY <1>2, WeightIsTotal
<1>4. Total(w, more) = w[t] + Total(w, S)
  BY <1>1, TotalAdd DEF more
<1> QED
  BY <1>1, <1>3, <1>4 DEF more

LEMMA WeightZero ==
    ASSUME NEW f, NEW S, IsFiniteSet(S), \A t \in S : f[t].bytes = 0
    PROVE  Weight(f, S) = 0
<1> DEFINE w == [t \in S |-> f[t].bytes]
<1>1. \A t \in S : w[t] = f[t].bytes /\ w[t] = 0
  OBVIOUS
<1> HIDE DEF w
<1> QED
  BY <1>1, WeightIsTotal, TotalZero

LEMMA BytesIsWeight ==
    ASSUME NEW S
    PROVE  BytesOf(S) = Weight(tasks, S)
  BY DEF BytesOf, Weight

-----------------------------------------------------------------------------
(* The books of the store. *)

Statuses == {"pending", "done", "error", "cancelled"}
Terminal == Statuses \ {"pending"}
Results == [status : Terminal, bytes : Nat]
RecordsInv ==
    \A t \in Stored : /\ tasks[t].status \in Statuses /\ tasks[t].bytes \in Nat
                      /\ tasks[t].status = "pending" => tasks[t].bytes = 0
OrderInv == Lists(order, Ids, Stored \ Active)
BudgetInv == completed_bytes = Weight(tasks, Stored) /\ completed_bytes <= MaxCompletedBytes
StoreInv == RecordsInv /\ OrderInv /\ BudgetInv /\ CountsBounded

LEMMA StoredFacts ==
    ASSUME BackedInv, StoreInv
    PROVE  /\ IsFiniteSet(Stored) /\ Stored \subseteq Ids /\ Active \subseteq Stored
           /\ \A t \in Stored : tasks[t].bytes \in Nat
           /\ \A t \in Active : tasks[t].bytes = 0
           /\ completed_bytes \in Nat
<1>1. Stored \subseteq Ids /\ Active \subseteq Stored
  BY IdsKnown
<1>2. IsFiniteSet(Ids)
  BY FS_Interval, LimitsAssumption DEF Ids
<1>3. IsFiniteSet(Stored)
  BY <1>1, <1>2, FS_Subset
<1>4. \A t \in Stored : tasks[t].bytes \in Nat
  BY DEF StoreInv, RecordsInv
<1>5. Weight(tasks, Stored) \in Nat
  <2>1. Stored \in SUBSET Stored
    OBVIOUS
  <2> QED
    BY <1>3, <1>4, <2>1, WeightFacts
<1> QED
  BY <1>1, <1>3, <1>4, <1>5 DEF StoreInv, RecordsInv, BudgetInv, Active

LEMMA StoredSplit ==
    ASSUME BackedInv, StoreInv, NEW S \in SUBSET Stored, NEW G \in SUBSET S
    PROVE  /\ Weight(tasks, S) \in Nat /\ Weight(tasks, G) \in Nat /\ Weight(tasks, S \ G) \in Nat
           /\ Weight(tasks, S) = Weight(tasks, G) + Weight(tasks, S \ G)
<1>1. IsFiniteSet(S) /\ \A t \in S : tasks[t].bytes \in Nat
  <2>1. IsFiniteSet(Stored) /\ \A t \in Stored : tasks[t].bytes \in Nat
    BY StoredFacts
  <2> QED
    BY <2>1, FS_Subset
<1>2. G \subseteq S
  OBVIOUS
<1> QED
  BY <1>1, <1>2, WeightFacts

\* Fewer records are not more than the limits.
LEMMA CountsLess ==
    ASSUME BackedInv, StoreInv, Stored' \subseteq Stored, Active' \subseteq Active
    PROVE  CountsBounded'
<1>1. IsFiniteSet(Stored) /\ IsFiniteSet(Active)
  BY StoredFacts, FS_Subset
<1>2. /\ Cardinality(Stored') <= Cardinality(Stored) /\ Cardinality(Stored') \in Nat
      /\ Cardinality(Active') <= Cardinality(Active) /\ Cardinality(Active') \in Nat
      /\ Cardinality(Stored) \in Nat /\ Cardinality(Active) \in Nat
  BY <1>1, FS_Subset, FS_CardinalityType
<1> QED
  BY <1>2, LimitsAssumption DEF StoreInv, CountsBounded

\* Records are taken out, and with them their bytes and their places in the order.
LEMMA RemovedStore ==
    ASSUME BackedInv, StoreInv, NEW gone \in SUBSET Stored,
           tasks' = Keep(tasks, Stored \ gone), order' = Without(order, gone),
           completed_bytes' = completed_bytes - BytesOf(gone)
    PROVE  StoreInv'
<1>1. Stored' = Stored \ gone /\ Active' = Active \ gone /\ \A t \in Stored' : tasks'[t] = tasks[t]
  <2>1. Stored \ gone \in SUBSET Stored /\ Active \subseteq Stored
    BY StoredFacts
  <2> QED
    BY <2>1, KeepFacts DEF Keep
<1>2. RecordsInv'
  BY <1>1 DEF StoreInv, RecordsInv
<1>3. OrderInv'
  <2>1. Lists(Without(order, gone), Ids, (Stored \ Active) \ gone)
    BY WithoutFacts DEF StoreInv, OrderInv
  <2>2. (Stored \ Active) \ gone = Stored' \ Active'
    BY <1>1
  <2> QED
    BY <2>1, <2>2 DEF OrderInv
<1>4. BudgetInv'
  <2>1. /\ Weight(tasks, gone) \in Nat /\ Weight(tasks, Stored \ gone) \in Nat
        /\ Weight(tasks, Stored) = Weight(tasks, gone) + Weight(tasks, Stored \ gone)
    BY StoredSplit
  <2>2. Weight(tasks', Stored') = Weight(tasks, Stored \ gone)
    BY <1>1, WeightSame
  <2>3. completed_bytes' = completed_bytes - Weight(tasks, gone)
    BY BytesIsWeight
  <2> QED
    BY <2>1, <2>2, <2>3, LimitsAssumption DEF StoreInv, BudgetInv
<1>5. CountsBounded'
  BY <1>1, CountsLess
<1> QED
  BY <1>2, <1>3, <1>4, <1>5 DEF StoreInv

LEMMA StoreSweep == ASSUME BackedInv, StoreInv, NEW cut, cleanup_expired(cut) PROVE StoreInv'
<1>1. Expired(cut) \in SUBSET Stored
  BY DEF Expired
<1> QED
  BY <1>1, RemovedStore DEF cleanup_expired

\* All the elements of a sequence.
LEMMA FirstAll ==
    ASSUME NEW T, NEW s, NEW elements, Lists(s, T, elements)
    PROVE  ToSet(SubSeq(s, 1, Len(s))) = elements
<1> DEFINE n == Len(s)
           first == ToSet(SubSeq(s, 1, n))
<1>1. n \in Nat /\ n \in 0..n /\ n < n + 1 /\ n \in Int /\ n + 1 \in Int
  BY DEF Lists
<1>2. SubSeq(s, n + 1, n) = <<>>
  <2> HIDE DEF n
  <2> QED
    BY <1>1, SubSeqEmpty
<1>3. first \subseteq elements /\ Lists(SubSeq(s, n + 1, n), T, elements \ first)
  BY <1>1, FirstFacts
<1>4. ToSet(<<>>) = {}
  BY DEF ToSet
<1> QED
  BY <1>2, <1>3, <1>4 DEF Lists

\* What finish() keeps: the pending records of others, and as many of the completed
\* ones as leave room for the result, the newest.
LEMMA FinishedBooks ==
    ASSUME BackedInv, StoreInv, NEW t \in Stored, NEW status \in Terminal, NEW body \in Nat
    PROVE  \E kept \in SUBSET Stored, final \in Results :
              LET new == Finished(t, status, body)
                  weight == Weight(tasks, kept \ {t})
                  done == (kept \ Active) \ {t}
              IN  /\ Active \subseteq kept /\ t \in kept
                  /\ \/ /\ new.tasks = [Keep(tasks, kept) EXCEPT ![t] = final]
                        /\ Lists(new.order, Ids, done \cup {t})
                        /\ new.bytes = weight + final.bytes
                     \/ /\ new.tasks = Keep(tasks, kept \ {t})
                        /\ Lists(new.order, Ids, done)
                        /\ new.bytes = weight
                        /\ MetaSize > MaxCompletedBytes
                  /\ new.bytes <= MaxCompletedBytes
<1> DEFINE record == Retained(status, body)
           others == Without(order, {t})
           left(k) == completed_bytes - tasks[t].bytes - BytesOf(ToSet(SubSeq(others, 1, k)))
           enough == {k \in 0..Len(others) : left(k) + record.bytes <= MaxCompletedBytes}
           evict == IF enough = {} THEN Len(others) ELSE Min(enough)
           final == IF enough = {} THEN Small ELSE record
           first == ToSet(SubSeq(others, 1, evict))
           kept == Stored \ first
           rest == SubSeq(others, evict + 1, Len(others))
           weight == Weight(tasks, kept \ {t})
           done == (kept \ Active) \ {t}
           new == Finished(t, status, body)
<1>1. /\ left(evict) + final.bytes <= MaxCompletedBytes
          => /\ new.tasks = [Keep(tasks, kept) EXCEPT ![t] = final]
             /\ new.order = Append(rest, t)
             /\ new.bytes = left(evict) + final.bytes
      /\ ~(left(evict) + final.bytes <= MaxCompletedBytes)
          => /\ new.tasks = Keep(tasks, kept \ {t})
             /\ new.order = rest
             /\ new.bytes = left(evict)
  BY DEF Finished
<1>2. Lists(others, Ids, (Stored \ Active) \ {t})
  BY WithoutFacts DEF StoreInv, OrderInv
<1> HIDE DEF others, new
<1>3. Len(others) \in Nat
  BY <1>2 DEF Lists
<1>4. record \in Results /\ Small \in Results /\ Small.bytes = MetaSize /\ MetaSize \in Nat
  <2>1. MetaSize \in Nat /\ MetaSize + body \in Nat /\ "error" \in Terminal
    BY LimitsAssumption DEF Terminal, Statuses
  <2> QED
    BY <2>1 DEF Retained, Small, Results
<1> HIDE DEF record
<1>5. enough # {} => evict \in enough
  <2> SUFFICES ASSUME enough # {}
               PROVE  Min(enough) \in enough
    OBVIOUS
  <2>1. enough \in SUBSET Nat
    BY <1>3
  <2> HIDE DEF enough
  <2>2. \E n \in enough : \A m \in enough : n <= m
    BY <2>1, LeastOf
  <2> QED
    BY <2>2 DEF Min
<1>6. evict \in 0..Len(others)
  <2>1. CASE enough = {}
    BY <1>3, <2>1
  <2>2. CASE enough # {}
    <3>1. evict \in enough
      BY <1>5, <2>2
    <3> HIDE DEF evict
    <3> QED
      BY <3>1
  <2> QED
    BY <2>1, <2>2
<1>7. final \in Results /\ final.bytes \in Nat
  <2>1. final \in Results
    BY <1>4
  <2> QED
    BY <2>1 DEF Results
<1> DEFINE room == left(evict) + final.bytes <= MaxCompletedBytes
<1>8. enough # {} => room
  <2> SUFFICES ASSUME enough # {}
               PROVE  room
    OBVIOUS
  <2>1. evict \in enough /\ final = record
    BY <1>5
  <2> HIDE DEF evict, final
  <2> QED
    BY <2>1
<1>9. enough = {} => evict = Len(others) /\ final.bytes = MetaSize
  BY <1>4
<1> HIDE DEF enough, evict, final
<1>10. /\ first \subseteq (Stored \ Active) \ {t}
       /\ Lists(rest, Ids, ((Stored \ Active) \ {t}) \ first)
  BY <1>2, <1>6, FirstFacts
<1>11. ((Stored \ Active) \ {t}) \ first = done
  OBVIOUS
<1>12. enough = {} => first = (Stored \ Active) \ {t}
  BY <1>2, <1>9, FirstAll
<1>13. left(evict) = weight
  <2> DEFINE most == Stored \ {t}
  <2>1. IsFiniteSet(Stored) /\ IsFiniteSet(most) /\ \A i \in Stored : tasks[i].bytes \in Nat
    BY StoredFacts, FS_RemoveElement
  <2>2. most \cup {t} = Stored /\ t \notin most /\ first \in SUBSET most
    BY <1>10
  <2>3. Weight(tasks, Stored) = tasks[t].bytes + Weight(tasks, most)
    <3> HIDE DEF most
    <3>1. Weight(tasks, most \cup {t}) = tasks[t].bytes + Weight(tasks, most)
      BY <2>1, <2>2, WeightAdd
    <3> QED
      BY <2>2, <3>1
  <2>4. /\ Weight(tasks, most) = Weight(tasks, first) + Weight(tasks, most \ first)
        /\ Weight(tasks, first) \in Nat /\ Weight(tasks, most \ first) \in Nat
    <3>1. most \in SUBSET Stored
      OBVIOUS
    <3> HIDE DEF most, first
    <3> QED
      BY <2>2, <3>1, StoredSplit
  <2>5. most \ first = kept \ {t}
    OBVIOUS
  <2>6. BytesOf(first) = Weight(tasks, first)
    BY BytesIsWeight
  <2>7. completed_bytes = Weight(tasks, Stored) /\ tasks[t].bytes \in Nat
    BY <2>1 DEF StoreInv, BudgetInv
  <2>8. left(evict) = completed_bytes - tasks[t].bytes - BytesOf(first)
    OBVIOUS
  <2> HIDE DEF most, first, kept, left
  <2>9. weight = Weight(tasks, most \ first)
    BY <2>5
  <2> HIDE DEF weight
  <2> QED
    BY <2>3, <2>4, <2>6, <2>7, <2>8, <2>9
<1>14. weight \in Nat /\ weight <= MaxCompletedBytes
  <2>1. kept \ {t} \in SUBSET Stored
    OBVIOUS
  <2> HIDE DEF kept
  <2>2. /\ Weight(tasks, Stored) = Weight(tasks, kept \ {t}) + Weight(tasks, Stored \ (kept \ {t}))
        /\ Weight(tasks, kept \ {t}) \in Nat /\ Weight(tasks, Stored \ (kept \ {t})) \in Nat
    BY <2>1, StoredSplit
  <2> QED
    BY <2>2, LimitsAssumption DEF StoreInv, BudgetInv
<1>15. enough = {} => weight = 0
  <2> SUFFICES ASSUME enough = {}
               PROVE  weight = 0
    OBVIOUS
  <2>1. kept \ {t} \subseteq Active
    BY <1>12
  <2> HIDE DEF kept
  <2>2. IsFiniteSet(kept \ {t}) /\ \A i \in kept \ {t} : tasks[i].bytes = 0
    BY <2>1, StoredFacts, FS_Subset
  <2> QED
    BY <2>2, WeightZero
<1>16. ~room => MetaSize > MaxCompletedBytes
  BY <1>4, <1>8, <1>9, <1>13, <1>15, LimitsAssumption
<1>17. kept \in SUBSET Stored /\ Active \subseteq kept /\ t \in kept
  BY <1>10, StoredFacts
<1>18. t \in Ids
  BY StoredFacts
<1> DEFINE grown == /\ new.tasks = [Keep(tasks, kept) EXCEPT ![t] = final]
                    /\ Lists(new.order, Ids, done \cup {t})
                    /\ new.bytes = weight + final.bytes
           dropped == /\ new.tasks = Keep(tasks, kept \ {t})
                      /\ Lists(new.order, Ids, done)
                      /\ new.bytes = weight
                      /\ MetaSize > MaxCompletedBytes
<1>19. CASE room
  <2>1. Lists(Append(rest, t), Ids, done \cup {t})
    <3>1. t \notin done
      OBVIOUS
    <3> HIDE DEF rest, done
    <3> QED
      BY <1>10, <1>11, <1>18, <3>1, ListsAppend
  <2>2. grown /\ new.bytes <= MaxCompletedBytes
    <3> HIDE DEF left, kept, rest, done, weight
    <3> QED
      BY <1>1, <1>13, <1>19, <2>1
  <2> HIDE DEF kept
  <2> QED
    BY <1>7, <1>17, <2>2 DEF new
<1>20. CASE ~room
  <2>1. dropped /\ new.bytes <= MaxCompletedBytes
    <3> HIDE DEF left, kept, rest, done, weight, first
    <3> QED
      BY <1>1, <1>10, <1>11, <1>13, <1>14, <1>16, <1>20
  <2> HIDE DEF kept
  <2> QED
    BY <1>7, <1>17, <2>1 DEF new
<1> QED
  BY <1>19, <1>20

LEMMA StoreSame == ASSUME StoreInv, UNCHANGED store PROVE StoreInv'
  BY DEF store, StoreInv, RecordsInv, OrderInv, BudgetInv, CountsBounded, Stored, Active

\* finish() keeps the books, and drops a pending record only when it is the one that
\* is finished and the budget has no room for the record of an error.
LEMMA FinishStore ==
    ASSUME BackedInv, StoreInv, NEW t, NEW status \in Terminal, NEW body \in Nat,
           finish(t, status, body)
    PROVE  /\ StoreInv'
           /\ \A i \in Active : i \notin Stored' => i = t /\ MetaSize > MaxCompletedBytes
<1>1. CASE UNCHANGED store
  BY <1>1, StoreSame DEF store, Stored, Active
<1>2. CASE ~UNCHANGED store
  <2>1. /\ t \in Stored
        /\ tasks' = Finished(t, status, body).tasks
        /\ order' = Finished(t, status, body).order
        /\ completed_bytes' = Finished(t, status, body).bytes
    BY <1>2 DEF finish
  <2>2. PICK kept \in SUBSET Stored, final \in Results :
           LET weight == Weight(tasks, kept \ {t})
               done == (kept \ Active) \ {t}
           IN  /\ Active \subseteq kept /\ t \in kept
               /\ \/ /\ tasks' = [Keep(tasks, kept) EXCEPT ![t] = final]
                     /\ Lists(order', Ids, done \cup {t})
                     /\ completed_bytes' = weight + final.bytes
                  \/ /\ tasks' = Keep(tasks, kept \ {t})
                     /\ Lists(order', Ids, done)
                     /\ completed_bytes' = weight
                     /\ MetaSize > MaxCompletedBytes
               /\ completed_bytes' <= MaxCompletedBytes
    BY <2>1, FinishedBooks
  <2> DEFINE rest == kept \ {t}
  <2>3. /\ IsFiniteSet(Stored) /\ IsFiniteSet(rest) /\ \A i \in Stored : tasks[i].bytes \in Nat
        /\ Active \subseteq Stored
    BY StoredFacts, FS_Subset
  <2>4. final.status \in Statuses /\ final.status # "pending" /\ final.bytes \in Nat
    BY DEF Results, Terminal
  <2>5. CASE /\ tasks' = [Keep(tasks, kept) EXCEPT ![t] = final]
             /\ Lists(order', Ids, ((kept \ Active) \ {t}) \cup {t})
             /\ completed_bytes' = Weight(tasks, rest) + final.bytes
    <3>1. Stored' = kept /\ tasks'[t] = final /\ \A i \in rest : tasks'[i] = tasks[i]
      BY <2>2, <2>5 DEF Keep, Stored
    <3>2. Active' = Active \ {t}
      BY <2>2, <2>4, <3>1 DEF Active
    <3>3. Stored' \ Active' = ((kept \ Active) \ {t}) \cup {t}
      BY <2>2, <3>1, <3>2
    <3>4. RecordsInv'
      BY <2>4, <3>1 DEF StoreInv, RecordsInv
    <3>5. Weight(tasks', kept) = final.bytes + Weight(tasks, rest)
      <4>1. rest \cup {t} = kept /\ t \notin rest
        BY <2>2
      <4>2. \A i \in rest \cup {t} : tasks'[i].bytes \in Nat
        BY <2>3, <2>4, <3>1
      <4>3. Weight(tasks', rest) = Weight(tasks, rest)
        BY <3>1, WeightSame
      <4> HIDE DEF rest
      <4>4. Weight(tasks', rest \cup {t}) = tasks'[t].bytes + Weight(tasks', rest)
        BY <2>3, <4>1, <4>2, WeightAdd
      <4> QED
        BY <3>1, <4>1, <4>3, <4>4
    <3>6. Weight(tasks, rest) \in Nat
      BY <2>3, WeightFacts
    <3>7. BudgetInv'
      <4> HIDE DEF rest
      <4> QED
        BY <2>2, <2>4, <2>5, <3>1, <3>5, <3>6 DEF BudgetInv
    <3>8. CountsBounded'
      BY <3>1, <3>2, CountsLess
    <3> QED
      BY <2>2, <2>5, <3>1, <3>3, <3>4, <3>7, <3>8 DEF StoreInv, OrderInv
  <2>6. CASE /\ tasks' = Keep(tasks, rest)
             /\ Lists(order', Ids, (kept \ Active) \ {t})
             /\ completed_bytes' = Weight(tasks, rest)
             /\ MetaSize > MaxCompletedBytes
    <3>1. Stored' = rest /\ \A i \in rest : tasks'[i] = tasks[i]
      BY <2>6 DEF Keep, Stored
    <3>2. Active' = Active \ {t}
      BY <2>2, <3>1 DEF Active
    <3>3. Stored' \ Active' = (kept \ Active) \ {t}
      BY <3>1, <3>2
    <3>4. RecordsInv'
      BY <3>1 DEF StoreInv, RecordsInv
    <3>5. Weight(tasks', rest) = Weight(tasks, rest)
      BY <3>1, WeightSame
    <3>6. BudgetInv'
      BY <2>2, <2>6, <3>1, <3>5 DEF BudgetInv
    <3>7. CountsBounded'
      BY <3>1, <3>2, CountsLess
    <3> QED
      BY <2>2, <2>6, <3>1, <3>3, <3>4, <3>6, <3>7 DEF StoreInv, OrderInv
  <2> QED
    BY <2>2, <2>5, <2>6
<1> QED
  BY <1>1, <1>2

\* reserve() takes out the expired records and the oldest completed ones, as many as
\* are too many, and adds one.
LEMMA StartBooks ==
    ASSUME BackedInv, StoreInv, NEW cut, start_test(cut)
    PROVE  \E gone \in SUBSET Stored :
              LET t == started + 1
                  left == Stored \ gone
              IN  /\ gone \cap Active = Expired(cut) \cap Active
                  /\ Cardinality(left) < MaxCount
                  /\ Cardinality(Active \ gone) < MaxActive
                  /\ tasks' = [i \in left \cup {t} |->
                                  IF i = t THEN [status |-> "pending", bytes |-> 0] ELSE tasks[i]]
                  /\ Lists(order', Ids, left \ Active)
                  /\ completed_bytes' = completed_bytes - BytesOf(gone)
<1> DEFINE t == started + 1
           unexpired == Stored \ Expired(cut)
           done == Without(order, Expired(cut))
           surplus == Surplus(Cardinality(unexpired))
           evicted == ToSet(SubSeq(done, 1, surplus))
           gone == Expired(cut) \cup evicted
           left == Stored \ gone
<1>1. /\ Cardinality(Active \ Expired(cut)) < MaxActive
      /\ surplus <= Len(done)
      /\ tasks' = [i \in (unexpired \ evicted) \cup {t} |->
                      IF i = t THEN [status |-> "pending", bytes |-> 0] ELSE tasks[i]]
      /\ order' = Without(done, evicted)
      /\ completed_bytes' = completed_bytes - BytesOf(gone)
  BY DEF start_test
<1>2. /\ IsFiniteSet(Stored) /\ Active \subseteq Stored /\ Expired(cut) \subseteq Stored
      /\ IsFiniteSet(unexpired) /\ Cardinality(unexpired) \in Nat
  BY StoredFacts, FS_Difference, FS_CardinalityType DEF Expired
<1>3. Lists(done, Ids, (Stored \ Active) \ Expired(cut))
  BY WithoutFacts DEF StoreInv, OrderInv
<1>4. surplus \in 0..Len(done)
  <2>1. surplus \in Nat
    BY <1>2, LimitsAssumption DEF Surplus
  <2>2. Len(done) \in Nat
    BY <1>3 DEF Lists
  <2> HIDE DEF surplus, done
  <2> QED
    BY <1>1, <2>1, <2>2
<1> HIDE DEF done
<1>5. /\ evicted \subseteq (Stored \ Active) \ Expired(cut)
      /\ IsFiniteSet(evicted) /\ Cardinality(evicted) = surplus
  <2> HIDE DEF surplus
  <2> QED
    BY <1>3, <1>4, FirstFacts
<1>6. Lists(order', Ids, ((Stored \ Active) \ Expired(cut)) \ evicted)
  BY <1>1, <1>3, WithoutFacts
<1>7. Cardinality(left) < MaxCount
  <2>1. left = unexpired \ evicted /\ unexpired \cap evicted = evicted
    BY <1>5
  <2>2. Cardinality(unexpired \ evicted) = Cardinality(unexpired) - Cardinality(evicted)
    <3> HIDE DEF unexpired, evicted, left
    <3> QED
      BY <1>2, <2>1, FS_Difference
  <2> DEFINE n == Cardinality(unexpired)
  <2>3. Cardinality(left) = n - Surplus(n)
    BY <1>5, <2>1, <2>2
  <2>4. n \in Nat /\ MaxCount \in Nat \ {0}
    BY <1>2, LimitsAssumption
  <2> HIDE DEF n, left
  <2> QED
    BY <2>3, <2>4 DEF Surplus
<1> HIDE DEF evicted
<1>8. /\ gone \subseteq Stored /\ gone \cap Active = Expired(cut) \cap Active
      /\ Active \ gone = Active \ Expired(cut)
      /\ unexpired \ evicted = left
      /\ ((Stored \ Active) \ Expired(cut)) \ evicted = left \ Active
  BY <1>2, <1>5
<1>9. /\ gone \cap Active = Expired(cut) \cap Active
      /\ Cardinality(left) < MaxCount
      /\ Cardinality(Active \ gone) < MaxActive
      /\ tasks' = [i \in left \cup {t} |->
                      IF i = t THEN [status |-> "pending", bytes |-> 0] ELSE tasks[i]]
      /\ Lists(order', Ids, left \ Active)
      /\ completed_bytes' = completed_bytes - BytesOf(gone)
  BY <1>1, <1>6, <1>7, <1>8
<1> HIDE DEF gone
<1> QED
  BY <1>8, <1>9

LEMMA StoreStart == ASSUME BackedInv, StoreInv, NEW cut, start_test(cut) PROVE StoreInv'
<1> DEFINE t == started + 1
<1>1. PICK gone \in SUBSET Stored :
         LET left == Stored \ gone
         IN  /\ gone \cap Active = Expired(cut) \cap Active
             /\ Cardinality(left) < MaxCount
             /\ Cardinality(Active \ gone) < MaxActive
             /\ tasks' = [i \in left \cup {t} |->
                             IF i = t THEN [status |-> "pending", bytes |-> 0] ELSE tasks[i]]
             /\ Lists(order', Ids, left \ Active)
             /\ completed_bytes' = completed_bytes - BytesOf(gone)
  BY StartBooks
<1> DEFINE left == Stored \ gone
           running == Active \ gone
<1>2. t \notin Stored
  BY LimitsAssumption DEF BackedInv, IdsInv
<1> HIDE DEF t
<1>3. /\ IsFiniteSet(left) /\ IsFiniteSet(running) /\ running \subseteq left
      /\ t \notin left /\ t \notin running
      /\ \A i \in Stored : tasks[i].bytes \in Nat
  BY <1>2, StoredFacts, FS_Subset
<1>4. /\ Stored' = left \cup {t}
      /\ tasks'[t] = [status |-> "pending", bytes |-> 0]
      /\ \A i \in left : tasks'[i] = tasks[i]
  BY <1>1, <1>3 DEF Stored
<1>5. Active' = running \cup {t}
  BY <1>3, <1>4 DEF Active
<1>6. RecordsInv'
  BY <1>4 DEF StoreInv, RecordsInv, Statuses
<1>7. OrderInv'
  <2>1. Stored' \ Active' = left \ Active
    BY <1>3, <1>4, <1>5
  <2> QED
    BY <1>1, <2>1 DEF OrderInv
<1>8. BudgetInv'
  <2>1. /\ Weight(tasks, gone) \in Nat /\ Weight(tasks, left) \in Nat
        /\ Weight(tasks, Stored) = Weight(tasks, gone) + Weight(tasks, left)
    BY StoredSplit
  <2>2. \A i \in left \cup {t} : tasks'[i].bytes \in Nat
    BY <1>3, <1>4
  <2>3. Weight(tasks', left) = Weight(tasks, left)
    BY <1>4, WeightSame
  <2>4. completed_bytes' = completed_bytes - Weight(tasks, gone)
    BY <1>1, BytesIsWeight
  <2> HIDE DEF left
  <2>5. Weight(tasks', left \cup {t}) = tasks'[t].bytes + Weight(tasks', left)
    BY <1>3, <2>2, WeightAdd
  <2> QED
    BY <1>4, <2>1, <2>3, <2>4, <2>5, LimitsAssumption DEF StoreInv, BudgetInv
<1>9. CountsBounded'
  <2>1. /\ Cardinality(left) < MaxCount /\ Cardinality(running) < MaxActive
        /\ Cardinality(left) \in Nat /\ Cardinality(running) \in Nat
    BY <1>1, <1>3, FS_CardinalityType
  <2>2. Cardinality(left \cup {t}) = Cardinality(left) + 1
    <3> HIDE DEF left
    <3> QED
      BY <1>3, FS_AddElement
  <2>3. Cardinality(running \cup {t}) = Cardinality(running) + 1
    <3> HIDE DEF running
    <3> QED
      BY <1>3, FS_AddElement
  <2> HIDE DEF left, running
  <2> QED
    BY <1>4, <1>5, <2>1, <2>2, <2>3, LimitsAssumption DEF CountsBounded
<1> QED
  BY <1>6, <1>7, <1>8, <1>9 DEF StoreInv

\* An empty store.
LEMMA StoreEmpty == ASSUME Stored' = {}, order' = <<>>, completed_bytes' = 0 PROVE StoreInv'
<1>1. Active' = {}
  BY DEF Active
<1>2. Weight(tasks', {}) = 0
  BY WeightZero, FS_EmptySet
<1>3. Cardinality({}) = 0
  BY FS_EmptySet
<1>4. Lists(order', Ids, {})
  BY ListsEmpty
<1> QED
  BY <1>1, <1>2, <1>3, <1>4, LimitsAssumption
     DEF StoreInv, RecordsInv, OrderInv, BudgetInv, CountsBounded

LEMMA StoreInit == Init => StoreInv
<1> SUFFICES ASSUME Init
             PROVE  StoreInv
  OBVIOUS
<1>1. Stored = {} /\ Active = {} /\ order = <<>> /\ completed_bytes = 0
  BY DEF Init, Stored, Active
<1>2. Weight(tasks, {}) = 0
  BY WeightZero, FS_EmptySet
<1>3. Cardinality({}) = 0
  BY FS_EmptySet
<1>4. Lists(order, Ids, {})
  BY <1>1, ListsEmpty
<1> QED
  BY <1>1, <1>2, <1>3, <1>4, LimitsAssumption
     DEF StoreInv, RecordsInv, OrderInv, BudgetInv, CountsBounded

-----------------------------------------------------------------------------
(* The books after every step, and which pending records a step takes out. *)

PendingKept == \A i \in Active : i \notin Stored' => i \in cancelling' \/ DroppedByItself(i)

LEMMA KeptSame == ASSUME UNCHANGED store PROVE PendingKept
  BY DEF store, PendingKept, Stored, Active

LEMMA BooksSweep ==
    ASSUME BackedInv, StoreInv, NEW cut, cleanup_expired(cut)
    PROVE  StoreInv' /\ PendingKept
<1>1. Stored' = Stored \ Expired(cut) /\ cancelling' = cancelling \cup (Expired(cut) \cap Active)
  BY DEF cleanup_expired, Keep, Stored
<1>2. Active \subseteq Stored
  BY DEF Active
<1>3. PendingKept
  BY <1>1, <1>2 DEF PendingKept
<1> QED
  BY <1>3, StoreSweep

LEMMA BooksStart ==
    ASSUME BackedInv, StoreInv, NEW cut, start_test(cut)
    PROVE  StoreInv' /\ PendingKept
<1>1. PICK gone \in SUBSET Stored :
         /\ gone \cap Active = Expired(cut) \cap Active
         /\ tasks' = [i \in (Stored \ gone) \cup {started + 1} |->
                         IF i = started + 1 THEN [status |-> "pending", bytes |-> 0] ELSE tasks[i]]
  BY StartBooks
<1>2. Stored \ gone \subseteq Stored'
  BY <1>1 DEF Stored
<1>3. Active \subseteq Stored /\ cancelling' = cancelling \cup (Expired(cut) \cap Active)
  BY DEF Active, start_test
<1>4. PendingKept
  BY <1>1, <1>2, <1>3 DEF PendingKept
<1> QED
  BY <1>4, StoreStart

\* A result that the coroutine of t reports as it moves on.
LEMMA BooksFinish ==
    ASSUME BackedInv, StoreInv, NEW t \in Ids, NEW status \in Terminal, NEW body \in Nat,
           finish(t, status, body), coroutine'[t] # coroutine[t] \/ t \in cancelling'
    PROVE  StoreInv' /\ PendingKept
<1>1. /\ StoreInv'
      /\ \A i \in Active : i \notin Stored' => i = t /\ MetaSize > MaxCompletedBytes
  BY FinishStore
<1> QED
  BY <1>1 DEF PendingKept, DroppedByItself

LEMMA Moves ==
    ASSUME BackedInv, NEW t \in Ids, NEW place, coroutine[t] # place, Goto(t, place)
    PROVE  coroutine'[t] # coroutine[t]
  BY DEF BackedInv, CoroutinesInv, Goto

LEMMA BooksRun ==
    ASSUME BackedInv, StoreInv, NEW t \in Ids, Run(t)
    PROVE  StoreInv' /\ PendingKept
<1>1. "done" \in Terminal /\ "error" \in Terminal /\ "cancelled" \in Terminal /\ Bodies \subseteq Nat
      /\ 0 \in Nat
  BY LimitsAssumption DEF Terminal, Statuses
<1>2. CASE Response(t)
  <2>1. PICK body \in Bodies : finish(t, "done", body)
    BY <1>2 DEF Response
  <2>2. coroutine'[t] # coroutine[t]
    BY <1>2, Moves DEF Response
  <2> QED
    BY <1>1, <2>1, <2>2, BooksFinish
<1>3. CASE RequestFails(t)
  BY <1>3, StoreSame, KeptSame DEF RequestFails
<1>4. CASE ClientClosed(t)
  <2>1. coroutine'[t] # coroutine[t]
    BY <1>4, Moves DEF ClientClosed
  <2>2. UNCHANGED store \/ finish(t, "error", 0) \/ finish(t, "cancelled", 0)
    BY <1>4 DEF ClientClosed
  <2> QED
    BY <1>1, <2>1, <2>2, BooksFinish, StoreSame, KeptSame
<1> QED
  BY <1>2, <1>3, <1>4 DEF Run

LEMMA BooksCancel ==
    ASSUME BackedInv, StoreInv, NEW t \in Ids, cancel_test(t) \/ CancelDelivered(t)
    PROVE  StoreInv' /\ PendingKept
<1>1. "cancelled" \in Terminal /\ 0 \in Nat
  BY DEF Terminal, Statuses
<1>2. CASE cancel_test(t)
  <2>1. finish(t, "cancelled", 0) /\ t \in cancelling'
    BY <1>2 DEF cancel_test
  <2> QED
    BY <1>1, <2>1, BooksFinish
<1>3. CASE CancelDelivered(t)
  <2>1. coroutine[t] \in Places \ {"absent"}
    BY <1>3 DEF CancelDelivered, BackedInv, IdsInv, CoroutinesInv
  <2>2. CASE coroutine[t] \in {"running", "ended"}
    <3>1. UNCHANGED store
      BY <1>3, <2>2 DEF CancelDelivered
    <3> QED
      BY <3>1, StoreSame, KeptSame
  <2>3. CASE coroutine[t] \in {"responded", "failed", "stopping"}
    <3>1. Goto(t, "ended") /\ finish(t, "cancelled", 0)
      BY <1>3, <2>3 DEF CancelDelivered
    <3>2. coroutine'[t] # coroutine[t]
      BY <2>3, <3>1, Moves
    <3> QED
      BY <1>1, <3>1, <3>2, BooksFinish
  <2> QED
    BY <2>1, <2>2, <2>3 DEF Places
<1> QED
  BY <1>2, <1>3

LEMMA BooksShutdown == ASSUME BackedInv, StoreInv, shutdown PROVE StoreInv' /\ PendingKept
<1>1. Stored' = {} /\ order' = <<>> /\ completed_bytes' = 0 /\ Active \subseteq cancelling'
  BY DEF shutdown, Stored
<1> QED
  BY <1>1, StoreEmpty DEF PendingKept

LEMMA BooksStep == ASSUME BackedInv, StoreInv, [Next]_vars PROVE StoreInv' /\ PendingKept
<1>1. ASSUME NEW cut, start_test_refused(cut) \/ get_test_result(cut)
      PROVE  StoreInv' /\ PendingKept
  BY <1>1, BooksSweep DEF start_test_refused, get_test_result
<1>2. ASSUME NEW cut, start_test(cut)
      PROVE  StoreInv' /\ PendingKept
  BY <1>2, BooksStart
<1>3. ASSUME NEW t \in Ids, cancel_test(t) \/ Run(t) \/ CancelDelivered(t)
      PROVE  StoreInv' /\ PendingKept
  BY <1>3, BooksRun, BooksCancel
<1>4. CASE shutdown
  BY <1>4, BooksShutdown
<1>5. CASE Gathered \/ Stopped \/ UNCHANGED vars
  <2>1. UNCHANGED store
    BY <1>5 DEF Gathered, Stopped, vars
  <2> QED
    BY <2>1, StoreSame, KeptSame
<1> QED
  BY <1>1, <1>2, <1>3, <1>4, <1>5 DEF Next

\* The rest of the state: what the shutdown keeps.
ShutdownInv ==
    closed \in BOOLEAN /\ awaited \subseteq Ids /\ aclose \in {"none", "gathering", "done"}

LEMMA ShutdownStep == ASSUME BackedInv, ShutdownInv, [Next]_vars PROVE ShutdownInv'
<1>1. CASE UNCHANGED <<closed, awaited, aclose>>
  BY <1>1 DEF ShutdownInv, Ids
<1>2. CASE shutdown
  BY <1>2, IdsKnown DEF shutdown, ShutdownInv, Ids
<1>3. CASE Gathered
  BY <1>3 DEF Gathered, ShutdownInv, Ids
<1>4. UNCHANGED <<closed, awaited, aclose>> \/ shutdown \/ Gathered
  BY DEF Next, vars, start_test_refused, start_test, get_test_result, cancel_test, Run, Response,
         RequestFails, ClientClosed, CancelDelivered, Stopped
<1> QED
  BY <1>1, <1>2, <1>3, <1>4

BooksInv == BackedInv /\ StoreInv /\ ShutdownInv

LEMMA BooksKept == Spec => []BooksInv
<1>1. Init => BooksInv
  <2>1. Init => ShutdownInv
    BY DEF Init, ShutdownInv
  <2> QED
    BY <2>1, BackedInit, StoreInit DEF BooksInv
<1>2. BooksInv /\ [Next]_vars => BooksInv'
  BY BackedStep, BooksStep, ShutdownStep DEF BooksInv
<1> QED
  BY <1>1, <1>2, PTL DEF Spec

\* Type correctness: among others, the counter of completed bytes never goes below
\* zero, whatever evictions and expiries subtract from it (AdminTestTaskStore).
THEOREM TypeCorrect == Spec => []TypeOK
<1>1. BooksInv => TypeOK
  <2> SUFFICES ASSUME BooksInv
               PROVE  TypeOK
    OBVIOUS
  <2>1. BackedInv /\ StoreInv /\ ShutdownInv
    BY DEF BooksInv
  <2>2. completed_bytes \in Nat
    BY <2>1, StoredFacts
  <2>3. order \in Seq(Ids)
    BY <2>1 DEF StoreInv, OrderInv, Lists
  <2> QED
    BY <2>1, <2>2, <2>3
       DEF TypeOK, BackedInv, IdsInv, CoroutinesInv, Places, StoreInv, RecordsInv, Statuses, ShutdownInv
<1> QED
  BY <1>1, BooksKept, PTL

\* The store's books are true and within their limits, for every budget and every
\* size of a record and of a body: the counter of completed bytes is what the stored
\* records hold, the eviction order lists the completed records, and the numbers of
\* pending and of all records keep to theirs (AdminTestTaskStore).
THEOREM StoreCorrect == Spec => []StoreAccounted
<1>1. BooksInv => StoreAccounted
  <2> SUFFICES ASSUME BooksInv
               PROVE  StoreAccounted
    OBVIOUS
  <2>1. BytesOf(Stored) = Weight(tasks, Stored)
    BY BytesIsWeight
  <2> QED
    BY <2>1 DEF BooksInv, StoreInv, OrderInv, Lists, BudgetInv, StoreAccounted, BytesAccounted
<1> QED
  BY <1>1, BooksKept, PTL

\* Capacity is made by evicting completed records only: no step of a request, of a
\* task or of the shutdown takes a pending record away and leaves its task running
\* unasked (AdminTestTaskStore.reserve, finish, _sweep_locked and shutdown).
THEOREM EvictionCorrect == Spec => EvictsOnlyCompleted
<1>1. BooksInv /\ [Next]_vars
        => [\A t \in Active : t \notin DOMAIN tasks' => t \in cancelling' \/ DroppedByItself(t)]_vars
  BY BooksStep DEF BooksInv, PendingKept, Stored
<1> QED
  BY <1>1, BooksKept, PTL DEF Spec, EvictsOnlyCompleted
=============================================================================
