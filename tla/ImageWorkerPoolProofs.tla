------------------------ MODULE ImageWorkerPoolProofs -----------------------
(***************************************************************************)
(* Proofs about ImageWorkerPool, for every finite set of requests and any  *)
(* number of threads.                                                      *)
(***************************************************************************)
EXTENDS ImageWorkerPool, FunctionTheorems, FiniteSetTheorems, SequenceTheorems, TLAPS

-----------------------------------------------------------------------------
(* The semaphore.                                                           *)

\* As many waiters as there are permits for are woken, and not more.
LEMMA OldestAreFew ==
    ASSUME NEW n \in Nat, NEW places \in SUBSET (1..n), NEW k \in Nat
    PROVE  /\ IsFiniteSet(Oldest(k, places))
           /\ Cardinality(Oldest(k, places)) <= k
<1> DEFINE rank == [i \in Oldest(k, places) |-> Cardinality(Upto(i, places))]
<1>1. IsFiniteSet(1..n) /\ IsFiniteSet(1..k) /\ Cardinality(1..k) = k
  BY FS_Interval
<1>2. IsFiniteSet(places)
  BY <1>1, FS_Subset
<1>3. \A i \in places : /\ IsFiniteSet(Upto(i, places)) /\ Cardinality(Upto(i, places)) \in Nat
                        /\ Cardinality(Upto(i, places)) # 0
  <2> SUFFICES ASSUME NEW i \in places
               PROVE  /\ IsFiniteSet(Upto(i, places)) /\ Cardinality(Upto(i, places)) \in Nat
                      /\ Cardinality(Upto(i, places)) # 0
    OBVIOUS
  <2>1. Upto(i, places) \in SUBSET places /\ i \in Upto(i, places)
    BY DEF Upto
  <2>2. IsFiniteSet(Upto(i, places))
    BY <2>1, <1>2, FS_Subset
  <2> QED
    BY <2>1, <2>2, FS_CardinalityType, FS_EmptySet
<1>4. rank \in [Oldest(k, places) -> 1..k]
  <2>1. \A i \in Oldest(k, places) : i \in places /\ Cardinality(Upto(i, places)) <= k
    BY DEF Oldest
  <2>2. ASSUME NEW i \in Oldest(k, places)
        PROVE  Cardinality(Upto(i, places)) \in 1..k
    <3>1. /\ Cardinality(Upto(i, places)) \in Nat /\ Cardinality(Upto(i, places)) # 0
          /\ Cardinality(Upto(i, places)) <= k
      BY <2>1, <1>3
    <3> QED
      BY <3>1
  <2> QED
    BY <2>2
<1>5. ASSUME NEW i \in Oldest(k, places), NEW m \in Oldest(k, places), i < m
      PROVE  rank[i] # rank[m]
  <2>0. i \in places /\ m \in places /\ \A j \in places : j \in Int
    BY DEF Oldest
  <2>1. Upto(i, places) \in SUBSET Upto(m, places)
    <3>1. \A j \in places : j <= i => j <= m
      BY <2>0, <1>5
    <3> QED
      BY <3>1 DEF Upto
  <2>2. m \in Upto(m, places) /\ m \notin Upto(i, places)
    BY <2>0, <1>5 DEF Upto
  <2>3. Cardinality(Upto(i, places)) # Cardinality(Upto(m, places))
    BY <2>0, <2>1, <2>2, <1>3, FS_Subset
  <2> QED
    BY <2>3
<1>6. rank \in Injection(Oldest(k, places), 1..k)
  <2>1. \A i, m \in Oldest(k, places) : i < m \/ m < i \/ i = m
    BY DEF Oldest
  <2> QED
    BY <1>4, <1>5, <2>1 DEF Injection, IsInjective
<1> HIDE DEF rank
<1> QED
  BY <1>1, <1>6, FS_Injection

\* Waking neither makes nor loses a permit: those that are no longer free are with
\* the waiters woken.
LEMMA WakeUpFacts ==
    ASSUME NEW v \in Nat, NEW k \in Nat, NEW w \in Seq(Requests),
           NEW g \in SUBSET ToSet(w), WakeUp(v, k, w, g)
    PROVE  /\ value' \in Nat
           /\ waiters' = w
           /\ granted' \in SUBSET ToSet(w)
           /\ g \subseteq granted'
           /\ Cardinality(granted') \in Nat
           /\ value' + Cardinality(granted') = v + Cardinality(g)
<1> DEFINE n == IF k < v THEN k ELSE v
           places == Oldest(n, Asleep(w, g))
           woken == Woken(n, w, g)
<1>1. Len(w) \in Nat /\ DOMAIN w = 1..Len(w) /\ n \in Nat /\ n <= v
  BY LenProperties
<1>2. Asleep(w, g) \in SUBSET (1..Len(w))
  BY <1>1 DEF Asleep
<1>3. IsFiniteSet(places) /\ Cardinality(places) <= n
  BY <1>1, <1>2, OldestAreFew
<1>4. IsFiniteSet(woken) /\ Cardinality(woken) <= Cardinality(places)
  <2> DEFINE f == [i \in places |-> w[i]]
  <2>1. f \in Surjection(places, woken)
    BY DEF Surjection, Woken
  <2> HIDE DEF f
  <2> QED
    BY <2>1, <1>3, FS_Surjection
<1>5. Cardinality(woken) \in Nat /\ Cardinality(places) \in Nat
  BY <1>3, <1>4, FS_CardinalityType
<1>6. woken \cap g = {} /\ woken \subseteq ToSet(w)
  BY <1>1 DEF Woken, Oldest, Asleep, ToSet
<1>7. IsFiniteSet(g) /\ Cardinality(g) \in Nat
  <2>1. Range(w) \in SUBSET Requests /\ Range(w) = ToSet(w)
    BY <1>1, LenProperties DEF ToSet, Range
  <2>2. g \in SUBSET Requests
    BY <2>1
  <2> QED
    BY <2>2, RequestsAssumption, FS_Subset, FS_CardinalityType
<1>8. Cardinality(g \cup woken) = Cardinality(g) + Cardinality(woken)
  <2>1. g \cap woken = {}
    BY <1>6
  <2> HIDE DEF woken
  <2>2. Cardinality(g \cup woken)
          = Cardinality(g) + Cardinality(woken) - Cardinality(g \cap woken)
    BY <1>4, <1>7, FS_Union
  <2>3. Cardinality(g \cap woken) = 0
    BY <2>1, FS_EmptySet
  <2>4. Cardinality(woken) \in Nat /\ Cardinality(g) \in Nat
    BY <1>5, <1>7
  <2> QED
    BY <2>2, <2>3, <2>4
<1>9. value' = v - Cardinality(woken) /\ waiters' = w /\ granted' = g \cup woken
  BY DEF WakeUp
<1> HIDE DEF woken, places
<1> QED
  BY <1>1, <1>3, <1>4, <1>5, <1>6, <1>7, <1>8, <1>9

\* If there is a permit for somebody and somebody sleeps, somebody is woken.
LEMMA OldestExists ==
    ASSUME NEW n \in Nat, NEW places \in SUBSET (1..n), places # {},
           NEW k \in Nat, k # 0
    PROVE  Oldest(k, places) # {}
<1> DEFINE uptos == {Upto(i, places) : i \in places}
<1>1. IsFiniteSet(places)
  <2>1. IsFiniteSet(1..n)
    BY FS_Interval
  <2> QED
    BY <2>1, FS_Subset
<1>2. IsWellFoundedOn(StrictSubsetOrdering(places), SUBSET places)
  BY <1>1, FS_FiniteSubsetsOfFinite, FS_StrictSubsetOrderingWellFounded
<1>3. uptos \subseteq SUBSET places /\ uptos # {}
  BY DEF Upto
<1>4. PICK T \in uptos : \A U \in uptos : ~ (<<U, T>> \in StrictSubsetOrdering(places))
  <2> HIDE DEF uptos
  <2> QED
    BY <1>2, <1>3, WFMin
<1>5. PICK i \in places : T = Upto(i, places)
  OBVIOUS
<1>6. ASSUME NEW j \in Upto(i, places) PROVE j = i
  <2>1. i \in Int /\ j \in Int /\ j \in places /\ j <= i
    BY DEF Upto
  <2>2. Upto(j, places) \subseteq Upto(i, places)
    <3>1. \A m \in places : m <= j => m <= i
      BY <2>1
    <3> QED
      BY <3>1 DEF Upto
  <2>3. Upto(j, places) \in uptos /\ Upto(j, places) \in SUBSET places /\ T \in SUBSET places
    BY <1>3, <2>1
  <2>4. Upto(j, places) = Upto(i, places)
    <3>1. ~ (<<Upto(j, places), T>> \in StrictSubsetOrdering(places))
      BY <1>4, <2>3
    <3> QED
      BY <1>5, <2>2, <2>3, <3>1 DEF StrictSubsetOrdering
  <2>5. i \in Upto(j, places)
    BY <2>1, <2>4 DEF Upto
  <2>6. i <= j
    BY <2>5 DEF Upto
  <2> QED
    BY <2>1, <2>6
<1>7. Upto(i, places) = {i}
  <2>1. i \in Int /\ i <= i
    OBVIOUS
  <2>2. i \in Upto(i, places)
    BY <2>1 DEF Upto
  <2> QED
    BY <1>6, <2>2
<1>8. Cardinality(Upto(i, places)) <= k
  BY <1>7, FS_Singleton
<1> QED
  BY <1>8 DEF Oldest

\* Waking leaves no permit free with only sleepers about, unless it may wake nobody.
LEMMA WakeUpWakes ==
    ASSUME NEW v \in Nat, NEW k \in Nat, NEW w \in Seq(Requests), k = v \/ k # 0 \/ w = <<>>,
           NEW g, WakeUp(v, k, w, g)
    PROVE  NoLostWakeup'
<1> DEFINE n == IF k < v THEN k ELSE v
           woken == Woken(n, w, g)
<1>1. Len(w) \in Nat /\ DOMAIN w = 1..Len(w)
  BY LenProperties
<1>2. value' = v - Cardinality(woken) /\ waiters' = w /\ granted' = g \cup woken
  BY DEF WakeUp
<1>3. Asleep(w, g) \in SUBSET (1..Len(w))
  BY <1>1 DEF Asleep
<1> SUFFICES ASSUME value' > 0, Asleep(waiters', granted') # {} PROVE granted' # {}
  BY DEF NoLostWakeup
<1>4. Asleep(w, g) # {} /\ w # <<>>
  BY <1>2 DEF Asleep
<1>5. CASE n = 0
  <2>1. v = 0
    BY <1>4, <1>5
  <2>2. Oldest(0, Asleep(w, g)) = {}
    <3> SUFFICES ASSUME NEW i \in Oldest(0, Asleep(w, g)) PROVE FALSE
      OBVIOUS
    <3>1. /\ IsFiniteSet(Oldest(0, Asleep(w, g))) /\ Cardinality(Oldest(0, Asleep(w, g))) <= 0
      BY <1>1, <1>3, OldestAreFew
    <3>2. Cardinality(Oldest(0, Asleep(w, g))) = 0
      BY <3>1, FS_CardinalityType
    <3> QED
      BY <3>1, <3>2, FS_EmptySet
  <2>3. woken = {}
    BY <1>5, <2>2 DEF Woken
  <2>4. Cardinality(woken) = 0
    BY <2>3, FS_EmptySet
  <2> QED
    BY <1>2, <2>1, <2>4
<1>6. CASE n # 0
  <2>1. Oldest(n, Asleep(w, g)) # {}
    BY <1>1, <1>3, <1>4, <1>6, OldestExists
  <2>2. woken # {}
    BY <2>1 DEF Woken
  <2> QED
    BY <1>2, <2>2
<1> QED
  BY <1>5, <1>6

\* A list of waiters without repetition, and what is left of it when r leaves.
Distinct(s) == \A i, j \in 1..Len(s) : s[i] = s[j] => i = j

LEMMA WithoutFacts ==
    ASSUME NEW s \in Seq(Requests), Distinct(s), NEW r \in ToSet(s)
    PROVE  /\ Without(s, r) \in Seq(Requests)
           /\ Len(Without(s, r)) = Len(s) - 1
           /\ ToSet(Without(s, r)) = ToSet(s) \ {r}
           /\ Distinct(Without(s, r))
<1> DEFINE at == CHOOSE i \in DOMAIN s : s[i] = r
           front == SubSeq(s, 1, at - 1)
           back == SubSeq(s, at + 1, Len(s))
           rest == Without(s, r)
<1>1. Len(s) \in Nat /\ DOMAIN s = 1..Len(s) /\ \A i \in 1..Len(s) : s[i] \in Requests
  BY LenProperties
<1>2. at \in 1..Len(s) /\ s[at] = r
  <2>1. \E i \in DOMAIN s : s[i] = r
    BY DEF ToSet
  <2> QED
    BY <2>1, <1>1
<1> HIDE DEF at
<1>3. /\ front \in Seq(Requests) /\ Len(front) = at - 1
      /\ \A i \in 1..(at - 1) : front[i] = s[i]
  <2>1. at - 1 \in Int /\ \A i \in 1..(at - 1) : s[i] \in Requests
    BY <1>1, <1>2
  <2> QED
    BY <1>2, <2>1, SubSeqProperties
<1>4. /\ back \in Seq(Requests) /\ Len(back) = Len(s) - at
      /\ \A i \in 1..(Len(s) - at) : back[i] = s[at + i]
  <2>1. at + 1 \in Int /\ Len(s) \in Int /\ \A i \in (at + 1)..Len(s) : s[i] \in Requests
    BY <1>1, <1>2
  <2>2. /\ back \in Seq(Requests)
        /\ Len(back) = IF at + 1 <= Len(s) THEN Len(s) - (at + 1) + 1 ELSE 0
        /\ \A i \in 1..(Len(s) - (at + 1) + 1) : back[i] = s[(at + 1) + i - 1]
    BY <2>1, SubSeqProperties
  <2> HIDE DEF back
  <2>3. Len(back) = Len(s) - at
    <3>1. at \in Int /\ Len(s) \in Int /\ at <= Len(s)
      BY <1>1, <1>2
    <3>2. Len(back) = IF at + 1 <= Len(s) THEN Len(s) - (at + 1) + 1 ELSE 0
      BY <2>2
    <3>3. CASE at + 1 <= Len(s)
      BY <3>1, <3>2, <3>3
    <3>4. CASE at = Len(s)
      BY <3>1, <3>2, <3>4
    <3> QED
      BY <3>1, <3>3, <3>4
  <2>4. ASSUME NEW i \in 1..(Len(s) - at) PROVE back[i] = s[at + i]
    <3>1. i \in 1..(Len(s) - (at + 1) + 1) /\ (at + 1) + i - 1 = at + i
      BY <1>1, <1>2
    <3> QED
      BY <2>2, <3>1
  <2> QED
    BY <2>2, <2>3, <2>4
<1>5. rest = front \o back
  BY DEF Without, RemoveAt, at
<1> HIDE DEF front, back, rest
<1>6. /\ rest \in Seq(Requests) /\ Len(rest) = Len(s) - 1
      /\ \A i \in 1..(Len(s) - 1) : rest[i] = IF i < at THEN s[i] ELSE s[i + 1]
  <2>1. /\ rest \in Seq(Requests) /\ Len(rest) = Len(front) + Len(back)
        /\ \A i \in 1..(Len(front) + Len(back)) :
              rest[i] = IF i <= Len(front) THEN front[i] ELSE back[i - Len(front)]
    BY <1>3, <1>4, <1>5, ConcatProperties
  <2>2. Len(rest) = Len(s) - 1
    BY <2>1, <1>1, <1>2, <1>3, <1>4
  <2>3. ASSUME NEW i \in 1..(Len(s) - 1)
        PROVE  rest[i] = IF i < at THEN s[i] ELSE s[i + 1]
    <3>1. rest[i] = IF i <= at - 1 THEN front[i] ELSE back[i - (at - 1)]
      BY <2>1, <1>1, <1>2, <1>3, <1>4
    <3>2. CASE i < at
      BY <3>1, <3>2, <1>1, <1>2, <1>3
    <3>3. CASE ~(i < at)
      <4>1. i - (at - 1) \in 1..(Len(s) - at) /\ at + (i - (at - 1)) = i + 1
        BY <3>3, <1>1, <1>2
      <4> QED
        BY <3>1, <3>3, <4>1, <1>1, <1>2, <1>4
    <3> QED
      BY <3>2, <3>3
  <2> QED
    BY <2>1, <2>2, <2>3
<1>7. DOMAIN rest = 1..(Len(s) - 1)
  BY <1>6, LenProperties
<1>8. ToSet(rest) = ToSet(s) \ {r}
  <2>1. ASSUME NEW x \in ToSet(rest) PROVE x \in ToSet(s) \ {r}
    <3>1. PICK i \in 1..(Len(s) - 1) : rest[i] = x
      BY <1>7 DEF ToSet
    <3>2. PICK j \in 1..Len(s) : s[j] = x /\ j # at
      BY <3>1, <1>1, <1>2, <1>6
    <3>3. x # r
      BY <3>2, <1>2 DEF Distinct
    <3> QED
      BY <3>2, <3>3, <1>1 DEF ToSet
  <2>2. ASSUME NEW x \in ToSet(s) \ {r} PROVE x \in ToSet(rest)
    <3>1. PICK j \in 1..Len(s) : s[j] = x
      BY <1>1 DEF ToSet
    <3>2. j # at
      BY <3>1, <1>2
    <3>3. CASE j < at
      <4>1. j \in 1..(Len(s) - 1) /\ rest[j] = x
        BY <3>1, <3>3, <1>1, <1>2, <1>6
      <4> QED
        BY <4>1, <1>7 DEF ToSet
    <3>4. CASE j > at
      <4>1. j - 1 \in 1..(Len(s) - 1) /\ rest[j - 1] = x
        BY <3>1, <3>4, <1>1, <1>2, <1>6
      <4> QED
        BY <4>1, <1>7 DEF ToSet
    <3> QED
      BY <3>2, <3>3, <3>4, <1>1, <1>2
  <2> QED
    BY <2>1, <2>2
<1>9. Distinct(rest)
  BY <1>1, <1>2, <1>6 DEF Distinct
<1> QED
  BY <1>6, <1>8, <1>9 DEF rest

\* The same of a list that somebody joins.
LEMMA AppendFacts ==
    ASSUME NEW s \in Seq(Requests), Distinct(s), NEW r \in Requests, r \notin ToSet(s)
    PROVE  /\ Append(s, r) \in Seq(Requests)
           /\ Len(Append(s, r)) = Len(s) + 1
           /\ ToSet(Append(s, r)) = ToSet(s) \cup {r}
           /\ Distinct(Append(s, r))
<1> DEFINE t == Append(s, r)
<1>1. /\ Len(s) \in Nat /\ DOMAIN s = 1..Len(s)
      /\ \A i \in 1..Len(s) : s[i] # r
  BY LenProperties DEF ToSet
<1>2. /\ t \in Seq(Requests) /\ Len(t) = Len(s) + 1
      /\ \A i \in 1..Len(s) : t[i] = s[i]
      /\ t[Len(s) + 1] = r
  BY AppendProperties
<1> HIDE DEF t
<1>3. DOMAIN t = 1..(Len(s) + 1)
  BY <1>2, LenProperties
<1>4. ToSet(t) = ToSet(s) \cup {r}
  <2>1. ASSUME NEW x \in ToSet(t) PROVE x \in ToSet(s) \cup {r}
    <3>1. PICK i \in 1..(Len(s) + 1) : t[i] = x
      BY <1>3 DEF ToSet
    <3> QED
      BY <3>1, <1>1, <1>2 DEF ToSet
  <2>2. ASSUME NEW x \in ToSet(s) \cup {r} PROVE x \in ToSet(t)
    <3>1. PICK i \in 1..(Len(s) + 1) : t[i] = x
      <4>1. CASE x = r
        BY <4>1, <1>1, <1>2
      <4>2. CASE x \in ToSet(s)
        <5>1. PICK j \in 1..Len(s) : s[j] = x
          BY <4>2, <1>1 DEF ToSet
        <5> QED
          BY <5>1, <1>1, <1>2
      <4> QED
        BY <4>1, <4>2
    <3> QED
      BY <3>1, <1>3 DEF ToSet
  <2> QED
    BY <2>1, <2>2
<1>5. Distinct(t)
  <2> SUFFICES ASSUME NEW i \in 1..(Len(s) + 1), NEW j \in 1..(Len(s) + 1), t[i] = t[j]
               PROVE  i = j
    BY <1>2 DEF Distinct
  <2>1. CASE i = Len(s) + 1
    BY <2>1, <1>1, <1>2
  <2>2. CASE j = Len(s) + 1
    BY <2>2, <1>1, <1>2
  <2>3. CASE i \in 1..Len(s) /\ j \in 1..Len(s)
    BY <2>3, <1>2 DEF Distinct
  <2> QED
    BY <2>1, <2>2, <2>3, <1>1
<1> QED
  BY <1>2, <1>4, <1>5 DEF t

\* What is left when the first of a list leaves.
LEMMA TailFacts ==
    ASSUME NEW s \in Seq(Requests), Distinct(s), s # <<>>
    PROVE  /\ Head(s) \in Requests /\ Head(s) \in ToSet(s)
           /\ Tail(s) \in Seq(Requests)
           /\ Distinct(Tail(s))
           /\ ToSet(Tail(s)) \subseteq ToSet(s) \ {Head(s)}
<1>1. /\ Len(s) \in Nat /\ Len(s) > 0 /\ DOMAIN s = 1..Len(s) /\ Head(s) = s[1]
  BY LenProperties, EmptySeq
<1>2. /\ Head(s) \in Requests /\ Tail(s) \in Seq(Requests) /\ Len(Tail(s)) = Len(s) - 1
      /\ \A i \in 1..(Len(s) - 1) : Tail(s)[i] = s[i + 1]
  BY HeadTailProperties
<1>3. DOMAIN Tail(s) = 1..(Len(s) - 1)
  BY <1>2, LenProperties
<1>4. Head(s) \in ToSet(s)
  BY <1>1 DEF ToSet
<1>5. Distinct(Tail(s))
  BY <1>1, <1>2 DEF Distinct
<1>6. ASSUME NEW x \in ToSet(Tail(s)) PROVE x \in ToSet(s) \ {Head(s)}
  <2>1. PICK i \in 1..(Len(s) - 1) : Tail(s)[i] = x
    BY <1>3 DEF ToSet
  <2>2. i + 1 \in 1..Len(s) /\ s[i + 1] = x /\ i + 1 # 1 /\ 1 \in 1..Len(s)
    BY <2>1, <1>1, <1>2
  <2>3. x # Head(s)
    BY <2>2, <1>1 DEF Distinct
  <2> QED
    BY <2>2, <2>3, <1>1 DEF ToSet
<1> QED
  BY <1>2, <1>4, <1>5, <1>6

-----------------------------------------------------------------------------
(* The inductive invariant.                                                 *)

\* A request is in the semaphore's list exactly while it waits for a permit.
WaitersInv ==
    /\ Distinct(waiters)
    /\ \A r \in Requests : request[r] = "waiting" <=> r \in ToSet(waiters)
    /\ waiting_submitters = Len(waiters)

\* Work comes into being with its token when the request has its permit; a thread
\* works for one request, and no two for the same.
WorkInv ==
    /\ \A r \in Requests : request[r] \in {"new", "waiting"} => future[r] = "none"
    /\ tokens = Occupied
    /\ \A w \in Workers : worker[w] \in Requests => future[worker[w]] = "running"
    /\ \A u, w \in Workers : worker[u] \in Requests /\ worker[u] = worker[w] => u = w

\* The queue holds pending work, and nothing but sentinels after close().
QueueInv ==
    /\ closed <=> close_at # "open"
    /\ close_at # "done" =>
          /\ queue \in Seq(Requests) /\ Distinct(queue)
          /\ \A r \in ToSet(queue) : future[r] = "pending"
    /\ close_at = "done" =>
          /\ Len(queue) <= max_workers
          /\ \A i \in 1..Len(queue) : queue[i] = SENTINEL

PermitsInv == PermitsConserved /\ (closed => Cardinality(Occupied) <= max_workers)

PoolInv ==
    /\ TypeOK
    /\ WaitersInv /\ WorkInv /\ QueueInv
    /\ PermitsInv
    /\ AbandonedIsCancelled

LEMMA Finite ==
    ASSUME TypeOK
    PROVE  /\ IsFiniteSet(Occupied) /\ Cardinality(Occupied) \in Nat
           /\ IsFiniteSet(granted) /\ Cardinality(granted) \in Nat
           /\ max_workers \in Nat
           /\ granted \subseteq Requests
<1>1. ToSet(waiters) \subseteq Requests
  <2>1. waiters \in Seq(Requests) /\ DOMAIN waiters = 1..Len(waiters)
    BY LenProperties DEF TypeOK
  <2>2. \A i \in 1..Len(waiters) : waiters[i] \in Requests
    BY <2>1
  <2> QED
    BY <2>1, <2>2 DEF ToSet
<1>2. granted \in SUBSET Requests /\ Occupied \in SUBSET Requests
  BY <1>1 DEF TypeOK, Occupied
<1> QED
  BY <1>2, RequestsAssumption, WorkersAssumption, FS_Subset, FS_CardinalityType
     DEF max_workers

LEMMA PoolInit == Init => PoolInv
<1> SUFFICES ASSUME Init PROVE PoolInv
  OBVIOUS
<1>1. max_workers \in Nat
  BY WorkersAssumption, FS_CardinalityType DEF max_workers
<1>2. <<>> \in Seq(Requests) /\ <<>> \in Seq(Requests \cup {SENTINEL}) /\ Len(<<>>) = 0
  BY EmptySeq
<1>3. Occupied = {} /\ granted = {} /\ Cardinality({}) = 0
  BY FS_EmptySet DEF Init, Occupied
<1>4. ToSet(<<>>) = {}
  BY DEF ToSet
<1>5. TypeOK
  BY <1>1, <1>2 DEF Init, TypeOK, Idle, Waits
<1>6. WaitersInv
  BY <1>2, <1>4 DEF Init, WaitersInv, Distinct
<1>7. WorkInv
  BY <1>3, RequestsAssumption DEF Init, WorkInv
<1>8. QueueInv
  BY <1>2, <1>4 DEF Init, QueueInv, Distinct
<1>9. PermitsInv /\ AbandonedIsCancelled
  BY <1>1, <1>3 DEF Init, PermitsInv, PermitsConserved, AbandonedIsCancelled
<1> QED
  BY <1>5, <1>6, <1>7, <1>8, <1>9 DEF PoolInv

-----------------------------------------------------------------------------
(* The steps.                                                               *)

\* A request with its permit adds its conversion to the queue.
LEMMA SubmitFacts ==
    ASSUME PoolInv, ~closed, NEW r \in Requests, request[r] \in {"new", "waiting"},
           Submit(r), UNCHANGED <<closed, close_at, cancelled>>
    PROVE  /\ request' \in [Requests -> {"new"} \cup Waits \cup Ends]
           /\ queue' \in Seq(Requests \cup {SENTINEL})
           /\ worker' \in [Workers -> Requests \cup {Idle, Exited}]
           /\ future' \in [Requests -> {"none", "pending", "running", "done", "cancelled"}]
           /\ tokens' \subseteq Requests
           /\ Cardinality(Occupied') = Cardinality(Occupied) + 1
           /\ WorkInv' /\ QueueInv' /\ AbandonedIsCancelled'
<1>1. TypeOK /\ WorkInv /\ QueueInv /\ AbandonedIsCancelled
  BY DEF PoolInv
<1>2. /\ future[r] = "none" /\ close_at = "open"
      /\ queue \in Seq(Requests) /\ Distinct(queue) /\ r \notin ToSet(queue)
  BY <1>1 DEF WorkInv, QueueInv, TypeOK
<1>3. /\ request' = [request EXCEPT ![r] = "submitted"] /\ worker' = worker
      /\ future' = [future EXCEPT ![r] = "pending"]
      /\ tokens' = tokens \cup {r} /\ queue' = Append(queue, r)
  BY DEF Submit
<1>4. /\ request' \in [Requests -> {"new"} \cup Waits \cup Ends]
      /\ worker' \in [Workers -> Requests \cup {Idle, Exited}]
      /\ future' \in [Requests -> {"none", "pending", "running", "done", "cancelled"}]
      /\ tokens' \subseteq Requests
  BY <1>1, <1>3 DEF TypeOK, Waits
<1>5. /\ queue' \in Seq(Requests) /\ Distinct(queue')
      /\ ToSet(queue') = ToSet(queue) \cup {r}
  BY <1>2, <1>3, AppendFacts
<1>6. queue' \in Seq(Requests \cup {SENTINEL})
  BY <1>1, <1>3, AppendProperties DEF TypeOK
<1>7. r \notin Occupied /\ Occupied' = Occupied \cup {r}
  BY <1>1, <1>2, <1>3 DEF Occupied, TypeOK
<1>8. Cardinality(Occupied') = Cardinality(Occupied) + 1
  BY <1>1, <1>7, Finite, FS_AddElement
<1>9. WorkInv'
  <2>1. ASSUME NEW q \in Requests, request'[q] \in {"new", "waiting"}
        PROVE  future'[q] = "none"
    BY <1>1, <1>3, <2>1 DEF TypeOK, WorkInv
  <2>2. tokens' = Occupied'
    BY <1>1, <1>3, <1>7 DEF WorkInv
  <2>3. ASSUME NEW w \in Workers, worker'[w] \in Requests
        PROVE  future'[worker'[w]] = "running"
    BY <1>1, <1>2, <1>3, <2>3 DEF TypeOK, WorkInv
  <2>4. \A u, w \in Workers : worker'[u] \in Requests /\ worker'[u] = worker'[w] => u = w
    BY <1>1, <1>3 DEF WorkInv
  <2> QED
    BY <2>1, <2>2, <2>3, <2>4 DEF WorkInv
<1>10. QueueInv'
  <2>1. \A q \in ToSet(queue') : future'[q] = "pending"
    BY <1>1, <1>2, <1>3, <1>5 DEF TypeOK, QueueInv
  <2> QED
    BY <1>1, <1>2, <1>5, <2>1 DEF QueueInv
<1>11. AbandonedIsCancelled'
  <2> SUFFICES ASSUME NEW q \in Occupied', closed' \/ request'[q] \in Ends
               PROVE  q \in cancelled'
    BY DEF AbandonedIsCancelled
  <2>1. q # r /\ request'[q] \in Ends /\ q \in Occupied
    BY <1>1, <1>3, <1>7 DEF Ends, TypeOK, Occupied
  <2>2. request[q] \in Ends
    BY <1>1, <1>3, <2>1 DEF TypeOK, Occupied
  <2> QED
    BY <1>1, <2>1, <2>2 DEF AbandonedIsCancelled
<1> QED
  BY <1>4, <1>6, <1>8, <1>9, <1>10, <1>11

\* What a step that leaves the threads alone keeps.
LEMMA ThreadsKept ==
    ASSUME PoolInv, UNCHANGED <<threads, tokens>>
    PROVE  /\ queue' \in Seq(Requests \cup {SENTINEL})
           /\ worker' \in [Workers -> Requests \cup {Idle, Exited}]
           /\ future' \in [Requests -> {"none", "pending", "running", "done", "cancelled"}]
           /\ tokens' \subseteq Requests
           /\ Occupied' = Occupied
           /\ (\A r \in Requests : request'[r] \in {"new", "waiting"}
                                      => request[r] \in {"new", "waiting"}) => WorkInv'
           /\ close_at' = close_at /\ closed' = closed => QueueInv'
<1>1. TypeOK /\ WorkInv /\ QueueInv
  BY DEF PoolInv
<1>2. queue' = queue /\ worker' = worker /\ future' = future /\ tokens' = tokens
  BY DEF threads
<1>3. Occupied' = Occupied
  BY <1>2 DEF Occupied
<1>4. ASSUME \A r \in Requests : request'[r] \in {"new", "waiting"}
                                    => request[r] \in {"new", "waiting"}
      PROVE  WorkInv'
  BY <1>1, <1>2, <1>3, <1>4 DEF WorkInv
<1>5. ASSUME close_at' = close_at, closed' = closed PROVE QueueInv'
  BY <1>1, <1>2, <1>5 DEF QueueInv
<1> QED
  BY <1>1, <1>2, <1>3, <1>4, <1>5 DEF TypeOK

LEMMA StepRefusedClosed ==
    ASSUME PoolInv, NEW r \in Requests, RefusedClosed(r)
    PROVE  PoolInv'
<1>1. /\ TypeOK /\ WaitersInv /\ PermitsInv /\ AbandonedIsCancelled /\ WorkInv
  BY DEF PoolInv
<1>2. /\ request[r] = "new" /\ request' = [request EXCEPT ![r] = "refused"]
      /\ UNCHANGED <<semaphore, threads, tokens, cancelled, releases, waiting_submitters,
                     closed, close_at>>
  BY DEF RefusedClosed
<1>3. /\ value' = value /\ waiters' = waiters /\ granted' = granted
  BY <1>2 DEF semaphore
<1>4. /\ queue' \in Seq(Requests \cup {SENTINEL})
      /\ worker' \in [Workers -> Requests \cup {Idle, Exited}]
      /\ future' \in [Requests -> {"none", "pending", "running", "done", "cancelled"}]
      /\ tokens' \subseteq Requests
      /\ Occupied' = Occupied /\ WorkInv' /\ QueueInv'
  <2>1. \A q \in Requests : request'[q] \in {"new", "waiting"}
                               => request[q] \in {"new", "waiting"}
    BY <1>1, <1>2 DEF TypeOK
  <2> QED
    BY <1>2, <2>1, ThreadsKept
<1>5. TypeOK'
  BY <1>1, <1>2, <1>3, <1>4 DEF TypeOK, Ends
<1>6. WaitersInv'
  BY <1>1, <1>2, <1>3 DEF WaitersInv, TypeOK
<1>7. PermitsInv'
  BY <1>1, <1>2, <1>3, <1>4 DEF PermitsInv, PermitsConserved
<1>8. AbandonedIsCancelled'
  <2>1. r \notin Occupied
    BY <1>1, <1>2 DEF WorkInv, Occupied
  <2> QED
    BY <1>1, <1>2, <1>4, <2>1 DEF AbandonedIsCancelled, TypeOK, Occupied
<1> QED
  BY <1>4, <1>5, <1>6, <1>7, <1>8 DEF PoolInv

LEMMA StepRunAtOnce ==
    ASSUME PoolInv, NEW r \in Requests, RunAtOnce(r)
    PROVE  PoolInv'
<1>1. TypeOK /\ WaitersInv /\ PermitsInv
  BY DEF PoolInv
<1>2. /\ request[r] = "new" /\ ~closed /\ value > 0
      /\ value' = value - 1 /\ Submit(r)
      /\ UNCHANGED <<waiters, granted, cancelled, releases, waiting_submitters, closed,
                     close_at>>
  BY DEF RunAtOnce
<1>3. /\ request' \in [Requests -> {"new"} \cup Waits \cup Ends]
      /\ queue' \in Seq(Requests \cup {SENTINEL})
      /\ worker' \in [Workers -> Requests \cup {Idle, Exited}]
      /\ future' \in [Requests -> {"none", "pending", "running", "done", "cancelled"}]
      /\ tokens' \subseteq Requests
      /\ Cardinality(Occupied') = Cardinality(Occupied) + 1
      /\ WorkInv' /\ QueueInv' /\ AbandonedIsCancelled'
  BY <1>2, SubmitFacts
<1>4. TypeOK'
  BY <1>1, <1>2, <1>3 DEF TypeOK
<1>5. WaitersInv'
  <2>1. request' = [request EXCEPT ![r] = "submitted"]
    BY <1>2 DEF Submit
  <2> QED
    BY <1>1, <1>2, <2>1 DEF WaitersInv, TypeOK
<1>6. PermitsInv'
  <2>1. /\ Cardinality(Occupied) \in Nat /\ Cardinality(granted) \in Nat
        /\ max_workers \in Nat /\ value \in Nat /\ releases \in Nat
    BY <1>1, Finite DEF TypeOK
  <2>2. value + Cardinality(granted) + Cardinality(Occupied) + releases = max_workers
    BY <1>1, <1>2 DEF PermitsInv, PermitsConserved
  <2>3. value' + Cardinality(granted') + Cardinality(Occupied') + releases' = max_workers
    BY <1>2, <1>3, <2>1, <2>2
  <2> QED
    BY <1>2, <2>3 DEF PermitsInv, PermitsConserved
<1> QED
  BY <1>3, <1>4, <1>5, <1>6 DEF PoolInv

LEMMA StepWaitForPermit ==
    ASSUME PoolInv, NEW r \in Requests, WaitForPermit(r)
    PROVE  PoolInv'
<1>1. TypeOK /\ WaitersInv /\ WorkInv /\ PermitsInv /\ AbandonedIsCancelled
  BY DEF PoolInv
<1>2. /\ request[r] = "new" /\ request' = [request EXCEPT ![r] = "waiting"]
      /\ waiters' = Append(waiters, r) /\ waiting_submitters' = waiting_submitters + 1
      /\ UNCHANGED <<value, granted, threads, tokens, cancelled, releases, closed, close_at>>
  BY DEF WaitForPermit
<1>3. /\ queue' \in Seq(Requests \cup {SENTINEL})
      /\ worker' \in [Workers -> Requests \cup {Idle, Exited}]
      /\ future' \in [Requests -> {"none", "pending", "running", "done", "cancelled"}]
      /\ tokens' \subseteq Requests
      /\ Occupied' = Occupied /\ WorkInv' /\ QueueInv'
  <2>1. \A q \in Requests : request'[q] \in {"new", "waiting"}
                               => request[q] \in {"new", "waiting"}
    BY <1>1, <1>2 DEF TypeOK
  <2> QED
    BY <1>2, <2>1, ThreadsKept
<1>4. /\ waiters \in Seq(Requests) /\ Distinct(waiters) /\ r \notin ToSet(waiters)
      /\ waiting_submitters = Len(waiters)
  BY <1>1, <1>2 DEF WaitersInv, TypeOK
<1>5. /\ waiters' \in Seq(Requests) /\ Len(waiters') = Len(waiters) + 1
      /\ ToSet(waiters') = ToSet(waiters) \cup {r} /\ Distinct(waiters')
  BY <1>2, <1>4, AppendFacts
<1>6. TypeOK'
  <2>1. request' \in [Requests -> {"new"} \cup Waits \cup Ends]
    BY <1>1, <1>2 DEF TypeOK, Waits
  <2>2. granted' \subseteq ToSet(waiters') /\ waiting_submitters' \in Nat
    BY <1>1, <1>2, <1>5 DEF TypeOK
  <2> QED
    BY <1>1, <1>2, <1>3, <1>5, <2>1, <2>2 DEF TypeOK
<1>7. WaitersInv'
  BY <1>1, <1>2, <1>4, <1>5 DEF WaitersInv, TypeOK
<1>8. PermitsInv'
  BY <1>1, <1>2, <1>3 DEF PermitsInv, PermitsConserved
<1>9. AbandonedIsCancelled'
  BY <1>1, <1>2, <1>3 DEF AbandonedIsCancelled, TypeOK, Occupied, Ends
<1> QED
  BY <1>3, <1>6, <1>7, <1>8, <1>9 DEF PoolInv

\* A waiter leaves the list, and whoever the free permits allow is woken.
LEMMA LeaveFacts ==
    ASSUME PoolInv, NEW r \in Requests, request[r] = "waiting", NEW v \in Nat, NEW k \in Nat,
           WakeUp(v, k, Without(waiters, r), granted \ {r}),
           waiting_submitters' = waiting_submitters - 1,
           NEW end, end \notin {"new", "waiting"}, request' = [request EXCEPT ![r] = end]
    PROVE  /\ value' \in Nat
           /\ waiters' \in Seq(Requests)
           /\ granted' \subseteq ToSet(waiters')
           /\ waiting_submitters' \in Nat
           /\ WaitersInv'
           /\ value' + Cardinality(granted')
                = v + Cardinality(granted) - (IF r \in granted THEN 1 ELSE 0)
           /\ Cardinality(granted') \in Nat
<1>1. TypeOK /\ WaitersInv
  BY DEF PoolInv
<1>2. /\ waiters \in Seq(Requests) /\ Distinct(waiters) /\ r \in ToSet(waiters)
      /\ waiting_submitters = Len(waiters) /\ Len(waiters) \in Nat
  BY <1>1, LenProperties DEF WaitersInv, TypeOK
<1> DEFINE w == Without(waiters, r)
<1>3. /\ w \in Seq(Requests) /\ Len(w) = Len(waiters) - 1
      /\ ToSet(w) = ToSet(waiters) \ {r} /\ Distinct(w)
  BY <1>2, WithoutFacts
<1>4. granted \ {r} \in SUBSET ToSet(w)
  BY <1>1, <1>3 DEF TypeOK
<1> HIDE DEF w
<1>5. WakeUp(v, k, w, granted \ {r})
  BY DEF w
<1>6. /\ value' \in Nat /\ waiters' = w /\ granted' \in SUBSET ToSet(w)
      /\ Cardinality(granted') \in Nat
      /\ value' + Cardinality(granted') = v + Cardinality(granted \ {r})
  BY <1>3, <1>4, <1>5, WakeUpFacts
<1>7. Cardinality(granted \ {r}) = Cardinality(granted) - (IF r \in granted THEN 1 ELSE 0)
  <2>1. /\ IsFiniteSet(granted) /\ Cardinality(granted) \in Nat
    BY <1>1, Finite
  <2>2. Cardinality(granted \ {r})
          = IF r \in granted THEN Cardinality(granted) - 1 ELSE Cardinality(granted)
    BY <2>1, FS_RemoveElement
  <2> QED
    BY <2>1, <2>2
<1>8. waiting_submitters' = Len(w) /\ waiting_submitters' \in Nat
  BY <1>2, <1>3, LenProperties
<1>9. WaitersInv'
  <2>1. \A q \in Requests : request'[q] = "waiting" <=> q \in ToSet(waiters')
    BY <1>1, <1>3, <1>6 DEF WaitersInv, TypeOK
  <2> QED
    BY <1>3, <1>6, <1>8, <2>1 DEF WaitersInv
<1>10. value' + Cardinality(granted')
         = v + Cardinality(granted) - (IF r \in granted THEN 1 ELSE 0)
  BY <1>1, <1>6, <1>7, Finite
<1> QED
  BY <1>3, <1>6, <1>8, <1>9, <1>10

\* A woken waiter waits.
LEMMA GrantedWaits ==
    ASSUME PoolInv, NEW r \in granted
    PROVE  r \in Requests /\ request[r] = "waiting"
BY Finite DEF PoolInv, WaitersInv, TypeOK

LEMMA StepResumeGranted ==
    ASSUME PoolInv, NEW r \in Requests, ResumeGranted(r)
    PROVE  PoolInv'
<1>1. TypeOK /\ PermitsInv
  BY DEF PoolInv
<1>2. /\ r \in granted /\ ~closed
      /\ WakeUp(value, value, Without(waiters, r), granted \ {r})
      /\ waiting_submitters' = waiting_submitters - 1 /\ Submit(r)
      /\ UNCHANGED <<cancelled, releases, closed, close_at>>
  BY DEF ResumeGranted
<1>3. request[r] = "waiting" /\ request' = [request EXCEPT ![r] = "submitted"]
  BY <1>2, GrantedWaits DEF Submit
<1>4. /\ request' \in [Requests -> {"new"} \cup Waits \cup Ends]
      /\ queue' \in Seq(Requests \cup {SENTINEL})
      /\ worker' \in [Workers -> Requests \cup {Idle, Exited}]
      /\ future' \in [Requests -> {"none", "pending", "running", "done", "cancelled"}]
      /\ tokens' \subseteq Requests
      /\ Cardinality(Occupied') = Cardinality(Occupied) + 1
      /\ WorkInv' /\ QueueInv' /\ AbandonedIsCancelled'
  BY <1>2, <1>3, SubmitFacts
<1>5. value \in Nat
  BY <1>1 DEF TypeOK
<1>6. /\ value' \in Nat /\ waiters' \in Seq(Requests) /\ granted' \subseteq ToSet(waiters')
      /\ waiting_submitters' \in Nat /\ WaitersInv'
      /\ value' + Cardinality(granted') = value + Cardinality(granted) - 1
      /\ Cardinality(granted') \in Nat
  BY <1>2, <1>3, <1>5, LeaveFacts
<1>7. TypeOK'
  BY <1>1, <1>2, <1>4, <1>6 DEF TypeOK
<1>8. PermitsInv'
  <2>1. /\ Cardinality(Occupied) \in Nat /\ Cardinality(granted) \in Nat
        /\ max_workers \in Nat /\ value \in Nat /\ releases \in Nat
        /\ Cardinality(Occupied') \in Nat /\ Cardinality(granted') \in Nat
    BY <1>1, <1>4, <1>6, Finite DEF TypeOK
  <2>2. value + Cardinality(granted) + Cardinality(Occupied) + releases = max_workers
    BY <1>1, <1>2 DEF PermitsInv, PermitsConserved
  <2>3. value' + Cardinality(granted') + Cardinality(Occupied') + releases' = max_workers
    BY <1>2, <1>4, <1>6, <2>1, <2>2
  <2> QED
    BY <1>2, <2>3 DEF PermitsInv, PermitsConserved
<1> QED
  BY <1>4, <1>6, <1>7, <1>8 DEF PoolInv

\* A waiter that leaves with no conversion of its own.
LEMMA LeavesEmptyHanded ==
    ASSUME PoolInv, NEW r \in Requests, request[r] = "waiting", NEW k \in Nat,
           NEW v \in Nat, v = (IF r \in granted THEN value + 1 ELSE value),
           WakeUp(v, k, Without(waiters, r), granted \ {r}),
           waiting_submitters' = waiting_submitters - 1,
           NEW end \in {"refused", "given_up"}, request' = [request EXCEPT ![r] = end],
           UNCHANGED <<threads, tokens, cancelled, releases, closed, close_at>>
    PROVE  PoolInv'
<1>1. TypeOK /\ WaitersInv /\ WorkInv /\ PermitsInv /\ AbandonedIsCancelled
  BY DEF PoolInv
<1>2. /\ queue' \in Seq(Requests \cup {SENTINEL})
      /\ worker' \in [Workers -> Requests \cup {Idle, Exited}]
      /\ future' \in [Requests -> {"none", "pending", "running", "done", "cancelled"}]
      /\ tokens' \subseteq Requests
      /\ Occupied' = Occupied /\ WorkInv' /\ QueueInv'
  <2>1. \A q \in Requests : request'[q] \in {"new", "waiting"}
                               => request[q] \in {"new", "waiting"}
    BY <1>1 DEF TypeOK
  <2> QED
    BY <2>1, ThreadsKept
<1>3. /\ value' \in Nat /\ waiters' \in Seq(Requests) /\ granted' \subseteq ToSet(waiters')
      /\ waiting_submitters' \in Nat /\ WaitersInv'
      /\ value' + Cardinality(granted')
           = v + Cardinality(granted) - (IF r \in granted THEN 1 ELSE 0)
      /\ Cardinality(granted') \in Nat
  <2>1. end \notin {"new", "waiting"}
    OBVIOUS
  <2> QED
    BY <2>1, LeaveFacts
<1>4. TypeOK'
  <2>1. request' \in [Requests -> {"new"} \cup Waits \cup Ends]
    BY <1>1 DEF TypeOK, Ends
  <2> QED
    BY <1>1, <1>2, <1>3, <2>1 DEF TypeOK
<1>5. PermitsInv'
  <2>1. /\ Cardinality(granted) \in Nat /\ Cardinality(granted') \in Nat
        /\ value \in Nat
    BY <1>1, <1>3, Finite DEF TypeOK
  <2>2. value' + Cardinality(granted') = value + Cardinality(granted)
    BY <1>3, <2>1
  <2> QED
    BY <1>1, <1>2, <2>2 DEF PermitsInv, PermitsConserved
<1>6. AbandonedIsCancelled'
  <2>1. r \notin Occupied
    BY <1>1 DEF WorkInv, Occupied
  <2> QED
    BY <1>1, <1>2, <2>1 DEF AbandonedIsCancelled, TypeOK, Occupied
<1> QED
  BY <1>2, <1>3, <1>4, <1>5, <1>6 DEF PoolInv

LEMMA StepResumeClosed ==
    ASSUME PoolInv, NEW r \in Requests, ResumeClosed(r)
    PROVE  PoolInv'
<1>1. request[r] = "waiting" /\ value + 1 \in Nat
  BY GrantedWaits DEF ResumeClosed, PoolInv, TypeOK
<1> QED
  BY <1>1, LeavesEmptyHanded DEF ResumeClosed

LEMMA StepGiveUpWaiting ==
    ASSUME PoolInv, NEW r \in Requests, GiveUpWaiting(r)
    PROVE  PoolInv'
<1> DEFINE v == IF r \in granted THEN value + 1 ELSE value
<1>1. v \in Nat
  BY DEF PoolInv, TypeOK
<1>2. /\ request[r] = "waiting"
      /\ WakeUp(v, v, Without(waiters, r), granted \ {r})
      /\ waiting_submitters' = waiting_submitters - 1
      /\ request' = [request EXCEPT ![r] = "given_up"]
      /\ UNCHANGED <<threads, tokens, cancelled, releases, closed, close_at>>
  BY DEF GiveUpWaiting
<1>3. v = (IF r \in granted THEN value + 1 ELSE value)
  OBVIOUS
<1> HIDE DEF v
<1> QED
  BY <1>1, <1>2, <1>3, LeavesEmptyHanded

LEMMA StepGiveUpResult ==
    ASSUME PoolInv, NEW r \in Requests, GiveUpResult(r)
    PROVE  PoolInv'
<1>1. TypeOK /\ WaitersInv /\ PermitsInv /\ AbandonedIsCancelled
  BY DEF PoolInv
<1>2. /\ request[r] = "submitted" /\ request' = [request EXCEPT ![r] = "given_up"]
      /\ cancelled' = cancelled \cup {r}
      /\ UNCHANGED <<value, waiters, granted, threads, tokens, releases,
                     waiting_submitters, closed, close_at>>
  BY DEF GiveUpResult, semaphore
<1>3. /\ queue' \in Seq(Requests \cup {SENTINEL})
      /\ worker' \in [Workers -> Requests \cup {Idle, Exited}]
      /\ future' \in [Requests -> {"none", "pending", "running", "done", "cancelled"}]
      /\ tokens' \subseteq Requests
      /\ Occupied' = Occupied /\ WorkInv' /\ QueueInv'
  <2>1. \A q \in Requests : request'[q] \in {"new", "waiting"}
                               => request[q] \in {"new", "waiting"}
    BY <1>1, <1>2 DEF TypeOK
  <2> QED
    BY <1>2, <2>1, ThreadsKept
<1>4. TypeOK'
  <2>1. request' \in [Requests -> {"new"} \cup Waits \cup Ends]
    BY <1>1, <1>2 DEF TypeOK, Ends
  <2> QED
    BY <1>1, <1>2, <1>3, <2>1 DEF TypeOK
<1>5. WaitersInv'
  BY <1>1, <1>2 DEF WaitersInv, TypeOK
<1>6. PermitsInv'
  BY <1>1, <1>2, <1>3 DEF PermitsInv, PermitsConserved
<1>7. AbandonedIsCancelled'
  BY <1>1, <1>2, <1>3 DEF AbandonedIsCancelled, TypeOK, Occupied
<1> QED
  BY <1>3, <1>4, <1>5, <1>6, <1>7 DEF PoolInv

LEMMA StepDeliver ==
    ASSUME PoolInv, NEW r \in Requests, Deliver(r)
    PROVE  PoolInv'
<1>1. TypeOK /\ WaitersInv /\ PermitsInv /\ AbandonedIsCancelled
  BY DEF PoolInv
<1>2. /\ request[r] = "submitted" /\ future[r] \in {"done", "cancelled"}
      /\ request' = [request EXCEPT ![r] = future[r]]
      /\ cancelled \subseteq cancelled' /\ cancelled' \subseteq cancelled \cup {r}
      /\ UNCHANGED <<value, waiters, granted, threads, tokens, releases,
                     waiting_submitters, closed, close_at>>
  BY DEF Deliver, semaphore
<1>3. /\ queue' \in Seq(Requests \cup {SENTINEL})
      /\ worker' \in [Workers -> Requests \cup {Idle, Exited}]
      /\ future' \in [Requests -> {"none", "pending", "running", "done", "cancelled"}]
      /\ tokens' \subseteq Requests
      /\ Occupied' = Occupied /\ WorkInv' /\ QueueInv'
  <2>1. \A q \in Requests : request'[q] \in {"new", "waiting"}
                               => request[q] \in {"new", "waiting"}
    BY <1>1, <1>2 DEF TypeOK
  <2> QED
    BY <1>2, <2>1, ThreadsKept
<1>4. TypeOK'
  <2>1. request' \in [Requests -> {"new"} \cup Waits \cup Ends]
    BY <1>1, <1>2 DEF TypeOK, Ends
  <2> QED
    BY <1>1, <1>2, <1>3, <2>1 DEF TypeOK
<1>5. WaitersInv'
  BY <1>1, <1>2 DEF WaitersInv, TypeOK
<1>6. PermitsInv'
  BY <1>1, <1>2, <1>3 DEF PermitsInv, PermitsConserved
<1>7. AbandonedIsCancelled'
  <2>1. r \notin Occupied
    BY <1>2 DEF Occupied
  <2> QED
    BY <1>1, <1>2, <1>3, <2>1 DEF AbandonedIsCancelled, TypeOK, Occupied
<1> QED
  BY <1>3, <1>4, <1>5, <1>6, <1>7 DEF PoolInv

LEMMA StepRunRelease ==
    ASSUME PoolInv, RunRelease
    PROVE  PoolInv'
<1>1. TypeOK /\ WaitersInv /\ PermitsInv /\ AbandonedIsCancelled
  BY DEF PoolInv
<1>2. /\ releases > 0 /\ releases' = releases - 1
      /\ WakeUp(value + 1, 1, waiters, granted)
      /\ UNCHANGED <<request, threads, tokens, cancelled, waiting_submitters, closed,
                     close_at>>
  BY DEF RunRelease, release
<1>3. /\ value + 1 \in Nat /\ waiters \in Seq(Requests) /\ granted \in SUBSET ToSet(waiters)
      /\ 1 \in Nat
  BY <1>1 DEF TypeOK
<1>4. /\ value' \in Nat /\ waiters' = waiters /\ granted' \in SUBSET ToSet(waiters)
      /\ Cardinality(granted') \in Nat
      /\ value' + Cardinality(granted') = (value + 1) + Cardinality(granted)
  BY <1>2, <1>3, WakeUpFacts
<1>5. /\ queue' \in Seq(Requests \cup {SENTINEL})
      /\ worker' \in [Workers -> Requests \cup {Idle, Exited}]
      /\ future' \in [Requests -> {"none", "pending", "running", "done", "cancelled"}]
      /\ tokens' \subseteq Requests
      /\ Occupied' = Occupied /\ WorkInv' /\ QueueInv'
  BY <1>2, ThreadsKept
<1>6. TypeOK'
  <2>1. releases' \in Nat
    BY <1>1, <1>2 DEF TypeOK
  <2> QED
    BY <1>1, <1>2, <1>4, <1>5, <2>1 DEF TypeOK
<1>7. WaitersInv'
  BY <1>1, <1>2, <1>4 DEF WaitersInv
<1>8. PermitsInv'
  <2>1. /\ Cardinality(Occupied) \in Nat /\ Cardinality(granted) \in Nat
        /\ max_workers \in Nat /\ value \in Nat /\ releases \in Nat
    BY <1>1, Finite DEF TypeOK
  <2>2. ASSUME ~closed
        PROVE  value' + Cardinality(granted') + Cardinality(Occupied) + releases' = max_workers
    <3>1. value + Cardinality(granted) + Cardinality(Occupied) + releases = max_workers
      BY <1>1, <2>2 DEF PermitsInv, PermitsConserved
    <3> QED
      BY <1>2, <1>4, <2>1, <3>1
  <2> QED
    BY <1>1, <1>2, <1>5, <2>2 DEF PermitsInv, PermitsConserved
<1>9. AbandonedIsCancelled'
  BY <1>1, <1>2, <1>5 DEF AbandonedIsCancelled
<1> QED
  BY <1>5, <1>6, <1>7, <1>8, <1>9 DEF PoolInv

LEMMA StepClose ==
    ASSUME PoolInv, close
    PROVE  PoolInv'
<1>1. TypeOK /\ WaitersInv /\ WorkInv /\ QueueInv /\ PermitsInv /\ AbandonedIsCancelled
  BY DEF PoolInv
<1>2. /\ ~closed /\ closed' = TRUE /\ close_at' = "drain"
      /\ cancelled' = cancelled \cup tokens
      /\ WakeUp(value + waiting_submitters, waiting_submitters, waiters, granted)
      /\ UNCHANGED <<request, threads, tokens, releases, waiting_submitters>>
  BY DEF close
<1>3. /\ value + waiting_submitters \in Nat /\ waiting_submitters \in Nat
      /\ waiters \in Seq(Requests) /\ granted \in SUBSET ToSet(waiters)
  BY <1>1 DEF TypeOK
<1>4. value' \in Nat /\ waiters' = waiters /\ granted' \in SUBSET ToSet(waiters)
  BY <1>2, <1>3, WakeUpFacts
<1>5. /\ queue' \in Seq(Requests \cup {SENTINEL})
      /\ worker' \in [Workers -> Requests \cup {Idle, Exited}]
      /\ future' \in [Requests -> {"none", "pending", "running", "done", "cancelled"}]
      /\ tokens' \subseteq Requests
      /\ Occupied' = Occupied /\ WorkInv'
  BY <1>2, ThreadsKept
<1>6. TypeOK'
  BY <1>1, <1>2, <1>4, <1>5 DEF TypeOK
<1>7. WaitersInv'
  BY <1>1, <1>2, <1>4 DEF WaitersInv
<1>8. QueueInv'
  BY <1>1, <1>2 DEF QueueInv, threads, TypeOK
<1>9. PermitsInv'
  <2>1. /\ Cardinality(Occupied) \in Nat /\ Cardinality(granted) \in Nat
        /\ max_workers \in Nat /\ value \in Nat /\ releases \in Nat
    BY <1>1, Finite DEF TypeOK
  <2>2. value + Cardinality(granted) + Cardinality(Occupied) + releases = max_workers
    BY <1>1, <1>2 DEF PermitsInv, PermitsConserved
  <2>3. Cardinality(Occupied) <= max_workers
    BY <2>1, <2>2
  <2> QED
    BY <1>2, <1>5, <2>3 DEF PermitsInv, PermitsConserved
<1>10. AbandonedIsCancelled'
  BY <1>1, <1>2, <1>5 DEF AbandonedIsCancelled, WorkInv
<1> QED
  BY <1>5, <1>6, <1>7, <1>8, <1>9, <1>10 DEF PoolInv

\* The permit of a conversion that is over is on its way back.
LEMMA OnItsWayBack ==
    ASSUME TypeOK, PermitsInv, Cardinality(Occupied') = Cardinality(Occupied) - 1,
           releases' = releases + 1, UNCHANGED <<value, granted, closed>>
    PROVE  PermitsInv'
<1>1. /\ Cardinality(Occupied) \in Nat /\ Cardinality(granted) \in Nat
      /\ max_workers \in Nat /\ value \in Nat /\ releases \in Nat
  BY Finite DEF TypeOK
<1>2. ASSUME ~closed
      PROVE  value + Cardinality(granted) + Cardinality(Occupied') + releases' = max_workers
  <2>1. value + Cardinality(granted) + Cardinality(Occupied) + releases = max_workers
    BY <1>2 DEF PermitsInv, PermitsConserved
  <2> QED
    BY <1>1, <2>1
<1>3. closed => Cardinality(Occupied') <= max_workers
  BY <1>1 DEF PermitsInv
<1> QED
  BY <1>2, <1>3 DEF PermitsInv, PermitsConserved

\* A conversion ends: its token goes, its permit is on its way back.
LEMMA ConversionOver ==
    ASSUME PoolInv, NEW r \in Occupied, NEW end \in {"done", "cancelled"},
           future' = [future EXCEPT ![r] = end], WorkerDone(r),
           cancelled \subseteq cancelled', cancelled' \subseteq Requests,
           UNCHANGED <<request, semaphore, waiting_submitters, closed, close_at>>,
           queue' \in Seq(Requests \cup {SENTINEL}),
           worker' \in [Workers -> Requests \cup {Idle, Exited}]
    PROVE  /\ TypeOK' /\ WaitersInv' /\ PermitsInv' /\ AbandonedIsCancelled'
           /\ tokens' = Occupied'
           /\ \A q \in Requests : request'[q] \in {"new", "waiting"} => future'[q] = "none"
<1>1. TypeOK /\ WaitersInv /\ WorkInv /\ PermitsInv /\ AbandonedIsCancelled
  BY DEF PoolInv
<1>2. /\ r \in Requests /\ future[r] \in {"pending", "running"}
      /\ tokens' = tokens \ {r} /\ releases' = releases + 1
      /\ value' = value /\ waiters' = waiters /\ granted' = granted
  BY DEF Occupied, WorkerDone, semaphore
<1>3. Occupied' = Occupied \ {r}
  BY <1>1, <1>2 DEF Occupied, TypeOK
<1>4. /\ Cardinality(Occupied) \in Nat /\ Cardinality(granted) \in Nat
      /\ max_workers \in Nat /\ value \in Nat /\ releases \in Nat
      /\ Cardinality(Occupied') = Cardinality(Occupied) - 1
  BY <1>1, <1>3, Finite, FS_RemoveElement DEF TypeOK
<1>5. TypeOK'
  <2>1. future' \in [Requests -> {"none", "pending", "running", "done", "cancelled"}]
    BY <1>1, <1>2 DEF TypeOK
  <2>2. releases' \in Nat /\ tokens' \subseteq Requests
    BY <1>1, <1>2 DEF TypeOK
  <2> QED
    BY <1>1, <1>2, <2>1, <2>2 DEF TypeOK
<1>6. WaitersInv'
  BY <1>1, <1>2 DEF WaitersInv
<1>7. PermitsInv'
  BY <1>1, <1>2, <1>4, OnItsWayBack
<1>8. AbandonedIsCancelled'
  BY <1>1, <1>3 DEF AbandonedIsCancelled
<1>9. tokens' = Occupied'
  BY <1>1, <1>2, <1>3 DEF WorkInv
<1>10. \A q \in Requests : request'[q] \in {"new", "waiting"} => future'[q] = "none"
  BY <1>1, <1>2 DEF WorkInv, TypeOK
<1> QED
  BY <1>5, <1>6, <1>7, <1>8, <1>9, <1>10

LEMMA StepGet ==
    ASSUME PoolInv, NEW w \in Workers, Get(w)
    PROVE  PoolInv'
<1>1. TypeOK /\ WaitersInv /\ WorkInv /\ QueueInv /\ PermitsInv /\ AbandonedIsCancelled
  BY DEF PoolInv
<1>2. /\ worker[w] = Idle /\ queue # <<>> /\ queue' = Tail(queue)
      /\ UNCHANGED <<request, value, waiters, granted, tokens, cancelled, releases,
                     waiting_submitters, closed, close_at>>
  BY DEF Get, semaphore
<1>3. Idle \notin Requests /\ Exited \notin Requests /\ SENTINEL \notin Requests
  BY RequestsAssumption
<1>4. queue' \in Seq(Requests \cup {SENTINEL})
  BY <1>1, <1>2, HeadTailProperties DEF TypeOK
<1>5. WaitersInv'
  BY <1>1, <1>2 DEF WaitersInv
<1>6. CASE close_at = "done"
  <2>1. /\ Len(queue) \in Nat /\ Len(queue) > 0 /\ Head(queue) = queue[1]
        /\ Len(queue') = Len(queue) - 1
        /\ \A i \in 1..Len(queue') : queue'[i] = queue[i + 1]
    BY <1>1, <1>2, LenProperties, EmptySeq, HeadTailProperties DEF TypeOK
  <2>2. Len(queue) <= max_workers /\ \A i \in 1..Len(queue) : queue[i] = SENTINEL
    BY <1>1, <1>6 DEF QueueInv
  <2>3. Head(queue) = SENTINEL
    BY <2>1, <2>2
  <2>4. worker' = [worker EXCEPT ![w] = Exited] /\ future' = future
    BY <2>3 DEF Get
  <2>5. Occupied' = Occupied
    BY <2>4 DEF Occupied
  <2>6. TypeOK'
    <3>1. worker' \in [Workers -> Requests \cup {Idle, Exited}]
      BY <1>1, <2>4 DEF TypeOK
    <3> QED
      BY <1>1, <1>2, <1>4, <2>4, <3>1 DEF TypeOK
  <2>7. WorkInv'
    <3>1. \A u \in Workers : worker'[u] \in Requests => u # w /\ worker'[u] = worker[u]
      BY <1>1, <1>3, <2>4 DEF TypeOK
    <3> QED
      BY <1>1, <1>2, <2>4, <2>5, <3>1 DEF WorkInv
  <2>8. QueueInv'
    <3>1. max_workers \in Nat
      BY <1>1, Finite
    <3>2. Len(queue') <= max_workers
      BY <2>1, <2>2, <3>1
    <3>3. \A i \in 1..Len(queue') : queue'[i] = SENTINEL
      BY <2>1, <2>2
    <3> QED
      BY <1>1, <1>2, <1>6, <3>2, <3>3 DEF QueueInv, max_workers
  <2>9. PermitsInv' /\ AbandonedIsCancelled'
    BY <1>1, <1>2, <2>5 DEF PermitsInv, PermitsConserved, AbandonedIsCancelled
  <2> QED
    BY <1>5, <2>6, <2>7, <2>8, <2>9 DEF PoolInv
<1>7. CASE close_at # "done"
  <2> DEFINE r == Head(queue)
  <2>1. /\ queue \in Seq(Requests) /\ Distinct(queue)
        /\ \A q \in ToSet(queue) : future[q] = "pending"
    BY <1>1, <1>7 DEF QueueInv
  <2>2. /\ r \in Requests /\ r \in ToSet(queue)
        /\ queue' \in Seq(Requests) /\ Distinct(queue')
        /\ ToSet(queue') \subseteq ToSet(queue) \ {r}
    BY <1>2, <2>1, TailFacts
  <2>3. future[r] = "pending" /\ r # SENTINEL
    BY <1>3, <2>1, <2>2
  <2>4. worker' = [worker EXCEPT ![w] = r] /\ future' = [future EXCEPT ![r] = "running"]
    BY <2>3 DEF Get
  <2> HIDE DEF r
  <2>5. Occupied' = Occupied
    BY <1>1, <2>2, <2>3, <2>4 DEF Occupied, TypeOK
  <2>6. TypeOK'
    <3>1. worker' \in [Workers -> Requests \cup {Idle, Exited}]
      BY <1>1, <2>2, <2>4 DEF TypeOK
    <3>2. future' \in [Requests -> {"none", "pending", "running", "done", "cancelled"}]
      BY <1>1, <2>2, <2>4 DEF TypeOK
    <3> QED
      BY <1>1, <1>2, <1>4, <3>1, <3>2 DEF TypeOK
  <2>7. WorkInv'
    <3>1. \A q \in Requests : request'[q] \in {"new", "waiting"} => future'[q] = "none"
      BY <1>1, <1>2, <2>2, <2>3, <2>4 DEF WorkInv, TypeOK
    <3>2. ASSUME NEW u \in Workers, worker'[u] \in Requests, u # w
          PROVE  /\ worker'[u] = worker[u] /\ worker'[u] # r
                 /\ future'[worker'[u]] = "running"
      <4>1. worker'[u] = worker[u]
        BY <1>1, <2>4, <3>2 DEF TypeOK
      <4>2. future[worker[u]] = "running"
        BY <1>1, <3>2, <4>1 DEF WorkInv
      <4> QED
        BY <1>1, <2>3, <2>4, <3>2, <4>1, <4>2 DEF TypeOK
    <3>3. worker'[w] = r /\ future'[r] = "running"
      BY <1>1, <2>2, <2>4 DEF TypeOK
    <3>4. \A u \in Workers : worker'[u] \in Requests => future'[worker'[u]] = "running"
      BY <3>2, <3>3
    <3>5. ASSUME NEW u \in Workers, NEW x \in Workers,
                 worker'[u] \in Requests, worker'[u] = worker'[x]
          PROVE  u = x
      <4>1. CASE u = w
        BY <3>2, <3>3, <3>5, <4>1
      <4>2. CASE x = w
        BY <3>2, <3>3, <3>5, <4>2
      <4>3. CASE u # w /\ x # w
        BY <1>1, <3>2, <3>5, <4>3 DEF WorkInv
      <4> QED
        BY <4>1, <4>2, <4>3
    <3>6. tokens' = Occupied'
      BY <1>1, <1>2, <2>5 DEF WorkInv
    <3> QED
      BY <3>1, <3>4, <3>5, <3>6 DEF WorkInv
  <2>8. QueueInv'
    <3>1. \A q \in ToSet(queue') : future'[q] = "pending"
      <4>1. \A q \in ToSet(queue') : q # r /\ future[q] = "pending"
        BY <2>1, <2>2
      <4> QED
        BY <1>1, <2>2, <2>4, <4>1 DEF TypeOK
    <3> QED
      BY <1>1, <1>2, <1>7, <2>2, <3>1 DEF QueueInv
  <2>9. PermitsInv' /\ AbandonedIsCancelled'
    BY <1>1, <1>2, <2>5 DEF PermitsInv, PermitsConserved, AbandonedIsCancelled
  <2> QED
    BY <1>5, <2>6, <2>7, <2>8, <2>9 DEF PoolInv
<1> QED
  BY <1>6, <1>7

LEMMA StepFinish ==
    ASSUME PoolInv, NEW w \in Workers, Finish(w)
    PROVE  PoolInv'
<1>1. TypeOK /\ WorkInv /\ QueueInv
  BY DEF PoolInv
<1> DEFINE r == worker[w]
<1>2. /\ r \in Requests /\ future' = [future EXCEPT ![r] = "done"] /\ WorkerDone(r)
      /\ worker' = [worker EXCEPT ![w] = Idle]
      /\ UNCHANGED <<request, semaphore, queue, cancelled, waiting_submitters, closed,
                     close_at>>
  BY DEF Finish
<1>3. future[r] = "running" /\ r \in Occupied
  BY <1>1, <1>2 DEF WorkInv, Occupied
<1>4. Idle \notin Requests
  BY RequestsAssumption
<1>5. /\ worker' \in [Workers -> Requests \cup {Idle, Exited}]
      /\ \A u \in Workers : worker'[u] \in Requests => u # w /\ worker'[u] = worker[u]
  BY <1>1, <1>2, <1>4 DEF TypeOK
<1>6. \A u \in Workers : u # w /\ worker[u] \in Requests => worker[u] # r
  BY <1>1 DEF WorkInv
<1>7. queue' \in Seq(Requests \cup {SENTINEL}) /\ cancelled' \subseteq Requests
  BY <1>1, <1>2 DEF TypeOK
<1> HIDE DEF r
<1>8. /\ TypeOK' /\ WaitersInv' /\ PermitsInv' /\ AbandonedIsCancelled'
      /\ tokens' = Occupied'
      /\ \A q \in Requests : request'[q] \in {"new", "waiting"} => future'[q] = "none"
  BY <1>2, <1>3, <1>5, <1>7, ConversionOver
<1>9. WorkInv'
  <2>1. ASSUME NEW u \in Workers, worker'[u] \in Requests
        PROVE  future'[worker'[u]] = "running"
    <3>1. worker'[u] = worker[u] /\ worker[u] # r /\ future[worker[u]] = "running"
      BY <1>1, <1>5, <1>6, <2>1 DEF WorkInv
    <3> QED
      BY <1>1, <1>2, <2>1, <3>1 DEF TypeOK
  <2>2. \A u, x \in Workers : worker'[u] \in Requests /\ worker'[u] = worker'[x] => u = x
    BY <1>1, <1>5 DEF WorkInv
  <2> QED
    BY <1>8, <2>1, <2>2 DEF WorkInv
<1>10. QueueInv'
  BY <1>1, <1>2, <1>3 DEF QueueInv, TypeOK, max_workers
<1> QED
  BY <1>8, <1>9, <1>10 DEF PoolInv

LEMMA StepDrain ==
    ASSUME PoolInv, Drain
    PROVE  PoolInv'
<1>1. TypeOK /\ WorkInv /\ QueueInv
  BY DEF PoolInv
<1> DEFINE r == Head(queue)
<1>2. /\ close_at = "drain" /\ queue # <<>> /\ queue' = Tail(queue)
      /\ future' = [future EXCEPT ![r] = "cancelled"] /\ WorkerDone(r)
      /\ cancelled' = cancelled \cup {r}
      /\ UNCHANGED <<request, semaphore, worker, waiting_submitters, closed, close_at>>
  BY DEF Drain
<1>3. /\ queue \in Seq(Requests) /\ Distinct(queue)
      /\ \A q \in ToSet(queue) : future[q] = "pending"
  BY <1>1, <1>2 DEF QueueInv
<1>4. /\ r \in Requests /\ r \in ToSet(queue)
      /\ queue' \in Seq(Requests) /\ Distinct(queue')
      /\ ToSet(queue') \subseteq ToSet(queue) \ {r}
  BY <1>2, <1>3, TailFacts
<1>5. future[r] = "pending" /\ r \in Occupied
  BY <1>3, <1>4 DEF Occupied
<1>6. queue' \in Seq(Requests \cup {SENTINEL})
  BY <1>1, <1>2, HeadTailProperties DEF TypeOK
<1> HIDE DEF r
<1>7. worker' \in [Workers -> Requests \cup {Idle, Exited}] /\ cancelled' \subseteq Requests
  BY <1>1, <1>2, <1>4 DEF TypeOK
<1>8. /\ TypeOK' /\ WaitersInv' /\ PermitsInv' /\ AbandonedIsCancelled'
      /\ tokens' = Occupied'
      /\ \A q \in Requests : request'[q] \in {"new", "waiting"} => future'[q] = "none"
  BY <1>2, <1>5, <1>6, <1>7, ConversionOver
<1>9. WorkInv'
  <2>1. ASSUME NEW u \in Workers, worker'[u] \in Requests
        PROVE  future'[worker'[u]] = "running"
    BY <1>1, <1>2, <1>4, <1>5, <2>1 DEF WorkInv, TypeOK
  <2>2. \A u, x \in Workers : worker'[u] \in Requests /\ worker'[u] = worker'[x] => u = x
    BY <1>1, <1>2 DEF WorkInv
  <2> QED
    BY <1>8, <2>1, <2>2 DEF WorkInv
<1>10. QueueInv'
  <2>1. \A q \in ToSet(queue') : q # r /\ future[q] = "pending"
    BY <1>3, <1>4
  <2>2. \A q \in ToSet(queue') : future'[q] = "pending"
    BY <1>1, <1>2, <2>1 DEF TypeOK
  <2> QED
    BY <1>1, <1>2, <1>4, <2>2 DEF QueueInv
<1> QED
  BY <1>8, <1>9, <1>10 DEF PoolInv

LEMMA StepPutSentinels ==
    ASSUME PoolInv, PutSentinels
    PROVE  PoolInv'
<1>1. TypeOK /\ WaitersInv /\ WorkInv /\ QueueInv /\ PermitsInv /\ AbandonedIsCancelled
  BY DEF PoolInv
<1>2. /\ close_at = "drain" /\ close_at' = "done"
      /\ queue' = [i \in 1..max_workers |-> SENTINEL]
      /\ UNCHANGED <<request, value, waiters, granted, worker, future, tokens, cancelled,
                     releases, waiting_submitters, closed>>
  BY DEF PutSentinels, semaphore
<1>3. max_workers \in Nat
  BY <1>1, Finite
<1>4. /\ queue' \in Seq(Requests \cup {SENTINEL})
      /\ Len(queue') = max_workers
      /\ \A i \in 1..max_workers : queue'[i] = SENTINEL
  <2>1. \A i \in 1..max_workers : SENTINEL \in Requests \cup {SENTINEL}
    OBVIOUS
  <2>2. queue' \in Seq(Requests \cup {SENTINEL})
    BY <1>2, <1>3, <2>1, IsASeq
  <2>3. DOMAIN queue' = 1..max_workers
    BY <1>2
  <2>4. Len(queue') = max_workers
    BY <1>3, <2>2, <2>3, LenProperties
  <2> QED
    BY <1>2, <2>2, <2>4
<1>5. Occupied' = Occupied
  BY <1>2 DEF Occupied
<1>6. TypeOK'
  BY <1>1, <1>2, <1>4 DEF TypeOK
<1>7. WaitersInv' /\ PermitsInv' /\ AbandonedIsCancelled'
  BY <1>1, <1>2, <1>5 DEF WaitersInv, PermitsInv, PermitsConserved, AbandonedIsCancelled
<1>8. WorkInv'
  BY <1>1, <1>2, <1>5 DEF WorkInv
<1>9. QueueInv'
  <2>1. closed' <=> close_at' # "open"
    BY <1>1, <1>2 DEF QueueInv
  <2>2. Len(queue') <= max_workers' /\ \A i \in 1..Len(queue') : queue'[i] = SENTINEL
    BY <1>3, <1>4 DEF max_workers
  <2> QED
    BY <1>2, <2>1, <2>2 DEF QueueInv
<1> QED
  BY <1>6, <1>7, <1>8, <1>9 DEF PoolInv

LEMMA PoolStutters ==
    ASSUME PoolInv, UNCHANGED vars
    PROVE  PoolInv'
<1>1. UNCHANGED <<request, value, waiters, granted, queue, worker, future, tokens,
                  cancelled, releases, waiting_submitters, closed, close_at>>
  BY DEF vars, semaphore, threads
<1>2. Occupied' = Occupied
  BY <1>1 DEF Occupied
<1> QED
  BY <1>1, <1>2 DEF PoolInv, TypeOK, WaitersInv, WorkInv, QueueInv, PermitsInv,
                    PermitsConserved, AbandonedIsCancelled, max_workers

LEMMA PoolStep == PoolInv /\ [Next]_vars => PoolInv'
<1> SUFFICES ASSUME PoolInv, [Next]_vars PROVE PoolInv'
  OBVIOUS
<1>1. ASSUME NEW r \in Requests, Loop(r) PROVE PoolInv'
  BY <1>1, StepRefusedClosed, StepRunAtOnce, StepWaitForPermit, StepResumeGranted,
     StepResumeClosed, StepGiveUpWaiting, StepGiveUpResult, StepDeliver DEF Loop
<1>2. ASSUME NEW w \in Workers, Get(w) \/ Finish(w) PROVE PoolInv'
  BY <1>2, StepGet, StepFinish
<1>3. CASE Stopped \/ UNCHANGED vars
  BY <1>3, PoolStutters DEF Stopped
<1> QED
  BY <1>1, <1>2, <1>3, StepRunRelease, StepClose, StepDrain, StepPutSentinels DEF Next

\* What the pool promises of its permits follows from the invariant.
LEMMA InvariantFits == PoolInv => PermitsConserved /\ WorkFits
<1> SUFFICES ASSUME PoolInv PROVE PermitsConserved /\ WorkFits
  OBVIOUS
<1>1. TypeOK /\ QueueInv /\ PermitsInv
  BY DEF PoolInv
<1>2. PermitsConserved
  BY <1>1 DEF PermitsInv
<1>3. /\ Cardinality(Occupied) \in Nat /\ Cardinality(granted) \in Nat
      /\ max_workers \in Nat /\ value \in Nat /\ releases \in Nat
      /\ IsFiniteSet(Occupied)
  BY <1>1, Finite DEF TypeOK
<1>4. Cardinality(Occupied) <= max_workers
  <2>1. CASE closed
    BY <1>1, <2>1 DEF PermitsInv
  <2>2. CASE ~closed
    <3>1. value + Cardinality(granted) + Cardinality(Occupied) + releases = max_workers
      BY <1>2, <2>2 DEF PermitsConserved
    <3> QED
      BY <1>3, <3>1
  <2> QED
    BY <2>1, <2>2
<1>5. Len(queue) <= max_workers
  <2>1. CASE close_at = "done"
    BY <1>1, <2>1 DEF QueueInv
  <2>2. CASE close_at # "done"
    <3>1. /\ queue \in Seq(Requests) /\ Distinct(queue)
          /\ \A q \in ToSet(queue) : future[q] = "pending"
      BY <1>1, <2>2 DEF QueueInv
    <3>2. /\ Len(queue) \in Nat /\ DOMAIN queue = 1..Len(queue)
          /\ \A i \in 1..Len(queue) : queue[i] \in Requests
      BY <3>1, LenProperties
    <3>3. \A i \in 1..Len(queue) : queue[i] \in Occupied
      BY <3>1, <3>2 DEF ToSet, Occupied
    <3>4. queue \in Injection(1..Len(queue), Occupied)
      <4>1. queue = [i \in 1..Len(queue) |-> queue[i]]
        BY <3>1, <3>2, LenProperties
      <4>2. queue \in [1..Len(queue) -> Occupied]
        BY <3>3, <4>1
      <4> QED
        BY <3>1, <4>2 DEF Injection, IsInjective, Distinct
    <3>5. Cardinality(1..Len(queue)) = Len(queue)
      BY <3>2, FS_Interval
    <3>6. Cardinality(1..Len(queue)) <= Cardinality(Occupied)
      BY <1>3, <3>4, FS_Injection
    <3> QED
      BY <1>3, <1>4, <3>2, <3>5, <3>6
  <2> QED
    BY <2>1, <2>2
<1> QED
  BY <1>2, <1>4, <1>5 DEF WorkFits

\* No step leaves a free permit to sleepers.
LEMMA WakeUpStep == PoolInv /\ NoLostWakeup /\ [Next]_vars => NoLostWakeup'
<1> SUFFICES ASSUME PoolInv, NoLostWakeup, [Next]_vars PROVE NoLostWakeup'
  OBVIOUS
<1>1. /\ value \in Nat /\ waiters \in Seq(Requests) /\ granted \subseteq ToSet(waiters)
      /\ waiting_submitters = Len(waiters) /\ waiting_submitters \in Nat
  BY DEF PoolInv, TypeOK, WaitersInv
<1>2. ASSUME NEW r \in Requests, request[r] = "waiting"
      PROVE  Without(waiters, r) \in Seq(Requests)
  BY <1>1, <1>2, WithoutFacts DEF PoolInv, WaitersInv
<1>3. ASSUME UNCHANGED <<value, waiters, granted>> PROVE NoLostWakeup'
  BY <1>3 DEF NoLostWakeup, Asleep
<1>4. ASSUME NEW r \in Requests, Loop(r) PROVE NoLostWakeup'
  <2>1. CASE RefusedClosed(r) \/ GiveUpResult(r) \/ Deliver(r)
    BY <1>3, <2>1 DEF RefusedClosed, GiveUpResult, Deliver, semaphore
  <2>2. CASE RunAtOnce(r)
    <3>1. waiters' = <<>> /\ DOMAIN <<>> = {}
      BY <2>2 DEF RunAtOnce
    <3> QED
      BY <3>1 DEF NoLostWakeup, Asleep
  <2>3. CASE WaitForPermit(r)
    <3>1. /\ value' = value /\ granted' = granted
          /\ ~(value > 0 /\ waiters = <<>>)
      BY <2>3 DEF WaitForPermit
    <3> SUFFICES ASSUME value' > 0 PROVE granted' # {}
      BY DEF NoLostWakeup
    <3>2. Len(waiters) \in Nat /\ DOMAIN waiters = 1..Len(waiters) /\ Len(waiters) # 0
      BY <1>1, <3>1, LenProperties, EmptySeq
    <3>3. 1 \in DOMAIN waiters
      BY <3>2
    <3>4. CASE 1 \in Asleep(waiters, granted)
      BY <3>1, <3>4 DEF NoLostWakeup
    <3>5. CASE 1 \notin Asleep(waiters, granted)
      BY <3>1, <3>3, <3>5 DEF Asleep
    <3> QED
      BY <3>4, <3>5
  <2>4. CASE ResumeGranted(r)
    <3>1. /\ request[r] = "waiting"
          /\ WakeUp(value, value, Without(waiters, r), granted \ {r})
      BY <2>4, GrantedWaits DEF ResumeGranted
    <3> QED
      BY <1>1, <1>2, <3>1, WakeUpWakes
  <2>5. CASE ResumeClosed(r)
    <3>1. /\ request[r] = "waiting" /\ value + 1 \in Nat
          /\ WakeUp(value + 1, value + 1, Without(waiters, r), granted \ {r})
      BY <1>1, <2>5, GrantedWaits DEF ResumeClosed
    <3> QED
      BY <1>2, <3>1, WakeUpWakes
  <2>6. CASE GiveUpWaiting(r)
    <3> DEFINE free == IF r \in granted THEN value + 1 ELSE value
    <3>1. /\ request[r] = "waiting" /\ free \in Nat
          /\ WakeUp(free, free, Without(waiters, r), granted \ {r})
      BY <1>1, <2>6 DEF GiveUpWaiting
    <3> HIDE DEF free
    <3> QED
      BY <1>2, <3>1, WakeUpWakes
  <2> QED
    BY <1>4, <2>1, <2>2, <2>3, <2>4, <2>5, <2>6 DEF Loop
<1>5. CASE RunRelease
  <2>1. value + 1 \in Nat /\ 1 \in Nat /\ 1 # 0 /\ WakeUp(value + 1, 1, waiters, granted)
    BY <1>1, <1>5 DEF RunRelease, release
  <2> QED
    BY <1>1, <2>1, WakeUpWakes
<1>6. CASE close
  <2>1. /\ value + waiting_submitters \in Nat
        /\ waiting_submitters # 0 \/ waiters = <<>>
    BY <1>1, EmptySeq
  <2>2. WakeUp(value + waiting_submitters, waiting_submitters, waiters, granted)
    BY <1>6 DEF close
  <2> QED
    BY <1>1, <2>1, <2>2, WakeUpWakes
<1>7. CASE Drain \/ PutSentinels \/ Stopped \/ UNCHANGED vars
  BY <1>3, <1>7 DEF Drain, PutSentinels, Stopped, vars, semaphore
<1>8. ASSUME NEW w \in Workers, Get(w) \/ Finish(w) PROVE NoLostWakeup'
  BY <1>3, <1>8 DEF Get, Finish, semaphore
<1> QED
  BY <1>4, <1>5, <1>6, <1>7, <1>8 DEF Next

-----------------------------------------------------------------------------
(* The theorems.                                                            *)

\* Every behaviour of the pool keeps the invariant.
THEOREM PoolInvariant == Spec => []PoolInv
BY PoolInit, PoolStep, PTL DEF Spec

\* The state of ImageFetchWorkerPool is well typed; in particular no step takes a
\* permit the semaphore does not have.
THEOREM PoolTypeCorrect == Spec => []TypeOK
<1>1. PoolInv => TypeOK
  BY DEF PoolInv
<1> QED
  BY <1>1, PoolInvariant, PTL

\* Timeouts, cancellations and the callbacks of the threads neither lose nor double
\* a permit, and neither the work nor the sentinels of close() overfill the queue.
THEOREM PermitsCorrect == Spec => []WorkIsPermitted
<1>1. PoolInv => WorkIsPermitted
  BY InvariantFits DEF WorkIsPermitted
<1> QED
  BY <1>1, PoolInvariant, PTL

\* No conversion goes on without a cancelled token once its request has given up
\* or the pool has closed.
THEOREM AbandonedCorrect == Spec => []AbandonedIsCancelled
<1>1. PoolInv => AbandonedIsCancelled
  BY DEF PoolInv
<1> QED
  BY <1>1, PoolInvariant, PTL

\* While a permit is free and a submitter sleeps, another waiter is awake to pass it
\* on: no interleaving of releases, timeouts and close() strands a submitter.
THEOREM WakeupCorrect == Spec => []NoLostWakeup
<1>1. Init => NoLostWakeup
  <2>1. DOMAIN <<>> = {}
    OBVIOUS
  <2> QED
    BY <2>1 DEF Init, NoLostWakeup, Asleep
<1> QED
  BY <1>1, PoolInvariant, WakeUpStep, PTL DEF Spec
=============================================================================
