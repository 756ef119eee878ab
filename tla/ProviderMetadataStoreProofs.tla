--------------------- MODULE ProviderMetadataStoreProofs ---------------------
(***************************************************************************)
(* Proofs about ProviderMetadataStore, for any finite sets of scopes,      *)
(* calls and principals, any number of threads and all limits.             *)
(***************************************************************************)
EXTENDS ProviderMetadataStore, FiniteSetTheorems, WellFoundedInduction, TLAPS

-----------------------------------------------------------------------------
(* Sums over finite sets.  MapThenSumSet is a recursive function that takes  *)
(* its set apart one CHOOSE at a time: what can be relied on whatever it     *)
(* chooses.  Facts about all the subsets of a set are proved by induction,   *)
(* stated for the set of the subsets that have the property.                 *)

Total(w, S) == MapThenSumSet(LAMBDA k : w[k], S)

\* A non-empty set of numbers has a least one.
LEMMA LeastOf ==
    ASSUME NEW T \in SUBSET Nat, T # {}
    PROVE  \E n \in T : \A m \in T : n <= m
<1>1. PICK n \in T : \A m \in T : <<m, n>> \notin OpToRel(<, Nat)
  BY NatLessThanWellFounded, WFMin
<1>2. \A m \in T : ~(m < n)
  BY <1>1 DEF OpToRel
<1> QED
  BY <1>2

\* What holds of a subset when it holds of all the smaller ones holds of them all.
LEMMA SubsetInduction ==
    ASSUME NEW S, IsFiniteSet(S), NEW Good,
           \A s \in SUBSET S : (\A u \in SUBSET s : u # s => u \in Good) => s \in Good
    PROVE  S \in Good
<1> SUFFICES ASSUME S \notin Good
             PROVE  FALSE
  OBVIOUS
<1> DEFINE Bad == (SUBSET S) \ Good
           Counts == {Cardinality(s) : s \in Bad}
<1>1. \A s \in SUBSET S : IsFiniteSet(s) /\ Cardinality(s) \in Nat
  BY FS_Subset, FS_CardinalityType
<1>2. Counts \in SUBSET Nat /\ Counts # {}
  BY <1>1
<1>3. PICK n \in Counts : \A m \in Counts : n <= m
  <2> HIDE DEF Counts
  <2> QED
    BY <1>2, LeastOf
<1>4. PICK s \in Bad : Cardinality(s) = n
  BY <1>3
<1>5. ASSUME NEW u \in SUBSET s, u # s
      PROVE  u \in Good
  <2>1. Cardinality(u) < Cardinality(s) /\ IsFiniteSet(s) /\ u \in SUBSET S
    BY <1>1, <1>4, <1>5, FS_Subset
  <2>2. CASE u \in Bad
    BY <1>1, <1>3, <1>4, <2>1, <2>2
  <2> QED
    BY <2>1, <2>2
<1> QED
  BY <1>4, <1>5

Part(s) == CHOOSE x \in s : TRUE
Sums(g, w, S) ==
    g = [s \in SUBSET S |-> IF s = {} THEN 0 ELSE w[Part(s)] + g[s \ {Part(s)}]]

LEMMA TotalIsSums == ASSUME NEW w, NEW S PROVE Total(w, S) = (CHOOSE g : Sums(g, w, S))[S]
  BY DEF Total, MapThenSumSet, MapThenFoldSet, Sums, Part

LEMMA PartFacts == ASSUME NEW s, s # {} PROVE Part(s) \in s
  BY DEF Part

LEMMA SumsFacts ==
    ASSUME NEW g, NEW w, NEW S, Sums(g, w, S)
    PROVE  /\ g[{}] = 0
           /\ \A s \in SUBSET S : s # {} => g[s] = w[Part(s)] + g[s \ {Part(s)}]
  BY DEF Sums

\* Two of them agree where both are defined.
LEMMA SumsAgree ==
    ASSUME NEW w, NEW g, NEW h, NEW S, NEW T, Sums(g, w, S), Sums(h, w, T),
           IsFiniteSet(S), S \subseteq T
    PROVE  g[S] = h[S]
<1> DEFINE Good == {s \in SUBSET S : g[s] = h[s]}
<1>1. ASSUME NEW s \in SUBSET S, \A u \in SUBSET s : u # s => u \in Good
      PROVE  s \in Good
  <2>1. CASE s = {}
    BY <2>1, SumsFacts
  <2>2. CASE s # {}
    <3>1. s \ {Part(s)} \in SUBSET s /\ s \ {Part(s)} # s
      BY <2>2, PartFacts
    <3>2. g[s \ {Part(s)}] = h[s \ {Part(s)}]
      BY <1>1, <3>1
    <3>3. s \in SUBSET T
      OBVIOUS
    <3> QED
      BY <2>2, <3>2, <3>3, SumsFacts
  <2> QED
    BY <2>1, <2>2
<1> HIDE DEF Good
<1>2. S \in Good
  BY <1>1, SubsetInduction
<1> QED
  BY <1>2 DEF Good

LEMMA SumsExist == ASSUME NEW w, NEW S, IsFiniteSet(S) PROVE \E g : Sums(g, w, S)
<1> DEFINE Good == {s \in SUBSET S : \E g : Sums(g, w, s)}
<1>1. ASSUME NEW s \in SUBSET S, \A u \in SUBSET s : u # s => u \in Good
      PROVE  s \in Good
  <2> DEFINE of(u) == CHOOSE g : Sums(g, w, u)
             low(u) == of(u)[u]
             g == [u \in SUBSET s |->
                      IF u = {} THEN 0 ELSE w[Part(u)] + low(u \ {Part(u)})]
  <2>1. \A u \in SUBSET s : u # s => Sums(of(u), w, u)
    BY <1>1
  <2>2. \A u \in SUBSET s : u # {} => u \ {Part(u)} \in SUBSET s /\ u \ {Part(u)} # s
    BY PartFacts
  <2>3. ASSUME NEW u \in SUBSET s, u # s
        PROVE  low(u) = g[u]
    <3>1. Sums(of(u), w, u)
      BY <2>1, <2>3
    <3>2. CASE u = {}
      BY <3>1, <3>2, SumsFacts
    <3>3. CASE u # {}
      <4> DEFINE v == u \ {Part(u)}
      <4>1. v \in SUBSET s /\ v # s /\ v \subseteq u /\ IsFiniteSet(v)
        BY <2>2, <3>3, FS_Subset
      <4>2. Sums(of(v), w, v)
        BY <2>1, <4>1
      <4> HIDE DEF of, v
      <4>3. of(v)[v] = of(u)[v]
        BY <3>1, <4>1, <4>2, SumsAgree
      <4>4. of(u)[u] = w[Part(u)] + of(u)[v]
        BY <3>1, <3>3, SumsFacts DEF v
      <4> QED
        BY <3>3, <4>3, <4>4 DEF v
    <3> QED
      BY <3>2, <3>3
  <2> HIDE DEF low
  <2>4. g = [u \in SUBSET s |-> IF u = {} THEN 0 ELSE w[Part(u)] + g[u \ {Part(u)}]]
    <3>1. \A u \in SUBSET s : u # {} => low(u \ {Part(u)}) = g[u \ {Part(u)}]
      BY <2>2, <2>3
    <3> QED
      BY <3>1
  <2>5. Sums(g, w, s)
    <3> HIDE DEF g
    <3> QED
      BY <2>4 DEF Sums
  <2> QED
    BY <2>5
<1> HIDE DEF Good
<1>2. S \in Good
  BY <1>1, SubsetInduction
<1> QED
  BY <1>2 DEF Good

LEMMA TotalEmpty == ASSUME NEW w PROVE Total(w, {}) = 0
<1>1. Sums(CHOOSE g : Sums(g, w, {}), w, {})
  BY SumsExist, FS_EmptySet
<1> QED
  BY <1>1, TotalIsSums, SumsFacts

LEMMA TotalPart ==
    ASSUME NEW w, NEW S, IsFiniteSet(S), S # {}
    PROVE  Total(w, S) = w[Part(S)] + Total(w, S \ {Part(S)})
<1> DEFINE T == S \ {Part(S)}
           g == CHOOSE f : Sums(f, w, S)
           h == CHOOSE f : Sums(f, w, T)
<1>1. IsFiniteSet(T) /\ T \subseteq S
  BY FS_Subset
<1>2. Sums(g, w, S) /\ Sums(h, w, T)
  <2> HIDE DEF T
  <2> QED
    BY <1>1, SumsExist
<1>3. Total(w, S) = g[S] /\ Total(w, T) = h[T]
  <2> HIDE DEF T
  <2> QED
    BY TotalIsSums
<1> HIDE DEF g, h
<1>4. h[T] = g[T]
  <2> HIDE DEF T
  <2> QED
    BY <1>1, <1>2, SumsAgree
<1>5. g[S] = w[Part(S)] + g[T]
  BY <1>2, SumsFacts
<1> HIDE DEF T
<1>6. Total(w, S) = w[Part(S)] + Total(w, T)
  BY <1>3, <1>4, <1>5
<1> QED
  BY <1>6 DEF T

\* The sum of sizes is a size.
LEMMA TotalType ==
    ASSUME NEW w, NEW S, IsFiniteSet(S), \A k \in S : w[k] \in Nat
    PROVE  Total(w, S) \in Nat
<1> DEFINE Good == {s \in SUBSET S : Total(w, s) \in Nat}
<1>1. ASSUME NEW s \in SUBSET S, \A u \in SUBSET s : u # s => u \in Good
      PROVE  s \in Good
  <2>1. CASE s = {}
    BY <2>1, TotalEmpty
  <2>2. CASE s # {}
    <3>1. Part(s) \in s /\ IsFiniteSet(s)
      BY <2>2, PartFacts, FS_Subset
    <3>2. Total(w, s \ {Part(s)}) \in Nat /\ w[Part(s)] \in Nat
      BY <1>1, <3>1
    <3>3. Total(w, s) = w[Part(s)] + Total(w, s \ {Part(s)})
      BY <2>2, <3>1, TotalPart
    <3> QED
      BY <3>2, <3>3
  <2> QED
    BY <2>1, <2>2
<1> HIDE DEF Good
<1>2. S \in Good
  BY <1>1, SubsetInduction
<1> QED
  BY <1>2 DEF Good

\* It does not matter which element is taken out.
LEMMA TotalTake ==
    ASSUME NEW w, NEW S, IsFiniteSet(S), \A k \in S : w[k] \in Nat, NEW x \in S
    PROVE  Total(w, S) = w[x] + Total(w, S \ {x})
<1> DEFINE Good == {s \in SUBSET S : \A y \in s : Total(w, s) = w[y] + Total(w, s \ {y})}
<1>1. ASSUME NEW s \in SUBSET S, \A u \in SUBSET s : u # s => u \in Good
      PROVE  s \in Good
  <2> SUFFICES ASSUME NEW y \in s
               PROVE  Total(w, s) = w[y] + Total(w, s \ {y})
    OBVIOUS
  <2> DEFINE p == Part(s)
             u == s \ {p}
             v == s \ {y}
             both == s \ {p, y}
  <2>1. p \in s /\ IsFiniteSet(s) /\ u \in SUBSET s /\ v \in SUBSET s /\ both \in SUBSET s
    BY PartFacts, FS_Subset
  <2>2. Total(w, s) = w[p] + Total(w, u)
    BY <2>1, TotalPart
  <2>3. /\ w[p] \in Nat /\ w[y] \in Nat
        /\ Total(w, u) \in Nat /\ Total(w, v) \in Nat /\ Total(w, both) \in Nat
    <3> HIDE DEF u, v, both
    <3>1. \A r \in SUBSET s : Total(w, r) \in Nat
      BY <2>1, FS_Subset, TotalType
    <3> QED
      BY <2>1, <3>1
  <2>4. CASE y = p
    BY <2>2, <2>4
  <2>5. CASE y # p
    <3>1. u \in Good /\ v \in Good
      BY <1>1, <2>1
    <3>2. y \in u /\ p \in v /\ u \ {y} = both /\ v \ {p} = both
      BY <2>1, <2>5
    <3>3. Total(w, u) = w[y] + Total(w, both) /\ Total(w, v) = w[p] + Total(w, both)
      <4> HIDE DEF u, v, both, p
      <4> QED
        BY <3>1, <3>2
    <3> HIDE DEF u, v, both, p
    <3>4. Total(w, s) = w[y] + Total(w, v)
      BY <2>2, <2>3, <3>3
    <3> QED
      BY <3>4 DEF v
  <2> QED
    BY <2>4, <2>5
<1> HIDE DEF Good
<1>2. S \in Good
  BY <1>1, SubsetInduction
<1> QED
  BY <1>2 DEF Good

\* The sum over a part and the sum over the rest.
LEMMA TotalSplit ==
    ASSUME NEW w, NEW S, IsFiniteSet(S), \A k \in S : w[k] \in Nat, NEW T \in SUBSET S
    PROVE  Total(w, S) = Total(w, T) + Total(w, S \ T)
<1> DEFINE Good == {s \in SUBSET T : Total(w, S) = Total(w, s) + Total(w, S \ s)}
<1>1. ASSUME NEW s \in SUBSET T, \A u \in SUBSET s : u # s => u \in Good
      PROVE  s \in Good
  <2>1. CASE s = {}
    <3>1. S \ s = S /\ Total(w, s) = 0 /\ Total(w, S) \in Nat
      BY <2>1, TotalEmpty, TotalType
    <3> QED
      BY <3>1
  <2>2. CASE s # {}
    <3>1. PICK x \in s : TRUE
      BY <2>2
    <3> DEFINE u == s \ {x}
    <3>2. Total(w, S) = Total(w, u) + Total(w, S \ u)
      BY <1>1
    <3>3. IsFiniteSet(s) /\ IsFiniteSet(S \ u) /\ IsFiniteSet(u) /\ IsFiniteSet(S \ s)
      BY FS_Subset
    <3>4. Total(w, s) = w[x] + Total(w, u)
      BY <3>3, TotalTake
    <3>5. (S \ u) \ {x} = S \ s /\ x \in S \ u
      OBVIOUS
    <3>6. \A k \in S \ u : w[k] \in Nat
      OBVIOUS
    <3> HIDE DEF u
    <3>7. Total(w, S \ u) = w[x] + Total(w, S \ s)
      BY <3>3, <3>5, <3>6, TotalTake
    <3>8. Total(w, u) \in Nat /\ Total(w, S \ s) \in Nat /\ w[x] \in Nat
      BY <3>3, TotalType DEF u
    <3> QED
      BY <3>2, <3>4, <3>7, <3>8
  <2> QED
    BY <2>1, <2>2
<1>2. IsFiniteSet(T)
  BY FS_Subset
<1> HIDE DEF Good
<1>3. T \in Good
  BY <1>1, <1>2, SubsetInduction
<1> QED
  BY <1>3 DEF Good

-----------------------------------------------------------------------------

(* What a step may take from whom needs little of the state: which keys     *)
(* there are, and that a thread's idea of the time is never ahead of the    *)
(* clock, so that what it expires has expired.                              *)

EntriesInv ==
    /\ DOMAIN store \subseteq Keys
    /\ \A k \in DOMAIN store : store[k].created \in 0..MaxTime
BatchesInv ==
    /\ clock \in 0..MaxTime
    /\ putting \in [Threads -> Batches \cup {NoBatch}]
    /\ \A t \in Threads : putting[t] # NoBatch => putting[t].now <= clock
PutInv == EntriesInv /\ BatchesInv

LEMMA KeysFinite == IsFiniteSet(Keys)
  BY ScopesAssumption, FS_Product DEF Keys

LEMMA WithoutStore ==
    ASSUME NEW gone
    PROVE  /\ DOMAIN Without(gone).store = DOMAIN store \ gone
           /\ \A k \in DOMAIN store \ gone : Without(gone).store[k] = store[k]
  BY DEF Without, Restrict

LEMMA WithStore ==
    ASSUME NEW gone, NEW scope, NEW batch
    PROVE  LET next == With(Without(gone), scope, batch).store
           IN  /\ DOMAIN next = DOMAIN batch \cup (DOMAIN store \ gone)
               /\ \A k \in DOMAIN batch : next[k] = batch[k]
               /\ \A k \in (DOMAIN store \ gone) \ DOMAIN batch : next[k] = store[k]
<1> DEFINE next == With(Without(gone), scope, batch).store
           kept == Without(gone).store
<1>1. next = [k \in DOMAIN batch \cup DOMAIN kept |->
                 IF k \in DOMAIN batch THEN batch[k] ELSE kept[k]]
  BY DEF With
<1>2. DOMAIN kept = DOMAIN store \ gone /\ \A k \in DOMAIN store \ gone : kept[k] = store[k]
  BY WithoutStore
<1> HIDE DEF next, kept
<1>3. /\ DOMAIN next = DOMAIN batch \cup (DOMAIN store \ gone)
      /\ \A k \in DOMAIN batch : next[k] = batch[k]
      /\ \A k \in (DOMAIN store \ gone) \ DOMAIN batch : next[k] = store[k]
  BY <1>1, <1>2
<1> QED
  BY <1>3 DEF next

LEMMA PreparedFacts ==
    ASSUME NEW b \in Batches
    PROVE  /\ DOMAIN Prepared(b) \subseteq Keys
           /\ \A k \in DOMAIN Prepared(b) : Prepared(b)[k].created = b.now /\ k[1] = b.scope
<1>1. b.scope \in Scopes /\ DOMAIN b.values \subseteq CallIds
  BY DEF Batches, Values
<1> QED
  BY <1>1 DEF Prepared, Keys

\* A thread expires nothing that has not expired.
LEMMA ExpiredLater ==
    ASSUME PutInv, NEW now \in 0..MaxTime, now <= clock
    PROVE  Expired(now) \subseteq Expired(clock)
<1>1. ttl \in Nat /\ MaxTime \in Nat
  BY LimitsAssumption
<1> QED
  BY <1>1 DEF PutInv, EntriesInv, BatchesInv, Expired

LEMMA PutInit == Init => PutInv
  BY LimitsAssumption DEF Init, PutInv, EntriesInv, BatchesInv

\* What the section under the lock leaves when the batch goes in.
Stored(b, kept, gone) ==
    With(Without(Expired(b.now) \cup gone \cup (DOMAIN Prepared(b) \cap DOMAIN kept.store)),
         b.scope, Prepared(b))
TooMany(b, kept) ==
    kept.entries[PrincipalOf[b.scope]] + Cardinality(DOMAIN Prepared(b) \ DOMAIN kept.store)
        > max_entries_per_principal

\* The ways the section under the lock ends.
LEMMA PutCases ==
    ASSUME NEW kept, NEW b, PutInto(kept, b), kept = Without(Expired(b.now))
    PROVE  \/ Becomes(kept)
           \/ \E gone \in Oldest(kept.store, Candidates(kept.store, b), Overflow(kept.store, b)) :
                  /\ ~TooMany(b, kept)
                  /\ Fits(Stored(b, kept, gone), b)
                  /\ Becomes(Stored(b, kept, gone))
<1>1. DOMAIN kept.store = DOMAIN store \ Expired(b.now) /\ Expired(b.now) \subseteq DOMAIN store
  BY WithoutStore DEF Expired
<1>2. DOMAIN store \ DOMAIN kept.store = Expired(b.now)
  BY <1>1
<1>3. CASE ~Becomes(kept)
  <2>1. ~TooMany(b, kept)
    BY <1>3 DEF PutInto, TooMany
  <2>2. PICK gone \in Oldest(kept.store, Candidates(kept.store, b), Overflow(kept.store, b)) :
            Becomes(IF Fits(Stored(b, kept, gone), b) THEN Stored(b, kept, gone) ELSE kept)
    BY <1>2, <1>3 DEF PutInto, Stored
  <2> QED
    BY <1>3, <2>1, <2>2
<1> QED
  BY <1>3

\* What a removal leaves is as it was.
LEMMA LeavesRest ==
    ASSUME NEW gone, Becomes(Without(gone))
    PROVE  DOMAIN store' = DOMAIN store \ gone /\ \A k \in DOMAIN store' : Unchanged(k)
<1>1. store' = Without(gone).store
  BY DEF Becomes
<1> QED
  BY <1>1, WithoutStore DEF Unchanged

\* The entries that made room are of the same principal, none of those that could
\* have gone is older, and there are no more of them than it takes.
LEMMA OldestMakeRoom ==
    ASSUME PutInv, NEW b \in Batches, NEW live, DOMAIN live \subseteq DOMAIN store,
           \A k \in DOMAIN live : live[k] = store[k],
           NEW gone \in Oldest(live, Candidates(live, b), Overflow(live, b)),
           DOMAIN store' = (DOMAIN live \ gone) \cup DOMAIN Prepared(b)
    PROVE  \A k \in gone : MadeRoom(k, b)
<1> DEFINE candidates == Candidates(live, b)
           batch == DOMAIN Prepared(b)
           all == DOMAIN live \cup batch
<1>1. gone \subseteq candidates /\ Cardinality(gone) = Overflow(live, b)
      /\ \A k \in gone, other \in candidates \ gone : live[k].created <= live[other].created
  BY DEF Oldest, kSubset
<1>2. candidates \subseteq DOMAIN live /\ candidates \cap batch = {}
      /\ \A k \in candidates : OwnerOf(k) = PrincipalOf[b.scope]
  BY DEF Candidates, OfPrincipal
<1>3. IsFiniteSet(all) /\ Cardinality(all) \in Nat /\ max_size \in Nat
  <2>1. all \subseteq Keys
    BY PreparedFacts DEF PutInv, EntriesInv
  <2> QED
    BY <2>1, KeysFinite, FS_Subset, FS_CardinalityType, LimitsAssumption
<1>4. gone # {} => Cardinality(all \ gone) = max_size
  <2>1. gone \subseteq all /\ all \cap gone = gone
    BY <1>1, <1>2
  <2>2. /\ Cardinality(all \ gone) = Cardinality(all) - Cardinality(gone)
        /\ gone # {} => Cardinality(gone) # 0
    <3> HIDE DEF all
    <3>1. IsFiniteSet(gone)
      BY <1>3, <2>1, FS_Subset
    <3>2. gone # {} => Cardinality(gone) # 0
      BY <3>1, FS_EmptySet
    <3>3. Cardinality(all \ gone) = Cardinality(all) - Cardinality(all \cap gone)
      BY <1>3, FS_Difference
    <3> QED
      BY <2>1, <3>2, <3>3
  <2>3. Cardinality(gone) = IF Cardinality(all) > max_size THEN Cardinality(all) - max_size ELSE 0
    BY <1>1 DEF Overflow, Minus
  <2> QED
    BY <1>3, <2>2, <2>3
<1>5. DOMAIN store' = all \ gone
  BY <1>1, <1>2
<1> SUFFICES ASSUME NEW k \in gone
             PROVE  MadeRoom(k, b)
  OBVIOUS
<1>6. OwnerOf(k) = PrincipalOf[b.scope] /\ live[k] = store[k]
  BY <1>1, <1>2
<1>7. ASSUME NEW other \in OfPrincipal(DOMAIN store', OwnerOf(k)) \ batch
      PROVE  store[k].created <= store[other].created
  <2>1. other \in DOMAIN live \ gone /\ OwnerOf(other) = PrincipalOf[b.scope]
    BY <1>6, <1>7 DEF OfPrincipal
  <2>2. other \in candidates \ gone /\ live[other] = store[other]
    BY <1>7, <2>1 DEF Candidates, OfPrincipal
  <2> QED
    BY <1>1, <1>6, <2>2
<1>8. Cardinality(DOMAIN store') = max_size
  BY <1>4, <1>5
<1> QED
  BY <1>6, <1>7, <1>8 DEF MadeRoom

-----------------------------------------------------------------------------
(* The invariant. *)

LEMMA EntriesLeft ==
    ASSUME EntriesInv, DOMAIN store' \subseteq DOMAIN store, \A k \in DOMAIN store' : Unchanged(k)
    PROVE  EntriesInv'
  BY DEF EntriesInv, Unchanged

LEMMA RemovalStep ==
    ASSUME PutInv, NEW gone, Becomes(Without(gone)), UNCHANGED <<clock, putting>>
    PROVE  PutInv'
<1>1. EntriesInv'
  BY LeavesRest, EntriesLeft DEF PutInv
<1> QED
  BY <1>1 DEF PutInv, BatchesInv

LEMMA PrepareStep ==
    ASSUME PutInv, NEW t \in Threads, NEW scope \in Scopes, NEW values \in Values,
           Prepare(t, scope, values)
    PROVE  PutInv'
<1> DEFINE b == [scope |-> scope, values |-> values, now |-> clock]
<1>1. b \in Batches /\ b.now = clock
  BY DEF PutInv, BatchesInv, Batches
<1>2. putting' = [putting EXCEPT ![t] = b] /\ UNCHANGED <<clock, store>>
  BY DEF Prepare
<1> HIDE DEF b
<1>3. BatchesInv'
  <2>1. putting' \in [Threads -> Batches \cup {NoBatch}] /\ clock <= clock
    BY <1>1, <1>2, LimitsAssumption DEF PutInv, BatchesInv
  <2>2. \A i \in Threads : putting'[i] # NoBatch => putting'[i].now <= clock
    BY <1>1, <1>2, <2>1 DEF PutInv, BatchesInv
  <2> QED
    BY <1>2, <2>1, <2>2 DEF PutInv, BatchesInv
<1> QED
  BY <1>2, <1>3 DEF PutInv, EntriesInv

\* What a thread does under the lock: either its batch is refused, and only what has
\* expired goes, or it is stored whole.
LEMMA PutStores ==
    ASSUME PutInv, NEW t \in Threads, Put(t)
    PROVE  /\ Ends(t) /\ putting[t] \in Batches
           /\ UNCHANGED clock
           /\ \A i \in Threads : i # t => putting'[i] = putting[i]
           /\ putting'[t] = NoBatch
           /\ \/ /\ DOMAIN store' = DOMAIN store \ Expired(putting[t].now)
                 /\ \A k \in DOMAIN store' : Unchanged(k)
              \/ /\ StoredWhole(putting[t])
                 /\ DOMAIN store' \subseteq DOMAIN store \cup DOMAIN Prepared(putting[t])
                 /\ \A k \in DOMAIN store' \ DOMAIN Prepared(putting[t]) : Unchanged(k)
                 /\ \A k \in DOMAIN store \ DOMAIN store' :
                        k \in Expired(putting[t].now) \/ MadeRoom(k, putting[t])
<1> DEFINE b == putting[t]
           kept == Without(Expired(b.now))
           live == kept.store
           batch == DOMAIN Prepared(b)
<1>1. b # NoBatch /\ b \in Batches /\ PutInto(kept, b) /\ UNCHANGED clock
  BY DEF Put, PutInv, BatchesInv
<1>2. /\ \A i \in Threads : i # t => putting'[i] = putting[i]
      /\ putting'[t] = NoBatch
  BY DEF Put, PutInv, BatchesInv
<1>3. /\ DOMAIN live = DOMAIN store \ Expired(b.now)
      /\ \A k \in DOMAIN live : live[k] = store[k]
  BY WithoutStore
<1>4. CASE Becomes(kept)
  <2>1. /\ DOMAIN store' = DOMAIN store \ Expired(b.now)
        /\ \A k \in DOMAIN store' : Unchanged(k)
    BY <1>4, LeavesRest
  <2> QED
    BY <1>1, <1>2, <2>1 DEF Ends
<1>5. CASE ~Becomes(kept)
  <2>1. PICK gone \in Oldest(live, Candidates(live, b), Overflow(live, b)) :
            store' = With(Without(Expired(b.now) \cup gone \cup (batch \cap DOMAIN live)),
                          b.scope, Prepared(b)).store
    BY <1>1, <1>5, PutCases DEF Stored, Becomes
  <2> DEFINE removed == Expired(b.now) \cup gone \cup (batch \cap DOMAIN live)
  <2> HIDE DEF live
  <2>2. /\ DOMAIN store' = batch \cup (DOMAIN store \ removed)
        /\ \A k \in batch : store'[k] = Prepared(b)[k]
        /\ \A k \in (DOMAIN store \ removed) \ batch : store'[k] = store[k]
    BY <2>1, WithStore
  <2>3. gone \cap batch = {}
    BY <2>1 DEF Oldest, kSubset, Candidates
  <2>4. DOMAIN store' = (DOMAIN live \ gone) \cup batch
    BY <1>3, <2>2, <2>3
  <2>5. \A k \in gone : MadeRoom(k, b)
    BY <1>1, <1>3, <2>1, <2>4, OldestMakeRoom
  <2> HIDE DEF b
  <2>6. StoredWhole(b)
    BY <2>2 DEF StoredWhole
  <2>7. DOMAIN store' \subseteq DOMAIN store \cup batch
    BY <2>2
  <2>8. \A k \in DOMAIN store' \ batch : Unchanged(k)
    BY <2>2 DEF Unchanged
  <2>9. \A k \in DOMAIN store \ DOMAIN store' : k \in Expired(b.now) \/ MadeRoom(k, b)
    BY <1>3, <2>4, <2>5
  <2> QED
    BY <1>1, <1>2, <2>6, <2>7, <2>8, <2>9 DEF b, Ends
<1> QED
  BY <1>4, <1>5

LEMMA PutStep == ASSUME PutInv, NEW t \in Threads, Put(t) PROVE PutInv'
<1> DEFINE b == putting[t]
<1>1. b \in Batches /\ b.now \in 0..MaxTime
  BY PutStores DEF Batches
<1>2. EntriesInv'
  <2>1. CASE DOMAIN store' \subseteq DOMAIN store /\ \A k \in DOMAIN store' : Unchanged(k)
    BY <2>1, EntriesLeft DEF PutInv
  <2>2. CASE /\ StoredWhole(b)
             /\ DOMAIN store' \subseteq DOMAIN store \cup DOMAIN Prepared(b)
             /\ \A k \in DOMAIN store' \ DOMAIN Prepared(b) : Unchanged(k)
    <3> HIDE DEF b
    <3>1. DOMAIN store' \subseteq Keys
      BY <1>1, <2>2, PreparedFacts DEF PutInv, EntriesInv
    <3>2. ASSUME NEW k \in DOMAIN store'
          PROVE  store'[k].created \in 0..MaxTime
      <4>1. CASE k \in DOMAIN Prepared(b)
        BY <1>1, <2>2, <4>1, PreparedFacts DEF StoredWhole
      <4>2. CASE k \notin DOMAIN Prepared(b)
        BY <2>2, <3>2, <4>2 DEF Unchanged, PutInv, EntriesInv
      <4> QED
        BY <4>1, <4>2
    <3> QED
      BY <3>1, <3>2 DEF EntriesInv
  <2> QED
    BY <2>1, <2>2, PutStores
<1>3. BatchesInv'
  <2>1. UNCHANGED clock /\ \A i \in Threads : putting'[i] = NoBatch \/ putting'[i] = putting[i]
    BY PutStores
  <2>2. putting' \in [Threads -> Batches \cup {NoBatch}]
    BY DEF Put, PutInv, BatchesInv
  <2> QED
    BY <2>1, <2>2 DEF PutInv, BatchesInv
<1> QED
  BY <1>2, <1>3 DEF PutInv

LEMMA PutInvStep == PutInv /\ [Next]_vars => PutInv'
<1> SUFFICES ASSUME PutInv, [Next]_vars
             PROVE  PutInv'
  OBVIOUS
<1>1. CASE Tick
  <2>1. clock' \in 0..MaxTime /\ clock <= clock' /\ \A n \in 0..MaxTime : n <= clock => n <= clock'
    BY <1>1, LimitsAssumption DEF Tick, PutInv, BatchesInv
  <2>2. \A t \in Threads : putting[t] \in Batches => putting[t].now \in 0..MaxTime
    BY DEF Batches
  <2> QED
    BY <1>1, <2>1, <2>2 DEF Tick, PutInv, BatchesInv, EntriesInv
<1>2. CASE inject_into_request \/ clear_all \/ \E scope \in Scopes : clear(scope)
  BY <1>2, RemovalStep DEF inject_into_request, clear_all, clear
<1>3. CASE \E t \in Threads, scope \in Scopes, values \in Values : Prepare(t, scope, values)
  BY <1>3, PrepareStep
<1>4. CASE \E t \in Threads : Put(t)
  BY <1>4, PutStep
<1>5. CASE UNCHANGED vars
  BY <1>5 DEF vars, PutInv, EntriesInv, BatchesInv
<1> QED
  BY <1>1, <1>2, <1>3, <1>4, <1>5 DEF Next

-----------------------------------------------------------------------------
(* Every step is fair. *)

\* A step that only removes, and ends no put.
LEMMA RemovalIsFair ==
    ASSUME NEW gone, Becomes(Without(gone)), UNCHANGED putting,
           \A k \in gone \cap DOMAIN store : k \in Expired(clock) \/ IsCleared(k[1])
    PROVE  EntryLossIsFair /\ BatchIsWhole
<1>1. DOMAIN store' = DOMAIN store \ gone /\ \A k \in DOMAIN store' : Unchanged(k)
  BY LeavesRest
<1>2. EntryLossIsFair
  BY <1>1 DEF EntryLossIsFair
<1>3. \A t \in Threads : ~Ends(t)
  BY DEF Ends
<1> QED
  BY <1>2, <1>3 DEF BatchIsWhole

LEMMA QuietIsFair ==
    ASSUME UNCHANGED store, \A t \in Threads : ~Ends(t)
    PROVE  EntryLossIsFair /\ BatchIsWhole
  BY DEF EntryLossIsFair, BatchIsWhole, Unchanged

LEMMA PutIsFair ==
    ASSUME PutInv, NEW t \in Threads, Put(t)
    PROVE  EntryLossIsFair /\ BatchIsWhole
<1> DEFINE b == putting[t]
<1>1. Expired(b.now) \subseteq Expired(clock)
  <2>1. b \in Batches /\ b.now \in 0..MaxTime /\ b.now <= clock
    BY PutStores DEF Batches, PutInv, BatchesInv, Put
  <2> QED
    BY <2>1, ExpiredLater
<1>2. Ends(t) /\ \A i \in Threads : Ends(i) => i = t
  BY PutStores DEF Ends
<1>3. CASE /\ DOMAIN store' = DOMAIN store \ Expired(b.now)
           /\ \A k \in DOMAIN store' : Unchanged(k)
  <2>1. EntryLossIsFair
    BY <1>1, <1>3 DEF EntryLossIsFair
  <2>2. BatchIsWhole
    BY <1>1, <1>3 DEF BatchIsWhole
  <2> QED
    BY <2>1, <2>2
<1>4. CASE /\ StoredWhole(b)
           /\ \A k \in DOMAIN store' \ DOMAIN Prepared(b) : Unchanged(k)
           /\ \A k \in DOMAIN store \ DOMAIN store' : k \in Expired(b.now) \/ MadeRoom(k, b)
  <2>1. EntryLossIsFair
    BY <1>1, <1>2, <1>4 DEF EntryLossIsFair
  <2>2. BatchIsWhole
    BY <1>2, <1>4 DEF BatchIsWhole
  <2> QED
    BY <2>1, <2>2
<1> QED
  BY <1>3, <1>4, PutStores

LEMMA StepIsFair == PutInv /\ Next => EntryLossIsFair /\ BatchIsWhole
<1> SUFFICES ASSUME PutInv, Next
             PROVE  EntryLossIsFair /\ BatchIsWhole
  OBVIOUS
<1>1. CASE Tick
  BY <1>1, QuietIsFair DEF Tick, Ends
<1>2. CASE inject_into_request
  BY <1>2, RemovalIsFair DEF inject_into_request
<1>3. CASE clear_all
  <2>1. DOMAIN store' = {} /\ putting' = putting
    BY <1>3, LeavesRest DEF clear_all
  <2>2. \A k \in DOMAIN store : IsCleared(k[1])
    BY <2>1 DEF IsCleared, InScope
  <2> QED
    BY <1>3, <2>1, <2>2, RemovalIsFair DEF clear_all
<1>4. ASSUME NEW scope \in Scopes, clear(scope)
      PROVE  EntryLossIsFair /\ BatchIsWhole
  <2>1. DOMAIN store' = DOMAIN store \ InScope(DOMAIN store, scope) /\ putting' = putting
    BY <1>4, LeavesRest DEF clear
  <2>2. IsCleared(scope)
    BY <2>1 DEF IsCleared, InScope
  <2>3. \A k \in InScope(DOMAIN store, scope) : IsCleared(k[1])
    BY <2>2 DEF InScope
  <2> QED
    BY <1>4, <2>1, <2>3, RemovalIsFair DEF clear
<1>5. ASSUME NEW t \in Threads, NEW scope \in Scopes, NEW values \in Values,
             Prepare(t, scope, values)
      PROVE  EntryLossIsFair /\ BatchIsWhole
  <2>1. \A i \in Threads : ~Ends(i)
    BY <1>5 DEF Prepare, Ends
  <2> QED
    BY <1>5, <2>1, QuietIsFair DEF Prepare
<1>6. ASSUME NEW t \in Threads, Put(t)
      PROVE  EntryLossIsFair /\ BatchIsWhole
  BY <1>6, PutIsFair
<1> QED
  BY <1>1, <1>2, <1>3, <1>4, <1>5, <1>6 DEF Next

\* No step takes an entry from a client but by its age, by a clear of its scope, by
\* a newer value, or as the oldest of its principal in a full store, and no batch is
\* stored in part or costs anything when it is refused (_put_many), however the
\* threads interleave and however old a thread's idea of the time is.
THEOREM LossCorrect == Spec => LossIsFair
<1>1. PutInv /\ [Next]_vars => [EntryLossIsFair /\ BatchIsWhole]_vars
  BY StepIsFair
<1> QED
  BY <1>1, PutInit, PutInvStep, PTL DEF Spec, LossIsFair

-----------------------------------------------------------------------------
(* The accounts.  The four counters are sums over the store, so a removal   *)
(* and a batch have to change each sum by what they take and bring.         *)

\* Entries of the store, and what they weigh.
WellKept(st) == DOMAIN st \subseteq Keys /\ st \in [DOMAIN st -> Entries]

LEMMA BytesIsTotal ==
    ASSUME NEW entries, NEW keys, NEW w, \A k \in keys : w[k] = entries[k].size
    PROVE  Bytes(entries, keys) = Total(w, keys)
<1> DEFINE IsIt(g) == g = [s \in SUBSET keys |->
                              IF s = {} THEN 0 ELSE entries[Part(s)].size + g[s \ {Part(s)}]]
<1>1. Bytes(entries, keys) = (CHOOSE g : IsIt(g))[keys]
  BY DEF Bytes, MapThenSumSet, MapThenFoldSet, Part
<1>2. \A g : IsIt(g) <=> Sums(g, w, keys)
  <2>1. \A s \in SUBSET keys : s # {} => entries[Part(s)].size = w[Part(s)]
    BY PartFacts
  <2> HIDE DEF Part
  <2> QED
    BY <2>1 DEF Sums
<1> HIDE DEF IsIt
<1>3. (CHOOSE g : IsIt(g)) = (CHOOSE g : Sums(g, w, keys))
  BY <1>2
<1> QED
  BY <1>1, <1>3, TotalIsSums

\* The weight of some entries, of a part of them and of the rest.
LEMMA BytesFacts ==
    ASSUME NEW st, WellKept(st), NEW K \in SUBSET DOMAIN st, NEW G \in SUBSET K
    PROVE  /\ Bytes(st, K) \in Nat /\ Bytes(st, G) \in Nat /\ Bytes(st, K \ G) \in Nat
           /\ Bytes(st, K) = Bytes(st, G) + Bytes(st, K \ G)
<1> DEFINE w == [k \in K |-> st[k].size]
<1>1. IsFiniteSet(K) /\ IsFiniteSet(G) /\ IsFiniteSet(K \ G)
  BY KeysFinite, FS_Subset DEF WellKept
<1>2. \A k \in K : w[k] = st[k].size /\ w[k] \in Nat
  BY LimitsAssumption DEF WellKept, Entries
<1> HIDE DEF w
<1>3. Bytes(st, K) = Total(w, K) /\ Bytes(st, G) = Total(w, G) /\ Bytes(st, K \ G) = Total(w, K \ G)
  BY <1>2, BytesIsTotal
<1> QED
  BY <1>1, <1>2, <1>3, TotalType, TotalSplit

\* Only the entries weighed matter.
LEMMA BytesSame ==
    ASSUME NEW a, NEW st, NEW K, \A k \in K : a[k] = st[k]
    PROVE  Bytes(a, K) = Bytes(st, K)
<1> DEFINE w == [k \in K |-> st[k].size]
<1> HIDE DEF w
<1>1. \A k \in K : w[k] = st[k].size /\ w[k] = a[k].size
  BY DEF w
<1> QED
  BY <1>1, BytesIsTotal

\* How many, and how many are left.
LEMMA CountFacts ==
    ASSUME NEW K \in SUBSET Keys, NEW G \in SUBSET K
    PROVE  /\ IsFiniteSet(K)
           /\ Cardinality(K) \in Nat /\ Cardinality(G) \in Nat
           /\ Cardinality(K \ G) = Cardinality(K) - Cardinality(G)
           /\ Cardinality(G) <= Cardinality(K)
<1>1. IsFiniteSet(K) /\ IsFiniteSet(G) /\ K \cap G = G
  BY KeysFinite, FS_Subset
<1>2. Cardinality(K \ G) = Cardinality(K) - Cardinality(K \cap G)
  BY <1>1, FS_Difference
<1> QED
  BY <1>1, <1>2, FS_Subset, FS_CardinalityType

\* The accounts of a store: what each counter should be.
Balanced(kept) ==
    /\ WellKept(kept.store)
    /\ kept.scope = [s \in Scopes |-> Bytes(kept.store, InScope(DOMAIN kept.store, s))]
    /\ kept.entries =
           [p \in Principals |-> Cardinality(OfPrincipal(DOMAIN kept.store, p))]
    /\ kept.principal =
           [p \in Principals |-> Bytes(kept.store, OfPrincipal(DOMAIN kept.store, p))]
    /\ kept.global = Bytes(kept.store, DOMAIN kept.store)
Books == [store |-> store, scope |-> scope_bytes, entries |-> principal_entries,
          principal |-> principal_bytes, global |-> global_bytes]

LEMMA MinusPart ==
    ASSUME NEW part \in Nat, NEW rest \in Nat
    PROVE  Minus(part + rest, part) = rest /\ (part + rest) - part = rest
  BY DEF Minus

\* A removal takes from each counter what the entries it removes weigh.
LEMMA WithoutBalanced ==
    ASSUME Balanced(Books), NEW gone \in SUBSET DOMAIN store
    PROVE  Balanced(Without(gone))
<1> DEFINE left == Without(gone).store
           D == DOMAIN store
<1>1. /\ DOMAIN left = D \ gone
      /\ \A k \in D \ gone : left[k] = store[k]
  BY WithoutStore
<1>2. /\ WellKept(store)
      /\ scope_bytes = [s \in Scopes |-> Bytes(store, InScope(D, s))]
      /\ principal_entries = [p \in Principals |-> Cardinality(OfPrincipal(D, p))]
      /\ principal_bytes = [p \in Principals |-> Bytes(store, OfPrincipal(D, p))]
      /\ global_bytes = Bytes(store, D)
  BY DEF Balanced, Books
<1>3. ASSUME NEW K \in SUBSET D, NEW G \in SUBSET gone, G \in SUBSET K, K \ G \subseteq D \ gone
      PROVE  /\ Minus(Bytes(store, K), Bytes(store, G)) = Bytes(left, K \ G)
             /\ Bytes(store, K) - Bytes(store, G) = Bytes(left, K \ G)
             /\ Minus(Cardinality(K), Cardinality(G)) = Cardinality(K \ G)
  <2>1. Bytes(left, K \ G) = Bytes(store, K \ G)
    BY <1>1, <1>3, BytesSame
  <2>2. /\ Bytes(store, G) \in Nat /\ Bytes(store, K \ G) \in Nat
        /\ Bytes(store, K) = Bytes(store, G) + Bytes(store, K \ G)
    <3>1. WellKept(store) /\ K \in SUBSET DOMAIN store /\ G \in SUBSET K
      BY <1>2, <1>3
    <3> QED
      BY <3>1, BytesFacts
  <2>3. /\ Cardinality(K) \in Nat /\ Cardinality(G) \in Nat /\ Cardinality(G) <= Cardinality(K)
        /\ Cardinality(K \ G) = Cardinality(K) - Cardinality(G)
    BY <1>2, <1>3, CountFacts DEF WellKept
  <2> QED
    BY <2>1, <2>2, <2>3, MinusPart DEF Minus
<1>4. ASSUME NEW s
      PROVE  /\ InScope(D, s) \ InScope(gone, s) = InScope(DOMAIN left, s)
             /\ InScope(D, s) \subseteq D /\ InScope(gone, s) \subseteq InScope(D, s)
             /\ InScope(gone, s) \subseteq gone /\ InScope(DOMAIN left, s) \subseteq D \ gone
  BY <1>1 DEF InScope
<1>5. ASSUME NEW p
      PROVE  /\ OfPrincipal(D, p) \ OfPrincipal(gone, p) = OfPrincipal(DOMAIN left, p)
             /\ OfPrincipal(D, p) \subseteq D /\ OfPrincipal(gone, p) \subseteq OfPrincipal(D, p)
             /\ OfPrincipal(gone, p) \subseteq gone /\ OfPrincipal(DOMAIN left, p) \subseteq D \ gone
  BY <1>1 DEF OfPrincipal
<1> DEFINE kept == Without(gone)
<1>6. kept.scope = [s \in Scopes |-> Bytes(left, InScope(DOMAIN left, s))]
  <2>1. kept.scope = [s \in Scopes |-> Minus(scope_bytes[s], Bytes(store, InScope(gone, s)))]
    BY DEF Without
  <2> HIDE DEF kept, left
  <2>2. \A s \in Scopes : Minus(Bytes(store, InScope(D, s)), Bytes(store, InScope(gone, s)))
                             = Bytes(left, InScope(DOMAIN left, s))
    BY <1>3, <1>4
  <2> QED
    BY <1>2, <2>1, <2>2
<1>7. kept.entries = [p \in Principals |-> Cardinality(OfPrincipal(DOMAIN left, p))]
  <2>1. kept.entries = [p \in Principals |->
                           Minus(principal_entries[p], Cardinality(OfPrincipal(gone, p)))]
    BY DEF Without
  <2> HIDE DEF kept, left
  <2>2. \A p \in Principals :
            Minus(Cardinality(OfPrincipal(D, p)), Cardinality(OfPrincipal(gone, p)))
                = Cardinality(OfPrincipal(DOMAIN left, p))
    BY <1>3, <1>5
  <2> QED
    BY <1>2, <2>1, <2>2
<1>8. kept.principal = [p \in Principals |-> Bytes(left, OfPrincipal(DOMAIN left, p))]
  <2>1. kept.principal = [p \in Principals |->
                             Minus(principal_bytes[p], Bytes(store, OfPrincipal(gone, p)))]
    BY DEF Without
  <2> HIDE DEF kept, left
  <2>2. \A p \in Principals :
            Minus(Bytes(store, OfPrincipal(D, p)), Bytes(store, OfPrincipal(gone, p)))
                = Bytes(left, OfPrincipal(DOMAIN left, p))
    BY <1>3, <1>5
  <2> QED
    BY <1>2, <2>1, <2>2
<1>9. kept.global = Bytes(left, DOMAIN left)
  <2>1. kept.global = global_bytes - Bytes(store, gone)
    BY DEF Without
  <2> HIDE DEF kept, left
  <2>2. Bytes(store, D) - Bytes(store, gone) = Bytes(left, D \ gone)
    BY <1>3
  <2> QED
    BY <1>1, <1>2, <2>1, <2>2
<1>10. WellKept(left)
  <2>1. left = [k \in D \ gone |-> store[k]]
    BY DEF Without, Restrict
  <2> HIDE DEF left
  <2> QED
    BY <1>2, <2>1 DEF WellKept
<1> HIDE DEF kept
<1> QED
  BY <1>6, <1>7, <1>8, <1>9, <1>10 DEF kept, Balanced

\* A batch of one scope adds to the counters of the scope, of its principal and of
\* the store what it weighs.
LEMMA WithBalanced ==
    ASSUME NEW kept, Balanced(kept), NEW scope \in Scopes, NEW batch, WellKept(batch),
           \A k \in DOMAIN batch : k[1] = scope, DOMAIN batch \cap DOMAIN kept.store = {}
    PROVE  Balanced(With(kept, scope, batch))
<1> DEFINE B == DOMAIN batch
           D == DOMAIN kept.store
           with == With(kept, scope, batch)
           next == with.store
           owner == PrincipalOf[scope]
           bytes == Bytes(batch, B)
<1>1. /\ next = [k \in B \cup D |-> IF k \in B THEN batch[k] ELSE kept.store[k]]
      /\ with.scope = [kept.scope EXCEPT ![scope] = @ + bytes]
      /\ with.entries = [kept.entries EXCEPT ![owner] = @ + Cardinality(B)]
      /\ with.principal = [kept.principal EXCEPT ![owner] = @ + bytes]
      /\ with.global = kept.global + bytes
  BY DEF With
<1>2. /\ WellKept(kept.store)
      /\ kept.scope = [s \in Scopes |-> Bytes(kept.store, InScope(D, s))]
      /\ kept.entries = [p \in Principals |-> Cardinality(OfPrincipal(D, p))]
      /\ kept.principal = [p \in Principals |-> Bytes(kept.store, OfPrincipal(D, p))]
      /\ kept.global = Bytes(kept.store, D)
  BY DEF Balanced
<1> HIDE DEF with, next
<1>3. WellKept(next) /\ DOMAIN next = B \cup D
  BY <1>1, <1>2 DEF WellKept
<1>4. ASSUME NEW K \in SUBSET (B \cup D), B \subseteq K
      PROVE  /\ Bytes(next, K) = Bytes(kept.store, K \ B) + bytes
             /\ Cardinality(K) = Cardinality(K \ B) + Cardinality(B)
  <2>1. K \in SUBSET DOMAIN next /\ B \in SUBSET K /\ K \in SUBSET Keys
    BY <1>3, <1>4 DEF WellKept
  <2>2. Bytes(next, K) = Bytes(next, B) + Bytes(next, K \ B)
        /\ Bytes(next, B) \in Nat /\ Bytes(next, K \ B) \in Nat
    <3> HIDE DEF B, D, owner, bytes
    <3>1. WellKept(next) /\ K \in SUBSET DOMAIN next /\ B \in SUBSET K
      BY <1>3, <2>1
    <3> QED
      BY <3>1, BytesFacts
  <2>3. Bytes(next, B) = bytes
    BY <1>1, BytesSame
  <2>4. \A k \in K \ B : next[k] = kept.store[k]
    BY <1>1
  <2>5. Bytes(next, K \ B) = Bytes(kept.store, K \ B)
    BY <2>4, BytesSame
  <2>6. Cardinality(K) = Cardinality(K \ B) + Cardinality(B)
    <3> HIDE DEF B
    <3>1. /\ Cardinality(K) \in Nat /\ Cardinality(B) \in Nat
          /\ Cardinality(K \ B) = Cardinality(K) - Cardinality(B)
      BY <2>1, CountFacts
    <3> QED
      BY <3>1
  <2> QED
    BY <2>2, <2>3, <2>5, <2>6
<1>5. ASSUME NEW K \in SUBSET D
      PROVE  Bytes(next, K) = Bytes(kept.store, K)
  <2>1. \A k \in K : next[k] = kept.store[k]
    BY <1>1
  <2> QED
    BY <2>1, BytesSame
<1>6. /\ B \subseteq InScope(B \cup D, scope) /\ InScope(B \cup D, scope) \ B = InScope(D, scope)
      /\ InScope(B \cup D, scope) \subseteq B \cup D
      /\ \A s \in Scopes : InScope(D, s) \subseteq D
      /\ \A s \in Scopes : s # scope => InScope(B \cup D, s) = InScope(D, s)
  BY DEF InScope
<1>7. /\ B \subseteq OfPrincipal(B \cup D, owner)
      /\ OfPrincipal(B \cup D, owner) \ B = OfPrincipal(D, owner)
      /\ OfPrincipal(B \cup D, owner) \subseteq B \cup D
      /\ \A p \in Principals : OfPrincipal(D, p) \subseteq D
      /\ \A p \in Principals : p # owner => OfPrincipal(B \cup D, p) = OfPrincipal(D, p)
  BY DEF OfPrincipal, OwnerOf
<1>8. owner \in Principals
  BY ScopesAssumption
<1> HIDE DEF bytes, owner
<1>9. with.scope = [s \in Scopes |-> Bytes(next, InScope(B \cup D, s))]
  <2>1. \A s \in Scopes : with.scope[s] = Bytes(next, InScope(B \cup D, s))
    <3> SUFFICES ASSUME NEW s \in Scopes
                 PROVE  with.scope[s] = Bytes(next, InScope(B \cup D, s))
      OBVIOUS
    <3>1. CASE s = scope
      <4>1. Bytes(next, InScope(B \cup D, scope)) = Bytes(kept.store, InScope(D, scope)) + bytes
        BY <1>4, <1>6
      <4> QED
        BY <1>1, <1>2, <3>1, <4>1
    <3>2. CASE s # scope
      <4>1. Bytes(next, InScope(D, s)) = Bytes(kept.store, InScope(D, s))
        BY <1>5, <1>6
      <4> QED
        BY <1>1, <1>2, <1>6, <3>2, <4>1
    <3> QED
      BY <3>1, <3>2
  <2>2. with.scope = [s \in Scopes |-> with.scope[s]]
    BY <1>1, <1>2
  <2> QED
    BY <2>1, <2>2
<1>10. with.entries = [p \in Principals |-> Cardinality(OfPrincipal(B \cup D, p))]
  <2>1. \A p \in Principals : with.entries[p] = Cardinality(OfPrincipal(B \cup D, p))
    <3> SUFFICES ASSUME NEW p \in Principals
                 PROVE  with.entries[p] = Cardinality(OfPrincipal(B \cup D, p))
      OBVIOUS
    <3>1. CASE p = owner
      <4>1. Cardinality(OfPrincipal(B \cup D, owner))
                = Cardinality(OfPrincipal(D, owner)) + Cardinality(B)
        BY <1>4, <1>7
      <4> QED
        BY <1>1, <1>2, <3>1, <4>1
    <3>2. CASE p # owner
      <4>1. OfPrincipal(B \cup D, p) = OfPrincipal(D, p)
        BY <1>7, <3>2
      <4>2. with.entries[p] = kept.entries[p]
        BY <1>1, <1>2, <3>2
      <4> QED
        BY <1>2, <4>1, <4>2
    <3> QED
      BY <3>1, <3>2
  <2>2. with.entries = [p \in Principals |-> with.entries[p]]
    BY <1>1, <1>2
  <2> QED
    BY <2>1, <2>2
<1>11. with.principal = [p \in Principals |-> Bytes(next, OfPrincipal(B \cup D, p))]
  <2>1. \A p \in Principals : with.principal[p] = Bytes(next, OfPrincipal(B \cup D, p))
    <3> SUFFICES ASSUME NEW p \in Principals
                 PROVE  with.principal[p] = Bytes(next, OfPrincipal(B \cup D, p))
      OBVIOUS
    <3>1. CASE p = owner
      <4>1. Bytes(next, OfPrincipal(B \cup D, owner))
                = Bytes(kept.store, OfPrincipal(D, owner)) + bytes
        BY <1>4, <1>7
      <4> QED
        BY <1>1, <1>2, <3>1, <4>1
    <3>2. CASE p # owner
      <4>1. Bytes(next, OfPrincipal(D, p)) = Bytes(kept.store, OfPrincipal(D, p))
        BY <1>5, <1>7
      <4> QED
        BY <1>1, <1>2, <1>7, <3>2, <4>1
    <3> QED
      BY <3>1, <3>2
  <2>2. with.principal = [p \in Principals |-> with.principal[p]]
    BY <1>1, <1>2
  <2> QED
    BY <2>1, <2>2
<1>12. with.global = Bytes(next, B \cup D)
  <2>1. (B \cup D) \ B = D
    OBVIOUS
  <2>2. Bytes(next, B \cup D) = Bytes(kept.store, D) + bytes
    BY <1>4, <2>1
  <2> QED
    BY <1>1, <1>2, <2>2
<1>13. next = with.store
  BY DEF next
<1>14. Balanced(with)
  <2> HIDE DEF B, D
  <2> QED
    BY <1>3, <1>9, <1>10, <1>11, <1>12, <1>13 DEF Balanced
<1> QED
  BY <1>14 DEF with

-----------------------------------------------------------------------------
(* The limits. *)

Within(kept) ==
    /\ \A s \in Scopes : kept.scope[s] <= max_bytes_per_scope
    /\ \A p \in Principals : /\ kept.entries[p] <= max_entries_per_principal
                            /\ kept.principal[p] <= max_bytes_per_principal
    /\ kept.global <= max_bytes_global
    /\ Cardinality(DOMAIN kept.store) <= max_size
AccountsInv == Balanced(Books) /\ Within(Books)

LEMMA Parts ==
    ASSUME NEW K
    PROVE  /\ \A s : InScope(K, s) \subseteq K
           /\ \A p : OfPrincipal(K, p) \subseteq K
  BY DEF InScope, OfPrincipal

LEMMA BalancedTypes ==
    ASSUME NEW kept, Balanced(kept)
    PROVE  /\ kept.scope \in [Scopes -> Nat] /\ kept.entries \in [Principals -> Nat]
           /\ kept.principal \in [Principals -> Nat] /\ kept.global \in Nat
<1> DEFINE D == DOMAIN kept.store
<1>1. \A K \in SUBSET D : Bytes(kept.store, K) \in Nat /\ Cardinality(K) \in Nat
  <2> SUFFICES ASSUME NEW K \in SUBSET D
               PROVE  Bytes(kept.store, K) \in Nat /\ Cardinality(K) \in Nat
    OBVIOUS
  <2>1. WellKept(kept.store) /\ K \in SUBSET K /\ K \in SUBSET Keys
    BY DEF Balanced, WellKept
  <2>2. Cardinality(K) \in Nat
    BY <2>1, CountFacts
  <2> QED
    BY <2>1, <2>2, BytesFacts
<1>2. /\ \A s \in Scopes : Bytes(kept.store, InScope(D, s)) \in Nat
      /\ \A p \in Principals : Cardinality(OfPrincipal(D, p)) \in Nat
      /\ \A p \in Principals : Bytes(kept.store, OfPrincipal(D, p)) \in Nat
      /\ Bytes(kept.store, D) \in Nat
  <2> HIDE DEF D
  <2> QED
    BY <1>1, Parts
<1> HIDE DEF D
<1> QED
  BY <1>2 DEF Balanced, D

\* The invariant is what AccountsBalance says, in terms of the records.
LEMMA AccountsMatch == AccountsInv => AccountsBalance
  BY DEF AccountsInv, Balanced, Within, Books, AccountsBalance

LEMMA WithoutWithin ==
    ASSUME AccountsInv, NEW gone \in SUBSET DOMAIN store
    PROVE  Within(Without(gone))
<1> DEFINE kept == Without(gone)
<1>1. Balanced(Books) /\ WellKept(store)
  BY DEF AccountsInv, Balanced, Books
<1>2. \A K \in SUBSET gone : Bytes(store, K) \in Nat /\ Cardinality(K) \in Nat
  <2> SUFFICES ASSUME NEW K \in SUBSET gone
               PROVE  Bytes(store, K) \in Nat /\ Cardinality(K) \in Nat
    OBVIOUS
  <2>1. K \in SUBSET DOMAIN store /\ K \in SUBSET K /\ K \in SUBSET Keys
    BY <1>1 DEF WellKept
  <2>2. Cardinality(K) \in Nat
    BY <2>1, CountFacts
  <2> QED
    BY <1>1, <2>1, <2>2, BytesFacts
<1>3. /\ scope_bytes \in [Scopes -> Nat] /\ principal_entries \in [Principals -> Nat]
      /\ principal_bytes \in [Principals -> Nat] /\ global_bytes \in Nat
  BY <1>1, BalancedTypes DEF Books
<1>4. /\ \A s \in Scopes : scope_bytes[s] <= max_bytes_per_scope
      /\ \A p \in Principals : /\ principal_entries[p] <= max_entries_per_principal
                              /\ principal_bytes[p] <= max_bytes_per_principal
      /\ global_bytes <= max_bytes_global
      /\ Cardinality(DOMAIN store) <= max_size
  BY DEF AccountsInv, Within, Books
<1>5. {max_bytes_per_scope, max_entries_per_principal, max_bytes_per_principal,
       max_bytes_global, max_size} \subseteq Nat
  BY LimitsAssumption
<1>6. ASSUME NEW s \in Scopes
      PROVE  kept.scope[s] <= max_bytes_per_scope
  <2> DEFINE n == Bytes(store, InScope(gone, s))
  <2>1. n \in Nat
    BY <1>2, Parts
  <2>2. kept.scope[s] = Minus(scope_bytes[s], n)
    BY DEF Without
  <2> HIDE DEF n, kept
  <2> QED
    BY <1>3, <1>4, <1>5, <2>1, <2>2 DEF Minus
<1>7. ASSUME NEW p \in Principals
      PROVE  kept.entries[p] <= max_entries_per_principal /\ kept.principal[p] <= max_bytes_per_principal
  <2> DEFINE n == Bytes(store, OfPrincipal(gone, p))
             m == Cardinality(OfPrincipal(gone, p))
  <2>1. n \in Nat /\ m \in Nat
    BY <1>2, Parts
  <2>2. kept.entries[p] = Minus(principal_entries[p], m) /\ kept.principal[p] = Minus(principal_bytes[p], n)
    BY DEF Without
  <2> HIDE DEF n, m, kept
  <2> QED
    BY <1>3, <1>4, <1>5, <2>1, <2>2 DEF Minus
<1>8. kept.global <= max_bytes_global
  <2>1. kept.global = global_bytes - Bytes(store, gone) /\ Bytes(store, gone) \in Nat
    BY <1>2 DEF Without
  <2> HIDE DEF kept
  <2> QED
    BY <1>3, <1>4, <1>5, <2>1
<1>9. Cardinality(DOMAIN kept.store) <= max_size
  <2>1. DOMAIN kept.store = DOMAIN store \ gone
    BY WithoutStore
  <2>2. DOMAIN store \in SUBSET Keys
    BY <1>1 DEF WellKept
  <2>3. /\ Cardinality(DOMAIN store \ gone) = Cardinality(DOMAIN store) - Cardinality(gone)
        /\ Cardinality(DOMAIN store) \in Nat /\ Cardinality(gone) \in Nat
    BY <2>2, CountFacts
  <2> QED
    BY <1>4, <1>5, <2>1, <2>3
<1> QED
  BY <1>6, <1>7, <1>8, <1>9 DEF Within

LEMMA PreparedKept ==
    ASSUME NEW b \in Batches
    PROVE  /\ WellKept(Prepared(b)) /\ b.scope \in Scopes
           /\ \A k \in DOMAIN Prepared(b) : k[1] = b.scope
<1>1. /\ b.scope \in Scopes /\ b.now \in 0..MaxTime
      /\ DOMAIN b.values \subseteq CallIds /\ \A id \in DOMAIN b.values : b.values[id] \in Sizes
  BY DEF Batches, Values
<1>2. Prepared(b) = [k \in {b.scope} \X DOMAIN b.values |->
                        [size |-> b.values[k[2]], created |-> b.now]]
  BY DEF Prepared
<1> QED
  BY <1>1, <1>2 DEF WellKept, Keys, Entries

\* A batch that is let in keeps the accounts and all five limits.
LEMMA StoredWithin ==
    ASSUME AccountsInv, NEW b \in Batches, NEW kept, kept = Without(Expired(b.now)),
           NEW gone \in Oldest(kept.store, Candidates(kept.store, b), Overflow(kept.store, b)),
           ~TooMany(b, kept), Fits(Stored(b, kept, gone), b)
    PROVE  Balanced(Stored(b, kept, gone)) /\ Within(Stored(b, kept, gone))
<1> DEFINE batch == Prepared(b)
           B == DOMAIN batch
           live == DOMAIN kept.store
           removed == Expired(b.now) \cup gone \cup (B \cap live)
           W == Without(removed)
           next == With(W, b.scope, batch)
           owner == PrincipalOf[b.scope]
           all == live \cup B
<1>1. Stored(b, kept, gone) = next
  BY DEF Stored
<1>2. Expired(b.now) \subseteq DOMAIN store /\ live = DOMAIN store \ Expired(b.now)
  BY WithoutStore DEF Expired
<1>3. /\ gone \subseteq live /\ gone \cap B = {}
      /\ Cardinality(gone) = Minus(Cardinality(all), max_size)
  BY DEF Oldest, kSubset, Candidates, OfPrincipal, Overflow
<1>4. /\ Balanced(kept) /\ Balanced(W) /\ Within(W) /\ DOMAIN W.store = DOMAIN store \ removed
  <2>1. removed \in SUBSET DOMAIN store /\ Expired(b.now) \in SUBSET DOMAIN store
    BY <1>2, <1>3
  <2> HIDE DEF removed
  <2> QED
    BY <2>1, WithoutBalanced, WithoutWithin, WithoutStore DEF AccountsInv
<1>5. WellKept(batch) /\ b.scope \in Scopes /\ (\A k \in B : k[1] = b.scope)
  BY PreparedKept
<1>6. B \cap DOMAIN W.store = {} /\ B \cup DOMAIN W.store = all \ gone
  BY <1>2, <1>3, <1>4
<1> HIDE DEF removed, W, batch
<1>7. Balanced(next)
  BY <1>4, <1>5, <1>6, WithBalanced
<1>8. DOMAIN next.store = all \ gone
  BY <1>6 DEF With
<1>9. all \in SUBSET Keys /\ live \in SUBSET Keys
  BY <1>4, <1>5 DEF Balanced, WellKept
<1>10. Cardinality(DOMAIN next.store) <= max_size
  <2>1. gone \in SUBSET all
    BY <1>3
  <2> HIDE DEF all
  <2>2. /\ Cardinality(all \ gone) = Cardinality(all) - Cardinality(gone)
        /\ Cardinality(all) \in Nat /\ Cardinality(gone) \in Nat /\ max_size \in Nat
    BY <1>9, <2>1, CountFacts, LimitsAssumption
  <2> QED
    BY <1>3, <1>8, <2>2 DEF Minus
<1>11. next.entries[owner] <= max_entries_per_principal
  <2> DEFINE own == OfPrincipal(live, owner)
             new == B \ live
             after == OfPrincipal(all \ gone, owner)
  <2>1. own \in SUBSET Keys /\ new \in SUBSET Keys /\ after \subseteq own \cup new
    BY <1>9 DEF OfPrincipal
  <2>2. owner \in Principals
    BY <1>5, ScopesAssumption
  <2>3. next.entries[owner] = Cardinality(after) /\ kept.entries[owner] = Cardinality(own)
    <3> HIDE DEF next, all
    <3> QED
      BY <1>4, <1>7, <1>8, <2>2 DEF Balanced
  <2>4. ~(Cardinality(own) + Cardinality(new) > max_entries_per_principal)
    BY <2>3 DEF TooMany, batch
  <2> HIDE DEF own, new, after
  <2>5. IsFiniteSet(own) /\ IsFiniteSet(new) /\ IsFiniteSet(own \cup new) /\ IsFiniteSet(own \cap new)
    BY <2>1, KeysFinite, FS_Subset, FS_Union
  <2>6. /\ Cardinality(own) \in Nat /\ Cardinality(new) \in Nat /\ Cardinality(own \cap new) \in Nat
        /\ Cardinality(own \cup new) \in Nat /\ Cardinality(after) \in Nat
        /\ Cardinality(after) <= Cardinality(own \cup new)
    BY <2>1, <2>5, FS_Subset, FS_CardinalityType
  <2>7. Cardinality(own \cup new) = Cardinality(own) + Cardinality(new) - Cardinality(own \cap new)
    BY <2>5, FS_Union
  <2> QED
    BY <2>3, <2>4, <2>6, <2>7, LimitsAssumption
<1>12. /\ next.scope[b.scope] <= max_bytes_per_scope
       /\ next.principal[owner] <= max_bytes_per_principal
       /\ next.global <= max_bytes_global
  BY <1>1 DEF Fits
<1>13. /\ \A s \in Scopes : s # b.scope => next.scope[s] = W.scope[s]
       /\ \A p \in Principals : p # owner => next.entries[p] = W.entries[p] /\ next.principal[p] = W.principal[p]
  <2>1. /\ next.scope = [W.scope EXCEPT ![b.scope] = @ + Bytes(batch, B)]
        /\ next.entries = [W.entries EXCEPT ![owner] = @ + Cardinality(B)]
        /\ next.principal = [W.principal EXCEPT ![owner] = @ + Bytes(batch, B)]
    BY DEF With
  <2>2. /\ W.scope \in [Scopes -> Nat] /\ W.entries \in [Principals -> Nat]
        /\ W.principal \in [Principals -> Nat]
    BY <1>4, BalancedTypes
  <2> HIDE DEF next, B, owner
  <2> QED
    BY <2>1, <2>2
<1> HIDE DEF next, owner
<1>14. Within(next)
  <2>1. \A s \in Scopes : next.scope[s] <= max_bytes_per_scope
    BY <1>4, <1>12, <1>13 DEF Within
  <2>2. \A p \in Principals : /\ next.entries[p] <= max_entries_per_principal
                            /\ next.principal[p] <= max_bytes_per_principal
    BY <1>4, <1>11, <1>12, <1>13 DEF Within
  <2> QED
    BY <1>10, <1>12, <2>1, <2>2 DEF Within
<1> QED
  BY <1>1, <1>7, <1>14

-----------------------------------------------------------------------------
(* The invariant of the accounts. *)

LEMMA BecomesBooks ==
    ASSUME NEW kept, Becomes(kept), Balanced(kept), Within(kept)
    PROVE  AccountsInv'
<1>1. /\ store' = kept.store /\ scope_bytes' = kept.scope /\ principal_entries' = kept.entries
      /\ principal_bytes' = kept.principal /\ global_bytes' = kept.global
  BY DEF Becomes
<1>2. Balanced(Books)'
  BY <1>1 DEF Balanced, Books, WellKept
<1>3. Within(Books)'
  BY <1>1 DEF Within, Books
<1> QED
  BY <1>2, <1>3 DEF AccountsInv

LEMMA AccountsInit == Init => AccountsInv
<1> SUFFICES ASSUME Init
             PROVE  AccountsInv
  OBVIOUS
<1>1. /\ store = [k \in {} |-> 0] /\ DOMAIN store = {} /\ global_bytes = 0
      /\ scope_bytes = [s \in Scopes |-> 0]
      /\ principal_entries = [p \in Principals |-> 0] /\ principal_bytes = [p \in Principals |-> 0]
  BY DEF Init
<1>2. Bytes(store, {}) = 0
  <2>1. Bytes(store, {}) = Total(store, {})
    BY BytesIsTotal
  <2> QED
    BY <2>1, TotalEmpty
<1>3. Cardinality({}) = 0
  BY FS_EmptySet
<1>4. (\A s : InScope({}, s) = {}) /\ (\A p : OfPrincipal({}, p) = {})
  BY DEF InScope, OfPrincipal
<1>5. Balanced(Books)
  <2>1. WellKept(store)
    BY <1>1 DEF WellKept
  <2> QED
    BY <1>1, <1>2, <1>3, <1>4, <2>1 DEF Balanced, Books
<1>6. Within(Books)
  BY <1>1, <1>3, LimitsAssumption DEF Within, Books
<1> QED
  BY <1>5, <1>6 DEF AccountsInv

LEMMA RemovalAccounts ==
    ASSUME AccountsInv, NEW gone \in SUBSET DOMAIN store, Becomes(Without(gone))
    PROVE  AccountsInv'
  BY WithoutBalanced, WithoutWithin, BecomesBooks DEF AccountsInv

LEMMA PutAccounts ==
    ASSUME PutInv, AccountsInv, NEW t \in Threads, Put(t)
    PROVE  AccountsInv'
<1> DEFINE b == putting[t]
           kept == Without(Expired(b.now))
<1>1. b \in Batches /\ PutInto(kept, b)
  BY DEF Put, PutInv, BatchesInv
<1>2. Expired(b.now) \in SUBSET DOMAIN store
  BY DEF Expired
<1>3. CASE Becomes(kept)
  BY <1>2, <1>3, RemovalAccounts
<1>4. CASE ~Becomes(kept)
  <2>1. PICK gone \in Oldest(kept.store, Candidates(kept.store, b), Overflow(kept.store, b)) :
            /\ ~TooMany(b, kept)
            /\ Fits(Stored(b, kept, gone), b)
            /\ Becomes(Stored(b, kept, gone))
    BY <1>1, <1>4, PutCases
  <2>2. Balanced(Stored(b, kept, gone)) /\ Within(Stored(b, kept, gone))
    BY <1>1, <2>1, StoredWithin
  <2> HIDE DEF kept, b
  <2> QED
    BY <2>1, <2>2, BecomesBooks
<1> QED
  BY <1>3, <1>4

LEMMA AccountsStep == PutInv /\ AccountsInv /\ [Next]_vars => AccountsInv'
<1> SUFFICES ASSUME PutInv, AccountsInv, [Next]_vars
             PROVE  AccountsInv'
  OBVIOUS
<1>1. ASSUME UNCHANGED <<store, accounts>>
      PROVE  AccountsInv'
  BY <1>1 DEF accounts, AccountsInv, Balanced, Within, Books, WellKept
<1>2. CASE inject_into_request
  <2>1. Expired(clock) \in SUBSET DOMAIN store
    BY DEF Expired
  <2> QED
    BY <1>2, <2>1, RemovalAccounts DEF inject_into_request
<1>3. CASE clear_all
  BY <1>3, RemovalAccounts DEF clear_all
<1>4. ASSUME NEW scope \in Scopes, clear(scope)
      PROVE  AccountsInv'
  <2>1. InScope(DOMAIN store, scope) \in SUBSET DOMAIN store
    BY DEF InScope
  <2> QED
    BY <1>4, <2>1, RemovalAccounts DEF clear
<1>5. CASE Tick \/ (\E t \in Threads, scope \in Scopes, values \in Values : Prepare(t, scope, values))
  BY <1>1, <1>5 DEF Tick, Prepare
<1>6. CASE \E t \in Threads : Put(t)
  BY <1>6, PutAccounts
<1>7. CASE UNCHANGED vars
  BY <1>1, <1>7 DEF vars
<1> QED
  BY <1>2, <1>3, <1>4, <1>5, <1>6, <1>7 DEF Next

LEMMA TypesMatch == BatchesInv /\ AccountsInv => TypeOK
<1> SUFFICES ASSUME BatchesInv, AccountsInv
             PROVE  TypeOK
  OBVIOUS
<1>1. WellKept(store)
  BY DEF AccountsInv, Balanced, Books
<1>2. /\ scope_bytes \in [Scopes -> Nat] /\ principal_entries \in [Principals -> Nat]
      /\ principal_bytes \in [Principals -> Nat] /\ global_bytes \in Nat
  BY BalancedTypes DEF AccountsInv, Books
<1> QED
  BY <1>1, <1>2 DEF BatchesInv, WellKept, TypeOK

LEMMA AccountsAlways == Spec => [](PutInv /\ AccountsInv)
<1>1. Init => PutInv /\ AccountsInv
  BY PutInit, AccountsInit
<1>2. PutInv /\ AccountsInv /\ [Next]_vars => PutInv' /\ AccountsInv'
  BY PutInvStep, AccountsStep
<1> QED
  BY <1>1, <1>2, PTL DEF Spec

\* Every state of the store is well typed: in particular no counter ever goes below
\* zero, although the one of all bytes is counted down without a check
\* (_remove_key_locked).
THEOREM TypeCorrect == Spec => []TypeOK
<1>1. PutInv /\ AccountsInv => TypeOK
  BY TypesMatch DEF PutInv
<1> QED
  BY <1>1, AccountsAlways, PTL

\* After any sequence of puts, replacements, evictions, expiries and clears, of any
\* number of threads, the four counters are what is really in the store, and none of
\* the five limits is passed (_put_many, _remove_key_locked).
THEOREM AccountsCorrect == Spec => []AccountsBalance
<1>1. PutInv /\ AccountsInv => AccountsBalance
  BY AccountsMatch
<1> QED
  BY <1>1, AccountsAlways, PTL
=============================================================================
