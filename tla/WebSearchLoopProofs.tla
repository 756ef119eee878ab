------------------------ MODULE WebSearchLoopProofs ------------------------
(***************************************************************************)
(* Proofs about WebSearchLoop, for any number of rounds, any number of     *)
(* chunks in a round and any size of the phase buffer.                     *)
(***************************************************************************)
EXTENDS WebSearchLoop, SequenceTheorems, WellFoundedInduction, TLAPS

-----------------------------------------------------------------------------
(* Induction up to a number.  The property is given as the set of those that *)
(* have it. *)

\* A non-empty set of numbers has a least one.
LEMMA LeastOf ==
    ASSUME NEW T \in SUBSET Nat, T # {}
    PROVE  \E n \in T : \A m \in T : n <= m
<1>1. PICK n \in T : \A m \in T : <<m, n>> \notin OpToRel(<, Nat)
  BY NatLessThanWellFounded, WFMin
<1>2. \A m \in T : ~(m < n)
  BY <1>1 DEF OpToRel
<1> QED
  BY <1>2

\* What holds of 0, and of a number when it holds of the one before, holds up to n.
LEMMA PrefixInduction ==
    ASSUME NEW n \in Nat, NEW Good, 0 \in Good,
           \A i \in 1..n : i - 1 \in Good => i \in Good
    PROVE  \A i \in 0..n : i \in Good
<1> DEFINE Bad == (0..n) \ Good
<1> SUFFICES ASSUME Bad # {}
             PROVE  FALSE
  OBVIOUS
<1>1. PICK i \in Bad : \A j \in Bad : i <= j
  <2>1. Bad \in SUBSET Nat
    OBVIOUS
  <2> HIDE DEF Bad
  <2> QED
    BY <2>1, LeastOf
<1>2. i \in 1..n /\ i - 1 \in 0..n /\ ~(i <= i - 1)
  BY <1>1
<1> QED
  BY <1>1, <1>2

-----------------------------------------------------------------------------
(* Some of the elements of a sequence.  Select and Reported both take, for  *)
(* the positions in a set H, one value each: that is Picked.                *)

IsPick(F, H, v, n) ==
    F = [k \in 0..n |-> IF k = 0 THEN <<>>
                        ELSE IF k \in H THEN Append(F[k - 1], v[k]) ELSE F[k - 1]]
Picked(H, v, n) == (CHOOSE F : IsPick(F, H, v, n))[n]

\* Only the positions up to the last one count.
LEMMA PickSame ==
    ASSUME NEW H, NEW v, NEW G, NEW w, NEW n \in Nat, NEW F,
           \A k \in 1..n : (k \in H <=> k \in G) /\ (k \in H => v[k] = w[k])
    PROVE  IsPick(F, H, v, n) <=> IsPick(F, G, w, n)
<1>1. \A k \in 0..n : k # 0 => k \in 1..n
  OBVIOUS
<1>2. [k \in 0..n |-> IF k = 0 THEN <<>>
                      ELSE IF k \in H THEN Append(F[k - 1], v[k]) ELSE F[k - 1]]
    = [k \in 0..n |-> IF k = 0 THEN <<>>
                      ELSE IF k \in G THEN Append(F[k - 1], w[k]) ELSE F[k - 1]]
  BY <1>1
<1> QED
  BY <1>2 DEF IsPick

LEMMA PickedSame ==
    ASSUME NEW H, NEW v, NEW G, NEW w, NEW n \in Nat,
           \A k \in 1..n : (k \in H <=> k \in G) /\ (k \in H => v[k] = w[k])
    PROVE  Picked(H, v, n) = Picked(G, w, n)
<1>1. \A F : IsPick(F, H, v, n) <=> IsPick(F, G, w, n)
  BY PickSame
<1> QED
  BY <1>1 DEF Picked

\* What a pick is, position by position.
LEMMA PickFacts ==
    ASSUME NEW F, NEW H, NEW v, NEW n \in Nat, IsPick(F, H, v, n)
    PROVE  /\ F[0] = <<>>
           /\ \A k \in 1..n : F[k] = IF k \in H THEN Append(F[k - 1], v[k]) ELSE F[k - 1]
<1>1. \A k \in 0..n : F[k] = IF k = 0 THEN <<>>
                             ELSE IF k \in H THEN Append(F[k - 1], v[k]) ELSE F[k - 1]
  <2>1. F = [k \in 0..n |-> IF k = 0 THEN <<>>
                 ELSE IF k \in H THEN Append(F[k - 1], v[k]) ELSE F[k - 1]]
    BY DEF IsPick
  <2> QED
    BY <2>1
<1>2. 0 \in 0..n /\ \A k \in 1..n : k \in 0..n /\ k # 0
  OBVIOUS
<1> QED
  BY <1>1, <1>2

\* One position more.
LEMMA PickMore ==
    ASSUME NEW H, NEW v, NEW n \in Nat, NEW F, IsPick(F, H, v, n)
    PROVE  \E G : IsPick(G, H, v, n + 1)
<1> DEFINE m == n + 1
           G == [k \in 0..m |-> IF k = 0 THEN <<>>
                    ELSE IF k \in H THEN Append(F[k - 1], v[k]) ELSE F[k - 1]]
<1>1. m \in Nat /\ \A k \in 0..m : k # 0 => k - 1 \in 0..n /\ k - 1 \in 0..m
  OBVIOUS
<1>2. \A k \in 0..n : k \in 0..m /\ G[k] = F[k]
  <2>1. \A k \in 0..n : k \in 0..m /\ (k # 0 => k \in 1..n)
    OBVIOUS
  <2>2. \A k \in 0..n : G[k] = IF k = 0 THEN <<>>
                    ELSE IF k \in H THEN Append(F[k - 1], v[k]) ELSE F[k - 1]
    BY <2>1
  <2> HIDE DEF G
  <2> QED
    BY <2>1, <2>2, PickFacts
<1>3. \A k \in 0..m : k # 0 => G[k - 1] = F[k - 1]
  <2> HIDE DEF G, m
  <2> QED
    BY <1>1, <1>2
<1>4. G = [k \in 0..m |-> IF k = 0 THEN <<>>
                 ELSE IF k \in H THEN Append(G[k - 1], v[k]) ELSE G[k - 1]]
  BY <1>3
<1> HIDE DEF G
<1> QED
  BY <1>4 DEF IsPick

LEMMA PickExists ==
    ASSUME NEW H, NEW v, NEW n \in Nat
    PROVE  IsPick(CHOOSE F : IsPick(F, H, v, n), H, v, n)
<1> DEFINE Good == {m \in 0..n : \E F : IsPick(F, H, v, m)}
<1>1. 0 \in Good
  <2>1. IsPick([k \in 0..0 |-> <<>>], H, v, 0)
    BY DEF IsPick
  <2> QED
    BY <2>1
<1>2. ASSUME NEW m \in 1..n, m - 1 \in Good
      PROVE  m \in Good
  <2>1. m - 1 \in Nat /\ m - 1 + 1 = m /\ m \in 0..n
    OBVIOUS
  <2>2. \E F : IsPick(F, H, v, m - 1)
    BY <1>2
  <2>3. \E G : IsPick(G, H, v, m - 1 + 1)
    BY <2>1, <2>2, PickMore
  <2> QED
    BY <2>1, <2>3
<1>3. n \in Good
  <2> HIDE DEF Good
  <2>1. \A m \in 0..n : m \in Good
    BY <1>1, <1>2, PrefixInduction
  <2> QED
    BY <2>1
<1>4. \E F : IsPick(F, H, v, n)
  BY <1>3
<1> QED
  BY <1>4

\* Two picks agree where both are defined.
LEMMA PicksAgree ==
    ASSUME NEW H, NEW v, NEW n \in Nat, NEW m \in 0..n, NEW F, NEW G,
           IsPick(F, H, v, m), IsPick(G, H, v, n)
    PROVE  F[m] = G[m]
<1> DEFINE Good == {k \in 0..m : F[k] = G[k]}
<1>1. m \in Nat /\ m \in 0..m /\ 0 \in 0..m /\ \A k \in 1..m : k \in 1..n /\ k \in 0..m
  OBVIOUS
<1>2. 0 \in Good
  BY <1>1, PickFacts
<1>3. ASSUME NEW k \in 1..m, k - 1 \in Good
      PROVE  k \in Good
  <2>1. F[k] = IF k \in H THEN Append(F[k - 1], v[k]) ELSE F[k - 1]
    BY <1>1, PickFacts
  <2>2. G[k] = IF k \in H THEN Append(G[k - 1], v[k]) ELSE G[k - 1]
    BY <1>1, PickFacts
  <2> QED
    BY <1>1, <1>3, <2>1, <2>2
<1>4. \A k \in 0..m : k \in Good
  <2> HIDE DEF Good
  <2> QED
    BY <1>1, <1>2, <1>3, PrefixInduction
<1> QED
  BY <1>1, <1>4

LEMMA PickedStep ==
    ASSUME NEW H, NEW v, NEW n \in Nat
    PROVE  Picked(H, v, n + 1) = IF n + 1 \in H THEN Append(Picked(H, v, n), v[n + 1])
                                 ELSE Picked(H, v, n)
<1> DEFINE F == CHOOSE f : IsPick(f, H, v, n)
           G == CHOOSE f : IsPick(f, H, v, n + 1)
<1>1. IsPick(F, H, v, n) /\ IsPick(G, H, v, n + 1) /\ n + 1 \in Nat
  BY PickExists
<1>2. Picked(H, v, n) = F[n] /\ Picked(H, v, n + 1) = G[n + 1]
  BY DEF Picked
<1> HIDE DEF F, G
<1>3. n \in 0..n + 1 /\ n + 1 \in 1..n + 1 /\ n + 1 - 1 = n
  OBVIOUS
<1>4. F[n] = G[n]
  BY <1>1, <1>3, PicksAgree
<1>5. G[n + 1] = IF n + 1 \in H THEN Append(G[n + 1 - 1], v[n + 1]) ELSE G[n + 1 - 1]
  BY <1>1, <1>3, PickFacts
<1> QED
  BY <1>2, <1>3, <1>4, <1>5

LEMMA PickedNothing == ASSUME NEW H, NEW v PROVE Picked(H, v, 0) = <<>>
  BY PickExists, PickFacts DEF Picked

\* The step once more, downwards.
LEMMA PickedLast ==
    ASSUME NEW H, NEW v, NEW k \in Nat, k # 0
    PROVE  Picked(H, v, k) = IF k \in H THEN Append(Picked(H, v, k - 1), v[k])
                             ELSE Picked(H, v, k - 1)
<1>1. k - 1 \in Nat /\ k - 1 + 1 = k
  OBVIOUS
<1>2. Picked(H, v, k - 1 + 1) = IF k - 1 + 1 \in H THEN Append(Picked(H, v, k - 1), v[k - 1 + 1])
                                ELSE Picked(H, v, k - 1)
  BY <1>1, PickedStep
<1> QED
  BY <1>1, <1>2

\* Where nothing is picked, nothing changes.
LEMMA PickedNone ==
    ASSUME NEW H, NEW v, NEW n \in Nat, NEW m \in 0..n, \A k \in m + 1..n : k \notin H
    PROVE  Picked(H, v, n) = Picked(H, v, m)
<1> DEFINE Good == {k \in 0..n : k >= m => Picked(H, v, k) = Picked(H, v, m)}
<1>0. m \in Nat /\ m <= n
  OBVIOUS
<1>1. 0 \in Good
  <2>1. 0 \in 0..n /\ (0 >= m => m = 0)
    BY <1>0
  <2> QED
    BY <2>1
<1>2. ASSUME NEW k \in 1..n, k - 1 \in Good
      PROVE  k \in Good
  <2>1. k \in 0..n /\ k \in Nat /\ k # 0 /\ (k >= m => k = m \/ (k - 1 >= m /\ k \in m + 1..n))
    BY <1>0
  <2>2. CASE k - 1 >= m /\ k \in m + 1..n
    <3>1. Picked(H, v, k) = Picked(H, v, k - 1)
      BY <2>1, <2>2, PickedLast
    <3> QED
      BY <1>2, <2>1, <2>2, <3>1
  <2>3. CASE k = m
    BY <2>1, <2>3
  <2>4. CASE ~(k >= m)
    BY <2>1, <2>4
  <2> QED
    BY <2>1, <2>2, <2>3, <2>4
<1>3. \A k \in 0..n : k \in Good
  <2> HIDE DEF Good
  <2> QED
    BY <1>1, <1>2, PrefixInduction
<1>4. n \in 0..n /\ n >= m
  BY <1>0
<1> QED
  BY <1>3, <1>4

\* No more values than positions, the values of the picked positions among the
\* first m and no others, none of them twice if those up to n are different, and
\* every value if every position up to n is picked.
Gathered(p, H, v, n, m, T) ==
    /\ p \in Seq(T)
    /\ Len(p) <= m
    /\ \A i \in 1..Len(p) : \E k \in 1..m : k \in H /\ v[k] = p[i]
    /\ \A k \in 1..m : k \in H => \E i \in 1..Len(p) : p[i] = v[k]
    /\ (\A j, k \in 1..n : j \in H /\ k \in H /\ v[j] = v[k] => j = k)
          => \A i, j \in 1..Len(p) : p[i] = p[j] => i = j
    /\ (\A k \in 1..n : k \in H) => Len(p) = m /\ \A i \in 1..m : p[i] = v[i]

LEMMA PickedFacts ==
    ASSUME NEW H, NEW v, NEW n \in Nat, NEW T, \A k \in 1..n : k \in H => v[k] \in T
    PROVE  Gathered(Picked(H, v, n), H, v, n, n, T)
<1> DEFINE Ok(p, m) == Gathered(p, H, v, n, m, T)
           Good == {m \in 0..n : Ok(Picked(H, v, m), m)}
<1> USE DEF Gathered
<1>1. 0 \in Good
  <2> DEFINE p == Picked(H, v, 0)
  <2>1. p = <<>>
    BY PickedNothing
  <2>2. Len(<<>>) = 0 /\ 0 \in 0..n /\ 1..0 = {} /\ <<>> \in Seq(T)
    OBVIOUS
  <2> HIDE DEF p
  <2>3. Ok(p, 0)
    BY <2>1, <2>2
  <2> HIDE DEF Ok
  <2> USE DEF p
  <2> QED
    BY <2>2, <2>3
<1>2. ASSUME NEW m \in 1..n, m - 1 \in Good
      PROVE  m \in Good
  <2> DEFINE p == Picked(H, v, m - 1)
             x == v[m]
             q == Picked(H, v, m)
  <2>1. m \in Nat /\ m \in 0..n /\ m # 0 /\ m - 1 \in Nat
    OBVIOUS
  <2>2. Ok(p, m - 1) /\ (m \in H => x \in T)
    BY <1>2
  <2>3. q = IF m \in H THEN Append(p, x) ELSE p
    BY <2>1, PickedLast
  <2>4. x = v[m]
    OBVIOUS
  <2> HIDE DEF p, x, q
  <2>5. ASSUME m \in H
        PROVE  Ok(q, m)
    <3> DEFINE l == Len(p)
    <3>1. /\ q \in Seq(T) /\ Len(q) = l + 1 /\ q[l + 1] = x
          /\ \A i \in 1..l : q[i] = p[i]
      BY <2>2, <2>3, <2>5, AppendProperties
    <3>2. l \in Nat /\ l <= m - 1
      BY <2>2
    <3>3. \A i \in 1..l + 1 : i \in 1..l \/ i = l + 1
      BY <3>2
    <3>4. \A i \in 1..l : i \in 1..l + 1
      BY <3>2
    <3>5. \A k \in 1..m : k \in 1..m - 1 \/ k = m
      BY <2>1
    <3>6. \A k \in 1..m - 1 : k \in 1..m /\ k \in 1..n /\ k # m
      BY <2>1
    <3>7. l + 1 \in 1..l + 1 /\ m \in 1..m /\ m \in 1..n
      BY <3>2, <2>1
    <3> HIDE DEF l
    <3>8. \A i \in 1..Len(q) : \E k \in 1..m : k \in H /\ v[k] = q[i]
      <4> TAKE i \in 1..Len(q)
      <4>1. CASE i \in 1..l
        <5>1. \E k \in 1..m - 1 : k \in H /\ v[k] = p[i]
          BY <2>2, <4>1 DEF l
        <5> QED
          BY <3>1, <3>6, <4>1, <5>1
      <4>2. CASE i = l + 1
        BY <2>4, <2>5, <3>1, <3>7, <4>2
      <4> QED
        BY <3>1, <3>3, <4>1, <4>2
    <3>9. \A k \in 1..m : k \in H => \E i \in 1..Len(q) : q[i] = v[k]
      <4> TAKE k \in 1..m
      <4> HAVE k \in H
      <4>1. CASE k \in 1..m - 1
        <5>1. \E i \in 1..l : p[i] = v[k]
          BY <2>2, <4>1 DEF l
        <5> QED
          BY <3>1, <3>4, <5>1
      <4>2. CASE k = m
        BY <2>4, <3>1, <3>7, <4>2
      <4> QED
        BY <3>5, <4>1, <4>2
    <3>10. ASSUME \A j, k \in 1..n : j \in H /\ k \in H /\ v[j] = v[k] => j = k
           PROVE  \A i, j \in 1..Len(q) : q[i] = q[j] => i = j
      <4>1. \A i, j \in 1..l : p[i] = p[j] => i = j
        BY <2>2, <3>10 DEF l
      <4>2. \A i \in 1..l : p[i] # x
        <5> TAKE i \in 1..l
        <5>1. PICK k \in 1..m - 1 : k \in H /\ v[k] = p[i]
          BY <2>2 DEF l
        <5> QED
          BY <2>4, <2>5, <3>6, <3>7, <3>10, <5>1
      <4> QED
        BY <3>1, <3>3, <4>1, <4>2
    <3>11. ASSUME \A k \in 1..n : k \in H
           PROVE  Len(q) = m /\ \A i \in 1..m : q[i] = v[i]
      <4>1. l = m - 1 /\ \A i \in 1..m - 1 : p[i] = v[i]
        BY <2>2, <3>11 DEF l
      <4>2. l + 1 = m
        BY <2>1, <4>1
      <4> QED
        BY <2>4, <3>1, <3>5, <4>1, <4>2
    <3>12. Len(q) <= m
      BY <2>1, <3>1, <3>2
    <3> QED
      BY <3>1, <3>8, <3>9, <3>10, <3>11, <3>12
  <2>6. ASSUME m \notin H
        PROVE  Ok(q, m)
    <3>1. q = p
      BY <2>3, <2>6
    <3>2. \A k \in 1..m : k \in 1..m - 1 \/ k = m
      BY <2>1
    <3>3. \A k \in 1..m - 1 : k \in 1..m
      BY <2>1
    <3>4. m \in 1..n /\ (Len(p) <= m - 1 => Len(p) <= m)
      BY <2>1, <2>2
    <3> QED
      BY <2>2, <2>6, <3>1, <3>2, <3>3, <3>4
  <2>7. Ok(q, m)
    BY <2>5, <2>6
  <2> HIDE DEF Ok
  <2> USE DEF q
  <2> QED
    BY <2>1, <2>7
<1>3. \A m \in 0..n : m \in Good
  <2> HIDE DEF Good
  <2> QED
    BY <1>1, <1>2, PrefixInduction
<1>4. n \in 0..n
  OBVIOUS
<1>5. Ok(Picked(H, v, n), n)
  <2> HIDE DEF Ok
  <2> QED
    BY <1>3, <1>4
<1> QED
  BY <1>5

\* The same, a fact at a time.
LEMMA PickedType ==
    ASSUME NEW H, NEW v, NEW n \in Nat, NEW T, \A k \in 1..n : k \in H => v[k] \in T
    PROVE  Picked(H, v, n) \in Seq(T) /\ Len(Picked(H, v, n)) <= n
<1>1. Gathered(Picked(H, v, n), H, v, n, n, T)
  BY PickedFacts
<1> QED
  BY <1>1 DEF Gathered

LEMMA PickedFrom ==
    ASSUME NEW H, NEW v, NEW n \in Nat, NEW i \in 1..Len(Picked(H, v, n))
    PROVE  \E k \in 1..n : k \in H /\ v[k] = Picked(H, v, n)[i]
<1> DEFINE T == {v[k] : k \in 1..n}
<1>1. \A k \in 1..n : k \in H => v[k] \in T
  OBVIOUS
<1> HIDE DEF T
<1>2. Gathered(Picked(H, v, n), H, v, n, n, T)
  BY <1>1, PickedFacts
<1> QED
  BY <1>2 DEF Gathered

LEMMA PickedAt ==
    ASSUME NEW H, NEW v, NEW n \in Nat, NEW k \in 1..n, k \in H
    PROVE  \E i \in 1..Len(Picked(H, v, n)) : Picked(H, v, n)[i] = v[k]
<1> DEFINE T == {v[j] : j \in 1..n}
<1>1. \A j \in 1..n : j \in H => v[j] \in T
  OBVIOUS
<1> HIDE DEF T
<1>2. Gathered(Picked(H, v, n), H, v, n, n, T)
  BY <1>1, PickedFacts
<1> QED
  BY <1>2 DEF Gathered

LEMMA PickedApart ==
    ASSUME NEW H, NEW v, NEW n \in Nat,
           \A j, k \in 1..n : j \in H /\ k \in H /\ v[j] = v[k] => j = k
    PROVE  \A i, j \in 1..Len(Picked(H, v, n)) : Picked(H, v, n)[i] = Picked(H, v, n)[j] => i = j
<1> DEFINE T == {v[j] : j \in 1..n}
<1>1. \A j \in 1..n : j \in H => v[j] \in T
  OBVIOUS
<1> HIDE DEF T
<1>2. Gathered(Picked(H, v, n), H, v, n, n, T)
  BY <1>1, PickedFacts
<1> QED
  BY <1>2 DEF Gathered

LEMMA PickedAll ==
    ASSUME NEW H, NEW v, NEW n \in Nat, \A k \in 1..n : k \in H
    PROVE  Len(Picked(H, v, n)) = n /\ \A i \in 1..n : Picked(H, v, n)[i] = v[i]
<1> DEFINE T == {v[j] : j \in 1..n}
<1>1. \A j \in 1..n : j \in H => v[j] \in T
  OBVIOUS
<1> HIDE DEF T
<1>2. Gathered(Picked(H, v, n), H, v, n, n, T)
  BY <1>1, PickedFacts
<1> QED
  BY <1>2 DEF Gathered

-----------------------------------------------------------------------------
(* Select: the elements of a sequence that are in a set. *)

LEMMA SelectIsPicked ==
    ASSUME NEW seq, Len(seq) \in Nat, NEW S
    PROVE  Select(seq, S) = Picked({k \in 1..Len(seq) : seq[k] \in S}, seq, Len(seq))
<1> DEFINE n == Len(seq)
           H == {k \in 1..n : seq[k] \in S}
           Is(F) == F = [k \in 0..n |-> IF k = 0 THEN <<>>
                          ELSE IF seq[k] \in S THEN Append(F[k - 1], seq[k]) ELSE F[k - 1]]
<1>1. \A F : Is(F) <=> IsPick(F, H, seq, n)
  <2> TAKE F
  <2>1. \A k \in 0..n : k # 0 => k \in 1..n
    OBVIOUS
  <2>2. [k \in 0..n |-> IF k = 0 THEN <<>>
            ELSE IF seq[k] \in S THEN Append(F[k - 1], seq[k]) ELSE F[k - 1]]
        = [k \in 0..n |-> IF k = 0 THEN <<>>
            ELSE IF k \in H THEN Append(F[k - 1], seq[k]) ELSE F[k - 1]]
    BY <2>1
  <2> HIDE DEF H, n
  <2> QED
    BY <2>2 DEF IsPick
<1>2. (CHOOSE F : Is(F)) = (CHOOSE F : IsPick(F, H, seq, n))
  <2> HIDE DEF H, Is, n
  <2> QED
    BY <1>1
<1>3. Select(seq, S) = (CHOOSE F : Is(F))[n]
  BY Zenon DEF Select
<1> QED
  BY <1>2, <1>3, Zenon DEF Picked

\* Select keeps the elements in S and no others, none of them twice if the
\* sequence has none twice; and all of them if they are all in S.
LEMMA SelectFacts ==
    ASSUME NEW T, NEW seq \in Seq(T), NEW S
    PROVE  /\ Select(seq, S) \in Seq(T \cap S)
           /\ Len(Select(seq, S)) <= Len(seq)
           /\ \A i \in 1..Len(Select(seq, S)) : \E k \in 1..Len(seq) : seq[k] = Select(seq, S)[i]
           /\ \A k \in 1..Len(seq) :
                  seq[k] \in S => \E i \in 1..Len(Select(seq, S)) : Select(seq, S)[i] = seq[k]
           /\ IsInjective(seq) => IsInjective(Select(seq, S))
           /\ (\A k \in 1..Len(seq) : seq[k] \in S) => Select(seq, S) = seq
<1> DEFINE n == Len(seq)
           H == {k \in 1..n : seq[k] \in S}
           p == Picked(H, seq, n)
           R == T \cap S
<1>1. n \in Nat /\ DOMAIN seq = 1..n /\ \A k \in 1..n : seq[k] \in T
  BY LenProperties, ElementOfSeq
<1>2. p = Select(seq, S)
  BY <1>1, SelectIsPicked
<1>3. \A k \in 1..n : k \in H => seq[k] \in R
  BY <1>1
<1>4. \A k \in 1..n : k \in H <=> seq[k] \in S
  OBVIOUS
<1>5. /\ p \in Seq(R)
      /\ Len(p) <= n
      /\ \A i \in 1..Len(p) : \E k \in 1..n : k \in H /\ seq[k] = p[i]
      /\ \A k \in 1..n : k \in H => \E i \in 1..Len(p) : p[i] = seq[k]
  <2> HIDE DEF n, H, R
  <2>1. n \in Nat /\ \A k \in 1..n : k \in H => seq[k] \in R
    BY <1>1, <1>3
  <2>2. Picked(H, seq, n) \in Seq(R) /\ Len(Picked(H, seq, n)) <= n
    BY <2>1, PickedType
  <2>3. \A i \in 1..Len(Picked(H, seq, n)) : \E k \in 1..n : k \in H /\ seq[k] = Picked(H, seq, n)[i]
    BY <2>1, PickedFrom
  <2>4. \A k \in 1..n : k \in H => \E i \in 1..Len(Picked(H, seq, n)) : Picked(H, seq, n)[i] = seq[k]
    BY <2>1, PickedAt
  <2> QED
    BY <2>2, <2>3, <2>4
<1>6. IsInjective(seq) => \A i, j \in 1..Len(p) : p[i] = p[j] => i = j
  <2> SUFFICES ASSUME IsInjective(seq)
               PROVE  \A i, j \in 1..Len(p) : p[i] = p[j] => i = j
    OBVIOUS
  <2>1. n \in Nat /\ \A j, k \in 1..n : j \in H /\ k \in H /\ seq[j] = seq[k] => j = k
    BY <1>1 DEF IsInjective
  <2> HIDE DEF n, H
  <2> QED
    BY <2>1, PickedApart
<1>7. ASSUME \A k \in 1..n : seq[k] \in S
      PROVE  Len(p) = n /\ \A i \in 1..n : p[i] = seq[i]
  <2>1. n \in Nat /\ \A k \in 1..n : k \in H
    BY <1>1, <1>7
  <2> HIDE DEF n, H
  <2> QED
    BY <2>1, PickedAll
<1> HIDE DEF p, H
<1>8. DOMAIN p = 1..Len(p) /\ p \in Seq(T)
  <2>1. p \in Seq(R)
    BY <1>5
  <2>2. R \subseteq T
    OBVIOUS
  <2> HIDE DEF R
  <2> QED
    BY <2>1, <2>2, LenProperties, SeqMonotonic
<1>9. IsInjective(seq) => IsInjective(p)
  BY <1>6, <1>8 DEF IsInjective
<1>10. (\A k \in 1..n : seq[k] \in S) => p = seq
  <2> SUFFICES ASSUME \A k \in 1..n : seq[k] \in S
               PROVE  p = seq
    OBVIOUS
  <2>1. Len(p) = Len(seq) /\ \A i \in 1..Len(p) : p[i] = seq[i]
    BY <1>7
  <2> QED
    BY <1>8, <2>1, SeqEqual
<1> QED
  BY <1>2, <1>4, <1>5, <1>9, <1>10

LEMMA SelectAll ==
    ASSUME NEW T, NEW seq \in Seq(T), NEW S, \A k \in 1..Len(seq) : seq[k] \in S
    PROVE  Select(seq, S) = seq
<1>1. (\A k \in 1..Len(seq) : seq[k] \in S) => Select(seq, S) = seq
  BY SelectFacts, Zenon
<1> QED
  BY <1>1

-----------------------------------------------------------------------------
(* Reported: the outcomes of searches that a sequence of events reports. *)

Outcome(e) == [item |-> e.item, status |-> e.status]
OutcomesOf(seq) == [k \in 1..Len(seq) |-> Outcome(seq[k])]
ReportsOf(seq) == {k \in 1..Len(seq) : Reports(seq[k])}

LEMMA ReportedIsPicked ==
    ASSUME NEW seq, Len(seq) \in Nat
    PROVE  Reported(seq) = Picked(ReportsOf(seq), OutcomesOf(seq), Len(seq))
<1> DEFINE n == Len(seq)
           H == ReportsOf(seq)
           v == OutcomesOf(seq)
           Is(F) == F = [k \in 0..n |-> IF k = 0 THEN <<>>
                          ELSE IF Reports(seq[k])
                          THEN Append(F[k - 1], [item |-> seq[k].item, status |-> seq[k].status])
                          ELSE F[k - 1]]
<1>1. \A F : Is(F) <=> IsPick(F, H, v, n)
  <2> TAKE F
  <2>1. \A k \in 0..n : k # 0 => k \in 1..n
    OBVIOUS
  <2>2. \A k \in 1..n : /\ k \in H <=> Reports(seq[k])
                        /\ v[k] = [item |-> seq[k].item, status |-> seq[k].status]
    BY DEF ReportsOf, OutcomesOf, Outcome
  <2> HIDE DEF H, v, n
  <2>3. [k \in 0..n |-> IF k = 0 THEN <<>>
            ELSE IF Reports(seq[k])
            THEN Append(F[k - 1], [item |-> seq[k].item, status |-> seq[k].status])
            ELSE F[k - 1]]
        = [k \in 0..n |-> IF k = 0 THEN <<>>
            ELSE IF k \in H THEN Append(F[k - 1], v[k]) ELSE F[k - 1]]
    BY <2>1, <2>2
  <2> QED
    BY <2>3 DEF IsPick
<1>2. (CHOOSE F : Is(F)) = (CHOOSE F : IsPick(F, H, v, n))
  <2> HIDE DEF H, v, Is, n
  <2> QED
    BY <1>1
<1>3. Reported(seq) = (CHOOSE F : Is(F))[n]
  BY Zenon DEF Reported
<1> QED
  BY <1>2, <1>3, Zenon DEF Picked

LEMMA ReportedEmpty == Reported(<<>>) = <<>>
<1>1. Len(<<>>) = 0 /\ Len(<<>>) \in Nat
  OBVIOUS
<1> QED
  BY <1>1, ReportedIsPicked, PickedNothing

\* One event more.
LEMMA ReportedAppend ==
    ASSUME NEW T, NEW seq \in Seq(T), NEW e \in T
    PROVE  Reported(Append(seq, e)) = IF Reports(e) THEN Append(Reported(seq), Outcome(e))
                                      ELSE Reported(seq)
<1> DEFINE s == Append(seq, e)
           n == Len(seq)
<1>1. n \in Nat /\ n + 1 \in Nat /\ Len(s) = n + 1 /\ s[n + 1] = e /\ \A k \in 1..n : s[k] = seq[k]
  BY AppendProperties, LenProperties
<1>2. n + 1 \in 1..n + 1 /\ \A k \in 1..n : k \in 1..n + 1
  BY <1>1
<1> HIDE DEF s, n
<1>3. Reported(s) = Picked(ReportsOf(s), OutcomesOf(s), n + 1)
  BY <1>1, ReportedIsPicked
<1>4. Reported(seq) = Picked(ReportsOf(seq), OutcomesOf(seq), n)
  BY <1>1, ReportedIsPicked DEF n
<1>5. Picked(ReportsOf(s), OutcomesOf(s), n) = Picked(ReportsOf(seq), OutcomesOf(seq), n)
  <2>1. \A k \in 1..n : /\ k \in ReportsOf(s) <=> k \in ReportsOf(seq)
                        /\ OutcomesOf(s)[k] = OutcomesOf(seq)[k]
    BY <1>1, <1>2 DEF ReportsOf, OutcomesOf, n
  <2> QED
    BY <1>1, <2>1, PickedSame
<1>6. Picked(ReportsOf(s), OutcomesOf(s), n + 1)
        = IF n + 1 \in ReportsOf(s) THEN Append(Picked(ReportsOf(s), OutcomesOf(s), n), OutcomesOf(s)[n + 1])
          ELSE Picked(ReportsOf(s), OutcomesOf(s), n)
  BY <1>1, PickedStep
<1>7. (n + 1 \in ReportsOf(s) <=> Reports(e)) /\ OutcomesOf(s)[n + 1] = Outcome(e)
  BY <1>1, <1>2 DEF ReportsOf, OutcomesOf
<1>8. Reported(s) = IF Reports(e) THEN Append(Reported(seq), Outcome(e)) ELSE Reported(seq)
  BY <1>3, <1>4, <1>5, <1>6, <1>7
<1> QED
  BY <1>8 DEF s

\* A prefix with every report in it reports the same.
LEMMA ReportedPrefix ==
    ASSUME NEW T, NEW seq \in Seq(T), NEW m \in 0..Len(seq),
           \A k \in m + 1..Len(seq) : ~Reports(seq[k]),
           NEW t \in Seq(T), Len(t) = m, \A k \in 1..m : t[k] = seq[k]
    PROVE  Reported(t) = Reported(seq)
<1> DEFINE n == Len(seq)
<1>1. n \in Nat /\ m \in 0..n /\ m \in Nat /\ m <= n /\ n = Len(seq)
  BY LenProperties
<1> HIDE DEF n
<1>2. \A k \in 1..m : k \in 1..n
  BY <1>1
<1>3. \A k \in 1..m : /\ k \in ReportsOf(t) <=> k \in ReportsOf(seq)
                      /\ OutcomesOf(t)[k] = OutcomesOf(seq)[k]
  BY <1>1, <1>2 DEF ReportsOf, OutcomesOf
<1>4. Picked(ReportsOf(t), OutcomesOf(t), m) = Picked(ReportsOf(seq), OutcomesOf(seq), m)
  BY <1>1, <1>3, PickedSame
<1>5. Picked(ReportsOf(seq), OutcomesOf(seq), n) = Picked(ReportsOf(seq), OutcomesOf(seq), m)
  <2>1. \A k \in m + 1..n : k \notin ReportsOf(seq)
    BY <1>1 DEF ReportsOf
  <2> QED
    BY <1>1, <2>1, PickedNone
<1>6. Reported(seq) = Picked(ReportsOf(seq), OutcomesOf(seq), n)
  BY <1>1, ReportedIsPicked
<1>7. Reported(t) = Picked(ReportsOf(t), OutcomesOf(t), m)
  BY <1>1, ReportedIsPicked
<1> QED
  BY <1>4, <1>5, <1>6, <1>7

\* The reports are those of the sequence.
LEMMA ReportedFacts ==
    ASSUME NEW T, NEW seq \in Seq(T), NEW R, \A k \in 1..Len(seq) : Reports(seq[k]) => Outcome(seq[k]) \in R
    PROVE  /\ Reported(seq) \in Seq(R)
           /\ \A i \in 1..Len(Reported(seq)) :
                \E k \in 1..Len(seq) : Reports(seq[k]) /\ Reported(seq)[i] = Outcome(seq[k])
           /\ \A k \in 1..Len(seq) :
                Reports(seq[k]) => \E i \in 1..Len(Reported(seq)) : Reported(seq)[i] = Outcome(seq[k])
<1> DEFINE n == Len(seq)
           H == ReportsOf(seq)
           v == OutcomesOf(seq)
<1>1. n \in Nat
  BY LenProperties
<1>2. Reported(seq) = Picked(H, v, n)
  BY <1>1, ReportedIsPicked
<1>3. \A k \in 1..n : (k \in H <=> Reports(seq[k])) /\ v[k] = Outcome(seq[k])
  BY DEF ReportsOf, OutcomesOf
<1>4. \A k \in 1..n : k \in H => v[k] \in R
  BY <1>3
<1> HIDE DEF n, H, v
<1>5. /\ Picked(H, v, n) \in Seq(R)
      /\ \A i \in 1..Len(Picked(H, v, n)) : \E k \in 1..n : k \in H /\ v[k] = Picked(H, v, n)[i]
      /\ \A k \in 1..n : k \in H => \E i \in 1..Len(Picked(H, v, n)) : Picked(H, v, n)[i] = v[k]
  <2>1. Picked(H, v, n) \in Seq(R)
    BY <1>1, <1>4, PickedType
  <2>2. \A i \in 1..Len(Picked(H, v, n)) : \E k \in 1..n : k \in H /\ v[k] = Picked(H, v, n)[i]
    BY <1>1, PickedFrom
  <2>3. \A k \in 1..n : k \in H => \E i \in 1..Len(Picked(H, v, n)) : Picked(H, v, n)[i] = v[k]
    BY <1>1, PickedAt
  <2> QED
    BY <2>1, <2>2, <2>3
<1> QED
  BY <1>2, <1>3, <1>5 DEF n

-----------------------------------------------------------------------------
(* Sequences of events. *)

SourceEvents ==
    [type : {"created", "added", "text", "done", "completed"},
     kind : PB!Kinds, id : Messages \cup {NoItem}, size : {1},
     item : Items \cup {NoItem}, index : Nat, status : Outcomes \cup {"none"},
     output : Seq(Results \cup {Listed(i) : i \in Items})]

\* What the fields of an event have to do with each other.
Proper(e) ==
    /\ e.type = "created" => e = Created
    /\ e.type = "completed" => e.kind \in {"completed", "completed_tool"} /\ e.item = NoItem
    /\ e.type = "text" => e.kind = "message_part" /\ e.item \in Messages /\ e.id = e.item
    /\ e.type \in {"added", "done"} =>
          /\ e.item \in Items
          /\ e.kind = KindOf(e.item)
          /\ e.id = IF e.item \in Messages THEN e.item ELSE NoItem

\* The items a sequence of events announces, or ends.
ItemsOf(seq, type) ==
    {i \in Items : \E k \in 1..Len(seq) : seq[k].type = type /\ seq[k].item = i}

Once(seq) ==
    \A j, k \in 1..Len(seq) :
        seq[j].type \in {"added", "done"} /\ seq[j].type = seq[k].type /\ seq[j].item = seq[k].item
            => j = k

\* The event k follows the one that announced its item, with its index if the
\* item is a search.
Follows(seq, k) ==
    \E j \in 1..k - 1 : /\ seq[j].type = "added" /\ seq[j].item = seq[k].item
                        /\ seq[k].item \in Searches => seq[j].index = seq[k].index

\* An orderly response.
Orderly(seq) ==
    /\ \A k \in 1..Len(seq) : Proper(seq[k])
    /\ \A k \in 1..Len(seq) : Reports(seq[k]) => seq[k].status \in Outcomes
    /\ \A k \in 1..Len(seq) : seq[k].type = "created" <=> k = 1
    /\ Once(seq)
    /\ \A k \in 1..Len(seq) : seq[k].type \in {"text", "done"} => Follows(seq, k)

LEMMA ItemsAppend ==
    ASSUME NEW seq \in Seq(SourceEvents), NEW e \in SourceEvents, NEW type
    PROVE  ItemsOf(Append(seq, e), type)
             = ItemsOf(seq, type) \cup {i \in Items : e.type = type /\ e.item = i}
<1> DEFINE s == Append(seq, e)
           n == Len(seq)
<1>1. n \in Nat /\ Len(s) = n + 1 /\ s[n + 1] = e /\ \A k \in 1..n : s[k] = seq[k]
  BY AppendProperties, LenProperties
<1>2. n + 1 \in 1..n + 1 /\ (\A k \in 1..n : k \in 1..n + 1)
      /\ \A k \in 1..n + 1 : k \in 1..n \/ k = n + 1
  BY <1>1
<1> HIDE DEF s
<1>3. ItemsOf(s, type) = ItemsOf(seq, type) \cup {i \in Items : e.type = type /\ e.item = i}
  BY <1>1, <1>2 DEF ItemsOf
<1> QED
  BY <1>3 DEF s

LEMMA ItemsTail ==
    ASSUME NEW seq \in Seq(SourceEvents), seq # <<>>, NEW type
    PROVE  ItemsOf(seq, type)
             = ItemsOf(Tail(seq), type) \cup {i \in Items : seq[1].type = type /\ seq[1].item = i}
<1> DEFINE t == Tail(seq)
           n == Len(seq)
<1>1. n \in Nat /\ n # 0 /\ Len(t) = n - 1 /\ \A k \in 1..n - 1 : t[k] = seq[k + 1]
  BY HeadTailProperties, LenProperties, EmptySeq
<1>2. 1 \in 1..n /\ (\A k \in 1..n - 1 : k + 1 \in 1..n)
      /\ \A k \in 1..n : k = 1 \/ (k - 1 \in 1..n - 1 /\ k - 1 + 1 = k)
  BY <1>1
<1> HIDE DEF t
<1>3. ASSUME NEW i \in Items
      PROVE  i \in ItemsOf(seq, type)
                <=> i \in ItemsOf(t, type) \/ (seq[1].type = type /\ seq[1].item = i)
  <2>1. ASSUME NEW k \in 1..n, seq[k].type = type, seq[k].item = i
        PROVE  i \in ItemsOf(t, type) \/ (seq[1].type = type /\ seq[1].item = i)
    <3>1. CASE k = 1
      BY <2>1, <3>1
    <3>2. CASE k - 1 \in 1..n - 1 /\ k - 1 + 1 = k
      <4>1. t[k - 1] = seq[k]
        BY <1>1, <3>2
      <4> QED
        BY <1>1, <2>1, <3>2, <4>1 DEF ItemsOf
    <3> QED
      BY <1>2, <3>1, <3>2
  <2>2. ASSUME NEW k \in 1..n - 1, t[k].type = type, t[k].item = i
        PROVE  i \in ItemsOf(seq, type)
    BY <1>1, <1>2, <2>2 DEF ItemsOf
  <2>3. seq[1].type = type /\ seq[1].item = i => i \in ItemsOf(seq, type)
    BY <1>2 DEF ItemsOf
  <2>4. i \in ItemsOf(t, type) => i \in ItemsOf(seq, type)
    BY <1>1, <2>2 DEF ItemsOf
  <2> QED
    BY <2>1, <2>3, <2>4 DEF ItemsOf
<1>4. ItemsOf(seq, type) \subseteq Items /\ ItemsOf(t, type) \subseteq Items
  BY DEF ItemsOf
<1>5. ItemsOf(seq, type) = ItemsOf(t, type) \cup {i \in Items : seq[1].type = type /\ seq[1].item = i}
  BY <1>3, <1>4
<1> QED
  BY <1>5 DEF t

\* What comes once comes once in the rest, and the first event not again.
LEMMA OnceTail ==
    ASSUME NEW seq \in Seq(SourceEvents), seq # <<>>, Once(seq)
    PROVE  /\ Once(Tail(seq))
           /\ \A type \in {"added", "done"} :
                seq[1].type = type => seq[1].item \notin ItemsOf(Tail(seq), type)
<1> DEFINE t == Tail(seq)
           n == Len(seq)
<1>1. n \in Nat /\ n # 0 /\ Len(t) = n - 1 /\ \A k \in 1..n - 1 : t[k] = seq[k + 1]
  BY HeadTailProperties, LenProperties, EmptySeq
<1>2. 1 \in 1..n /\ (\A k \in 1..n - 1 : k + 1 \in 1..n /\ k + 1 # 1)
      /\ \A j, k \in 1..n - 1 : j + 1 = k + 1 => j = k
  BY <1>1
<1> HIDE DEF t
<1>3. Once(t)
  BY <1>1, <1>2 DEF Once
<1>4. \A type \in {"added", "done"} : seq[1].type = type => seq[1].item \notin ItemsOf(t, type)
  BY <1>1, <1>2 DEF Once, ItemsOf
<1> QED
  BY <1>3, <1>4 DEF t

\* An orderly response goes on in order.
LEMMA OrderlyAppend ==
    ASSUME NEW seq \in Seq(SourceEvents), NEW e \in SourceEvents, Orderly(seq),
           Proper(e),
           Reports(e) => e.status \in Outcomes,
           e.type = "created" <=> seq = <<>>,
           e.type \in {"added", "done"} => e.item \notin ItemsOf(seq, e.type),
           e.type \in {"text", "done"} =>
               \E j \in 1..Len(seq) : /\ seq[j].type = "added" /\ seq[j].item = e.item
                                      /\ e.item \in Searches => seq[j].index = e.index
    PROVE  Orderly(Append(seq, e))
<1> DEFINE s == Append(seq, e)
           n == Len(seq)
<1>1. n \in Nat /\ Len(s) = n + 1 /\ s[n + 1] = e /\ \A k \in 1..n : s[k] = seq[k]
  BY AppendProperties, LenProperties
<1>2. n + 1 \in 1..n + 1 /\ (\A k \in 1..n : k \in 1..n + 1)
      /\ (\A k \in 1..n + 1 : k \in 1..n \/ k = n + 1)
      /\ \A k \in 1..n : k # n + 1
  BY <1>1
<1>3. seq = <<>> <=> n = 0
  BY EmptySeq, LenProperties
<1> HIDE DEF s
<1>4. \A k \in 1..Len(s) : Proper(s[k]) /\ (Reports(s[k]) => s[k].status \in Outcomes)
  BY <1>1, <1>2 DEF Orderly
<1>5. \A k \in 1..Len(s) : s[k].type = "created" <=> k = 1
  <2> TAKE k \in 1..Len(s)
  <2>1. CASE k \in 1..n
    BY <1>1, <2>1 DEF Orderly
  <2>2. CASE k = n + 1
    BY <1>1, <1>3, <2>2
  <2> QED
    BY <1>1, <1>2, <2>1, <2>2
<1>6. Once(s)
  <2>1. \A k \in 1..n : seq[k].type \in {"added", "done"} => seq[k].item \in Items
    BY DEF Orderly, Proper
  <2>2. \A k \in 1..n : e.type \in {"added", "done"} =>
            ~(seq[k].type = e.type /\ seq[k].item = e.item)
    BY <2>1 DEF ItemsOf
  <2>3. \A j, k \in 1..n :
            seq[j].type \in {"added", "done"} /\ seq[j].type = seq[k].type /\ seq[j].item = seq[k].item
                => j = k
    BY DEF Orderly, Once
  <2> HIDE DEF n
  <2>4. \A j, k \in 1..n + 1 :
            s[j].type \in {"added", "done"} /\ s[j].type = s[k].type /\ s[j].item = s[k].item
                => j = k
    <3> TAKE j, k \in 1..n + 1
    <3> HAVE s[j].type \in {"added", "done"} /\ s[j].type = s[k].type /\ s[j].item = s[k].item
    <3>1. CASE j \in 1..n /\ k \in 1..n
      BY <1>1, <2>3, <3>1
    <3>2. CASE j \in 1..n /\ k = n + 1
      BY <1>1, <2>2, <3>2
    <3>3. CASE j = n + 1 /\ k \in 1..n
      BY <1>1, <2>2, <3>3
    <3> QED
      BY <1>2, <3>1, <3>2, <3>3
  <2> QED
    BY <1>1, <2>4 DEF Once
<1>7. \A k \in 1..Len(s) : s[k].type \in {"text", "done"} => Follows(s, k)
  <2> TAKE k \in 1..Len(s)
  <2> HAVE s[k].type \in {"text", "done"}
  <2>1. CASE k \in 1..n
    <3>1. PICK j \in 1..k - 1 : /\ seq[j].type = "added" /\ seq[j].item = seq[k].item
                                /\ seq[k].item \in Searches => seq[j].index = seq[k].index
      BY <1>1, <2>1 DEF Orderly, Follows
    <3>2. j \in 1..n
      BY <1>1, <2>1
    <3> QED
      BY <1>1, <2>1, <3>1, <3>2 DEF Follows
  <2>2. CASE k = n + 1
    <3>1. PICK j \in 1..n : /\ seq[j].type = "added" /\ seq[j].item = e.item
                            /\ e.item \in Searches => seq[j].index = e.index
      BY <1>1, <2>2
    <3>2. k - 1 = n
      BY <1>1, <2>2
    <3> QED
      BY <1>1, <2>2, <3>1, <3>2 DEF Follows
  <2> QED
    BY <1>1, <1>2, <2>1, <2>2
<1>8. Orderly(s)
  BY <1>4, <1>5, <1>6, <1>7 DEF Orderly
<1> QED
  BY <1>8 DEF s

\* The searches an orderly response ends are those it reports.
LEMMA ReportedItems ==
    ASSUME NEW seq \in Seq(SourceEvents), Orderly(seq)
    PROVE  /\ Reported(seq) \in Seq(Results)
           /\ \A i \in 1..Len(Reported(seq)) :
                  Reported(seq)[i].item \in Searches \cap ItemsOf(seq, "done")
           /\ \A s \in Searches \cap ItemsOf(seq, "done") :
                  \E i \in 1..Len(Reported(seq)) : Reported(seq)[i].item = s
<1>1. \A k \in 1..Len(seq) : seq[k] \in SourceEvents
  BY ElementOfSeq
<1>2. \A k \in 1..Len(seq) : Reports(seq[k]) => Outcome(seq[k]) \in Results
  BY <1>1 DEF Orderly, Reports, Outcome, Results
<1>3. \A k \in 1..Len(seq) : Outcome(seq[k]).item = seq[k].item
  BY DEF Outcome
<1>4. Reported(seq) \in Seq(Results)
  BY <1>2, ReportedFacts
<1>5. \A i \in 1..Len(Reported(seq)) :
            \E k \in 1..Len(seq) : Reports(seq[k]) /\ Reported(seq)[i] = Outcome(seq[k])
  BY <1>2, ReportedFacts
<1>6. \A k \in 1..Len(seq) :
            Reports(seq[k]) => \E i \in 1..Len(Reported(seq)) : Reported(seq)[i] = Outcome(seq[k])
  BY <1>2, ReportedFacts
<1>7. Searches \subseteq Items
  BY DEF Items
<1> QED
  BY <1>3, <1>4, <1>5, <1>6, <1>7 DEF ItemsOf, Reports

-----------------------------------------------------------------------------
(* The phase buffer.  In these streams it delays, and never reorders: what  *)
(* it has returned and what it holds back are the events given to it, in    *)
(* their order, because an event that is returned at once belongs to no     *)
(* message, or comes when nothing is delayed any more.                      *)

Positions == 1..Len(input)
Entries == [ev : Nat, phase : PB!Phases]
Latched == commentary \/ terminal_seen \/ passthrough
Announced == ItemsOf(input, "added")
Finished == ItemsOf(input, "done")

BufferTypes ==
    /\ input \in Seq(SourceEvents)
    /\ buffer \in Seq(Nat)
    /\ output \in Seq(Entries)
    /\ commentary \in BOOLEAN /\ terminal_seen \in BOOLEAN /\ passthrough \in BOOLEAN

BufferInv ==
    /\ Len(input) = Len(output) + Len(buffer)
    /\ \A p \in 1..Len(output) : output[p].ev = p
    /\ \A b \in 1..Len(buffer) : buffer[b] = Len(output) + b
    /\ \A k \in Len(output) + 1..Len(input) : input[k].item \in Messages
    /\ buffer # <<>> => ~Latched
    /\ ~Latched => Announced \cap Messages \subseteq message_item_ids

LEMMA EntryType ==
    ASSUME NEW i \in Nat, NEW e, NEW phase \in PB!Phases
    PROVE  /\ PB!with_message_phase(i, e, phase) \in Entries
           /\ PB!with_message_phase(i, e, phase).ev = i
<1> DEFINE x == PB!with_message_phase(i, e, phase)
           q == IF PB!CarriesPhase(e) THEN phase ELSE "none"
<1>1. x = [ev |-> i, phase |-> q]
  BY DEF PB!with_message_phase
<1>2. q \in PB!Phases
  BY DEF PB!Phases
<1> HIDE DEF x, q
<1> QED
  BY <1>1, <1>2 DEF Entries, x

\* The delayed events and the event at hand go out in their order.
LEMMA Flushed ==
    ASSUME BufferTypes, BufferInv, NEW phase \in PB!Phases
    PROVE  /\ output \o PB!flushed(phase) \in Seq(Entries)
           /\ Len(output \o PB!flushed(phase)) = Len(input)
           /\ \A p \in 1..Len(input) : (output \o PB!flushed(phase))[p].ev = p
<1> DEFINE f == PB!flushed(phase)
           l == Len(buffer)
           n == Len(output)
<1>1. l \in Nat /\ n \in Nat /\ Len(input) = n + l /\ (\A k \in 1..l : buffer[k] \in Nat)
  BY LenProperties, ElementOfSeq DEF BufferTypes, BufferInv
<1>2. \A k \in 1..l : f[k] \in Entries /\ f[k].ev = buffer[k]
  BY <1>1, EntryType DEF PB!flushed
<1>3. f \in Seq(Entries) /\ Len(f) = l
  <2>1. f = [k \in 1..l |-> PB!with_message_phase(buffer[k], input[buffer[k]], phase)]
    BY DEF PB!flushed
  <2> HIDE DEF f, l
  <2>2. f \in [1..l -> Entries]
    BY <1>2, <2>1
  <2> QED
    BY <1>1, <2>2
<1>4. output \in Seq(Entries)
  BY DEF BufferTypes
<1> HIDE DEF f
<1>5. /\ output \o f \in Seq(Entries)
      /\ Len(output \o f) = n + l
      /\ \A p \in 1..n + l : (output \o f)[p] = IF p <= n THEN output[p] ELSE f[p - n]
  <2>1. /\ output \o f \in Seq(Entries)
        /\ Len(output \o f) = Len(output) + Len(f)
        /\ \A p \in 1..Len(output) + Len(f) :
              (output \o f)[p] = IF p <= Len(output) THEN output[p] ELSE f[p - Len(output)]
    BY <1>3, <1>4, ConcatProperties
  <2> QED
    BY <1>3, <2>1
<1>6. \A p \in 1..n + l : (output \o f)[p].ev = p
  <2> TAKE p \in 1..n + l
  <2>1. CASE p <= n
    <3>1. p \in 1..n
      BY <1>1, <2>1
    <3> QED
      BY <1>5, <2>1, <3>1 DEF BufferInv
  <2>2. CASE ~(p <= n)
    <3>1. p - n \in 1..l /\ n + (p - n) = p
      BY <1>1, <2>2
    <3>2. f[p - n].ev = p
      BY <1>2, <3>1 DEF BufferInv
    <3> QED
      BY <1>5, <2>2, <3>2
  <2> QED
    BY <2>1, <2>2
<1> QED
  BY <1>1, <1>5, <1>6 DEF f

LEMMA AppendEntry ==
    ASSUME NEW out \in Seq(Entries), NEW entry \in Entries, entry.ev = Len(out) + 1,
           \A p \in 1..Len(out) : out[p].ev = p
    PROVE  /\ Append(out, entry) \in Seq(Entries)
           /\ Len(Append(out, entry)) = Len(out) + 1
           /\ \A p \in 1..Len(out) + 1 : Append(out, entry)[p].ev = p
<1> DEFINE n == Len(out)
           a == Append(out, entry)
<1>1. /\ n \in Nat /\ a \in Seq(Entries) /\ Len(a) = n + 1 /\ a[n + 1] = entry
      /\ \A p \in 1..n : a[p] = out[p]
  BY AppendProperties, LenProperties
<1>2. \A p \in 1..n + 1 : p \in 1..n \/ p = n + 1
  BY <1>1
<1> HIDE DEF a
<1>3. \A p \in 1..n + 1 : a[p].ev = p
  BY <1>1, <1>2
<1> QED
  BY <1>1, <1>3 DEF a

LEMMA ProcessTypes ==
    ASSUME BufferTypes, BufferInv, NEW e \in SourceEvents, PB!process(e)
    PROVE  /\ input' = Append(input, e)
           /\ commentary' \in BOOLEAN /\ terminal_seen' \in BOOLEAN /\ passthrough' \in BOOLEAN
           /\ UNCHANGED eof /\ ~eof
<1> USE DEF BufferTypes, PB!Receive, PB!flags
<1>1. CASE PB!PassThrough(e)
  BY <1>1 DEF PB!PassThrough
<1>2. CASE PB!AfterTerminal(e)
  BY <1>2 DEF PB!AfterTerminal
<1>3. CASE PB!ToolSignal(e)
  BY <1>3 DEF PB!ToolSignal
<1>4. CASE PB!Terminal(e)
  BY <1>4 DEF PB!Terminal
<1>5. CASE PB!Overflow(e)
  BY <1>5 DEF PB!Overflow
<1>6. CASE PB!Delay(e)
  BY <1>6 DEF PB!Delay
<1>7. CASE PB!NotDelayed(e)
  BY <1>7 DEF PB!NotDelayed
<1> QED
  BY <1>1, <1>2, <1>3, <1>4, <1>5, <1>6, <1>7 DEF PB!process

\* Everything is out, and the event was latched or announces no message.
LEMMA ProcessReleases ==
    ASSUME BufferTypes, BufferInv, NEW e \in SourceEvents,
           NEW phase \in PB!Phases, NEW entry \in Entries, entry.ev = Len(input) + 1,
           PB!ReleaseBefore(phase, entry)
    PROVE  /\ output' \in Seq(Entries)
           /\ Len(output') = Len(input) + 1
           /\ \A p \in 1..Len(output') : output'[p].ev = p
           /\ buffer' = <<>>
<1> DEFINE out == output \o PB!flushed(phase)
<1>1. /\ out \in Seq(Entries) /\ Len(out) = Len(input)
      /\ \A p \in 1..Len(input) : out[p].ev = p
  BY Flushed
<1>2. output' = Append(out, entry) /\ buffer' = <<>>
  BY DEF PB!ReleaseBefore
<1> HIDE DEF out
<1>3. /\ Append(out, entry) \in Seq(Entries)
      /\ Len(Append(out, entry)) = Len(out) + 1
      /\ \A p \in 1..Len(out) + 1 : Append(out, entry)[p].ev = p
  BY <1>1, AppendEntry
<1> QED
  BY <1>1, <1>2, <1>3

LEMMA ProcessReturns ==
    ASSUME BufferTypes, BufferInv, NEW e \in SourceEvents, buffer = <<>>,
           NEW entry \in Entries, entry.ev = Len(input) + 1, PB!Return(entry)
    PROVE  /\ output' \in Seq(Entries)
           /\ Len(output') = Len(input) + 1
           /\ \A p \in 1..Len(output') : output'[p].ev = p
           /\ buffer' = <<>>
<1>1. output \in Seq(Entries) /\ Len(output) \in Nat /\ Len(input) = Len(output)
      /\ \A p \in 1..Len(output) : output[p].ev = p
  <2>1. Len(buffer) = 0 /\ Len(output) \in Nat
    BY LenProperties DEF BufferTypes
  <2> QED
    BY <2>1 DEF BufferTypes, BufferInv
<1>2. output' = Append(output, entry) /\ buffer' = buffer
  BY DEF PB!Return
<1>3. /\ Append(output, entry) \in Seq(Entries)
      /\ Len(Append(output, entry)) = Len(output) + 1
      /\ \A p \in 1..Len(output) + 1 : Append(output, entry)[p].ev = p
  BY <1>1, AppendEntry
<1> QED
  BY <1>1, <1>2, <1>3

LEMMA ProcessKeeps ==
    ASSUME BufferTypes, BufferInv, NEW e \in SourceEvents, Proper(e), PB!process(e),
           e.type = "created" => input = <<>>,
           e.type = "text" => e.item \in Announced
    PROVE  /\ BufferTypes' /\ BufferInv'
           /\ input' = Append(input, e)
           /\ Len(output) <= Len(output')
           /\ UNCHANGED eof
<1> DEFINE n == Len(input)
           All == /\ output' \in Seq(Entries)
                  /\ Len(output') = n + 1
                  /\ \A p \in 1..Len(output') : output'[p].ev = p
                  /\ buffer' = <<>>
<1>1. /\ input' = Append(input, e)
      /\ commentary' \in BOOLEAN /\ terminal_seen' \in BOOLEAN /\ passthrough' \in BOOLEAN
      /\ UNCHANGED eof
  BY ProcessTypes
<1>2. /\ n \in Nat /\ input' \in Seq(SourceEvents) /\ Len(input') = n + 1
      /\ input'[n + 1] = e /\ \A k \in 1..n : input'[k] = input[k]
  <2>1. input \in Seq(SourceEvents)
    BY DEF BufferTypes
  <2> QED
    BY <1>1, <2>1, AppendProperties, LenProperties
<1>3. Announced' = Announced \cup {i \in Items : e.type = "added" /\ e.item = i}
  <2>1. input \in Seq(SourceEvents)
    BY DEF BufferTypes
  <2> QED
    BY <1>1, <2>1, ItemsAppend DEF Announced
<1>4. /\ Len(output) \in Nat /\ Len(buffer) \in Nat /\ n = Len(output) + Len(buffer)
      /\ (buffer = <<>> <=> Len(buffer) = 0) /\ (input = <<>> <=> n = 0)
      /\ Len(output) + 1..n + 1 \subseteq Nat
  BY LenProperties, EmptySeq DEF BufferTypes, BufferInv
<1>5. PB!Position = n + 1 /\ n + 1 \in Nat
  BY <1>2 DEF PB!Position
<1>6. {"none", "commentary", "final_answer"} = PB!Phases
  BY DEF PB!Phases
<1>7. \A x \in PB!Phases : /\ PB!with_message_phase(n + 1, e, x) \in Entries
                           /\ PB!with_message_phase(n + 1, e, x).ev = n + 1
  BY <1>5, EntryType
<1>8. /\ PB!annotate_if_needed(n + 1, e) \in Entries
      /\ PB!annotate_if_needed(n + 1, e).ev = n + 1
  BY <1>6, <1>7 DEF PB!annotate_if_needed
<1>9. [ev |-> n + 1, phase |-> "none"] \in Entries /\ [ev |-> n + 1, phase |-> "none"].ev = n + 1
  BY <1>5, <1>6 DEF Entries
<1>10. ASSUME All, Latched' \/ UNCHANGED <<commentary, terminal_seen, passthrough, message_item_ids>>,
              Latched' \/ e.type \notin {"added"}
       PROVE  BufferTypes' /\ BufferInv' /\ Len(output) <= Len(output')
  <2>1. BufferTypes'
    <3>1. <<>> \in Seq(Nat)
      OBVIOUS
    <3> QED
      BY <1>1, <1>2, <1>10, <3>1 DEF BufferTypes
  <2>2. Len(output') = n + 1 /\ Len(buffer') = 0 /\ Len(input') = n + 1
    BY <1>2, <1>10
  <2>3. ~Latched' => Announced' \cap Messages \subseteq message_item_ids'
    <3>1. ASSUME ~Latched'
          PROVE  Announced' \cap Messages \subseteq message_item_ids'
      <4>1. ~Latched /\ message_item_ids' = message_item_ids
        BY <1>10, <3>1 DEF Latched
      <4>2. Announced' = Announced
        BY <1>3, <1>10, <3>1
      <4> QED
        BY <4>1, <4>2 DEF BufferInv
    <3> QED
      BY <3>1
  <2>4. n + 1 + 1..n + 1 = {} /\ 1..0 = {} /\ n + 1 = n + 1 + 0 /\ Len(output) <= n + 1
    BY <1>2, <1>4
  <2>5. /\ Len(input') = Len(output') + Len(buffer')
        /\ (\A p \in 1..Len(output') : output'[p].ev = p)
        /\ (\A b \in 1..Len(buffer') : buffer'[b] = Len(output') + b)
        /\ (\A k \in Len(output') + 1..Len(input') : input'[k].item \in Messages)
        /\ buffer' = <<>>
    BY <1>10, <2>2, <2>4
  <2> QED
    BY <2>1, <2>2, <2>3, <2>4, <2>5 DEF BufferInv
<1> HIDE DEF n, All
<1>11. CASE PB!PassThrough(e)
  <2>1. passthrough /\ passthrough' /\ PB!Return([ev |-> n + 1, phase |-> "none"])
    BY <1>5, <1>11 DEF PB!PassThrough, PB!flags
  <2>2. buffer = <<>> /\ Latched'
    BY <2>1 DEF BufferInv, Latched
  <2>3. All
    BY <1>9, <2>1, <2>2, ProcessReturns DEF All, n
  <2> QED
    BY <1>1, <1>10, <2>2, <2>3
<1>12. CASE PB!AfterTerminal(e)
  <2>1. terminal_seen /\ terminal_seen' /\ PB!Return(PB!annotate_if_needed(n + 1, e))
    BY <1>5, <1>12 DEF PB!AfterTerminal, PB!flags
  <2>2. buffer = <<>> /\ Latched'
    BY <2>1 DEF BufferInv, Latched
  <2>3. All
    BY <1>8, <2>1, <2>2, ProcessReturns DEF All, n
  <2> QED
    BY <1>1, <1>10, <2>2, <2>3
<1>13. CASE PB!ToolSignal(e)
  <2>1. commentary' /\ PB!ReleaseBefore("commentary", PB!annotate_if_needed(n + 1, e))
    BY <1>5, <1>13 DEF PB!ToolSignal
  <2>2. Latched'
    BY <2>1 DEF Latched
  <2>3. All
    BY <1>6, <1>8, <2>1, ProcessReleases DEF All, n
  <2> QED
    BY <1>1, <1>10, <2>2, <2>3
<1>14. CASE PB!Terminal(e)
  <2> DEFINE phase == IF commentary THEN "commentary" ELSE PB!final_buffer_phase_for_terminal(e)
  <2>1. terminal_seen' /\ PB!ReleaseBefore(phase, PB!with_message_phase(n + 1, e, phase))
    BY <1>5, <1>14 DEF PB!Terminal
  <2>2. phase \in PB!Phases
    BY <1>6 DEF PB!final_buffer_phase_for_terminal
  <2>3. Latched'
    BY <2>1 DEF Latched
  <2> HIDE DEF phase
  <2>4. All
    BY <1>7, <2>1, <2>2, ProcessReleases DEF All, n
  <2> QED
    BY <1>1, <1>10, <2>3, <2>4
<1>15. CASE PB!Overflow(e)
  <2>1. passthrough' /\ PB!ReleaseBefore("none", [ev |-> n + 1, phase |-> "none"])
    BY <1>5, <1>15 DEF PB!Overflow
  <2>2. Latched'
    BY <2>1 DEF Latched
  <2>3. All
    BY <1>6, <1>9, <2>1, ProcessReleases DEF All, n
  <2> QED
    BY <1>1, <1>10, <2>2, <2>3
<1>16. ASSUME e.kind \in PB!MessageKinds
       PROVE  e.item \in Messages /\ e.id = e.item
  BY <1>16 DEF Proper, SourceEvents, PB!MessageKinds, KindOf, Created, Event
<1>17. CASE PB!Delay(e)
  <2>1. /\ ~Latched /\ ~Latched'
        /\ output' = output /\ buffer' = Append(buffer, n + 1)
        /\ message_item_ids' = IF e.kind = "message_item" /\ e.id # NoItem
                               THEN message_item_ids \cup {e.id} ELSE message_item_ids
        /\ e.kind \in PB!MessageKinds
    BY <1>5, <1>17 DEF PB!Delay, PB!Undecided, PB!should_buffer, PB!flags, Latched, PB!MessageKinds
  <2>2. /\ buffer' \in Seq(Nat) /\ Len(buffer') = Len(buffer) + 1
        /\ buffer'[Len(buffer) + 1] = n + 1 /\ \A b \in 1..Len(buffer) : buffer'[b] = buffer[b]
    BY <1>5, <2>1, AppendProperties DEF BufferTypes
  <2>3. BufferTypes'
    BY <1>1, <1>2, <2>1, <2>2 DEF BufferTypes
  <2>4. \A b \in 1..Len(buffer) + 1 : b \in 1..Len(buffer) \/ b = Len(buffer) + 1
    BY <1>4
  <2>5. \A b \in 1..Len(buffer') : buffer'[b] = Len(output') + b
    <3> TAKE b \in 1..Len(buffer')
    <3>1. CASE b \in 1..Len(buffer)
      BY <2>1, <2>2, <3>1 DEF BufferInv
    <3>2. CASE b = Len(buffer) + 1
      BY <1>4, <2>1, <2>2, <3>2
    <3> QED
      BY <2>2, <2>4, <3>1, <3>2
  <2>6. \A k \in Len(output') + 1..Len(input') : input'[k].item \in Messages
    <3>1. \A k \in Len(output) + 1..n + 1 : (k \in 1..n /\ k \in Len(output) + 1..n) \/ k = n + 1
      BY <1>2, <1>4
    <3> QED
      BY <1>2, <1>16, <2>1, <3>1 DEF BufferInv, n
  <2>7. Announced' \cap Messages \subseteq message_item_ids'
    <3>1. e.type = "added" => e.kind = "message_item" /\ e.id = e.item /\ e.id # NoItem
      BY <1>16, <2>1 DEF Proper, KindOf, Messages, Message, NoItem
    <3> QED
      BY <1>3, <2>1, <3>1 DEF BufferInv
  <2>8. Len(input') = Len(output') + Len(buffer') /\ Len(output) <= Len(output')
    BY <1>2, <1>4, <2>1, <2>2
  <2>9. (\A p \in 1..Len(output') : output'[p].ev = p)
    BY <2>1 DEF BufferInv
  <2> QED
    BY <1>1, <2>1, <2>3, <2>5, <2>6, <2>7, <2>8, <2>9 DEF BufferInv
<1>18. CASE PB!NotDelayed(e)
  <2>1. /\ UNCHANGED <<commentary, terminal_seen, passthrough, message_item_ids>>
        /\ PB!Return(PB!annotate_if_needed(n + 1, e))
        /\ ~passthrough /\ ~terminal_seen
        /\ e.kind \notin PB!ToolKinds \cup PB!TerminalKinds
    BY <1>5, <1>18 DEF PB!NotDelayed, PB!Undecided, PB!flags, PB!Return
  <2>2. CASE commentary
    <3>1. buffer = <<>> /\ Latched'
      BY <2>1, <2>2 DEF BufferInv, Latched
    <3>2. All
      BY <1>8, <2>1, <3>1, ProcessReturns DEF All, n
    <3> QED
      BY <1>1, <1>10, <3>1, <3>2
  <2>3. CASE ~commentary
    <3>1. ~Latched
      BY <2>1, <2>3 DEF Latched
    <3>2. e.kind # "message_item" /\ (e.kind = "message_part" => e.id \notin message_item_ids)
      BY <1>18, <2>3 DEF PB!NotDelayed, PB!should_buffer
    <3>3. e.type \notin {"text", "completed"}
      <4>1. e.type # "completed"
        BY <2>1 DEF Proper, PB!TerminalKinds, PB!ToolKinds
      <4>2. e.type # "text"
        BY <3>1, <3>2 DEF Proper, BufferInv
      <4> QED
        BY <4>1, <4>2
    <3>4. e.type \notin {"added", "done"}
      BY <2>1, <3>2 DEF Proper, KindOf, PB!ToolKinds
    <3>5. e.type = "created"
      BY <3>3, <3>4 DEF SourceEvents
    <3>6. buffer = <<>>
      BY <1>4, <3>5
    <3>7. All
      BY <1>8, <2>1, <3>6, ProcessReturns DEF All, n
    <3> QED
      BY <1>1, <1>10, <2>1, <3>4, <3>7
  <2> QED
    BY <2>2, <2>3
<1> QED
  BY <1>1, <1>11, <1>12, <1>13, <1>14, <1>15, <1>17, <1>18 DEF PB!process

-----------------------------------------------------------------------------
(* The inductive invariant. *)

Pending == ToSet(controller.pending_calls)
U == ToSet(upstream.items)

UpstreamTypes ==
    /\ upstream \in [n : 0..MaxChunks + 1, items : Seq(Items), finished : BOOLEAN]
    /\ open \in BOOLEAN
    /\ round_index \in Rounds
    /\ current_body \in Seq(Results)

ControllerTypes ==
    /\ controller = [created |-> controller.created,
                     completed_items |-> controller.completed_items,
                     pending_calls |-> controller.pending_calls,
                     indexes |-> controller.indexes]
    /\ controller.created \in BOOLEAN
    /\ controller.completed_items \in Seq(Results)
    /\ controller.pending_calls \in Seq(Searches)
    /\ DOMAIN controller.indexes \subseteq Searches
    /\ controller.indexes \in [DOMAIN controller.indexes -> Nat]

GeneratorTypes ==
    /\ calls \in Seq(Searches)
    /\ results \in Seq(Results) /\ Len(results) <= Len(calls)
    /\ generator \in Generators
    /\ events \in Seq(SourceEvents)
    /\ \A k \in 1..Len(events) : Proper(events[k])

Types ==
    /\ UpstreamTypes
    /\ ControllerTypes
    /\ GeneratorTypes
    /\ BufferTypes
    /\ yielded \in 0..Len(output)

\* What the client is given is orderly, and starts as soon as it is created.
OrderInv ==
    /\ Orderly(input)
    /\ controller.created <=> input # <<>>

IndexInv ==
    \A k \in Positions :
        input[k].type = "added" /\ input[k].item \in Searches =>
            /\ input[k].item \in DOMAIN controller.indexes
            /\ input[k].index = controller.indexes[input[k].item]

\* The searches of the earlier rounds are in the request.
InBody(s) == \E k \in 1..Len(current_body) : current_body[k].item = s
ToldInv ==
    /\ \A i \in Announced : i.round <= round_index
    /\ \A s \in Announced \cap Searches : s.round < round_index => InBody(s)

\* response.completed is the last event: the outcomes reported, then the items
\* of the last round, each of them done.
EndsWell(e) ==
    /\ IsPrefix(Reported(input), e.output)
    /\ {e.output[j].item : j \in Len(Reported(input)) + 1 .. Len(e.output)} = U
    /\ \A entry \in ToSet(e.output) : entry.item \in Finished
CompletedInv ==
    \A k \in Positions : input[k].type = "completed" => k = Len(input) /\ EndsWell(input[k])

RoundInv ==
    /\ \A i \in U : i.round = round_index
    /\ IsInjective(upstream.items)
    /\ Len(upstream.items) <= upstream.n
    /\ ~upstream.finished => upstream.n <= MaxChunks
    /\ upstream.n = 0 => ~upstream.finished
    /\ Pending \subseteq Searches \cap U \cap Announced
    /\ Pending \cap Finished = {}
    /\ IsInjective(controller.pending_calls)
    /\ controller.pending_calls # <<>> => upstream.finished

ThisRound == {i \in Announced : i.round = round_index}

\* The events of a chunk that are still to be processed: with what the client
\* has been given they are the round so far.
AddedHere(k) == \E j \in 1..k - 1 : events[j].type = "added" /\ events[j].item = events[k].item
ChunkInv ==
    /\ input = <<>> /\ upstream.n # 0 => events # <<>> /\ events[1].type = "created"
    /\ upstream.n = 0 => events = <<>>
    /\ Once(events)
    /\ \A k \in 1..Len(events) : events[k].type # "completed"
    /\ U = ThisRound \cup ItemsOf(events, "added")
    /\ Announced \cap ItemsOf(events, "added") = {}
    /\ \A k \in 1..Len(events) :
          events[k].type \in {"text", "done"} =>
              events[k].item \in U /\ (events[k].item \in Announced \/ AddedHere(k))
    /\ ItemsOf(events, "done") \cap (Finished \cup Pending) = {}
    /\ ItemsOf(events, "done") # {} => upstream.finished
    /\ upstream.finished => U \subseteq ItemsOf(events, "done") \cup (Finished \ Searches) \cup Pending
    /\ ~upstream.finished => Finished \cap U = {}

\* The end of a round.
ClosingInv ==
    /\ U = ThisRound
    /\ upstream.finished => U \subseteq (Finished \ Searches) \cup Pending
    /\ events # <<>> =>
          /\ Len(events) = 1 /\ upstream.finished /\ input # <<>>
          /\ events[1].type = "completed"
          /\ {events[1].output[j].item : j \in 1..Len(events[1].output)} = U

\* The searches of the round, in execution.
SearchingInv ==
    /\ IsInjective(calls)
    /\ ToSet(calls) \subseteq Announced
    /\ \A k \in 1..Len(results) : results[k].item = calls[k]
    /\ \A s \in Announced \cap Searches : s.round = round_index => s \in ToSet(calls)

\* Their outcomes, part told to the client, part still to be told.
ToTell(k) ==
    LET outcome == controller.completed_items[Len(Reported(input)) + k]
    IN  /\ events[k].type = "done"
        /\ events[k].item = outcome.item
        /\ events[k].status = outcome.status
        /\ events[k].item \in Announced \ Finished
        /\ events[k].index = controller.indexes[events[k].item]
AnnouncingInv ==
    /\ Len(results) = Len(calls)
    /\ Len(controller.completed_items) = Len(Reported(input)) + Len(events)
    /\ \A k \in 1..Len(Reported(input)) : Reported(input)[k] = controller.completed_items[k]
    /\ \A k \in 1..Len(events) : ToTell(k)
    /\ Once(events)
    /\ controller.completed_items = current_body \o results

LiveInv ==
    /\ generator = "streaming" => ChunkInv /\ open
    /\ generator = "closing" => ClosingInv
    /\ generator \in {"searching", "announcing"} => SearchingInv
    /\ generator = "searching" => ToSet(calls) \cap Finished = {}
    /\ generator \notin {"searching", "announcing"} => calls = <<>> /\ results = <<>>
    /\ generator = "announcing" => AnnouncingInv
    /\ generator = "requesting" => \A s \in Announced \cap Searches : InBody(s)
    /\ generator \in {"searching", "announcing", "requesting"} =>
          round_index < max_rounds /\ controller.pending_calls = <<>>
    /\ generator \in {"searching", "requesting", "flushing"} => events = <<>>
    /\ generator # "announcing" =>
          Reported(input) = controller.completed_items /\ current_body = Reported(input)
    /\ generator \in {"requesting", "streaming", "closing"} =>
          \A k \in yielded + 1 .. Len(input) : ~Reports(input[k])
    /\ (\E k \in Positions : input[k].type = "completed") =>
          /\ generator \in {"closing", "flushing"}
          /\ events = <<>> /\ controller.pending_calls = <<>>

IInv ==
    /\ Types
    /\ BufferInv
    /\ OrderInv
    /\ IndexInv
    /\ ToldInv
    /\ CompletedInv
    /\ RoundInv
    /\ generator \notin Ended => LiveInv
    /\ open => generator = "streaming"

-----------------------------------------------------------------------------
(* What the invariant says of what the client has received. *)

LEMMA ShownFacts ==
    ASSUME BufferTypes, BufferInv, yielded \in 0..Len(output)
    PROVE  /\ Shown \in Seq(SourceEvents) /\ Len(Shown) = yielded /\ DOMAIN Shown = 1..yielded
           /\ \A p \in 1..yielded : p \in Positions /\ Shown[p] = input[p]
           /\ yielded \in Nat /\ yielded <= Len(input) /\ Len(input) \in Nat
<1>1. /\ Len(input) \in Nat /\ Len(output) \in Nat /\ Len(buffer) \in Nat
      /\ input \in Seq(SourceEvents)
  BY LenProperties DEF BufferTypes
<1>2. Len(output) <= Len(input) /\ yielded \in Nat /\ yielded <= Len(input)
  BY <1>1 DEF BufferInv
<1>3. \A p \in 1..yielded : p \in 1..Len(output) /\ p \in Positions
  BY <1>1, <1>2 DEF Positions
<1>4. \A p \in 1..yielded : input[output[p].ev] = input[p] /\ input[p] \in SourceEvents
  BY <1>1, <1>3, ElementOfSeq DEF BufferInv, Positions
<1>5. Shown = [p \in 1..yielded |-> input[output[p].ev]]
  BY DEF Shown
<1>6. Shown \in [1..yielded -> SourceEvents] /\ DOMAIN Shown = 1..yielded
      /\ \A p \in 1..yielded : Shown[p] = input[p]
  BY <1>4, <1>5
<1> HIDE DEF Shown
<1>7. Shown \in Seq(SourceEvents) /\ Len(Shown) = yielded
  BY <1>2, <1>6
<1> QED
  BY <1>1, <1>2, <1>3, <1>6, <1>7

LEMMA InvImpliesTypeOK == IInv => TypeOK
<1> SUFFICES ASSUME IInv
             PROVE  TypeOK
  OBVIOUS
<1> DEFINE E == {Created} \cup [type : {"added", "text", "done", "completed"},
                            kind : PB!Kinds, id : Messages \cup {NoItem}, size : {1},
                            item : Items \cup {NoItem}, index : Nat,
                            status : Outcomes \cup {"none"}, output : Seq(Results \cup
                                {Listed(i) : i \in Items})]
<1>1. Types
  BY DEF IInv
<1>2. \A k \in 1..Len(events) : events[k] \in E
  <2> TAKE k \in 1..Len(events)
  <2>1. events[k] \in SourceEvents /\ Proper(events[k])
    BY <1>1, ElementOfSeq DEF Types, GeneratorTypes
  <2>2. CASE events[k].type = "created"
    BY <2>1, <2>2 DEF Proper
  <2>3. CASE events[k].type # "created"
    BY <2>1, <2>3 DEF SourceEvents
  <2> QED
    BY <2>2, <2>3
<1> HIDE DEF E
<1>3. events \in Seq(E)
  <2>1. Len(events) \in Nat /\ events \in [1..Len(events) -> SourceEvents]
    BY <1>1, LenProperties DEF Types, GeneratorTypes
  <2>2. events \in [1..Len(events) -> E]
    BY <1>2, <2>1
  <2> QED
    BY <2>1, <2>2
<1>4. \A s \in DOMAIN controller.indexes : controller.indexes[s] \in Nat
  BY <1>1 DEF Types, ControllerTypes
<1> QED
  BY <1>1, <1>3, <1>4 DEF TypeOK, E, Types, UpstreamTypes, ControllerTypes, GeneratorTypes

LEMMA InvImpliesOneResponse == IInv => OneResponse
<1> SUFFICES ASSUME IInv, NEW p \in DOMAIN Shown
             PROVE  LET S == Shown
                        First(type, item) == \E q \in DOMAIN S :
                            /\ S[q].type = type /\ S[q].item = item
                            /\ \A r \in DOMAIN S : S[r].type = type /\ S[r].item = item => q = r
                    IN  /\ S[p].type = "created" <=> p = 1
                        /\ S[p].type = "added" => First("added", S[p].item)
                        /\ S[p].type \in {"text", "done"} =>
                                \E q \in 1..p - 1 :
                                    /\ S[q].type = "added" /\ S[q].item = S[p].item
                                    /\ S[p].item \in Searches => S[q].index = S[p].index
                        /\ S[p].type = "done" => First("done", S[p].item)
                        /\ S[p].type = "completed" =>
                                /\ p = Len(S)
                                /\ IsPrefix(SearchesDone, S[p].output)
                                /\ {S[p].output[k].item :
                                        k \in Len(SearchesDone) + 1 .. Len(S[p].output)}
                                        = ToSet(upstream.items)
                                /\ \A entry \in ToSet(S[p].output) : IsShown("done", entry.item)
  BY DEF OneResponse
<1> DEFINE S == Shown
<1>1. /\ Types /\ BufferTypes /\ BufferInv /\ OrderInv /\ CompletedInv
      /\ yielded \in 0..Len(output) /\ input \in Seq(SourceEvents)
  BY DEF IInv, Types, BufferTypes
<1>2. /\ S \in Seq(SourceEvents) /\ Len(S) = yielded /\ DOMAIN S = 1..yielded
      /\ \A q \in 1..yielded : q \in Positions /\ S[q] = input[q]
      /\ yielded \in Nat /\ yielded <= Len(input) /\ Len(input) \in Nat
  BY <1>1, ShownFacts
<1>3. p \in 1..yielded /\ p \in Positions /\ S[p] = input[p] /\ p \in Nat
      /\ \A q \in 1..p - 1 : q \in 1..yielded
  BY <1>2
<1> HIDE DEF S
<1>4. S[p].type = "created" <=> p = 1
  BY <1>1, <1>3 DEF OrderInv, Orderly, Positions
<1>5. ASSUME S[p].type \in {"added", "done"}
      PROVE  \A r \in DOMAIN S : S[r].type = S[p].type /\ S[r].item = S[p].item => p = r
  BY <1>1, <1>2, <1>3, <1>5 DEF OrderInv, Orderly, Once, Positions
<1>6. ASSUME S[p].type \in {"text", "done"}
      PROVE  \E q \in 1..p - 1 :
                /\ S[q].type = "added" /\ S[q].item = S[p].item
                /\ S[p].item \in Searches => S[q].index = S[p].index
  <2>1. Follows(input, p)
    BY <1>1, <1>3, <1>6 DEF OrderInv, Orderly, Positions
  <2> QED
    BY <1>2, <1>3, <2>1 DEF Follows
<1>7. ASSUME S[p].type = "completed"
      PROVE  /\ p = Len(S)
             /\ IsPrefix(SearchesDone, S[p].output)
             /\ {S[p].output[k].item : k \in Len(SearchesDone) + 1 .. Len(S[p].output)}
                        = ToSet(upstream.items)
             /\ \A entry \in ToSet(S[p].output) : IsShown("done", entry.item)
  <2>1. p = Len(input) /\ EndsWell(input[p])
    BY <1>1, <1>3, <1>7 DEF CompletedInv
  <2>2. Len(S) = Len(input) /\ yielded = Len(input)
    BY <1>2, <1>3, <2>1
  <2>3. S = input
    BY <1>1, <1>2, <2>2, SeqEqual
  <2>4. SearchesDone = Reported(input)
    BY <2>3 DEF SearchesDone, S
  <2>5. \A i \in Finished : IsShown("done", i)
    BY <1>2, <2>2, <2>3 DEF Finished, ItemsOf, IsShown, S
  <2> QED
    BY <1>3, <2>1, <2>2, <2>4, <2>5 DEF EndsWell, U
<1> QED
  BY <1>2, <1>3, <1>4, <1>5, <1>6, <1>7 DEF S

LEMMA InvImpliesModelIsTold == IInv => ModelIsTold
<1> SUFFICES ASSUME IInv
             PROVE  ModelIsTold
  OBVIOUS
<1>1. /\ Types /\ BufferTypes /\ BufferInv /\ OrderInv /\ ToldInv
      /\ yielded \in 0..Len(output) /\ input \in Seq(SourceEvents)
  BY DEF IInv, Types, BufferTypes
<1>2. /\ Shown \in Seq(SourceEvents) /\ Len(Shown) = yielded /\ DOMAIN Shown = 1..yielded
      /\ \A q \in 1..yielded : q \in Positions /\ Shown[q] = input[q]
      /\ yielded \in Nat /\ yielded <= Len(input) /\ Len(input) \in Nat
  BY <1>1, ShownFacts
<1>3. ASSUME generator \in {"requesting", "streaming", "closing"}
      PROVE  current_body = SearchesDone
  <2>1. LiveInv
    BY <1>3 DEF IInv, Ended
  <2>2. current_body = Reported(input) /\ \A k \in yielded + 1 .. Len(input) : ~Reports(input[k])
    BY <1>3, <2>1 DEF LiveInv
  <2>3. yielded \in 0..Len(input)
    BY <1>2
  <2> HIDE DEF Shown
  <2>4. Reported(Shown) = Reported(input)
    BY <1>1, <1>2, <2>2, <2>3, ReportedPrefix
  <2> QED
    BY <2>2, <2>4 DEF SearchesDone
<1>4. ASSUME NEW s \in Searches, IsShown("added", s), s.round < round_index
      PROVE  \E k \in DOMAIN current_body : current_body[k].item = s
  <2>1. s \in Announced
    <3>1. Searches \subseteq Items
      BY DEF Items
    <3> HIDE DEF Shown
    <3>2. PICK q \in 1..yielded : Shown[q].type = "added" /\ Shown[q].item = s
      BY <1>2, <1>4 DEF IsShown
    <3>3. q \in Positions /\ input[q].type = "added" /\ input[q].item = s
      BY <1>2, <3>2
    <3> QED
      BY <3>1, <3>3 DEF Announced, ItemsOf, Positions
  <2>2. InBody(s)
    BY <1>1, <1>4, <2>1 DEF ToldInv
  <2>3. DOMAIN current_body = 1..Len(current_body)
    BY <1>1, LenProperties DEF Types, UpstreamTypes
  <2> QED
    BY <2>2, <2>3 DEF InBody
<1>5. open => generator = "streaming"
  BY DEF IInv
<1> QED
  BY <1>3, <1>4, <1>5 DEF ModelIsTold

-----------------------------------------------------------------------------
(* The initial state. *)

LEMMA InitInv == Init => IInv
<1> SUFFICES ASSUME Init
             PROVE  IInv
  OBVIOUS
<1> USE DEF Init
<1>1. /\ input = <<>> /\ output = <<>> /\ buffer = <<>>
      /\ commentary = FALSE /\ terminal_seen = FALSE /\ passthrough = FALSE
      /\ message_item_ids = {}
  BY DEF PB!Init
<1>2. /\ Len(<<>>) = 0 /\ 1..0 = {} /\ 0 + 1..0 = {} /\ DOMAIN <<>> = {}
      /\ \A T : <<>> \in Seq(T)
  OBVIOUS
<1>3. Announced = {} /\ Finished = {} /\ ItemsOf(events, "added") = {} /\ ItemsOf(events, "done") = {}
  BY <1>1, <1>2 DEF Announced, Finished, ItemsOf
<1>4. U = {} /\ Pending = {} /\ upstream.n = 0 /\ upstream.items = <<>> /\ upstream.finished = FALSE
  BY <1>2 DEF U, Pending, ToSet, NewProcessor
<1>5. Reported(input) = <<>>
  BY <1>1, ReportedEmpty
<1>6. Types
  <2>1. UpstreamTypes
    BY <1>2, RoundsAssumption DEF UpstreamTypes, NewProcessor, Rounds
  <2>2. ControllerTypes
    BY <1>2 DEF ControllerTypes
  <2>3. GeneratorTypes
    BY <1>2 DEF GeneratorTypes, Generators
  <2>4. BufferTypes
    BY <1>1, <1>2 DEF BufferTypes
  <2>5. yielded \in 0..Len(output)
    BY <1>1, <1>2
  <2> QED
    BY <2>1, <2>2, <2>3, <2>4, <2>5 DEF Types
<1>7. BufferInv
  BY <1>1, <1>2, <1>3 DEF BufferInv
<1>8. OrderInv /\ IndexInv /\ CompletedInv
  BY <1>1, <1>2 DEF OrderInv, Orderly, Once, IndexInv, CompletedInv, Positions
<1>9. ToldInv
  BY <1>3 DEF ToldInv
<1>10. RoundInv
  BY <1>2, <1>3, <1>4, RoundsAssumption DEF RoundInv, IsInjective
<1>11. LiveInv
  <2>1. ChunkInv
    BY <1>1, <1>2, <1>3, <1>4 DEF ChunkInv, ThisRound, Once
  <2> QED
    BY <1>1, <1>2, <1>5, <2>1 DEF LiveInv, Positions
<1> QED
  BY <1>6, <1>7, <1>8, <1>9, <1>10, <1>11 DEF IInv

-----------------------------------------------------------------------------
(* What an action leaves alone. *)

LEMMA InputFrame ==
    ASSUME IInv, UNCHANGED bufferVars, controller'.created = controller.created,
           controller'.indexes = controller.indexes
    PROVE  /\ BufferTypes' /\ BufferInv' /\ OrderInv' /\ IndexInv'
           /\ Announced' = Announced /\ Finished' = Finished /\ input' = input
           /\ output' = output /\ Reported(input)' = Reported(input)
<1>1. /\ input' = input /\ output' = output /\ buffer' = buffer
      /\ commentary' = commentary /\ terminal_seen' = terminal_seen /\ passthrough' = passthrough
      /\ message_item_ids' = message_item_ids
  BY DEF bufferVars
<1>2. BufferTypes /\ BufferInv /\ OrderInv /\ IndexInv
  BY DEF IInv, Types
<1>3. Announced' = Announced /\ Finished' = Finished /\ Reported(input)' = Reported(input)
  BY <1>1 DEF Announced, Finished
<1>4. BufferTypes'
  BY <1>1, <1>2 DEF BufferTypes
<1>5. BufferInv'
  BY <1>1, <1>2, <1>3 DEF BufferInv, Latched
<1>6. OrderInv' /\ IndexInv'
  BY <1>1, <1>2 DEF OrderInv, IndexInv, Positions
<1> QED
  BY <1>1, <1>3, <1>4, <1>5, <1>6

LEMMA RoundFrame ==
    ASSUME IInv, UNCHANGED <<upstream, round_index, current_body, input>>,
           \/ controller'.pending_calls = controller.pending_calls
           \/ controller'.pending_calls = <<>>
    PROVE  ToldInv' /\ CompletedInv' /\ RoundInv' /\ U' = U /\ ThisRound' = ThisRound
<1>1. /\ upstream' = upstream /\ round_index' = round_index /\ current_body' = current_body
      /\ input' = input
  OBVIOUS
<1>2. ToldInv /\ CompletedInv /\ RoundInv
  BY DEF IInv
<1>3. Announced' = Announced /\ Finished' = Finished /\ Reported(input)' = Reported(input)
      /\ U' = U /\ ThisRound' = ThisRound
  BY <1>1 DEF Announced, Finished, U, ThisRound
<1>4. ToldInv'
  BY <1>1, <1>2, <1>3 DEF ToldInv, InBody
<1>5. CompletedInv'
  BY <1>1, <1>2, <1>3 DEF CompletedInv, EndsWell, Positions
<1>6. RoundInv'
  <2>1. CASE controller'.pending_calls = controller.pending_calls
    <3>1. Pending' = Pending
      BY <2>1 DEF Pending
    <3> QED
      BY <1>1, <1>2, <1>3, <2>1, <3>1 DEF RoundInv
  <2>2. CASE controller'.pending_calls = <<>>
    <3>1. Pending' = {} /\ IsInjective(controller'.pending_calls)
      BY <2>2 DEF Pending, ToSet, IsInjective
    <3> QED
      BY <1>1, <1>2, <1>3, <2>2, <3>1 DEF RoundInv
  <2> QED
    BY <2>1, <2>2
<1> QED
  BY <1>3, <1>4, <1>5, <1>6

LEMMA SameUpstream ==
    ASSUME UpstreamTypes, UNCHANGED <<upstream, round_index, current_body>>, open' \in BOOLEAN
    PROVE  UpstreamTypes'
  BY DEF UpstreamTypes

LEMMA SameController ==
    ASSUME ControllerTypes, UNCHANGED controller
    PROVE  ControllerTypes'
  BY DEF ControllerTypes

\* The stream ends early: nothing is promised of it but what the client has.
LEMMA EndsEarly ==
    ASSUME IInv, UNCHANGED <<upstream, round_index, current_body, searchVars, events, yielded>>,
           UNCHANGED bufferVars,
           generator' \in Ended, open' \in BOOLEAN, ~open',
           controller' = controller \/ controller' = [controller EXCEPT !.pending_calls = <<>>]
    PROVE  IInv'
<1>1. Types
  BY DEF IInv
<1>2. /\ controller'.created = controller.created /\ controller'.indexes = controller.indexes
      /\ (\/ controller'.pending_calls = controller.pending_calls
          \/ controller'.pending_calls = <<>>)
      /\ ControllerTypes'
  <2>1. CASE controller' = controller
    BY <1>1, <2>1 DEF Types, ControllerTypes
  <2>2. CASE controller' = [controller EXCEPT !.pending_calls = <<>>]
    <3>1. controller' = [created |-> controller.created,
                         completed_items |-> controller.completed_items,
                         pending_calls |-> <<>>, indexes |-> controller.indexes]
      BY <1>1, <2>2 DEF Types, ControllerTypes
    <3>2. <<>> \in Seq(Searches)
      OBVIOUS
    <3> QED
      BY <1>1, <3>1, <3>2 DEF Types, ControllerTypes
  <2> QED
    BY <2>1, <2>2
<1>3. BufferTypes' /\ BufferInv' /\ OrderInv' /\ IndexInv' /\ input' = input /\ output' = output
  BY <1>2, InputFrame
<1>4. ToldInv' /\ CompletedInv' /\ RoundInv'
  BY <1>2, <1>3, RoundFrame
<1>5. UpstreamTypes'
  BY <1>1, SameUpstream DEF Types
<1>6. GeneratorTypes' /\ (yielded \in 0..Len(output))'
  BY <1>1, <1>3 DEF Types, GeneratorTypes, searchVars, Generators
<1>7. Types'
  BY <1>2, <1>3, <1>5, <1>6 DEF Types
<1> QED
  BY <1>3, <1>4, <1>7 DEF IInv

LEMMA StopInv ==
    ASSUME IInv,
           UpstreamError \/ Cancel \/ FollowUpFails \/ TooManyRounds \/ Complete
    PROVE  IInv'
<1>1. CASE UpstreamError
  <2>1. generator' \in Ended /\ open' = FALSE /\ controller' = controller
        /\ UNCHANGED <<upstream, round_index, current_body, searchVars, events, yielded>>
        /\ UNCHANGED bufferVars
    BY <1>1 DEF UpstreamError, Ended
  <2> QED
    BY <2>1, EndsEarly
<1>2. CASE Cancel
  <2>1. generator' \in Ended /\ open' = FALSE /\ controller' = controller
        /\ UNCHANGED <<upstream, round_index, current_body, searchVars, events, yielded>>
        /\ UNCHANGED bufferVars
    BY <1>2 DEF Cancel, Ended, Goto
  <2> QED
    BY <2>1, EndsEarly
<1>3. ASSUME FollowUpFails \/ TooManyRounds \/ Complete
      PROVE  IInv'
  <2>1. ~open /\ open \in BOOLEAN
    BY <1>3 DEF IInv, Types, UpstreamTypes, FollowUpFails, TooManyRounds, Complete, RoundOver
  <2>2. /\ generator' \in Ended /\ open' = open
        /\ controller' = controller \/ controller' = [controller EXCEPT !.pending_calls = <<>>]
        /\ UNCHANGED <<upstream, round_index, current_body, searchVars, events, yielded>>
        /\ UNCHANGED bufferVars
    BY <1>3 DEF FollowUpFails, TooManyRounds, Complete, Ended, Goto, roundVars
  <2> QED
    BY <2>1, <2>2, EndsEarly
<1> QED
  BY <1>1, <1>2, <1>3

\* Nothing happens, or the client receives an event more.
LEMMA YieldInv ==
    ASSUME IInv, UNCHANGED <<roundVars, controller, searchVars, generator, events, bufferVars>>,
           yielded' = yielded \/ (yielded < Len(output) /\ yielded' = yielded + 1)
    PROVE  IInv'
<1>1. /\ UNCHANGED bufferVars /\ controller' = controller
      /\ upstream' = upstream /\ round_index' = round_index /\ current_body' = current_body
      /\ open' = open /\ calls' = calls /\ results' = results /\ generator' = generator
      /\ events' = events
  BY DEF roundVars, searchVars
<1>2. /\ BufferTypes' /\ BufferInv' /\ OrderInv' /\ IndexInv' /\ input' = input /\ output' = output
      /\ Announced' = Announced /\ Finished' = Finished /\ Reported(input)' = Reported(input)
  BY <1>1, InputFrame
<1>3. ToldInv' /\ CompletedInv' /\ RoundInv' /\ U' = U /\ ThisRound' = ThisRound
  BY <1>1, <1>2, RoundFrame
<1>4. /\ yielded' \in 0..Len(output)
      /\ \A k \in yielded' + 1 .. Len(input) : k \in yielded + 1 .. Len(input)
  <2>1. yielded \in 0..Len(output) /\ Len(output) \in Nat /\ Len(input) \in Nat
    BY LenProperties DEF IInv, Types, BufferTypes
  <2> QED
    BY <2>1
<1>5. Types'
  BY <1>1, <1>2, <1>4 DEF IInv, Types, UpstreamTypes, ControllerTypes, GeneratorTypes
<1>6. generator \notin Ended => LiveInv'
  <2> SUFFICES ASSUME LiveInv
               PROVE  LiveInv'
    BY DEF IInv
  <2>1. Pending' = Pending
    BY <1>1 DEF Pending
  <2>2. ChunkInv => ChunkInv'
    BY <1>1, <1>2, <1>3, <2>1 DEF ChunkInv, AddedHere
  <2>3. ClosingInv => ClosingInv'
    BY <1>1, <1>2, <1>3, <2>1 DEF ClosingInv
  <2>4. SearchingInv => SearchingInv'
    BY <1>1, <1>2 DEF SearchingInv
  <2>5. AnnouncingInv => AnnouncingInv'
    BY <1>1, <1>2 DEF AnnouncingInv, ToTell
  <2>6. (\A k \in yielded + 1 .. Len(input) : ~Reports(input[k]))
            => \A k \in yielded' + 1 .. Len(input') : ~Reports(input'[k])
    BY <1>2, <1>4
  <2> QED
    BY <1>1, <1>2, <1>3, <2>2, <2>3, <2>4, <2>5, <2>6 DEF LiveInv, InBody, Positions
<1> QED
  BY <1>1, <1>2, <1>3, <1>5, <1>6 DEF IInv

-----------------------------------------------------------------------------
(* The events of a chunk. *)

LEMMA ItemKinds ==
    /\ Messages \subseteq Items /\ Searches \subseteq Items
    /\ Messages \cap Searches = {}
    /\ NoItem \notin Items
    /\ \A r \in Rounds : /\ Message(r) \in Messages /\ Message(r).round = r
                         /\ Call(r) \in Items \ (Messages \cup Searches) /\ Call(r).round = r
<1>1. Messages \subseteq Items /\ Searches \subseteq Items
  BY DEF Items
<1>2. \A i \in Messages : i.kind = "message"
  BY DEF Messages, Message
<1>3. \A i \in Searches : i.kind = "search"
  BY DEF Searches, Search
<1>4. \A r \in Rounds : Call(r).kind = "call" /\ Call(r).round = r /\ Call(r) \in Items
  BY DEF Call, Items
<1>5. NoItem.kind = "none" /\ \A i \in Items : i.kind # "none"
  BY <1>2, <1>3, <1>4 DEF Items, NoItem
<1>6. \A r \in Rounds : Message(r) \in Messages /\ Message(r).round = r
  BY DEF Messages, Message
<1> QED
  BY <1>1, <1>2, <1>3, <1>4, <1>5, <1>6

LEMMA EventFacts ==
    ASSUME NEW type, NEW kind, NEW item, NEW index
    PROVE  /\ Event(type, kind, item, index).type = type
           /\ Event(type, kind, item, index).kind = kind
           /\ Event(type, kind, item, index).item = item
           /\ Event(type, kind, item, index).index = index
           /\ Event(type, kind, item, index).id = IF item \in Messages THEN item ELSE NoItem
           /\ Event(type, kind, item, index).status = "none"
           /\ (/\ type \in {"created", "added", "text", "done", "completed"}
               /\ kind \in PB!Kinds /\ item \in Items \cup {NoItem} /\ index \in Nat)
              => Event(type, kind, item, index) \in SourceEvents
<1> DEFINE id == IF item \in Messages THEN item ELSE NoItem
<1>1. Event(type, kind, item, index)
        = [type |-> type, kind |-> kind, id |-> id, size |-> 1, item |-> item, index |-> index,
           status |-> "none", output |-> <<>>]
  BY DEF Event
<1>2. id \in Messages \cup {NoItem}
  OBVIOUS
<1>3. \A T : <<>> \in Seq(T)
  OBVIOUS
<1>4. "none" \in Outcomes \cup {"none"}
  OBVIOUS
<1> HIDE DEF id
<1> QED
  BY <1>1, <1>2, <1>3, <1>4 DEF SourceEvents, id

\* The output order is an order of the same items.
LEMMA OrderFacts ==
    ASSUME NEW items \in Seq(Items)
    PROVE  /\ InOutputOrder(items) \in Seq(Items)
           /\ ToSet(InOutputOrder(items)) = ToSet(items)
           /\ IsInjective(items) => IsInjective(InOutputOrder(items))
<1> DEFINE a == Select(items, Messages)
           b == Select(items, Items \ Messages)
           n == Len(items)
           c == a \o b
<1>1. /\ n \in Nat /\ DOMAIN items = 1..n /\ \A k \in 1..n : items[k] \in Items
  BY LenProperties, ElementOfSeq
<1>2. /\ a \in Seq(Items \cap Messages)
      /\ \A i \in 1..Len(a) : \E k \in 1..n : items[k] = a[i]
      /\ \A k \in 1..n : items[k] \in Messages => \E i \in 1..Len(a) : a[i] = items[k]
      /\ IsInjective(items) => IsInjective(a)
  BY SelectFacts
<1>3. /\ b \in Seq(Items \cap (Items \ Messages))
      /\ \A i \in 1..Len(b) : \E k \in 1..n : items[k] = b[i]
      /\ \A k \in 1..n : items[k] \in Items \ Messages => \E i \in 1..Len(b) : b[i] = items[k]
      /\ IsInjective(items) => IsInjective(b)
  <2> DEFINE R == Items \ Messages
             d == Select(items, R)
  <2>1. d = b
    OBVIOUS
  <2> HIDE DEF R, b
  <2>2. d \in Seq(Items \cap R)
    BY SelectFacts
  <2>3. \A i \in 1..Len(d) : \E k \in 1..n : items[k] = d[i]
    BY SelectFacts
  <2>4. \A k \in 1..n : items[k] \in R => \E i \in 1..Len(d) : d[i] = items[k]
    BY SelectFacts
  <2>5. IsInjective(items) => IsInjective(d)
    BY SelectFacts
  <2> HIDE DEF d
  <2> QED
    BY <2>1, <2>2, <2>3, <2>4, <2>5 DEF R
<1>4. InOutputOrder(items) = c
  BY DEF InOutputOrder
<1> HIDE DEF a, b
<1>5. /\ a \in Seq(Items) /\ Len(a) \in Nat /\ DOMAIN a = 1..Len(a)
      /\ \A i \in 1..Len(a) : a[i] \in Messages
  <2>1. Items \cap Messages \subseteq Items
    OBVIOUS
  <2>2. \A i \in 1..Len(a) : a[i] \in Items \cap Messages
    BY <1>2, ElementOfSeq
  <2> QED
    BY <1>2, <2>1, <2>2, SeqMonotonic, LenProperties
<1>6. /\ b \in Seq(Items) /\ Len(b) \in Nat /\ DOMAIN b = 1..Len(b)
      /\ \A i \in 1..Len(b) : b[i] \notin Messages
  <2>1. Items \cap (Items \ Messages) \subseteq Items
    OBVIOUS
  <2>2. \A i \in 1..Len(b) : b[i] \in Items \cap (Items \ Messages)
    BY <1>3, ElementOfSeq
  <2> QED
    BY <1>3, <2>1, <2>2, SeqMonotonic, LenProperties
<1>7. /\ c \in Seq(Items) /\ Len(c) = Len(a) + Len(b)
      /\ \A i \in 1..Len(a) + Len(b) : c[i] = IF i <= Len(a) THEN a[i] ELSE b[i - Len(a)]
  <2>1. a \in Seq(Items) /\ b \in Seq(Items)
    BY <1>5, <1>6
  <2>2. /\ a \o b \in Seq(Items) /\ Len(a \o b) = Len(a) + Len(b)
        /\ \A i \in 1..Len(a) + Len(b) : (a \o b)[i] = IF i <= Len(a) THEN a[i] ELSE b[i - Len(a)]
    BY <2>1, ConcatProperties
  <2> QED
    BY <2>2
<1> HIDE DEF c
<1>8. DOMAIN c = 1..Len(a) + Len(b)
  BY <1>7, LenProperties
<1>9. \A i \in 1..Len(a) : i \in 1..Len(a) + Len(b) /\ c[i] = a[i]
  <2> TAKE i \in 1..Len(a)
  <2>1. i \in 1..Len(a) + Len(b) /\ i <= Len(a)
    BY <1>5, <1>6
  <2> QED
    BY <1>7, <2>1
<1>10. \A i \in 1..Len(b) : Len(a) + i \in 1..Len(a) + Len(b) /\ c[Len(a) + i] = b[i]
  <2> TAKE i \in 1..Len(b)
  <2>1. /\ Len(a) + i \in 1..Len(a) + Len(b) /\ ~(Len(a) + i <= Len(a))
        /\ (Len(a) + i) - Len(a) = i
    BY <1>5, <1>6
  <2> QED
    BY <1>7, <2>1
<1>11. \A i \in 1..Len(a) + Len(b) :
            i \in 1..Len(a) \/ (i - Len(a) \in 1..Len(b) /\ Len(a) + (i - Len(a)) = i)
  BY <1>5, <1>6
<1>12. ToSet(c) = ToSet(items)
  <2>1. \A i \in DOMAIN c : \E k \in 1..n : items[k] = c[i]
    <3> TAKE i \in DOMAIN c
    <3>1. CASE i \in 1..Len(a)
      BY <1>2, <1>9, <3>1
    <3>2. CASE i - Len(a) \in 1..Len(b) /\ Len(a) + (i - Len(a)) = i
      <4>1. c[i] = b[i - Len(a)]
        BY <1>10, <3>2
      <4> QED
        BY <1>3, <3>2, <4>1
    <3> QED
      BY <1>8, <1>11, <3>1, <3>2
  <2>2. \A k \in 1..n : \E i \in DOMAIN c : c[i] = items[k]
    <3> TAKE k \in 1..n
    <3>1. CASE items[k] \in Messages
      BY <1>2, <1>8, <1>9, <3>1
    <3>2. CASE items[k] \notin Messages
      <4>1. PICK i \in 1..Len(b) : b[i] = items[k]
        BY <1>1, <1>3, <3>2
      <4> QED
        BY <1>8, <1>10, <4>1
    <3> QED
      BY <3>1, <3>2
  <2> QED
    BY <1>1, <2>1, <2>2 DEF ToSet
<1>13. ASSUME IsInjective(items)
       PROVE  IsInjective(c)
  <2>1. (\A i, j \in 1..Len(a) : a[i] = a[j] => i = j) /\ (\A i, j \in 1..Len(b) : b[i] = b[j] => i = j)
    BY <1>2, <1>3, <1>5, <1>6, <1>13 DEF IsInjective
  <2> SUFFICES ASSUME NEW i \in 1..Len(a) + Len(b), NEW j \in 1..Len(a) + Len(b), c[i] = c[j]
               PROVE  i = j
    BY <1>8 DEF IsInjective
  <2> DEFINE l == Len(a)
             x == i - l
             y == j - l
  <2>2. /\ (i \in 1..l /\ c[i] = a[i]) \/ (x \in 1..Len(b) /\ l + x = i /\ c[i] = b[x])
        /\ (j \in 1..l /\ c[j] = a[j]) \/ (y \in 1..Len(b) /\ l + y = j /\ c[j] = b[y])
    BY <1>9, <1>10, <1>11
  <2> HIDE DEF x, y
  <2> QED
    BY <1>5, <1>6, <2>1, <2>2
<1> QED
  BY <1>4, <1>7, <1>12, <1>13

\* Where an item is in the output.
LEMMA IndexType ==
    ASSUME NEW items \in Seq(Items), NEW item \in ToSet(items)
    PROVE  IndexIn(InOutputOrder(items), item) \in Nat
<1> DEFINE c == InOutputOrder(items)
           k == CHOOSE k \in DOMAIN c : c[k] = item
<1>1. c \in Seq(Items) /\ item \in ToSet(c)
  BY OrderFacts
<1> HIDE DEF c
<1>2. \E j \in DOMAIN c : c[j] = item
  BY <1>1 DEF ToSet
<1>3. k \in DOMAIN c
  BY <1>2
<1>4. k \in 1..Len(c) /\ Len(c) \in Nat
  BY <1>1, <1>3, LenProperties
<1>5. IndexIn(c, item) = k - 1
  BY DEF IndexIn
<1> HIDE DEF k
<1>6. k - 1 \in Nat
  BY <1>4
<1> QED
  BY <1>5, <1>6 DEF c

LEMMA ItemEvents ==
    ASSUME NEW items \in Seq(Items), NEW item \in ToSet(items)
    PROVE  /\ Added(item, items) \in SourceEvents /\ Proper(Added(item, items))
           /\ Added(item, items).type = "added" /\ Added(item, items).item = item
           /\ Done(item, items) \in SourceEvents /\ Proper(Done(item, items))
           /\ Done(item, items).type = "done" /\ Done(item, items).item = item
<1> DEFINE x == IndexIn(InOutputOrder(items), item)
<1>1. x \in Nat
  BY IndexType
<1>2. item \in Items
  BY LenProperties, ElementOfSeq DEF ToSet
<1>3. KindOf(item) \in PB!Kinds
  BY DEF KindOf, PB!Kinds, PB!MessageKinds, PB!ToolKinds
<1> HIDE DEF x
<1>4. \A type \in {"added", "done"} :
        LET e == Event(type, KindOf(item), item, x)
        IN  e \in SourceEvents /\ Proper(e) /\ e.type = type /\ e.item = item
  <2> TAKE type \in {"added", "done"}
  <2> DEFINE e == Event(type, KindOf(item), item, x)
  <2>1. /\ e \in SourceEvents /\ e.type = type /\ e.kind = KindOf(item) /\ e.item = item
        /\ e.id = IF item \in Messages THEN item ELSE NoItem
    BY <1>1, <1>2, <1>3, EventFacts
  <2> HIDE DEF e
  <2> QED
    BY <1>2, <2>1 DEF Proper, e
<1> QED
  BY <1>4 DEF Added, Done, x

LEMMA TextEvent ==
    ASSUME NEW m \in Messages
    PROVE  Text(m) \in SourceEvents /\ Proper(Text(m)) /\ Text(m).type = "text" /\ Text(m).item = m
<1>1. m \in Items /\ "message_part" \in PB!Kinds /\ 0 \in Nat
  BY ItemKinds DEF PB!Kinds, PB!MessageKinds
<1>2. /\ Text(m) \in SourceEvents /\ Text(m).type = "text" /\ Text(m).kind = "message_part"
      /\ Text(m).item = m /\ Text(m).id = m
  BY <1>1, EventFacts DEF Text
<1> QED
  BY <1>2 DEF Proper

LEMMA CreatedEvent ==
    /\ Created \in SourceEvents /\ Proper(Created)
    /\ Created.type = "created" /\ Created.item = NoItem
<1>1. "other" \in PB!Kinds /\ 0 \in Nat
  BY DEF PB!Kinds
<1>2. Created \in SourceEvents /\ Created.type = "created" /\ Created.item = NoItem
  BY <1>1, EventFacts DEF Created
<1> QED
  BY <1>2 DEF Proper

\* The first chunk creates the response.
LEMMA ChunkEvents ==
    ASSUME NEW source \in Seq(SourceEvents), NEW pre \in {<<>>, <<Created>>}
    PROVE  /\ pre \o source \in Seq(SourceEvents)
           /\ Len(pre) \in {0, 1}
           /\ pre = <<Created>> => pre \o source # <<>> /\ (pre \o source)[1] = Created
           /\ Len(pre \o source) = Len(pre) + Len(source)
           /\ \A m \in 1..Len(source) :
                  Len(pre) + m \in 1..Len(pre \o source) /\ (pre \o source)[Len(pre) + m] = source[m]
           /\ \A k \in 1..Len(pre \o source) :
                  \/ k = 1 /\ Len(pre) = 1 /\ (pre \o source)[k] = Created
                  \/ /\ k - Len(pre) \in 1..Len(source) /\ Len(pre) + (k - Len(pre)) = k
                     /\ (pre \o source)[k] = source[k - Len(pre)]
<1> DEFINE es == pre \o source
           d == Len(pre)
           n == Len(source)
<1>1. pre \in Seq(SourceEvents) /\ d \in {0, 1} /\ n \in Nat
      /\ (pre = <<Created>> => d = 1 /\ pre[1] = Created)
      /\ (d = 1 => pre[1] = Created)
  <2>1. Created \in SourceEvents
    BY CreatedEvent
  <2>2. <<>> \in Seq(SourceEvents) /\ Len(<<>>) = 0
    OBVIOUS
  <2>3. /\ <<Created>> \in Seq(SourceEvents) /\ Len(<<Created>>) = 1
        /\ <<Created>>[1] = Created
    BY <2>1
  <2>4. n \in Nat
    BY LenProperties
  <2>5. CASE pre = <<>>
    <3>1. d = 0 /\ <<>> # <<Created>>
      BY <2>2, <2>3, <2>5
    <3> HIDE DEF n, d
    <3> QED
      BY <2>2, <2>4, <2>5, <3>1
  <2>6. CASE pre = <<Created>>
    <3>1. d = 1
      BY <2>3, <2>6
    <3> HIDE DEF n, d
    <3> QED
      BY <2>3, <2>4, <2>6, <3>1
  <2> QED
    BY <2>5, <2>6
<1>2. /\ es \in Seq(SourceEvents) /\ Len(es) = d + n
      /\ \A i \in 1..d + n : es[i] = IF i <= d THEN pre[i] ELSE source[i - d]
  <2>1. /\ pre \o source \in Seq(SourceEvents) /\ Len(pre \o source) = Len(pre) + Len(source)
        /\ \A i \in 1..Len(pre) + Len(source) :
              (pre \o source)[i] = IF i <= Len(pre) THEN pre[i] ELSE source[i - Len(pre)]
    BY <1>1, ConcatProperties
  <2> QED
    BY <2>1
<1> HIDE DEF es, d, n
<1>3. ASSUME NEW m \in 1..n
      PROVE  d + m \in 1..Len(es) /\ es[d + m] = source[m]
  <2>1. d + m \in 1..d + n /\ ~(d + m <= d) /\ (d + m) - d = m
    BY <1>1
  <2> QED
    BY <1>2, <2>1
<1>4. ASSUME NEW k \in 1..Len(es)
      PROVE  \/ k = 1 /\ d = 1 /\ es[k] = Created
             \/ k - d \in 1..n /\ d + (k - d) = k /\ es[k] = source[k - d]
  <2>1. k \in 1..d + n
    BY <1>2
  <2>2. CASE k <= d
    <3>1. k = 1 /\ d = 1
      BY <1>1, <2>1, <2>2
    <3> QED
      BY <1>1, <1>2, <2>1, <2>2, <3>1
  <2>3. CASE ~(k <= d)
    <3>1. k - d \in 1..n /\ d + (k - d) = k
      BY <1>1, <2>1, <2>3
    <3> QED
      BY <1>2, <2>1, <2>3, <3>1
  <2> QED
    BY <2>2, <2>3
<1>5. pre = <<Created>> => es # <<>> /\ es[1] = Created
  <2>1. d = 1 => Len(es) # 0 /\ 1 \in 1..d + n /\ 1 <= d
    BY <1>1, <1>2
  <2>2. Len(<<>>) = 0
    OBVIOUS
  <2> QED
    BY <1>1, <1>2, <2>1, <2>2
<1> QED
  BY <1>1, <1>2, <1>3, <1>4, <1>5 DEF es, d, n

\* What the processor makes of a chunk.
ProperChunk(items, finished, source) ==
    /\ items \in Seq(Items) /\ IsInjective(items)
    /\ \A i \in ToSet(items) : i.round = round_index
    /\ Len(items) <= upstream.n + 1
    /\ finished \in BOOLEAN
    /\ ~finished => upstream.n < MaxChunks
    /\ source \in Seq(SourceEvents)
    /\ \A k \in 1..Len(source) :
          Proper(source[k]) /\ source[k].type # "created" /\ source[k].type # "completed"
    /\ Once(source)
    /\ ToSet(items) = U \cup ItemsOf(source, "added")
    /\ U \cap ItemsOf(source, "added") = {}
    /\ ItemsOf(source, "done") = IF finished THEN ToSet(items) ELSE {}
    /\ \A k \in 1..Len(source) :
          source[k].type \in {"text", "done"} =>
              /\ source[k].item \in ToSet(items)
              /\ \/ source[k].item \in U
                 \/ \E j \in 1..k - 1 : source[j].type = "added" /\ source[j].item = source[k].item

\* Where the generator waits for a chunk.
LEMMA Awaiting ==
    ASSUME IInv, AwaitsChunk
    PROVE  /\ generator = "streaming" /\ events = <<>> /\ yielded = Len(output)
           /\ LiveInv /\ ChunkInv /\ open
           /\ U = ThisRound
           /\ ItemsOf(events, "added") = {} /\ ItemsOf(events, "done") = {}
           /\ \A k \in Positions : input[k].type # "completed"
           /\ (~upstream.finished => controller.pending_calls = <<>> /\ Pending = {})
<1>1. generator = "streaming" /\ events = <<>> /\ ~(yielded < Len(output))
  BY DEF AwaitsChunk, Delivering
<1>2. yielded \in 0..Len(output) /\ Len(output) \in Nat
  BY LenProperties DEF IInv, Types, BufferTypes
<1>3. yielded = Len(output)
  BY <1>1, <1>2
<1>4. LiveInv /\ ChunkInv /\ open
  BY <1>1 DEF IInv, Ended, LiveInv
<1>5. ItemsOf(events, "added") = {} /\ ItemsOf(events, "done") = {}
  <2>1. Len(events) = 0 /\ 1..0 = {}
    BY <1>1
  <2> QED
    BY <2>1 DEF ItemsOf
<1>6. U = ThisRound
  BY <1>4, <1>5 DEF ChunkInv
<1>7. \A k \in Positions : input[k].type # "completed"
  BY <1>1, <1>4 DEF LiveInv
<1>8. ~upstream.finished => controller.pending_calls = <<>>
  BY DEF IInv, RoundInv
<1>9. controller.pending_calls = <<>> => Pending = {}
  BY DEF Pending, ToSet
<1> QED
  BY <1>1, <1>3, <1>4, <1>5, <1>6, <1>7, <1>8, <1>9

LEMMA ReceiveInv ==
    ASSUME IInv, NEW items, NEW finished, NEW source, ProperChunk(items, finished, source),
           Receive(items, finished, source)
    PROVE  IInv'
<1> DEFINE pre == IF upstream.n = 0 THEN <<Created>> ELSE <<>>
           es == pre \o source
           d == Len(pre)
           n == Len(source)
<1>1. /\ Types /\ BufferInv /\ OrderInv /\ IndexInv /\ ToldInv /\ CompletedInv /\ RoundInv
      /\ UpstreamTypes /\ GeneratorTypes
  BY DEF IInv, Types
<1>2. /\ AwaitsChunk /\ ~upstream.finished
      /\ upstream' = [n |-> upstream.n + 1, items |-> items, finished |-> finished]
      /\ events' = es
      /\ open' = open /\ round_index' = round_index /\ current_body' = current_body
      /\ controller' = controller /\ calls' = calls /\ results' = results
      /\ generator' = generator /\ yielded' = yielded /\ UNCHANGED bufferVars
  BY DEF Receive, searchVars
<1>3. /\ generator = "streaming" /\ LiveInv /\ ChunkInv /\ open /\ U = ThisRound
      /\ \A k \in Positions : input[k].type # "completed"
      /\ controller.pending_calls = <<>> /\ Pending = {}
  BY <1>2, Awaiting
<1>4. /\ BufferTypes' /\ BufferInv' /\ OrderInv' /\ IndexInv'
      /\ Announced' = Announced /\ Finished' = Finished /\ input' = input
      /\ output' = output /\ Reported(input)' = Reported(input)
  BY <1>2, InputFrame
<1>5. U' = ToSet(items) /\ ThisRound' = ThisRound /\ Pending' = Pending
  BY <1>2, <1>4 DEF U, ThisRound, Pending
<1>6. pre \in {<<>>, <<Created>>} /\ (upstream.n = 0 => pre = <<Created>>)
  OBVIOUS
<1>7. source \in Seq(SourceEvents)
  BY DEF ProperChunk
<1> HIDE DEF pre
<1>8. /\ es \in Seq(SourceEvents) /\ d \in {0, 1} /\ (pre = <<Created>> => es # <<>> /\ es[1] = Created)
      /\ Len(es) = d + n
  BY <1>6, <1>7, ChunkEvents
<1>9. \A m \in 1..n : d + m \in 1..Len(es) /\ es[d + m] = source[m]
  BY <1>6, <1>7, ChunkEvents
<1>10. \A k \in 1..Len(es) :
          \/ k = 1 /\ d = 1 /\ es[k] = Created
          \/ k - d \in 1..n /\ d + (k - d) = k /\ es[k] = source[k - d]
  BY <1>6, <1>7, ChunkEvents
<1> HIDE DEF es, d, n
<1>11. n \in Nat /\ Len(es) \in Nat
  BY <1>7, <1>8, LenProperties DEF n
<1>12. \A k \in 1..Len(es) : Proper(es[k]) /\ es[k].type # "completed"
  BY <1>10, CreatedEvent DEF ProperChunk, n
<1>13. \A type \in {"added", "done"} : ItemsOf(es, type) = ItemsOf(source, type)
  <2> TAKE type \in {"added", "done"}
  <2>1. \A i \in Items : i \in ItemsOf(es, type) <=> i \in ItemsOf(source, type)
    <3> TAKE i \in Items
    <3>1. ASSUME NEW k \in 1..Len(es), es[k].type = type, es[k].item = i
          PROVE  i \in ItemsOf(source, type)
      BY <1>10, <3>1, CreatedEvent DEF ItemsOf, n
    <3>2. ASSUME NEW m \in 1..n, source[m].type = type, source[m].item = i
          PROVE  i \in ItemsOf(es, type)
      BY <1>9, <3>2 DEF ItemsOf
    <3> QED
      BY <3>1, <3>2 DEF ItemsOf, n
  <2> QED
    BY <2>1 DEF ItemsOf
<1>14. Once(es)
  <2> SUFFICES ASSUME NEW j \in 1..Len(es), NEW k \in 1..Len(es),
                      es[j].type \in {"added", "done"}, es[j].type = es[k].type,
                      es[j].item = es[k].item
               PROVE  j = k
    BY DEF Once
  <2>1. /\ j - d \in 1..n /\ d + (j - d) = j /\ es[j] = source[j - d]
        /\ k - d \in 1..n /\ d + (k - d) = k /\ es[k] = source[k - d]
    BY <1>10, CreatedEvent
  <2>2. j - d = k - d
    BY <2>1 DEF ProperChunk, Once, n
  <2> QED
    BY <1>8, <2>2
<1>15. \A k \in 1..Len(es) : es[k].type \in {"text", "done"} =>
          /\ es[k].item \in ToSet(items)
          /\ es[k].item \in U \/ \E j \in 1..k - 1 : es[j].type = "added" /\ es[j].item = es[k].item
  <2> TAKE k \in 1..Len(es)
  <2> HAVE es[k].type \in {"text", "done"}
  <2>1. k - d \in 1..n /\ d + (k - d) = k /\ es[k] = source[k - d]
    BY <1>10, CreatedEvent
  <2> DEFINE m == k - d
  <2>2. m \in 1..n /\ d + m = k /\ es[k] = source[m]
    BY <2>1
  <2> HIDE DEF m
  <2>3. /\ source[m].item \in ToSet(items)
        /\ \/ source[m].item \in U
           \/ \E j \in 1..m - 1 : source[j].type = "added" /\ source[j].item = source[m].item
    BY <2>2 DEF ProperChunk, n
  <2>4. ASSUME NEW j \in 1..m - 1, source[j].type = "added", source[j].item = source[m].item
        PROVE  \E i \in 1..k - 1 : es[i].type = "added" /\ es[i].item = es[k].item
    <3>1. j \in 1..n /\ d + j \in 1..k - 1
      BY <1>8, <1>11, <2>2
    <3> QED
      BY <1>9, <2>2, <2>4, <3>1
  <2> QED
    BY <2>2, <2>3, <2>4
<1>16. UpstreamTypes'
  <2>1. upstream.n + 1 \in 0..MaxChunks + 1
    BY <1>1, <1>2, RoundsAssumption DEF UpstreamTypes, RoundInv
  <2> QED
    BY <1>1, <1>2, <2>1 DEF UpstreamTypes, ProperChunk
<1>17. GeneratorTypes'
  BY <1>1, <1>2, <1>8, <1>12 DEF GeneratorTypes
<1>18. Types'
  BY <1>1, <1>2, <1>4, <1>16, <1>17, SameController DEF Types
<1>19. ToldInv'
  BY <1>1, <1>2, <1>4 DEF ToldInv, InBody
<1>20. CompletedInv'
  BY <1>3, <1>4 DEF CompletedInv, Positions
<1>21. RoundInv'
  <2>1. upstream.n \in Nat /\ upstream'.n = upstream.n + 1 /\ upstream.n + 1 # 0
        /\ (upstream.n < MaxChunks => upstream.n + 1 <= MaxChunks)
    BY <1>1, <1>2, RoundsAssumption DEF UpstreamTypes
  <2>2. upstream'.items = items /\ upstream'.finished = finished
    BY <1>2
  <2>3. controller'.pending_calls = <<>> /\ IsInjective(controller'.pending_calls)
    BY <1>1, <1>2, <1>3 DEF RoundInv
  <2> QED
    BY <1>2, <1>3, <1>5, <2>1, <2>2, <2>3 DEF RoundInv, ProperChunk
<1>22. ChunkInv'
  <2>1. upstream'.n # 0 /\ upstream'.finished = finished
    BY <1>1, <1>2 DEF UpstreamTypes
  <2>2. input = <<>> => es # <<>> /\ es[1].type = "created"
    <3>1. events = <<>>
      BY <1>2, Awaiting
    <3>2. input = <<>> => upstream.n = 0
      BY <1>3, <3>1 DEF ChunkInv
    <3> QED
      BY <1>6, <1>8, <3>2, CreatedEvent
  <2>3. ItemsOf(es, "added") = ItemsOf(source, "added") /\ ItemsOf(es, "done") = ItemsOf(source, "done")
    BY <1>13
  <2>4. Finished \cap U = {} /\ ItemsOf(source, "added") \cap Announced = {}
        /\ Finished \subseteq Announced
    <3>1. Finished \cap U = {}
      BY <1>2, <1>3 DEF ChunkInv
    <3>2. \A i \in ItemsOf(source, "added") : i \in ToSet(items) /\ i \notin ThisRound
      BY <1>3 DEF ProperChunk
    <3>3. \A i \in Announced : i \in ThisRound \/ i.round # round_index
      BY DEF ThisRound
    <3>4. ItemsOf(source, "added") \cap Announced = {}
      BY <3>2, <3>3 DEF ProperChunk
    <3>5. Finished \subseteq Announced
      <4> SUFFICES ASSUME NEW i \in Finished
                   PROVE  i \in Announced
        OBVIOUS
      <4>1. PICK k \in Positions : input[k].type = "done" /\ input[k].item = i
        BY DEF Finished, ItemsOf, Positions
      <4>2. Follows(input, k)
        BY <1>1, <4>1 DEF OrderInv, Orderly, Positions
      <4>3. PICK j \in 1..k - 1 : input[j].type = "added" /\ input[j].item = i
        BY <4>1, <4>2 DEF Follows
      <4>4. j \in Positions
        BY <4>3 DEF Positions
      <4> QED
        BY <4>3, <4>4 DEF Announced, ItemsOf, Positions, Finished
    <3> QED
      BY <3>1, <3>4, <3>5
  <2>5. ItemsOf(source, "done") \cap Finished = {}
    BY <2>4 DEF ProperChunk
  <2>6. \A k \in 1..Len(es) : es[k].type \in {"text", "done"} =>
            es[k].item \in ToSet(items) /\ (es[k].item \in Announced \/ AddedHere(k)')
    BY <1>2, <1>3, <1>15 DEF AddedHere, ThisRound
  <2>7. ToSet(items) = ThisRound \cup ItemsOf(es, "added")
    BY <1>3, <2>3 DEF ProperChunk
  <2>8. ~finished => Finished \cap ToSet(items) = {}
    BY <2>4 DEF ProperChunk
  <2>9. /\ ItemsOf(es, "done") # {} => finished
        /\ finished => ToSet(items) \subseteq ItemsOf(es, "done")
    BY <2>3 DEF ProperChunk
  <2> QED
    BY <1>2, <1>3, <1>4, <1>5, <1>12, <1>14, <2>1, <2>2, <2>3, <2>4, <2>5, <2>6, <2>7, <2>8, <2>9
    DEF ChunkInv
<1>23. LiveInv'
  <2>1. generator' = "streaming" /\ open'
    BY <1>2, <1>3
  <2>2. calls' = <<>> /\ results' = <<>>
    BY <1>2, <1>3 DEF LiveInv
  <2>3. Reported(input) = controller.completed_items /\ current_body = Reported(input)
    BY <1>3 DEF LiveInv
  <2>4. \A k \in yielded + 1 .. Len(input) : ~Reports(input[k])
    BY <1>3 DEF LiveInv
  <2>5. ~\E k \in Positions' : input'[k].type = "completed"
    BY <1>3, <1>4 DEF Positions
  <2> QED
    BY <1>2, <1>4, <1>22, <2>1, <2>2, <2>3, <2>4, <2>5 DEF LiveInv
<1>24. open' => generator' = "streaming"
  BY <1>2, <1>3
<1> QED
  BY <1>4, <1>18, <1>19, <1>20, <1>21, <1>23, <1>24 DEF IInv

\* The items with one more.
LEMMA OneMore ==
    ASSUME Types, RoundInv, NEW item \in Items, item \notin U, item.round = round_index
    PROVE  /\ Append(upstream.items, item) \in Seq(Items)
           /\ IsInjective(Append(upstream.items, item))
           /\ ToSet(Append(upstream.items, item)) = U \cup {item}
           /\ \A i \in ToSet(Append(upstream.items, item)) : i.round = round_index
           /\ Len(Append(upstream.items, item)) <= upstream.n + 1
<1> DEFINE s == upstream.items
           a == Append(s, item)
           l == Len(s)
<1>1. s \in Seq(Items) /\ l \in Nat /\ upstream.n \in Nat /\ l <= upstream.n
      /\ DOMAIN s = 1..l
  BY LenProperties, RoundsAssumption DEF Types, UpstreamTypes, RoundInv
<1>2. /\ a \in Seq(Items) /\ Len(a) = l + 1 /\ a[l + 1] = item
      /\ \A k \in 1..l : a[k] = s[k]
  BY <1>1, AppendProperties
<1>3. U = {s[k] : k \in 1..l}
  BY <1>1 DEF U, ToSet
<1> HIDE DEF a
<1>4. DOMAIN a = 1..l + 1
  BY <1>2, LenProperties
<1>5. (\A k \in 1..l + 1 : k \in 1..l \/ k = l + 1) /\ (\A k \in 1..l : k \in 1..l + 1)
      /\ l + 1 \in 1..l + 1 /\ l + 1 <= upstream.n + 1
  BY <1>1
<1>6. ToSet(a) = U \cup {item}
  <2>1. ToSet(a) = {a[k] : k \in 1..l + 1}
    BY <1>4 DEF ToSet
  <2> HIDE DEF s, l
  <2> QED
    BY <1>2, <1>3, <1>5, <2>1
<1>7. IsInjective(a)
  <2>1. \A j, k \in 1..l : s[j] = s[k] => j = k
    BY <1>1 DEF RoundInv, IsInjective
  <2>2. \A k \in 1..l : s[k] # item
    BY <1>3
  <2> SUFFICES ASSUME NEW j \in 1..l + 1, NEW k \in 1..l + 1, a[j] = a[k]
               PROVE  j = k
    BY <1>4 DEF IsInjective
  <2> HIDE DEF s, l
  <2> QED
    BY <1>2, <1>5, <2>1, <2>2
<1>8. \A i \in U \cup {item} : i.round = round_index
  BY DEF RoundInv
<1> QED
  BY <1>2, <1>5, <1>6, <1>7, <1>8 DEF a

LEMMA Pair ==
    ASSUME NEW S, NEW x \in S, NEW y \in S
    PROVE  <<x>> \o <<y>> = <<x, y>>
<1> DEFINE a == <<x>>
           b == <<y>>
           c == <<x, y>>
<1>1. a \in Seq(S) /\ Len(a) = 1 /\ a[1] = x /\ b \in Seq(S) /\ Len(b) = 1 /\ b[1] = y
  OBVIOUS
<1>2. c \in Seq(S) /\ Len(c) = 2 /\ c[1] = x /\ c[2] = y
  OBVIOUS
<1> HIDE DEF a, b, c
<1>3. /\ a \o b \in Seq(S) /\ Len(a \o b) = Len(a) + Len(b)
      /\ \A i \in 1..Len(a) + Len(b) : (a \o b)[i] = IF i <= Len(a) THEN a[i] ELSE b[i - Len(a)]
  BY <1>1, ConcatProperties
<1>4. 1 \in 1..2 /\ 2 \in 1..2 /\ 1 + 1 = 2 /\ 2 - 1 = 1 /\ 1 <= 1 /\ ~(2 <= 1)
      /\ \A i \in 1..2 : i = 1 \/ i = 2
  OBVIOUS
<1>5. Len(a \o b) = 2 /\ (a \o b)[1] = x /\ (a \o b)[2] = y
  BY <1>1, <1>3, <1>4
<1>6. a \o b = c
  BY <1>2, <1>3, <1>4, <1>5, SeqEqual
<1> QED
  BY <1>6 DEF a, b, c

\* A chunk that announces an item, or an item and its first text.
LEMMA AddsItem ==
    ASSUME Types, RoundInv, upstream.n < MaxChunks,
           NEW item \in Items, item \notin U, item.round = round_index,
           NEW more \in {<<>>, <<Text(item)>>}, more # <<>> => item \in Messages
    PROVE  ProperChunk(Append(upstream.items, item), FALSE,
                       <<Added(item, Append(upstream.items, item))>> \o more)
<1> DEFINE items == Append(upstream.items, item)
           x == Added(item, items)
           y == Text(item)
           source == <<x>> \o more
<1>1. /\ items \in Seq(Items) /\ IsInjective(items) /\ ToSet(items) = U \cup {item}
      /\ \A i \in ToSet(items) : i.round = round_index
      /\ Len(items) <= upstream.n + 1
  BY OneMore
<1> HIDE DEF items
<1>2. item \in ToSet(items)
  BY <1>1
<1>3. x \in SourceEvents /\ Proper(x) /\ x.type = "added" /\ x.item = item
  BY <1>1, <1>2, ItemEvents
<1>4. item \in Messages => y \in SourceEvents /\ Proper(y) /\ y.type = "text" /\ y.item = item
  BY TextEvent
<1> HIDE DEF x, y
<1>5. /\ source \in Seq(SourceEvents)
      /\ Len(source) \in {1, 2} /\ source[1] = x
      /\ (Len(source) = 2 => item \in Messages /\ source[2] = y)
  <2>1. CASE more = <<>>
    <3>1. source = <<x>>
      BY <2>1
    <3>2. <<x>> \in Seq(SourceEvents) /\ Len(<<x>>) = 1 /\ <<x>>[1] = x
      BY <1>3
    <3> HIDE DEF source
    <3> QED
      BY <3>1, <3>2
  <2>2. CASE more # <<>>
    <3>1. more = <<y>> /\ item \in Messages
      BY <2>2 DEF y
    <3>2. <<x>> \o <<y>> = <<x, y>>
      BY <1>3, <1>4, <3>1, Pair
    <3>3. source = <<x, y>>
      BY <3>1, <3>2
    <3> HIDE DEF source
    <3>4. <<x, y>> \in Seq(SourceEvents) /\ Len(<<x, y>>) = 2 /\ <<x, y>>[1] = x /\ <<x, y>>[2] = y
      BY <1>3, <1>4, <3>1
    <3> QED
      BY <3>1, <3>3, <3>4
  <2> QED
    BY <2>1, <2>2
<1> HIDE DEF source
<1>6. \A k \in 1..Len(source) :
         \/ k = 1 /\ source[k] = x
         \/ k = 2 /\ source[k] = y /\ item \in Messages
  <2>1. CASE Len(source) = 1
    <3>1. \A k \in 1..1 : k = 1
      OBVIOUS
    <3> QED
      BY <1>5, <2>1, <3>1
  <2>2. CASE Len(source) = 2
    <3>1. \A k \in 1..2 : k = 1 \/ k = 2
      OBVIOUS
    <3> QED
      BY <1>5, <2>2, <3>1
  <2> QED
    BY <1>5, <2>1, <2>2
<1>7. 1 \in 1..Len(source)
  BY <1>5
<1>8. ItemsOf(source, "added") = {item}
  BY <1>3, <1>4, <1>5, <1>6, <1>7 DEF ItemsOf
<1>9. ItemsOf(source, "done") = {}
  BY <1>3, <1>4, <1>6 DEF ItemsOf
<1>10. Once(source)
  BY <1>3, <1>4, <1>6 DEF Once
<1>11. \A k \in 1..Len(source) :
          Proper(source[k]) /\ source[k].type # "created" /\ source[k].type # "completed"
  BY <1>3, <1>4, <1>6
<1>12. \A k \in 1..Len(source) :
          source[k].type \in {"text", "done"} =>
              /\ source[k].item \in ToSet(items)
              /\ \E j \in 1..k - 1 : source[j].type = "added" /\ source[j].item = source[k].item
  <2> TAKE k \in 1..Len(source)
  <2> HAVE source[k].type \in {"text", "done"}
  <2>1. k = 2 /\ source[k] = y /\ item \in Messages
    BY <1>3, <1>6
  <2>2. 1 \in 1..k - 1
    BY <2>1
  <2> QED
    BY <1>2, <1>3, <1>4, <1>5, <2>1, <2>2
<1> QED
  BY <1>1, <1>5, <1>8, <1>9, <1>10, <1>11, <1>12 DEF ProperChunk, items, source, x

LEMMA StartsInv ==
    ASSUME IInv, NEW item \in Items, item.round = round_index, Starts(item)
    PROVE  IInv'
<1> DEFINE items == Append(upstream.items, item)
<1>1. /\ upstream.n < MaxChunks /\ item \notin U
      /\ Receive(items, FALSE, <<Added(item, items)>>)
  BY DEF Starts, U
<1>2. Types /\ RoundInv
  BY DEF IInv
<1>3. ProperChunk(items, FALSE, <<Added(item, items)>> \o <<>>)
  BY <1>1, <1>2, AddsItem
<1>4. <<Added(item, items)>> \o <<>> = <<Added(item, items)>>
  OBVIOUS
<1> HIDE DEF items
<1> QED
  BY <1>1, <1>3, <1>4, ReceiveInv

LEMMA TextChunkInv == ASSUME IInv, TextChunk PROVE IInv'
<1> DEFINE m == Message(round_index)
           items == Append(upstream.items, m)
<1>1. Types /\ RoundInv /\ upstream.n < MaxChunks
  BY DEF IInv, TextChunk
<1>2. m \in Messages /\ m \in Items /\ m.round = round_index
  BY <1>1, ItemKinds DEF Types, UpstreamTypes
<1>3. CASE m \notin U
  <2>1. Receive(items, FALSE, <<Added(m, items), Text(m)>>)
    BY <1>3 DEF TextChunk, U
  <2>2. ProperChunk(items, FALSE, <<Added(m, items)>> \o <<Text(m)>>)
    <3> DEFINE more == <<Text(m)>>
    <3>1. more \in {<<>>, <<Text(m)>>}
      OBVIOUS
    <3> HIDE DEF m, more
    <3> QED
      BY <1>1, <1>2, <1>3, <3>1, AddsItem DEF more
  <2>3. <<Added(m, items)>> \o <<Text(m)>> = <<Added(m, items), Text(m)>>
    <3>1. items \in Seq(Items) /\ m \in ToSet(items)
      BY <1>1, <1>2, <1>3, OneMore
    <3> HIDE DEF m, items
    <3>2. Added(m, items) \in SourceEvents /\ Text(m) \in SourceEvents
      BY <1>2, <3>1, ItemEvents, TextEvent
    <3> QED
      BY <3>2, Pair
  <2> HIDE DEF items, m
  <2> QED
    BY <2>1, <2>2, <2>3, ReceiveInv
<1>4. CASE m \in U
  <2> DEFINE source == <<Text(m)>>
  <2>1. Receive(upstream.items, FALSE, source)
    BY <1>4 DEF TextChunk, U
  <2>2. /\ Text(m) \in SourceEvents /\ Proper(Text(m))
        /\ Text(m).type = "text" /\ Text(m).item = m
    BY <1>2, TextEvent
  <2> HIDE DEF m
  <2>3. source \in Seq(SourceEvents) /\ Len(source) = 1 /\ \A k \in 1..Len(source) : source[k] = Text(m)
    BY <2>2
  <2> HIDE DEF source
  <2>4. ItemsOf(source, "added") = {} /\ ItemsOf(source, "done") = {}
    BY <2>2, <2>3 DEF ItemsOf
  <2>5. Once(source)
    BY <2>2, <2>3 DEF Once
  <2>6. /\ upstream.items \in Seq(Items) /\ IsInjective(upstream.items)
        /\ \A i \in ToSet(upstream.items) : i.round = round_index
        /\ Len(upstream.items) <= upstream.n + 1
    <3>1. upstream.items \in Seq(Items) /\ upstream.n \in Nat
      BY <1>1, RoundsAssumption DEF Types, UpstreamTypes
    <3>2. Len(upstream.items) \in Nat /\ Len(upstream.items) <= upstream.n
      BY <1>1, <3>1, LenProperties DEF RoundInv
    <3>3. Len(upstream.items) <= upstream.n + 1
      BY <3>1, <3>2
    <3> QED
      BY <1>1, <3>1, <3>3 DEF RoundInv, U
  <2>7. ProperChunk(upstream.items, FALSE, source)
    BY <1>1, <1>4, <2>2, <2>3, <2>4, <2>5, <2>6 DEF ProperChunk, U
  <2> QED
    BY <2>1, <2>7, ReceiveInv
<1> QED
  BY <1>3, <1>4

LEMMA CallChunkInv == ASSUME IInv, CallChunk PROVE IInv'
<1>1. Call(round_index) \in Items /\ Call(round_index).round = round_index
  BY ItemKinds DEF IInv, Types, UpstreamTypes
<1> QED
  BY <1>1, StartsInv DEF CallChunk

\* A round has no more searches than chunks.
LEMMA SearchChunkInv == ASSUME IInv, SearchChunk PROVE IInv'
<1> DEFINE found == SearchesIn(upstream.items)
           s == Search(round_index, Len(found) + 1)
<1>1. Types /\ RoundInv /\ upstream.n < MaxChunks
  BY DEF IInv, SearchChunk, Starts
<1>2. upstream.items \in Seq(Items) /\ upstream.n \in Nat /\ round_index \in Rounds
  BY <1>1, RoundsAssumption DEF Types, UpstreamTypes
<1>3. Len(upstream.items) \in Nat /\ Len(upstream.items) <= upstream.n
  BY <1>1, <1>2, LenProperties DEF RoundInv
<1>4. Len(found) \in Nat /\ Len(found) <= Len(upstream.items)
  <2>1. found \in Seq(Items \cap Searches) /\ Len(found) <= Len(upstream.items)
    BY <1>2, SelectFacts DEF SearchesIn
  <2> HIDE DEF found
  <2> QED
    BY <2>1, LenProperties
<1> HIDE DEF found
<1>5. Len(found) + 1 \in 1..MaxChunks
  BY <1>1, <1>2, <1>3, <1>4, RoundsAssumption
<1>6. s \in Searches /\ s.round = round_index
  BY <1>2, <1>5 DEF Searches, Search
<1>7. s \in Items
  BY <1>6, ItemKinds
<1>8. Starts(s)
  BY DEF SearchChunk, found
<1> HIDE DEF s
<1> QED
  BY <1>6, <1>7, <1>8, StartsInv

\* The finish chunk ends every item once.
LEMMA FinishChunkInv == ASSUME IInv, FinishChunk PROVE IInv'
<1> DEFINE items == upstream.items
           done == InOutputOrder(items)
           source == [k \in DOMAIN done |-> Done(done[k], items)]
           l == Len(done)
<1>1. Types /\ RoundInv /\ Receive(items, TRUE, source)
  BY DEF IInv, FinishChunk
<1>2. items \in Seq(Items) /\ upstream.n \in Nat /\ IsInjective(items)
  BY <1>1, RoundsAssumption DEF Types, UpstreamTypes, RoundInv
<1>3. Len(items) \in Nat /\ Len(items) <= upstream.n
  BY <1>1, <1>2, LenProperties DEF RoundInv
<1>4. done \in Seq(Items) /\ ToSet(done) = U /\ IsInjective(done)
  BY <1>2, OrderFacts DEF U
<1> HIDE DEF done, items
<1>5. l \in Nat /\ DOMAIN done = 1..l /\ U = {done[k] : k \in 1..l}
  <2>1. l \in Nat /\ DOMAIN done = 1..l
    BY <1>4, LenProperties
  <2> QED
    BY <1>4, <2>1 DEF ToSet
<1>6. \A k \in 1..l : /\ source[k] \in SourceEvents /\ Proper(source[k])
                      /\ source[k].type = "done" /\ source[k].item = done[k]
  <2> TAKE k \in 1..l
  <2>1. done[k] \in ToSet(items)
    BY <1>5 DEF U, items
  <2>2. source[k] = Done(done[k], items)
    BY <1>5
  <2> QED
    BY <1>2, <2>1, <2>2, ItemEvents
<1>7. source \in Seq(SourceEvents) /\ Len(source) = l
  <2>1. source = [k \in 1..l |-> Done(done[k], items)]
    BY <1>5
  <2> HIDE DEF source, l
  <2>2. source \in [1..l -> SourceEvents]
    BY <1>6, <2>1
  <2> QED
    BY <1>5, <2>2
<1> HIDE DEF source, l
<1>8. U \subseteq Items
  BY <1>5, <1>4, ElementOfSeq DEF l
<1>9. ItemsOf(source, "added") = {} /\ ItemsOf(source, "done") = U
  BY <1>5, <1>6, <1>7, <1>8 DEF ItemsOf
<1>10. Once(source)
  BY <1>4, <1>5, <1>6, <1>7 DEF Once, IsInjective
<1>11. \A k \in 1..l : source[k].item \in U
  BY <1>5, <1>6
<1>12. (\A i \in U : i.round = round_index) /\ Len(items) <= upstream.n + 1
  BY <1>1, <1>2, <1>3 DEF RoundInv
<1>13. ToSet(items) = U
  BY DEF U, items
<1>14. ProperChunk(items, TRUE, source)
  BY <1>2, <1>6, <1>7, <1>9, <1>10, <1>11, <1>12, <1>13 DEF ProperChunk
<1> QED
  BY <1>1, <1>14, ReceiveInv

-----------------------------------------------------------------------------
(* An event is processed. *)

\* The response goes on with an event given to the phase buffer.
LEMMA InputGrows ==
    ASSUME IInv, NEW e \in SourceEvents, PB!process(e), Proper(e),
           Reports(e) => e.status \in Outcomes,
           e.type = "created" <=> input = <<>>,
           e.type \in {"added", "done"} => e.item \notin ItemsOf(input, e.type),
           e.type \in {"text", "done"} =>
               \E j \in 1..Len(input) : /\ input[j].type = "added" /\ input[j].item = e.item
                                        /\ e.item \in Searches => input[j].index = e.index,
           controller'.created,
           DOMAIN controller.indexes \subseteq DOMAIN controller'.indexes,
           \A s \in DOMAIN controller.indexes : controller'.indexes[s] = controller.indexes[s],
           e.type = "added" /\ e.item \in Searches =>
               e.item \in DOMAIN controller'.indexes /\ e.index = controller'.indexes[e.item]
    PROVE  /\ BufferTypes' /\ BufferInv' /\ OrderInv' /\ IndexInv'
           /\ Announced' = Announced \cup {i \in Items : e.type = "added" /\ e.item = i}
           /\ Finished' = Finished \cup {i \in Items : e.type = "done" /\ e.item = i}
           /\ Reported(input)' = IF Reports(e) THEN Append(Reported(input), Outcome(e))
                                 ELSE Reported(input)
           /\ Len(output') \in Nat /\ Len(output) <= Len(output') /\ UNCHANGED eof
           /\ Len(input) \in Nat /\ Len(input') = Len(input) + 1 /\ input'[Len(input) + 1] = e
           /\ \A k \in 1..Len(input) : input'[k] = input[k]
<1>1. /\ BufferTypes /\ BufferInv /\ OrderInv /\ IndexInv /\ Orderly(input)
      /\ input \in Seq(SourceEvents)
  BY DEF IInv, Types, BufferTypes, OrderInv
<1>2. e.type = "text" => e.item \in Announced
  BY DEF Proper, Announced, ItemsOf, Messages, Items
<1>3. /\ BufferTypes' /\ BufferInv' /\ input' = Append(input, e)
      /\ Len(output) <= Len(output') /\ UNCHANGED eof
  BY <1>1, <1>2, ProcessKeeps
<1>4. /\ Len(input) \in Nat /\ Len(input') = Len(input) + 1 /\ input'[Len(input) + 1] = e
      /\ \A k \in 1..Len(input) : input'[k] = input[k]
  BY <1>1, <1>3, AppendProperties, LenProperties
<1>5. Announced' = Announced \cup {i \in Items : e.type = "added" /\ e.item = i}
  BY <1>1, <1>3, ItemsAppend DEF Announced
<1>6. Finished' = Finished \cup {i \in Items : e.type = "done" /\ e.item = i}
  BY <1>1, <1>3, ItemsAppend DEF Finished
<1>7. Reported(input)' = IF Reports(e) THEN Append(Reported(input), Outcome(e))
                         ELSE Reported(input)
  BY <1>1, <1>3, ReportedAppend
<1>8. OrderInv'
  <2>1. Orderly(Append(input, e))
    BY <1>1, OrderlyAppend
  <2>2. input' # <<>>
    <3>1. Len(input') # 0 /\ Len(<<>>) = 0
      BY <1>4
    <3> QED
      BY <3>1
  <2> QED
    BY <1>3, <2>1, <2>2 DEF OrderInv
<1>9. IndexInv'
  <2>1. \A k \in 1..Len(input) + 1 : k \in 1..Len(input) \/ k = Len(input) + 1
    BY <1>4
  <2> SUFFICES ASSUME NEW k \in 1..Len(input'), input'[k].type = "added", input'[k].item \in Searches
               PROVE  /\ input'[k].item \in DOMAIN controller'.indexes
                      /\ input'[k].index = controller'.indexes[input'[k].item]
    BY DEF IndexInv, Positions
  <2>2. CASE k \in 1..Len(input)
    BY <1>1, <1>4, <2>2 DEF IndexInv, Positions
  <2>3. CASE k = Len(input) + 1
    BY <1>4, <2>3
  <2> QED
    BY <1>4, <2>1, <2>2, <2>3
<1>10. Len(output') \in Nat
  BY <1>3, LenProperties DEF BufferTypes
<1> QED
  BY <1>3, <1>4, <1>5, <1>6, <1>7, <1>8, <1>9, <1>10

\* What is known of the next event.
LEMMA NextEvent ==
    ASSUME IInv, generator \in {"streaming", "closing"}, events # <<>>
    PROVE  /\ Head(events) = events[1] /\ events[1] \in SourceEvents /\ Proper(events[1])
           /\ 1 \in 1..Len(events) /\ Len(events) \in Nat
           /\ Tail(events) \in Seq(SourceEvents) /\ Len(Tail(events)) = Len(events) - 1
           /\ \A k \in 1..Len(events) - 1 : Tail(events)[k] = events[k + 1]
           /\ \A k \in 1..Len(Tail(events)) : Proper(Tail(events)[k])
           /\ LiveInv
           /\ \A k \in Positions : input[k].type # "completed"
           /\ events[1].type = "completed" <=> generator = "closing"
           /\ generator = "streaming" =>
                /\ ChunkInv /\ upstream.n # 0
                /\ input = <<>> => events[1].type = "created"
                /\ events[1].type = "added" =>
                      /\ events[1].item \in U \ Announced
                      /\ events[1].item.round = round_index
                /\ events[1].type \in {"text", "done"} =>
                      /\ events[1].item \in U \cap Announced
                      /\ \E j \in 1..Len(input) :
                            input[j].type = "added" /\ input[j].item = events[1].item
                /\ events[1].type = "done" =>
                      upstream.finished /\ events[1].item \notin Finished \cup Pending
<1>1. Types /\ GeneratorTypes /\ RoundInv /\ LiveInv
  BY DEF IInv, Types, Ended
<1>2. events \in Seq(SourceEvents) /\ \A k \in 1..Len(events) : Proper(events[k])
  BY <1>1 DEF GeneratorTypes
<1>3. /\ Len(events) \in Nat /\ Len(events) # 0
      /\ Tail(events) \in Seq(SourceEvents) /\ Len(Tail(events)) = Len(events) - 1
      /\ \A k \in 1..Len(Tail(events)) : Tail(events)[k] = events[k + 1]
      /\ Head(events) = events[1]
  BY <1>2, HeadTailProperties, LenProperties, EmptySeq
<1>4. 1 \in 1..Len(events) /\ \A k \in 1..Len(events) - 1 : k + 1 \in 1..Len(events)
  BY <1>3
<1>5. events[1] \in SourceEvents /\ Proper(events[1])
  BY <1>2, <1>4, ElementOfSeq
<1>6. \A k \in 1..Len(Tail(events)) : Proper(Tail(events)[k])
  BY <1>2, <1>3, <1>4
<1>7. \A k \in Positions : input[k].type # "completed"
  BY <1>1 DEF LiveInv
<1>8. events[1].type = "completed" <=> generator = "closing"
  BY <1>1, <1>4 DEF LiveInv, ChunkInv, ClosingInv
<1>9. ASSUME generator = "streaming"
      PROVE  /\ ChunkInv /\ upstream.n # 0
             /\ input = <<>> => events[1].type = "created"
             /\ events[1].type = "added" =>
                   events[1].item \in U \ Announced /\ events[1].item.round = round_index
             /\ events[1].type \in {"text", "done"} =>
                   /\ events[1].item \in U \cap Announced
                   /\ \E j \in 1..Len(input) :
                        input[j].type = "added" /\ input[j].item = events[1].item
             /\ events[1].type = "done" =>
                   upstream.finished /\ events[1].item \notin Finished \cup Pending
  <2>1. ChunkInv
    BY <1>1, <1>9 DEF LiveInv
  <2>2. upstream.n # 0 /\ (input = <<>> => events[1].type = "created")
    BY <2>1 DEF ChunkInv
  <2>3. \A type \in {"added", "done"} :
            events[1].type = type => events[1].item \in ItemsOf(events, type)
    BY <1>4, <1>5 DEF ItemsOf, Proper
  <2>4. events[1].type = "added" =>
            events[1].item \in U \ Announced /\ events[1].item.round = round_index
    BY <1>1, <2>1, <2>3 DEF ChunkInv, RoundInv
  <2>5. ~AddedHere(1)
    <3>1. 1..1 - 1 = {}
      OBVIOUS
    <3> QED
      BY <3>1 DEF AddedHere
  <2>6. events[1].type \in {"text", "done"} => events[1].item \in U \cap Announced
    BY <1>4, <2>1, <2>5 DEF ChunkInv
  <2>7. events[1].type = "done" =>
            upstream.finished /\ events[1].item \notin Finished \cup Pending
    BY <2>1, <2>3 DEF ChunkInv
  <2>8. \A i \in Announced : \E j \in 1..Len(input) : input[j].type = "added" /\ input[j].item = i
    BY DEF Announced, ItemsOf
  <2> QED
    BY <2>1, <2>2, <2>4, <2>6, <2>7, <2>8
<1> QED
  BY <1>1, <1>3, <1>4, <1>5, <1>6, <1>7, <1>8, <1>9

\* The rest of the chunk is as good as the chunk.
LEMMA ChunkTail ==
    ASSUME IInv, generator = "streaming", events # <<>>,
           UNCHANGED <<upstream, round_index>>, events' = Tail(events), input' # <<>>,
           Announced' = Announced \cup {i \in Items : events[1].type = "added" /\ events[1].item = i},
           Finished' = Finished
              \cup {i \in Items \ Searches : events[1].type = "done" /\ events[1].item = i},
           Pending' = Pending
              \cup {i \in Searches : events[1].type = "done" /\ events[1].item = i}
    PROVE  ChunkInv'
<1> DEFINE e == events[1]
           t == Tail(events)
           n == Len(events)
<1>1. /\ e \in SourceEvents /\ Proper(e) /\ n \in Nat /\ n # 0 /\ 1 \in 1..n
      /\ t \in Seq(SourceEvents) /\ Len(t) = n - 1
      /\ \A k \in 1..n - 1 : t[k] = events[k + 1]
  BY NextEvent
<1>2. /\ ChunkInv /\ upstream.n # 0
      /\ e.type = "added" => e.item \in U \ Announced /\ e.item.round = round_index
      /\ e.type \in {"text", "done"} => e.item \in U \cap Announced
      /\ e.type = "done" => upstream.finished /\ e.item \notin Finished \cup Pending
  BY NextEvent
<1>3. events \in Seq(SourceEvents) /\ Once(events)
  BY <1>2 DEF ChunkInv, IInv, Types, GeneratorTypes
<1>4. ItemsOf(events, "added") = ItemsOf(t, "added") \cup {i \in Items : e.type = "added" /\ e.item = i}
  BY <1>3, ItemsTail
<1>5. ItemsOf(events, "done") = ItemsOf(t, "done") \cup {i \in Items : e.type = "done" /\ e.item = i}
  BY <1>3, ItemsTail
<1>6. /\ Once(t)
      /\ e.type = "added" => e.item \notin ItemsOf(t, "added")
      /\ e.type = "done" => e.item \notin ItemsOf(t, "done")
  BY <1>3, OnceTail
<1>7. e.type \in {"added", "done"} => e.item \in Items
  BY <1>1 DEF Proper
<1>8. U' = U
  BY DEF U
<1>9. events' = t
  OBVIOUS
<1> HIDE DEF e, t, n
<1>10. (\A k \in 1..n - 1 : k + 1 \in 1..n /\ k + 1 # 1) /\ (\A k \in 1..Len(t) : k \in 1..n - 1)
  BY <1>1
<1>11. \A k \in 1..Len(t) : t[k].type # "completed"
  BY <1>1, <1>2, <1>10 DEF ChunkInv, n
<1>12. ThisRound' = ThisRound \cup {i \in Items : e.type = "added" /\ e.item = i}
  BY <1>2 DEF ThisRound, e
<1>13. U = ThisRound' \cup ItemsOf(t, "added")
  BY <1>2, <1>4, <1>12 DEF ChunkInv
<1>14. Announced' \cap ItemsOf(t, "added") = {}
  BY <1>2, <1>4, <1>6 DEF ChunkInv, e
<1>15. \A k \in 1..Len(t) : t[k].type \in {"text", "done"} =>
          t[k].item \in U /\ (t[k].item \in Announced' \/ AddedHere(k)')
  <2> TAKE k \in 1..Len(t)
  <2> HAVE t[k].type \in {"text", "done"}
  <2>1. k + 1 \in 1..n /\ t[k] = events[k + 1] /\ (k + 1) - 1 = k
    BY <1>1, <1>10
  <2>2. t[k].item \in U /\ (t[k].item \in Announced \/ AddedHere(k + 1))
    BY <1>2, <2>1 DEF ChunkInv, n
  <2>3. ASSUME AddedHere(k + 1)
        PROVE  t[k].item \in Announced' \/ AddedHere(k)'
    <3>1. PICK j \in 1..k : events[j].type = "added" /\ events[j].item = t[k].item
      BY <2>1, <2>3 DEF AddedHere
    <3>2. CASE j = 1
      <4>1. e.type = "added" /\ e.item = t[k].item
        BY <3>1, <3>2 DEF e
      <4>2. e.item \in Items
        BY <1>7, <4>1
      <4> QED
        BY <4>1, <4>2 DEF e
    <3>3. CASE j # 1
      <4>1. j - 1 \in 1..k - 1 /\ j - 1 \in 1..n - 1 /\ j - 1 + 1 = j
        BY <1>1, <2>1, <3>3
      <4>2. t[j - 1] = events[j]
        BY <1>1, <4>1
      <4> QED
        BY <1>9, <3>1, <4>1, <4>2 DEF AddedHere
    <3> QED
      BY <3>2, <3>3
  <2> QED
    BY <2>2, <2>3
<1>16. ItemsOf(t, "done") \cap (Finished' \cup Pending') = {}
  BY <1>2, <1>5, <1>6 DEF ChunkInv, e
<1>17. ItemsOf(t, "done") # {} => upstream.finished
  BY <1>2, <1>5 DEF ChunkInv
<1>18. upstream.finished =>
          U \subseteq ItemsOf(t, "done") \cup (Finished' \ Searches) \cup Pending'
  <2> SUFFICES ASSUME upstream.finished, NEW i \in U
               PROVE  i \in ItemsOf(t, "done") \cup (Finished' \ Searches) \cup Pending'
    OBVIOUS
  <2>1. i \in ItemsOf(events, "done") \cup (Finished \ Searches) \cup Pending
    BY <1>2 DEF ChunkInv
  <2>2. CASE i \in ItemsOf(events, "done") \ ItemsOf(t, "done")
    <3>1. e.type = "done" /\ e.item = i /\ i \in Items
      BY <1>5, <2>2
    <3> QED
      BY <3>1 DEF e
  <2> QED
    BY <2>1, <2>2
<1>19. ~upstream.finished => Finished' \cap U = {}
  BY <1>2 DEF ChunkInv, e
<1> QED
  BY <1>2, <1>6, <1>8, <1>9, <1>11, <1>13, <1>14, <1>15, <1>16, <1>17, <1>18, <1>19 DEF ChunkInv

\* What stays the same when an event is processed.
LEMMA ProcessingFrame ==
    ASSUME IInv, NEW type, Processing(type), ControllerTypes', BufferTypes',
           Len(output) <= Len(output'), Len(output') \in Nat
    PROVE  /\ generator \in {"streaming", "closing"} /\ events # <<>>
           /\ events[1].type = type /\ events' = Tail(events) /\ yielded = Len(output)
           /\ upstream' = upstream /\ open' = open /\ round_index' = round_index
           /\ current_body' = current_body /\ calls' = calls /\ results' = results
           /\ generator' = generator /\ yielded' = yielded
           /\ Types'
<1>1. /\ generator \in {"streaming", "closing"} /\ events # <<>>
      /\ Head(events).type = type /\ events' = Tail(events) /\ yielded = Len(output)
      /\ upstream' = upstream /\ open' = open /\ round_index' = round_index
      /\ current_body' = current_body /\ calls' = calls /\ results' = results
      /\ generator' = generator /\ yielded' = yielded
  BY DEF Processing, roundVars, searchVars
<1>2. Types /\ UpstreamTypes /\ GeneratorTypes
  BY DEF IInv, Types
<1>3. /\ Head(events) = events[1] /\ Tail(events) \in Seq(SourceEvents)
      /\ \A k \in 1..Len(Tail(events)) : Proper(Tail(events)[k])
  BY <1>1, NextEvent
<1>4. UpstreamTypes' /\ GeneratorTypes'
  BY <1>1, <1>2, <1>3 DEF UpstreamTypes, GeneratorTypes
<1>5. (yielded \in 0..Len(output))'
  <2>1. yielded \in 0..Len(output) /\ Len(output) \in Nat
    BY <1>2, LenProperties DEF Types, BufferTypes
  <2> QED
    BY <1>1, <2>1
<1>6. Types'
  BY <1>4, <1>5 DEF Types
<1> QED
  BY <1>1, <1>3, <1>6

\* An event of the round reaches the phase buffer, with an index of its own.
LEMMA StreamInv ==
    ASSUME IInv, NEW type, Processing(type), type # "completed",
           NEW e \in SourceEvents, PB!process(e), Proper(e),
           e.type = events[1].type, e.item = events[1].item,
           ~Reports(e), e.type = "created" => input = <<>>,
           ControllerTypes', controller'.created,
           controller'.completed_items = controller.completed_items,
           controller'.pending_calls = controller.pending_calls,
           DOMAIN controller.indexes \subseteq DOMAIN controller'.indexes,
           \A s \in DOMAIN controller.indexes : controller'.indexes[s] = controller.indexes[s],
           e.type = "added" /\ e.item \in Searches =>
               e.item \in DOMAIN controller'.indexes /\ e.index = controller'.indexes[e.item]
    PROVE  IInv'
<1>1. generator \in {"streaming", "closing"} /\ events # <<>> /\ events[1].type = type
      /\ yielded = Len(output)
  <2>1. generator \in {"streaming", "closing"} /\ events # <<>> /\ yielded = Len(output)
        /\ Head(events).type = type
    BY DEF Processing
  <2> QED
    BY <2>1, NextEvent
<1>2. generator = "streaming"
  BY <1>1, NextEvent
<1>3. /\ LiveInv /\ (\A k \in Positions : input[k].type # "completed")
      /\ ChunkInv /\ upstream.n # 0
      /\ input = <<>> => events[1].type = "created"
      /\ events[1].type = "added" =>
            events[1].item \in U \ Announced /\ events[1].item.round = round_index
      /\ events[1].type \in {"text", "done"} =>
            \E j \in 1..Len(input) : input[j].type = "added" /\ input[j].item = events[1].item
      /\ events[1].type = "done" => events[1].item \notin Finished \cup Pending
  BY <1>1, <1>2, NextEvent
<1>4. e.type \in {"text", "done"} => e.item \notin Searches
  BY ItemKinds DEF Reports, Proper
<1>5. e.type \in {"added", "done"} => e.item \notin ItemsOf(input, e.type)
  BY <1>3 DEF Announced, Finished
<1>6. e.type \in {"text", "done"} =>
          \E j \in 1..Len(input) : /\ input[j].type = "added" /\ input[j].item = e.item
                                   /\ e.item \in Searches => input[j].index = e.index
  BY <1>3, <1>4
<1>7. e.type = "created" <=> input = <<>>
  BY <1>3
<1>8. /\ BufferTypes' /\ BufferInv' /\ OrderInv' /\ IndexInv'
      /\ Announced' = Announced \cup {i \in Items : e.type = "added" /\ e.item = i}
      /\ Finished' = Finished \cup {i \in Items : e.type = "done" /\ e.item = i}
      /\ Reported(input)' = Reported(input)
      /\ Len(output') \in Nat /\ Len(output) <= Len(output') /\ UNCHANGED eof
      /\ Len(input) \in Nat /\ Len(input') = Len(input) + 1 /\ input'[Len(input) + 1] = e
      /\ \A k \in 1..Len(input) : input'[k] = input[k]
  BY <1>5, <1>6, <1>7, InputGrows
<1>9. /\ events' = Tail(events) /\ upstream' = upstream /\ open' = open
      /\ round_index' = round_index /\ current_body' = current_body
      /\ calls' = calls /\ results' = results /\ generator' = generator /\ yielded' = yielded
      /\ Types'
  BY <1>8, ProcessingFrame
<1>10. \A k \in 1..Len(input') : k \in 1..Len(input) \/ k = Len(input) + 1
  BY <1>8
<1>11. \A k \in 1..Len(input') : input'[k].type # "completed"
  BY <1>1, <1>3, <1>8, <1>10 DEF Positions
<1>12. U' = U /\ Pending' = Pending
  BY <1>9 DEF U, Pending
<1>13. ToldInv'
  <2>1. \A i \in Announced' : i \in Announced \/ i.round = round_index
    BY <1>3, <1>8
  <2>2. round_index \in Nat
    BY RoundsAssumption DEF IInv, Types, UpstreamTypes, Rounds
  <2>3. ToldInv
    BY DEF IInv
  <2> QED
    BY <1>9, <2>1, <2>2, <2>3 DEF ToldInv, InBody
<1>14. CompletedInv'
  BY <1>11 DEF CompletedInv, Positions
<1>15. RoundInv'
  <2>1. RoundInv
    BY DEF IInv
  <2>2. Pending \cap Finished' = {}
    BY <1>3, <1>8, <2>1 DEF RoundInv
  <2>3. Pending \subseteq Searches \cap U \cap Announced'
    BY <1>8, <2>1 DEF RoundInv
  <2> QED
    BY <1>9, <1>12, <2>1, <2>2, <2>3 DEF RoundInv
<1>16. ChunkInv'
  <2>1. Finished' = Finished
              \cup {i \in Items \ Searches : events[1].type = "done" /\ events[1].item = i}
    BY <1>4, <1>8
  <2>2. Pending' = Pending
              \cup {i \in Searches : events[1].type = "done" /\ events[1].item = i}
    BY <1>4, <1>12
  <2>3. input' # <<>>
    <3>1. Len(input') # 0 /\ Len(<<>>) = 0
      BY <1>8
    <3> QED
      BY <3>1
  <2> QED
    BY <1>1, <1>2, <1>8, <1>9, <2>1, <2>2, <2>3, ChunkTail
<1>17. \A k \in yielded' + 1 .. Len(input') : ~Reports(input'[k])
  <2>1. \A k \in yielded + 1 .. Len(input) : ~Reports(input[k])
    BY <1>2, <1>3 DEF LiveInv
  <2>2. yielded \in Nat
    BY <1>1, LenProperties DEF IInv, Types, BufferTypes
  <2>3. \A k \in yielded + 1 .. Len(input) + 1 :
            (k \in 1..Len(input) /\ k \in yielded + 1 .. Len(input)) \/ k = Len(input) + 1
    BY <1>8, <2>2
  <2> QED
    BY <1>8, <1>9, <2>1, <2>3
<1>18. LiveInv'
  <2>1. generator' = "streaming" /\ open'
    BY <1>2, <1>3, <1>9 DEF LiveInv
  <2>2. calls' = <<>> /\ results' = <<>>
    BY <1>2, <1>3, <1>9 DEF LiveInv
  <2>3. Reported(input)' = controller'.completed_items /\ current_body' = Reported(input)'
    BY <1>2, <1>3, <1>8, <1>9 DEF LiveInv
  <2> QED
    BY <1>11, <1>16, <1>17, <2>1, <2>2, <2>3 DEF LiveInv, Positions
<1>19. open' => generator' = "streaming"
  BY <1>2, <1>9
<1> QED
  BY <1>8, <1>9, <1>13, <1>14, <1>15, <1>18, <1>19 DEF IInv

LEMMA FirstCreatedInv == ASSUME IInv, FirstCreated PROVE IInv'
<1>1. Processing("created") /\ ~controller.created /\ PB!process(Head(events))
      /\ controller' = [controller EXCEPT !.created = TRUE]
      /\ generator \in {"streaming", "closing"} /\ events # <<>> /\ Head(events).type = "created"
  BY DEF FirstCreated, Processing
<1>2. ControllerTypes /\ OrderInv
  BY DEF IInv, Types
<1>3. Head(events) = events[1] /\ events[1] \in SourceEvents /\ Proper(events[1])
  BY <1>1, NextEvent
<1>4. input = <<>>
  BY <1>1, <1>2 DEF OrderInv
<1>5. controller' = [created |-> TRUE, completed_items |-> controller.completed_items,
                     pending_calls |-> controller.pending_calls, indexes |-> controller.indexes]
  BY <1>1, <1>2 DEF ControllerTypes
<1>6. ControllerTypes' /\ controller'.created
      /\ controller'.completed_items = controller.completed_items
      /\ controller'.pending_calls = controller.pending_calls
      /\ controller'.indexes = controller.indexes
  BY <1>2, <1>5 DEF ControllerTypes
<1>7. events[1].type = "created" /\ ~Reports(events[1])
  BY <1>1, <1>3 DEF Reports
<1> QED
  BY <1>1, <1>3, <1>4, <1>6, <1>7, StreamInv

\* What _set_web_search_output_index does to the indexes.
LEMMA WithIndexFacts ==
    ASSUME ControllerTypes, NEW item \in Searches
    PROVE  /\ WithIndex(controller.indexes, item) \in
                  [DOMAIN WithIndex(controller.indexes, item) -> Nat]
           /\ DOMAIN WithIndex(controller.indexes, item) = DOMAIN controller.indexes \cup {item}
           /\ \A s \in DOMAIN controller.indexes :
                  WithIndex(controller.indexes, item)[s] = controller.indexes[s]
<1>1. Len(controller.completed_items) + Len(controller.pending_calls) \in Nat
  <2> DEFINE a == Len(controller.completed_items)
             b == Len(controller.pending_calls)
  <2>1. a \in Nat /\ b \in Nat
    BY LenProperties DEF ControllerTypes
  <2> HIDE DEF a, b
  <2>2. a + b \in Nat
    BY <2>1
  <2> QED
    BY <2>2 DEF a, b
<1>2. CASE item \in DOMAIN controller.indexes
  <2>1. WithIndex(controller.indexes, item) = controller.indexes
        /\ DOMAIN controller.indexes \cup {item} = DOMAIN controller.indexes
    BY <1>2 DEF WithIndex
  <2> QED
    BY <2>1 DEF ControllerTypes
<1>3. CASE item \notin DOMAIN controller.indexes
  <2> DEFINE l == Len(controller.completed_items) + Len(controller.pending_calls)
             f == controller.indexes
  <2>1. WithIndex(f, item) = [s \in DOMAIN f \cup {item} |-> IF s = item THEN l ELSE f[s]]
    BY <1>3 DEF WithIndex
  <2>2. f \in [DOMAIN f -> Nat]
    BY DEF ControllerTypes
  <2> HIDE DEF l, f
  <2> QED
    BY <1>1, <1>3, <2>1, <2>2 DEF l, f
<1> QED
  BY <1>2, <1>3

LEMMA SearchAddedInv == ASSUME IInv, SearchAdded PROVE IInv'
<1> DEFINE item == Head(events).item
           x == controller'.indexes[item]
           e == [Head(events) EXCEPT !.index = x]
<1>1. /\ Processing("added") /\ item \in Searches /\ PB!process(e)
      /\ controller' = [controller EXCEPT !.indexes = WithIndex(controller.indexes, item)]
      /\ generator \in {"streaming", "closing"} /\ events # <<>> /\ Head(events).type = "added"
  BY DEF SearchAdded, Processing
<1>2. ControllerTypes /\ OrderInv
  BY DEF IInv, Types
<1>3. Head(events) = events[1] /\ events[1] \in SourceEvents /\ Proper(events[1])
      /\ (events[1].type = "completed" <=> generator = "closing")
      /\ (generator = "streaming" /\ input = <<>> => events[1].type = "created")
  BY <1>1, NextEvent
<1>4. controller' = [created |-> controller.created, completed_items |-> controller.completed_items,
                     pending_calls |-> controller.pending_calls,
                     indexes |-> WithIndex(controller.indexes, item)]
  BY <1>1, <1>2 DEF ControllerTypes
<1>5. /\ controller'.created = controller.created
      /\ controller'.completed_items = controller.completed_items
      /\ controller'.pending_calls = controller.pending_calls
      /\ controller'.indexes = WithIndex(controller.indexes, item)
  BY <1>4
<1>6. /\ WithIndex(controller.indexes, item) \in [DOMAIN WithIndex(controller.indexes, item) -> Nat]
      /\ DOMAIN WithIndex(controller.indexes, item) = DOMAIN controller.indexes \cup {item}
      /\ \A s \in DOMAIN controller.indexes :
            WithIndex(controller.indexes, item)[s] = controller.indexes[s]
  <2> HIDE DEF item
  <2> QED
    BY <1>1, <1>2, WithIndexFacts
<1>7. ControllerTypes'
  <2>1. DOMAIN controller.indexes \cup {item} \subseteq Searches
    BY <1>1, <1>2 DEF ControllerTypes
  <2> QED
    BY <1>2, <1>4, <1>5, <1>6, <2>1 DEF ControllerTypes
<1>8. x \in Nat
  BY <1>5, <1>6
<1>9. controller'.created
  <2>1. input # <<>>
    BY <1>1, <1>3
  <2> QED
    BY <1>2, <1>5, <2>1 DEF OrderInv
<1>10. /\ e \in SourceEvents /\ e.type = "added" /\ e.item = events[1].item /\ e.index = x
       /\ e.kind = events[1].kind /\ e.id = events[1].id
  BY <1>1, <1>3, <1>8 DEF SourceEvents
<1>11. Proper(e)
  BY <1>1, <1>3, <1>10 DEF Proper
<1>12. ~Reports(e) /\ e.type = events[1].type /\ item = events[1].item
  BY <1>1, <1>3, <1>10 DEF Reports
<1> HIDE DEF e, x, item
<1>13. e.item \in DOMAIN controller'.indexes /\ e.index = controller'.indexes[e.item]
  BY <1>5, <1>6, <1>10, <1>12 DEF x
<1> QED
  BY <1>1, <1>5, <1>6, <1>7, <1>9, <1>10, <1>11, <1>12, <1>13, StreamInv

LEMMA OtherEventInv == ASSUME IInv, OtherEvent PROVE IInv'
<1> DEFINE e == Shifted(Head(events))
<1>1. PICK type \in {"added", "text", "done"} : Processing(type)
  BY DEF OtherEvent
<1>2. /\ Head(events).item \notin Searches /\ PB!process(e) /\ UNCHANGED controller
      /\ generator \in {"streaming", "closing"} /\ events # <<>> /\ Head(events).type = type
  BY <1>1 DEF OtherEvent, Processing
<1>3. ControllerTypes /\ OrderInv
  BY DEF IInv, Types
<1>4. Head(events) = events[1] /\ events[1] \in SourceEvents /\ Proper(events[1])
      /\ (events[1].type = "completed" <=> generator = "closing")
      /\ (generator = "streaming" /\ input = <<>> => events[1].type = "created")
  BY <1>2, NextEvent
<1>5. Len(controller.completed_items) \in Nat
  BY <1>3, LenProperties DEF ControllerTypes
<1>6. /\ e \in SourceEvents /\ e.type = events[1].type /\ e.item = events[1].item
      /\ e.kind = events[1].kind /\ e.id = events[1].id
  <2>1. CASE round_index = 0
    BY <1>4, <2>1 DEF Shifted
  <2>2. CASE round_index # 0
    <3> DEFINE h == events[1]
               y == h.index + Len(controller.completed_items)
    <3>1. e = [h EXCEPT !.index = y]
      BY <1>4, <2>2 DEF Shifted
    <3>2. y \in Nat
      <4>1. h.index \in Nat
        BY <1>4 DEF SourceEvents
      <4> QED
        BY <1>5, <4>1
    <3> HIDE DEF y, e
    <3> QED
      BY <1>4, <3>1, <3>2 DEF SourceEvents
  <2> QED
    BY <2>1, <2>2
<1> HIDE DEF e
<1>7. Proper(e)
  BY <1>1, <1>2, <1>4, <1>6 DEF Proper
<1>8. ~Reports(e) /\ ~(e.type = "added" /\ e.item \in Searches)
  BY <1>2, <1>4, <1>6 DEF Reports
<1>9. controller'.created
  BY <1>1, <1>2, <1>3, <1>4 DEF OrderInv
<1>10. e.type # "created"
  BY <1>1, <1>2, <1>4, <1>6
<1>11. ControllerTypes' /\ controller' = controller /\ type # "completed"
  BY <1>1, <1>2, <1>3, SameController
<1> QED
  BY <1>1, <1>2, <1>6, <1>7, <1>8, <1>9, <1>10, <1>11, StreamInv

\* Nothing of the sequence is there twice, with one element more either.
LEMMA AppendDistinct ==
    ASSUME NEW T, NEW s \in Seq(T), NEW x \in T, x \notin ToSet(s), IsInjective(s)
    PROVE  /\ Append(s, x) \in Seq(T)
           /\ ToSet(Append(s, x)) = ToSet(s) \cup {x}
           /\ IsInjective(Append(s, x))
<1> DEFINE a == Append(s, x)
           l == Len(s)
<1>1. l \in Nat /\ DOMAIN s = 1..l
  BY LenProperties
<1>2. a \in Seq(T) /\ Len(a) = l + 1 /\ a[l + 1] = x /\ \A k \in 1..l : a[k] = s[k]
  BY AppendProperties
<1> HIDE DEF a
<1>3. DOMAIN a = 1..l + 1
  BY <1>2, LenProperties
<1>4. (\A k \in 1..l + 1 : k \in 1..l \/ k = l + 1) /\ (\A k \in 1..l : k \in 1..l + 1)
      /\ l + 1 \in 1..l + 1
  BY <1>1
<1>5. ToSet(s) = {s[k] : k \in 1..l} /\ ToSet(a) = {a[k] : k \in 1..l + 1}
  BY <1>1, <1>3 DEF ToSet
<1>6. \A j, k \in 1..l : s[j] = s[k] => j = k
  BY <1>1 DEF IsInjective
<1> HIDE DEF l
<1>7. ToSet(a) = ToSet(s) \cup {x}
  BY <1>2, <1>4, <1>5
<1>8. IsInjective(a)
  <2>1. \A k \in 1..l : s[k] # x
    BY <1>5
  <2> SUFFICES ASSUME NEW j \in 1..l + 1, NEW k \in 1..l + 1, a[j] = a[k]
               PROVE  j = k
    BY <1>3 DEF IsInjective
  <2> QED
    BY <1>2, <1>4, <1>6, <2>1
<1> QED
  BY <1>2, <1>7, <1>8 DEF a

\* An event of the round is kept back: another response.created, or the end of
\* a search that is still to be executed.
LEMMA DroppedInv ==
    ASSUME IInv, NEW type \in {"created", "done"}, Processing(type), UNCHANGED bufferVars,
           ControllerTypes', input # <<>>,
           controller'.created = controller.created, controller'.indexes = controller.indexes,
           controller'.completed_items = controller.completed_items,
           \/ type = "created" /\ controller'.pending_calls = controller.pending_calls
           \/ /\ type = "done" /\ events[1].item \in Searches
              /\ controller'.pending_calls = Append(controller.pending_calls, events[1].item)
    PROVE  IInv'
<1>1. generator \in {"streaming", "closing"} /\ events # <<>> /\ events[1].type = type
  <2>1. generator \in {"streaming", "closing"} /\ events # <<>> /\ Head(events).type = type
    BY DEF Processing
  <2> QED
    BY <2>1, NextEvent
<1>2. generator = "streaming"
  BY <1>1, NextEvent
<1>3. /\ LiveInv /\ (\A k \in Positions : input[k].type # "completed")
      /\ events[1].type = "done" =>
            /\ events[1].item \in U \cap Announced /\ upstream.finished
            /\ events[1].item \notin Finished \cup Pending
  BY <1>1, <1>2, NextEvent
<1>4. Types /\ BufferTypes /\ ControllerTypes /\ ToldInv /\ CompletedInv /\ RoundInv
  BY DEF IInv, Types
<1>5. /\ BufferTypes' /\ BufferInv' /\ OrderInv' /\ IndexInv'
      /\ Announced' = Announced /\ Finished' = Finished /\ input' = input
      /\ output' = output /\ Reported(input)' = Reported(input)
  BY InputFrame
<1>6. Len(output) \in Nat /\ Len(output') = Len(output)
  BY <1>4, <1>5, LenProperties DEF BufferTypes
<1>7. /\ events' = Tail(events) /\ upstream' = upstream /\ open' = open
      /\ round_index' = round_index /\ current_body' = current_body
      /\ calls' = calls /\ results' = results /\ generator' = generator /\ yielded' = yielded
      /\ Types'
  BY <1>5, <1>6, ProcessingFrame
<1>8. /\ Pending' = Pending \cup {i \in Searches : events[1].type = "done" /\ events[1].item = i}
      /\ IsInjective(controller'.pending_calls)
      /\ controller'.pending_calls # <<>> => upstream.finished
  <2>1. CASE type = "created"
    BY <1>1, <1>4, <2>1 DEF Pending, RoundInv
  <2>2. CASE type = "done"
    <3> DEFINE s == controller.pending_calls
               x == events[1].item
    <3>1. s \in Seq(Searches) /\ x \in Searches /\ x \notin ToSet(s) /\ IsInjective(s)
          /\ upstream.finished /\ controller'.pending_calls = Append(s, x)
      BY <1>1, <1>3, <1>4, <2>2 DEF ControllerTypes, RoundInv, Pending
    <3> HIDE DEF s, x
    <3>2. ToSet(Append(s, x)) = ToSet(s) \cup {x} /\ IsInjective(Append(s, x))
      BY <3>1, AppendDistinct
    <3>3. {x} = {i \in Searches : x = i}
      BY <3>1
    <3> QED
      BY <1>1, <2>2, <3>1, <3>2, <3>3 DEF Pending, s, x
  <2> QED
    BY <2>1, <2>2
<1>9. Finished' = Finished
        \cup {i \in Items \ Searches : events[1].type = "done" /\ events[1].item = i}
  BY <1>1, <1>5
<1>10. Announced' = Announced \cup {i \in Items : events[1].type = "added" /\ events[1].item = i}
  BY <1>1, <1>5
<1>11. ChunkInv'
  BY <1>1, <1>2, <1>5, <1>7, <1>8, <1>9, <1>10, ChunkTail
<1>12. ToldInv' /\ CompletedInv'
  <2>1. ToldInv'
    BY <1>4, <1>5, <1>7 DEF ToldInv, InBody
  <2>2. CompletedInv'
    BY <1>3, <1>5 DEF CompletedInv, Positions
  <2> QED
    BY <2>1, <2>2
<1>13. RoundInv'
  <2>1. U' = U
    BY <1>7 DEF U
  <2>2. Pending' \subseteq Searches \cap U \cap Announced /\ Pending' \cap Finished = {}
    BY <1>3, <1>4, <1>8 DEF RoundInv
  <2> QED
    BY <1>4, <1>5, <1>7, <1>8, <2>1, <2>2 DEF RoundInv
<1>14. LiveInv'
  BY <1>2, <1>3, <1>5, <1>7, <1>11 DEF LiveInv, Positions
<1>15. open' => generator' = "streaming"
  BY <1>2, <1>7
<1> QED
  BY <1>5, <1>7, <1>12, <1>13, <1>14, <1>15 DEF IInv

LEMMA LaterCreatedInv == ASSUME IInv, LaterCreated PROVE IInv'
<1>1. Processing("created") /\ controller.created /\ UNCHANGED bufferVars
      /\ controller' = controller
  BY DEF LaterCreated, Drop
<1>2. ControllerTypes' /\ input # <<>>
  BY <1>1, SameController DEF IInv, Types, OrderInv
<1> QED
  BY <1>1, <1>2, DroppedInv

LEMMA SearchDoneInv == ASSUME IInv, SearchDone PROVE IInv'
<1> DEFINE item == Head(events).item
           x == WithIndex(controller.indexes, item)
           p == Append(controller.pending_calls, item)
<1>1. /\ Processing("done") /\ item \in Searches /\ UNCHANGED bufferVars
      /\ controller' = [controller EXCEPT !.indexes = x, !.pending_calls = p]
      /\ generator \in {"streaming", "closing"} /\ events # <<>> /\ Head(events).type = "done"
  BY DEF SearchDone, Processing, Drop
<1>2. ControllerTypes /\ IndexInv
  BY DEF IInv, Types
<1>3. Head(events) = events[1] /\ (events[1].type = "completed" <=> generator = "closing")
  BY <1>1, NextEvent
<1>4. generator = "streaming" /\ events[1].type = "done"
  BY <1>1, <1>3
<1>5. \E j \in 1..Len(input) : input[j].type = "added" /\ input[j].item = events[1].item
  BY <1>1, <1>4, NextEvent
<1>6. x = controller.indexes /\ input # <<>>
  <2>1. item \in DOMAIN controller.indexes
    BY <1>1, <1>2, <1>3, <1>5 DEF IndexInv, Positions
  <2>2. input # <<>>
    <3>1. Len(<<>>) = 0 /\ 1..0 = {}
      OBVIOUS
    <3> QED
      BY <1>5, <3>1
  <2> QED
    BY <2>1, <2>2 DEF WithIndex
<1>7. p \in Seq(Searches)
  BY <1>1, <1>2, AppendProperties DEF ControllerTypes
<1> HIDE DEF x, p
<1>8. controller' = [created |-> controller.created, completed_items |-> controller.completed_items,
                     pending_calls |-> p, indexes |-> controller.indexes]
  BY <1>1, <1>2, <1>6 DEF ControllerTypes
<1>9. /\ controller'.created = controller.created /\ controller'.indexes = controller.indexes
      /\ controller'.completed_items = controller.completed_items
      /\ controller'.pending_calls = p
  BY <1>8
<1>10. ControllerTypes'
  BY <1>2, <1>7, <1>8, <1>9 DEF ControllerTypes
<1> QED
  BY <1>1, <1>3, <1>6, <1>9, <1>10, DroppedInv DEF p

-----------------------------------------------------------------------------
(* The end of a round. *)

Outputs == Seq(Results \cup {Listed(i) : i \in Items})

LEMMA CompletedEvent ==
    ASSUME NEW o \in Outputs
    PROVE  /\ Completed(o) \in SourceEvents /\ Proper(Completed(o))
           /\ Completed(o).type = "completed" /\ Completed(o).output = o
<1> DEFINE tool == \E entry \in ToSet(o) : entry.item \notin Messages
           q == IF tool THEN "completed_tool" ELSE "completed"
           id == IF NoItem \in Messages THEN NoItem ELSE NoItem
<1>1. q \in {"completed", "completed_tool"} /\ id = NoItem
  OBVIOUS
<1>2. Event("completed", q, NoItem, 0)
        = [type |-> "completed", kind |-> q, id |-> id, size |-> 1, item |-> NoItem, index |-> 0,
           status |-> "none", output |-> <<>>]
  BY DEF Event
<1>3. Completed(o) = [Event("completed", q, NoItem, 0) EXCEPT !.output = o]
  BY DEF Completed
<1> HIDE DEF q, id
<1>4. Completed(o) = [type |-> "completed", kind |-> q, id |-> NoItem, size |-> 1, item |-> NoItem,
                      index |-> 0, status |-> "none", output |-> o]
  BY <1>1, <1>2, <1>3
<1>5. /\ Completed(o).type = "completed" /\ Completed(o).output = o /\ Completed(o).kind = q
      /\ Completed(o).item = NoItem
  BY <1>4
<1>6. {"completed", "completed_tool"} \subseteq PB!Kinds
  BY DEF PB!Kinds, PB!TerminalKinds
<1>7. Completed(o) \in SourceEvents
  <2>1. "none" \in Outcomes \cup {"none"} /\ NoItem \in Messages \cup {NoItem}
        /\ NoItem \in Items \cup {NoItem} /\ 0 \in Nat /\ 1 \in {1}
    OBVIOUS
  <2> QED
    BY <1>1, <1>4, <1>6, <2>1 DEF SourceEvents, Outputs
<1> QED
  BY <1>1, <1>5, <1>7 DEF Proper

\* What ends a stream before the next round, or before the end of the response.
LEMMA ClosesInv ==
    ASSUME IInv, generator \in {"streaming", "closing"}, LiveInv,
           UNCHANGED <<upstream, round_index, current_body, controller, searchVars, yielded>>,
           UNCHANGED bufferVars, generator' = "closing", ~open', open' \in BOOLEAN,
           events' \in Seq(SourceEvents), \A k \in 1..Len(events') : Proper(events'[k]),
           \A k \in Positions : input[k].type # "completed",
           U = ThisRound, upstream.finished => U \subseteq (Finished \ Searches) \cup Pending,
           events' # <<>> =>
              /\ Len(events') = 1 /\ upstream.finished /\ input # <<>>
              /\ events'[1].type = "completed"
              /\ {events'[1].output[j].item : j \in 1..Len(events'[1].output)} = U
    PROVE  IInv'
<1>1. Types /\ UpstreamTypes /\ ControllerTypes /\ GeneratorTypes
  BY DEF IInv, Types
<1>2. /\ upstream' = upstream /\ round_index' = round_index /\ current_body' = current_body
      /\ controller' = controller /\ calls' = calls /\ results' = results /\ yielded' = yielded
  BY DEF searchVars
<1>3. /\ BufferTypes' /\ BufferInv' /\ OrderInv' /\ IndexInv'
      /\ Announced' = Announced /\ Finished' = Finished /\ input' = input
      /\ output' = output /\ Reported(input)' = Reported(input)
  BY <1>2, InputFrame
<1>4. ToldInv' /\ CompletedInv' /\ RoundInv' /\ U' = U /\ ThisRound' = ThisRound
  BY <1>2, <1>3, RoundFrame
<1>5. Types'
  <2>1. UpstreamTypes' /\ ControllerTypes'
    BY <1>1, <1>2, SameUpstream, SameController
  <2>2. GeneratorTypes'
    BY <1>1, <1>2 DEF GeneratorTypes, Generators
  <2> QED
    BY <1>1, <1>2, <1>3, <2>1, <2>2 DEF Types
<1>6. Pending' = Pending
  BY <1>2 DEF Pending
<1>7. ClosingInv'
  BY <1>2, <1>3, <1>4, <1>6 DEF ClosingInv
<1>8. LiveInv'
  BY <1>2, <1>3, <1>7 DEF LiveInv, Positions
<1> QED
  BY <1>3, <1>4, <1>5, <1>8 DEF IInv

LEMMA UpstreamEOFInv == ASSUME IInv, UpstreamEOF PROVE IInv'
<1> DEFINE done == InOutputOrder(upstream.items)
           o == [k \in DOMAIN done |-> Listed(done[k])]
           es == IF upstream.finished THEN <<Completed(o)>> ELSE <<>>
           l == Len(done)
<1>1. /\ AwaitsChunk /\ open' = FALSE /\ generator' = "closing" /\ events' = es
      /\ UNCHANGED <<upstream, round_index, current_body, controller, searchVars, yielded>>
      /\ UNCHANGED bufferVars
  BY DEF UpstreamEOF
<1>2. /\ generator = "streaming" /\ events = <<>> /\ LiveInv /\ ChunkInv /\ U = ThisRound
      /\ ItemsOf(events, "done") = {}
      /\ \A k \in Positions : input[k].type # "completed"
  BY <1>1, Awaiting
<1>3. upstream.finished => U \subseteq (Finished \ Searches) \cup Pending
  BY <1>2 DEF ChunkInv
<1>4. upstream.finished => input # <<>>
  BY <1>2 DEF ChunkInv, IInv, RoundInv
<1>5. done \in Seq(Items) /\ ToSet(done) = U
  BY OrderFacts DEF IInv, Types, UpstreamTypes, U
<1> HIDE DEF done
<1>6. l \in Nat /\ DOMAIN done = 1..l /\ U = {done[k] : k \in 1..l}
      /\ \A k \in 1..l : done[k] \in Items
  <2>1. l \in Nat /\ DOMAIN done = 1..l
    BY <1>5, LenProperties
  <2> QED
    BY <1>5, <2>1, ElementOfSeq DEF ToSet
<1>7. o \in Outputs /\ Len(o) = l /\ \A k \in 1..l : o[k].item = done[k]
  <2> DEFINE S == Results \cup {Listed(i) : i \in Items}
  <2>1. o = [k \in 1..l |-> Listed(done[k])]
    BY <1>6
  <2>2. \A k \in 1..l : Listed(done[k]) \in S /\ Listed(done[k]).item = done[k]
    BY <1>6 DEF Listed
  <2> HIDE DEF o, l, S
  <2>3. o \in [1..l -> S]
    BY <2>1, <2>2
  <2>4. o \in Seq(S) /\ Len(o) = l
    BY <1>6, <2>3
  <2>5. \A k \in 1..l : o[k].item = done[k]
    BY <2>1, <2>2
  <2> QED
    BY <2>4, <2>5 DEF Outputs, S
<1> HIDE DEF o, l
<1>8. {o[k].item : k \in 1..Len(o)} = U
  BY <1>6, <1>7
<1>9. /\ Completed(o) \in SourceEvents /\ Proper(Completed(o))
      /\ Completed(o).type = "completed" /\ Completed(o).output = o
  BY <1>7, CompletedEvent
<1> DEFINE c == Completed(o)
<1> HIDE DEF c
<1>10. c \in SourceEvents /\ Proper(c) /\ c.type = "completed" /\ c.output = o
  BY <1>9 DEF c
<1>11. es = IF upstream.finished THEN <<c>> ELSE <<>>
  BY DEF c
<1> HIDE DEF es
<1>12. /\ es \in Seq(SourceEvents) /\ \A k \in 1..Len(es) : Proper(es[k])
       /\ es # <<>> => Len(es) = 1 /\ upstream.finished /\ es[1] = c
  <2>1. CASE upstream.finished
    <3>1. es = <<c>>
      BY <1>11, <2>1
    <3>2. es \in Seq(SourceEvents) /\ Len(es) = 1 /\ es[1] = c
      BY <1>10, <3>1
    <3> QED
      BY <1>10, <2>1, <3>2
  <2>2. CASE ~upstream.finished
    <3>1. es = <<>>
      BY <1>11, <2>2
    <3>2. es \in Seq(SourceEvents) /\ Len(es) = 0
      BY <3>1
    <3> QED
      BY <3>1, <3>2
  <2> QED
    BY <2>1, <2>2
<1>13. events' # <<>> =>
          /\ Len(events') = 1 /\ upstream.finished /\ input # <<>>
          /\ events'[1].type = "completed"
          /\ {events'[1].output[j].item : j \in 1..Len(events'[1].output)} = U
  BY <1>1, <1>4, <1>8, <1>10, <1>12
<1> QED
  BY <1>1, <1>2, <1>3, <1>12, <1>13, ClosesInv

LEMMA ResponseHeldInv == ASSUME IInv, ResponseHeld PROVE IInv'
<1>1. /\ Processing("completed") /\ UNCHANGED bufferVars /\ controller' = controller
      /\ generator \in {"streaming", "closing"} /\ events # <<>> /\ Head(events).type = "completed"
      /\ events' = Tail(events) /\ generator' = generator /\ open' = open
      /\ UNCHANGED <<upstream, round_index, current_body, controller, searchVars, yielded>>
  BY DEF ResponseHeld, Processing, Drop, roundVars
<1>2. /\ events[1].type = "completed" /\ generator = "closing" /\ LiveInv
      /\ \A k \in Positions : input[k].type # "completed"
  BY <1>1, NextEvent
<1>3. ClosingInv
  BY <1>2 DEF LiveInv
<1>4. events' = <<>>
  <2>1. Len(events) = 1
    BY <1>1, <1>3 DEF ClosingInv
  <2>2. events' \in Seq(SourceEvents) /\ Len(events') = 0
    BY <1>1, <2>1, NextEvent
  <2> QED
    BY <2>2, EmptySeq
<1>5. events' \in Seq(SourceEvents) /\ \A k \in 1..Len(events') : Proper(events'[k])
  <2>1. Len(events') = 0 /\ 1..0 = {}
    BY <1>4
  <2> QED
    BY <1>1, <2>1, NextEvent
<1>6. ~open' /\ open' \in BOOLEAN
  BY <1>1, <1>2 DEF IInv, Types, UpstreamTypes
<1> QED
  BY <1>1, <1>2, <1>3, <1>4, <1>5, <1>6, ClosesInv DEF ClosingInv

LEMMA NoSearchesInv == ASSUME IInv, NoSearches PROVE IInv'
<1>1. /\ generator = "closing" /\ events = <<>> /\ controller.pending_calls = <<>>
      /\ generator' = "flushing" /\ UNCHANGED <<roundVars, controller, searchVars, events, yielded>>
      /\ UNCHANGED bufferVars
  BY DEF NoSearches, RoundOver, Delivering, Goto
<1>2. /\ upstream' = upstream /\ round_index' = round_index /\ current_body' = current_body
      /\ controller' = controller /\ calls' = calls /\ results' = results /\ yielded' = yielded
      /\ open' = open /\ events' = events
  BY <1>1 DEF searchVars, roundVars
<1>3. /\ BufferTypes' /\ BufferInv' /\ OrderInv' /\ IndexInv'
      /\ Announced' = Announced /\ Finished' = Finished /\ input' = input
      /\ output' = output /\ Reported(input)' = Reported(input)
  BY <1>1, <1>2, InputFrame
<1>4. ToldInv' /\ CompletedInv' /\ RoundInv' /\ U' = U /\ ThisRound' = ThisRound
  BY <1>2, <1>3, RoundFrame
<1>5. Types'
  BY <1>1, <1>2, <1>3
     DEF IInv, Types, UpstreamTypes, ControllerTypes, GeneratorTypes, Generators
<1>6. LiveInv'
  <2>1. LiveInv
    BY <1>1 DEF IInv, Ended
  <2> QED
    BY <1>1, <1>2, <1>3, <2>1 DEF LiveInv, Positions
<1>7. ~open'
  BY <1>1, <1>2 DEF IInv
<1> QED
  BY <1>3, <1>4, <1>5, <1>6, <1>7 DEF IInv

\* One sequence after another.
LEMMA ConcatFacts ==
    ASSUME NEW T, NEW a \in Seq(T), NEW b \in Seq(T)
    PROVE  /\ a \o b \in Seq(T) /\ Len(a \o b) = Len(a) + Len(b)
           /\ \A k \in 1..Len(a) : (a \o b)[k] = a[k]
           /\ \A k \in 1..Len(b) : (a \o b)[Len(a) + k] = b[k]
           /\ IsPrefix(a, a \o b)
           /\ \A k \in Len(a) + 1..Len(a \o b) : k - Len(a) \in 1..Len(b) /\ (a \o b)[k] = b[k - Len(a)]
           /\ \A k \in 1..Len(b) : Len(a) + k \in Len(a) + 1..Len(a \o b)
           /\ \A k \in 1..Len(a \o b) : k \in 1..Len(a) \/ k \in Len(a) + 1..Len(a \o b)
<1> DEFINE c == a \o b
           m == Len(a)
           n == Len(b)
<1>1. m \in Nat /\ n \in Nat
  BY LenProperties
<1>2. c \in Seq(T) /\ Len(c) = m + n /\ \A i \in 1..m + n : c[i] = IF i <= m THEN a[i] ELSE b[i - m]
  <2>1. /\ a \o b \in Seq(T) /\ Len(a \o b) = Len(a) + Len(b)
        /\ \A i \in 1..Len(a) + Len(b) : (a \o b)[i] = IF i <= Len(a) THEN a[i] ELSE b[i - Len(a)]
    BY ConcatProperties
  <2> QED
    BY <2>1
<1> HIDE DEF c
<1>3. \A k \in 1..m : k \in 1..m + n /\ k <= m
  BY <1>1
<1>4. \A k \in 1..n : m + k \in 1..m + n /\ ~(m + k <= m) /\ (m + k) - m = k
                      /\ m + k \in m + 1..m + n
  BY <1>1
<1>5. \A k \in m + 1..m + n : k - m \in 1..n /\ k \in 1..m + n /\ ~(k <= m)
  BY <1>1
<1>6. \A k \in 1..m + n : k \in 1..m \/ k \in m + 1..m + n
  BY <1>1
<1>7. \A k \in 1..m : c[k] = a[k]
  BY <1>2, <1>3
<1>8. \A k \in 1..n : c[m + k] = b[k]
  BY <1>2, <1>4
<1>9. \A k \in m + 1..m + n : c[k] = b[k - m]
  BY <1>2, <1>5
<1>10. IsPrefix(a, c)
  <2> DEFINE x == SubSeq(a, 1, m)
             y == SubSeq(c, 1, m)
  <2>1. 1 \in Int /\ m \in Int /\ m - 1 + 1 = m /\ (~(1 <= m) => m = 0) /\ m <= m + n
        /\ \A i \in 1..m : 1 + i - 1 = i
    BY <1>1
  <2>2. \A i \in 1..m : a[i] \in T /\ c[i] \in T
    BY <1>7, ElementOfSeq
  <2>3. x \in Seq(T) /\ Len(x) = (IF 1 <= m THEN m - 1 + 1 ELSE 0)
        /\ \A i \in 1..m - 1 + 1 : x[i] = a[1 + i - 1]
    BY <2>1, <2>2, SubSeqProperties
  <2>4. y \in Seq(T) /\ Len(y) = (IF 1 <= m THEN m - 1 + 1 ELSE 0)
        /\ \A i \in 1..m - 1 + 1 : y[i] = c[1 + i - 1]
    BY <2>1, <2>2, SubSeqProperties
  <2> HIDE DEF x, y
  <2>5. Len(x) = m /\ Len(y) = m /\ \A i \in 1..m : x[i] = y[i]
    <3> HIDE DEF m
    <3> QED
      BY <1>7, <2>1, <2>3, <2>4
  <2>6. x = y
    BY <2>3, <2>4, <2>5, SeqEqual
  <2> QED
    BY <1>2, <2>1, <2>6 DEF IsPrefix, x, y
<1> HIDE DEF m, n
<1>11. /\ c \in Seq(T) /\ Len(c) = m + n
       /\ \A k \in 1..m : c[k] = a[k]
       /\ \A k \in 1..n : c[m + k] = b[k]
       /\ IsPrefix(a, c)
       /\ \A k \in m + 1..Len(c) : k - m \in 1..n /\ c[k] = b[k - m]
       /\ \A k \in 1..n : m + k \in m + 1..Len(c)
       /\ \A k \in 1..Len(c) : k \in 1..m \/ k \in m + 1..Len(c)
  BY <1>2, <1>4, <1>5, <1>6, <1>7, <1>8, <1>9, <1>10
<1> QED
  BY <1>11 DEF c, m, n

\* What ends the response lists what the client was told of the searches, and
\* then the round.
LEMMA PatchedFacts ==
    ASSUME IInv, NEW o \in Outputs, {o[j].item : j \in 1..Len(o)} \subseteq Items \ (Finished \cap Searches),
           controller.completed_items = Reported(input)
    PROVE  Patched(o) = Reported(input) \o o
<1> DEFINE r == Reported(input)
           there == {entry.item : entry \in ToSet(o)}
           S == {c \in Results : c.item \notin there}
<1>1. /\ r \in Seq(Results)
      /\ \A i \in 1..Len(r) : r[i].item \in Searches \cap Finished
  BY ReportedItems DEF IInv, Types, BufferTypes, OrderInv, Finished
<1>2. there \subseteq Items \ (Finished \cap Searches)
  <2>1. DOMAIN o = 1..Len(o)
    BY LenProperties DEF Outputs
  <2> QED
    BY <2>1 DEF ToSet
<1> HIDE DEF r, there
<1>3. \A k \in 1..Len(r) : r[k] \in S
  BY <1>1, <1>2, ElementOfSeq
<1> HIDE DEF S
<1>4. Select(r, S) = r
  <2>1. r \in Seq(Results)
    BY <1>1
  <2> QED
    BY <1>3, <2>1, SelectAll
<1>5. Patched(o) = Select(controller.completed_items, S) \o o
  BY DEF Patched, S, there
<1> QED
  BY <1>4, <1>5 DEF r

LEMMA ResponseCompletedInv == ASSUME IInv, ResponseCompleted PROVE IInv'
<1> DEFINE o == Head(events).output
           r == Reported(input)
           p == r \o o
           e == Completed(p)
<1>1. /\ Processing("completed") /\ controller.pending_calls = <<>>
      /\ PB!process(Completed(Patched(o))) /\ controller' = controller
      /\ generator \in {"streaming", "closing"} /\ events # <<>> /\ Head(events).type = "completed"
  BY DEF ResponseCompleted, Processing
<1>2. /\ Head(events) = events[1] /\ events[1] \in SourceEvents
      /\ events[1].type = "completed" /\ generator = "closing" /\ LiveInv
      /\ \A k \in Positions : input[k].type # "completed"
  BY <1>1, NextEvent
<1>3. /\ ClosingInv /\ calls = <<>> /\ results = <<>>
      /\ Reported(input) = controller.completed_items /\ current_body = Reported(input)
      /\ \A k \in yielded + 1 .. Len(input) : ~Reports(input[k])
  BY <1>2 DEF LiveInv
<1>4. /\ Types /\ BufferTypes /\ ControllerTypes /\ OrderInv /\ ToldInv /\ RoundInv
  BY DEF IInv, Types
<1>5. /\ Len(events) = 1 /\ upstream.finished /\ input # <<>> /\ U = ThisRound
      /\ {o[j].item : j \in 1..Len(o)} = U
      /\ U \subseteq Finished \ Searches
  <2>1. Pending = {}
    BY <1>1 DEF Pending, ToSet
  <2> QED
    BY <1>1, <1>2, <1>3, <2>1 DEF ClosingInv
<1>6. o \in Outputs
  BY <1>2 DEF SourceEvents, Outputs
<1> HIDE DEF o
<1>7. Patched(o) = p
  <2>1. U \subseteq Items \ (Finished \cap Searches)
    BY <1>5 DEF Finished, ItemsOf
  <2> QED
    BY <1>3, <1>5, <1>6, <2>1, PatchedFacts
<1>8. /\ r \in Seq(Results)
      /\ \A i \in 1..Len(r) : r[i].item \in Finished
  BY <1>4, ReportedItems DEF BufferTypes, OrderInv, Finished
<1> HIDE DEF r
<1>9. /\ p \in Outputs /\ Len(p) = Len(r) + Len(o)
      /\ \A k \in 1..Len(r) : p[k] = r[k]
      /\ \A k \in 1..Len(o) : p[Len(r) + k] = o[k]
      /\ IsPrefix(r, p)
      /\ \A k \in Len(r) + 1..Len(p) : k - Len(r) \in 1..Len(o) /\ p[k] = o[k - Len(r)]
      /\ \A k \in 1..Len(o) : Len(r) + k \in Len(r) + 1..Len(p)
      /\ \A k \in 1..Len(p) : k \in 1..Len(r) \/ k \in Len(r) + 1..Len(p)
  <2> DEFINE S == Results \cup {Listed(i) : i \in Items}
  <2>1. Results \subseteq S
    OBVIOUS
  <2> HIDE DEF S
  <2>2. r \in Seq(S)
    BY <1>8, <2>1, SeqMonotonic
  <2>3. o \in Seq(S)
    BY <1>6 DEF Outputs, S
  <2>4. /\ r \o o \in Seq(S) /\ Len(r \o o) = Len(r) + Len(o)
        /\ \A k \in 1..Len(r) : (r \o o)[k] = r[k]
        /\ \A k \in 1..Len(o) : (r \o o)[Len(r) + k] = o[k]
        /\ IsPrefix(r, r \o o)
        /\ \A k \in Len(r) + 1..Len(r \o o) :
              k - Len(r) \in 1..Len(o) /\ (r \o o)[k] = o[k - Len(r)]
        /\ \A k \in 1..Len(o) : Len(r) + k \in Len(r) + 1..Len(r \o o)
        /\ \A k \in 1..Len(r \o o) : k \in 1..Len(r) \/ k \in Len(r) + 1..Len(r \o o)
    BY <2>2, <2>3, ConcatFacts
  <2>5. Outputs = Seq(S)
    BY DEF Outputs, S
  <2> HIDE DEF p
  <2>6. p = r \o o
    BY DEF p
  <2> QED
    BY <2>4, <2>5, <2>6
<1> HIDE DEF p
<1>10. e \in SourceEvents /\ Proper(e) /\ e.type = "completed" /\ e.output = p /\ PB!process(e)
  BY <1>1, <1>7, <1>9, CompletedEvent
<1> HIDE DEF e
<1>11. ~Reports(e) /\ controller'.created
  BY <1>1, <1>4, <1>5, <1>10 DEF Reports, OrderInv
<1>12. /\ BufferTypes' /\ BufferInv' /\ OrderInv' /\ IndexInv'
       /\ Announced' = Announced \cup {i \in Items : e.type = "added" /\ e.item = i}
       /\ Finished' = Finished \cup {i \in Items : e.type = "done" /\ e.item = i}
       /\ Reported(input)' = Reported(input)
       /\ Len(output') \in Nat /\ Len(output) <= Len(output') /\ UNCHANGED eof
       /\ Len(input) \in Nat /\ Len(input') = Len(input) + 1 /\ input'[Len(input) + 1] = e
       /\ \A k \in 1..Len(input) : input'[k] = input[k]
  BY <1>1, <1>5, <1>10, <1>11, InputGrows
<1>13. Announced' = Announced /\ Finished' = Finished
  BY <1>10, <1>12
<1>14. ControllerTypes'
  BY <1>1, <1>4, SameController
<1>15. /\ events' = Tail(events) /\ upstream' = upstream /\ open' = open
       /\ round_index' = round_index /\ current_body' = current_body
       /\ calls' = calls /\ results' = results /\ generator' = generator /\ yielded' = yielded
       /\ Types'
  BY <1>1, <1>12, <1>14, ProcessingFrame
<1>16. events' = <<>>
  <2>1. events' \in Seq(SourceEvents) /\ Len(events') = 0
    BY <1>1, <1>5, <1>15, NextEvent
  <2> QED
    BY <2>1, EmptySeq
<1>17. U' = U /\ ThisRound' = ThisRound /\ Pending' = Pending
  BY <1>1, <1>13, <1>15 DEF U, ThisRound, Pending
<1>18. /\ IsPrefix(Reported(input)', e.output)
       /\ {e.output[j].item : j \in Len(Reported(input)') + 1 .. Len(e.output)} = U'
       /\ \A entry \in ToSet(e.output) : entry.item \in Finished'
  <2>1. {p[j].item : j \in Len(r) + 1 .. Len(p)} = {o[j].item : j \in 1..Len(o)}
    <3> DEFINE A == {p[j].item : j \in Len(r) + 1 .. Len(p)}
               B == {o[j].item : j \in 1..Len(o)}
    <3>1. \A x \in A : x \in B
      BY <1>9
    <3>2. \A x \in B : x \in A
      BY <1>9
    <3> QED
      BY <3>1, <3>2
  <2>2. \A k \in 1..Len(p) : p[k].item \in Finished
    <3> TAKE k \in 1..Len(p)
    <3>1. CASE k \in 1..Len(r)
      BY <1>8, <1>9, <3>1
    <3>2. CASE k \in Len(r) + 1..Len(p)
      <4>1. k - Len(r) \in 1..Len(o) /\ p[k] = o[k - Len(r)]
        BY <1>9, <3>2
      <4>2. p[k].item \in U
        BY <1>5, <4>1
      <4> QED
        BY <1>5, <4>2
    <3> QED
      BY <1>9, <3>1, <3>2
  <2>3. DOMAIN p = 1..Len(p)
    BY <1>9, LenProperties DEF Outputs
  <2>4. \A entry \in ToSet(p) : entry.item \in Finished
    BY <2>2, <2>3 DEF ToSet
  <2>5. Reported(input)' = r
    BY <1>12 DEF r
  <2> QED
    BY <1>5, <1>9, <1>10, <1>13, <1>17, <2>1, <2>4, <2>5
<1>19. \A k \in 1..Len(input') : k \in 1..Len(input) \/ k = Len(input')
  BY <1>12
<1>20. CompletedInv'
  <2> SUFFICES ASSUME NEW k \in 1..Len(input'), input'[k].type = "completed"
               PROVE  k = Len(input') /\ EndsWell(input[k])'
    BY DEF CompletedInv, Positions
  <2>1. k = Len(input')
    BY <1>2, <1>12, <1>19 DEF Positions
  <2>2. input'[k] = e
    BY <1>12, <2>1
  <2>3. /\ IsPrefix(Reported(input)', input'[k].output)
        /\ {input'[k].output[j].item :
                j \in Len(Reported(input)') + 1 .. Len(input'[k].output)} = U'
        /\ \A entry \in ToSet(input'[k].output) : entry.item \in Finished'
    BY <1>18, <2>2
  <2> QED
    BY <2>1, <2>3 DEF EndsWell
<1>21. ToldInv' /\ RoundInv'
  <2>1. ToldInv'
    BY <1>4, <1>13, <1>15 DEF ToldInv, InBody
  <2>2. RoundInv'
    BY <1>1, <1>4, <1>13, <1>15, <1>17 DEF RoundInv
  <2> QED
    BY <2>1, <2>2
<1>22. \A k \in yielded' + 1 .. Len(input') : ~Reports(input'[k])
  <2>1. yielded \in Nat
    BY <1>4, LenProperties DEF Types, BufferTypes
  <2>2. \A k \in yielded + 1 .. Len(input) + 1 :
            (k \in 1..Len(input) /\ k \in yielded + 1 .. Len(input)) \/ k = Len(input) + 1
    BY <1>12, <2>1
  <2> QED
    BY <1>3, <1>11, <1>12, <1>15, <2>2
<1>23. ClosingInv'
  BY <1>3, <1>13, <1>15, <1>16, <1>17 DEF ClosingInv
<1>24. LiveInv'
  <2>1. generator' = "closing" /\ controller'.pending_calls = <<>>
    BY <1>1, <1>2, <1>15
  <2>2. Reported(input)' = controller'.completed_items /\ current_body' = Reported(input)'
    BY <1>1, <1>3, <1>12, <1>15
  <2> QED
    BY <1>3, <1>15, <1>16, <1>22, <1>23, <2>1, <2>2 DEF LiveInv
<1>25. open' => generator' = "streaming"
  BY <1>15 DEF IInv
<1> QED
  BY <1>12, <1>15, <1>20, <1>21, <1>24, <1>25 DEF IInv

-----------------------------------------------------------------------------
(* Between two rounds. *)

\* Nothing is delivered any more.
LEMMA Quiet ==
    ASSUME IInv, ~Delivering
    PROVE  events = <<>> /\ yielded = Len(output) /\ Len(output) \in Nat
<1>1. events = <<>> /\ ~(yielded < Len(output))
  BY DEF Delivering
<1>2. yielded \in 0..Len(output) /\ Len(output) \in Nat
  BY LenProperties DEF IInv, Types, BufferTypes
<1> QED
  BY <1>1, <1>2

\* What the steps between two rounds have in common.
LEMMA BetweenFrame ==
    ASSUME IInv, UNCHANGED <<upstream, open, round_index, yielded>>, UNCHANGED bufferVars,
           current_body' \in Seq(Results), ControllerTypes', GeneratorTypes',
           controller'.created = controller.created, controller'.indexes = controller.indexes
    PROVE  /\ Types' /\ BufferInv' /\ OrderInv' /\ IndexInv'
           /\ Announced' = Announced /\ Finished' = Finished /\ input' = input
           /\ output' = output /\ Reported(input)' = Reported(input)
<1>1. /\ BufferTypes' /\ BufferInv' /\ OrderInv' /\ IndexInv'
      /\ Announced' = Announced /\ Finished' = Finished /\ input' = input
      /\ output' = output /\ Reported(input)' = Reported(input)
  BY InputFrame
<1>2. Types'
  BY <1>1 DEF IInv, Types, UpstreamTypes
<1> QED
  BY <1>1, <1>2

LEMMA StartSearchesInv == ASSUME IInv, StartSearches PROVE IInv'
<1>1. /\ generator = "closing" /\ ~Delivering /\ controller.pending_calls # <<>>
      /\ round_index < max_rounds /\ calls' = controller.pending_calls
      /\ controller' = [controller EXCEPT !.pending_calls = <<>>]
      /\ generator' = "searching"
      /\ upstream' = upstream /\ open' = open /\ round_index' = round_index
      /\ current_body' = current_body /\ results' = results /\ events' = events
      /\ yielded' = yielded /\ UNCHANGED bufferVars
  BY DEF StartSearches, RoundOver, Goto, roundVars
<1>2. Types /\ UpstreamTypes /\ ControllerTypes /\ GeneratorTypes /\ BufferTypes /\ RoundInv
  BY DEF IInv, Types
<1>3. events = <<>> /\ yielded = Len(output)
  BY <1>1, Quiet
<1>4. /\ ClosingInv /\ LiveInv /\ calls = <<>> /\ results = <<>>
      /\ Reported(input) = controller.completed_items /\ current_body = Reported(input)
      /\ ~\E k \in Positions : input[k].type = "completed"
  <2>1. LiveInv
    BY <1>1 DEF IInv, Ended
  <2> QED
    BY <1>1, <2>1 DEF LiveInv
<1>5. controller' = [created |-> controller.created, completed_items |-> controller.completed_items,
                     pending_calls |-> <<>>, indexes |-> controller.indexes]
  BY <1>1, <1>2 DEF ControllerTypes
<1>6. /\ controller'.created = controller.created /\ controller'.indexes = controller.indexes
      /\ controller'.completed_items = controller.completed_items
      /\ controller'.pending_calls = <<>> /\ ControllerTypes'
  <2>1. <<>> \in Seq(Searches)
    OBVIOUS
  <2> QED
    BY <1>2, <1>5, <2>1 DEF ControllerTypes
<1>7. GeneratorTypes'
  <2>1. calls' \in Seq(Searches) /\ results' \in Seq(Results) /\ Len(results') = 0
        /\ Len(calls') \in Nat
    BY <1>1, <1>2, <1>4, LenProperties DEF ControllerTypes, GeneratorTypes
  <2>2. Len(results') <= Len(calls')
    BY <2>1
  <2> QED
    BY <1>1, <1>2, <2>1, <2>2 DEF GeneratorTypes, Generators
<1>8. /\ Types' /\ BufferInv' /\ OrderInv' /\ IndexInv'
      /\ Announced' = Announced /\ Finished' = Finished /\ input' = input
      /\ output' = output /\ Reported(input)' = Reported(input)
  BY <1>1, <1>2, <1>6, <1>7, BetweenFrame DEF UpstreamTypes
<1>9. ToldInv' /\ CompletedInv' /\ RoundInv' /\ U' = U /\ ThisRound' = ThisRound
  BY <1>1, <1>6, <1>8, RoundFrame
<1>10. SearchingInv'
  <2>1. upstream.finished
    BY <1>1, <1>2 DEF RoundInv
  <2>2. ToSet(calls') = Pending /\ IsInjective(calls') /\ Pending \subseteq Announced
    BY <1>1, <1>2 DEF Pending, RoundInv
  <2>3. \A s \in Announced \cap Searches : s.round = round_index => s \in Pending
    BY <1>4, <2>1 DEF ClosingInv, ThisRound
  <2>4. \A k \in 1..Len(results') : results'[k].item = calls'[k]
    <3>1. Len(results') = 0 /\ 1..0 = {}
      BY <1>1, <1>4
    <3> QED
      BY <3>1
  <2> QED
    BY <1>1, <1>8, <2>2, <2>3, <2>4 DEF SearchingInv
<1>11. ToSet(calls') \cap Finished' = {}
  BY <1>1, <1>2, <1>8 DEF Pending, RoundInv
<1>12. LiveInv'
  BY <1>1, <1>3, <1>4, <1>6, <1>8, <1>10, <1>11 DEF LiveInv, Positions
<1>13. open' => generator' = "streaming"
  BY <1>1 DEF IInv
<1> QED
  BY <1>8, <1>9, <1>12, <1>13 DEF IInv

LEMMA SearchEndsInv == ASSUME IInv, NEW outcome \in Outcomes, SearchEnds(outcome) PROVE IInv'
<1> DEFINE k == Len(results) + 1
           x == [item |-> calls[k], status |-> outcome]
<1>1. /\ generator = "searching" /\ Len(results) < Len(calls)
      /\ results' = Append(results, x) /\ calls' = calls /\ generator' = generator
      /\ controller' = controller
      /\ upstream' = upstream /\ open' = open /\ round_index' = round_index
      /\ current_body' = current_body /\ events' = events
      /\ yielded' = yielded /\ UNCHANGED bufferVars
  BY DEF SearchEnds, Searching, roundVars
<1>2. Types /\ UpstreamTypes /\ ControllerTypes /\ GeneratorTypes /\ BufferTypes /\ RoundInv
  BY DEF IInv, Types
<1>3. /\ LiveInv /\ SearchingInv /\ ToSet(calls) \cap Finished = {}
      /\ events = <<>> /\ controller.pending_calls = <<>> /\ round_index < max_rounds
      /\ Reported(input) = controller.completed_items /\ current_body = Reported(input)
      /\ ~\E j \in Positions : input[j].type = "completed"
  <2>1. LiveInv
    BY <1>1 DEF IInv, Ended
  <2> QED
    BY <1>1, <2>1 DEF LiveInv
<1>4. calls \in Seq(Searches) /\ results \in Seq(Results)
      /\ Len(results) \in Nat /\ Len(calls) \in Nat
  BY <1>2, LenProperties DEF GeneratorTypes
<1>5. k \in 1..Len(calls) /\ k <= Len(calls)
  BY <1>1, <1>4
<1>6. x \in Results
  BY <1>4, <1>5, ElementOfSeq DEF Results
<1>7. /\ results' \in Seq(Results) /\ Len(results') = k /\ results'[k] = x
      /\ \A j \in 1..Len(results) : results'[j] = results[j]
  <2> HIDE DEF x
  <2> QED
    BY <1>1, <1>4, <1>6, AppendProperties
<1>8. x.item = calls[k] /\ \A j \in 1..k : j \in 1..Len(results) \/ j = k
  BY <1>4
<1> HIDE DEF x, k
<1>9. GeneratorTypes'
  BY <1>1, <1>2, <1>5, <1>7 DEF GeneratorTypes
<1>10. ControllerTypes'
  BY <1>1, <1>2, SameController
<1>11. /\ Types' /\ BufferInv' /\ OrderInv' /\ IndexInv'
       /\ Announced' = Announced /\ Finished' = Finished /\ input' = input
       /\ output' = output /\ Reported(input)' = Reported(input)
  BY <1>1, <1>2, <1>9, <1>10, BetweenFrame DEF UpstreamTypes
<1>12. ToldInv' /\ CompletedInv' /\ RoundInv' /\ U' = U /\ ThisRound' = ThisRound
  BY <1>1, <1>11, RoundFrame
<1>13. SearchingInv'
  <2>1. \A j \in 1..Len(results') : results'[j].item = calls'[j]
    BY <1>1, <1>3, <1>7, <1>8 DEF SearchingInv
  <2> QED
    BY <1>1, <1>3, <1>11, <2>1 DEF SearchingInv
<1>14. LiveInv'
  BY <1>1, <1>3, <1>11, <1>13 DEF LiveInv, Positions
<1>15. open' => generator' = "streaming"
  BY <1>1 DEF IInv
<1> QED
  BY <1>11, <1>12, <1>14, <1>15 DEF IInv

\* The outcomes go to the client, in the order of the calls.
LEMMA CompleteResultsInv == ASSUME IInv, complete_search_results PROVE IInv'
<1> DEFINE C == controller.completed_items
           f == controller.indexes
           l == Len(results)
           c == C \o results
           y(k) == Event("done", "tool_item", results[k].item, f[results[k].item])
           es == [k \in DOMAIN results |-> [y(k) EXCEPT !.status = results[k].status]]
<1>1. /\ generator = "searching" /\ Len(results) = Len(calls)
      /\ controller' = [controller EXCEPT !.completed_items = c]
      /\ events' = es /\ generator' = "announcing"
      /\ results' = results /\ calls' = calls
      /\ upstream' = upstream /\ open' = open /\ round_index' = round_index
      /\ current_body' = current_body
      /\ yielded' = yielded /\ UNCHANGED bufferVars
  BY DEF complete_search_results, roundVars, searchVars, Goto
<1>2. /\ Types /\ UpstreamTypes /\ ControllerTypes /\ GeneratorTypes /\ BufferTypes /\ RoundInv
      /\ IndexInv
  BY DEF IInv, Types
<1>3. /\ LiveInv /\ SearchingInv /\ ToSet(calls) \cap Finished = {}
      /\ controller.pending_calls = <<>> /\ round_index < max_rounds
      /\ Reported(input) = C /\ current_body = C
      /\ ~\E j \in Positions : input[j].type = "completed"
  <2>1. LiveInv
    BY <1>1 DEF IInv, Ended
  <2> QED
    BY <1>1, <2>1 DEF LiveInv
<1>4. /\ calls \in Seq(Searches) /\ results \in Seq(Results) /\ C \in Seq(Results)
      /\ l \in Nat /\ DOMAIN results = 1..l /\ DOMAIN calls = 1..l /\ Len(C) \in Nat
  BY <1>1, <1>2, LenProperties DEF GeneratorTypes, ControllerTypes
<1>5. /\ c \in Seq(Results) /\ Len(c) = Len(C) + l
      /\ \A k \in 1..Len(C) : c[k] = C[k]
      /\ \A k \in 1..l : c[Len(C) + k] = results[k]
  <2> HIDE DEF C
  <2>1. /\ C \o results \in Seq(Results) /\ Len(C \o results) = Len(C) + Len(results)
        /\ \A k \in 1..Len(C) : (C \o results)[k] = C[k]
        /\ \A k \in 1..Len(results) : (C \o results)[Len(C) + k] = results[k]
    BY <1>4, ConcatFacts
  <2> QED
    BY <2>1
<1> HIDE DEF c
<1>6. \A k \in 1..l : /\ results[k].item = calls[k] /\ calls[k] \in Searches
                      /\ calls[k] \in Announced \ Finished /\ calls[k] \in DOMAIN f
                      /\ f[calls[k]] \in Nat /\ results[k].status \in Outcomes
  <2> TAKE k \in 1..l
  <2>1. results[k].item = calls[k]
    BY <1>3 DEF SearchingInv
  <2>2. calls[k] \in Searches /\ results[k] \in Results
    BY <1>1, <1>4, ElementOfSeq
  <2>3. calls[k] \in ToSet(calls)
    BY <1>4 DEF ToSet
  <2>4. calls[k] \in Announced \ Finished
    BY <1>3, <2>3 DEF SearchingInv
  <2>5. \E j \in Positions : input[j].type = "added" /\ input[j].item = calls[k]
    BY <2>4 DEF Announced, ItemsOf, Positions
  <2>6. calls[k] \in DOMAIN f
    BY <1>2, <2>2, <2>5 DEF IndexInv
  <2>7. f[calls[k]] \in Nat
    BY <1>2, <2>6 DEF ControllerTypes
  <2>8. results[k].status \in Outcomes
    BY <2>2 DEF Results
  <2> QED
    BY <2>1, <2>2, <2>4, <2>6, <2>7, <2>8
<1>7. \A k \in 1..l : /\ es[k] \in SourceEvents /\ Proper(es[k])
                      /\ es[k].type = "done" /\ es[k].item = calls[k]
                      /\ es[k].status = results[k].status /\ es[k].index = f[calls[k]]
  <2> TAKE k \in 1..l
  <2> DEFINE i == results[k].item
             n == f[i]
             v == Event("done", "tool_item", i, n)
             w == [v EXCEPT !.status = results[k].status]
  <2>1. es[k] = w
    BY <1>4
  <2>2. i = calls[k] /\ i \in Searches /\ n \in Nat /\ results[k].status \in Outcomes
    BY <1>6
  <2> HIDE DEF es, i, n
  <2>3. "tool_item" \in PB!Kinds /\ i \in Items /\ i \notin Messages
    BY <2>2, ItemKinds DEF PB!Kinds, PB!ToolKinds
  <2>4. /\ v \in SourceEvents /\ v.type = "done" /\ v.kind = "tool_item" /\ v.item = i
        /\ v.index = n /\ v.id = NoItem
    BY <2>2, <2>3, EventFacts
  <2> HIDE DEF v
  <2>5. /\ w \in SourceEvents /\ w.type = "done" /\ w.kind = "tool_item" /\ w.item = i
        /\ w.index = n /\ w.id = NoItem /\ w.status = results[k].status
    BY <2>2, <2>4 DEF SourceEvents
  <2> HIDE DEF w
  <2>6. Proper(w)
    BY <2>3, <2>5 DEF Proper, KindOf
  <2> QED
    BY <2>1, <2>2, <2>5, <2>6 DEF n
<1>8. es \in Seq(SourceEvents) /\ Len(es) = l
  <2>1. es = [k \in 1..l |-> es[k]]
    BY <1>4
  <2> HIDE DEF es, l
  <2>2. es \in [1..l -> SourceEvents]
    BY <1>7, <2>1
  <2> QED
    BY <1>4, <2>2
<1> HIDE DEF es, l
<1>9. controller' = [created |-> controller.created, completed_items |-> c,
                     pending_calls |-> controller.pending_calls, indexes |-> f]
  BY <1>1, <1>2 DEF ControllerTypes
<1>10. /\ controller'.created = controller.created /\ controller'.indexes = f
       /\ controller'.completed_items = c
       /\ controller'.pending_calls = controller.pending_calls /\ ControllerTypes'
  BY <1>2, <1>5, <1>9 DEF ControllerTypes
<1>11. GeneratorTypes'
  BY <1>1, <1>2, <1>7, <1>8 DEF GeneratorTypes, Generators
<1>12. /\ Types' /\ BufferInv' /\ OrderInv' /\ IndexInv'
       /\ Announced' = Announced /\ Finished' = Finished /\ input' = input
       /\ output' = output /\ Reported(input)' = Reported(input)
  BY <1>1, <1>2, <1>10, <1>11, BetweenFrame DEF UpstreamTypes
<1>13. ToldInv' /\ CompletedInv' /\ RoundInv' /\ U' = U /\ ThisRound' = ThisRound
  BY <1>1, <1>10, <1>12, RoundFrame
<1>14. SearchingInv'
  BY <1>1, <1>3, <1>12 DEF SearchingInv
<1>15. AnnouncingInv'
  <2>1. \A k \in 1..Len(events') : ToTell(k)'
    <3> TAKE k \in 1..Len(events')
    <3>1. k \in 1..l
      BY <1>1, <1>8
    <3>2. controller'.completed_items[Len(Reported(input)') + k] = results[k]
      BY <1>3, <1>5, <1>10, <1>12, <3>1
    <3> QED
      BY <1>1, <1>6, <1>7, <1>10, <1>12, <3>1, <3>2 DEF ToTell
  <2>2. Once(events')
    <3>1. \A j, k \in 1..l : calls[j] = calls[k] => j = k
      BY <1>3, <1>4 DEF SearchingInv, IsInjective
    <3> QED
      BY <1>1, <1>7, <1>8, <3>1 DEF Once
  <2>3. Len(results') = Len(calls')
    BY <1>1
  <2>4. Len(controller'.completed_items) = Len(Reported(input)') + Len(events')
    BY <1>1, <1>3, <1>5, <1>8, <1>10, <1>12
  <2>5. \A k \in 1..Len(Reported(input)') : Reported(input)'[k] = controller'.completed_items[k]
    BY <1>3, <1>5, <1>10, <1>12
  <2>6. controller'.completed_items = current_body' \o results'
    BY <1>1, <1>3, <1>10 DEF c
  <2> QED
    BY <2>1, <2>2, <2>3, <2>4, <2>5, <2>6 DEF AnnouncingInv
<1>16. LiveInv'
  BY <1>1, <1>3, <1>10, <1>12, <1>14, <1>15 DEF LiveInv, Positions
<1>17. open' => generator' = "streaming"
  BY <1>1 DEF IInv
<1> QED
  BY <1>12, <1>13, <1>16, <1>17 DEF IInv

\* The model is told what the client was told.
LEMMA AppendResultsInv == ASSUME IInv, append_tool_results PROVE IInv'
<1> DEFINE C == controller.completed_items
           r == Reported(input)
           b == current_body \o results
<1>1. /\ generator = "announcing" /\ ~Delivering /\ current_body' = b
      /\ calls' = <<>> /\ results' = <<>> /\ generator' = "requesting"
      /\ upstream' = upstream /\ open' = open /\ round_index' = round_index
      /\ controller' = controller /\ events' = events
      /\ yielded' = yielded /\ UNCHANGED bufferVars
  BY DEF append_tool_results, Goto
<1>2. /\ Types /\ UpstreamTypes /\ ControllerTypes /\ GeneratorTypes /\ BufferTypes /\ RoundInv
      /\ BufferInv /\ ToldInv /\ OrderInv
  BY DEF IInv, Types
<1>3. /\ LiveInv /\ SearchingInv /\ AnnouncingInv
      /\ controller.pending_calls = <<>> /\ round_index < max_rounds
      /\ ~\E j \in Positions : input[j].type = "completed"
  <2>1. LiveInv
    BY <1>1 DEF IInv, Ended
  <2> QED
    BY <1>1, <2>1 DEF LiveInv
<1>4. events = <<>> /\ yielded = Len(output) /\ Len(output) \in Nat
  BY <1>1, Quiet
<1>5. C = r /\ b = C /\ Len(results) = Len(calls)
  <2>1. r \in Seq(Results) /\ C \in Seq(Results)
    BY <1>2, ReportedItems DEF BufferTypes, OrderInv, ControllerTypes
  <2>2. Len(r) \in Nat /\ Len(C) \in Nat /\ Len(events) = 0
    BY <1>4, <2>1, LenProperties
  <2>3. Len(C) = Len(r) + Len(events) /\ \A k \in 1..Len(r) : r[k] = C[k]
    BY <1>3 DEF AnnouncingInv
  <2>4. Len(C) = Len(r)
    BY <2>2, <2>3
  <2> HIDE DEF C, r
  <2>5. C = r
    BY <2>1, <2>3, <2>4, SeqEqual
  <2> QED
    BY <1>3, <2>5 DEF AnnouncingInv, C
<1>6. /\ b \in Seq(Results)
      /\ \A k \in 1..Len(current_body) : k \in 1..Len(b) /\ b[k] = current_body[k]
      /\ \A k \in 1..Len(results) :
            Len(current_body) + k \in 1..Len(b) /\ b[Len(current_body) + k] = results[k]
  <2>1. current_body \in Seq(Results) /\ results \in Seq(Results)
        /\ Len(current_body) \in Nat /\ Len(results) \in Nat
    BY <1>2, LenProperties DEF UpstreamTypes, GeneratorTypes
  <2>2. /\ current_body \o results \in Seq(Results)
        /\ Len(current_body \o results) = Len(current_body) + Len(results)
        /\ \A k \in 1..Len(current_body) : (current_body \o results)[k] = current_body[k]
        /\ \A k \in 1..Len(results) :
              (current_body \o results)[Len(current_body) + k] = results[k]
    BY <2>1, ConcatFacts
  <2> HIDE DEF b
  <2>3. /\ b \in Seq(Results) /\ Len(b) = Len(current_body) + Len(results)
        /\ \A k \in 1..Len(current_body) : b[k] = current_body[k]
        /\ \A k \in 1..Len(results) : b[Len(current_body) + k] = results[k]
    BY <2>2 DEF b
  <2>4. /\ \A k \in 1..Len(current_body) : k \in 1..Len(current_body) + Len(results)
        /\ \A k \in 1..Len(results) :
              Len(current_body) + k \in 1..Len(current_body) + Len(results)
    BY <2>1
  <2> QED
    BY <2>3, <2>4
<1> HIDE DEF b, C, r
<1>7. ControllerTypes' /\ GeneratorTypes'
  <2>1. <<>> \in Seq(Searches) /\ <<>> \in Seq(Results) /\ Len(<<>>) <= Len(<<>>)
    OBVIOUS
  <2> QED
    BY <1>1, <1>2, <2>1, SameController DEF GeneratorTypes, Generators
<1>8. /\ Types' /\ BufferInv' /\ OrderInv' /\ IndexInv'
      /\ Announced' = Announced /\ Finished' = Finished /\ input' = input
      /\ output' = output /\ Reported(input)' = Reported(input)
  BY <1>1, <1>6, <1>7, BetweenFrame
<1>9. \A s \in Announced \cap Searches : InBody(s)'
  <2> TAKE s \in Announced \cap Searches
  <2>1. s.round <= round_index
    BY <1>2 DEF ToldInv
  <2>2. CASE s.round = round_index
    <3>1. s \in ToSet(calls)
      BY <1>3, <2>2 DEF SearchingInv
    <3>2. DOMAIN calls = 1..Len(calls)
      BY <1>2, LenProperties DEF GeneratorTypes
    <3>3. PICK k \in 1..Len(calls) : calls[k] = s
      BY <3>1, <3>2 DEF ToSet
    <3>4. results[k].item = s /\ k \in 1..Len(results)
      BY <1>3, <1>5, <3>3 DEF SearchingInv
    <3>5. Len(current_body) + k \in 1..Len(b) /\ b[Len(current_body) + k].item = s
      BY <1>6, <3>4
    <3> QED
      BY <1>1, <3>5 DEF InBody
  <2>3. CASE s.round # round_index
    <3>1. s.round < round_index
      <4>1. s.round \in Nat /\ round_index \in Nat
        BY <1>2, RoundsAssumption DEF UpstreamTypes, Searches, Search, Rounds
      <4> QED
        BY <2>1, <2>3, <4>1
    <3>2. PICK k \in 1..Len(current_body) : current_body[k].item = s
      BY <1>2, <3>1 DEF ToldInv, InBody
    <3> QED
      BY <1>1, <1>6, <3>2 DEF InBody
  <2> QED
    BY <2>2, <2>3
<1>10. ToldInv'
  BY <1>1, <1>2, <1>8, <1>9 DEF ToldInv
<1>11. CompletedInv'
  BY <1>3, <1>8 DEF CompletedInv, Positions
<1>12. RoundInv'
  <2>1. U' = U /\ Pending' = Pending
    BY <1>1 DEF U, Pending
  <2> QED
    BY <1>1, <1>2, <1>8, <2>1 DEF RoundInv
<1>13. \A k \in yielded + 1 .. Len(input) : ~Reports(input[k])
  <2>1. \A k \in Len(output) + 1 .. Len(input) : input[k].item \in Messages
    BY <1>2 DEF BufferInv
  <2> QED
    BY <1>4, <2>1, ItemKinds DEF Reports
<1>14. LiveInv'
  <2>1. Reported(input)' = controller'.completed_items /\ current_body' = Reported(input)'
    BY <1>1, <1>5, <1>8 DEF C, r
  <2> QED
    BY <1>1, <1>3, <1>4, <1>8, <1>9, <1>13, <2>1 DEF LiveInv, Positions
<1>15. open' => generator' = "streaming"
  BY <1>1 DEF IInv
<1> QED
  BY <1>8, <1>10, <1>11, <1>12, <1>14, <1>15 DEF IInv

LEMMA FollowUpOpensInv == ASSUME IInv, FollowUpOpens PROVE IInv'
<1>1. /\ generator = "requesting" /\ upstream' = NewProcessor /\ open' = TRUE
      /\ round_index' = round_index + 1 /\ generator' = "streaming"
      /\ current_body' = current_body /\ controller' = controller
      /\ calls' = calls /\ results' = results /\ events' = events
      /\ yielded' = yielded /\ UNCHANGED bufferVars
  BY DEF FollowUpOpens, searchVars, Goto
<1>2. /\ Types /\ UpstreamTypes /\ ControllerTypes /\ GeneratorTypes /\ BufferTypes /\ RoundInv
      /\ ToldInv
  BY DEF IInv, Types
<1>3. /\ LiveInv /\ events = <<>> /\ calls = <<>> /\ results = <<>>
      /\ \A s \in Announced \cap Searches : InBody(s)
      /\ controller.pending_calls = <<>> /\ round_index < max_rounds
      /\ Reported(input) = controller.completed_items /\ current_body = Reported(input)
      /\ \A k \in yielded + 1 .. Len(input) : ~Reports(input[k])
      /\ ~\E j \in Positions : input[j].type = "completed"
  <2>1. LiveInv
    BY <1>1 DEF IInv, Ended
  <2> QED
    BY <1>1, <2>1 DEF LiveInv
<1>4. /\ BufferTypes' /\ BufferInv' /\ OrderInv' /\ IndexInv'
      /\ Announced' = Announced /\ Finished' = Finished /\ input' = input
      /\ output' = output /\ Reported(input)' = Reported(input)
  BY <1>1, InputFrame
<1>5. upstream'.n = 0 /\ upstream'.items = <<>> /\ ~upstream'.finished
  BY <1>1 DEF NewProcessor
<1>6. round_index \in Nat /\ round_index' \in Rounds /\ max_rounds \in Nat /\ MaxChunks \in Nat
  BY <1>1, <1>2, <1>3, RoundsAssumption DEF UpstreamTypes, Rounds
<1>7. UpstreamTypes'
  <2>1. 0 \in 0..MaxChunks + 1 /\ <<>> \in Seq(Items)
    BY <1>6
  <2> QED
    BY <1>1, <1>2, <1>6, <2>1 DEF UpstreamTypes, NewProcessor
<1>8. Types'
  BY <1>1, <1>2, <1>4, <1>7, SameController DEF Types, GeneratorTypes, Generators
<1>9. \A i \in Announced : i.round \in Nat /\ i.round <= round_index
  BY <1>2, RoundsAssumption
     DEF ToldInv, Announced, ItemsOf, Items, Messages, Message, Call, Searches, Search, Rounds
<1>10. \A i \in Announced : i.round <= round_index' /\ i.round # round_index'
  BY <1>1, <1>6, <1>9
<1>11. ToldInv'
  BY <1>1, <1>3, <1>4, <1>10 DEF ToldInv, InBody
<1>12. CompletedInv'
  BY <1>3, <1>4 DEF CompletedInv, Positions
<1>13. U' = {} /\ Pending' = {} /\ ThisRound' = {}
  <2>1. U' = {} /\ Pending' = {}
    BY <1>1, <1>3, <1>5 DEF U, Pending, ToSet
  <2>2. ThisRound' = {}
    BY <1>4, <1>10 DEF ThisRound
  <2> QED
    BY <2>1, <2>2
<1>14. RoundInv'
  <2>1. IsInjective(upstream'.items) /\ IsInjective(controller'.pending_calls)
    BY <1>1, <1>3, <1>5 DEF IsInjective
  <2>2. Len(upstream'.items) <= upstream'.n /\ upstream'.n <= MaxChunks
    BY <1>5, <1>6
  <2> QED
    BY <1>1, <1>3, <1>5, <1>13, <2>1, <2>2 DEF RoundInv
<1>15. ChunkInv'
  <2>1. Len(events') = 0 /\ 1..0 = {}
    BY <1>1, <1>3
  <2>2. ItemsOf(events', "added") = {} /\ ItemsOf(events', "done") = {} /\ Once(events')
    BY <2>1 DEF ItemsOf, Once
  <2> QED
    BY <1>1, <1>3, <1>5, <1>13, <2>1, <2>2 DEF ChunkInv
<1>16. LiveInv'
  BY <1>1, <1>3, <1>4, <1>15 DEF LiveInv, Positions
<1> QED
  BY <1>1, <1>4, <1>8, <1>11, <1>12, <1>14, <1>16 DEF IInv

\* What the phase buffer held back goes out.
LEMMA FlushBufferInv == ASSUME IInv, FlushBuffer PROVE IInv'
<1>1. /\ generator = "flushing" /\ generator' = generator
      /\ output' = output \o PB!flushed("none") /\ buffer' = <<>>
      /\ input' = input /\ message_item_ids' = message_item_ids
      /\ commentary' = commentary /\ terminal_seen' = terminal_seen /\ passthrough' = passthrough
      /\ upstream' = upstream /\ open' = open /\ round_index' = round_index
      /\ current_body' = current_body /\ controller' = controller
      /\ calls' = calls /\ results' = results /\ events' = events /\ yielded' = yielded
  BY DEF FlushBuffer, PB!flush, PB!flags, roundVars, searchVars
<1>2. /\ Types /\ UpstreamTypes /\ ControllerTypes /\ GeneratorTypes /\ BufferTypes /\ BufferInv
      /\ OrderInv /\ IndexInv /\ yielded \in 0..Len(output)
  BY DEF IInv, Types
<1>3. LiveInv
  BY <1>1 DEF IInv, Ended
<1>4. "none" \in PB!Phases
  BY DEF PB!Phases
<1>5. /\ output' \in Seq(Entries) /\ Len(output') = Len(input)
      /\ \A p \in 1..Len(input) : output'[p].ev = p
  <2> DEFINE out == output \o PB!flushed("none")
  <2>1. out \in Seq(Entries) /\ Len(out) = Len(input) /\ \A p \in 1..Len(input) : out[p].ev = p
    BY <1>2, <1>4, Flushed
  <2>2. output' = out
    BY <1>1
  <2> HIDE DEF out
  <2> QED
    BY <2>1, <2>2
<1>6. Len(input) \in Nat /\ Len(output) \in Nat /\ Len(buffer) \in Nat /\ Len(output) <= Len(input)
  <2>1. Len(input) \in Nat /\ Len(output) \in Nat /\ Len(buffer) \in Nat
    BY <1>2, LenProperties DEF BufferTypes
  <2>2. Len(input) = Len(output) + Len(buffer)
    BY <1>2 DEF BufferInv
  <2> QED
    BY <2>1, <2>2
<1>7. Announced' = Announced /\ Finished' = Finished /\ Reported(input)' = Reported(input)
  BY <1>1 DEF Announced, Finished
<1>8. BufferTypes'
  <2>1. <<>> \in Seq(Nat)
    OBVIOUS
  <2> QED
    BY <1>1, <1>2, <1>5, <2>1 DEF BufferTypes
<1>9. BufferInv'
  <2>1. Len(buffer') = 0 /\ 1..0 = {} /\ Len(input) = Len(input) + 0
        /\ Len(input) + 1..Len(input) = {}
    BY <1>1, <1>6
  <2> QED
    BY <1>1, <1>2, <1>5, <1>7, <2>1 DEF BufferInv, Latched
<1>10. OrderInv' /\ IndexInv'
  BY <1>1, <1>2 DEF OrderInv, IndexInv, Positions
<1>11. (yielded \in 0..Len(output))'
  BY <1>1, <1>2, <1>5, <1>6
<1>12. ToldInv' /\ CompletedInv' /\ RoundInv' /\ U' = U /\ ThisRound' = ThisRound
  BY <1>1, RoundFrame
<1>13. Types'
  BY <1>1, <1>2, <1>8, <1>11, SameUpstream, SameController DEF Types, GeneratorTypes, UpstreamTypes
<1>14. LiveInv'
  BY <1>1, <1>3, <1>7 DEF LiveInv, Positions
<1>15. open' => generator' = "streaming"
  BY <1>1 DEF IInv
<1> QED
  BY <1>9, <1>10, <1>12, <1>13, <1>14, <1>15 DEF IInv

\* The client is told of an outcome.
LEMMA AnnounceInv == ASSUME IInv, Announce PROVE IInv'
<1> DEFINE C == controller.completed_items
           r == Reported(input)
           e == events[1]
           n == Len(events)
           t == Tail(events)
<1>1. /\ generator = "announcing" /\ events # <<>> /\ yielded = Len(output)
      /\ events' = t /\ PB!process(Head(events))
      /\ upstream' = upstream /\ open' = open /\ round_index' = round_index
      /\ current_body' = current_body /\ controller' = controller
      /\ calls' = calls /\ results' = results /\ generator' = generator /\ yielded' = yielded
  BY DEF Announce, roundVars, searchVars
<1>2. /\ Types /\ UpstreamTypes /\ ControllerTypes /\ GeneratorTypes /\ BufferTypes /\ RoundInv
      /\ IndexInv /\ OrderInv /\ ToldInv
  BY DEF IInv, Types
<1>3. /\ LiveInv /\ SearchingInv /\ AnnouncingInv
      /\ controller.pending_calls = <<>> /\ round_index < max_rounds
      /\ ~\E j \in Positions : input[j].type = "completed"
  <2>1. LiveInv
    BY <1>1 DEF IInv, Ended
  <2> QED
    BY <1>1, <2>1 DEF LiveInv
<1>4. /\ events \in Seq(SourceEvents) /\ n \in Nat /\ n # 0 /\ 1 \in 1..n
      /\ Head(events) = e /\ e \in SourceEvents /\ Proper(e)
      /\ t \in Seq(SourceEvents) /\ Len(t) = n - 1
      /\ \A k \in 1..n - 1 : t[k] = events[k + 1]
  <2>1. events \in Seq(SourceEvents) /\ \A k \in 1..n : Proper(events[k])
    BY <1>2 DEF GeneratorTypes
  <2>2. n \in Nat /\ n # 0 /\ Head(events) = events[1]
        /\ t \in Seq(SourceEvents) /\ Len(t) = n - 1
        /\ \A k \in 1..Len(t) : t[k] = events[k + 1]
    BY <1>1, <2>1, HeadTailProperties, LenProperties, EmptySeq
  <2>3. 1 \in 1..n
    BY <2>2
  <2>4. e \in SourceEvents
    BY <2>1, <2>3, ElementOfSeq
  <2> QED
    BY <2>1, <2>2, <2>3, <2>4
<1>5. /\ r \in Seq(Results) /\ C \in Seq(Results)
      /\ Len(r) \in Nat /\ Len(C) = Len(r) + n
      /\ \A k \in 1..Len(r) : r[k] = C[k]
  <2>1. r \in Seq(Results) /\ C \in Seq(Results)
    BY <1>2, ReportedItems DEF BufferTypes, OrderInv, ControllerTypes
  <2>2. Len(r) \in Nat
    BY <2>1, LenProperties
  <2> QED
    BY <1>3, <2>1, <2>2 DEF AnnouncingInv
<1>6. \A k \in 1..n :
        /\ events[k].type = "done"
        /\ events[k].item = C[Len(r) + k].item /\ events[k].status = C[Len(r) + k].status
        /\ events[k].item \in Announced \ Finished
        /\ events[k].index = controller.indexes[events[k].item]
  BY <1>3 DEF AnnouncingInv, ToTell
<1> DEFINE x == C[Len(r) + 1]
<1>7. x \in Results
  <2>1. Len(r) + 1 \in 1..Len(C)
    BY <1>4, <1>5
  <2> QED
    BY <1>5, <2>1, ElementOfSeq
<1> HIDE DEF x, r, C, e, n, t
<1>8. /\ e.type = "done" /\ e.item = x.item /\ e.status = x.status
      /\ e.item \in Announced \ Finished /\ e.index = controller.indexes[e.item]
  BY <1>4, <1>6 DEF e, x
<1>9. /\ e.item \in Searches /\ e.status \in Outcomes /\ Reports(e)
      /\ x = [item |-> e.item, status |-> e.status]
  BY <1>7, <1>8 DEF Results, Reports
<1>10. PICK j \in 1..Len(input) : input[j].type = "added" /\ input[j].item = e.item
  BY <1>8 DEF Announced, ItemsOf
<1>11. input[j].index = e.index
  BY <1>2, <1>8, <1>9, <1>10 DEF IndexInv, Positions
<1>12. input # <<>>
  <2>1. Len(<<>>) = 0 /\ 1..0 = {}
    OBVIOUS
  <2> QED
    BY <1>10, <2>1
<1>13. controller'.created
  BY <1>1, <1>2, <1>12 DEF OrderInv
<1>14. /\ BufferTypes' /\ BufferInv' /\ OrderInv' /\ IndexInv'
       /\ Announced' = Announced \cup {i \in Items : e.type = "added" /\ e.item = i}
       /\ Finished' = Finished \cup {i \in Items : e.type = "done" /\ e.item = i}
       /\ Reported(input)' = IF Reports(e) THEN Append(Reported(input), Outcome(e))
                             ELSE Reported(input)
       /\ Len(output') \in Nat /\ Len(output) <= Len(output') /\ UNCHANGED eof
       /\ Len(input) \in Nat /\ Len(input') = Len(input) + 1 /\ input'[Len(input) + 1] = e
       /\ \A k \in 1..Len(input) : input'[k] = input[k]
  <2>1. e.type \in {"added", "done"} => e.item \notin ItemsOf(input, e.type)
    BY <1>8 DEF Finished
  <2>2. e.type \in {"text", "done"} =>
            \E k \in 1..Len(input) : /\ input[k].type = "added" /\ input[k].item = e.item
                                     /\ e.item \in Searches => input[k].index = e.index
    BY <1>10, <1>11
  <2>3. /\ PB!process(e) /\ (Reports(e) => e.status \in Outcomes)
        /\ (e.type = "created" <=> input = <<>>)
        /\ DOMAIN controller.indexes \subseteq DOMAIN controller'.indexes
        /\ \A s \in DOMAIN controller.indexes : controller'.indexes[s] = controller.indexes[s]
        /\ ~(e.type = "added" /\ e.item \in Searches)
    BY <1>1, <1>4, <1>8, <1>9, <1>12
  <2> QED
    BY <1>4, <1>13, <2>1, <2>2, <2>3, InputGrows
<1>15. /\ Announced' = Announced /\ Finished' = Finished \cup {e.item}
       /\ Reported(input)' = Append(r, x)
  <2>1. Searches \subseteq Items
    BY ItemKinds
  <2>2. {i \in Items : e.item = i} = {e.item}
    BY <1>9, <2>1
  <2> QED
    BY <1>8, <1>9, <1>14, <2>2 DEF Outcome, r
<1>16. /\ Len(Append(r, x)) = Len(r) + 1 /\ Append(r, x)[Len(r) + 1] = x
       /\ \A k \in 1..Len(r) : Append(r, x)[k] = r[k]
  BY <1>5, <1>7, AppendProperties
<1>17. Types'
  <2>1. UpstreamTypes' /\ ControllerTypes'
    BY <1>1, <1>2, SameUpstream, SameController DEF UpstreamTypes
  <2>2. \A k \in 1..Len(t) : Proper(t[k])
    <3>1. \A k \in 1..n - 1 : k + 1 \in 1..n
      BY <1>4
    <3> QED
      BY <1>2, <1>4, <3>1 DEF GeneratorTypes, n
  <2>3. GeneratorTypes'
    BY <1>1, <1>2, <1>4, <2>2 DEF GeneratorTypes
  <2>4. (yielded \in 0..Len(output))'
    <3>1. yielded \in 0..Len(output) /\ Len(output) \in Nat
      BY <1>2, LenProperties DEF Types, BufferTypes
    <3> QED
      BY <1>1, <1>14, <3>1
  <2> QED
    BY <1>14, <2>1, <2>3, <2>4 DEF Types
<1>18. \A k \in 1..Len(input') : input'[k].type # "completed"
  <2>1. Len(input) \in Nat /\ Len(input') = Len(input) + 1
    BY <1>14
  <2>2. \A k \in 1..Len(input') : k \in 1..Len(input) \/ k = Len(input) + 1
    BY <2>1
  <2> QED
    BY <1>3, <1>8, <1>14, <2>2 DEF Positions
<1>19. ToldInv' /\ CompletedInv' /\ RoundInv'
  <2>1. ToldInv'
    BY <1>1, <1>2, <1>15 DEF ToldInv, InBody
  <2>2. CompletedInv'
    BY <1>18 DEF CompletedInv, Positions
  <2>3. U' = U /\ Pending' = {} /\ Pending = {}
    BY <1>1, <1>3 DEF U, Pending, ToSet
  <2>4. RoundInv'
    BY <1>1, <1>2, <1>15, <2>3 DEF RoundInv
  <2> QED
    BY <2>1, <2>2, <2>4
<1>20. SearchingInv'
  BY <1>1, <1>3, <1>15 DEF SearchingInv
<1>21. AnnouncingInv'
  <2>1. Len(controller'.completed_items) = Len(Reported(input)') + Len(events')
    <3>1. Len(r) + n = (Len(r) + 1) + (n - 1)
      BY <1>4, <1>5
    <3> QED
      BY <1>1, <1>4, <1>5, <1>15, <1>16, <3>1 DEF C
  <2>2. \A k \in 1..Len(Reported(input)') : Reported(input)'[k] = controller'.completed_items[k]
    <3>1. \A k \in 1..Len(r) + 1 : k \in 1..Len(r) \/ k = Len(r) + 1
      BY <1>5
    <3>2. \A k \in 1..Len(r) + 1 : Append(r, x)[k] = C[k]
      BY <1>5, <1>16, <3>1 DEF x
    <3> QED
      BY <1>1, <1>15, <1>16, <3>2 DEF C
  <2>3. \A k \in 1..Len(events') : ToTell(k)'
    <3> TAKE k \in 1..Len(events')
    <3>1. /\ k \in 1..n - 1 /\ k + 1 \in 1..n /\ k + 1 # 1
          /\ (Len(r) + 1) + k = Len(r) + (k + 1)
      BY <1>1, <1>4, <1>5
    <3>2. events'[k] = events[k + 1]
      BY <1>1, <1>4, <3>1
    <3>3. controller'.completed_items[Len(Reported(input)') + k] = C[Len(r) + (k + 1)]
      BY <1>1, <1>15, <1>16, <3>1 DEF C
    <3>4. events[k + 1].item # e.item
      BY <1>3, <1>4, <1>6, <1>8, <3>1 DEF AnnouncingInv, Once, e, n
    <3> QED
      BY <1>1, <1>6, <1>15, <3>1, <3>2, <3>3, <3>4 DEF ToTell
  <2>4. Once(events')
    <3>1. Once(events)
      BY <1>3 DEF AnnouncingInv
    <3> QED
      BY <1>1, <1>4, <3>1, OnceTail DEF t
  <2>5. Len(results') = Len(calls') /\ controller'.completed_items = current_body' \o results'
    BY <1>1, <1>3 DEF AnnouncingInv
  <2> QED
    BY <2>1, <2>2, <2>3, <2>4, <2>5 DEF AnnouncingInv
<1>22. LiveInv'
  BY <1>1, <1>3, <1>18, <1>20, <1>21 DEF LiveInv, Positions
<1>23. open' => generator' = "streaming"
  BY <1>1 DEF IInv
<1> QED
  BY <1>14, <1>17, <1>19, <1>22, <1>23 DEF IInv

-----------------------------------------------------------------------------
(* Every step keeps the invariant. *)

LEMMA NextInv == ASSUME IInv, [Next]_vars PROVE IInv'
<1>1. CASE Upstream
  BY <1>1, TextChunkInv, CallChunkInv, SearchChunkInv, FinishChunkInv, UpstreamEOFInv, StopInv
     DEF Upstream
<1>2. CASE process_source_event
  BY <1>2, FirstCreatedInv, LaterCreatedInv, SearchAddedInv, SearchDoneInv, ResponseHeldInv,
     ResponseCompletedInv, OtherEventInv
     DEF process_source_event
<1>3. CASE Announce
  BY <1>3, AnnounceInv
<1>4. CASE Yield
  BY <1>4, YieldInv DEF Yield
<1>5. CASE Between
  BY <1>5, NoSearchesInv, StartSearchesInv, SearchEndsInv, CompleteResultsInv, AppendResultsInv,
     FollowUpOpensInv, FlushBufferInv, StopInv
     DEF Between
<1>6. CASE Cancel
  BY <1>6, StopInv
<1>7. CASE UNCHANGED vars
  BY <1>7, YieldInv DEF vars
<1> QED
  BY <1>1, <1>2, <1>3, <1>4, <1>5, <1>6, <1>7 DEF Next, Progress, Stopped

THEOREM InvCorrect == Spec => []IInv
<1>1. Init => IInv
  BY InitInv
<1>2. IInv /\ [Next]_vars => IInv'
  BY NextInv
<1> QED
  BY <1>1, <1>2, PTL DEF Spec

\* The state of a stream with web searches (web_search.py:WebSearchStreamController
\* and the generator that drives it) keeps its types.
THEOREM TypeCorrect == Spec => []TypeOK
<1>1. IInv => TypeOK
  BY InvImpliesTypeOK
<1> QED
  BY <1>1, InvCorrect, PTL

\* However many rounds the model is asked, whatever the searches end like and
\* however much the phase buffer delays, the client gets one orderly response
\* (web_search.py: process_source_event, complete_search_results and
\* _patch_completed_response).
THEOREM ResponseCorrect == Spec => []OneResponse
<1>1. IInv => OneResponse
  BY InvImpliesOneResponse
<1> QED
  BY <1>1, InvCorrect, PTL

\* A follow-up request (web_search.py:append_tool_results) tells the model what
\* the client was shown, of every search of the rounds before.
THEOREM ToldCorrect == Spec => []ModelIsTold
<1>1. IInv => ModelIsTold
  BY InvImpliesModelIsTold
<1> QED
  BY <1>1, InvCorrect, PTL
=============================================================================
