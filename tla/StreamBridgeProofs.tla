------------------------- MODULE StreamBridgeProofs -------------------------
(***************************************************************************)
(* Proofs about StreamBridge, for any set of tool calls, any number of     *)
(* chunks and any size of the phase buffer.                                *)
(*                                                                         *)
(* A turn passes through five stages, each of which holds something back:  *)
(* ir events not yet transformed (`ir'), calls held (`pending'), events    *)
(* not yet converted (`transformed'), events not yet fed (`events') or     *)
(* delayed by the phase buffer, and output not yet read.  The invariant    *)
(* says what all that amounts to: applied in order, it takes the client    *)
(* from what it knows to a turn that is what the upstream has sent.  Each  *)
(* action moves one event over one border, so it concerns two neighbouring *)
(* stages; that the phase buffer lets events overtake is allowed for by    *)
(* their commuting.                                                        *)
(***************************************************************************)
EXTENDS StreamBridge, SequenceTheorems, WellFoundedInduction, TLAPS

-----------------------------------------------------------------------------
(* Induction up to a number.  The property is given as the set of those that *)
(* have it. *)

\* A non-empty set of numbers has a least one.
LEMMA LeastOf ==
    ASSUME NEW T \in SUBSET Nat, T # {}
    PROVE  \E n \in T : \A m \in T : n <= m
<1>1. PICK n \in T : \A m \in T : <<m, n>> \notin OpToRel(<, Nat)
  BY NatLessThanWellFounded, WFMin
<1>2. \A m \in T : ~(m < n)
  BY <1>1 DEF OpToRel
<1> QED
  BY <1>2

\* What holds of 0, and of a number when it holds of the one before, holds up to n.
LEMMA PrefixInduction ==
    ASSUME NEW n \in Nat, NEW Good, 0 \in Good,
           \A i \in 1..n : i - 1 \in Good => i \in Good
    PROVE  \A i \in 0..n : i \in Good
<1> DEFINE Bad == (0..n) \ Good
<1> SUFFICES ASSUME Bad # {}
             PROVE  FALSE
  OBVIOUS
<1>1. PICK i \in Bad : \A j \in Bad : i <= j
  <2>1. Bad \in SUBSET Nat
    OBVIOUS
  <2> HIDE DEF Bad
  <2> QED
    BY <2>1, LeastOf
<1>2. i \in 1..n /\ i - 1 \in 0..n /\ ~(i <= i - 1)
  BY <1>1
<1> QED
  BY <1>1, <1>2

-----------------------------------------------------------------------------
(* A queue of events leads from one state to another when its events are    *)
(* steps of T, a set of triples <<state, event, state>>.                    *)

Path(h, T, s, q, t) ==
    /\ h[0] = s /\ h[Len(q)] = t
    /\ \A k \in 1..Len(q) : <<h[k - 1], q[k], h[k]>> \in T
Leads(T, s, q, t) == \E h : Path(h, T, s, q, t)

\* Of two or three sequences put together.
LEMMA ConcatType == ASSUME NEW S, NEW a \in Seq(S), NEW b \in Seq(S) PROVE a \o b \in Seq(S)
  BY ConcatProperties

LEMMA ConcatThree ==
    ASSUME NEW S, NEW a \in Seq(S), NEW b \in Seq(S), NEW c \in Seq(S)
    PROVE  /\ (a \o b) \o c = a \o (b \o c)
           /\ a \o b \in Seq(S) /\ b \o c \in Seq(S) /\ (a \o b) \o c \in Seq(S)
<1>1. a \o b \in Seq(S) /\ b \o c \in Seq(S)
  BY ConcatType
<1>2. (a \o b) \o c \in Seq(S)
  BY <1>1, ConcatType
<1> QED
  BY <1>1, <1>2, ConcatAssociative

\* No event, no move.
LEMMA LeadsEmpty == ASSUME NEW T, NEW s PROVE Leads(T, s, <<>>, s)
<1> DEFINE h == [k \in {0} |-> s]
<1>1. Len(<<>>) = 0 /\ 1..0 = {} /\ h[0] = s
  OBVIOUS
<1> HIDE DEF h
<1>2. Path(h, T, s, <<>>, s)
  BY <1>1 DEF Path
<1> QED
  BY <1>2 DEF Leads

LEMMA LeadsNowhere == ASSUME NEW T, NEW s, NEW t, Leads(T, s, <<>>, t) PROVE s = t
<1>1. Len(<<>>) = 0
  OBVIOUS
<1> QED
  BY <1>1 DEF Leads, Path

\* Where one queue ends, the next begins.
LEMMA LeadsConcat ==
    ASSUME NEW T, NEW X, NEW q \in Seq(X), NEW r \in Seq(X), NEW s, NEW t, NEW u,
           Leads(T, s, q, t), Leads(T, t, r, u)
    PROVE  Leads(T, s, q \o r, u)
<1>1. PICK h : Path(h, T, s, q, t)
  BY DEF Leads
<1>2. PICK g : Path(g, T, t, r, u)
  BY DEF Leads
<1> DEFINE n == Len(q)
           m == Len(r)
           l == Len(q \o r)
           f == [k \in 0..l |-> IF k <= n THEN h[k] ELSE g[k - n]]
<1>3. /\ n \in Nat /\ m \in Nat /\ l = n + m /\ l \in Nat
      /\ \A k \in 1..l : (q \o r)[k] = IF k <= n THEN q[k] ELSE r[k - n]
  BY LenProperties, ConcatProperties
<1>4. /\ h[0] = s /\ h[n] = t /\ \A k \in 1..n : <<h[k - 1], q[k], h[k]>> \in T
      /\ g[0] = t /\ g[m] = u /\ \A k \in 1..m : <<g[k - 1], r[k], g[k]>> \in T
  BY <1>1, <1>2 DEF Path
<1> HIDE DEF n, m, l
<1>5. f[0] = s /\ f[l] = u
  <2>1. n \in Nat /\ m \in Nat /\ 0 <= n /\ l = n + m /\ 0 \in 0..l
    BY <1>3
  <2>2. f[0] = h[0]
    BY <2>1
  <2>3. CASE m = 0
    <3>1. l = n /\ l \in 0..l /\ l <= n
      BY <2>1, <2>3
    <3>2. f[l] = h[l]
      BY <3>1
    <3> HIDE DEF f
    <3> QED
      BY <1>4, <2>2, <2>3, <3>1, <3>2
  <2>4. CASE m # 0
    <3>1. l \in 0..l /\ ~(l <= n) /\ l - n = m
      BY <2>1, <2>4
    <3>2. f[l] = g[l - n]
      BY <3>1
    <3> HIDE DEF f
    <3> QED
      BY <1>4, <2>2, <3>1, <3>2
  <2> QED
    BY <2>3, <2>4
<1>6. ASSUME NEW k \in 1..l
      PROVE  <<f[k - 1], (q \o r)[k], f[k]>> \in T
  <2>1. k \in 0..l /\ k - 1 \in 0..l
    BY <1>3
  <2>2. CASE k <= n
    <3>1. k \in 1..n /\ k - 1 <= n
      BY <1>3, <2>2
    <3>2. f[k] = h[k] /\ f[k - 1] = h[k - 1]
      BY <2>1, <2>2, <3>1
    <3> HIDE DEF f
    <3> QED
      BY <1>3, <1>4, <2>2, <3>1, <3>2
  <2>3. CASE ~(k <= n)
    <3>1. k - n \in 1..m /\ (k - 1 <= n => k - 1 = n /\ k - n - 1 = 0) /\ k - 1 - n = k - n - 1
      BY <1>3, <2>3
    <3>2. f[k] = g[k - n]
      BY <2>1, <2>3
    <3>3. f[k - 1] = g[k - n - 1]
      <4>1. CASE k - 1 <= n
        BY <1>4, <2>1, <3>1, <4>1
      <4>2. CASE ~(k - 1 <= n)
        BY <2>1, <3>1, <4>2
      <4> QED
        BY <4>1, <4>2
    <3>4. (q \o r)[k] = r[k - n]
      BY <1>3, <2>3
    <3>5. <<g[k - n - 1], r[k - n], g[k - n]>> \in T
      BY <1>4, <3>1
    <3> HIDE DEF f
    <3> QED
      BY <3>2, <3>3, <3>4, <3>5
  <2> QED
    BY <2>2, <2>3
<1> HIDE DEF f
<1>7. Path(f, T, s, q \o r, u)
  BY <1>5, <1>6 DEF Path, l
<1> QED
  BY <1>7 DEF Leads

\* One event, one step.
LEMMA LeadsOne ==
    ASSUME NEW T, NEW s, NEW e, NEW t, <<s, e, t>> \in T
    PROVE  Leads(T, s, <<e>>, t)
<1> DEFINE h == [k \in 0..1 |-> IF k = 0 THEN s ELSE t]
<1>1. Len(<<e>>) = 1 /\ <<e>>[1] = e /\ h[0] = s /\ h[1] = t /\ \A k \in 1..1 : k = 1 /\ k - 1 = 0
  OBVIOUS
<1> HIDE DEF h
<1>2. Path(h, T, s, <<e>>, t)
  BY <1>1 DEF Path
<1> QED
  BY <1>2 DEF Leads

\* The first event of a queue is a step, the rest leads on from there.
LEMMA LeadsTail ==
    ASSUME NEW T, NEW X, NEW q \in Seq(X), q # <<>>, NEW s, NEW t, Leads(T, s, q, t)
    PROVE  \E b : <<s, Head(q), b>> \in T /\ Leads(T, b, Tail(q), t)
<1>1. PICK h : Path(h, T, s, q, t)
  BY DEF Leads
<1> DEFINE n == Len(q)
           f == [k \in 0..n - 1 |-> h[k + 1]]
<1>2. /\ n \in Nat \ {0} /\ Head(q) = q[1] /\ Len(Tail(q)) = n - 1
      /\ \A k \in 1..n - 1 : Tail(q)[k] = q[k + 1]
  BY EmptySeq, HeadTailProperties
<1>3. h[0] = s /\ h[n] = t /\ \A k \in 1..n : <<h[k - 1], q[k], h[k]>> \in T
  BY <1>1 DEF Path
<1> HIDE DEF n
<1>4. /\ \A k \in 1..n - 1 : f[k] = h[k + 1] /\ f[k - 1] = h[k] /\ k + 1 \in 1..n /\ k + 1 - 1 = k
      /\ f[0] = h[1] /\ f[n - 1] = h[n] /\ 1 \in 1..n
  <2>1. /\ 0 \in 0..n - 1 /\ n - 1 \in 0..n - 1 /\ 0 + 1 = 1 /\ n - 1 + 1 = n /\ 1 \in 1..n
        /\ \A k \in 1..n - 1 : /\ k \in 0..n - 1 /\ k - 1 \in 0..n - 1 /\ k - 1 + 1 = k
                               /\ k + 1 \in 1..n /\ k + 1 - 1 = k
    BY <1>2
  <2> QED
    BY <2>1
<1> HIDE DEF f
<1>5. Path(f, T, h[1], Tail(q), t)
  BY <1>2, <1>3, <1>4 DEF Path
<1>6. <<s, Head(q), h[1]>> \in T
  BY <1>2, <1>3, <1>4
<1> QED
  BY <1>5, <1>6 DEF Leads

\* What every step keeps.
LEMMA LeadsKeeps ==
    ASSUME NEW T, NEW X, NEW q \in Seq(X), NEW s, NEW t, Leads(T, s, q, t),
           NEW Good, s \in Good, \A a, e, b : <<a, e, b>> \in T /\ a \in Good => b \in Good
    PROVE  t \in Good
<1>1. PICK h : Path(h, T, s, q, t)
  BY DEF Leads
<1> DEFINE n == Len(q)
           Fine == {k \in 0..n : h[k] \in Good}
<1>2. n \in Nat /\ h[0] = s /\ h[n] = t /\ \A k \in 1..n : <<h[k - 1], q[k], h[k]>> \in T
  BY <1>1, LenProperties DEF Path
<1> HIDE DEF n
<1>3. 0 \in Fine /\ \A k \in 1..n : k - 1 \in Fine => k \in Fine
  <2>1. 0 \in 0..n /\ \A k \in 1..n : k \in 0..n
    BY <1>2
  <2>2. \A k \in 1..n : h[k - 1] \in Good => h[k] \in Good
    BY <1>2
  <2> QED
    BY <1>2, <2>1, <2>2
<1>4. \A k \in 0..n : k \in Fine
  <2> HIDE DEF Fine
  <2> QED
    BY <1>2, <1>3, PrefixInduction
<1> QED
  BY <1>2, <1>4

\* The other way round: a queue can be cut anywhere.
LEMMA LeadsSplit ==
    ASSUME NEW T, NEW X, NEW q \in Seq(X), NEW r \in Seq(X), NEW s, NEW u,
           Leads(T, s, q \o r, u)
    PROVE  \E t : Leads(T, s, q, t) /\ Leads(T, t, r, u)
<1>1. PICK h : Path(h, T, s, q \o r, u)
  BY DEF Leads
<1> DEFINE n == Len(q)
           m == Len(r)
           l == Len(q \o r)
           g == [k \in 0..m |-> h[n + k]]
<1>2. /\ n \in Nat /\ m \in Nat /\ l = n + m
      /\ \A k \in 1..l : (q \o r)[k] = IF k <= n THEN q[k] ELSE r[k - n]
  BY LenProperties, ConcatProperties
<1>3. h[0] = s /\ h[l] = u /\ \A k \in 1..l : <<h[k - 1], (q \o r)[k], h[k]>> \in T
  BY <1>1 DEF Path
<1> HIDE DEF n, m, l
<1>4. ASSUME NEW k \in 1..n
      PROVE  <<h[k - 1], q[k], h[k]>> \in T
  <2>1. k \in 1..l /\ k <= n
    BY <1>2
  <2> QED
    BY <1>2, <1>3, <2>1
<1>5. Path(h, T, s, q, h[n])
  BY <1>3, <1>4 DEF Path, n
<1>6. ASSUME NEW k \in 1..m
      PROVE  <<g[k - 1], r[k], g[k]>> \in T
  <2> DEFINE i == n + k
  <2>1. i \in 1..l /\ ~(i <= n) /\ i - n = k /\ i - 1 = n + (k - 1) /\ k \in 0..m /\ k - 1 \in 0..m
    BY <1>2
  <2>2. g[k] = h[i] /\ g[k - 1] = h[n + (k - 1)]
    BY <2>1
  <2> HIDE DEF i, g
  <2>3. (q \o r)[i] = r[i - n]
    BY <1>2, <2>1
  <2> QED
    BY <1>3, <2>1, <2>2, <2>3
<1>7. g[0] = h[n] /\ g[m] = u
  <2>1. 0 \in 0..m /\ m \in 0..m /\ n + 0 = n /\ n + m = l
    BY <1>2
  <2> QED
    BY <1>3, <2>1
<1> HIDE DEF g
<1>8. Path(g, T, h[n], r, u)
  BY <1>6, <1>7 DEF Path, m
<1> QED
  BY <1>5, <1>8 DEF Leads

\* An event may move before the events it commutes with.
LEMMA LeadsSwap ==
    ASSUME NEW T, NEW M, NEW q \in Seq(M), NEW e, NEW s, NEW t, NEW u,
           Leads(T, s, q, t), <<t, e, u>> \in T,
           \A a, m, b, c : m \in M /\ <<a, m, b>> \in T /\ <<b, e, c>> \in T
                           => \E d : <<a, e, d>> \in T /\ <<d, m, c>> \in T
    PROVE  \E b : <<s, e, b>> \in T /\ Leads(T, b, q, u)
<1>1. PICK h : Path(h, T, s, q, t)
  BY DEF Leads
<1> DEFINE n == Len(q)
           rest(k) == SubSeq(q, n - k + 1, n)
           Good == {k \in 0..n : \E b : <<h[n - k], e, b>> \in T /\ Leads(T, b, rest(k), u)}
<1>2. n \in Nat /\ (\A k \in 1..n : q[k] \in M)
  BY LenProperties, ElementOfSeq
<1>3. h[0] = s /\ h[n] = t /\ \A k \in 1..n : <<h[k - 1], q[k], h[k]>> \in T
  BY <1>1 DEF Path
<1> HIDE DEF n
<1>4. 0 \in Good
  <2>1. 0 \in 0..n /\ n - 0 = n /\ n - 0 + 1 = n + 1 /\ n + 1 \in Int /\ n \in Int /\ n < n + 1
    BY <1>2
  <2>2. rest(0) = <<>>
    BY <2>1, SubSeqEmpty
  <2>3. Leads(T, u, rest(0), u)
    BY <2>2, LeadsEmpty
  <2> QED
    BY <1>3, <2>1, <2>3
<1>5. ASSUME NEW k \in 1..n, k - 1 \in Good
      PROVE  k \in Good
  <2> DEFINE j == n - k + 1
  <2>1. /\ j \in 1..n /\ n - (k - 1) = j /\ n - (k - 1) + 1 = j + 1 /\ n - k = j - 1 /\ k \in 0..n
        /\ n \in j..n
    BY <1>2
  <2>2. PICK b : <<h[j], e, b>> \in T /\ Leads(T, b, SubSeq(q, j + 1, n), u)
    BY <1>5, <2>1
  <2> HIDE DEF j
  <2>3. <<h[j - 1], q[j], h[j]>> \in T /\ q[j] \in M
    BY <1>2, <1>3, <2>1
  <2>4. PICK d : <<h[j - 1], e, d>> \in T /\ <<d, q[j], b>> \in T
    BY <2>2, <2>3
  <2>5. SubSeq(q, j, n) = <<q[j]>> \o SubSeq(q, j + 1, n)
    BY <2>1, SubSeqRecursiveFirst DEF n
  <2>6. <<q[j]>> \in Seq(M) /\ SubSeq(q, j + 1, n) \in Seq(M)
    <3>1. j + 1 \in Int /\ n \in Int /\ \A i \in j + 1..n : q[i] \in M
      BY <1>2, <2>1
    <3> QED
      BY <2>3, <3>1, SubSeqProperties
  <2>7. Leads(T, d, <<q[j]>>, b)
    BY <2>4, LeadsOne
  <2>8. Leads(T, d, SubSeq(q, j, n), u)
    BY <2>2, <2>5, <2>6, <2>7, LeadsConcat
  <2> QED
    BY <2>1, <2>4, <2>8 DEF j
<1>6. n \in Good
  <2>1. n \in 0..n
    BY <1>2
  <2> HIDE DEF Good
  <2> QED
    BY <1>2, <1>4, <1>5, <2>1, PrefixInduction
<1>7. n - n = 0 /\ n - n + 1 = 1
  BY <1>2
<1>8. SubSeq(q, 1, n) = q
  BY SubSeqFull DEF n
<1> QED
  BY <1>3, <1>6, <1>7, <1>8

-----------------------------------------------------------------------------
(* The events of the client's stream, and what it may make of each.         *)

ItemTypes == {"added", "part_added", "delta", "content_done", "part_done", "done"}
DoneTypes == {"content_done", "part_done", "done"}
Usages == SUBSET (0..MaxChunks)
Outputs == UNION {[S -> Fragments] : S \in SUBSET Items}
Responses == [output : Outputs, usage : Usages]
ItemEvents == {SourceEvent(x[1], x[2], x[3]) : x \in ItemTypes \X Items \X Fragments}
CreatedEvent == SourceEvent("created", NoId, <<>>)
CompletedEvents == {CompletedEvent(r) : r \in Responses}
Events == ItemEvents \cup {CreatedEvent} \cup CompletedEvents

SilentTools == {t \in Tools : ToolType[t] = "web_search"}
Stages == {"absent", "added", "streaming", "closed", "sealed", "done"}
Clients == [phase : {"idle", "open", "completed"}, stage : [Items -> Stages],
            content : [Items -> Fragments], listed : SUBSET Items, usage : Usages]

\* The names of the items are distinct.
LEMMA Names ==
    /\ Message \in Items /\ Reasoning \in Items /\ Tools \subseteq Items /\ NoId \notin Items
    /\ Message # Reasoning /\ Message # NoId /\ Reasoning # NoId
    /\ Message \notin Tools /\ Reasoning \notin Tools /\ NoId \notin Tools
    /\ \A i \in Items : i = Message \/ i = Reasoning \/ i \in Tools
  BY NamesAssumption DEF Items, Message, Reasoning, NoId

\* What an event about an item says.
LEMMA ItemEventFacts ==
    ASSUME NEW e \in ItemEvents
    PROVE  /\ e.type \in ItemTypes /\ e.item \in Items /\ e.data \in Fragments /\ e.size = 1
           /\ e.kind = KindOf(e.type, e.item)
           /\ e.id = IF e.item = Message THEN Message ELSE NoId
  BY DEF ItemEvents, SourceEvent

LEMMA ItemEventIs ==
    ASSUME NEW type \in ItemTypes, NEW i \in Items, NEW data \in Fragments
    PROVE  SourceEvent(type, i, data) \in ItemEvents /\ SourceEvent(type, i, data) \in Events
<1> DEFINE x == <<type, i, data>>
<1>1. x \in ItemTypes \X Items \X Fragments /\ x[1] = type /\ x[2] = i /\ x[3] = data
  OBVIOUS
<1> HIDE DEF x
<1>2. SourceEvent(x[1], x[2], x[3]) \in ItemEvents
  BY <1>1 DEF ItemEvents
<1> QED
  BY <1>1, <1>2 DEF Events

LEMMA CreatedFacts ==
    /\ CreatedEvent.type = "created" /\ CreatedEvent.item = NoId /\ CreatedEvent.size = 1
    /\ CreatedEvent.kind = "other" /\ CreatedEvent.id = NoId /\ CreatedEvent \in Events
  BY Names DEF CreatedEvent, SourceEvent, KindOf, Events

\* What response.completed says; its kind tells whether it lists a tool call.
LEMMA CompletedFacts ==
    ASSUME NEW e \in CompletedEvents
    PROVE  /\ e.type = "completed" /\ e.item = NoId /\ e.id = NoId /\ e.size = 1
           /\ e.output \in Outputs /\ e.usage \in Usages
           /\ e.kind = IF \E i \in DOMAIN e.output : i \in Tools THEN "completed_tool" ELSE "completed"
<1>1. PICK r \in Responses : e = CompletedEvent(r)
  BY DEF CompletedEvents
<1>2. /\ e.type = "completed" /\ e.item = NoId /\ e.id = NoId /\ e.size = 1
      /\ e.output = r.output /\ e.usage = r.usage
      /\ e.kind = IF \E i \in DOMAIN r.output : i \in Tools THEN "completed_tool" ELSE "completed"
  BY <1>1 DEF CompletedEvent
<1> QED
  BY <1>2 DEF Responses

LEMMA OutputFacts ==
    ASSUME NEW o \in Outputs
    PROVE  DOMAIN o \subseteq Items /\ \A i \in DOMAIN o : o[i] \in Fragments
  BY DEF Outputs

\* The three kinds of events.
LEMMA EventKinds ==
    ASSUME NEW e \in Events
    PROVE  \/ e \in ItemEvents /\ e.type \in ItemTypes
           \/ e = CreatedEvent /\ e.type = "created"
           \/ e \in CompletedEvents /\ e.type = "completed"
  BY ItemEventFacts, CreatedFacts, CompletedFacts DEF Events

\* The stage of its item an event belongs to.
Before(e) ==
    CASE e.type = "added" -> "absent"
      [] e.type = "part_added" -> "added"
      [] e.type \in {"delta", "content_done"} -> "streaming"
      [] e.type = "part_done" -> "closed"
      [] e.type = "done" ->
           IF e.item = Reasoning \/ e.item \in SilentTools THEN "streaming" ELSE "sealed"

Legal(c, e) ==
    CASE e.type = "created" -> c.phase = "idle"
      [] e.type = "completed" ->
           /\ c.phase = "open"
           /\ \A i \in Items : c.stage[i] \in {"absent", "done"}
           /\ DOMAIN e.output = {i \in Items : c.stage[i] = "done"}
           /\ \A i \in DOMAIN e.output : e.output[i] = c.content[i]
      [] OTHER ->
           /\ c.phase = "open"
           /\ c.stage[e.item] = Before(e)
           /\ e.type \in {"part_added", "part_done"} => e.item = Message
           /\ e.type = "delta" => e.item \notin SilentTools
           /\ e.type = "content_done" => e.item # Reasoning /\ e.item \notin SilentTools
           /\ e.type \in DoneTypes =>
                IF e.item \in SilentTools THEN c.content[e.item] = <<>>
                ELSE e.data = c.content[e.item]

After(c, e) ==
    CASE e.type = "created" -> [c EXCEPT !.phase = "open"]
      [] e.type = "completed" ->
           [c EXCEPT !.phase = "completed",
                     !.listed = DOMAIN e.output,
                     !.usage = e.usage,
                     !.content = [i \in Items |-> IF i \in DOMAIN e.output
                                                 THEN e.output[i] ELSE @[i]]]
      [] OTHER ->
           [c EXCEPT !.stage[e.item] = StageAfter(e),
                     !.content[e.item] =
                        CASE e.type = "delta" -> @ \o e.data
                          [] e.type \in {"content_done", "part_done", "done"} -> e.data
                          [] OTHER -> @]

Steps == {x \in Clients \X Events \X Clients :
             Legal(x[1], x[2]) /\ x[3] = After(x[1], x[2])}

\* What the client makes of an event in StreamBridge is After.
LEMMA HearIsAfter == \A e : Hear(e) = After(client, e)
  BY DEF Hear, After

LEMMA StepIs ==
    ASSUME NEW c, NEW e, NEW d
    PROVE  <<c, e, d>> \in Steps <=> /\ c \in Clients /\ e \in Events /\ d \in Clients
                                     /\ Legal(c, e) /\ d = After(c, e)
  BY DEF Steps

LEMMA FragmentsConcat ==
    ASSUME NEW s \in Fragments, NEW d \in Fragments
    PROVE  s \o d \in Fragments /\ <<>> \in Fragments
  BY DEF Fragments

\* What a legal event about an item does.
ContentAfter(e, content) ==
    CASE e.type = "delta" -> content \o e.data
      [] e.type \in DoneTypes -> e.data
      [] OTHER -> content

\* An event about an item changes the stage and the content of that item.
LEMMA AfterItem ==
    ASSUME NEW c \in Clients, NEW e \in ItemEvents
    PROVE  /\ After(c, e) = [c EXCEPT !.stage = [c.stage EXCEPT ![e.item] = StageAfter(e)],
                                      !.content = [c.content EXCEPT ![e.item] =
                                                      ContentAfter(e, c.content[e.item])]]
           /\ StageAfter(e) \in Stages /\ ContentAfter(e, c.content[e.item]) \in Fragments
<1>1. e.type \in ItemTypes /\ e.item \in Items /\ e.data \in Fragments
  BY ItemEventFacts
<1>2. c.content[e.item] \in Fragments
  BY <1>1 DEF Clients
<1>3. ContentAfter(e, c.content[e.item]) \in Fragments
  BY <1>1, <1>2, FragmentsConcat DEF ContentAfter
<1>4. StageAfter(e) \in Stages
  BY <1>1 DEF ItemTypes, StageAfter, Stages
<1>5. e.type # "created" /\ e.type # "completed"
  BY <1>1 DEF ItemTypes
<1>6. After(c, e) = [c EXCEPT !.stage = [c.stage EXCEPT ![e.item] = StageAfter(e)],
                              !.content = [c.content EXCEPT ![e.item] =
                                              ContentAfter(e, c.content[e.item])]]
  <2>1. /\ DOMAIN c = {"phase", "stage", "content", "listed", "usage"}
        /\ DOMAIN c.stage = Items /\ DOMAIN c.content = Items
    BY DEF Clients
  <2>2. After(c, e) = [c EXCEPT !.stage[e.item] = StageAfter(e),
                                !.content[e.item] = ContentAfter(e, @)]
    BY <1>5 DEF After, ContentAfter, DoneTypes
  <2> QED
    BY <2>1, <2>2
<1> QED
  BY <1>3, <1>4, <1>6

LEMMA AfterItemFacts ==
    ASSUME NEW c \in Clients, NEW e \in ItemEvents
    PROVE  LET d == After(c, e)
               i == e.item
           IN  /\ d \in Clients
               /\ d.phase = c.phase /\ d.listed = c.listed /\ d.usage = c.usage
               /\ d.stage[i] = StageAfter(e)
               /\ d.content[i] = ContentAfter(e, c.content[i])
               /\ \A j \in Items : j # i => d.stage[j] = c.stage[j] /\ d.content[j] = c.content[j]
<1>1. e.item \in Items
  BY ItemEventFacts
<1> DEFINE d == After(c, e)
           x == StageAfter(e)
           y == ContentAfter(e, c.content[e.item])
<1>2. /\ d = [c EXCEPT !.stage = [c.stage EXCEPT ![e.item] = x],
                       !.content = [c.content EXCEPT ![e.item] = y]]
      /\ x \in Stages /\ y \in Fragments
  BY AfterItem
<1> HIDE DEF d, x, y
<1>3. /\ d.phase = c.phase /\ d.listed = c.listed /\ d.usage = c.usage
      /\ d.stage = [c.stage EXCEPT ![e.item] = x]
      /\ d.content = [c.content EXCEPT ![e.item] = y]
      /\ d \in Clients
  BY <1>1, <1>2 DEF Clients
<1>4. c.stage \in [Items -> Stages] /\ c.content \in [Items -> Fragments]
  BY DEF Clients
<1>5. d.stage[e.item] = x /\ d.content[e.item] = y
  BY <1>1, <1>3, <1>4
<1>6. \A j \in Items : j # e.item => d.stage[j] = c.stage[j] /\ d.content[j] = c.content[j]
  BY <1>3, <1>4
<1> QED
  BY <1>3, <1>5, <1>6 DEF d, x, y

\* A legal step stays among the clients.
LEMMA AfterType ==
    ASSUME NEW c \in Clients, NEW e \in Events
    PROVE  After(c, e) \in Clients
<1>1. CASE e \in ItemEvents
  BY <1>1, AfterItemFacts
<1>2. CASE e = CreatedEvent
  BY <1>2, CreatedFacts DEF After, Clients
<1>3. CASE e \in CompletedEvents
  <2>1. e.type = "completed" /\ e.usage \in Usages /\ DOMAIN e.output \subseteq Items
        /\ \A i \in DOMAIN e.output : e.output[i] \in Fragments
    BY <1>3, CompletedFacts, OutputFacts
  <2> DEFINE content == [i \in Items |-> IF i \in DOMAIN e.output THEN e.output[i] ELSE c.content[i]]
  <2>2. After(c, e) = [c EXCEPT !.phase = "completed", !.listed = DOMAIN e.output,
                                !.usage = e.usage, !.content = content]
    BY <2>1 DEF After
  <2>3. content \in [Items -> Fragments]
    BY <2>1 DEF Clients
  <2> HIDE DEF content
  <2> QED
    BY <2>1, <2>2, <2>3 DEF Clients
<1> QED
  BY <1>1, <1>2, <1>3 DEF Events

LEMMA StepIntro ==
    ASSUME NEW c \in Clients, NEW e \in Events, Legal(c, e)
    PROVE  <<c, e, After(c, e)>> \in Steps
  BY StepIs, AfterType

-----------------------------------------------------------------------------
(* A legal step of the client is a step of ResponsesProtocol.               *)

LEMMA PrefixOf ==
    ASSUME NEW X, NEW s \in Seq(X), NEW d \in Seq(X)
    PROVE  IsPrefix(s, s \o d)
<1>1. Len(s) \in Nat /\ Len(d) \in Nat /\ Len(s \o d) = Len(s) + Len(d)
  BY LenProperties, ConcatProperties
<1>2. SubSeq(s, 1, Len(s)) = SubSeq(s \o d, 1, Len(s))
  <2>1. CASE Len(s) = 0
    <3>1. Len(s) \in Int /\ 1 \in Int /\ Len(s) < 1
      BY <2>1
    <3> QED
      BY <3>1, SubSeqEmpty
  <2>2. CASE Len(s) # 0
    <3>1. 1 \in 1..Len(s) /\ Len(s) \in 1..Len(s)
      BY <1>1, <2>2
    <3> QED
      BY <3>1, SubSeqOfConcat1
  <2> QED
    BY <2>1, <2>2
<1> QED
  BY <1>1, <1>2 DEF IsPrefix

\* A legal step of the client is one of ResponsesProtocol's actions.
LEMMA ProtocolStep ==
    ASSUME NEW e, <<client, e, client'>> \in Steps, yielded' = yielded + 1
    PROVE  Protocol!Next
<1>1. /\ client \in Clients /\ e \in Events /\ client' \in Clients
      /\ Legal(client, e) /\ client' = After(client, e)
  BY StepIs
<1> DEFINE i == e.item
<1>2. /\ Protocol!Items = Items /\ \A j : j \in SilentTools <=> j \in {t \in Tools : ToolType[t] = "web_search"}
  BY DEF Protocol!Items, Items, SilentTools
<1>3. CASE e = CreatedEvent
  <2>1. /\ client.phase = "idle" /\ client'.phase = "open" /\ client'.stage = client.stage
        /\ client'.content = client.content /\ client'.listed = client.listed
    BY <1>1, <1>3, CreatedFacts DEF Legal, After, Clients
  <2>2. Protocol!Created
    BY <2>1 DEF Protocol!Created
  <2> QED
    BY <2>2 DEF Protocol!Next
<1>4. CASE e \in CompletedEvents
  <2>1. e.type = "completed"
    BY <1>4, CompletedFacts
  <2>2. /\ client.phase = "open"
        /\ \A j \in Items : client.stage[j] \in {"absent", "done"}
        /\ DOMAIN e.output = {j \in Items : client.stage[j] = "done"}
        /\ \A j \in DOMAIN e.output : e.output[j] = client.content[j]
    BY <1>1, <2>1 DEF Legal
  <2>3. /\ client'.phase = "completed" /\ client'.listed = DOMAIN e.output
        /\ client'.stage = client.stage
        /\ client'.content = [j \in Items |-> IF j \in DOMAIN e.output
                                             THEN e.output[j] ELSE client.content[j]]
    BY <1>1, <2>1 DEF After, Clients
  <2>4. client'.content = client.content
    <3>1. client.content = [j \in Items |-> client.content[j]]
      BY <1>1 DEF Clients
    <3> QED
      BY <2>2, <2>3, <3>1
  <2>5. Protocol!Completed
    BY <1>2, <2>2, <2>3, <2>4 DEF Protocol!Completed
  <2> QED
    BY <2>5 DEF Protocol!Next
<1>5. CASE e \in ItemEvents
  <2>1. e.type \in ItemTypes /\ i \in Items /\ e.data \in Fragments
    BY <1>5, ItemEventFacts
  <2>2. /\ client.phase = "open"
        /\ client.stage[i] = Before(e)
        /\ e.type \in {"part_added", "part_done"} => i = Message
        /\ e.type = "delta" => i \notin SilentTools
        /\ e.type = "content_done" => i # Reasoning /\ i \notin SilentTools
        /\ e.type \in DoneTypes => IF i \in SilentTools THEN client.content[i] = <<>>
                                   ELSE e.data = client.content[i]
    BY <1>1, <2>1 DEF Legal, ItemTypes
  <2>3. /\ client' = [client EXCEPT !.stage = [client.stage EXCEPT ![i] = StageAfter(e)],
                                    !.content = [client.content EXCEPT ![i] =
                                                    ContentAfter(e, client.content[i])]]
    BY <1>1, <1>5, AfterItem
  <2>4. /\ client'.phase = client.phase /\ client'.listed = client.listed
        /\ client'.stage = [client.stage EXCEPT ![i] = StageAfter(e)]
        /\ client'.content = [client.content EXCEPT ![i] = ContentAfter(e, client.content[i])]
    BY <1>1, <2>3 DEF Clients
  <2>5. Protocol!Move(i, Before(e), StageAfter(e))
    BY <2>2, <2>4 DEF Protocol!Move
  <2>6. Protocol!Writes(i)
    <3>1. client'.content \in [Items -> Seq(Nat)]
      <4>1. client'.content \in [Items -> Fragments] /\ 0..MaxChunks \subseteq Nat
        BY <1>1, LimitsAssumption DEF Clients
      <4>2. \A s \in Fragments : s \in Seq(Nat)
        BY <4>1, SeqMonotonic DEF Fragments
      <4> QED
        BY <4>1, <4>2
    <3>2. client.content \in [Items -> Fragments]
      BY <1>1 DEF Clients
    <3> QED
      BY <1>2, <2>4, <3>1, <3>2 DEF Protocol!Writes
  <2>7. ContentAfter(e, client.content[i]) = client.content[i] => client'.content = client.content
    BY <1>1, <2>1, <2>4 DEF Clients
  <2>8. CASE e.type = "added"
    <3>1. Protocol!ItemAdded(i)
      BY <2>5, <2>7, <2>8 DEF Protocol!ItemAdded, Before, StageAfter, ContentAfter, DoneTypes
    <3> QED
      BY <1>2, <2>1, <3>1 DEF Protocol!Next
  <2>9. CASE e.type = "part_added"
    <3>1. Protocol!PartAdded
      BY <2>2, <2>5, <2>7, <2>9 DEF Protocol!PartAdded, Before, StageAfter, ContentAfter, DoneTypes
    <3> QED
      BY <3>1 DEF Protocol!Next
  <2>10. CASE e.type = "delta"
    <3>1. client'.content[i] = client.content[i] \o e.data
      <4>1. ContentAfter(e, client.content[i]) = client.content[i] \o e.data
        BY <2>10 DEF ContentAfter, DoneTypes
      <4>2. client.content \in [Items -> Fragments]
        BY <1>1 DEF Clients
      <4> QED
        BY <2>1, <2>4, <4>1, <4>2
    <3>2. Protocol!IsPrefix(client.content[i], client'.content[i])
      <4>1. client.content[i] \in Fragments
        BY <1>1, <2>1 DEF Clients
      <4> QED
        BY <2>1, <3>1, <4>1, PrefixOf DEF Fragments, IsPrefix, Protocol!IsPrefix
    <3>3. Protocol!Delta(i)
      BY <1>2, <2>2, <2>5, <2>6, <2>10, <3>2 DEF Protocol!Delta, Before, StageAfter
    <3> QED
      BY <1>2, <2>1, <3>3 DEF Protocol!Next
  <2>11. CASE e.type = "content_done"
    <3>1. Protocol!ContentDone(i)
      BY <1>2, <2>2, <2>5, <2>7, <2>11
         DEF Protocol!ContentDone, Before, StageAfter, ContentAfter, DoneTypes
    <3> QED
      BY <1>2, <2>1, <3>1 DEF Protocol!Next
  <2>12. CASE e.type = "part_done"
    <3>1. i \notin SilentTools
      BY <2>2, <2>12, Names DEF SilentTools
    <3>2. Protocol!PartDone
      BY <2>2, <2>5, <2>7, <2>12, <3>1
         DEF Protocol!PartDone, Before, StageAfter, ContentAfter, DoneTypes
    <3> QED
      BY <3>2 DEF Protocol!Next
  <2>13. CASE e.type = "done"
    <3>1. i \notin SilentTools => client'.content[i] = client.content[i]
      BY <2>2, <2>7, <2>13 DEF ContentAfter, DoneTypes
    <3>2. Protocol!ItemDone(i)
      BY <1>2, <2>5, <2>6, <2>13, <3>1 DEF Protocol!ItemDone, Before, StageAfter
    <3> QED
      BY <1>2, <2>1, <3>2 DEF Protocol!Next
  <2> QED
    BY <2>1, <2>8, <2>9, <2>10, <2>11, <2>12, <2>13 DEF ItemTypes
<1> QED
  BY <1>1, <1>3, <1>4, <1>5 DEF Events

-----------------------------------------------------------------------------
(* Message events commute with the events that may overtake them, and what  *)
(* the client has of an item only grows.                                    *)

\* A client is what it knows of each item.
LEMMA ClientsEqual ==
    ASSUME NEW c \in Clients, NEW d \in Clients,
           c.phase = d.phase, c.listed = d.listed, c.usage = d.usage,
           \A i \in Items : c.stage[i] = d.stage[i] /\ c.content[i] = d.content[i]
    PROVE  c = d
<1>1. c.stage \in [Items -> Stages] /\ d.stage \in [Items -> Stages]
      /\ c.content \in [Items -> Fragments] /\ d.content \in [Items -> Fragments]
  BY DEF Clients
<1>2. c.stage = d.stage /\ c.content = d.content
  BY <1>1
<1> QED
  BY <1>2 DEF Clients

\* When an event about an item may come.
LEMMA LegalItem ==
    ASSUME NEW c, NEW e \in ItemEvents
    PROVE  Legal(c, e) <=>
              /\ c.phase = "open"
              /\ c.stage[e.item] = Before(e)
              /\ e.type \in {"part_added", "part_done"} => e.item = Message
              /\ e.type = "delta" => e.item \notin SilentTools
              /\ e.type = "content_done" => e.item # Reasoning /\ e.item \notin SilentTools
              /\ e.type \in DoneTypes =>
                   IF e.item \in SilentTools THEN c.content[e.item] = <<>>
                   ELSE e.data = c.content[e.item]
<1>1. e.type # "created" /\ e.type # "completed"
  BY ItemEventFacts DEF ItemTypes
<1> QED
  BY <1>1 DEF Legal

\* Whether an event about an item is legal depends on that item only.
LEMMA LegalSame ==
    ASSUME NEW c, NEW d, NEW e \in ItemEvents, Legal(c, e), d.phase = c.phase,
           d.stage[e.item] = c.stage[e.item], d.content[e.item] = c.content[e.item]
    PROVE  Legal(d, e)
  BY LegalItem

\* An event may overtake an event about another item: the client ends up the same.
LEMMA Commutes ==
    ASSUME NEW m \in ItemEvents, NEW e \in ItemEvents \cup {CreatedEvent}, e.item # m.item,
           NEW a, NEW b, NEW c, <<a, m, b>> \in Steps, <<b, e, c>> \in Steps
    PROVE  \E d : <<a, e, d>> \in Steps /\ <<d, m, c>> \in Steps
<1>1. /\ a \in Clients /\ b \in Clients /\ c \in Clients /\ m \in Events /\ e \in Events
      /\ Legal(a, m) /\ b = After(a, m) /\ Legal(b, e) /\ c = After(b, e)
  BY StepIs
<1>2. a.phase = "open" /\ b.phase = "open"
  BY <1>1, LegalItem, AfterItemFacts
<1>3. e \in ItemEvents
  BY <1>1, <1>2, CreatedFacts DEF Legal
<1> DEFINE i == m.item
           j == e.item
           d == After(a, e)
<1>4. i \in Items /\ j \in Items /\ i # j
  BY <1>3, ItemEventFacts
<1>5. /\ b.phase = a.phase /\ b.listed = a.listed /\ b.usage = a.usage
      /\ b.stage[i] = StageAfter(m) /\ b.content[i] = ContentAfter(m, a.content[i])
      /\ \A k \in Items : k # i => b.stage[k] = a.stage[k] /\ b.content[k] = a.content[k]
  <2>1. b = After(a, m) /\ a \in Clients /\ m \in ItemEvents
    BY <1>1
  <2> QED
    BY <2>1, AfterItemFacts
<1>6. /\ c.phase = b.phase /\ c.listed = b.listed /\ c.usage = b.usage
      /\ c.stage[j] = StageAfter(e) /\ c.content[j] = ContentAfter(e, b.content[j])
      /\ \A k \in Items : k # j => c.stage[k] = b.stage[k] /\ c.content[k] = b.content[k]
  BY <1>1, <1>3, AfterItemFacts
<1>7. /\ d \in Clients /\ d.phase = a.phase /\ d.listed = a.listed /\ d.usage = a.usage
      /\ d.stage[j] = StageAfter(e) /\ d.content[j] = ContentAfter(e, a.content[j])
      /\ \A k \in Items : k # j => d.stage[k] = a.stage[k] /\ d.content[k] = a.content[k]
  BY <1>1, <1>3, AfterItemFacts
<1>8. Legal(a, e)
  BY <1>1, <1>3, <1>4, <1>5, LegalSame
<1> HIDE DEF d
<1>9. Legal(d, m)
  BY <1>1, <1>4, <1>7, LegalSame
<1> DEFINE f == After(d, m)
<1>10. /\ f \in Clients /\ f.phase = d.phase /\ f.listed = d.listed /\ f.usage = d.usage
       /\ f.stage[i] = StageAfter(m) /\ f.content[i] = ContentAfter(m, d.content[i])
       /\ \A k \in Items : k # i => f.stage[k] = d.stage[k] /\ f.content[k] = d.content[k]
  BY <1>7, AfterItemFacts
<1> HIDE DEF f
<1>11. /\ f.phase = c.phase /\ f.listed = c.listed /\ f.usage = c.usage
  BY <1>5, <1>6, <1>7, <1>10
<1>12. ASSUME NEW k \in Items
       PROVE  f.stage[k] = c.stage[k] /\ f.content[k] = c.content[k]
  <2>1. CASE k = i
    BY <1>4, <1>5, <1>6, <1>7, <1>10, <2>1
  <2>2. CASE k = j
    BY <1>4, <1>5, <1>6, <1>7, <1>10, <2>2
  <2>3. CASE k # i /\ k # j
    BY <1>5, <1>6, <1>7, <1>10, <2>3
  <2> QED
    BY <2>1, <2>2, <2>3
<1>13. f = c
  BY <1>1, <1>10, <1>11, <1>12, ClientsEqual
<1>14. <<a, e, d>> \in Steps
  BY <1>1, <1>7, <1>8, StepIs DEF d
<1>15. <<d, m, c>> \in Steps
  BY <1>1, <1>7, <1>9, <1>13, StepIs DEF f
<1> QED
  BY <1>14, <1>15

\* An item that is done does not change any more.
Grown(c, d) ==
    \A i \in Items : /\ \E x \in Fragments : d.content[i] = c.content[i] \o x
                     /\ c.stage[i] = "done" => d.stage[i] = "done" /\ d.content[i] = c.content[i]

LEMMA FragmentsSame == ASSUME NEW s \in Fragments PROVE \E x \in Fragments : s = s \o x
<1>1. <<>> \in Fragments /\ s = s \o <<>>
  BY EmptySeq, ConcatEmptySeq DEF Fragments
<1> QED
  BY <1>1

LEMMA GrownSame == ASSUME NEW c \in Clients PROVE Grown(c, c)
<1>1. \A i \in Items : c.content[i] \in Fragments
  BY DEF Clients
<1> QED
  BY <1>1, FragmentsSame DEF Grown

\* With each event the client knows more: content only grows, what is done stays.
LEMMA StepGrows == ASSUME NEW c, NEW e, NEW d, <<c, e, d>> \in Steps PROVE Grown(c, d)
<1>1. /\ c \in Clients /\ d \in Clients /\ e \in Events /\ Legal(c, e) /\ d = After(c, e)
  BY StepIs
<1>2. \A i \in Items : c.content[i] \in Fragments
  BY <1>1 DEF Clients
<1>3. CASE d.stage = c.stage /\ d.content = c.content
  BY <1>2, <1>3, FragmentsSame DEF Grown
<1>4. CASE e = CreatedEvent
  <2>1. d.stage = c.stage /\ d.content = c.content
    BY <1>1, <1>4, CreatedFacts DEF After, Clients
  <2> QED
    BY <1>3, <2>1
<1>5. CASE e \in CompletedEvents
  <2>1. e.type = "completed"
    BY <1>5, CompletedFacts
  <2>2. \A i \in DOMAIN e.output : e.output[i] = c.content[i]
    BY <1>1, <2>1 DEF Legal
  <2>3. /\ d.stage = c.stage
        /\ d.content = [i \in Items |-> IF i \in DOMAIN e.output THEN e.output[i] ELSE c.content[i]]
    BY <1>1, <2>1 DEF After, Clients
  <2>4. c.content = [i \in Items |-> c.content[i]]
    BY <1>1 DEF Clients
  <2>5. d.content = c.content
    BY <2>2, <2>3, <2>4
  <2> QED
    BY <1>3, <2>3, <2>5
<1>6. CASE e \in ItemEvents
  <2> DEFINE i == e.item
  <2>1. /\ i \in Items /\ e.type \in ItemTypes /\ e.data \in Fragments
        /\ d.content[i] = ContentAfter(e, c.content[i])
        /\ \A k \in Items : k # i => d.stage[k] = c.stage[k] /\ d.content[k] = c.content[k]
    BY <1>1, <1>6, AfterItemFacts, ItemEventFacts
  <2>2. /\ c.stage[i] = Before(e)
        /\ e.type \in DoneTypes => IF i \in SilentTools THEN c.content[i] = <<>>
                                   ELSE e.data = c.content[i]
    BY <1>1, <1>6, LegalItem
  <2>3. c.stage[i] # "done"
    BY <2>1, <2>2 DEF Before, ItemTypes
  <2> HIDE DEF i
  <2>s. \A k \in Items : \E x \in Fragments : c.content[k] = c.content[k] \o x
    BY <1>2, FragmentsSame
  <2>4. \E x \in Fragments : d.content[i] = c.content[i] \o x
    <3>1. CASE e.type = "delta"
      <4>1. ContentAfter(e, c.content[i]) = c.content[i] \o e.data
        BY <3>1 DEF ContentAfter, DoneTypes
      <4> QED
        BY <2>1, <4>1
    <3>2. CASE e.type \in DoneTypes
      <4>1. d.content[i] = e.data
        BY <2>1, <3>2 DEF ContentAfter, DoneTypes
      <4>2. CASE c.content[i] = <<>>
        <5>1. e.data = <<>> \o e.data
          BY <2>1, ConcatEmptySeq DEF Fragments
        <5> QED
          BY <2>1, <4>1, <4>2, <5>1
      <4>3. CASE e.data = c.content[i]
        BY <2>1, <2>s, <4>1, <4>3
      <4> QED
        BY <2>2, <3>2, <4>2, <4>3
    <3>3. CASE e.type \notin DoneTypes \cup {"delta"}
      <4>1. d.content[i] = c.content[i]
        BY <2>1, <3>3 DEF ContentAfter
      <4> QED
        BY <2>1, <2>s, <4>1
    <3> QED
      BY <3>1, <3>2, <3>3
  <2>5. \A k \in Items : \E x \in Fragments : d.content[k] = c.content[k] \o x
    BY <2>1, <2>4, <2>s
  <2> QED
    BY <2>1, <2>3, <2>5 DEF Grown
<1> QED
  BY <1>1, <1>4, <1>5, <1>6 DEF Events

LEMMA GrownAgain ==
    ASSUME NEW a \in Clients, NEW b \in Clients, NEW c \in Clients, Grown(a, b), Grown(b, c)
    PROVE  Grown(a, c)
<1> SUFFICES ASSUME NEW i \in Items
             PROVE  /\ \E x \in Fragments : c.content[i] = a.content[i] \o x
                    /\ a.stage[i] = "done" => c.stage[i] = "done" /\ c.content[i] = a.content[i]
  BY DEF Grown
<1>1. PICK x \in Fragments : b.content[i] = a.content[i] \o x
  BY DEF Grown
<1>2. PICK y \in Fragments : c.content[i] = b.content[i] \o y
  BY DEF Grown
<1>3. a.content[i] \in Fragments
  BY DEF Clients
<1>4. c.content[i] = a.content[i] \o (x \o y) /\ x \o y \in Fragments
  <2>1. x \o y \in Fragments
    BY FragmentsConcat
  <2>2. (a.content[i] \o x) \o y = a.content[i] \o (x \o y)
    <3> DEFINE s == a.content[i]
    <3>1. s \in Fragments
      BY <1>3
    <3> HIDE DEF s
    <3>2. (s \o x) \o y = s \o (x \o y)
      BY <3>1, ConcatAssociative DEF Fragments
    <3> QED
      BY <3>2 DEF s
  <2> QED
    BY <1>1, <1>2, <2>1, <2>2
<1>5. a.stage[i] = "done" => c.stage[i] = "done" /\ c.content[i] = a.content[i]
  BY DEF Grown
<1>6. \E z \in Fragments : c.content[i] = a.content[i] \o z
  BY <1>4
<1> QED
  BY <1>5, <1>6

\* So it does with a queue of them.
LEMMA LeadsGrows ==
    ASSUME NEW q \in Seq(Events), NEW c \in Clients, NEW d, Leads(Steps, c, q, d)
    PROVE  d \in Clients /\ Grown(c, d)
<1> DEFINE Good == {b \in Clients : Grown(c, b)}
<1>1. c \in Good
  BY GrownSame
<1>2. ASSUME NEW a, NEW e, NEW b, <<a, e, b>> \in Steps, a \in Good
      PROVE  b \in Good
  <2>1. a \in Clients /\ b \in Clients /\ Grown(a, b)
    BY <1>2, StepIs, StepGrows
  <2> QED
    BY <1>2, <2>1, GrownAgain
<1> HIDE DEF Good
<1>3. d \in Good
  BY <1>1, <1>2, LeadsKeeps
<1> QED
  BY <1>3 DEF Good

\* After response.completed nothing comes.
LEMMA NothingAfter ==
    ASSUME NEW q \in Seq(Events), NEW c, NEW d, Leads(Steps, c, q, d), c.phase = "completed"
    PROVE  q = <<>> /\ c = d
<1>1. q = <<>>
  <2> SUFFICES ASSUME q # <<>>
               PROVE  FALSE
    OBVIOUS
  <2>1. PICK b : <<c, Head(q), b>> \in Steps
    BY LeadsTail
  <2>2. Head(q) \in Events /\ Legal(c, Head(q))
    BY <2>1, StepIs
  <2>3. c.phase \in {"idle", "open"}
    BY <2>2, EventKinds, LegalItem DEF Legal
  <2> QED
    BY <2>3
<1> QED
  BY <1>1, LeadsNowhere

-----------------------------------------------------------------------------
(* What the client has still to read, in the order it would read it if no    *)
(* further event came: the entries of output it has not received, the        *)
(* delayed events, and the events that have not been fed yet.                *)

Entries(n) == [ev : 1..n, phase : PB!Phases]
Due(out, from) == [k \in 1..(Len(out) - from) |-> out[from + k].ev]
EventsAt(in, places) == [k \in 1..Len(places) |-> in[places[k]]]
Queue == EventsAt(input, Due(output, yielded) \o buffer) \o events

LEMMA FunctionIsSeq ==
    ASSUME NEW E, NEW n \in Nat, NEW f \in [1..n -> E]
    PROVE  f \in Seq(E) /\ Len(f) = n
  OBVIOUS

\* The events at given places of the input.
LEMMA EventsAtType ==
    ASSUME NEW E, NEW in \in Seq(E), NEW p \in Seq(1..Len(in))
    PROVE  /\ EventsAt(in, p) \in Seq(E) /\ Len(EventsAt(in, p)) = Len(p)
           /\ \A k \in 1..Len(p) : EventsAt(in, p)[k] = in[p[k]]
<1>1. Len(p) \in Nat /\ \A k \in 1..Len(p) : p[k] \in 1..Len(in)
  BY LenProperties, ElementOfSeq
<1>2. \A k \in 1..Len(in) : in[k] \in E
  BY ElementOfSeq
<1>3. EventsAt(in, p) \in [1..Len(p) -> E]
  BY <1>1, <1>2 DEF EventsAt
<1>4. EventsAt(in, p) \in Seq(E) /\ Len(EventsAt(in, p)) = Len(p)
  BY <1>1, <1>3
<1> QED
  BY <1>4 DEF EventsAt

LEMMA EventsAtConcat ==
    ASSUME NEW E, NEW in \in Seq(E), NEW p \in Seq(1..Len(in)), NEW q \in Seq(1..Len(in))
    PROVE  EventsAt(in, p \o q) = EventsAt(in, p) \o EventsAt(in, q)
<1> DEFINE n == Len(p)
           m == Len(q)
           r == p \o q
           l == Len(r)
           a == EventsAt(in, p)
           b == EventsAt(in, q)
           c == EventsAt(in, r)
<1>1. /\ n \in Nat /\ m \in Nat /\ l = n + m /\ r \in Seq(1..Len(in))
      /\ \A k \in 1..l : r[k] = IF k <= n THEN p[k] ELSE q[k - n]
  BY LenProperties, ConcatProperties
<1> HIDE DEF r
<1>2. /\ a \in Seq(E) /\ Len(a) = n /\ \A k \in 1..n : a[k] = in[p[k]]
      /\ b \in Seq(E) /\ Len(b) = m /\ \A k \in 1..m : b[k] = in[q[k]]
      /\ c \in Seq(E) /\ Len(c) = l /\ \A k \in 1..l : c[k] = in[r[k]]
  <2>1. a \in Seq(E) /\ Len(a) = n /\ \A k \in 1..n : a[k] = in[p[k]]
    BY EventsAtType
  <2>2. b \in Seq(E) /\ Len(b) = m /\ \A k \in 1..m : b[k] = in[q[k]]
    BY EventsAtType
  <2>3. c \in Seq(E) /\ Len(c) = l /\ \A k \in 1..l : c[k] = in[r[k]]
    BY <1>1, EventsAtType
  <2> QED
    BY <2>1, <2>2, <2>3
<1> HIDE DEF a, b, c, n, m, l
<1> DEFINE d == a \o b
<1>a. /\ d \in Seq(E) /\ Len(d) = Len(a) + Len(b)
      /\ \A k \in 1..Len(a) + Len(b) : d[k] = IF k <= Len(a) THEN a[k] ELSE b[k - Len(a)]
  BY <1>2, ConcatProperties
<1> HIDE DEF d
<1>3. /\ d \in Seq(E) /\ Len(d) = l
      /\ \A k \in 1..l : d[k] = IF k <= n THEN a[k] ELSE b[k - n]
  BY <1>1, <1>2, <1>a
<1>4. ASSUME NEW k \in 1..l
      PROVE  c[k] = d[k]
  <2>1. CASE k <= n
    <3>1. k \in 1..n
      BY <1>1, <2>1
    <3> QED
      BY <1>1, <1>2, <1>3, <2>1, <3>1
  <2>2. CASE ~(k <= n)
    <3> DEFINE j == k - n
    <3>1. j \in 1..m
      BY <1>1, <2>2
    <3>2. r[k] = q[j] /\ d[k] = b[j]
      BY <1>1, <1>3, <2>2
    <3> HIDE DEF j
    <3> QED
      BY <1>2, <3>1, <3>2
  <2> QED
    BY <2>1, <2>2
<1>5. c = d
  BY <1>2, <1>3, <1>4, SeqEqual
<1> QED
  BY <1>5 DEF a, b, c, d, r

LEMMA EventsAtLater ==
    ASSUME NEW E, NEW in \in Seq(E), NEW e \in E, NEW p \in Seq(1..Len(in))
    PROVE  /\ EventsAt(Append(in, e), p) = EventsAt(in, p)
           /\ EventsAt(Append(in, e), <<Len(in) + 1>>) = <<e>>
<1>1. /\ Len(in) \in Nat /\ Append(in, e)[Len(in) + 1] = e
      /\ \A k \in 1..Len(in) : Append(in, e)[k] = in[k]
  BY LenProperties, AppendProperties
<1>2. \A k \in 1..Len(p) : p[k] \in 1..Len(in)
  BY ElementOfSeq
<1>3. EventsAt(Append(in, e), p) = EventsAt(in, p)
  BY <1>1, <1>2 DEF EventsAt
<1>4. EventsAt(Append(in, e), <<Len(in) + 1>>) = <<e>>
  <2> DEFINE n == Len(in) + 1
             f == Append(in, e)
             c == EventsAt(f, <<n>>)
  <2>1. Len(<<n>>) = 1 /\ <<n>>[1] = n /\ 1 \in 1..1
    OBVIOUS
  <2>2. f \in Seq(E) /\ f[n] = e /\ Len(f) = n
    BY <1>1, AppendProperties
  <2>3. n \in 1..n
    BY <1>1
  <2> HIDE DEF n, f
  <2>4. <<n>> \in Seq(1..Len(f))
    BY <2>2, <2>3
  <2>5. c \in Seq(E) /\ Len(c) = 1 /\ c[1] = e
    <3> DEFINE p1 == <<n>>
    <3>1. p1 \in Seq(1..Len(f)) /\ Len(p1) = 1 /\ 1 \in 1..Len(p1) /\ p1[1] = n
      BY <2>1, <2>4
    <3> HIDE DEF p1
    <3>2. /\ EventsAt(f, p1) \in Seq(E) /\ Len(EventsAt(f, p1)) = Len(p1)
          /\ \A k \in 1..Len(p1) : EventsAt(f, p1)[k] = f[p1[k]]
      BY <2>2, <3>1, EventsAtType
    <3> QED
      BY <2>2, <3>1, <3>2 DEF p1
  <2> HIDE DEF c
  <2>6. <<e>> \in Seq(E) /\ Len(<<e>>) = 1 /\ <<e>>[1] = e /\ \A k \in 1..1 : k = 1
    OBVIOUS
  <2>7. c = <<e>>
    BY <2>5, <2>6, SeqEqual
  <2> QED
    BY <2>7 DEF n, f, c
<1> QED
  BY <1>3, <1>4

\* What has been returned by the phase buffer and not been yielded.
LEMMA DueType ==
    ASSUME NEW n, NEW out \in Seq(Entries(n)), NEW from \in 0..Len(out)
    PROVE  /\ Due(out, from) \in Seq(1..n)
           /\ Len(Due(out, from)) = Len(out) - from
           /\ \A k \in 1..(Len(out) - from) : Due(out, from)[k] = out[from + k].ev
           /\ from = Len(out) => Due(out, from) = <<>>
<1>1. Len(out) \in Nat /\ \A k \in 1..Len(out) : out[k].ev \in 1..n
  <2>1. \A k \in 1..Len(out) : out[k] \in Entries(n)
    BY ElementOfSeq
  <2> QED
    BY <2>1, LenProperties DEF Entries
<1> DEFINE m == Len(out) - from
           d == Due(out, from)
<1>2. m \in Nat /\ \A k \in 1..m : from + k \in 1..Len(out)
  BY <1>1
<1>3. d \in [1..m -> 1..n] /\ \A k \in 1..m : d[k] = out[from + k].ev
  BY <1>1, <1>2 DEF Due
<1> HIDE DEF m, d
<1>4. d \in Seq(1..n) /\ Len(d) = m
  BY <1>2, <1>3, FunctionIsSeq
<1>5. from = Len(out) => m = 0
  BY <1>1 DEF m
<1>6. from = Len(out) => d = <<>>
  BY <1>4, <1>5, EmptySeq
<1> QED
  BY <1>3, <1>4, <1>6 DEF m, d

\* The client receives the next entry.
LEMMA DueNext ==
    ASSUME NEW n, NEW out \in Seq(Entries(n)), NEW from \in 0..Len(out), from < Len(out)
    PROVE  Due(out, from) = <<out[from + 1].ev>> \o Due(out, from + 1)
<1>1. Len(out) \in Nat /\ from + 1 \in 0..Len(out)
  BY LenProperties
<1> DEFINE a == Due(out, from)
           b == Due(out, from + 1)
           x == out[from + 1].ev
           m == Len(out) - from
<1>2. a \in Seq(1..n) /\ b \in Seq(1..n)
  BY <1>1, DueType
<1>3. m \in Nat \ {0} /\ Len(out) - (from + 1) = m - 1
  BY <1>1
<1>4. Len(a) = m /\ (\A k \in 1..m : a[k] = out[from + k].ev)
  BY DueType
<1>5. Len(b) = m - 1 /\ (\A k \in 1..m - 1 : b[k] = out[from + 1 + k].ev)
  <2> DEFINE next == from + 1
  <2>1. next \in 0..Len(out) /\ Len(out) - next = m - 1
    BY <1>1, <1>3
  <2> HIDE DEF next
  <2>2. /\ Len(Due(out, next)) = Len(out) - next
        /\ \A k \in 1..(Len(out) - next) : Due(out, next)[k] = out[next + k].ev
    BY <2>1, DueType
  <2> QED
    BY <2>1, <2>2 DEF next
<1> HIDE DEF a, b, m
<1>6. 1 \in 1..m /\ x = a[1]
  <2>1. 1 \in 1..m
    BY <1>3
  <2>2. a[1] = out[from + 1].ev
    BY <2>1, <1>4
  <2> QED
    BY <2>1, <2>2
<1> HIDE DEF x
<1>7. x \in 1..n
  BY <1>2, <1>4, <1>6, ElementOfSeq
<1>8. <<x>> \in Seq(1..n) /\ Len(<<x>>) = 1 /\ <<x>>[1] = x
  BY <1>7
<1> DEFINE c == <<x>> \o b
<1>9. /\ c \in Seq(1..n) /\ Len(c) = 1 + (m - 1)
      /\ \A k \in 1..1 + (m - 1) : c[k] = IF k <= 1 THEN <<x>>[k] ELSE b[k - 1]
  BY <1>2, <1>5, <1>8, ConcatProperties
<1> HIDE DEF c
<1>10. ASSUME NEW k \in 1..m
       PROVE  a[k] = c[k]
  <2>1. k \in 1..1 + (m - 1)
    BY <1>3
  <2>2. CASE k <= 1
    <3>1. k = 1
      BY <2>2
    <3> QED
      BY <1>6, <1>8, <1>9, <2>1, <2>2, <3>1
  <2>3. CASE ~(k <= 1)
    <3>1. k - 1 \in 1..m - 1 /\ from + 1 + (k - 1) = from + k
      BY <1>3, <2>3, <1>1
    <3> QED
      BY <1>4, <1>5, <1>9, <2>1, <2>3, <3>1
  <2> QED
    BY <2>2, <2>3
<1>11. Len(c) = Len(a)
  BY <1>3, <1>4, <1>9
<1>12. a = c
  BY <1>2, <1>4, <1>9, <1>10, <1>11, SeqEqual
<1> QED
  BY <1>12 DEF a, b, c, x

\* Entries come to the client's end of output when it has received all before.
LEMMA DueMore ==
    ASSUME NEW n, NEW out \in Seq(Entries(n)), NEW more \in Seq(Entries(n))
    PROVE  /\ out \o more \in Seq(Entries(n)) /\ Len(out) \in 0..Len(out \o more)
           /\ Due(out \o more, Len(out)) = [k \in 1..Len(more) |-> more[k].ev]
<1> DEFINE a == Len(out)
           b == Len(more)
           c == Len(out \o more)
<1>1. /\ a \in Nat /\ b \in Nat /\ c = a + b /\ out \o more \in Seq(Entries(n))
      /\ \A k \in 1..a + b : (out \o more)[k] = IF k <= a THEN out[k] ELSE more[k - a]
  BY LenProperties, ConcatProperties
<1> HIDE DEF a, b, c
<1>2. a \in 0..c /\ c - a = b
  BY <1>1
<1>3. ASSUME NEW k \in 1..b
      PROVE  (out \o more)[a + k] = more[k]
  <2> DEFINE j == a + k
  <2>1. j \in 1..a + b /\ ~(j <= a) /\ j - a = k
    BY <1>1
  <2> HIDE DEF j
  <2>2. (out \o more)[j] = more[k]
    BY <1>1, <2>1
  <2> QED
    BY <2>2 DEF j
<1>4. Due(out \o more, a) = [k \in 1..b |-> more[k].ev]
  BY <1>2, <1>3 DEF Due, c
<1> QED
  BY <1>1, <1>2, <1>4 DEF a, b, c

QueueTypes ==
    /\ input \in Seq(Events) /\ events \in Seq(Events)
    /\ output \in Seq(Entries(Len(input))) /\ yielded \in 0..Len(output)
    /\ buffer \in Seq(1..Len(input))

\* The queue consists of events; with nothing due it is what is delayed and what is to come.
LEMMA QueueType ==
    ASSUME QueueTypes
    PROVE  /\ Queue \in Seq(Events)
           /\ Due(output, yielded) \in Seq(1..Len(input))
           /\ Due(output, yielded) \o buffer \in Seq(1..Len(input))
           /\ EventsAt(input, buffer) \in Seq(Events)
           /\ yielded = Len(output) => Queue = EventsAt(input, buffer) \o events
<1> DEFINE d == Due(output, yielded)
<1>1. d \in Seq(1..Len(input)) /\ (yielded = Len(output) => d = <<>>)
  BY DueType DEF QueueTypes
<1> HIDE DEF d
<1> DEFINE p == d \o buffer
<1>2. p \in Seq(1..Len(input)) /\ (d = <<>> => p = buffer)
  <2>1. buffer \in Seq(1..Len(input))
    BY DEF QueueTypes
  <2> DEFINE I == 1..Len(input)
  <2> HIDE DEF I
  <2>2. d \in Seq(I) /\ buffer \in Seq(I)
    BY <1>1, <2>1 DEF I
  <2>3. d \o buffer \in Seq(I) /\ <<>> \o buffer = buffer
    BY <2>2, ConcatType, ConcatEmptySeq
  <2> QED
    BY <2>3 DEF I
<1> HIDE DEF p
<1>3. EventsAt(input, p) \in Seq(Events) /\ EventsAt(input, buffer) \in Seq(Events)
  BY <1>2, EventsAtType DEF QueueTypes
<1>4. EventsAt(input, p) \o events \in Seq(Events)
  BY <1>3, ConcatProperties DEF QueueTypes
<1> QED
  BY <1>1, <1>2, <1>3, <1>4 DEF Queue, QueueTypes, d, p

\* The event that is fed goes behind the delayed ones, or ahead of them.
LEMMA Fed ==
    ASSUME QueueTypes, yielded = Len(output), events # <<>>,
           input' = Append(input, Head(events)), events' = Tail(events)
    PROVE  /\ Queue = (EventsAt(input, buffer) \o <<Head(events)>>) \o Tail(events)
           /\ Due(output', yielded') \o buffer' = Append(buffer, Len(input) + 1)
                 => Queue' = Queue
           /\ Due(output', yielded') \o buffer' = <<Len(input) + 1>> \o buffer
                 => Queue' = (<<Head(events)>> \o EventsAt(input, buffer)) \o Tail(events)
           /\ Head(events) \in Events /\ Tail(events) \in Seq(Events)
<1> DEFINE e == Head(events)
           n == Len(input) + 1
           a == EventsAt(input, buffer)
           r == Tail(events)
<1>1. /\ e \in Events /\ r \in Seq(Events) /\ events = <<e>> \o r
  <2>1. e \in Events /\ r \in Seq(Events)
    BY HeadTailProperties DEF QueueTypes
  <2>2. events \in Seq(Events)
    BY DEF QueueTypes
  <2>3. events = <<Head(events)>> \o Tail(events)
    BY <2>2
  <2> QED
    BY <2>1, <2>3
<1>2. /\ input' \in Seq(Events) /\ Len(input') = n /\ n \in 1..n
      /\ buffer \in Seq(1..Len(input)) /\ buffer \in Seq(1..n) /\ <<n>> \in Seq(1..n)
  <2>1. Len(input) \in Nat /\ input \in Seq(Events) /\ buffer \in Seq(1..Len(input))
    BY LenProperties DEF QueueTypes
  <2>2. 1..Len(input) \subseteq 1..n /\ n \in 1..n
    BY <2>1
  <2>3. buffer \in Seq(1..n)
    BY <2>1, <2>2, SeqMonotonic
  <2>4. input' \in Seq(Events) /\ Len(input') = n
    BY <1>1, <2>1, AppendProperties
  <2>5. <<n>> \in Seq(1..n)
    BY <2>2
  <2> QED
    BY <2>1, <2>2, <2>3, <2>4, <2>5
<1>3. EventsAt(input', buffer) = a /\ EventsAt(input', <<n>>) = <<e>>
  BY <1>1, <1>2, EventsAtLater DEF QueueTypes
<1>4. /\ EventsAt(input', buffer \o <<n>>) = a \o <<e>>
      /\ EventsAt(input', <<n>> \o buffer) = <<e>> \o a
      /\ Append(buffer, n) = buffer \o <<n>>
  <2>1. EventsAt(input', buffer \o <<n>>) = EventsAt(input', buffer) \o EventsAt(input', <<n>>)
    BY <1>2, EventsAtConcat
  <2>2. EventsAt(input', <<n>> \o buffer) = EventsAt(input', <<n>>) \o EventsAt(input', buffer)
    BY <1>2, EventsAtConcat
  <2>3. Append(buffer, n) = buffer \o <<n>>
    BY <1>2, AppendIsConcat
  <2> QED
    BY <1>3, <2>1, <2>2, <2>3
<1>5. Queue = a \o events /\ a \in Seq(Events)
  BY QueueType
<1>6. /\ Due(output', yielded') \o buffer' = Append(buffer, n) => Queue' = (a \o <<e>>) \o r
      /\ Due(output', yielded') \o buffer' = <<n>> \o buffer => Queue' = (<<e>> \o a) \o r
  BY <1>4 DEF Queue
<1> HIDE DEF a, e, r
<1>7. <<e>> \in Seq(Events)
  BY <1>1
<1>8. (a \o <<e>>) \o r = a \o (<<e>> \o r)
  BY <1>1, <1>5, <1>7, ConcatAssociative
<1>9. Queue = (a \o <<e>>) \o r
  BY <1>1, <1>5, <1>8
<1>10. Due(output', yielded') \o buffer' = Append(buffer, n) => Queue' = Queue
  BY <1>6, <1>9
<1> QED
  BY <1>1, <1>6, <1>9, <1>10 DEF a, e, r, n

\* An event that overtakes delayed message events is of another item.
LEMMA AheadLeads ==
    ASSUME NEW a \in Seq({m \in ItemEvents : m.item = Message}),
           NEW e \in ItemEvents \cup {CreatedEvent}, e.item # Message \/ a = <<>>,
           NEW r \in Seq(Events), NEW c, NEW d, Leads(Steps, c, (a \o <<e>>) \o r, d)
    PROVE  Leads(Steps, c, (<<e>> \o a) \o r, d)
<1> DEFINE M == {m \in ItemEvents : m.item = Message}
<1>1. a \in Seq(Events) /\ e \in Events /\ <<e>> \in Seq(Events)
  <2>1. M \subseteq Events /\ a \in Seq(M) /\ e \in Events
    BY DEF Events
  <2> HIDE DEF M
  <2> QED
    BY <2>1, SeqMonotonic
<1>2. a \o <<e>> \in Seq(Events) /\ <<e>> \o a \in Seq(Events)
  BY <1>1, ConcatProperties
<1>3. PICK t : Leads(Steps, c, a \o <<e>>, t) /\ Leads(Steps, t, r, d)
  BY <1>2, LeadsSplit
<1>4. CASE a = <<>>
  <2>1. a \o <<e>> = <<e>> /\ <<e>> \o a = <<e>>
    BY <1>1, <1>4, ConcatEmptySeq
  <2> QED
    BY <1>1, <1>3, <2>1, LeadsConcat
<1>5. CASE a # <<>>
  <2>1. PICK b : Leads(Steps, c, a, b) /\ Leads(Steps, b, <<e>>, t)
    BY <1>1, <1>3, LeadsSplit
  <2>2. <<b, e, t>> \in Steps
    <3>1. <<e>> # <<>> /\ Head(<<e>>) = e /\ Tail(<<e>>) = <<>>
      OBVIOUS
    <3>2. PICK x : <<b, e, x>> \in Steps /\ Leads(Steps, x, <<>>, t)
      BY <1>1, <2>1, <3>1, LeadsTail
    <3> QED
      BY <3>2, LeadsNowhere
  <2>3. ASSUME NEW x, NEW m, NEW y, NEW z, m \in M, <<x, m, y>> \in Steps, <<y, e, z>> \in Steps
        PROVE  \E w : <<x, e, w>> \in Steps /\ <<w, m, z>> \in Steps
    <3>1. m \in ItemEvents /\ e.item # m.item
      BY <1>5, <2>3
    <3> QED
      BY <2>3, <3>1, Commutes
  <2>4. a \in Seq(M)
    OBVIOUS
  <2> HIDE DEF M
  <2>5. PICK w : <<c, e, w>> \in Steps /\ Leads(Steps, w, a, t)
    BY <2>1, <2>2, <2>3, <2>4, LeadsSwap
  <2>6. Leads(Steps, c, <<e>>, w)
    BY <2>5, LeadsOne
  <2>7. Leads(Steps, c, <<e>> \o a, t)
    BY <1>1, <2>5, <2>6, LeadsConcat
  <2> QED
    BY <1>2, <1>3, <2>7, LeadsConcat
<1> QED
  BY <1>4, <1>5

-----------------------------------------------------------------------------
(* The phase buffer, fed with the events of the converter.                   *)

\* Only events of the message are delayed, and only while they may be.
BufferInv ==
    /\ message_item_ids \subseteq {Message}
    /\ \A b \in 1..Len(buffer) :
          input[buffer[b]] \in ItemEvents /\ input[buffer[b]].item = Message
    /\ buffer # <<>> =>
          Message \in message_item_ids /\ ~commentary /\ ~terminal_seen /\ ~passthrough

FlagTypes == commentary \in BOOLEAN /\ terminal_seen \in BOOLEAN /\ passthrough \in BOOLEAN

\* The phases that may be written when event e is fed.
PhasesAt(e) ==
    {"none"} \cup (IF commentary' THEN {"commentary"} ELSE {})
             \cup (IF e.kind = "completed" THEN {"final_answer"} ELSE {})

\* The kinds the phase buffer goes by agree with what the events are about.
LEMMA KindFacts ==
    ASSUME NEW e \in Events
    PROVE  /\ e.kind \in PB!Kinds
           /\ e.kind \in PB!MessageKinds => e \in ItemEvents /\ e.item = Message /\ e.id = Message
           /\ e.kind \in PB!ToolKinds =>
                 \/ e \in ItemEvents /\ e.item \in Tools
                 \/ e \in CompletedEvents /\ \E i \in DOMAIN e.output : i \in Tools
           /\ e.kind = "completed" =>
                 e \in CompletedEvents /\ \A i \in DOMAIN e.output : i \notin Tools
           /\ e.kind \notin PB!MessageKinds \cup PB!ToolKinds \cup PB!TerminalKinds =>
                 e \in ItemEvents \cup {CreatedEvent} /\ e.item # Message
<1>1. CASE e \in ItemEvents
  <2>1. /\ e.type \in ItemTypes /\ e.item \in Items /\ e.kind = KindOf(e.type, e.item)
        /\ e.id = IF e.item = Message THEN Message ELSE NoId
    BY <1>1, ItemEventFacts
  <2>2. CASE e.item = Message
    <3>1. e.kind \in PB!MessageKinds
      BY <2>1, <2>2, Names DEF KindOf, PB!MessageKinds
    <3> QED
      BY <1>1, <2>1, <2>2, <3>1
         DEF PB!Kinds, PB!MessageKinds, PB!ToolKinds, PB!TerminalKinds
  <2>3. CASE e.item = Reasoning
    <3>1. e.kind \in {"other_item", "other"}
      BY <2>1, <2>3, Names DEF KindOf
    <3> QED
      BY <1>1, <2>3, <3>1, Names
         DEF PB!Kinds, PB!MessageKinds, PB!ToolKinds, PB!TerminalKinds
  <2>4. CASE e.item \in Tools
    <3>1. e.kind \in {"tool_item", "tool_args"}
      BY <2>1, <2>4, Names DEF KindOf
    <3> QED
      BY <1>1, <2>4, <3>1, Names
         DEF PB!Kinds, PB!MessageKinds, PB!ToolKinds, PB!TerminalKinds
  <2> QED
    BY <2>1, <2>2, <2>3, <2>4, Names
<1>2. CASE e = CreatedEvent
  BY <1>2, CreatedFacts, Names DEF PB!Kinds, PB!MessageKinds, PB!ToolKinds, PB!TerminalKinds
<1>3. CASE e \in CompletedEvents
  BY <1>3, CompletedFacts DEF PB!Kinds, PB!MessageKinds, PB!ToolKinds, PB!TerminalKinds
<1> QED
  BY <1>1, <1>2, <1>3 DEF Events

\* The entries the buffer is released as.
LEMMA FlushedEntries ==
    ASSUME QueueTypes, NEW phase \in PB!Phases
    PROVE  /\ PB!flushed(phase) \in Seq([ev : 1..Len(input), phase : {"none", phase}])
           /\ Len(PB!flushed(phase)) = Len(buffer)
           /\ \A b \in 1..Len(buffer) : PB!flushed(phase)[b].ev = buffer[b]
<1> DEFINE f == PB!flushed(phase)
           E == [ev : 1..Len(input), phase : {"none", phase}]
<1>1. Len(buffer) \in Nat /\ \A b \in 1..Len(buffer) : buffer[b] \in 1..Len(input)
  BY LenProperties, ElementOfSeq DEF QueueTypes
<1>2. \A b \in 1..Len(buffer) :
         /\ PB!with_message_phase(buffer[b], input[buffer[b]], phase) \in E
         /\ PB!with_message_phase(buffer[b], input[buffer[b]], phase).ev = buffer[b]
  BY <1>1 DEF PB!with_message_phase
<1>3. f \in [1..Len(buffer) -> E] /\ \A b \in 1..Len(buffer) : f[b].ev = buffer[b]
  BY <1>2 DEF PB!flushed
<1> HIDE DEF f, E
<1>4. f \in Seq(E) /\ Len(f) = Len(buffer)
  BY <1>1, <1>3, FunctionIsSeq
<1> QED
  BY <1>3, <1>4 DEF f, E

LEMMA PlacesOf ==
    ASSUME NEW n, NEW P, NEW more \in Seq([ev : 1..n, phase : P]), NEW p \in Seq(1..n),
           Len(more) = Len(p), \A k \in 1..Len(p) : more[k].ev = p[k]
    PROVE  [k \in 1..Len(more) |-> more[k].ev] = p
<1> DEFINE q == [k \in 1..Len(more) |-> more[k].ev]
<1>1. Len(p) \in Nat /\ \A k \in 1..Len(p) : p[k] \in 1..n
  BY LenProperties, ElementOfSeq
<1>2. q \in [1..Len(p) -> 1..n] /\ \A k \in 1..Len(p) : q[k] = p[k]
  BY <1>1
<1> HIDE DEF q
<1>3. q \in Seq(1..n) /\ Len(q) = Len(p)
  BY <1>1, <1>2, FunctionIsSeq
<1> QED
  BY <1>2, <1>3, SeqEqual DEF q

\* What process(e) adds to output, and where it leaves the delayed events.
Places(more) == [k \in 1..Len(more) |-> more[k].ev]
Forms(e, more) ==
    \/ /\ Places(more) = Append(buffer, Len(input) + 1)
       /\ buffer' = <<>>
    \/ /\ Places(more) = <<Len(input) + 1>>
       /\ buffer' = buffer
       /\ buffer # <<>> => e \in ItemEvents \cup {CreatedEvent} /\ e.item # Message
    \/ /\ more = <<>>
       /\ buffer' = Append(buffer, Len(input) + 1)
       /\ e \in ItemEvents /\ e.item = Message /\ ~commentary /\ ~terminal_seen /\ ~passthrough
       /\ Message \in message_item_ids'
       /\ UNCHANGED <<commentary, terminal_seen, passthrough>>

\* A path of process that empties the buffer before the event.
LEMMA ReleasedForm ==
    ASSUME QueueTypes, NEW e \in Events, NEW phase \in PB!Phases, NEW P,
           {"none", phase} \subseteq P,
           NEW entry \in [ev : {Len(input) + 1}, phase : P],
           PB!ReleaseBefore(phase, entry)
    PROVE  \E more \in Seq([ev : 1..(Len(input) + 1), phase : P]) :
              output' = output \o more /\ Forms(e, more)
<1> DEFINE n == Len(input) + 1
           E == [ev : 1..n, phase : P]
           f == PB!flushed(phase)
           more == Append(f, entry)
<1>1. /\ Len(input) \in Nat /\ Len(buffer) \in Nat /\ n \in 1..n /\ 1..Len(input) \subseteq 1..n
      /\ buffer \in Seq(1..Len(input)) /\ output \in Seq(Entries(Len(input)))
  BY LenProperties DEF QueueTypes
<1>2. /\ f \in Seq([ev : 1..Len(input), phase : {"none", phase}]) /\ Len(f) = Len(buffer)
      /\ \A b \in 1..Len(buffer) : f[b].ev = buffer[b]
  BY FlushedEntries
<1>3. entry \in E /\ entry.ev = n
  BY <1>1
<1>4. f \in Seq(E)
  <2>1. [ev : 1..Len(input), phase : {"none", phase}] \subseteq E
    BY <1>1
  <2> HIDE DEF f, E
  <2> QED
    BY <1>2, <2>1, SeqMonotonic
<1>5. output' = Append(output \o f, entry) /\ buffer' = <<>>
  BY DEF PB!ReleaseBefore
<1> HIDE DEF f, E, n
<1>6. /\ more \in Seq(E) /\ Len(more) = Len(f) + 1 /\ more[Len(f) + 1] = entry
      /\ \A k \in 1..Len(f) : more[k] = f[k]
  BY <1>3, <1>4, AppendProperties
<1>7. output' = output \o more
  <2> DEFINE X == Entries(Len(input)) \cup E
  <2>1. output \in Seq(X) /\ f \in Seq(X) /\ entry \in X
    <3>1. Entries(Len(input)) \subseteq X /\ E \subseteq X
      OBVIOUS
    <3> HIDE DEF X
    <3> QED
      BY <1>1, <1>3, <1>4, <3>1, SeqMonotonic
  <2> HIDE DEF X
  <2>2. <<entry>> \in Seq(X)
    BY <2>1
  <2>3. output \o f \in Seq(X)
    BY <2>1, ConcatProperties
  <2>4. Append(output \o f, entry) = (output \o f) \o <<entry>> /\ more = f \o <<entry>>
    BY <2>1, <2>3, AppendIsConcat
  <2>5. (output \o f) \o <<entry>> = output \o (f \o <<entry>>)
    BY <2>1, <2>2, ConcatAssociative
  <2> QED
    BY <1>5, <2>4, <2>5
<1> HIDE DEF more
<1>8. Places(more) = Append(buffer, n)
  <2> DEFINE p == Append(buffer, n)
  <2>1. buffer \in Seq(1..n)
    BY <1>1, SeqMonotonic
  <2>2. /\ p \in Seq(1..n) /\ Len(p) = Len(buffer) + 1 /\ p[Len(buffer) + 1] = n
        /\ \A k \in 1..Len(buffer) : p[k] = buffer[k]
    BY <1>1, <2>1, AppendProperties
  <2> HIDE DEF p
  <2>3. Len(more) = Len(p)
    BY <1>2, <1>6, <2>2
  <2>4. ASSUME NEW k \in 1..Len(p)
        PROVE  more[k].ev = p[k]
    <3>1. CASE k \in 1..Len(buffer)
      BY <1>2, <1>6, <2>2, <3>1
    <3>2. CASE k = Len(buffer) + 1
      BY <1>2, <1>3, <1>6, <2>2, <3>2
    <3> QED
      BY <1>1, <2>2, <3>1, <3>2
  <2>5. Places(more) = p
    BY <1>6, <2>2, <2>3, <2>4, PlacesOf DEF Places, E
  <2> QED
    BY <2>5 DEF p
<1> QED
  BY <1>5, <1>6, <1>7, <1>8 DEF Forms, n, E

\* A path of process that returns the event and leaves the buffer alone.
LEMMA ReturnedForm ==
    ASSUME QueueTypes, NEW e \in Events, NEW P,
           NEW entry \in [ev : {Len(input) + 1}, phase : P],
           PB!Return(entry),
           buffer # <<>> => e \in ItemEvents \cup {CreatedEvent} /\ e.item # Message
    PROVE  \E more \in Seq([ev : 1..(Len(input) + 1), phase : P]) :
              output' = output \o more /\ Forms(e, more)
<1> DEFINE n == Len(input) + 1
           E == [ev : 1..n, phase : P]
<1>1. Len(input) \in Nat /\ n \in 1..n /\ 1..Len(input) \subseteq 1..n
      /\ output \in Seq(Entries(Len(input)))
  BY LenProperties DEF QueueTypes
<1>2. entry \in E /\ entry.ev = n
  BY <1>1
<1>3. output' = Append(output, entry) /\ buffer' = buffer
  BY DEF PB!Return
<1> HIDE DEF E, n
<1>4. <<entry>> \in Seq(E) /\ <<n>> \in Seq(1..n) /\ Len(<<entry>>) = 1 /\ Len(<<n>>) = 1
      /\ <<entry>>[1] = entry /\ <<n>>[1] = n /\ \A k \in 1..1 : k = 1
  BY <1>1, <1>2
<1>5. Places(<<entry>>) = <<n>>
  BY <1>2, <1>4, PlacesOf DEF Places, E
<1>6. output' = output \o <<entry>>
  <2> DEFINE X == Entries(Len(input)) \cup E
  <2>1. output \in Seq(X) /\ entry \in X
    <3>1. Entries(Len(input)) \subseteq X /\ E \subseteq X
      OBVIOUS
    <3> HIDE DEF X
    <3> QED
      BY <1>1, <1>2, <3>1, SeqMonotonic
  <2> HIDE DEF X
  <2> QED
    BY <1>3, <2>1, AppendIsConcat
<1> QED
  BY <1>3, <1>4, <1>5, <1>6 DEF Forms, n, E

\* The branches of process() in one of the three forms.
LEMMA ProcessForms ==
    ASSUME QueueTypes, BufferInv, FlagTypes, NEW e \in Events, PB!process(e)
    PROVE  /\ input' = Append(input, e) /\ ~eof /\ eof' = eof
           /\ FlagTypes'
           /\ commentary => commentary'
           /\ commentary' => commentary \/ e.kind \in PB!ToolKinds
           /\ message_item_ids' \subseteq {Message}
           /\ message_item_ids \subseteq message_item_ids'
           /\ buffer' = buffer => /\ terminal_seen' = terminal_seen \/ buffer = <<>>
                                  /\ passthrough' = passthrough \/ buffer = <<>>
                                  /\ commentary' = commentary \/ buffer = <<>>
           /\ \E more \in Seq([ev : 1..(Len(input) + 1), phase : PhasesAt(e)]) :
                 output' = output \o more /\ Forms(e, more)
<1> DEFINE n == Len(input) + 1
<1>1. "none" \in PhasesAt(e) /\ (commentary' => "commentary" \in PhasesAt(e))
      /\ (e.kind = "completed" => "final_answer" \in PhasesAt(e))
  BY DEF PhasesAt
<1>2. {"none", "commentary", "final_answer"} = PB!Phases
  BY DEF PB!Phases
<1>3. \A phase \in PhasesAt(e) :
         PB!with_message_phase(n, e, phase) \in [ev : {n}, phase : PhasesAt(e)]
  BY <1>1 DEF PB!with_message_phase
<1>4. PB!Position = n
  BY DEF PB!Position
<1> HIDE DEF n
<1>5. PB!annotate_if_needed(n, e) \in [ev : {n}, phase : PhasesAt(e)]
  BY <1>1, <1>3 DEF PB!annotate_if_needed
<1>6. /\ buffer # <<>> => Message \in message_item_ids /\ ~commentary /\ ~terminal_seen /\ ~passthrough
      /\ message_item_ids \subseteq {Message}
  BY DEF BufferInv
<1>7. PB!Receive(e) => input' = Append(input, e) /\ ~eof /\ eof' = eof
  BY DEF PB!Receive
<1>8. CASE PB!PassThrough(e)
  <2>1. /\ PB!Receive(e) /\ UNCHANGED <<commentary, terminal_seen, passthrough>> /\ passthrough
        /\ PB!Return([ev |-> n, phase |-> "none"])
    BY <1>4, <1>8 DEF PB!PassThrough, PB!flags
  <2>2. message_item_ids' = message_item_ids /\ buffer = <<>> /\ buffer' = buffer
    BY <1>6, <2>1 DEF PB!Return
  <2>3. [ev |-> n, phase |-> "none"] \in [ev : {n}, phase : PhasesAt(e)]
    BY <1>1
  <2>4. \E more \in Seq([ev : 1..(Len(input) + 1), phase : PhasesAt(e)]) :
           output' = output \o more /\ Forms(e, more)
    BY <2>1, <2>2, <2>3, ReturnedForm DEF n
  <2> QED
    BY <1>6, <1>7, <2>1, <2>2, <2>4 DEF FlagTypes
<1>9. CASE PB!AfterTerminal(e)
  <2>1. /\ PB!Receive(e) /\ UNCHANGED <<commentary, terminal_seen, passthrough>> /\ terminal_seen
        /\ PB!Return(PB!annotate_if_needed(n, e))
    BY <1>4, <1>9 DEF PB!AfterTerminal, PB!flags
  <2>2. message_item_ids' = message_item_ids /\ buffer = <<>> /\ buffer' = buffer
    BY <1>6, <2>1 DEF PB!Return
  <2>4. \E more \in Seq([ev : 1..(Len(input) + 1), phase : PhasesAt(e)]) :
           output' = output \o more /\ Forms(e, more)
    BY <1>5, <2>1, <2>2, ReturnedForm DEF n
  <2> QED
    BY <1>6, <1>7, <2>1, <2>2, <2>4 DEF FlagTypes
<1>10. CASE PB!ToolSignal(e)
  <2>1. /\ PB!Receive(e) /\ commentary' = TRUE /\ terminal_seen' = (e.kind \in PB!TerminalKinds)
        /\ passthrough' = passthrough /\ e.kind \in PB!ToolKinds
        /\ PB!ReleaseBefore("commentary", PB!annotate_if_needed(n, e))
    BY <1>4, <1>10 DEF PB!ToolSignal, PB!has_tool_signal
  <2>2. message_item_ids' = message_item_ids /\ buffer' = <<>>
    BY <2>1 DEF PB!ReleaseBefore
  <2>3. "commentary" \in PB!Phases /\ {"none", "commentary"} \subseteq PhasesAt(e)
    BY <1>1, <1>2, <2>1
  <2>4. \E more \in Seq([ev : 1..(Len(input) + 1), phase : PhasesAt(e)]) :
           output' = output \o more /\ Forms(e, more)
    BY <1>5, <2>1, <2>3, ReleasedForm DEF n
  <2>5. terminal_seen' \in BOOLEAN /\ commentary' \in BOOLEAN /\ passthrough' \in BOOLEAN
    BY <2>1 DEF FlagTypes
  <2>6. e.kind \in PB!ToolKinds
    BY <2>1
  <2> QED
    BY <1>6, <1>7, <2>1, <2>2, <2>4, <2>5, <2>6 DEF FlagTypes
<1>11. CASE PB!Terminal(e)
  <2> DEFINE phase == IF commentary THEN "commentary" ELSE PB!final_buffer_phase_for_terminal(e)
  <2>1. /\ PB!Receive(e) /\ commentary' = commentary /\ terminal_seen' = TRUE
        /\ passthrough' = passthrough
        /\ PB!ReleaseBefore(phase, PB!with_message_phase(n, e, phase))
    BY <1>4, <1>11 DEF PB!Terminal
  <2>2. message_item_ids' = message_item_ids /\ buffer' = <<>>
    BY <2>1 DEF PB!ReleaseBefore
  <2>3. phase \in PB!Phases /\ {"none", phase} \subseteq PhasesAt(e)
    BY <1>1, <1>2, <2>1 DEF PB!final_buffer_phase_for_terminal
  <2> HIDE DEF phase
  <2>4. PB!with_message_phase(n, e, phase) \in [ev : {n}, phase : PhasesAt(e)]
    BY <1>3, <2>3
  <2>5. \E more \in Seq([ev : 1..(Len(input) + 1), phase : PhasesAt(e)]) :
           output' = output \o more /\ Forms(e, more)
    BY <2>1, <2>3, <2>4, ReleasedForm DEF n
  <2> QED
    BY <1>6, <1>7, <2>1, <2>2, <2>5 DEF FlagTypes
<1>12. CASE PB!Overflow(e)
  <2>1. /\ PB!Receive(e) /\ passthrough' = TRUE /\ UNCHANGED <<commentary, terminal_seen>>
        /\ PB!ReleaseBefore("none", [ev |-> n, phase |-> "none"])
    BY <1>4, <1>12 DEF PB!Overflow
  <2>2. message_item_ids' = message_item_ids /\ buffer' = <<>>
    BY <2>1 DEF PB!ReleaseBefore
  <2>3. "none" \in PB!Phases /\ {"none", "none"} \subseteq PhasesAt(e)
        /\ [ev |-> n, phase |-> "none"] \in [ev : {n}, phase : PhasesAt(e)]
    BY <1>1, <1>2
  <2>4. \E more \in Seq([ev : 1..(Len(input) + 1), phase : PhasesAt(e)]) :
           output' = output \o more /\ Forms(e, more)
    BY <2>1, <2>3, ReleasedForm DEF n
  <2> QED
    BY <1>6, <1>7, <2>1, <2>2, <2>4 DEF FlagTypes
<1>13. CASE PB!Delay(e)
  <2>1. /\ PB!Receive(e) /\ UNCHANGED <<commentary, terminal_seen, passthrough, output>>
        /\ buffer' = Append(buffer, n)
        /\ ~passthrough /\ ~terminal_seen /\ ~commentary
        /\ e.kind = "message_item" \/ (e.kind = "message_part" /\ (e.id = NoId \/ e.id \in message_item_ids))
        /\ message_item_ids' = IF e.kind = "message_item" /\ e.id # NoId
                               THEN message_item_ids \cup {e.id} ELSE message_item_ids
    BY <1>4, <1>13 DEF PB!Delay, PB!Undecided, PB!should_buffer, PB!flags
  <2>2. e \in ItemEvents /\ e.item = Message /\ e.id = Message /\ Message # NoId
    BY <2>1, KindFacts, Names DEF PB!MessageKinds
  <2>3. Message \in message_item_ids' /\ message_item_ids' \subseteq {Message}
        /\ message_item_ids \subseteq message_item_ids'
    BY <1>6, <2>1, <2>2
  <2>4. <<>> \in Seq([ev : 1..(Len(input) + 1), phase : PhasesAt(e)]) /\ output = output \o <<>>
    BY ConcatEmptySeq, EmptySeq DEF QueueTypes
  <2>5. Forms(e, <<>>)
    BY <2>1, <2>2, <2>3 DEF Forms, n
  <2> QED
    BY <1>7, <2>1, <2>3, <2>4, <2>5 DEF FlagTypes
<1>14. CASE PB!NotDelayed(e)
  <2>1. /\ PB!Receive(e) /\ UNCHANGED <<commentary, terminal_seen, passthrough>>
        /\ PB!Return(PB!annotate_if_needed(n, e))
        /\ e.kind \notin PB!ToolKinds \cup PB!TerminalKinds
        /\ ~PB!should_buffer(e)
    BY <1>4, <1>14 DEF PB!NotDelayed, PB!Undecided, PB!flags
  <2>2. message_item_ids' = message_item_ids /\ buffer' = buffer
    BY <2>1 DEF PB!Return
  <2>3. ASSUME buffer # <<>>
        PROVE  e \in ItemEvents \cup {CreatedEvent} /\ e.item # Message
    <3>1. e.kind \notin PB!MessageKinds
      <4>1. ~commentary /\ Message \in message_item_ids
        BY <1>6, <2>3
      <4>2. e.kind \in PB!MessageKinds => e.id = Message
        BY KindFacts
      <4> QED
        BY <2>1, <4>1, <4>2 DEF PB!should_buffer, PB!MessageKinds
    <3> QED
      BY <2>1, <3>1, KindFacts
  <2>4. \E more \in Seq([ev : 1..(Len(input) + 1), phase : PhasesAt(e)]) :
           output' = output \o more /\ Forms(e, more)
    BY <1>5, <2>1, <2>3, ReturnedForm DEF n
  <2> QED
    BY <1>6, <1>7, <2>1, <2>2, <2>4 DEF FlagTypes
<1> QED
  BY <1>8, <1>9, <1>10, <1>11, <1>12, <1>13, <1>14 DEF PB!process

\* Feeding an event leads the client to where it was going.
LEMMA FeedQueue ==
    ASSUME QueueTypes, BufferInv, FlagTypes, Feed, NEW d, Leads(Steps, client, Queue, d)
    PROVE  QueueTypes' /\ BufferInv' /\ FlagTypes' /\ Leads(Steps, client', Queue', d)
<1> DEFINE e == Head(events)
           n == Len(input) + 1
<1>1. /\ events # <<>> /\ yielded = Len(output) /\ PB!process(e) /\ events' = Tail(events)
      /\ client' = client /\ yielded' = yielded
  BY DEF Feed
<1>2. e \in Events /\ Tail(events) \in Seq(Events)
  BY <1>1, HeadTailProperties DEF QueueTypes
<1> HIDE DEF e
<1>3. /\ input' = Append(input, e) /\ FlagTypes'
      /\ message_item_ids' \subseteq {Message} /\ message_item_ids \subseteq message_item_ids'
      /\ buffer' = buffer => /\ terminal_seen' = terminal_seen \/ buffer = <<>>
                             /\ passthrough' = passthrough \/ buffer = <<>>
                             /\ commentary' = commentary \/ buffer = <<>>
  BY <1>1, <1>2, ProcessForms
<1>4. PICK more \in Seq([ev : 1..n, phase : PhasesAt(e)]) :
         output' = output \o more /\ Forms(e, more)
  BY <1>1, <1>2, ProcessForms
<1>5. /\ Len(input) \in Nat /\ n \in 1..n /\ 1..Len(input) \subseteq 1..n
      /\ input' \in Seq(Events) /\ Len(input') = n
      /\ \A k \in 1..Len(input) : input'[k] = input[k]
      /\ input'[n] = e
  <2>1. input \in Seq(Events) /\ Len(input) \in Nat
    BY LenProperties DEF QueueTypes
  <2> QED
    BY <1>2, <1>3, <2>1, AppendProperties
<1> HIDE DEF n
<1>6. /\ output \in Seq(Entries(n)) /\ more \in Seq(Entries(n)) /\ buffer \in Seq(1..n)
      /\ Len(buffer) \in Nat /\ \A b \in 1..Len(buffer) : buffer[b] \in 1..Len(input)
  <2>1. Entries(Len(input)) \subseteq Entries(n) /\ [ev : 1..n, phase : PhasesAt(e)] \subseteq Entries(n)
    BY <1>5 DEF Entries, PhasesAt, PB!Phases
  <2>2. output \in Seq(Entries(Len(input))) /\ buffer \in Seq(1..Len(input))
    BY DEF QueueTypes
  <2>3. output \in Seq(Entries(n)) /\ more \in Seq(Entries(n)) /\ buffer \in Seq(1..n)
    <3>1. output \in Seq(Entries(n))
      BY <2>1, <2>2, SeqMonotonic
    <3>2. more \in Seq(Entries(n))
      BY <2>1, SeqMonotonic
    <3>3. buffer \in Seq(1..n)
      BY <1>5, <2>2, SeqMonotonic
    <3> QED
      BY <3>1, <3>2, <3>3
  <2> QED
    BY <2>2, <2>3, LenProperties, ElementOfSeq
<1>7. /\ output' \in Seq(Entries(n)) /\ yielded' \in 0..Len(output')
      /\ Due(output', yielded') = Places(more)
  BY <1>1, <1>4, <1>6, DueMore DEF Places
<1>8. Append(buffer, n) \in Seq(1..n) /\ Len(Append(buffer, n)) = Len(buffer) + 1
      /\ Append(buffer, n)[Len(buffer) + 1] = n
      /\ \A b \in 1..Len(buffer) : Append(buffer, n)[b] = buffer[b]
  BY <1>5, <1>6, AppendProperties
<1>9. buffer' \in Seq(1..n)
  <2>1. buffer' = <<>> \/ buffer' = buffer \/ buffer' = Append(buffer, n)
    BY <1>4 DEF Forms, n
  <2>2. <<>> \in Seq(1..n)
    BY EmptySeq
  <2> QED
    BY <1>6, <1>8, <2>1, <2>2
<1>10. QueueTypes'
  BY <1>1, <1>2, <1>5, <1>7, <1>9 DEF QueueTypes
<1>11. \A b \in 1..Len(buffer) : input'[buffer[b]] \in ItemEvents /\ input'[buffer[b]].item = Message
  BY <1>5, <1>6 DEF BufferInv
<1>12. BufferInv'
  <2>1. CASE buffer' = <<>>
    BY <1>3, <2>1 DEF BufferInv
  <2>2. CASE buffer' = buffer /\ buffer # <<>>
    <3>1. Message \in message_item_ids /\ ~commentary /\ ~terminal_seen /\ ~passthrough
      BY <2>2 DEF BufferInv
    <3>2. Message \in message_item_ids' /\ ~commentary' /\ ~terminal_seen' /\ ~passthrough'
      BY <1>3, <2>2, <3>1
    <3>3. \A b \in 1..Len(buffer') : input'[buffer'[b]] \in ItemEvents /\ input'[buffer'[b]].item = Message
      BY <1>11, <2>2
    <3> QED
      BY <1>3, <3>2, <3>3 DEF BufferInv
  <2>3. CASE /\ buffer' = Append(buffer, n)
             /\ e \in ItemEvents /\ e.item = Message /\ ~commentary /\ ~terminal_seen /\ ~passthrough
             /\ Message \in message_item_ids'
             /\ UNCHANGED <<commentary, terminal_seen, passthrough>>
    <3>1. ASSUME NEW b \in 1..Len(buffer')
          PROVE  input'[buffer'[b]] \in ItemEvents /\ input'[buffer'[b]].item = Message
      <4>1. CASE b \in 1..Len(buffer)
        BY <1>8, <1>11, <2>3, <4>1
      <4>2. CASE b = Len(buffer) + 1
        BY <1>5, <1>8, <2>3, <4>2
      <4> QED
        BY <1>6, <1>8, <2>3, <4>1, <4>2
    <3> QED
      BY <1>3, <2>3, <3>1 DEF BufferInv
  <2> QED
    BY <1>4, <2>1, <2>2, <2>3 DEF Forms, n
<1>13. Due(output', yielded') \o buffer' = Append(buffer, n) => Queue' = Queue
  BY <1>1, <1>3, Fed DEF e, n
<1>14. Leads(Steps, client', Queue', d)
  <2>1. CASE Places(more) = Append(buffer, n) /\ buffer' = <<>>
    <3>1. Append(buffer, n) \o <<>> = Append(buffer, n)
      BY <1>8, ConcatEmptySeq
    <3> QED
      BY <1>1, <1>7, <1>13, <2>1, <3>1
  <2>2. CASE more = <<>> /\ buffer' = Append(buffer, n)
    <3>1. Due(output', yielded') = <<>> /\ <<>> \o Append(buffer, n) = Append(buffer, n)
      <4>1. Len(<<>>) = 0 /\ 1..0 = {}
        OBVIOUS
      <4>2. Places(<<>>) = <<>>
        BY <4>1, EmptySeq DEF Places
      <4> QED
        BY <1>7, <1>8, <2>2, <4>2, ConcatEmptySeq
    <3> QED
      BY <1>1, <1>13, <2>2, <3>1
  <2>3. CASE /\ Places(more) = <<n>> /\ buffer' = buffer
             /\ buffer # <<>> => e \in ItemEvents \cup {CreatedEvent} /\ e.item # Message
    <3> DEFINE a == EventsAt(input, buffer)
               r == Tail(events)
    <3>1. /\ Queue = (a \o <<e>>) \o r
          /\ Queue' = (<<e>> \o a) \o r
      BY <1>1, <1>3, <1>7, <2>3, Fed DEF e, n
    <3>2. a \in Seq({m \in ItemEvents : m.item = Message}) /\ (buffer = <<>> => a = <<>>)
      <4> DEFINE M == {m \in ItemEvents : m.item = Message}
      <4>1. \A b \in 1..Len(buffer) : input[buffer[b]] \in M
        BY DEF BufferInv
      <4> HIDE DEF M
      <4>2. a \in [1..Len(buffer) -> M]
        BY <4>1 DEF EventsAt
      <4> HIDE DEF a
      <4>3. a \in Seq(M) /\ Len(a) = Len(buffer)
        BY <1>6, <4>2, FunctionIsSeq
      <4>4. buffer = <<>> => a = <<>>
        BY <4>3, EmptySeq
      <4> QED
        BY <4>3, <4>4 DEF M
    <3> HIDE DEF a, r
    <3>3. CASE a # <<>>
      <4>1. e \in ItemEvents \cup {CreatedEvent} /\ e.item # Message
        BY <2>3, <3>2, <3>3
      <4> QED
        BY <1>1, <1>2, <3>1, <3>2, <4>1, AheadLeads DEF r
    <3>4. CASE a = <<>>
      <4>1. <<e>> \in Seq(Events)
        BY <1>2
      <4>2. a \o <<e>> = <<e>> \o a
        BY <3>4, <4>1, ConcatEmptySeq
      <4> QED
        BY <1>1, <3>1, <4>2
    <3> QED
      BY <3>3, <3>4
  <2> QED
    BY <1>4, <2>1, <2>2, <2>3 DEF Forms, n
<1> QED
  BY <1>3, <1>10, <1>12, <1>14

\* The client makes the first step of the way.
LEMMA YieldQueue ==
    ASSUME QueueTypes, Yield, NEW d, Leads(Steps, client, Queue, d)
    PROVE  /\ QueueTypes'
           /\ Leads(Steps, client', Queue', d)
           /\ \E e : <<client, e, client'>> \in Steps
           /\ yielded' = yielded + 1
<1> DEFINE x == output[yielded + 1].ev
           e == input[x]
           p == Due(output, yielded + 1)
           b == EventsAt(input, p \o buffer)
<1>1. /\ yielded < Len(output) /\ yielded' = yielded + 1 /\ client' = Hear(e)
      /\ UNCHANGED <<events, buffer, input, output>>
  BY DEF Yield, bufferVars
<1>2. /\ Len(output) \in Nat /\ yielded \in 0..Len(output) /\ yielded + 1 \in 0..Len(output)
      /\ yielded + 1 \in 1..Len(output)
      /\ output \in Seq(Entries(Len(input)))
      /\ events \in Seq(Events) /\ input \in Seq(Events) /\ buffer \in Seq(1..Len(input))
  BY <1>1, LenProperties DEF QueueTypes
<1>3. QueueTypes'
  BY <1>1, <1>2 DEF QueueTypes
<1>4. x \in 1..Len(input)
  <2>1. output[yielded + 1] \in Entries(Len(input))
    BY <1>2, ElementOfSeq
  <2> QED
    BY <2>1 DEF Entries
<1>5. e \in Events
  BY <1>2, <1>4, ElementOfSeq
<1>6. Due(output, yielded) = <<x>> \o p /\ p \in Seq(1..Len(input)) /\ <<x>> \in Seq(1..Len(input))
  <2>1. Due(output, yielded) = <<x>> \o p
    BY <1>1, <1>2, DueNext
  <2>2. p \in Seq(1..Len(input))
    BY <1>2, DueType
  <2> QED
    BY <1>4, <2>1, <2>2
<1>7. Queue' = b \o events
  BY <1>1 DEF Queue
<1> HIDE DEF x, p
<1>8. (<<x>> \o p) \o buffer = <<x>> \o (p \o buffer) /\ p \o buffer \in Seq(1..Len(input))
  <2> DEFINE I == 1..Len(input)
             y == <<x>>
  <2>1. y \in Seq(I) /\ p \in Seq(I) /\ buffer \in Seq(I)
    BY <1>2, <1>6
  <2> HIDE DEF I, y
  <2>2. (y \o p) \o buffer = y \o (p \o buffer) /\ p \o buffer \in Seq(I)
    BY <2>1, ConcatThree
  <2> QED
    BY <2>2 DEF I, y
<1>9. EventsAt(input, <<x>> \o (p \o buffer)) = EventsAt(input, <<x>>) \o b /\ b \in Seq(Events)
  BY <1>2, <1>6, <1>8, EventsAtConcat, EventsAtType
<1>10. EventsAt(input, <<x>>) = <<e>>
  <2> DEFINE c == EventsAt(input, <<x>>)
  <2>1. Len(<<x>>) = 1 /\ <<x>>[1] = x /\ 1 \in 1..1
    OBVIOUS
  <2>2. c \in Seq(Events) /\ Len(c) = 1 /\ c[1] = e
    BY <1>2, <1>6, <2>1, EventsAtType
  <2> HIDE DEF c, e
  <2>3. <<e>> \in Seq(Events) /\ Len(<<e>>) = 1 /\ <<e>>[1] = e /\ \A k \in 1..1 : k = 1
    BY <1>5
  <2>4. c = <<e>>
    BY <2>2, <2>3, SeqEqual
  <2> QED
    BY <2>4 DEF c
<1> HIDE DEF e, b
<1>11. Queue = <<e>> \o Queue' /\ <<e>> \in Seq(Events) /\ Queue' \in Seq(Events)
  <2>1. <<e>> \in Seq(Events)
    BY <1>5
  <2>2. (<<e>> \o b) \o events = <<e>> \o (b \o events)
    <3> DEFINE y == <<e>>
    <3>1. y \in Seq(Events) /\ b \in Seq(Events) /\ events \in Seq(Events)
      BY <1>2, <1>9, <2>1
    <3> HIDE DEF y
    <3>2. (y \o b) \o events = y \o (b \o events)
      BY <3>1, ConcatThree
    <3> QED
      BY <3>2 DEF y
  <2>3. Queue = (<<e>> \o b) \o events
    BY <1>6, <1>8, <1>9, <1>10 DEF Queue
  <2>4. b \o events \in Seq(Events)
    BY <1>2, <1>9, ConcatProperties
  <2> QED
    BY <1>7, <2>1, <2>2, <2>3, <2>4
<1>12. PICK t : Leads(Steps, client, <<e>>, t) /\ Leads(Steps, t, Queue', d)
  BY <1>11, LeadsSplit
<1>13. <<client, e, t>> \in Steps
  <2>1. <<e>> # <<>> /\ Head(<<e>>) = e /\ Tail(<<e>>) = <<>>
    OBVIOUS
  <2>2. PICK y : <<client, e, y>> \in Steps /\ Leads(Steps, y, <<>>, t)
    BY <1>11, <1>12, <2>1, LeadsTail
  <2> QED
    BY <2>2, LeadsNowhere
<1>14. client' = t
  BY <1>1, <1>13, HearIsAfter, StepIs
<1> QED
  BY <1>1, <1>3, <1>12, <1>13, <1>14

\* flush() releases what is left.
LEMMA FlushQueue ==
    ASSUME QueueTypes, FlushBuffer, NEW d, Leads(Steps, client, Queue, d)
    PROVE  /\ QueueTypes'
           /\ Leads(Steps, client', Queue', d)
           /\ buffer' = <<>>
<1> DEFINE f == PB!flushed("none")
           n == Len(input)
<1>1. /\ yielded = Len(output) /\ output' = output \o f /\ buffer' = <<>>
      /\ UNCHANGED <<client, yielded, events, input>>
  <2>1. ~(yielded < Len(output)) /\ output' = output \o f /\ buffer' = <<>>
        /\ UNCHANGED <<client, yielded, events, input>>
    BY DEF FlushBuffer, Delivering, PB!flush, PB!flags
  <2>2. Len(output) \in Nat /\ yielded \in 0..Len(output)
    BY LenProperties DEF QueueTypes
  <2> QED
    BY <2>1, <2>2
<1>2. /\ f \in Seq([ev : 1..n, phase : {"none", "none"}]) /\ Len(f) = Len(buffer)
      /\ \A b \in 1..Len(buffer) : f[b].ev = buffer[b]
  <2>1. "none" \in PB!Phases
    BY DEF PB!Phases
  <2> QED
    BY <2>1, FlushedEntries
<1> HIDE DEF f
<1>3. /\ f \in Seq(Entries(n)) /\ output \in Seq(Entries(n)) /\ buffer \in Seq(1..n)
  <2>1. [ev : 1..n, phase : {"none", "none"}] \subseteq Entries(n)
    BY DEF Entries, PB!Phases
  <2> QED
    BY <1>2, <2>1, SeqMonotonic DEF QueueTypes
<1>4. /\ output' \in Seq(Entries(n)) /\ yielded' \in 0..Len(output')
      /\ Due(output', yielded') = Places(f)
  BY <1>1, <1>3, DueMore DEF Places
<1>5. Places(f) = buffer
  <2>1. f \in Seq([ev : 1..n, phase : PB!Phases]) /\ Len(f) = Len(buffer)
        /\ \A b \in 1..Len(buffer) : f[b].ev = buffer[b]
    BY <1>2, <1>3 DEF Entries
  <2> HIDE DEF n
  <2> QED
    BY <1>3, <2>1, PlacesOf DEF Places
<1>6. QueueTypes'
  <2>1. <<>> \in Seq(1..n)
    BY EmptySeq
  <2> QED
    BY <1>1, <1>4, <2>1 DEF QueueTypes
<1>7. Queue' = EventsAt(input, buffer) \o events
  <2>1. buffer \o <<>> = buffer
    BY <1>3, ConcatEmptySeq
  <2> QED
    BY <1>1, <1>4, <1>5, <2>1 DEF Queue
<1>8. Queue = EventsAt(input, buffer) \o events
  BY <1>1, QueueType
<1> QED
  BY <1>1, <1>6, <1>7, <1>8

-----------------------------------------------------------------------------
(* Sequences of sequences.                                                  *)

Partial(f, seqs, n) == f = [i \in 1..n |-> IF i = 1 THEN seqs[i] ELSE f[i - 1] \o seqs[i]]

\* FlattenSeq is a fold; these are its partial results.
LEMMA PartialExists == ASSUME NEW seqs, NEW n \in Nat PROVE \E f : Partial(f, seqs, n)
<1> DEFINE Good == {k \in 0..n : \E f : Partial(f, seqs, k)}
<1>1. 0 \in Good
  <2> DEFINE f == [i \in 1..0 |-> <<>>]
  <2>1. 1..0 = {}
    OBVIOUS
  <2>2. f = [i \in 1..0 |-> IF i = 1 THEN seqs[i] ELSE f[i - 1] \o seqs[i]]
    BY <2>1
  <2> HIDE DEF f
  <2>3. Partial(f, seqs, 0)
    BY <2>2 DEF Partial
  <2> QED
    BY <2>3
<1>2. ASSUME NEW k \in 1..n, k - 1 \in Good
      PROVE  k \in Good
  <2>1. PICK f : Partial(f, seqs, k - 1)
    BY <1>2
  <2> DEFINE g == [i \in 1..k |-> IF i = k THEN (IF k = 1 THEN seqs[k] ELSE f[k - 1] \o seqs[k])
                                  ELSE f[i]]
  <2>2. ASSUME NEW i \in 1..k
        PROVE  g[i] = IF i = 1 THEN seqs[i] ELSE g[i - 1] \o seqs[i]
    <3>1. CASE i = k
      <4>1. CASE k = 1
        BY <3>1, <4>1
      <4>2. CASE k # 1
        <5>1. k - 1 \in 1..k /\ k - 1 # k
          BY <4>2
        <5>2. g[k - 1] = f[k - 1]
          BY <5>1
        <5>3. g[k] = f[k - 1] \o seqs[k]
          <6>1. k \in 1..k
            OBVIOUS
          <6>2. g[k] = IF k = 1 THEN seqs[k] ELSE f[k - 1] \o seqs[k]
            BY <6>1
          <6> HIDE DEF g
          <6> QED
            BY <4>2, <6>2
        <5> QED
          BY <3>1, <4>2, <5>2, <5>3
      <4> QED
        BY <4>1, <4>2
    <3>2. CASE i # k
      <4>1. i \in 1..k - 1 /\ (i # 1 => i - 1 \in 1..k /\ i - 1 # k)
        BY <3>2
      <4> HIDE DEF g
      <4>2. f[i] = IF i = 1 THEN seqs[i] ELSE f[i - 1] \o seqs[i]
        BY <2>1, <4>1 DEF Partial
      <4>3. g[i] = f[i] /\ (i # 1 => g[i - 1] = f[i - 1])
        BY <3>2, <4>1 DEF g
      <4> QED
        BY <4>2, <4>3
    <3> QED
      BY <3>1, <3>2
  <2>3. DOMAIN g = 1..k /\ g = [i \in 1..k |-> g[i]]
    OBVIOUS
  <2> HIDE DEF g
  <2>4. g = [i \in 1..k |-> IF i = 1 THEN seqs[i] ELSE g[i - 1] \o seqs[i]]
    BY <2>2, <2>3
  <2>5. Partial(g, seqs, k)
    BY <2>4 DEF Partial
  <2>6. k \in 0..n
    OBVIOUS
  <2> QED
    BY <2>5, <2>6
<1>3. n \in 0..n
  OBVIOUS
<1> HIDE DEF Good
<1>4. n \in Good
  BY <1>1, <1>2, <1>3, PrefixInduction
<1> QED
  BY <1>4 DEF Good

LEMMA FlattenIs ==
    ASSUME NEW seqs, NEW n \in Nat \ {0}, Len(seqs) = n
    PROVE  \E f : /\ FlattenSeq(seqs) = f[n] /\ f[1] = seqs[1]
                  /\ \A i \in 2..n : f[i] = f[i - 1] \o seqs[i]
<1> DEFINE f == CHOOSE g : Partial(g, seqs, n)
<1>1. Partial(f, seqs, n)
  BY PartialExists
<1>2. FlattenSeq(seqs) = f[n]
  BY DEF FlattenSeq, Partial
<1> HIDE DEF f
<1>3. f = [i \in 1..n |-> IF i = 1 THEN seqs[i] ELSE f[i - 1] \o seqs[i]]
  BY <1>1 DEF Partial
<1>4. \A i \in 1..n : f[i] = IF i = 1 THEN seqs[i] ELSE f[i - 1] \o seqs[i]
  BY <1>3
<1>5. 1 \in 1..n /\ \A i \in 2..n : i \in 1..n /\ i # 1
  OBVIOUS
<1> QED
  BY <1>2, <1>4, <1>5

\* A queue made of queues leads where they lead one after the other.
LEMMA FlattenLeads ==
    ASSUME NEW X, NEW seqs \in Seq(Seq(X)), NEW T, NEW h,
           \A k \in 1..Len(seqs) : Leads(T, h[k - 1], seqs[k], h[k])
    PROVE  FlattenSeq(seqs) \in Seq(X) /\ Leads(T, h[0], FlattenSeq(seqs), h[Len(seqs)])
<1> DEFINE n == Len(seqs)
<1>1. n \in Nat /\ \A k \in 1..n : seqs[k] \in Seq(X)
  BY LenProperties, ElementOfSeq
<1>2. CASE n = 0
  <2>1. FlattenSeq(seqs) = seqs /\ seqs = <<>>
    BY <1>2, EmptySeq DEF FlattenSeq
  <2> QED
    BY <1>2, <2>1, LeadsEmpty, EmptySeq
<1>3. CASE n # 0
  <2>1. n \in Nat \ {0}
    BY <1>1, <1>3
  <2> HIDE DEF n
  <2>2. PICK f : /\ FlattenSeq(seqs) = f[n] /\ f[1] = seqs[1]
                 /\ \A i \in 2..n : f[i] = f[i - 1] \o seqs[i]
    BY <2>1, FlattenIs DEF n
  <2> DEFINE Good == {k \in 0..n : k # 0 => f[k] \in Seq(X) /\ Leads(T, h[0], f[k], h[k])}
  <2>3. 0 \in Good
    BY <2>1
  <2>4. ASSUME NEW k \in 1..n, k - 1 \in Good
        PROVE  k \in Good
    <3>1. Leads(T, h[k - 1], seqs[k], h[k]) /\ seqs[k] \in Seq(X) /\ k \in 0..n
      BY <1>1 DEF n
    <3>2. CASE k = 1
      <4>1. k - 1 = 0
        BY <3>2
      <4> QED
        BY <2>2, <3>1, <3>2, <4>1
    <3>3. CASE k # 1
      <4> DEFINE j == k - 1
      <4>1. j # 0 /\ k \in 2..n /\ j \in Good
        BY <2>4, <3>3
      <4>2. f[j] \in Seq(X) /\ Leads(T, h[0], f[j], h[j])
        BY <4>1
      <4>3. f[k] = f[j] \o seqs[k] /\ Leads(T, h[j], seqs[k], h[k])
        BY <2>2, <3>1, <4>1
      <4> DEFINE p == f[j]
                 q == seqs[k]
                 s == h[0]
                 t == h[j]
                 u == h[k]
      <4>4. p \in Seq(X) /\ q \in Seq(X) /\ Leads(T, s, p, t) /\ Leads(T, t, q, u) /\ f[k] = p \o q
        BY <3>1, <4>2, <4>3
      <4> HIDE DEF p, q, s, t, u
      <4>5. p \o q \in Seq(X) /\ Leads(T, s, p \o q, u)
        BY <4>4, ConcatProperties, LeadsConcat
      <4> QED
        BY <3>1, <4>4, <4>5 DEF s, u
    <3> QED
      BY <3>2, <3>3
  <2>5. n \in 0..n
    BY <2>1
  <2> HIDE DEF Good
  <2>6. n \in Good
    BY <2>1, <2>3, <2>4, <2>5, PrefixInduction
  <2> QED
    BY <2>1, <2>2, <2>6 DEF Good, n
<1> QED
  BY <1>2, <1>3

-----------------------------------------------------------------------------
(* The turn as ir events tell it, and what each of them does to it.          *)

IRTypes == {"stream_start", "text_delta", "reasoning_delta", "tool_call_start",
            "tool_call_delta", "finish", "usage", "stream_end"}
CallTypes == {"tool_call_start", "tool_call_delta"}
Clean == Seq(1..MaxChunks)

\* Arguments the gateway rewrote have the fragment 0 at their head.
Rewritten(data) == data # <<>> /\ Head(data) = 0

\* `stored` are the calls whose mapping is in the store.
IREvents(stored) ==
    {e \in [type : IRTypes, tool : Tools \cup {NoId}, data : Fragments] :
        /\ e.tool \in Tools <=> e.type \in CallTypes
        /\ e.type \in {"text_delta", "tool_call_delta", "usage"} => e.data # <<>>
        /\ Sources(e.data) \in Clean
        /\ Rewritten(e.data) =>
              e.type = "tool_call_delta" /\ Localized(e.tool) /\ e.tool \in stored}

TurnRecords ==
    [started : BOOLEAN, fin : BOOLEAN, end : BOOLEAN, items : SUBSET Items,
     content : [Items -> Clean], fresh : SUBSET Tools, usage : SUBSET (1..MaxChunks)]

\* `fresh` are the calls no arguments of which have come.
Sound(s) ==
    /\ s.items # {} \/ s.fin => s.started
    /\ s.end => s.fin
    /\ \A i \in Items \ s.items : s.content[i] = <<>>
    /\ Message \in s.items => s.content[Message] # <<>>
    /\ s.fresh \subseteq s.items
    /\ \A t \in s.fresh : s.content[t] = <<>>
    /\ s.fin => s.fresh = {}
    /\ Quirks = {} /\ ~s.fin => s.usage = {}
TurnStates == {s \in TurnRecords : Sound(s)}

TurnLegal(s, e) ==
    CASE e.type = "stream_start" -> ~s.started
      [] e.type \in {"text_delta", "reasoning_delta"} -> s.started /\ ~s.fin
      [] e.type = "tool_call_start" -> s.started /\ ~s.fin /\ e.tool \notin s.items
      [] e.type = "tool_call_delta" ->
           ~s.fin /\ e.tool \in s.items /\ (Rewritten(e.data) => e.tool \in s.fresh)
      [] e.type = "finish" -> s.started /\ ~s.fin
      [] e.type = "usage" -> Quirks = {} => s.fin
      [] e.type = "stream_end" -> s.fin /\ ~s.end

\* The item an event brings a piece of.
Target(e) ==
    CASE e.type = "text_delta" -> Message
      [] e.type = "reasoning_delta" -> Reasoning
      [] OTHER -> e.tool

TurnAfter(s, e) ==
    CASE e.type = "stream_start" -> [s EXCEPT !.started = TRUE]
      [] e.type = "tool_call_start" ->
           [s EXCEPT !.items = @ \cup {e.tool}, !.fresh = @ \cup {e.tool}]
      [] e.type = "finish" -> [s EXCEPT !.fin = TRUE, !.fresh = {}]
      [] e.type = "usage" ->
           IF s.end THEN s ELSE [s EXCEPT !.usage = @ \cup ToSet(e.data)]
      [] e.type = "stream_end" -> [s EXCEPT !.end = TRUE]
      [] OTHER -> [s EXCEPT !.items = @ \cup {Target(e)},
                            !.content[Target(e)] = @ \o Sources(e.data),
                            !.fresh = @ \ {Target(e)}]

TurnSteps(stored) ==
    {x \in TurnStates \X IREvents(stored) \X TurnStates :
        TurnLegal(x[1], x[2]) /\ x[3] = TurnAfter(x[1], x[2])}

\* What was not rewritten is its own source.
LEMMA CleanFacts ==
    ASSUME NEW x \in Clean
    PROVE  x \in Fragments /\ ~Rewritten(x) /\ Sources(x) = x
<1>1. 1..MaxChunks \subseteq 0..MaxChunks
  BY LimitsAssumption
<1>2. x \in Fragments
  BY <1>1, SeqMonotonic DEF Clean, Fragments
<1>3. ~Rewritten(x)
  <2> SUFFICES ASSUME x # <<>>
               PROVE  Head(x) # 0
    BY DEF Rewritten
  <2>1. Head(x) \in 1..MaxChunks
    BY HeadTailProperties DEF Clean
  <2> QED
    BY <2>1
<1> QED
  BY <1>2, <1>3 DEF Sources, Rewritten

LEMMA SourcesIs ==
    ASSUME NEW x
    PROVE  /\ Rewritten(x) => Sources(x) = Tail(x)
           /\ ~Rewritten(x) => Sources(x) = x
  BY DEF Sources, Rewritten

LEMMA SourcesType == ASSUME NEW x \in Fragments PROVE Sources(x) \in Fragments
  BY HeadTailProperties DEF Sources, Fragments

\* Arguments that the gateway heads by 0 keep what they are made of.
LEMMA Headed ==
    ASSUME NEW x \in Fragments
    PROVE  <<0>> \o x \in Fragments /\ Rewritten(<<0>> \o x) /\ Sources(<<0>> \o x) = x
<1> DEFINE S == 0..MaxChunks
<1>1. x \in Seq(S) /\ 0 \in S
  BY LimitsAssumption DEF Fragments
<1> HIDE DEF S
<1> DEFINE w == <<0>> \o x
<1>2. w \in Seq(S) /\ w # <<>> /\ Head(w) = 0 /\ Tail(w) = x
  BY <1>1
<1> HIDE DEF w
<1>3. Sources(w) = x /\ Rewritten(w)
  BY <1>2 DEF Sources, Rewritten
<1> QED
  BY <1>2, <1>3 DEF w, S, Fragments

\* Only the head of the arguments tells.
LEMMA SourcesAfter ==
    ASSUME NEW a \in Fragments, NEW b \in Fragments, a # <<>>
    PROVE  Sources(a \o b) = Sources(a) \o b /\ (Rewritten(a \o b) <=> Rewritten(a))
<1> DEFINE h == Head(a)
           r == Tail(a)
           S == 0..MaxChunks
<1>1. a \in Seq(S) /\ b \in Seq(S)
  BY DEF Fragments
<1> HIDE DEF S
<1>2. a = <<h>> \o r /\ h \in S /\ r \in Seq(S) /\ Head(a) = h /\ Tail(a) = r
  BY <1>1, HeadTailProperties
<1> HIDE DEF h, r
<1>3. <<h>> \in Seq(S) /\ r \o b \in Seq(S)
  BY <1>1, <1>2, ConcatProperties
<1>4. a \o b = <<h>> \o (r \o b)
  BY <1>1, <1>2, <1>3, ConcatAssociative
<1> DEFINE c == r \o b
<1> HIDE DEF c
<1>5. c \in Seq(S) => /\ <<h>> \o c # <<>> /\ Head(<<h>> \o c) = h /\ Tail(<<h>> \o c) = c
  BY <1>2
<1>6. a \o b # <<>> /\ Head(a \o b) = h /\ Tail(a \o b) = r \o b
  BY <1>3, <1>4, <1>5 DEF c
<1>7. CASE h = 0
  <2>1. Sources(a \o b) = r \o b /\ Sources(a) = r
    BY <1>2, <1>6, <1>7 DEF Sources
  <2> QED
    BY <1>2, <1>6, <1>7, <2>1 DEF Rewritten
<1>8. CASE h # 0
  <2>1. Sources(a \o b) = a \o b /\ Sources(a) = a
    BY <1>2, <1>6, <1>8 DEF Sources
  <2> QED
    BY <1>2, <1>6, <1>8, <2>1 DEF Rewritten
<1> QED
  BY <1>7, <1>8

\* Fragments come to what was there.
LEMMA SourcesJoin ==
    ASSUME NEW a \in Fragments, NEW b \in Fragments, ~Rewritten(b) \/ a = <<>>
    PROVE  /\ a \o b \in Fragments
           /\ Sources(a \o b) = Sources(a) \o Sources(b)
           /\ Rewritten(a \o b) => Rewritten(a) \/ Rewritten(b)
<1>1. a \o b \in Fragments /\ Sources(b) \in Fragments
  BY FragmentsConcat, SourcesType
<1>2. CASE a = <<>>
  <2>1. a \o b = b /\ Sources(a) = <<>>
    BY <1>2, ConcatEmptySeq DEF Fragments, Sources
  <2>2. <<>> \o Sources(b) = Sources(b)
    BY <1>1, ConcatEmptySeq DEF Fragments
  <2> QED
    BY <1>1, <2>1, <2>2
<1>3. CASE a # <<>>
  <2>1. Sources(b) = b
    BY <1>3, SourcesIs
  <2> QED
    BY <1>1, <1>3, <2>1, SourcesAfter
<1> QED
  BY <1>2, <1>3

LEMMA CleanConcat ==
    ASSUME NEW a \in Clean, NEW b \in Clean
    PROVE  a \o b \in Clean /\ <<>> \in Clean
  BY ConcatProperties, EmptySeq DEF Clean

\* What is a part stays one when the rewritten head is left out.
LEMMA SourcesPrefix ==
    ASSUME NEW a \in Fragments, NEW x \in Fragments
    PROVE  \E y \in Fragments : Sources(a \o x) = Sources(a) \o y
<1>1. CASE a # <<>>
  BY <1>1, SourcesAfter
<1>2. CASE a = <<>>
  BY <1>2, SourcesJoin, SourcesType
<1> QED
  BY <1>1, <1>2

\* What an ir event carries.
LEMMA IREventFacts ==
    ASSUME NEW stored, NEW e \in IREvents(stored)
    PROVE  /\ e.type \in IRTypes /\ e.data \in Fragments /\ Sources(e.data) \in Clean
           /\ e.type \in CallTypes => e.tool \in Tools
           /\ e.type \notin CallTypes => e.tool = NoId
           /\ e.type \in {"text_delta", "tool_call_delta", "usage"} => e.data # <<>>
           /\ Rewritten(e.data) =>
                 e.type = "tool_call_delta" /\ Localized(e.tool) /\ e.tool \in stored
           /\ ~Rewritten(e.data) => e.data \in Clean /\ Sources(e.data) = e.data
           /\ e.type \notin CallTypes => ~Rewritten(e.data)
  BY SourcesIs DEF IREvents, CallTypes

\* A step of the turn, one type of event after the other.
LEMMA StartStep ==
    ASSUME NEW s \in TurnStates, NEW stored, NEW e \in IREvents(stored), TurnLegal(s, e),
           e.type = "stream_start", NEW u, u = TurnAfter(s, e)
    PROVE  /\ u = [s EXCEPT !.started = TRUE] /\ u \in TurnStates
           /\ ~s.started /\ ~s.fin /\ ~s.end /\ s.items = {}
  BY DEF TurnAfter, TurnLegal, TurnStates, TurnRecords, Sound

\* The finish.
LEMMA FinishStep ==
    ASSUME NEW s \in TurnStates, NEW stored, NEW e \in IREvents(stored), TurnLegal(s, e),
           e.type = "finish", NEW u, u = TurnAfter(s, e)
    PROVE  /\ u = [s EXCEPT !.fin = TRUE, !.fresh = {}] /\ u \in TurnStates
           /\ s.started /\ ~s.fin /\ ~s.end
  BY DEF TurnAfter, TurnLegal, TurnStates, TurnRecords, Sound

\* The end of the stream.
LEMMA EndStep ==
    ASSUME NEW s \in TurnStates, NEW stored, NEW e \in IREvents(stored), TurnLegal(s, e),
           e.type = "stream_end", NEW u, u = TurnAfter(s, e)
    PROVE  /\ u = [s EXCEPT !.end = TRUE] /\ u \in TurnStates
           /\ s.started /\ s.fin /\ ~s.end
  BY DEF TurnAfter, TurnLegal, TurnStates, TurnRecords, Sound

\* The usage.
LEMMA UsageStep ==
    ASSUME NEW s \in TurnStates, NEW stored, NEW e \in IREvents(stored), TurnLegal(s, e),
           e.type = "usage", NEW u, u = TurnAfter(s, e)
    PROVE  /\ u = IF s.end THEN s ELSE [s EXCEPT !.usage = @ \cup ToSet(e.data)]
           /\ u \in TurnStates
           /\ ToSet(e.data) \subseteq 1..MaxChunks /\ ToSet(e.data) # {}
           /\ Quirks = {} => s.fin
<1>1. e.data \in Clean /\ e.data # <<>>
  BY IREventFacts DEF CallTypes
<1>2. ToSet(e.data) \subseteq 1..MaxChunks /\ ToSet(e.data) # {}
  <2>1. /\ DOMAIN e.data = 1..Len(e.data) /\ \A k \in 1..Len(e.data) : e.data[k] \in 1..MaxChunks
        /\ Len(e.data) \in Nat \ {0}
    BY <1>1, LenProperties, ElementOfSeq, EmptySeq DEF Clean
  <2>2. 1 \in DOMAIN e.data
    BY <2>1
  <2> QED
    BY <2>1, <2>2 DEF ToSet
<1>3. Quirks = {} => s.fin
  BY DEF TurnLegal
<1>4. u = IF s.end THEN s ELSE [s EXCEPT !.usage = @ \cup ToSet(e.data)]
  BY DEF TurnAfter
<1>5. u \in TurnStates
  <2> DEFINE x == ToSet(e.data)
  <2>1. x \subseteq 1..MaxChunks /\ u = IF s.end THEN s ELSE [s EXCEPT !.usage = @ \cup x]
    BY <1>2, <1>4
  <2> HIDE DEF x
  <2> QED
    BY <1>3, <2>1 DEF TurnStates, TurnRecords, Sound
<1> QED
  BY <1>2, <1>3, <1>4, <1>5

\* A tool call begins.
LEMMA CallStep ==
    ASSUME NEW s \in TurnStates, NEW stored, NEW e \in IREvents(stored), TurnLegal(s, e),
           e.type = "tool_call_start", NEW u, u = TurnAfter(s, e)
    PROVE  /\ u = [s EXCEPT !.items = @ \cup {e.tool}, !.fresh = @ \cup {e.tool}]
           /\ u \in TurnStates
           /\ e.tool \in Tools /\ e.tool \in Items /\ e.tool \notin s.items
           /\ s.started /\ ~s.fin /\ ~s.end /\ s.content[e.tool] = <<>>
<1>1. e.tool \in Tools /\ e.tool \in Items /\ e.tool # Message
  BY IREventFacts, Names DEF CallTypes
<1>2. s.started /\ ~s.fin /\ e.tool \notin s.items
  BY DEF TurnLegal
<1>3. u = [s EXCEPT !.items = @ \cup {e.tool}, !.fresh = @ \cup {e.tool}]
  BY DEF TurnAfter
<1>4. s \in TurnRecords /\ Sound(s)
  BY DEF TurnStates
<1>5. s.content[e.tool] = <<>> /\ ~s.end
  BY <1>1, <1>2, <1>4 DEF Sound
<1>6. u \in TurnRecords
  <2>1. [s EXCEPT !.items = @ \cup {e.tool}, !.fresh = @ \cup {e.tool}] \in TurnRecords
    BY <1>1, <1>4 DEF TurnRecords
  <2> QED
    BY <1>3, <2>1
<1>7. /\ u.items = s.items \cup {e.tool} /\ u.fresh = s.fresh \cup {e.tool}
      /\ u.started = s.started /\ u.fin = s.fin /\ u.end = s.end /\ u.content = s.content
      /\ u.usage = s.usage
  BY <1>3, <1>4 DEF TurnRecords
<1>8. Sound(u)
  BY <1>1, <1>2, <1>4, <1>5, <1>7 DEF Sound
<1> QED
  BY <1>1, <1>2, <1>3, <1>5, <1>6, <1>8 DEF TurnStates

\* A piece of item i brought by e.
Piece(s, e, u, i) ==
    /\ u.started = s.started /\ u.fin = s.fin /\ u.end = s.end /\ u.usage = s.usage
    /\ u.items = s.items \cup {i} /\ u.fresh = s.fresh \ {i}
    /\ u.content[i] = s.content[i] \o Sources(e.data)
    /\ \A j \in Items : j # i => u.content[j] = s.content[j]
    /\ i \in Items /\ s.started /\ ~s.fin /\ ~s.end
    /\ e.type = "text_delta" => i = Message /\ e.data # <<>>
    /\ e.type = "reasoning_delta" => i = Reasoning
    /\ e.type = "tool_call_delta" => i = e.tool /\ i \in s.items /\ e.tool \in Tools
    /\ Rewritten(e.data) => i \in s.fresh

\* A piece of a text, of the reasoning or of a call's arguments.
LEMMA PieceStep ==
    ASSUME NEW s \in TurnStates, NEW stored, NEW e \in IREvents(stored), TurnLegal(s, e),
           e.type \in {"text_delta", "reasoning_delta", "tool_call_delta"},
           NEW u, u = TurnAfter(s, e)
    PROVE  u \in TurnStates /\ Piece(s, e, u, Target(e))
<1> DEFINE i == Target(e)
<1>0. i = Target(e)
  OBVIOUS
<1> HIDE DEF i
<1>1. e.type = "tool_call_delta" => e.tool \in Tools
  BY IREventFacts DEF CallTypes
<1>2. /\ ~s.fin /\ (e.type # "tool_call_delta" => s.started)
      /\ e.type = "tool_call_delta" =>
            e.tool \in s.items /\ (Rewritten(e.data) => e.tool \in s.fresh)
  BY DEF TurnLegal
<1>3. s \in TurnRecords /\ Sound(s)
  BY DEF TurnStates
<1> DEFINE x == Sources(e.data)
<1>4. /\ e.type = "text_delta" => i = Message
      /\ e.type = "reasoning_delta" => i = Reasoning
      /\ e.type = "tool_call_delta" => i = e.tool
  BY <1>0 DEF Target
<1>5. i \in Items
  BY <1>1, <1>4, Names
<1>6. s.started /\ ~s.end
  BY <1>2, <1>3 DEF Sound
<1>7. u = [s EXCEPT !.items = @ \cup {i}, !.content = [s.content EXCEPT ![i] = s.content[i] \o x],
                    !.fresh = @ \ {i}]
  <2>1. u = [s EXCEPT !.items = @ \cup {i}, !.content[i] = @ \o x, !.fresh = @ \ {i}]
    BY <1>0 DEF TurnAfter
  <2>2. DOMAIN s.content = Items
    BY <1>3 DEF TurnRecords
  <2> HIDE DEF x
  <2> QED
    BY <1>3, <1>5, <2>1, <2>2 DEF TurnRecords
<1>8. Rewritten(e.data) => i \in s.fresh
  BY <1>2, <1>4, IREventFacts
<1>9. x \in Clean
  BY IREventFacts
<1>10. e.type = "text_delta" => e.data # <<>> /\ x # <<>>
  BY IREventFacts DEF CallTypes
<1> HIDE DEF x
<1>11. s.content[i] \in Clean /\ s.content[i] \o x \in Clean
  BY <1>3, <1>5, <1>9, CleanConcat DEF TurnRecords
<1>120. [s EXCEPT !.items = @ \cup {i}, !.content = [s.content EXCEPT ![i] = s.content[i] \o x],
                  !.fresh = @ \ {i}] \in TurnRecords
  BY <1>3, <1>5, <1>11 DEF TurnRecords
<1>121. u \in TurnRecords
  BY <1>7, <1>120
<1>12. /\ u \in TurnRecords
       /\ u.started = s.started /\ u.fin = s.fin /\ u.end = s.end /\ u.usage = s.usage
       /\ u.items = s.items \cup {i} /\ u.fresh = s.fresh \ {i}
       /\ u.content = [s.content EXCEPT ![i] = s.content[i] \o x]
  BY <1>3, <1>7, <1>121 DEF TurnRecords
<1>13. s.content \in [Items -> Clean]
  BY <1>3 DEF TurnRecords
<1>14. u.content[i] = s.content[i] \o x /\ \A j \in Items : j # i => u.content[j] = s.content[j]
  BY <1>5, <1>12, <1>13
<1>15. Message \in u.items => u.content[Message] # <<>>
  <2>1. CASE i = Message
    <3>1. x # <<>> \/ s.content[i] # <<>>
      BY <1>1, <1>2, <1>3, <1>4, <1>10, <2>1, Names DEF Sound
    <3>2. \A a, b \in Clean : a \o b = <<>> => a = <<>> /\ b = <<>>
      BY ConcatEqualIffEmpty DEF Clean
    <3> QED
      BY <1>9, <1>11, <1>14, <2>1, <3>1, <3>2
  <2>2. CASE i # Message
    BY <1>3, <1>12, <1>14, <2>2, Names DEF Sound
  <2> QED
    BY <2>1, <2>2
<1>16. Sound(u)
  <2>1. \A j \in Items \ u.items : u.content[j] = <<>>
    BY <1>3, <1>12, <1>14 DEF Sound
  <2>2. \A t \in u.fresh : u.content[t] = <<>>
    <3>1. u.fresh \subseteq s.fresh /\ s.fresh \subseteq Items /\ i \notin u.fresh
      BY <1>3, <1>12, Names DEF TurnRecords
    <3> QED
      BY <1>3, <1>14, <3>1 DEF Sound
  <2> QED
    BY <1>2, <1>3, <1>6, <1>12, <1>15, <2>1, <2>2 DEF Sound
<1>17. u \in TurnStates
  BY <1>12, <1>16 DEF TurnStates
<1> QED
  <2>1. Piece(s, e, u, i)
    BY <1>1, <1>2, <1>4, <1>5, <1>6, <1>8, <1>10, <1>12, <1>14 DEF x, Piece
  <2> QED
    BY <1>17, <2>1 DEF i

LEMMA TurnStepIs ==
    ASSUME NEW stored, NEW s, NEW e, NEW u
    PROVE  <<s, e, u>> \in TurnSteps(stored) <=>
              /\ s \in TurnStates /\ e \in IREvents(stored) /\ u \in TurnStates
              /\ TurnLegal(s, e) /\ u = TurnAfter(s, e)
  BY DEF TurnSteps

LEMMA TurnStepIntro ==
    ASSUME NEW stored, NEW s \in TurnStates, NEW e \in IREvents(stored), TurnLegal(s, e)
    PROVE  <<s, e, TurnAfter(s, e)>> \in TurnSteps(stored)
<1>1. TurnAfter(s, e) \in TurnStates
  <2>1. e.type \in IRTypes
    BY IREventFacts
  <2> DEFINE u == TurnAfter(s, e)
             i == Target(e)
  <2>2. u = TurnAfter(s, e) /\ i = Target(e)
    OBVIOUS
  <2> HIDE DEF u, i
  <2>3. u \in TurnStates
    BY <2>1, <2>2, StartStep, FinishStep, EndStep, UsageStep, CallStep, PieceStep DEF IRTypes
  <2> QED
    BY <2>3 DEF u
<1> QED
  BY <1>1, TurnStepIs

\* What a turn has been told stays, and from the finish on nothing comes to it.
TurnGrown(s, u) ==
    /\ s.started => u.started
    /\ s.fin => u.fin /\ u.items = s.items /\ u.content = s.content
    /\ s.end => u.end /\ u.usage = s.usage
    /\ s.items \subseteq u.items /\ s.usage \subseteq u.usage
    /\ \A i \in Items : \E x \in Clean : u.content[i] = s.content[i] \o x

LEMMA CleanSame == ASSUME NEW s \in TurnStates PROVE \A i \in Items : \E x \in Clean : s.content[i] = s.content[i] \o x
<1> SUFFICES ASSUME NEW i \in Items
             PROVE  \E x \in Clean : s.content[i] = s.content[i] \o x
  OBVIOUS
<1> DEFINE c == s.content[i]
<1>1. c \in Clean
  BY DEF TurnStates, TurnRecords
<1> HIDE DEF c
<1>2. c = c \o <<>> /\ <<>> \in Clean
  BY <1>1, ConcatEmptySeq, EmptySeq DEF Clean
<1> QED
  BY <1>2 DEF c

\* A turn only grows.
LEMMA TurnStepGrows ==
    ASSUME NEW stored, NEW s, NEW e, NEW u, <<s, e, u>> \in TurnSteps(stored)
    PROVE  TurnGrown(s, u)
<1>1. /\ s \in TurnStates /\ e \in IREvents(stored) /\ u \in TurnStates
      /\ TurnLegal(s, e) /\ u = TurnAfter(s, e)
  BY TurnStepIs
<1>2. e.type \in IRTypes /\ s \in TurnRecords
  BY <1>1, IREventFacts DEF TurnStates
<1>3. CASE e.type \in {"text_delta", "reasoning_delta", "tool_call_delta"}
  <2> DEFINE i == Target(e)
  <2>0. i = Target(e)
    OBVIOUS
  <2> HIDE DEF i
  <2>1. Piece(s, e, u, i)
    BY <1>1, <1>3, <2>0, PieceStep
  <2>2. Sources(e.data) \in Clean
    BY <1>1, IREventFacts
  <2>3. \A j \in Items : \E x \in Clean : u.content[j] = s.content[j] \o x
    <3>1. \A j \in Items : j # i => \E x \in Clean : u.content[j] = s.content[j] \o x
      <4>1. \A j \in Items : \E x \in Clean : s.content[j] = s.content[j] \o x
        BY <1>1, CleanSame
      <4> QED
        BY <2>1, <4>1 DEF Piece
    <3> QED
      BY <2>1, <2>2, <3>1 DEF Piece
  <2> QED
    BY <2>1, <2>3 DEF TurnGrown, Piece
<1>4. CASE e.type \notin {"text_delta", "reasoning_delta", "tool_call_delta"}
  <2>1. /\ u.content = s.content /\ s.items \subseteq u.items /\ s.usage \subseteq u.usage
        /\ (s.fin => u.items = s.items) /\ (s.started => u.started) /\ (s.fin => u.fin)
        /\ (s.end => u.end /\ u.usage = s.usage)
    <3>1. CASE e.type = "stream_start"
      BY <1>1, <1>2, <3>1, StartStep DEF TurnRecords
    <3>2. CASE e.type = "tool_call_start"
      <4>0. u = TurnAfter(s, e) /\ TurnLegal(s, e) /\ e.type = "tool_call_start"
        BY <1>1, <3>2
      <4> DEFINE t == e.tool
      <4>1. /\ u = [s EXCEPT !.items = @ \cup {t}, !.fresh = @ \cup {t}]
            /\ ~s.fin /\ ~s.end
        BY <1>1, <4>0, CallStep
      <4> HIDE DEF t
      <4> QED
        BY <1>2, <4>1 DEF TurnRecords
    <3>3. CASE e.type = "finish"
      <4>1. u = [s EXCEPT !.fin = TRUE, !.fresh = {}] /\ ~s.fin /\ ~s.end
        BY <1>1, <3>3, FinishStep
      <4> QED
        BY <1>2, <4>1 DEF TurnRecords
    <3>4. CASE e.type = "usage"
      <4> DEFINE x == ToSet(e.data)
      <4>1. u = IF s.end THEN s ELSE [s EXCEPT !.usage = @ \cup ToSet(e.data)]
        BY <1>1, <3>4, UsageStep
      <4>2. u = IF s.end THEN s ELSE [s EXCEPT !.usage = @ \cup x]
        BY <4>1
      <4> HIDE DEF x
      <4> QED
        BY <1>2, <4>2 DEF TurnRecords
    <3>5. CASE e.type = "stream_end"
      BY <1>1, <1>2, <3>5, EndStep DEF TurnRecords
    <3> QED
      BY <1>2, <1>4, <3>1, <3>2, <3>3, <3>4, <3>5 DEF IRTypes
  <2> QED
    BY <1>1, <2>1, CleanSame DEF TurnGrown
<1> QED
  BY <1>3, <1>4

LEMMA TurnGrownAgain ==
    ASSUME NEW s \in TurnStates, NEW t \in TurnStates, NEW u \in TurnStates,
           TurnGrown(s, t), TurnGrown(t, u)
    PROVE  TurnGrown(s, u)
<1>1. ASSUME NEW i \in Items
      PROVE  \E z \in Clean : u.content[i] = s.content[i] \o z
  <2>1. PICK x \in Clean : t.content[i] = s.content[i] \o x
    BY DEF TurnGrown
  <2>2. PICK y \in Clean : u.content[i] = t.content[i] \o y
    BY DEF TurnGrown
  <2> DEFINE c == s.content[i]
  <2>3. c \in Clean
    BY DEF TurnStates, TurnRecords
  <2> HIDE DEF c
  <2>4. (c \o x) \o y = c \o (x \o y) /\ x \o y \in Clean
    BY <2>3, ConcatThree DEF Clean
  <2>5. u.content[i] = c \o (x \o y)
    BY <2>1, <2>2, <2>4 DEF c
  <2> QED
    BY <2>4, <2>5 DEF c
<1> QED
  BY <1>1 DEF TurnGrown

LEMMA TurnLeadsGrows ==
    ASSUME NEW stored, NEW q \in Seq(IREvents(stored)), NEW s \in TurnStates, NEW u,
           Leads(TurnSteps(stored), s, q, u)
    PROVE  u \in TurnStates /\ TurnGrown(s, u)
<1> DEFINE Good == {t \in TurnStates : TurnGrown(s, t)}
<1>1. s \in Good
  BY CleanSame DEF TurnGrown
<1>2. ASSUME NEW a, NEW e, NEW b, <<a, e, b>> \in TurnSteps(stored), a \in Good
      PROVE  b \in Good
  <2>1. a \in TurnStates /\ b \in TurnStates /\ TurnGrown(a, b)
    BY <1>2, TurnStepIs, TurnStepGrows
  <2> QED
    BY <1>2, <2>1, TurnGrownAgain
<1> HIDE DEF Good
<1>3. u \in Good
  BY <1>1, <1>2, LeadsKeeps
<1> QED
  BY <1>3 DEF Good

\* More mappings in the store rule nothing out.
LEMMA LeadsMore ==
    ASSUME NEW T, NEW U, T \subseteq U, NEW q, NEW s, NEW u, Leads(T, s, q, u)
    PROVE  Leads(U, s, q, u)
  BY DEF Leads, Path

\* More mappings in the store allow more events.
LEMMA StoredMore ==
    ASSUME NEW stored, NEW more, stored \subseteq more
    PROVE  IREvents(stored) \subseteq IREvents(more) /\ TurnSteps(stored) \subseteq TurnSteps(more)
<1>1. IREvents(stored) \subseteq IREvents(more)
  BY DEF IREvents
<1>2. ASSUME NEW x \in TurnSteps(stored)
      PROVE  x \in TurnSteps(more)
  BY <1>1 DEF TurnSteps
<1> QED
  BY <1>1, <1>2

-----------------------------------------------------------------------------
(* The events about one item, in the order the converter sends them.         *)

Put(c, i, stage, content) ==
    [c EXCEPT !.stage = [c.stage EXCEPT ![i] = stage],
              !.content = [c.content EXCEPT ![i] = content]]

\* The client c, with item i in a given stage and with a given content.
LEMMA PutFacts ==
    ASSUME NEW c \in Clients, NEW i \in Items, NEW a \in Stages, NEW x \in Fragments,
           NEW p, p = Put(c, i, a, x)
    PROVE  /\ p \in Clients
           /\ p.phase = c.phase /\ p.listed = c.listed /\ p.usage = c.usage
           /\ p.stage[i] = a /\ p.content[i] = x
           /\ \A j \in Items : j # i => p.stage[j] = c.stage[j] /\ p.content[j] = c.content[j]
<1> DEFINE f == [c.stage EXCEPT ![i] = a]
           g == [c.content EXCEPT ![i] = x]
<1>1. f \in [Items -> Stages] /\ f[i] = a /\ \A j \in Items : j # i => f[j] = c.stage[j]
  BY DEF Clients
<1>2. g \in [Items -> Fragments] /\ g[i] = x /\ \A j \in Items : j # i => g[j] = c.content[j]
  BY DEF Clients
<1>3. p = [c EXCEPT !.stage = f, !.content = g]
  BY DEF Put
<1> HIDE DEF f, g
<1>4. [c EXCEPT !.stage = f, !.content = g] \in Clients
  BY <1>1, <1>2 DEF Clients
<1>5. /\ p \in Clients
      /\ p.phase = c.phase /\ p.listed = c.listed /\ p.usage = c.usage
      /\ p.stage = f /\ p.content = g
  BY <1>3, <1>4 DEF Clients
<1> QED
  BY <1>1, <1>2, <1>5

LEMMA PutSame == ASSUME NEW c \in Clients, NEW i \in Items PROVE Put(c, i, c.stage[i], c.content[i]) = c
<1> DEFINE a == c.stage[i]
           x == c.content[i]
           p == Put(c, i, a, x)
<1>1. a \in Stages /\ x \in Fragments
  BY DEF Clients
<1> HIDE DEF p
<1>2. /\ p \in Clients
      /\ p.phase = c.phase /\ p.listed = c.listed /\ p.usage = c.usage
      /\ p.stage[i] = a /\ p.content[i] = x
      /\ \A j \in Items : j # i => p.stage[j] = c.stage[j] /\ p.content[j] = c.content[j]
  <2> HIDE DEF a, x
  <2> QED
    BY <1>1, PutFacts DEF p
<1>3. \A j \in Items : p.stage[j] = c.stage[j] /\ p.content[j] = c.content[j]
  BY <1>2
<1>4. p = c
  BY <1>2, <1>3, ClientsEqual
<1> QED
  BY <1>4 DEF p

LEMMA PutIs ==
    ASSUME NEW c \in Clients, NEW i \in Items, NEW b \in Stages, NEW y \in Fragments,
           NEW p \in Clients, NEW d \in Clients,
           p.phase = c.phase, p.listed = c.listed, p.usage = c.usage,
           \A j \in Items : j # i => p.stage[j] = c.stage[j] /\ p.content[j] = c.content[j],
           d.phase = p.phase, d.listed = p.listed, d.usage = p.usage,
           d.stage[i] = b, d.content[i] = y,
           \A j \in Items : j # i => d.stage[j] = p.stage[j] /\ d.content[j] = p.content[j]
    PROVE  d = Put(c, i, b, y)
<1> DEFINE q == Put(c, i, b, y)
<1>1. q = Put(c, i, b, y)
  OBVIOUS
<1> HIDE DEF q
<1>2. /\ q \in Clients /\ q.phase = c.phase /\ q.listed = c.listed /\ q.usage = c.usage
      /\ q.stage[i] = b /\ q.content[i] = y
      /\ \A j \in Items : j # i => q.stage[j] = c.stage[j] /\ q.content[j] = c.content[j]
  BY <1>1, PutFacts
<1>3. \A j \in Items : d.stage[j] = q.stage[j] /\ d.content[j] = q.content[j]
  BY <1>2
<1>4. d = q
  BY <1>2, <1>3, ClientsEqual
<1> QED
  BY <1>4 DEF q

\* An event about item i, when the item is at the stage the event belongs to.
LEMMA PutStep ==
    ASSUME NEW c \in Clients, c.phase = "open", NEW i \in Items, NEW a \in Stages,
           NEW x \in Fragments, NEW type \in ItemTypes, NEW data \in Fragments,
           NEW e, e = SourceEvent(type, i, data), a = Before(e),
           type \in {"part_added", "part_done"} => i = Message,
           type = "delta" => i \notin SilentTools,
           type = "content_done" => i # Reasoning /\ i \notin SilentTools,
           type \in DoneTypes => IF i \in SilentTools THEN x = <<>> ELSE data = x,
           NEW b, b = StageAfter(e), NEW y, y = ContentAfter(e, x)
    PROVE  Leads(Steps, Put(c, i, a, x), <<e>>, Put(c, i, b, y)) /\ e \in Events
<1> DEFINE p == Put(c, i, a, x)
<1>1. e \in ItemEvents /\ e \in Events /\ e.type = type /\ e.item = i /\ e.data = data
  BY ItemEventIs DEF SourceEvent
<1>2. /\ p \in Clients /\ p.phase = "open" /\ p.stage[i] = a /\ p.content[i] = x
      /\ p.listed = c.listed /\ p.usage = c.usage
      /\ \A j \in Items : j # i => p.stage[j] = c.stage[j] /\ p.content[j] = c.content[j]
  BY PutFacts
<1> HIDE DEF p
<1>3. Legal(p, e)
  BY <1>1, <1>2, LegalItem
<1>4. <<p, e, After(p, e)>> \in Steps
  BY <1>1, <1>2, <1>3, StepIntro
<1> DEFINE d == After(p, e)
<1>5. /\ d \in Clients /\ d.phase = p.phase /\ d.listed = p.listed /\ d.usage = p.usage
      /\ d.stage[i] = b /\ d.content[i] = y
      /\ \A j \in Items : j # i => d.stage[j] = p.stage[j] /\ d.content[j] = p.content[j]
  <2> DEFINE j == e.item
             z == StageAfter(e)
             w == ContentAfter(e, p.content[j])
  <2>1. /\ d \in Clients /\ d.phase = p.phase /\ d.listed = p.listed /\ d.usage = p.usage
        /\ d.stage[j] = z /\ d.content[j] = w
        /\ \A k \in Items : k # j => d.stage[k] = p.stage[k] /\ d.content[k] = p.content[k]
    BY <1>1, <1>2, AfterItemFacts
  <2>2. j = i /\ z = b /\ w = y
    BY <1>1, <1>2
  <2> HIDE DEF d, j, z, w
  <2> QED
    BY <2>1, <2>2
<1>6. b \in Stages /\ y \in Fragments
  <2>1. StageAfter(e) \in Stages /\ ContentAfter(e, p.content[e.item]) \in Fragments
    BY <1>1, <1>2, AfterItem
  <2>2. p.content[e.item] = x
    BY <1>1, <1>2
  <2> HIDE DEF d
  <2> QED
    BY <2>1, <2>2
<1> DEFINE q == Put(c, i, b, y)
<1>8. d = q
  <2> HIDE DEF d
  <2> QED
    BY <1>2, <1>5, <1>6, PutIs
<1>9. Leads(Steps, p, <<e>>, q)
  <2> HIDE DEF d, q
  <2> QED
    BY <1>4, <1>8, LeadsOne DEF d
<1> QED
  BY <1>1, <1>9 DEF p

\* The item is added (response.output_item.added).
LEMMA AddedStep ==
    ASSUME NEW c \in Clients, c.phase = "open", NEW i \in Items, NEW x \in Fragments
    PROVE  /\ SourceEvent("added", i, <<>>) \in Events
           /\ Leads(Steps, Put(c, i, "absent", x), <<SourceEvent("added", i, <<>>)>>,
                    Put(c, i, IF i = Message THEN "added" ELSE "streaming", x))
<1> DEFINE e == SourceEvent("added", i, <<>>)
           b == IF i = Message THEN "added" ELSE "streaming"
<1>1. /\ Before(e) = "absent" /\ StageAfter(e) = b /\ ContentAfter(e, x) = x
      /\ "absent" \in Stages /\ "added" \in ItemTypes /\ <<>> \in Fragments
  BY FragmentsConcat DEF SourceEvent, Before, StageAfter, ContentAfter, DoneTypes, Stages, ItemTypes
<1>2. e = SourceEvent("added", i, <<>>)
  OBVIOUS
<1> HIDE DEF e, b
<1>3. Leads(Steps, Put(c, i, "absent", x), <<e>>, Put(c, i, b, x)) /\ e \in Events
  BY <1>1, <1>2, PutStep DEF DoneTypes
<1> QED
  BY <1>3 DEF e, b

\* The message's content part is added.
LEMMA PartAddedStep ==
    ASSUME NEW c \in Clients, c.phase = "open", NEW x \in Fragments
    PROVE  /\ SourceEvent("part_added", Message, <<>>) \in Events
           /\ Leads(Steps, Put(c, Message, "added", x), <<SourceEvent("part_added", Message, <<>>)>>,
                    Put(c, Message, "streaming", x))
<1> DEFINE e == SourceEvent("part_added", Message, <<>>)
<1>1. /\ Before(e) = "added" /\ StageAfter(e) = "streaming" /\ ContentAfter(e, x) = x
      /\ "added" \in Stages /\ "part_added" \in ItemTypes /\ <<>> \in Fragments
  BY FragmentsConcat DEF SourceEvent, Before, StageAfter, ContentAfter, DoneTypes, Stages, ItemTypes
<1>2. e = SourceEvent("part_added", Message, <<>>)
  OBVIOUS
<1> HIDE DEF e
<1>3. Leads(Steps, Put(c, Message, "added", x), <<e>>, Put(c, Message, "streaming", x)) /\ e \in Events
  BY <1>1, <1>2, Names, PutStep DEF DoneTypes
<1> QED
  BY <1>3 DEF e

\* A delta.
LEMMA DeltaStep ==
    ASSUME NEW c \in Clients, c.phase = "open", NEW i \in Items, i \notin SilentTools,
           NEW x \in Fragments, NEW data \in Fragments
    PROVE  /\ SourceEvent("delta", i, data) \in Events
           /\ Leads(Steps, Put(c, i, "streaming", x), <<SourceEvent("delta", i, data)>>,
                    Put(c, i, "streaming", x \o data))
<1> DEFINE e == SourceEvent("delta", i, data)
           y == x \o data
<1>1. /\ Before(e) = "streaming" /\ StageAfter(e) = "streaming" /\ ContentAfter(e, x) = y
      /\ "streaming" \in Stages /\ "delta" \in ItemTypes
  BY DEF SourceEvent, Before, StageAfter, ContentAfter, DoneTypes, Stages, ItemTypes
<1>2. e = SourceEvent("delta", i, data)
  OBVIOUS
<1> HIDE DEF e, y
<1>3. Leads(Steps, Put(c, i, "streaming", x), <<e>>, Put(c, i, "streaming", y)) /\ e \in Events
  BY <1>1, <1>2, PutStep DEF DoneTypes
<1> QED
  BY <1>3 DEF e, y

\* The text or the arguments are complete.
LEMMA ContentDoneStep ==
    ASSUME NEW c \in Clients, c.phase = "open", NEW i \in Items, i \notin SilentTools,
           i # Reasoning, NEW x \in Fragments
    PROVE  /\ SourceEvent("content_done", i, x) \in Events
           /\ Leads(Steps, Put(c, i, "streaming", x), <<SourceEvent("content_done", i, x)>>,
                    Put(c, i, IF i = Message THEN "closed" ELSE "sealed", x))
<1> DEFINE e == SourceEvent("content_done", i, x)
           b == IF i = Message THEN "closed" ELSE "sealed"
<1>1. /\ Before(e) = "streaming" /\ StageAfter(e) = b /\ ContentAfter(e, x) = x
      /\ "streaming" \in Stages /\ "content_done" \in ItemTypes
  BY DEF SourceEvent, Before, StageAfter, ContentAfter, DoneTypes, Stages, ItemTypes
<1>2. e = SourceEvent("content_done", i, x)
  OBVIOUS
<1> HIDE DEF e, b
<1>3. Leads(Steps, Put(c, i, "streaming", x), <<e>>, Put(c, i, b, x)) /\ e \in Events
  BY <1>1, <1>2, PutStep DEF DoneTypes
<1> QED
  BY <1>3 DEF e, b

\* The message's content part is complete.
LEMMA PartDoneStep ==
    ASSUME NEW c \in Clients, c.phase = "open", NEW x \in Fragments
    PROVE  /\ SourceEvent("part_done", Message, x) \in Events
           /\ Leads(Steps, Put(c, Message, "closed", x), <<SourceEvent("part_done", Message, x)>>,
                    Put(c, Message, "sealed", x))
<1> DEFINE e == SourceEvent("part_done", Message, x)
<1>1. /\ Before(e) = "closed" /\ StageAfter(e) = "sealed" /\ ContentAfter(e, x) = x
      /\ "closed" \in Stages /\ "part_done" \in ItemTypes
  BY DEF SourceEvent, Before, StageAfter, ContentAfter, DoneTypes, Stages, ItemTypes
<1>2. e = SourceEvent("part_done", Message, x) /\ Message \notin SilentTools
  BY Names DEF SilentTools
<1> HIDE DEF e
<1>3. Leads(Steps, Put(c, Message, "closed", x), <<e>>, Put(c, Message, "sealed", x)) /\ e \in Events
  BY <1>1, <1>2, Names, PutStep DEF DoneTypes
<1> QED
  BY <1>3 DEF e

\* `from` is the stage at which the item may be done, and `x` what came of it.
LEMMA DoneStep ==
    ASSUME NEW c \in Clients, c.phase = "open", NEW i \in Items, NEW x \in Fragments,
           NEW data \in Fragments, IF i \in SilentTools THEN x = <<>> ELSE data = x,
           NEW from, from = IF i = Reasoning \/ i \in SilentTools THEN "streaming" ELSE "sealed"
    PROVE  /\ SourceEvent("done", i, data) \in Events
           /\ Leads(Steps, Put(c, i, from, x), <<SourceEvent("done", i, data)>>,
                    Put(c, i, "done", data))
<1> DEFINE e == SourceEvent("done", i, data)
<1>1. /\ Before(e) = from /\ StageAfter(e) = "done" /\ ContentAfter(e, x) = data
      /\ from \in Stages /\ "done" \in ItemTypes
  BY DEF SourceEvent, Before, StageAfter, ContentAfter, DoneTypes, Stages, ItemTypes
<1>2. e = SourceEvent("done", i, data)
  OBVIOUS
<1> HIDE DEF e
<1>3. Leads(Steps, Put(c, i, from, x), <<e>>, Put(c, i, "done", data)) /\ e \in Events
  BY <1>1, <1>2, PutStep DEF DoneTypes
<1> QED
  BY <1>3 DEF e

LEMMA LeadsTwo ==
    ASSUME NEW T, NEW X, NEW e, NEW f, e \in X, f \in X, NEW s, NEW t, NEW u,
           Leads(T, s, <<e>>, t), Leads(T, t, <<f>>, u)
    PROVE  <<e, f>> \in Seq(X) /\ Leads(T, s, <<e, f>>, u)
<1>1. <<e>> \in Seq(X) /\ <<f>> \in Seq(X) /\ <<e, f>> \in Seq(X) /\ <<e>> \o <<f>> = <<e, f>>
  <2>1. <<e>> \in Seq(X) /\ <<f>> \in Seq(X) /\ <<e, f>> \in Seq(X)
    OBVIOUS
  <2>2. Append(<<e>>, f) = <<e>> \o <<f>>
    BY <2>1, AppendIsConcat
  <2>3. Append(<<e>>, f) = <<e, f>>
    <3> DEFINE r == Append(<<e>>, f)
    <3>1. /\ r \in Seq(X) /\ Len(r) = 2 /\ r[1] = e /\ r[2] = f
      <4>1. Len(<<e>>) = 1 /\ <<e>>[1] = e
        OBVIOUS
      <4> QED
        BY <2>1, <4>1, AppendProperties
    <3> HIDE DEF r
    <3>2. r = <<e, f>>
      BY <3>1
    <3> QED
      BY <3>2 DEF r
  <2> QED
    BY <2>1, <2>2, <2>3
<1>2. Leads(T, s, <<e>> \o <<f>>, u)
  BY <1>1, LeadsConcat
<1> QED
  BY <1>1, <1>2

\* The three events that close a message.
LEMMA TextDone ==
    ASSUME NEW c \in Clients, c.phase = "open", NEW x \in Fragments,
           NEW q, q = <<SourceEvent("content_done", Message, x),
                        SourceEvent("part_done", Message, x), SourceEvent("done", Message, x)>>
    PROVE  /\ q \in Seq(Events)
           /\ Leads(Steps, Put(c, Message, "streaming", x), q, Put(c, Message, "done", x))
<1> DEFINE d == SourceEvent("content_done", Message, x)
           e == SourceEvent("part_done", Message, x)
           f == SourceEvent("done", Message, x)
           s == Put(c, Message, "streaming", x)
           t == Put(c, Message, "closed", x)
           u == Put(c, Message, "sealed", x)
           v == Put(c, Message, "done", x)
<1>1. Message \notin SilentTools /\ Message \in Items /\ Message # Reasoning
  BY Names DEF SilentTools
<1>2. d \in Events /\ Leads(Steps, s, <<d>>, t)
  BY <1>1, ContentDoneStep
<1>3. e \in Events /\ Leads(Steps, t, <<e>>, u)
  BY PartDoneStep
<1>4. f \in Events /\ Leads(Steps, u, <<f>>, v)
  BY <1>1, DoneStep
<1>5. q = <<d, e, f>>
  OBVIOUS
<1> HIDE DEF d, e, f, s, t, u, v
<1>6. <<d, e>> \in Seq(Events) /\ Leads(Steps, s, <<d, e>>, u)
  BY <1>2, <1>3, LeadsTwo
<1>7. <<f>> \in Seq(Events) /\ <<d, e>> \o <<f>> = <<d, e, f>> /\ <<d, e, f>> \in Seq(Events)
  <2>1. <<f>> \in Seq(Events) /\ <<d, e, f>> \in Seq(Events)
    BY <1>2, <1>3, <1>4
  <2>2. Append(<<d, e>>, f) = <<d, e>> \o <<f>>
    BY <1>4, <1>6, AppendIsConcat
  <2>3. Append(<<d, e>>, f) = <<d, e, f>>
    <3> DEFINE r == Append(<<d, e>>, f)
    <3>1. /\ r \in Seq(Events) /\ Len(r) = 3 /\ r[1] = d /\ r[2] = e /\ r[3] = f
      <4>1. Len(<<d, e>>) = 2 /\ <<d, e>>[1] = d /\ <<d, e>>[2] = e
        OBVIOUS
      <4> QED
        BY <1>4, <1>6, <4>1, AppendProperties
    <3> HIDE DEF r
    <3>2. r = <<d, e, f>>
      BY <3>1
    <3> QED
      BY <3>2 DEF r
  <2> QED
    BY <2>1, <2>2, <2>3
<1>8. Leads(Steps, s, <<d, e>> \o <<f>>, v)
  BY <1>4, <1>6, <1>7, LeadsConcat
<1> QED
  BY <1>5, <1>7, <1>8 DEF s, v

\* The types of tool call that the handlers tell apart.
LEMMA ToolKinds ==
    ASSUME NEW t \in Tools
    PROVE  /\ ToolType[t] \in {"function", "localized", "custom", "web_search"}
           /\ t \in SilentTools <=> ToolType[t] = "web_search"
           /\ Streamed(t) <=> ToolType[t] \in {"function", "localized"}
           /\ Localized(t) <=> ToolType[t] = "localized"
           /\ t \in Items /\ t # Message /\ t # Reasoning
  BY ToolTypeAssumption, Names DEF SilentTools, Streamed, Localized

\* A call that is done: of a bridged custom tool and of a search the client has
\* no arguments before.
LEMMA ToolDone ==
    ASSUME NEW c \in Clients, c.phase = "open", NEW t \in Tools, NEW wrapped,
           NEW x \in Fragments, x = Arguments(t, wrapped),
           NEW y, y = IF Streamed(t) THEN x ELSE <<>>,
           NEW q, q = tool_call_done_events(t, wrapped)
    PROVE  q \in Seq(Events) /\ Leads(Steps, Put(c, t, "streaming", y), q, Put(c, t, "done", x))
<1> DEFINE d == SourceEvent("delta", t, x)
           e == SourceEvent("content_done", t, x)
           f == SourceEvent("done", t, x)
           s == Put(c, t, "streaming", y)
           u == Put(c, t, "streaming", x)
           v == Put(c, t, "sealed", x)
           w == Put(c, t, "done", x)
<1>1. /\ ToolType[t] \in {"function", "localized", "custom", "web_search"}
      /\ t \in SilentTools <=> ToolType[t] = "web_search"
      /\ Streamed(t) <=> ToolType[t] \in {"function", "localized"}
      /\ t \in Items /\ t # Message /\ t # Reasoning
  BY ToolKinds
<1>2. <<>> \in Fragments
  BY FragmentsConcat
<1>3. CASE ToolType[t] = "web_search"
  <2>1. q = <<f>> /\ y = <<>>
    BY <1>1, <1>3 DEF tool_call_done_events
  <2>2. f \in Events /\ Leads(Steps, s, <<f>>, w)
    BY <1>1, <1>2, <1>3, <2>1, DoneStep
  <2> HIDE DEF f, s, w
  <2>3. <<f>> \in Seq(Events)
    BY <2>2
  <2> QED
    BY <2>1, <2>2, <2>3 DEF s, w
<1>4. ASSUME ToolType[t] # "web_search"
      PROVE  <<e, f>> \in Seq(Events) /\ Leads(Steps, u, <<e, f>>, w)
  <2>1. e \in Events /\ Leads(Steps, u, <<e>>, v)
    BY <1>1, <1>4, ContentDoneStep
  <2>2. f \in Events /\ Leads(Steps, v, <<f>>, w)
    BY <1>1, <1>4, DoneStep
  <2> HIDE DEF e, f, u, v, w
  <2> QED
    BY <2>1, <2>2, LeadsTwo
<1>5. CASE ToolType[t] = "custom" /\ x # <<>>
  <2>1. q = <<d>> \o <<e, f>> /\ y = <<>>
    BY <1>1, <1>5 DEF tool_call_done_events, On
  <2>2. x = <<>> \o x
    BY ConcatEmptySeq DEF Fragments
  <2>3. d \in Events /\ Leads(Steps, s, <<d>>, u)
    <3>1. d \in Events /\ Leads(Steps, Put(c, t, "streaming", <<>>), <<d>>,
                                Put(c, t, "streaming", <<>> \o x))
      BY <1>1, <1>2, <1>5, DeltaStep
    <3> QED
      BY <2>1, <2>2, <3>1
  <2>4. <<e, f>> \in Seq(Events) /\ Leads(Steps, u, <<e, f>>, w)
    BY <1>4, <1>5
  <2> HIDE DEF d, e, f, s, u, w
  <2>5. <<d>> \in Seq(Events)
    BY <2>3
  <2> DEFINE r == <<e, f>>
  <2>6. r \in Seq(Events) /\ Leads(Steps, u, r, w) /\ q = <<d>> \o r
    BY <2>1, <2>4
  <2> HIDE DEF r
  <2>7. <<d>> \o r \in Seq(Events) /\ Leads(Steps, s, <<d>> \o r, w)
    BY <2>3, <2>5, <2>6, ConcatProperties, LeadsConcat
  <2> QED
    BY <2>6, <2>7 DEF s, w
<1>6. CASE ToolType[t] = "custom" /\ x = <<>>
  <2>1. q = <<e, f>> /\ y = x
    BY <1>1, <1>6 DEF tool_call_done_events, On
  <2> QED
    BY <1>4, <1>6, <2>1
<1>7. CASE ToolType[t] \in {"function", "localized"}
  <2>1. q = <<e, f>> /\ y = x
    BY <1>1, <1>7 DEF tool_call_done_events
  <2> QED
    BY <1>4, <1>7, <2>1
<1> QED
  BY <1>1, <1>3, <1>5, <1>6, <1>7

-----------------------------------------------------------------------------
(* Closing the items of a turn.                                              *)

\* The items of K are done, with what `out` says of them.
Closed(c, K, out) ==
    [c EXCEPT !.stage = [i \in Items |-> IF i \in K THEN "done" ELSE c.stage[i]],
              !.content = [i \in Items |-> IF i \in K THEN out[i] ELSE c.content[i]]]

\* The client with the items of K closed, with the content listed in out.
LEMMA ClosedFacts ==
    ASSUME NEW c \in Clients, NEW out \in Outputs, NEW K \in SUBSET DOMAIN out,
           NEW d, d = Closed(c, K, out)
    PROVE  /\ d \in Clients
           /\ d.phase = c.phase /\ d.listed = c.listed /\ d.usage = c.usage
           /\ \A i \in K : d.stage[i] = "done" /\ d.content[i] = out[i]
           /\ \A i \in Items \ K : d.stage[i] = c.stage[i] /\ d.content[i] = c.content[i]
<1> DEFINE f == [i \in Items |-> IF i \in K THEN "done" ELSE c.stage[i]]
           g == [i \in Items |-> IF i \in K THEN out[i] ELSE c.content[i]]
<1>0. K \subseteq Items /\ \A i \in K : out[i] \in Fragments
  BY OutputFacts
<1>1. /\ f \in [Items -> Stages] /\ \A i \in K : f[i] = "done"
      /\ \A i \in Items \ K : f[i] = c.stage[i]
  BY <1>0 DEF Clients, Stages
<1>2. /\ g \in [Items -> Fragments] /\ \A i \in K : g[i] = out[i]
      /\ \A i \in Items \ K : g[i] = c.content[i]
  BY <1>0 DEF Clients
<1>3. d = [c EXCEPT !.stage = f, !.content = g]
  BY DEF Closed
<1> HIDE DEF f, g
<1>4. [c EXCEPT !.stage = f, !.content = g] \in Clients
  BY <1>1, <1>2 DEF Clients
<1>5. /\ d \in Clients
      /\ d.phase = c.phase /\ d.listed = c.listed /\ d.usage = c.usage
      /\ d.stage = f /\ d.content = g
  BY <1>3, <1>4 DEF Clients
<1> QED
  BY <1>1, <1>2, <1>5

LEMMA ClosedNone ==
    ASSUME NEW c \in Clients, NEW out \in Outputs PROVE Closed(c, {}, out) = c
<1> DEFINE d == Closed(c, {}, out)
           K == {}
<1>1. d = Closed(c, K, out) /\ K \in SUBSET DOMAIN out /\ K = {}
  OBVIOUS
<1> HIDE DEF d, K
<1>2. /\ d \in Clients /\ d.phase = c.phase /\ d.listed = c.listed /\ d.usage = c.usage
      /\ \A i \in Items \ K : d.stage[i] = c.stage[i] /\ d.content[i] = c.content[i]
  BY <1>1, ClosedFacts
<1>3. d = c
  BY <1>1, <1>2, ClientsEqual
<1> QED
  BY <1>3 DEF d

\* Closing one more.
LEMMA ClosedMore ==
    ASSUME NEW c \in Clients, NEW out \in Outputs, NEW K \in SUBSET DOMAIN out,
           NEW i \in DOMAIN out, i \notin K, NEW L, L = K \cup {i}
    PROVE  /\ Closed(c, K, out) \in Clients
           /\ Closed(c, K, out).phase = c.phase
           /\ Closed(c, K, out) = Put(Closed(c, K, out), i, c.stage[i], c.content[i])
           /\ Closed(c, L, out) = Put(Closed(c, K, out), i, "done", out[i])
<1> DEFINE d == Closed(c, K, out)
           e == Closed(c, L, out)
<1>1. d = Closed(c, K, out) /\ e = Closed(c, L, out) /\ L \in SUBSET DOMAIN out
  OBVIOUS
<1>a. L \subseteq Items /\ i \in Items /\ out[i] \in Fragments
  BY OutputFacts
<1> HIDE DEF d, e
<1>2. /\ d \in Clients
      /\ d.phase = c.phase /\ d.listed = c.listed /\ d.usage = c.usage
      /\ \A j \in K : d.stage[j] = "done" /\ d.content[j] = out[j]
      /\ \A j \in Items \ K : d.stage[j] = c.stage[j] /\ d.content[j] = c.content[j]
  BY <1>1, ClosedFacts
<1>3. /\ e \in Clients
      /\ e.phase = c.phase /\ e.listed = c.listed /\ e.usage = c.usage
      /\ \A j \in L : e.stage[j] = "done" /\ e.content[j] = out[j]
      /\ \A j \in Items \ L : e.stage[j] = c.stage[j] /\ e.content[j] = c.content[j]
  BY <1>1, ClosedFacts
<1>4. d = Put(d, i, c.stage[i], c.content[i])
  <2>1. d.stage[i] = c.stage[i] /\ d.content[i] = c.content[i]
    BY <1>a, <1>2
  <2> QED
    BY <1>a, <1>2, <2>1, PutSame
<1>5. e = Put(d, i, "done", out[i])
  <2>1. "done" \in Stages /\ out[i] \in Fragments
    BY <1>a DEF Stages
  <2>2. \A j \in Items : j # i => e.stage[j] = d.stage[j] /\ e.content[j] = d.content[j]
    <3>1. ASSUME NEW j \in Items, j # i
          PROVE  e.stage[j] = d.stage[j] /\ e.content[j] = d.content[j]
      <4>1. CASE j \in K
        BY <1>2, <1>3, <4>1
      <4>2. CASE j \notin K
        <5>1. j \in Items \ K /\ j \in Items \ L
          BY <3>1, <4>2
        <5> QED
          BY <1>2, <1>3, <5>1
      <4> QED
        BY <4>1, <4>2
    <3> QED
      BY <3>1
  <2>3. e.stage[i] = "done" /\ e.content[i] = out[i]
    BY <1>3
  <2>4. e.phase = d.phase /\ e.listed = d.listed /\ e.usage = d.usage
    BY <1>2, <1>3
  <2> DEFINE x == out[i]
  <2>5. x \in Fragments /\ e.content[i] = x
    BY <2>1, <2>3
  <2> HIDE DEF x
  <2>6. e = Put(d, i, "done", x)
    BY <1>a, <1>2, <1>3, <2>1, <2>2, <2>3, <2>4, <2>5, PutIs
  <2> QED
    BY <2>6 DEF x
<1> QED
  BY <1>1, <1>2, <1>4, <1>5

LEMMA CloseOne ==
    ASSUME NEW c \in Clients, c.phase = "open", NEW out \in Outputs,
           NEW K \in SUBSET DOMAIN out, NEW i \in DOMAIN out, i \notin K,
           NEW L, L = K \cup {i}, c.stage[i] = "streaming", NEW q,
           \A b \in Clients : b.phase = "open" =>
              Leads(Steps, Put(b, i, "streaming", c.content[i]), q, Put(b, i, "done", out[i]))
    PROVE  Leads(Steps, Closed(c, K, out), q, Closed(c, L, out))
<1> DEFINE d == Closed(c, K, out)
           x == c.content[i]
           y == out[i]
<1>1. /\ d \in Clients /\ d.phase = "open" /\ d = Put(d, i, "streaming", x)
      /\ Closed(c, L, out) = Put(d, i, "done", y)
  BY ClosedMore
<1>2. Leads(Steps, Put(d, i, "streaming", x), q, Put(d, i, "done", y))
  <2> HIDE DEF d
  <2> QED
    BY <1>1
<1> HIDE DEF d, x, y
<1>3. Leads(Steps, d, q, Closed(c, L, out))
  BY <1>1, <1>2
<1> QED
  BY <1>3 DEF d

-----------------------------------------------------------------------------
(* What the converter knows of the turn, and what it has told the client.    *)

Visible(i) == i \notin Tools \/ Streamed(i)

ToTypes ==
    to \in [started : BOOLEAN, ended : BOOLEAN,
            output_item_emitted : BOOLEAN, accumulated_text : Fragments,
            reasoning_seen : BOOLEAN, reasoning_item_emitted : BOOLEAN,
            reasoning_item_done_emitted : BOOLEAN, accumulated_reasoning : Fragments,
            order : Seq(Tools), args : [Tools -> Fragments],
            pending_usage : Usages, pending_response : Seq(Responses)]

\* What the converter has of an item.
Raw(i) == CASE i = Message -> to.accumulated_text
            [] i = Reasoning -> to.accumulated_reasoning
            [] OTHER -> to.args[i]

Distinct(q) == \A k, j \in 1..Len(q) : q[k] = q[j] => k = j

\* `s` is the turn the converter has been told of.
ContextMatches(s) ==
    /\ to.started <=> s.started
    /\ to.ended <=> s.end
    /\ to.output_item_emitted <=> Message \in s.items
    /\ to.reasoning_seen <=> Reasoning \in s.items
    /\ to.reasoning_item_emitted <=> Reasoning \in s.items
    /\ to.reasoning_item_done_emitted => s.fin
    /\ Distinct(to.order)
    /\ ToSet(to.order) = s.items \cap Tools
    /\ \A t \in s.fresh : to.args[t] = <<>>
    /\ ~s.end => to.pending_usage = IF s.usage = {} THEN NotSet ELSE s.usage

\* `d` is the client when it has read all that the converter has emitted.
ItemMatches(s, d, i) ==
    /\ Sources(Raw(i)) = s.content[i]
    /\ Rewritten(Raw(i)) => i \in Tools /\ Localized(i) /\ i \in persisted
    /\ d.stage[i] = IF i \notin s.items THEN "absent"
                    ELSE IF s.fin THEN "done" ELSE "streaming"
    /\ ~s.fin => d.content[i] = IF i \in s.items /\ Visible(i) THEN Raw(i) ELSE <<>>
    /\ s.fin => Sources(d.content[i]) = s.content[i]
    /\ i \in Tools /\ Localized(i) /\ Rewritten(d.content[i]) => i \in persisted

ClientMatches(s, d) ==
    /\ d.phase = IF s.end THEN "completed" ELSE IF s.started THEN "open" ELSE "idle"
    /\ \A i \in Items : ItemMatches(s, d, i)
    /\ s.end => d.listed = s.items /\ (Quirks = {} => s.usage \subseteq d.usage)

\* The response.completed that is deferred to the end of the stream.
ResponseMatches(s, d) ==
    IF s.fin /\ ~s.end
    THEN \E resp \in Responses :
            /\ to.pending_response = <<resp>>
            /\ DOMAIN resp.output = s.items
            /\ \A i \in s.items : resp.output[i] = d.content[i]
            /\ Quirks = {} => resp.usage = NotSet
    ELSE to.pending_response = <<>>

Matches(s, d) ==
    ToTypes /\ ContextMatches(s) /\ ClientMatches(s, d) /\ ResponseMatches(s, d)

LEMMA RawType == ASSUME ToTypes, NEW i \in Items PROVE Raw(i) \in Fragments
  BY Names DEF ToTypes, Raw

\* The answer when the turn is over.
LEMMA FinishOutput ==
    ASSUME NEW s \in TurnStates, NEW d \in Clients, Matches(s, d), ~s.fin,
           NEW wrapped \in SUBSET {t \in ToSet(to.order) : ToolType[t] = "custom"},
           NEW out, out = collect_finish_output(wrapped)
    PROVE  /\ out \in Outputs /\ DOMAIN out = s.items
           /\ \A i \in s.items :
                 /\ out[i] = IF i \in Tools THEN Arguments(i, wrapped) ELSE Raw(i)
                 /\ Visible(i) => out[i] = Raw(i)
                 /\ Sources(out[i]) = s.content[i]
                 /\ i \in Tools /\ Localized(i) /\ Rewritten(out[i]) => i \in persisted
<1>1. /\ s \in TurnRecords /\ Sound(s) /\ ToTypes /\ ContextMatches(s)
      /\ \A i \in Items : ItemMatches(s, d, i)
  BY DEF TurnStates, Matches, ClientMatches
<1>2. Message \in s.items <=> to.accumulated_text # <<>>
  <2>1. Sources(to.accumulated_text) = s.content[Message] /\ ~Rewritten(to.accumulated_text)
    BY <1>1, Names DEF ItemMatches, Raw
  <2>2. to.accumulated_text = s.content[Message]
    BY <2>1, SourcesIs
  <2> QED
    BY <1>1, <2>2, Names DEF Sound
<1>3. DOMAIN out = s.items
  <2>1. DOMAIN out = (IF to.reasoning_seen THEN {Reasoning} ELSE {})
                     \cup (IF to.accumulated_text # <<>> THEN {Message} ELSE {})
                     \cup ToSet(to.order)
    BY DEF collect_finish_output
  <2>2. s.items \subseteq Items
    BY <1>1 DEF TurnRecords
  <2> QED
    BY <1>1, <1>2, <2>1, <2>2, Names DEF ContextMatches
<1>4. ASSUME NEW i \in s.items
      PROVE  /\ out[i] \in Fragments
             /\ out[i] = IF i \in Tools THEN Arguments(i, wrapped) ELSE Raw(i)
             /\ Visible(i) => out[i] = Raw(i)
             /\ Sources(out[i]) = s.content[i]
             /\ i \in Tools /\ Localized(i) /\ Rewritten(out[i]) => i \in persisted
  <2>1. i \in Items
    BY <1>1 DEF TurnRecords
  <2>2. out[i] = CASE i = Reasoning -> to.accumulated_reasoning
                   [] i = Message   -> to.accumulated_text
                   [] OTHER         -> Arguments(i, wrapped)
    <3>1. i \in DOMAIN out
      BY <1>3
    <3> QED
      BY <3>1 DEF collect_finish_output
  <2>3. out[i] = IF i \in Tools THEN Arguments(i, wrapped) ELSE Raw(i)
    BY <2>1, <2>2, Names DEF Raw
  <2>4. Raw(i) \in Fragments
    BY <1>1, <2>1, RawType
  <2>5. CASE i \in wrapped
    <3>1. i \in Tools /\ ToolType[i] = "custom" /\ Raw(i) = to.args[i]
      <4>1. i \in ToSet(to.order) /\ ToolType[i] = "custom"
        BY <2>5
      <4>2. i \in Tools
        BY <1>1, <4>1 DEF ContextMatches
      <4> QED
        BY <4>1, <4>2, Names DEF Raw
    <3>2. ~Visible(i) /\ ~Localized(i)
      BY <3>1, ToolKinds DEF Visible
    <3>3. out[i] = <<0>> \o Raw(i)
      BY <2>3, <2>5, <3>1 DEF Arguments
    <3>4. ~Rewritten(Raw(i)) /\ Sources(Raw(i)) = s.content[i]
      BY <1>1, <2>1, <3>2 DEF ItemMatches
    <3> DEFINE r == Raw(i)
    <3>5. r = s.content[i] /\ r \in Fragments /\ out[i] = <<0>> \o r
      BY <2>4, <3>3, <3>4, SourcesIs
    <3> HIDE DEF r
    <3>6. <<0>> \o r \in Fragments /\ Sources(<<0>> \o r) = r
      BY <3>5, Headed
    <3> QED
      BY <2>3, <3>2, <3>5, <3>6
  <2>6. CASE i \notin wrapped
    <3>1. out[i] = Raw(i)
      BY <2>1, <2>3, <2>6, Names DEF Arguments, Raw
    <3> QED
      BY <1>1, <2>1, <2>3, <2>4, <3>1 DEF ItemMatches
  <2> QED
    BY <2>5, <2>6
<1>5. out \in Outputs
  <2>1. out = [i \in s.items |-> out[i]]
    <3>1. out = [i \in DOMAIN out |-> out[i]]
      BY DEF collect_finish_output
    <3> QED
      BY <1>3, <3>1
  <2>2. out \in [s.items -> Fragments] /\ s.items \in SUBSET Items
    BY <1>1, <1>4, <2>1 DEF TurnRecords
  <2> QED
    BY <2>2 DEF Outputs
<1> QED
  BY <1>3, <1>4, <1>5

LEMMA CloseTool ==
    ASSUME NEW c \in Clients, c.phase = "open", NEW out \in Outputs,
           NEW K \in SUBSET DOMAIN out, NEW t \in DOMAIN out, t \in Tools, t \notin K,
           NEW L, L = K \cup {t}, NEW wrapped, out[t] = Arguments(t, wrapped),
           c.stage[t] = "streaming", c.content[t] = IF Streamed(t) THEN out[t] ELSE <<>>
    PROVE  /\ tool_call_done_events(t, wrapped) \in Seq(Events)
           /\ Leads(Steps, Closed(c, K, out), tool_call_done_events(t, wrapped), Closed(c, L, out))
<1> DEFINE q == tool_call_done_events(t, wrapped)
           x == out[t]
           y == c.content[t]
<1>1. /\ q = tool_call_done_events(t, wrapped) /\ x = Arguments(t, wrapped) /\ x \in Fragments
      /\ y = IF Streamed(t) THEN x ELSE <<>>
  BY OutputFacts
<1>2. ASSUME NEW b \in Clients, b.phase = "open"
      PROVE  q \in Seq(Events) /\ Leads(Steps, Put(b, t, "streaming", y), q, Put(b, t, "done", x))
  <2> HIDE DEF q, x, y
  <2> QED
    BY <1>1, <1>2, ToolDone
<1>3. q \in Seq(Events)
  BY <1>2
<1>4. \A b \in Clients : b.phase = "open" =>
         Leads(Steps, Put(b, t, "streaming", c.content[t]), q, Put(b, t, "done", out[t]))
  BY <1>2
<1>5. Leads(Steps, Closed(c, K, out), q, Closed(c, L, out))
  <2> HIDE DEF q
  <2> QED
    BY <1>4, CloseOne
<1> QED
  BY <1>3, <1>5

\* The events of the end of a turn close each of its items.
LEMMA FinishLeads ==
    ASSUME NEW s \in TurnStates, NEW d \in Clients, Matches(s, d), ~s.fin, s.started,
           NEW wrapped \in SUBSET {t \in ToSet(to.order) : ToolType[t] = "custom"},
           NEW out, out = collect_finish_output(wrapped),
           NEW q, q = emit_reasoning_done_event \o emit_text_done_events
                         \o emit_tool_call_done_events(wrapped)
    PROVE  q \in Seq(Events) /\ Leads(Steps, d, q, Closed(d, s.items, out))
<1>1. /\ s \in TurnRecords /\ Sound(s) /\ ToTypes /\ ContextMatches(s)
      /\ \A i \in Items : ItemMatches(s, d, i)
      /\ ~s.end /\ s.items \subseteq Items
  BY DEF TurnStates, Matches, ClientMatches, Sound, TurnRecords
<1>2. d.phase = "open"
  BY <1>1 DEF Matches, ClientMatches
<1>3. /\ out \in Outputs /\ DOMAIN out = s.items
      /\ \A i \in s.items :
            /\ out[i] = IF i \in Tools THEN Arguments(i, wrapped) ELSE Raw(i)
            /\ Visible(i) => out[i] = Raw(i)
            /\ out[i] \in Fragments
  BY FinishOutput, OutputFacts
<1>4. \A i \in s.items : /\ d.stage[i] = "streaming"
                         /\ d.content[i] = IF Visible(i) THEN out[i] ELSE <<>>
  BY <1>1, <1>3 DEF ItemMatches
<1> DEFINE K1 == s.items \cap {Reasoning}
           K2 == s.items \cap {Reasoning, Message}
           q1 == emit_reasoning_done_event
           q2 == emit_text_done_events
           q3 == emit_tool_call_done_events(wrapped)
           c0 == Closed(d, {}, out)
           c1 == Closed(d, K1, out)
           c2 == Closed(d, K2, out)
           c3 == Closed(d, s.items, out)
<1>5. q1 \in Seq(Events) /\ Leads(Steps, c0, q1, c1)
  <2>1. CASE Reasoning \in s.items
    <3> DEFINE x == out[Reasoning]
    <3>1. x = to.accumulated_reasoning /\ x \in Fragments /\ d.content[Reasoning] = x
          /\ d.stage[Reasoning] = "streaming"
      BY <1>3, <1>4, <2>1, Names DEF Raw, Visible
    <3>2. q1 = <<SourceEvent("done", Reasoning, x)>>
      BY <1>1, <2>1, <3>1 DEF emit_reasoning_done_event, On, ContextMatches
    <3>3. Reasoning \in Items /\ Reasoning \notin SilentTools
      BY Names DEF SilentTools
    <3>4. ASSUME NEW b \in Clients, b.phase = "open"
          PROVE  /\ SourceEvent("done", Reasoning, x) \in Events
                 /\ Leads(Steps, Put(b, Reasoning, "streaming", x), q1, Put(b, Reasoning, "done", x))
      <4> HIDE DEF x, q1
      <4> QED
        BY <3>1, <3>2, <3>3, <3>4, DoneStep
    <3>5. SourceEvent("done", Reasoning, x) \in Events
      BY <1>2, <3>4
    <3>6. q1 \in Seq(Events)
      BY <3>2, <3>5
    <3> DEFINE K0 == {}
    <3>7. K1 = K0 \cup {Reasoning} /\ K0 \in SUBSET DOMAIN out /\ Reasoning \notin K0
          /\ Reasoning \in DOMAIN out
      BY <1>3, <2>1
    <3>8. \A b \in Clients : b.phase = "open" =>
             Leads(Steps, Put(b, Reasoning, "streaming", d.content[Reasoning]), q1,
                   Put(b, Reasoning, "done", out[Reasoning]))
      BY <3>1, <3>4
    <3>9. Leads(Steps, Closed(d, K0, out), q1, Closed(d, K1, out))
      <4> HIDE DEF K0, K1, q1, x
      <4> QED
        BY <1>2, <1>3, <3>1, <3>7, <3>8, CloseOne
    <3> QED
      BY <3>6, <3>9
  <2>2. CASE Reasoning \notin s.items
    <3>1. q1 = <<>>
      BY <1>1, <2>2 DEF emit_reasoning_done_event, On, ContextMatches
    <3>2. K1 = {}
      BY <2>2
    <3> QED
      BY <3>1, <3>2, LeadsEmpty, EmptySeq
  <2> QED
    BY <2>1, <2>2
<1>6. q2 \in Seq(Events) /\ Leads(Steps, c1, q2, c2)
  <2>1. CASE Message \in s.items
    <3> DEFINE x == out[Message]
    <3>1. x = to.accumulated_text /\ x \in Fragments /\ d.content[Message] = x
          /\ d.stage[Message] = "streaming"
      BY <1>3, <1>4, <2>1, Names DEF Raw, Visible
    <3>2. q2 = <<SourceEvent("content_done", Message, x), SourceEvent("part_done", Message, x),
                 SourceEvent("done", Message, x)>>
      BY <1>1, <2>1, <3>1 DEF emit_text_done_events, On, ContextMatches
    <3>3. ASSUME NEW b \in Clients, b.phase = "open"
          PROVE  /\ q2 \in Seq(Events)
                 /\ Leads(Steps, Put(b, Message, "streaming", x), q2, Put(b, Message, "done", x))
      <4> HIDE DEF x, q2
      <4> QED
        BY <3>1, <3>2, <3>3, TextDone
    <3>4. q2 \in Seq(Events)
      BY <1>2, <3>3
    <3>5. K2 = K1 \cup {Message} /\ K1 \in SUBSET DOMAIN out /\ Message \notin K1
          /\ Message \in DOMAIN out
      BY <1>3, <2>1, Names
    <3>6. \A b \in Clients : b.phase = "open" =>
             Leads(Steps, Put(b, Message, "streaming", d.content[Message]), q2,
                   Put(b, Message, "done", out[Message]))
      BY <3>1, <3>3
    <3>7. Leads(Steps, Closed(d, K1, out), q2, Closed(d, K2, out))
      <4> HIDE DEF K1, K2, q2, x
      <4> QED
        BY <1>2, <1>3, <3>1, <3>5, <3>6, CloseOne
    <3> QED
      BY <3>4, <3>7
  <2>2. CASE Message \notin s.items
    <3>1. q2 = <<>>
      BY <1>1, <2>2 DEF emit_text_done_events, On, ContextMatches
    <3>2. K1 = K2
      BY <2>2
    <3> QED
      BY <3>1, <3>2, LeadsEmpty, EmptySeq
  <2> QED
    BY <2>1, <2>2
<1>7. q3 \in Seq(Events) /\ Leads(Steps, c2, q3, c3)
  <2> DEFINE order == to.order
             n == Len(order)
             seqs == [k \in DOMAIN order |-> tool_call_done_events(order[k], wrapped)]
             K(k) == K2 \cup {order[j] : j \in 1..k}
             h == [k \in 0..n |-> Closed(d, K(k), out)]
  <2>1. /\ order \in Seq(Tools) /\ n \in Nat /\ DOMAIN order = 1..n
        /\ \A k \in 1..n : order[k] \in Tools /\ order[k] \in s.items
        /\ \A k, j \in 1..n : order[k] = order[j] => k = j
        /\ \A t \in s.items \cap Tools : \E k \in 1..n : t = order[k]
    <3>1. order \in Seq(Tools)
      BY <1>1 DEF ToTypes
    <3>2. n \in Nat /\ DOMAIN order = 1..n /\ \A k \in 1..n : order[k] \in Tools
      BY <3>1, LenProperties, ElementOfSeq
    <3>3. ToSet(order) = s.items \cap Tools
      BY <1>1 DEF ContextMatches
    <3>4. ToSet(order) = {order[k] : k \in 1..n}
      BY <3>2 DEF ToSet
    <3> HIDE DEF order, n
    <3>5. \A k \in 1..n : order[k] \in s.items
      BY <3>3, <3>4
    <3>6. \A t \in s.items \cap Tools : \E k \in 1..n : t = order[k]
      BY <3>3, <3>4
    <3>7. \A k, j \in 1..n : order[k] = order[j] => k = j
      BY <1>1 DEF ContextMatches, Distinct, order, n
    <3> QED
      BY <3>1, <3>2, <3>5, <3>6, <3>7
  <2> HIDE DEF order
  <2>2. ASSUME NEW k \in 1..n
        PROVE  /\ tool_call_done_events(order[k], wrapped) \in Seq(Events)
               /\ Leads(Steps, Closed(d, K(k - 1), out), tool_call_done_events(order[k], wrapped),
                        Closed(d, K(k), out))
    <3> DEFINE t == order[k]
               A == K(k - 1)
               B == K(k)
    <3>1. t \in Tools /\ t \in s.items
      BY <2>1
    <3>2. B = A \cup {t} /\ A \in SUBSET DOMAIN out /\ t \notin A /\ t \in DOMAIN out
      <4>1. 1..k = (1..(k - 1)) \cup {k} /\ k \notin 1..(k - 1) /\ 1..k \subseteq 1..n
        BY <2>1
      <4>2. {order[j] : j \in 1..k} = {order[j] : j \in 1..(k - 1)} \cup {order[k]}
        BY <4>1
      <4>3. order[k] \notin {order[j] : j \in 1..(k - 1)}
        BY <2>1, <4>1
      <4>4. t \notin K2
        BY <3>1, Names
      <4>5. {order[j] : j \in 1..(k - 1)} \subseteq s.items
        BY <2>1, <4>1
      <4> QED
        BY <1>3, <3>1, <4>2, <4>3, <4>4, <4>5
    <3> HIDE DEF A, B, t, K, n, seqs, h
    <3>3. out[t] = Arguments(t, wrapped)
      BY <1>3, <3>1
    <3>4. d.stage[t] = "streaming" /\ d.content[t] = IF Visible(t) THEN out[t] ELSE <<>>
      BY <1>4, <3>1
    <3>5. Visible(t) <=> Streamed(t)
      BY <3>1 DEF Visible, Streamed
    <3>6. d.content[t] = IF Streamed(t) THEN out[t] ELSE <<>>
      <4>1. CASE Streamed(t)
        BY <3>4, <3>5, <4>1
      <4>2. CASE ~Streamed(t)
        BY <3>4, <3>5, <4>2
      <4> QED
        BY <4>1, <4>2
    <3>7. /\ tool_call_done_events(t, wrapped) \in Seq(Events)
          /\ Leads(Steps, Closed(d, A, out), tool_call_done_events(t, wrapped), Closed(d, B, out))
      BY <1>2, <1>3, <3>1, <3>2, <3>3, <3>4, <3>6, CloseTool
    <3> QED
      BY <3>7 DEF A, B, t
  <2>3. seqs \in Seq(Seq(Events)) /\ Len(seqs) = n
    <3>1. seqs = [k \in 1..n |-> tool_call_done_events(order[k], wrapped)]
      BY <2>1
    <3>2. seqs \in [1..n -> Seq(Events)]
      BY <2>2, <3>1
    <3> HIDE DEF seqs, n
    <3> QED
      BY <2>1, <3>2, FunctionIsSeq
  <2>4. ASSUME NEW k \in 1..Len(seqs)
        PROVE  Leads(Steps, h[k - 1], seqs[k], h[k])
    <3>1. k \in 1..n /\ k \in 0..n /\ k - 1 \in 0..n
      BY <2>1, <2>3
    <3>2. /\ h[k - 1] = Closed(d, K(k - 1), out) /\ h[k] = Closed(d, K(k), out)
          /\ seqs[k] = tool_call_done_events(order[k], wrapped)
      <4> HIDE DEF K
      <4> QED
        BY <2>1, <3>1
    <3> HIDE DEF h, seqs, K
    <3> QED
      BY <2>2, <3>1, <3>2
  <2>5. h[0] = c2
    <3>1. K(0) = K2 /\ 0 \in 0..n
      BY <2>1
    <3> HIDE DEF K, K2
    <3> QED
      BY <3>1
  <2>6. h[Len(seqs)] = c3
    <3>1. K(n) = s.items
      <4> HIDE DEF n
      <4> QED
        BY <1>1, <2>1, Names
    <3>2. n \in 0..n
      BY <2>1
    <3>3. h[n] = Closed(d, K(n), out)
      <4> HIDE DEF n, K
      <4> QED
        BY <3>2
    <3> QED
      BY <2>3, <3>1, <3>3
  <2>7. q3 = FlattenSeq(seqs)
    BY DEF emit_tool_call_done_events, order
  <2> HIDE DEF seqs, h
  <2>8. FlattenSeq(seqs) \in Seq(Events) /\ Leads(Steps, h[0], FlattenSeq(seqs), h[Len(seqs)])
    BY <2>3, <2>4, FlattenLeads
  <2> QED
    BY <2>5, <2>6, <2>7, <2>8
<1>8. c0 = d
  BY <1>3, ClosedNone
<1>9. q = (q1 \o q2) \o q3
  OBVIOUS
<1> HIDE DEF q1, q2, q3, c0, c1, c2, c3
<1>10. q1 \o q2 \in Seq(Events) /\ Leads(Steps, c0, q1 \o q2, c2)
  BY <1>5, <1>6, LeadsConcat, ConcatProperties
<1> DEFINE q12 == q1 \o q2
<1>11. q12 \in Seq(Events) /\ Leads(Steps, c0, q12, c2) /\ q = q12 \o q3
  BY <1>9, <1>10
<1> HIDE DEF q12
<1>12. q12 \o q3 \in Seq(Events) /\ Leads(Steps, c0, q12 \o q3, c3)
  BY <1>7, <1>11, LeadsConcat, ConcatProperties
<1> QED
  BY <1>8, <1>11, <1>12 DEF c3

-----------------------------------------------------------------------------
(* The handlers of the converter, one after the other: what they emit leads  *)
(* the client to where the turn is then.                                     *)

\* An item a handler did not touch.
LEMMA ItemSame ==
    ASSUME NEW s, NEW d, NEW u, NEW c, NEW i, ItemMatches(s, d, i), Raw(i)' = Raw(i),
           persisted \subseteq persisted', u.content[i] = s.content[i],
           i \in u.items <=> i \in s.items, u.fin <=> s.fin,
           c.stage[i] = d.stage[i], c.content[i] = d.content[i]
    PROVE  ItemMatches(u, c, i)'
  BY DEF ItemMatches, Visible, Streamed, Localized

LEMMA RawAbsent ==
    ASSUME NEW s \in TurnStates, NEW d, NEW i \in Items, ItemMatches(s, d, i), i \notin s.items,
           i \notin Tools
    PROVE  Raw(i) = <<>>
<1>1. s.content[i] = <<>>
  BY DEF TurnStates, Sound
<1> QED
  BY <1>1, SourcesIs DEF ItemMatches

\* A piece of an item has come.
LEMMA PieceHeard ==
    ASSUME NEW s \in TurnStates, NEW d \in Clients, Matches(s, d),
           NEW e \in IREvents(persisted),
           e.type \in {"text_delta", "reasoning_delta", "tool_call_delta"},
           NEW u \in TurnStates, NEW i, Piece(s, e, u, i),
           persisted' = persisted, ToTypes', ContextMatches(u)',
           to'.pending_response = to.pending_response,
           Raw(i)' = Raw(i) \o e.data,
           \A j \in Items : j # i => Raw(j)' = Raw(j),
           NEW c, c = Put(d, i, "streaming", IF Visible(i) THEN d.content[i] \o e.data ELSE <<>>)
    PROVE  c \in Clients /\ Matches(u, c)'
<1> DEFINE x == IF Visible(i) THEN d.content[i] \o e.data ELSE <<>>
<1>1. /\ i \in Items /\ ~s.fin /\ ~s.end /\ s.started
      /\ u.fin = s.fin /\ u.end = s.end /\ u.started = s.started
      /\ u.items = s.items \cup {i}
      /\ u.content[i] = s.content[i] \o Sources(e.data)
      /\ \A j \in Items : j # i => u.content[j] = s.content[j]
      /\ i \in Tools => e.type = "tool_call_delta" /\ i = e.tool /\ i \in s.items
      /\ Rewritten(e.data) => i \in s.fresh
  BY Names DEF Piece
<1>2. /\ ContextMatches(s) /\ ToTypes /\ ItemMatches(s, d, i)
      /\ \A j \in Items : ItemMatches(s, d, j)
      /\ d.phase = "open" /\ to.pending_response = <<>>
  BY <1>1 DEF Matches, ClientMatches, ResponseMatches
<1>3. Raw(i) \in Fragments /\ e.data \in Fragments /\ d.content[i] \in Fragments
  BY <1>1, <1>2, RawType, IREventFacts DEF Clients
<1>4. ~Rewritten(e.data) \/ Raw(i) = <<>>
  <2> SUFFICES ASSUME Rewritten(e.data)
               PROVE  Raw(i) = <<>>
    OBVIOUS
  <2>1. i \in s.fresh
    BY <1>1
  <2>2. to.args[i] = <<>>
    BY <1>2, <2>1 DEF ContextMatches
  <2>3. i \in Tools
    BY <2>1 DEF TurnStates, TurnRecords
  <2> QED
    BY <2>2, <2>3, Names DEF Raw
<1>5. d.content[i] = IF Visible(i) THEN Raw(i) ELSE <<>>
  <2>1. CASE i \in s.items
    BY <1>1, <1>2, <2>1 DEF ItemMatches
  <2>2. CASE i \notin s.items
    <3>1. i \notin Tools
      BY <1>1, <2>2
    <3>2. Raw(i) = <<>>
      BY <1>1, <1>2, <2>2, <3>1, RawAbsent
    <3> QED
      BY <1>1, <1>2, <2>2, <3>2 DEF ItemMatches
  <2> QED
    BY <2>1, <2>2
<1> DEFINE r == Raw(i)'
<1>6. /\ r = Raw(i) \o e.data /\ r \in Fragments
      /\ Sources(r) = Sources(Raw(i)) \o Sources(e.data)
      /\ Rewritten(r) => Rewritten(Raw(i)) \/ Rewritten(e.data)
  <2> DEFINE a == Raw(i)
             b == e.data
  <2>1. a \in Fragments /\ b \in Fragments /\ (~Rewritten(b) \/ a = <<>>) /\ r = a \o b
    BY <1>3, <1>4
  <2> HIDE DEF a, b, r
  <2>2. /\ a \o b \in Fragments /\ Sources(a \o b) = Sources(a) \o Sources(b)
        /\ Rewritten(a \o b) => Rewritten(a) \/ Rewritten(b)
    BY <2>1, SourcesJoin
  <2>3. /\ r = a \o b /\ r \in Fragments /\ Sources(r) = Sources(a) \o Sources(b)
        /\ Rewritten(r) => Rewritten(a) \/ Rewritten(b)
    BY <2>1, <2>2
  <2> QED
    BY <2>3 DEF a, b
<1>7. x = IF Visible(i) THEN r ELSE <<>>
  <2>1. CASE Visible(i)
    <3>1. d.content[i] = Raw(i)
      BY <1>5, <2>1
    <3>2. x = d.content[i] \o e.data
      BY <2>1
    <3> QED
      BY <1>6, <2>1, <3>1, <3>2
  <2>2. CASE ~Visible(i)
    BY <2>2
  <2> QED
    BY <2>1, <2>2
<1>8. x \in Fragments /\ "streaming" \in Stages
  BY <1>6, <1>7, FragmentsConcat DEF Stages
<1> HIDE DEF x
<1>9. /\ c \in Clients /\ c.phase = d.phase /\ c.listed = d.listed /\ c.usage = d.usage
      /\ c.stage[i] = "streaming" /\ c.content[i] = x
      /\ \A j \in Items : j # i => c.stage[j] = d.stage[j] /\ c.content[j] = d.content[j]
  <2>1. c = Put(d, i, "streaming", x)
    BY DEF x
  <2> QED
    BY <1>1, <1>8, <2>1, PutFacts
<1>10. Rewritten(r) => i \in Tools /\ Localized(i) /\ i \in persisted
  <2>1. Rewritten(e.data) => i \in Tools /\ Localized(i) /\ i \in persisted
    <3>1. Rewritten(e.data) => i \in Tools
      BY <1>1 DEF TurnStates, TurnRecords
    <3> QED
      BY <1>1, <3>1, IREventFacts
  <2> QED
    BY <1>2, <1>6, <2>1 DEF ItemMatches
<1>11. ItemMatches(u, c, i)'
  <2>1. Sources(r) = u.content[i]
    BY <1>1, <1>2, <1>6 DEF ItemMatches
  <2>2. i \in u.items /\ ~u.fin
    BY <1>1
  <2>3. Rewritten(<<>>) = FALSE
    BY DEF Rewritten
  <2>4. i \in Tools /\ Localized(i) /\ Rewritten(x) => i \in persisted
    BY <1>7, <1>10, <2>3
  <2> HIDE DEF r
  <2>5. /\ Sources(r) = u.content[i]
        /\ Rewritten(r) => i \in Tools /\ Localized(i) /\ i \in persisted'
        /\ c.stage[i] = IF i \notin u.items THEN "absent"
                        ELSE IF u.fin THEN "done" ELSE "streaming"
        /\ ~u.fin => c.content[i] = IF i \in u.items /\ Visible(i) THEN r ELSE <<>>
        /\ u.fin => Sources(c.content[i]) = u.content[i]
        /\ i \in Tools /\ Localized(i) /\ Rewritten(c.content[i]) => i \in persisted'
    BY <1>7, <1>9, <1>10, <2>1, <2>2, <2>4
  <2> QED
    BY <2>5 DEF r, ItemMatches, Visible, Streamed, Localized
<1>12. ASSUME NEW j \in Items, j # i
       PROVE  ItemMatches(u, c, j)'
  <2>1. j \in u.items <=> j \in s.items
    BY <1>1, <1>12
  <2> QED
    BY <1>1, <1>2, <1>9, <1>12, <2>1, ItemSame
<1>13. ClientMatches(u, c)'
  <2>1. \A j \in Items : ItemMatches(u, c, j)'
    BY <1>11, <1>12
  <2> QED
    BY <1>1, <1>2, <1>9, <2>1 DEF ClientMatches
<1>14. ResponseMatches(u, c)'
  BY <1>1, <1>2 DEF ResponseMatches
<1> QED
  BY <1>9, <1>13, <1>14 DEF Matches

\* handle_text_delta_to_p.
LEMMA TextHeard ==
    ASSUME NEW s \in TurnStates, NEW d \in Clients, Matches(s, d),
           NEW e \in IREvents(persisted), e = Head(transformed), TurnLegal(s, e),
           NEW u, u = TurnAfter(s, e), handle_text_delta_to_p
    PROVE  \E q \in Seq(Events), c \in Clients :
              events' = events \o q /\ Leads(Steps, d, q, c) /\ Matches(u, c)'
<1> DEFINE text == e.data
           p == On(~to.output_item_emitted, build_message_preamble_events)
           f == SourceEvent("delta", Message, text)
<1>1. /\ e.type = "text_delta" /\ persisted' = persisted
      /\ to' = [to EXCEPT !.accumulated_text = @ \o text, !.output_item_emitted = TRUE]
      /\ events' = events \o (p \o <<f>>)
  BY DEF handle_text_delta_to_p, AtType, Emit, adaptVars
<1>2. u \in TurnStates /\ Piece(s, e, u, Message)
  <2>1. Target(e) = Message
    BY <1>1 DEF Target
  <2> QED
    BY <1>1, <2>1, PieceStep
<1>3. /\ u.started = s.started /\ u.end = s.end /\ u.fin = s.fin /\ u.usage = s.usage
      /\ u.items = s.items \cup {Message} /\ u.fresh = s.fresh \ {Message}
      /\ s.started /\ ~s.fin /\ ~s.end
  BY <1>2 DEF Piece
<1>4. ToTypes /\ ContextMatches(s) /\ ItemMatches(s, d, Message) /\ d.phase = "open"
  BY <1>3, Names DEF Matches, ClientMatches
<1>5. text \in Fragments /\ to.accumulated_text \o text \in Fragments
  BY <1>4, IREventFacts, FragmentsConcat DEF ToTypes
<1> HIDE DEF text
<1>6. [to EXCEPT !.accumulated_text = @ \o text, !.output_item_emitted = TRUE] \in
         [started : BOOLEAN, ended : BOOLEAN,
          output_item_emitted : BOOLEAN, accumulated_text : Fragments,
          reasoning_seen : BOOLEAN, reasoning_item_emitted : BOOLEAN,
          reasoning_item_done_emitted : BOOLEAN, accumulated_reasoning : Fragments,
          order : Seq(Tools), args : [Tools -> Fragments],
          pending_usage : Usages, pending_response : Seq(Responses)]
  BY <1>4, <1>5 DEF ToTypes
<1>7. ToTypes'
  BY <1>1, <1>6 DEF ToTypes
<1>8. /\ to'.output_item_emitted = TRUE /\ to'.accumulated_text = to.accumulated_text \o text
      /\ to'.started = to.started /\ to'.ended = to.ended
      /\ to'.reasoning_seen = to.reasoning_seen
      /\ to'.reasoning_item_emitted = to.reasoning_item_emitted
      /\ to'.reasoning_item_done_emitted = to.reasoning_item_done_emitted
      /\ to'.accumulated_reasoning = to.accumulated_reasoning
      /\ to'.order = to.order /\ to'.args = to.args
      /\ to'.pending_usage = to.pending_usage /\ to'.pending_response = to.pending_response
  BY <1>1, <1>4 DEF ToTypes
<1>9. ContextMatches(u)'
  <2>1. /\ to'.started <=> u.started
        /\ to'.ended <=> u.end
        /\ to'.output_item_emitted <=> Message \in u.items
        /\ to'.reasoning_seen <=> Reasoning \in u.items
        /\ to'.reasoning_item_emitted <=> Reasoning \in u.items
        /\ to'.reasoning_item_done_emitted => u.fin
    BY <1>3, <1>4, <1>8, Names DEF ContextMatches
  <2>2. ToSet(to'.order) = u.items \cap Tools /\ Distinct(to'.order)
    BY <1>3, <1>4, <1>8, Names DEF ContextMatches
  <2>3. /\ \A t \in u.fresh : to'.args[t] = <<>>
        /\ ~u.end => to'.pending_usage = IF u.usage = {} THEN NotSet ELSE u.usage
    BY <1>3, <1>4, <1>8 DEF ContextMatches
  <2> QED
    BY <2>1, <2>2, <2>3 DEF ContextMatches
<1>10. Raw(Message)' = Raw(Message) \o text /\ \A j \in Items : j # Message => Raw(j)' = Raw(j)
  BY <1>8, Names DEF Raw
<1>11. Visible(Message) /\ Message \in Items /\ Message \notin SilentTools
  BY Names DEF Visible, SilentTools
<1> DEFINE x == d.content[Message]
           c == Put(d, Message, "streaming", x \o text)
<1>12. c \in Clients /\ Matches(u, c)'
  <2>1. c = Put(d, Message, "streaming", IF Visible(Message) THEN d.content[Message] \o e.data ELSE <<>>)
    BY <1>11 DEF text
  <2> HIDE DEF c
  <2> QED
    BY <1>1, <1>2, <1>7, <1>8, <1>9, <1>10, <2>1, PieceHeard DEF text
<1>13. x \in Fragments
  BY <1>11 DEF Clients
<1>14. f \in Events /\ Leads(Steps, Put(d, Message, "streaming", x), <<f>>, c)
  <2> HIDE DEF x
  <2> QED
    BY <1>4, <1>5, <1>11, <1>13, DeltaStep
<1>15. p \in Seq(Events) /\ Leads(Steps, d, p, Put(d, Message, "streaming", x))
  <2>1. CASE Message \in s.items
    <3>1. p = <<>> /\ d.stage[Message] = "streaming"
      BY <1>3, <1>4, <2>1 DEF ContextMatches, ItemMatches, On
    <3>2. d = Put(d, Message, "streaming", x)
      BY <1>11, <3>1, PutSame
    <3> QED
      BY <3>1, <3>2, LeadsEmpty, EmptySeq
  <2>2. CASE Message \notin s.items
    <3> DEFINE g == SourceEvent("added", Message, <<>>)
               h == SourceEvent("part_added", Message, <<>>)
    <3>1. p = <<g, h>> /\ d.stage[Message] = "absent"
      BY <1>4, <2>2 DEF ContextMatches, ItemMatches, On, build_message_preamble_events
    <3>2. d = Put(d, Message, "absent", x)
      BY <1>11, <3>1, PutSame
    <3>3. g \in Events /\ Leads(Steps, Put(d, Message, "absent", x), <<g>>, Put(d, Message, "added", x))
      BY <1>4, <1>11, <1>13, AddedStep
    <3>4. h \in Events /\ Leads(Steps, Put(d, Message, "added", x), <<h>>, Put(d, Message, "streaming", x))
      BY <1>4, <1>13, PartAddedStep
    <3> HIDE DEF g, h
    <3>5. <<g, h>> \in Seq(Events)
          /\ Leads(Steps, Put(d, Message, "absent", x), <<g, h>>, Put(d, Message, "streaming", x))
      BY <3>3, <3>4, LeadsTwo
    <3> HIDE DEF p, x
    <3> QED
      BY <3>1, <3>2, <3>5
  <2> QED
    BY <2>1, <2>2
<1> DEFINE q == p \o <<f>>
<1>16. q \in Seq(Events) /\ Leads(Steps, d, q, c)
  <2>1. <<f>> \in Seq(Events)
    BY <1>14
  <2> HIDE DEF p, f, c, x
  <2> QED
    BY <1>14, <1>15, <2>1, ConcatProperties, LeadsConcat
<1>17. events' = events \o q
  BY <1>1
<1> HIDE DEF q, c
<1> QED
  BY <1>12, <1>16, <1>17

\* handle_reasoning_delta_to_p.
LEMMA ReasoningHeard ==
    ASSUME NEW s \in TurnStates, NEW d \in Clients, Matches(s, d),
           NEW e \in IREvents(persisted), e = Head(transformed), TurnLegal(s, e),
           NEW u, u = TurnAfter(s, e), handle_reasoning_delta_to_p
    PROVE  \E q \in Seq(Events), c \in Clients :
              events' = events \o q /\ Leads(Steps, d, q, c) /\ Matches(u, c)'
<1> DEFINE reasoning == e.data
           g == SourceEvent("added", Reasoning, <<>>)
           p == On(~to.reasoning_item_emitted, <<g>>)
           f == SourceEvent("delta", Reasoning, reasoning)
<1>1. /\ e.type = "reasoning_delta" /\ persisted' = persisted
      /\ to' = [to EXCEPT !.reasoning_seen = TRUE, !.reasoning_item_emitted = TRUE,
                          !.accumulated_reasoning = @ \o reasoning]
      /\ events' = events \o (p \o <<f>>)
  BY DEF handle_reasoning_delta_to_p, AtType, Emit, adaptVars
<1>2. u \in TurnStates /\ Piece(s, e, u, Reasoning)
  <2>1. Target(e) = Reasoning
    BY <1>1 DEF Target
  <2> QED
    BY <1>1, <2>1, PieceStep
<1>3. /\ u.started = s.started /\ u.end = s.end /\ u.fin = s.fin /\ u.usage = s.usage
      /\ u.items = s.items \cup {Reasoning} /\ u.fresh = s.fresh \ {Reasoning}
      /\ s.started /\ ~s.fin /\ ~s.end
  BY <1>2 DEF Piece
<1>4. ToTypes /\ ContextMatches(s) /\ ItemMatches(s, d, Reasoning) /\ d.phase = "open"
  BY <1>3, Names DEF Matches, ClientMatches
<1>5. reasoning \in Fragments /\ to.accumulated_reasoning \o reasoning \in Fragments
  BY <1>4, IREventFacts, FragmentsConcat DEF ToTypes
<1> HIDE DEF reasoning
<1>6. [to EXCEPT !.reasoning_seen = TRUE, !.reasoning_item_emitted = TRUE,
                 !.accumulated_reasoning = @ \o reasoning] \in
         [started : BOOLEAN, ended : BOOLEAN,
          output_item_emitted : BOOLEAN, accumulated_text : Fragments,
          reasoning_seen : BOOLEAN, reasoning_item_emitted : BOOLEAN,
          reasoning_item_done_emitted : BOOLEAN, accumulated_reasoning : Fragments,
          order : Seq(Tools), args : [Tools -> Fragments],
          pending_usage : Usages, pending_response : Seq(Responses)]
  BY <1>4, <1>5 DEF ToTypes
<1>7. ToTypes'
  BY <1>1, <1>6 DEF ToTypes
<1>8. /\ to'.accumulated_reasoning = to.accumulated_reasoning \o reasoning
      /\ to'.reasoning_seen = TRUE /\ to'.reasoning_item_emitted = TRUE
      /\ to'.started = to.started /\ to'.ended = to.ended
      /\ to'.output_item_emitted = to.output_item_emitted
      /\ to'.accumulated_text = to.accumulated_text
      /\ to'.reasoning_item_done_emitted = to.reasoning_item_done_emitted
      /\ to'.order = to.order /\ to'.args = to.args
      /\ to'.pending_usage = to.pending_usage /\ to'.pending_response = to.pending_response
  BY <1>1, <1>4 DEF ToTypes
<1>9. ContextMatches(u)'
  <2>1. /\ to'.started <=> u.started
        /\ to'.ended <=> u.end
        /\ to'.output_item_emitted <=> Message \in u.items
        /\ to'.reasoning_seen <=> Reasoning \in u.items
        /\ to'.reasoning_item_emitted <=> Reasoning \in u.items
        /\ to'.reasoning_item_done_emitted => u.fin
    BY <1>3, <1>4, <1>8, Names DEF ContextMatches
  <2>2. ToSet(to'.order) = u.items \cap Tools /\ Distinct(to'.order)
    BY <1>3, <1>4, <1>8, Names DEF ContextMatches
  <2>3. /\ \A t \in u.fresh : to'.args[t] = <<>>
        /\ ~u.end => to'.pending_usage = IF u.usage = {} THEN NotSet ELSE u.usage
    BY <1>3, <1>4, <1>8 DEF ContextMatches
  <2> QED
    BY <2>1, <2>2, <2>3 DEF ContextMatches
<1>10. Raw(Reasoning)' = Raw(Reasoning) \o reasoning
       /\ \A j \in Items : j # Reasoning => Raw(j)' = Raw(j)
  BY <1>8, Names DEF Raw
<1>11. /\ Visible(Reasoning) /\ Reasoning \in Items /\ Reasoning \notin SilentTools
       /\ Reasoning # Message
  BY Names DEF Visible, SilentTools
<1> DEFINE x == d.content[Reasoning]
           c == Put(d, Reasoning, "streaming", x \o reasoning)
<1>12. c \in Clients /\ Matches(u, c)'
  <2>1. c = Put(d, Reasoning, "streaming",
                IF Visible(Reasoning) THEN d.content[Reasoning] \o e.data ELSE <<>>)
    BY <1>11 DEF reasoning
  <2> HIDE DEF c
  <2> QED
    BY <1>1, <1>2, <1>7, <1>8, <1>9, <1>10, <2>1, PieceHeard DEF reasoning
<1>13. x \in Fragments
  BY <1>11 DEF Clients
<1>14. f \in Events /\ Leads(Steps, Put(d, Reasoning, "streaming", x), <<f>>, c)
  <2> HIDE DEF x
  <2> QED
    BY <1>4, <1>5, <1>11, <1>13, DeltaStep
<1>15. p \in Seq(Events) /\ Leads(Steps, d, p, Put(d, Reasoning, "streaming", x))
  <2>1. CASE Reasoning \in s.items
    <3>1. p = <<>> /\ d.stage[Reasoning] = "streaming"
      BY <1>3, <1>4, <2>1 DEF ContextMatches, ItemMatches, On
    <3>2. d = Put(d, Reasoning, "streaming", x)
      BY <1>11, <3>1, PutSame
    <3> QED
      BY <3>1, <3>2, LeadsEmpty, EmptySeq
  <2>2. CASE Reasoning \notin s.items
    <3>1. p = <<g>> /\ d.stage[Reasoning] = "absent"
      BY <1>4, <2>2 DEF ContextMatches, ItemMatches, On
    <3>2. d = Put(d, Reasoning, "absent", x)
      BY <1>11, <3>1, PutSame
    <3>3. g \in Events
          /\ Leads(Steps, Put(d, Reasoning, "absent", x), <<g>>, Put(d, Reasoning, "streaming", x))
      BY <1>4, <1>11, <1>13, AddedStep
    <3> HIDE DEF g
    <3>4. <<g>> \in Seq(Events)
      BY <3>3
    <3> QED
      BY <3>1, <3>2, <3>3, <3>4
  <2> QED
    BY <2>1, <2>2
<1> DEFINE q == p \o <<f>>
<1>16. q \in Seq(Events) /\ Leads(Steps, d, q, c)
  <2>1. <<f>> \in Seq(Events)
    BY <1>14
  <2> HIDE DEF p, f, c, x
  <2> QED
    BY <1>14, <1>15, <2>1, ConcatProperties, LeadsConcat
<1>17. events' = events \o q
  BY <1>1
<1> HIDE DEF q, c
<1> QED
  BY <1>12, <1>16, <1>17

LEMMA AppendNew ==
    ASSUME NEW X, NEW q \in Seq(X), NEW t \in X, t \notin ToSet(q),
           Distinct(q)
    PROVE  /\ Append(q, t) \in Seq(X)
           /\ ToSet(Append(q, t)) = ToSet(q) \cup {t}
           /\ Distinct(Append(q, t))
<1> DEFINE n == Len(q)
           r == Append(q, t)
<1>1. /\ r \in Seq(X) /\ n \in Nat /\ Len(r) = n + 1 /\ r[n + 1] = t
      /\ \A k \in 1..n : r[k] = q[k]
      /\ DOMAIN q = 1..n /\ DOMAIN r = 1..(n + 1)
  BY AppendProperties, LenProperties
<1> HIDE DEF n, r
<1>2. ToSet(q) = {q[k] : k \in 1..n} /\ ToSet(r) = {r[k] : k \in 1..(n + 1)}
  BY <1>1 DEF ToSet
<1>3. 1..(n + 1) = (1..n) \cup {n + 1}
  BY <1>1
<1>4. ToSet(r) = ToSet(q) \cup {t}
  BY <1>1, <1>2, <1>3
<1>5. ASSUME NEW k \in 1..(n + 1), NEW j \in 1..(n + 1), r[k] = r[j]
      PROVE  k = j
  <2>1. \A i \in 1..n : r[i] # t
    BY <1>1, <1>2
  <2>2. CASE k = n + 1 \/ j = n + 1
    BY <1>1, <1>3, <1>5, <2>1, <2>2
  <2>3. CASE k # n + 1 /\ j # n + 1
    <3>1. k \in 1..n /\ j \in 1..n
      BY <1>3, <2>3
    <3> QED
      BY <1>1, <1>5, <3>1 DEF n, Distinct
  <2> QED
    BY <2>2, <2>3
<1> QED
  BY <1>1, <1>4, <1>5 DEF Distinct, r

\* handle_tool_call_start_to_p.
LEMMA CallHeard ==
    ASSUME NEW s \in TurnStates, NEW d \in Clients, Matches(s, d),
           NEW e \in IREvents(persisted), e = Head(transformed), TurnLegal(s, e),
           NEW u, u = TurnAfter(s, e), handle_tool_call_start_to_p
    PROVE  \E q \in Seq(Events), c \in Clients :
              events' = events \o q /\ Leads(Steps, d, q, c) /\ Matches(u, c)'
<1> DEFINE t == e.tool
           q == <<SourceEvent("added", t, <<>>)>>
           order == Append(to.order, t)
           args == [to.args EXCEPT ![t] = <<>>]
<1>1. /\ e.type = "tool_call_start" /\ persisted' = persisted
      /\ to' = [to EXCEPT !.args[t] = <<>>,
                          !.order = IF t \in ToSet(@) THEN @ ELSE Append(@, t)]
      /\ events' = events \o q
  BY DEF handle_tool_call_start_to_p, AtType, Emit, adaptVars
<1>2. /\ u = [s EXCEPT !.items = @ \cup {t}, !.fresh = @ \cup {t}] /\ u \in TurnStates
      /\ t \in Tools /\ t \in Items /\ t \notin s.items
      /\ s.started /\ ~s.fin /\ ~s.end /\ s.content[t] = <<>>
  BY <1>1, CallStep
<1> HIDE DEF t
<1>3. /\ u.started = s.started /\ u.end = s.end /\ u.fin = s.fin /\ u.usage = s.usage
      /\ u.items = s.items \cup {t} /\ u.fresh = s.fresh \cup {t} /\ u.content = s.content
      /\ s.fresh \subseteq Tools
  BY <1>2 DEF TurnStates, TurnRecords
<1>4. /\ ToTypes /\ ContextMatches(s) /\ ItemMatches(s, d, t) /\ d.phase = "open"
      /\ \A j \in Items : ItemMatches(s, d, j)
      /\ to.pending_response = <<>>
  BY <1>2 DEF Matches, ClientMatches, ResponseMatches
<1>5. /\ to.order \in Seq(Tools) /\ t \notin ToSet(to.order) /\ DOMAIN to.args = Items \cap Tools
      /\ args \in [Tools -> Fragments] /\ args[t] = <<>>
      /\ \A j \in Tools : j # t => args[j] = to.args[j]
  <2>1. to.args \in [Tools -> Fragments] /\ to.order \in Seq(Tools)
    BY <1>4 DEF ToTypes
  <2>2. <<>> \in Fragments /\ Items \cap Tools = Tools
    BY EmptySeq, Names DEF Fragments
  <2>3. t \notin ToSet(to.order)
    BY <1>2, <1>4 DEF ContextMatches
  <2> QED
    BY <1>2, <2>1, <2>2, <2>3
<1>6. order \in Seq(Tools) /\ ToSet(order) = ToSet(to.order) \cup {t} /\ Distinct(order)
  <2>1. Distinct(to.order)
    BY <1>4 DEF ContextMatches
  <2> DEFINE o == to.order
  <2>2. o \in Seq(Tools) /\ t \notin ToSet(o) /\ order = Append(o, t) /\ Distinct(o)
    BY <1>5, <2>1
  <2> HIDE DEF o, order
  <2>3. order \in Seq(Tools) /\ ToSet(order) = ToSet(o) \cup {t} /\ Distinct(order)
    <3>1. t \in Tools
      BY <1>2
    <3> QED
      BY <2>2, <3>1, AppendNew
  <2> QED
    BY <2>3 DEF o
<1>7. to' = [to EXCEPT !.args = args, !.order = order]
  <2>1. to' = [to EXCEPT !.args[t] = <<>>, !.order = Append(@, t)]
    BY <1>1, <1>5
  <2> QED
    BY <2>1
<1> HIDE DEF args, order
<1>8. [to EXCEPT !.args = args, !.order = order] \in
         [started : BOOLEAN, ended : BOOLEAN,
          output_item_emitted : BOOLEAN, accumulated_text : Fragments,
          reasoning_seen : BOOLEAN, reasoning_item_emitted : BOOLEAN,
          reasoning_item_done_emitted : BOOLEAN, accumulated_reasoning : Fragments,
          order : Seq(Tools), args : [Tools -> Fragments],
          pending_usage : Usages, pending_response : Seq(Responses)]
  BY <1>4, <1>5, <1>6 DEF ToTypes
<1>9. ToTypes'
  BY <1>7, <1>8 DEF ToTypes
<1>10. /\ to'.order = order /\ to'.args = args
       /\ to'.started = to.started /\ to'.ended = to.ended
       /\ to'.output_item_emitted = to.output_item_emitted
       /\ to'.accumulated_text = to.accumulated_text
       /\ to'.reasoning_seen = to.reasoning_seen
       /\ to'.reasoning_item_emitted = to.reasoning_item_emitted
       /\ to'.reasoning_item_done_emitted = to.reasoning_item_done_emitted
       /\ to'.accumulated_reasoning = to.accumulated_reasoning
       /\ to'.pending_usage = to.pending_usage /\ to'.pending_response = to.pending_response
  BY <1>4, <1>7 DEF ToTypes
<1>11. ContextMatches(u)'
  <2>1. /\ to'.started <=> u.started
        /\ to'.ended <=> u.end
        /\ to'.output_item_emitted <=> Message \in u.items
        /\ to'.reasoning_seen <=> Reasoning \in u.items
        /\ to'.reasoning_item_emitted <=> Reasoning \in u.items
        /\ to'.reasoning_item_done_emitted => u.fin
    BY <1>2, <1>3, <1>4, <1>10, Names DEF ContextMatches
  <2>2. ToSet(to'.order) = u.items \cap Tools
    BY <1>2, <1>3, <1>4, <1>6, <1>10 DEF ContextMatches
  <2>3. Distinct(to'.order)
    BY <1>6, <1>10
  <2>4. \A j \in u.fresh : to'.args[j] = <<>>
    BY <1>3, <1>4, <1>5, <1>10 DEF ContextMatches
  <2>5. ~u.end => to'.pending_usage = IF u.usage = {} THEN NotSet ELSE u.usage
    BY <1>3, <1>4, <1>10 DEF ContextMatches
  <2> QED
    BY <2>1, <2>2, <2>3, <2>4, <2>5 DEF ContextMatches
<1>12. Raw(t)' = <<>> /\ \A j \in Items : j # t => Raw(j)' = Raw(j)
  <2>1. Raw(t)' = args[t]
    BY <1>2, <1>10, Names DEF Raw
  <2>2. ASSUME NEW j \in Items, j # t
        PROVE  Raw(j)' = Raw(j)
    BY <1>5, <1>10, <2>2, Names DEF Raw
  <2> QED
    BY <1>5, <2>1, <2>2
<1> DEFINE x == d.content[t]
           c == Put(d, t, "streaming", x)
<1>13. x = <<>> /\ d.stage[t] = "absent" /\ x \in Fragments /\ "streaming" \in Stages
  BY <1>2, <1>4, EmptySeq DEF ItemMatches, Stages, Fragments
<1>14. /\ c \in Clients /\ c.phase = d.phase /\ c.listed = d.listed /\ c.usage = d.usage
       /\ c.stage[t] = "streaming" /\ c.content[t] = x
       /\ \A j \in Items : j # t => c.stage[j] = d.stage[j] /\ c.content[j] = d.content[j]
  <2>1. c = Put(d, t, "streaming", x)
    OBVIOUS
  <2> HIDE DEF c, x
  <2> QED
    BY <1>2, <1>13, <2>1, PutFacts
<1>15. q \in Seq(Events) /\ Leads(Steps, d, q, c)
  <2>1. d = Put(d, t, "absent", x)
    BY <1>2, <1>13, PutSame
  <2> DEFINE f == SourceEvent("added", t, <<>>)
  <2>2. t # Message
    BY <1>2, Names
  <2> HIDE DEF x
  <2>3. f \in Events /\ Leads(Steps, Put(d, t, "absent", x), <<f>>, c)
    BY <1>2, <1>4, <1>13, <2>2, AddedStep
  <2>4. q = <<f>>
    OBVIOUS
  <2> HIDE DEF f, q, c
  <2>5. <<f>> \in Seq(Events)
    BY <2>3
  <2> QED
    BY <2>1, <2>3, <2>4, <2>5
<1> HIDE DEF c, q
<1>16. ItemMatches(u, c, t)'
  <2>1. Sources(<<>>) = <<>> /\ ~Rewritten(<<>>)
    BY DEF Sources, Rewritten
  <2> DEFINE r == Raw(t)'
  <2>2. r = <<>>
    BY <1>12
  <2> HIDE DEF r
  <2>3. t \in u.items /\ ~u.fin /\ u.content[t] = <<>> /\ c.content[t] = <<>>
    BY <1>2, <1>3, <1>13, <1>14
  <2>4. /\ Sources(r) = u.content[t]
        /\ ~Rewritten(r) /\ ~Rewritten(c.content[t])
        /\ c.stage[t] = IF t \notin u.items THEN "absent"
                        ELSE IF u.fin THEN "done" ELSE "streaming"
        /\ ~u.fin => c.content[t] = IF t \in u.items /\ Visible(t) THEN r ELSE <<>>
        /\ u.fin => Sources(c.content[t]) = u.content[t]
    BY <1>14, <2>1, <2>2, <2>3
  <2> QED
    BY <2>4 DEF r, ItemMatches, Visible, Streamed, Localized
<1>17. ASSUME NEW j \in Items, j # t
       PROVE  ItemMatches(u, c, j)'
  <2>1. j \in u.items <=> j \in s.items
    BY <1>3, <1>17
  <2>2. u.content[j] = s.content[j] /\ (u.fin <=> s.fin) /\ persisted \subseteq persisted'
        /\ c.stage[j] = d.stage[j] /\ c.content[j] = d.content[j] /\ Raw(j)' = Raw(j)
    BY <1>1, <1>3, <1>12, <1>14, <1>17
  <2> QED
    BY <1>4, <2>1, <2>2, ItemSame
<1>18. ClientMatches(u, c)'
  <2>1. \A j \in Items : ItemMatches(u, c, j)'
    BY <1>16, <1>17
  <2> QED
    BY <1>2, <1>3, <1>4, <1>14, <2>1 DEF ClientMatches
<1>19. ResponseMatches(u, c)'
  BY <1>2, <1>3, <1>4, <1>10 DEF ResponseMatches
<1>20. Matches(u, c)'
  BY <1>9, <1>11, <1>18, <1>19 DEF Matches
<1> QED
  BY <1>1, <1>14, <1>15, <1>20

\* handle_tool_call_delta_to_p.
LEMMA ArgumentsHeard ==
    ASSUME NEW s \in TurnStates, NEW d \in Clients, Matches(s, d),
           NEW e \in IREvents(persisted), e = Head(transformed), TurnLegal(s, e),
           NEW u, u = TurnAfter(s, e), handle_tool_call_delta_to_p
    PROVE  \E q \in Seq(Events), c \in Clients :
              events' = events \o q /\ Leads(Steps, d, q, c) /\ Matches(u, c)'
<1> DEFINE t == e.tool
           delta == e.data
           f == SourceEvent("delta", t, delta)
           q == On(Streamed(t), <<f>>)
           args == [to.args EXCEPT ![t] = to.args[t] \o delta]
<1>1. /\ e.type = "tool_call_delta" /\ persisted' = persisted
      /\ to' = [to EXCEPT !.args[t] = @ \o delta]
      /\ events' = events \o q
  BY DEF handle_tool_call_delta_to_p, AtType, Emit, adaptVars
<1>2. u \in TurnStates /\ Piece(s, e, u, t)
  <2>1. Target(e) = t
    BY <1>1 DEF Target
  <2> QED
    BY <1>1, <2>1, PieceStep
<1>3. /\ u.started = s.started /\ u.end = s.end /\ u.fin = s.fin /\ u.usage = s.usage
      /\ u.items = s.items \cup {t} /\ u.fresh = s.fresh \ {t}
      /\ s.started /\ ~s.fin /\ ~s.end
      /\ t \in Tools /\ t \in s.items /\ t \in Items
  BY <1>1, <1>2 DEF Piece
<1>4. /\ ToTypes /\ ContextMatches(s) /\ ItemMatches(s, d, t) /\ d.phase = "open"
      /\ s.fresh \subseteq Tools
  BY <1>3 DEF Matches, ClientMatches, TurnStates, TurnRecords
<1>5. delta \in Fragments
  BY IREventFacts
<1> HIDE DEF t, delta
<1>6. /\ args \in [Tools -> Fragments] /\ args[t] = to.args[t] \o delta
      /\ \A j \in Tools : j # t => args[j] = to.args[j]
      /\ to' = [to EXCEPT !.args = args]
  <2>1. to.args \in [Tools -> Fragments]
    BY <1>4 DEF ToTypes
  <2>2. to.args[t] \o delta \in Fragments
    BY <1>3, <1>5, <2>1, FragmentsConcat
  <2>3. to' = [to EXCEPT !.args = args]
    BY <1>1
  <2> QED
    BY <1>3, <2>1, <2>2, <2>3
<1> HIDE DEF args
<1>7. [to EXCEPT !.args = args] \in
         [started : BOOLEAN, ended : BOOLEAN,
          output_item_emitted : BOOLEAN, accumulated_text : Fragments,
          reasoning_seen : BOOLEAN, reasoning_item_emitted : BOOLEAN,
          reasoning_item_done_emitted : BOOLEAN, accumulated_reasoning : Fragments,
          order : Seq(Tools), args : [Tools -> Fragments],
          pending_usage : Usages, pending_response : Seq(Responses)]
  BY <1>4, <1>6 DEF ToTypes
<1>8. ToTypes'
  BY <1>6, <1>7 DEF ToTypes
<1>9. /\ to'.order = to.order /\ to'.args = args
      /\ to'.started = to.started /\ to'.ended = to.ended
      /\ to'.output_item_emitted = to.output_item_emitted
      /\ to'.accumulated_text = to.accumulated_text
      /\ to'.reasoning_seen = to.reasoning_seen
      /\ to'.reasoning_item_emitted = to.reasoning_item_emitted
      /\ to'.reasoning_item_done_emitted = to.reasoning_item_done_emitted
      /\ to'.accumulated_reasoning = to.accumulated_reasoning
      /\ to'.pending_usage = to.pending_usage /\ to'.pending_response = to.pending_response
  BY <1>4, <1>6 DEF ToTypes
<1>10. ContextMatches(u)'
  <2>1. u.items = s.items
    BY <1>3
  <2>2. \A j \in u.fresh : to'.args[j] = <<>>
    BY <1>3, <1>4, <1>6, <1>9 DEF ContextMatches
  <2>3. ContextMatches(s)
    BY <1>4
  <2>4. /\ u.started = s.started /\ u.fin = s.fin /\ u.end = s.end /\ u.usage = s.usage
    BY <1>3
  <2> QED
    BY <1>9, <2>1, <2>2, <2>3, <2>4 DEF ContextMatches
<1>11. Raw(t)' = Raw(t) \o delta /\ \A j \in Items : j # t => Raw(j)' = Raw(j)
  <2>1. Raw(t)' = args[t] /\ Raw(t) = to.args[t]
    BY <1>3, <1>9, Names DEF Raw
  <2>2. ASSUME NEW j \in Items, j # t
        PROVE  Raw(j)' = Raw(j)
    BY <1>6, <1>9, <2>2, Names DEF Raw
  <2> QED
    BY <1>6, <2>1, <2>2
<1> DEFINE x == d.content[t]
           y == IF Visible(t) THEN x \o delta ELSE <<>>
           c == Put(d, t, "streaming", y)
<1>12. c \in Clients /\ Matches(u, c)'
  <2>1. c = Put(d, t, "streaming", IF Visible(t) THEN d.content[t] \o e.data ELSE <<>>)
    BY DEF delta
  <2> HIDE DEF c, y, x
  <2> QED
    BY <1>1, <1>2, <1>8, <1>9, <1>10, <1>11, <2>1, PieceHeard DEF delta
<1>13. x \in Fragments /\ d.stage[t] = "streaming" /\ (~Visible(t) => x = <<>>)
  BY <1>3, <1>4 DEF Clients, ItemMatches
<1>14. d = Put(d, t, "streaming", x)
  BY <1>3, <1>13, PutSame
<1>15. Visible(t) <=> Streamed(t)
  BY <1>3 DEF Visible, Streamed
<1>16. q \in Seq(Events) /\ Leads(Steps, d, q, c)
  <2>1. CASE Streamed(t)
    <3>1. t \notin SilentTools /\ q = <<f>> /\ y = x \o delta
      BY <1>3, <1>15, <2>1, ToolKinds DEF On, Streamed
    <3> HIDE DEF x, y
    <3>2. f \in Events /\ Leads(Steps, Put(d, t, "streaming", x), <<f>>, Put(d, t, "streaming", x \o delta))
      BY <1>3, <1>4, <1>5, <1>13, <3>1, DeltaStep
    <3> HIDE DEF f, q
    <3>3. <<f>> \in Seq(Events)
      BY <3>2
    <3> QED
      BY <1>14, <3>1, <3>2, <3>3
  <2>2. CASE ~Streamed(t)
    <3>1. q = <<>> /\ y = <<>> /\ x = <<>>
      BY <1>13, <1>15, <2>2 DEF On
    <3> HIDE DEF x, y, q
    <3> QED
      BY <1>14, <3>1, LeadsEmpty, EmptySeq
  <2> QED
    BY <2>1, <2>2
<1> HIDE DEF q, c
<1> QED
  BY <1>1, <1>12, <1>16

\* handle_stream_start_to_p.
LEMMA StartHeard ==
    ASSUME NEW s \in TurnStates, NEW d \in Clients, Matches(s, d),
           NEW e \in IREvents(persisted), e = Head(transformed), TurnLegal(s, e),
           NEW u, u = TurnAfter(s, e), handle_stream_start_to_p
    PROVE  \E q \in Seq(Events), c \in Clients :
              events' = events \o q /\ Leads(Steps, d, q, c) /\ Matches(u, c)'
<1> DEFINE q == <<CreatedEvent>>
           c == After(d, CreatedEvent)
<1>1. /\ e.type = "stream_start" /\ persisted' = persisted
      /\ to' = [to EXCEPT !.started = TRUE]
      /\ events' = events \o q
  BY DEF handle_stream_start_to_p, AtType, Emit, adaptVars, CreatedEvent
<1>2. /\ u = [s EXCEPT !.started = TRUE] /\ u \in TurnStates
      /\ ~s.started /\ ~s.fin /\ ~s.end /\ s.items = {}
  BY <1>1, StartStep
<1>3. /\ u.started /\ u.end = s.end /\ u.fin = s.fin /\ u.usage = s.usage
      /\ u.items = s.items /\ u.fresh = s.fresh /\ u.content = s.content
  BY <1>2 DEF TurnStates, TurnRecords
<1>4. /\ ToTypes /\ ContextMatches(s) /\ d.phase = "idle"
      /\ \A j \in Items : ItemMatches(s, d, j)
      /\ to.pending_response = <<>>
  BY <1>2 DEF Matches, ClientMatches, ResponseMatches
<1>5. [to EXCEPT !.started = TRUE] \in
         [started : BOOLEAN, ended : BOOLEAN,
          output_item_emitted : BOOLEAN, accumulated_text : Fragments,
          reasoning_seen : BOOLEAN, reasoning_item_emitted : BOOLEAN,
          reasoning_item_done_emitted : BOOLEAN, accumulated_reasoning : Fragments,
          order : Seq(Tools), args : [Tools -> Fragments],
          pending_usage : Usages, pending_response : Seq(Responses)]
  BY <1>4 DEF ToTypes
<1>6. ToTypes'
  BY <1>1, <1>5 DEF ToTypes
<1>7. /\ to'.started = TRUE
      /\ to'.order = to.order /\ to'.args = to.args /\ to'.ended = to.ended
      /\ to'.output_item_emitted = to.output_item_emitted
      /\ to'.accumulated_text = to.accumulated_text
      /\ to'.reasoning_seen = to.reasoning_seen
      /\ to'.reasoning_item_emitted = to.reasoning_item_emitted
      /\ to'.reasoning_item_done_emitted = to.reasoning_item_done_emitted
      /\ to'.accumulated_reasoning = to.accumulated_reasoning
      /\ to'.pending_usage = to.pending_usage /\ to'.pending_response = to.pending_response
  BY <1>1, <1>4 DEF ToTypes
<1>8. ContextMatches(u)'
  BY <1>3, <1>4, <1>7 DEF ContextMatches
<1>9. \A j \in Items : Raw(j)' = Raw(j)
  BY <1>7 DEF Raw
<1>10. c = [d EXCEPT !.phase = "open"] /\ Legal(d, CreatedEvent) /\ CreatedEvent \in Events
  BY <1>4, CreatedFacts DEF After, Legal
<1>11. <<d, CreatedEvent, c>> \in Steps
  BY <1>10, StepIntro
<1> HIDE DEF c
<1>12. /\ c \in Clients /\ c.phase = "open" /\ c.stage = d.stage /\ c.content = d.content
       /\ c.listed = d.listed /\ c.usage = d.usage
  BY <1>10 DEF Clients
<1>13. q \in Seq(Events) /\ Leads(Steps, d, q, c)
  BY <1>10, <1>11, LeadsOne
<1>14. ASSUME NEW j \in Items
       PROVE  ItemMatches(u, c, j)'
  <2>1. Raw(j)' = Raw(j) /\ persisted \subseteq persisted' /\ u.content[j] = s.content[j]
        /\ (j \in u.items <=> j \in s.items) /\ (u.fin <=> s.fin)
        /\ c.stage[j] = d.stage[j] /\ c.content[j] = d.content[j]
    BY <1>1, <1>3, <1>9, <1>12
  <2> QED
    BY <1>4, <2>1, ItemSame
<1>15. ClientMatches(u, c)'
  BY <1>2, <1>3, <1>12, <1>14 DEF ClientMatches
<1>16. ResponseMatches(u, c)'
  BY <1>2, <1>3, <1>4, <1>7 DEF ResponseMatches
<1>17. Matches(u, c)'
  BY <1>6, <1>8, <1>15, <1>16 DEF Matches
<1> HIDE DEF q
<1> QED
  BY <1>1, <1>12, <1>13, <1>17

\* handle_usage_to_p.
LEMMA UsageHeard ==
    ASSUME NEW s \in TurnStates, NEW d \in Clients, Matches(s, d),
           NEW e \in IREvents(persisted), e = Head(transformed), TurnLegal(s, e),
           NEW u, u = TurnAfter(s, e), handle_usage_to_p
    PROVE  \E q \in Seq(Events), c \in Clients :
              events' = events \o q /\ Leads(Steps, d, q, c) /\ Matches(u, c)'
<1> DEFINE new == ToSet(e.data)
           usage == (to.pending_usage \ NotSet) \cup new
<1>1. /\ e.type = "usage" /\ persisted' = persisted
      /\ to' = [to EXCEPT !.pending_usage = usage]
      /\ events' = events \o <<>>
  BY DEF handle_usage_to_p, AtType, Emit, adaptVars
<1>2. /\ u = IF s.end THEN s ELSE [s EXCEPT !.usage = @ \cup new]
      /\ u \in TurnStates /\ new \subseteq 1..MaxChunks /\ new # {}
  <2>1. u = IF s.end THEN s ELSE [s EXCEPT !.usage = @ \cup ToSet(e.data)]
    BY <1>1, UsageStep
  <2>2. u \in TurnStates /\ ToSet(e.data) \subseteq 1..MaxChunks /\ ToSet(e.data) # {}
    BY <1>1, UsageStep
  <2> QED
    BY <2>1, <2>2
<1> HIDE DEF new
<1>3. /\ u.started = s.started /\ u.end = s.end /\ u.fin = s.fin
      /\ u.items = s.items /\ u.fresh = s.fresh /\ u.content = s.content
      /\ u.usage = IF s.end THEN s.usage ELSE s.usage \cup new
      /\ s.usage \subseteq 1..MaxChunks
  BY <1>2 DEF TurnStates, TurnRecords
<1>4. /\ ToTypes /\ ContextMatches(s)
      /\ \A j \in Items : ItemMatches(s, d, j)
      /\ ClientMatches(s, d) /\ ResponseMatches(s, d)
  BY DEF Matches, ClientMatches
<1>5. usage \in Usages
  <2>1. to.pending_usage \in Usages
    BY <1>4 DEF ToTypes
  <2>2. 1..MaxChunks \subseteq 0..MaxChunks
    BY LimitsAssumption
  <2> QED
    BY <1>2, <2>1, <2>2 DEF Usages
<1>6. ~s.end => usage = u.usage /\ usage # {}
  <2> SUFFICES ASSUME ~s.end
               PROVE  usage = s.usage \cup new /\ usage # {}
    BY <1>3
  <2>1. to.pending_usage = IF s.usage = {} THEN NotSet ELSE s.usage
    BY <1>4 DEF ContextMatches
  <2>2. 0 \notin s.usage
    BY <1>3, LimitsAssumption
  <2>3. to.pending_usage \ NotSet = s.usage
    <3>1. CASE s.usage = {}
      BY <2>1, <3>1
    <3>2. CASE s.usage # {}
      <4>1. to.pending_usage = s.usage
        BY <2>1, <3>2
      <4> QED
        BY <2>2, <4>1 DEF NotSet
    <3> QED
      BY <3>1, <3>2
  <2> QED
    BY <1>2, <2>3
<1> HIDE DEF usage
<1>7. [to EXCEPT !.pending_usage = usage] \in
         [started : BOOLEAN, ended : BOOLEAN,
          output_item_emitted : BOOLEAN, accumulated_text : Fragments,
          reasoning_seen : BOOLEAN, reasoning_item_emitted : BOOLEAN,
          reasoning_item_done_emitted : BOOLEAN, accumulated_reasoning : Fragments,
          order : Seq(Tools), args : [Tools -> Fragments],
          pending_usage : Usages, pending_response : Seq(Responses)]
  BY <1>4, <1>5 DEF ToTypes
<1>8. ToTypes'
  BY <1>1, <1>7 DEF ToTypes
<1>9. /\ to'.started = to.started /\ to'.pending_usage = usage
      /\ to'.order = to.order /\ to'.args = to.args /\ to'.ended = to.ended
      /\ to'.output_item_emitted = to.output_item_emitted
      /\ to'.accumulated_text = to.accumulated_text
      /\ to'.reasoning_seen = to.reasoning_seen
      /\ to'.reasoning_item_emitted = to.reasoning_item_emitted
      /\ to'.reasoning_item_done_emitted = to.reasoning_item_done_emitted
      /\ to'.accumulated_reasoning = to.accumulated_reasoning
      /\ to'.pending_response = to.pending_response
  BY <1>1, <1>4 DEF ToTypes
<1>10. ContextMatches(u)'
  <2>1. ~u.end => to'.pending_usage = IF u.usage = {} THEN NotSet ELSE u.usage
    BY <1>3, <1>6, <1>9
  <2> QED
    BY <1>3, <1>4, <1>9, <2>1 DEF ContextMatches
<1>11. \A j \in Items : Raw(j)' = Raw(j)
  BY <1>9 DEF Raw
<1>12. ASSUME NEW j \in Items
       PROVE  ItemMatches(u, d, j)'
  <2>1. Raw(j)' = Raw(j) /\ persisted \subseteq persisted' /\ u.content[j] = s.content[j]
        /\ (j \in u.items <=> j \in s.items) /\ (u.fin <=> s.fin)
        /\ d.stage[j] = d.stage[j] /\ d.content[j] = d.content[j]
    BY <1>1, <1>3, <1>11
  <2> QED
    BY <1>4, <2>1, ItemSame
<1>13. ClientMatches(u, d)'
  <2>1. s.end => u.usage = s.usage
    BY <1>3
  <2> QED
    BY <1>3, <1>4, <1>12, <2>1 DEF ClientMatches
<1>14. ResponseMatches(u, d)'
  BY <1>3, <1>4, <1>9 DEF ResponseMatches
<1>15. Matches(u, d)'
  BY <1>8, <1>10, <1>13, <1>14 DEF Matches
<1> QED
  BY <1>1, <1>15, LeadsEmpty, EmptySeq

\* handle_stream_end_to_p: the deferred response.completed is sent.
LEMMA EndHeard ==
    ASSUME NEW s \in TurnStates, NEW d \in Clients, Matches(s, d),
           NEW e \in IREvents(persisted), e = Head(transformed), TurnLegal(s, e),
           NEW u, u = TurnAfter(s, e), handle_stream_end_to_p
    PROVE  \E q \in Seq(Events), c \in Clients :
              events' = events \o q /\ Leads(Steps, d, q, c) /\ Matches(u, c)'
<1>1. /\ e.type = "stream_end" /\ persisted' = persisted
      /\ to' = [to EXCEPT !.ended = TRUE, !.pending_response = <<>>]
  BY DEF handle_stream_end_to_p, AtType, Emit, adaptVars
<1>2. /\ u = [s EXCEPT !.end = TRUE] /\ u \in TurnStates
      /\ s.started /\ s.fin /\ ~s.end
  BY <1>1, EndStep
<1>3. /\ u.started = s.started /\ u.end /\ u.fin = s.fin /\ u.usage = s.usage
      /\ u.items = s.items /\ u.fresh = s.fresh /\ u.content = s.content
      /\ s.items \subseteq Items
  BY <1>2 DEF TurnStates, TurnRecords
<1>4. /\ ToTypes /\ ContextMatches(s) /\ d.phase = "open" /\ ResponseMatches(s, d)
      /\ \A j \in Items : ItemMatches(s, d, j)
  BY <1>2 DEF Matches, ClientMatches
<1>5. PICK resp \in Responses :
         /\ to.pending_response = <<resp>>
         /\ DOMAIN resp.output = s.items
         /\ \A i \in s.items : resp.output[i] = d.content[i]
         /\ Quirks = {} => resp.usage = NotSet
  BY <1>2, <1>4 DEF ResponseMatches
<1> DEFINE r == IF resp.usage = NotSet THEN [resp EXCEPT !.usage = to.pending_usage] ELSE resp
           f == CompletedEvent(r)
           q == <<f>>
           c == After(d, f)
<1>6. events' = events \o q
  <2>1. to.pending_response # <<>> /\ Head(to.pending_response) = resp
    BY <1>5
  <2>2. Emit(<<CompletedEvent(IF resp.usage = NotSet
                              THEN [resp EXCEPT !.usage = to.pending_usage] ELSE resp)>>)
    BY <2>1 DEF handle_stream_end_to_p
  <2> QED
    BY <2>2 DEF Emit
<1>7. /\ r \in Responses /\ r.output = resp.output
      /\ Quirks = {} => r.usage = IF s.usage = {} THEN NotSet ELSE s.usage
  <2>1. to.pending_usage \in Usages
    BY <1>4 DEF ToTypes
  <2>2. r \in Responses /\ r.output = resp.output
    BY <2>1 DEF Responses
  <2>3. Quirks = {} => r.usage = to.pending_usage
    BY <1>5 DEF Responses
  <2> QED
    BY <1>2, <1>4, <2>2, <2>3 DEF ContextMatches
<1> HIDE DEF r
<1>8. /\ f \in CompletedEvents /\ f \in Events /\ f.type = "completed"
      /\ f.output = r.output /\ f.usage = r.usage
  BY <1>7 DEF CompletedEvents, Events, CompletedEvent
<1> HIDE DEF f
<1>9. \A i \in Items : d.stage[i] = IF i \in s.items THEN "done" ELSE "absent"
  BY <1>2, <1>4 DEF ItemMatches
<1>10. DOMAIN f.output = s.items /\ \A i \in s.items : f.output[i] = d.content[i]
  BY <1>5, <1>7, <1>8
<1>11. Legal(d, f)
  <2>1. DOMAIN f.output = {i \in Items : d.stage[i] = "done"}
    BY <1>3, <1>9, <1>10
  <2>2. \A i \in Items : d.stage[i] \in {"absent", "done"}
    BY <1>9
  <2>3. \A i \in DOMAIN f.output : f.output[i] = d.content[i]
    BY <1>10
  <2> QED
    BY <1>4, <1>8, <2>1, <2>2, <2>3 DEF Legal
<1>12. <<d, f, c>> \in Steps
  BY <1>8, <1>11, StepIntro
<1> DEFINE content == [i \in Items |-> IF i \in DOMAIN f.output THEN f.output[i] ELSE d.content[i]]
<1>13. c = [d EXCEPT !.phase = "completed", !.listed = DOMAIN f.output, !.usage = f.usage,
                     !.content = content]
  BY <1>8 DEF After
<1>14. c \in Clients
  BY <1>8, AfterType
<1>15. \A i \in Items : content[i] = d.content[i]
  BY <1>10
<1> HIDE DEF c, content
<1>b. PICK b \in Clients : b = c
  BY <1>14
<1>16. /\ b.phase = "completed" /\ b.stage = d.stage
       /\ \A j \in Items : b.content[j] = d.content[j]
       /\ b.listed = s.items /\ b.usage = r.usage
  BY <1>8, <1>10, <1>13, <1>15, <1>b DEF Clients
<1>17. q \in Seq(Events) /\ Leads(Steps, d, q, b)
  BY <1>8, <1>12, <1>b, LeadsOne
<1> HIDE DEF q
<1>18. [to EXCEPT !.ended = TRUE, !.pending_response = <<>>] \in
         [started : BOOLEAN, ended : BOOLEAN,
          output_item_emitted : BOOLEAN, accumulated_text : Fragments,
          reasoning_seen : BOOLEAN, reasoning_item_emitted : BOOLEAN,
          reasoning_item_done_emitted : BOOLEAN, accumulated_reasoning : Fragments,
          order : Seq(Tools), args : [Tools -> Fragments],
          pending_usage : Usages, pending_response : Seq(Responses)]
  <2>1. <<>> \in Seq(Responses)
    BY EmptySeq
  <2> DEFINE z == <<>>
  <2>2. z \in Seq(Responses)
    BY <2>1
  <2> HIDE DEF z
  <2>3. [to EXCEPT !.ended = TRUE, !.pending_response = z] \in
         [started : BOOLEAN, ended : BOOLEAN,
          output_item_emitted : BOOLEAN, accumulated_text : Fragments,
          reasoning_seen : BOOLEAN, reasoning_item_emitted : BOOLEAN,
          reasoning_item_done_emitted : BOOLEAN, accumulated_reasoning : Fragments,
          order : Seq(Tools), args : [Tools -> Fragments],
          pending_usage : Usages, pending_response : Seq(Responses)]
    BY <1>4, <2>2 DEF ToTypes
  <2> QED
    BY <2>3 DEF z
<1>19. ToTypes'
  BY <1>1, <1>18 DEF ToTypes
<1>20. /\ to'.started = to.started /\ to'.pending_usage = to.pending_usage
       /\ to'.order = to.order /\ to'.args = to.args /\ to'.ended = TRUE
       /\ to'.output_item_emitted = to.output_item_emitted
       /\ to'.accumulated_text = to.accumulated_text
       /\ to'.reasoning_seen = to.reasoning_seen
       /\ to'.reasoning_item_emitted = to.reasoning_item_emitted
       /\ to'.reasoning_item_done_emitted = to.reasoning_item_done_emitted
       /\ to'.accumulated_reasoning = to.accumulated_reasoning
       /\ to'.pending_response = <<>>
  BY <1>1, <1>4 DEF ToTypes
<1>21. ContextMatches(u)'
  BY <1>3, <1>4, <1>20 DEF ContextMatches
<1>22. \A j \in Items : Raw(j)' = Raw(j)
  BY <1>20 DEF Raw
<1>23. ASSUME NEW j \in Items
       PROVE  ItemMatches(u, b, j)'
  <2>1. Raw(j)' = Raw(j) /\ persisted \subseteq persisted' /\ u.content[j] = s.content[j]
        /\ (j \in u.items <=> j \in s.items) /\ (u.fin <=> s.fin)
        /\ b.stage[j] = d.stage[j] /\ b.content[j] = d.content[j]
    BY <1>1, <1>3, <1>16, <1>22
  <2> QED
    BY <1>4, <2>1, ItemSame
<1>24. Quirks = {} => u.usage \subseteq b.usage
  BY <1>3, <1>7, <1>16
<1>25. ClientMatches(u, b)'
  BY <1>3, <1>16, <1>23, <1>24 DEF ClientMatches
<1>26. ResponseMatches(u, b)'
  BY <1>3, <1>20 DEF ResponseMatches
<1>27. Matches(u, b)'
  BY <1>19, <1>21, <1>25, <1>26 DEF Matches
<1> QED
  BY <1>6, <1>17, <1>27

\* handle_finish_to_p: everything is closed and response.completed deferred.
LEMMA FinishHeard ==
    ASSUME NEW s \in TurnStates, NEW d \in Clients, Matches(s, d),
           NEW e \in IREvents(persisted), e = Head(transformed), TurnLegal(s, e),
           NEW u, u = TurnAfter(s, e), handle_finish_to_p
    PROVE  \E q \in Seq(Events), c \in Clients :
              events' = events \o q /\ Leads(Steps, d, q, c) /\ Matches(u, c)'
<1>1. PICK wrapped \in SUBSET {t \in ToSet(to.order) : ToolType[t] = "custom"} :
         /\ to' = [to EXCEPT !.reasoning_item_done_emitted = @ \/ to.reasoning_seen,
                             !.pending_response = <<[output |-> collect_finish_output(wrapped),
                                                     usage  |-> to.pending_usage]>>]
         /\ Emit(emit_reasoning_done_event \o emit_text_done_events
                 \o emit_tool_call_done_events(wrapped))
  BY DEF handle_finish_to_p
<1> DEFINE q == emit_reasoning_done_event \o emit_text_done_events
                   \o emit_tool_call_done_events(wrapped)
           out == collect_finish_output(wrapped)
           resp == [output |-> out, usage |-> to.pending_usage]
           done == to.reasoning_item_done_emitted \/ to.reasoning_seen
           z == <<resp>>
           c == Closed(d, s.items, out)
<1>2. /\ e.type = "finish" /\ persisted' = persisted /\ events' = events \o q
      /\ to' = [to EXCEPT !.reasoning_item_done_emitted = done, !.pending_response = z]
  BY <1>1 DEF handle_finish_to_p, AtType, Emit, adaptVars
<1>3. /\ u = [s EXCEPT !.fin = TRUE, !.fresh = {}] /\ u \in TurnStates
      /\ s.started /\ ~s.fin /\ ~s.end
  BY <1>2, FinishStep
<1>4. /\ u.started = s.started /\ u.end = s.end /\ u.fin /\ u.usage = s.usage
      /\ u.items = s.items /\ u.fresh = {} /\ u.content = s.content
      /\ s.items \subseteq Items /\ s \in TurnRecords /\ Sound(s)
  BY <1>3 DEF TurnStates, TurnRecords
<1>5. /\ ToTypes /\ ContextMatches(s) /\ d.phase = "open"
      /\ \A j \in Items : ItemMatches(s, d, j)
  BY <1>3 DEF Matches, ClientMatches
<1>6. q \in Seq(Events) /\ Leads(Steps, d, q, c)
  <2>1. q = emit_reasoning_done_event \o emit_text_done_events
               \o emit_tool_call_done_events(wrapped)
        /\ out = collect_finish_output(wrapped)
    OBVIOUS
  <2> HIDE DEF q, out
  <2> QED
    BY <1>3, <2>1, FinishLeads
<1>7. /\ out \in Outputs /\ DOMAIN out = s.items
      /\ \A i \in s.items :
            /\ Sources(out[i]) = s.content[i]
            /\ i \in Tools /\ Localized(i) /\ Rewritten(out[i]) => i \in persisted
  <2>1. out = collect_finish_output(wrapped)
    OBVIOUS
  <2> HIDE DEF out
  <2> QED
    BY <1>3, <2>1, FinishOutput
<1> HIDE DEF q, out
<1>8. /\ c \in Clients
      /\ c.phase = d.phase /\ c.listed = d.listed /\ c.usage = d.usage
      /\ \A i \in s.items : c.stage[i] = "done" /\ c.content[i] = out[i]
      /\ \A i \in Items \ s.items : c.stage[i] = d.stage[i] /\ c.content[i] = d.content[i]
  <2>1. c = Closed(d, s.items, out) /\ s.items \in SUBSET DOMAIN out
    BY <1>7
  <2> HIDE DEF c
  <2> QED
    BY <1>7, <2>1, ClosedFacts
<1> HIDE DEF c
<1>b. PICK b \in Clients : b = c
  BY <1>8
<1>o. PICK o \in Outputs : o = out
  BY <1>7
<1>9. to.pending_usage \in Usages
  BY <1>5 DEF ToTypes
<1>10. resp \in Responses /\ resp.output = o /\ resp.usage = to.pending_usage
  BY <1>7, <1>9, <1>o DEF Responses
<1> HIDE DEF resp
<1>p. PICK p \in Responses : p = resp
  BY <1>10
<1>11. z \in Seq(Responses)
  BY <1>10
<1>12. done \in BOOLEAN
  OBVIOUS
<1>a. z = <<resp>>
  OBVIOUS
<1> HIDE DEF z, done
<1>13. [to EXCEPT !.reasoning_item_done_emitted = done, !.pending_response = z] \in
         [started : BOOLEAN, ended : BOOLEAN,
          output_item_emitted : BOOLEAN, accumulated_text : Fragments,
          reasoning_seen : BOOLEAN, reasoning_item_emitted : BOOLEAN,
          reasoning_item_done_emitted : BOOLEAN, accumulated_reasoning : Fragments,
          order : Seq(Tools), args : [Tools -> Fragments],
          pending_usage : Usages, pending_response : Seq(Responses)]
  BY <1>5, <1>11, <1>12 DEF ToTypes
<1>14. ToTypes'
  BY <1>2, <1>13 DEF ToTypes
<1>15. /\ to'.started = to.started /\ to'.pending_usage = to.pending_usage
       /\ to'.order = to.order /\ to'.args = to.args /\ to'.ended = to.ended
       /\ to'.output_item_emitted = to.output_item_emitted
       /\ to'.accumulated_text = to.accumulated_text
       /\ to'.reasoning_seen = to.reasoning_seen
       /\ to'.reasoning_item_emitted = to.reasoning_item_emitted
       /\ to'.accumulated_reasoning = to.accumulated_reasoning
       /\ to'.pending_response = z
  BY <1>2, <1>5 DEF ToTypes
<1>16. ContextMatches(u)'
  BY <1>4, <1>5, <1>15 DEF ContextMatches
<1>17. \A j \in Items : Raw(j)' = Raw(j)
  BY <1>15 DEF Raw
<1>18. ASSUME NEW j \in Items
       PROVE  ItemMatches(u, b, j)'
  <2> DEFINE r == Raw(j)'
  <2>1. /\ Sources(r) = s.content[j]
        /\ Rewritten(r) => j \in Tools /\ Localized(j) /\ j \in persisted
    BY <1>5, <1>17 DEF ItemMatches
  <2> HIDE DEF r
  <2>2. /\ b.stage[j] = IF j \notin s.items THEN "absent" ELSE "done"
        /\ Sources(b.content[j]) = s.content[j]
        /\ j \in Tools /\ Localized(j) /\ Rewritten(b.content[j]) => j \in persisted
    <3>1. CASE j \in s.items
      BY <1>7, <1>8, <1>b, <3>1
    <3>2. CASE j \notin s.items
      <4>1. b.stage[j] = "absent" /\ b.content[j] = <<>>
        BY <1>3, <1>5, <1>8, <1>b, <3>2 DEF ItemMatches
      <4>2. s.content[j] = <<>>
        BY <1>4, <3>2 DEF Sound
      <4> QED
        BY <3>2, <4>1, <4>2 DEF Sources, Rewritten
    <3> QED
      BY <3>1, <3>2
  <2>3. /\ Sources(r) = u.content[j]
        /\ Rewritten(r) => j \in Tools /\ Localized(j) /\ j \in persisted'
        /\ b.stage[j] = IF j \notin u.items THEN "absent"
                        ELSE IF u.fin THEN "done" ELSE "streaming"
        /\ Sources(b.content[j]) = u.content[j] /\ u.fin
        /\ j \in Tools /\ Localized(j) /\ Rewritten(b.content[j]) => j \in persisted'
    BY <1>2, <1>4, <2>1, <2>2
  <2> QED
    BY <2>3 DEF r, ItemMatches, Visible, Streamed, Localized
<1>19. ClientMatches(u, b)'
  BY <1>3, <1>4, <1>5, <1>8, <1>b, <1>18 DEF ClientMatches
<1>20. Quirks = {} => p.usage = NotSet
  <2>1. Quirks = {} => s.usage = {}
    BY <1>3, <1>4 DEF Sound
  <2> QED
    BY <1>3, <1>5, <1>10, <1>p, <2>1 DEF ContextMatches
<1>21. ResponseMatches(u, b)'
  <2>1. to'.pending_response = <<p>>
    BY <1>15, <1>a, <1>p
  <2>2. DOMAIN p.output = u.items /\ \A i \in u.items : p.output[i] = b.content[i]
    BY <1>4, <1>7, <1>8, <1>b, <1>o, <1>10, <1>p
  <2> QED
    BY <1>3, <1>4, <1>10, <1>p, <1>20, <2>1, <2>2 DEF ResponseMatches
<1>22. Matches(u, b)'
  BY <1>14, <1>16, <1>19, <1>21 DEF Matches
<1> QED
  BY <1>2, <1>6, <1>b, <1>22

-----------------------------------------------------------------------------
(* The parts of the chain from the upstream to the client.                   *)

\* When the client has read all that is under way, it knows of turn s.
Heard(s) == \E d \in Clients : Leads(Steps, client, Queue, d) /\ Matches(s, d)

\* What is transformed already takes the turn from s to m.
Converted(s, m) ==
    /\ transformed \in Seq(IREvents(persisted))
    /\ Leads(TurnSteps(persisted), s, transformed, m)

\* What is still to be transformed takes it from l to u; nothing of that is
\* rewritten yet.
Remaining(l, u) == ir \in Seq(IREvents({})) /\ Leads(TurnSteps({}), l, ir, u)

\* Events that are emitted come at the end of the queue.
LEMMA QueueMore ==
    ASSUME QueueTypes, NEW q \in Seq(Events), events' = events \o q,
           UNCHANGED <<yielded, client, bufferVars>>,
           NEW d, NEW c, Leads(Steps, client, Queue, d), Leads(Steps, d, q, c)
    PROVE  QueueTypes' /\ Leads(Steps, client', Queue', c)
<1> DEFINE a == EventsAt(input, Due(output, yielded) \o buffer)
<1>1. UNCHANGED <<input, output, buffer, yielded, client>>
  BY DEF bufferVars
<1>2. a \in Seq(Events) /\ events \in Seq(Events) /\ input \in Seq(Events) /\ Queue = a \o events
  <2>1. Due(output, yielded) \o buffer \in Seq(1..Len(input))
    BY QueueType
  <2> QED
    BY <2>1, EventsAtType DEF QueueTypes, Queue
<1>3. Queue' = a \o (events \o q)
  BY <1>1 DEF Queue
<1> HIDE DEF a
<1>4. Queue' = Queue \o q /\ Queue \in Seq(Events)
  <2>1. (a \o events) \o q = a \o (events \o q) /\ a \o events \in Seq(Events)
    BY <1>2, ConcatThree
  <2> QED
    BY <1>2, <1>3, <2>1
<1>5. Leads(Steps, client, Queue \o q, c)
  BY <1>4, LeadsConcat
<1>6. events \o q \in Seq(Events)
  BY <1>2, ConcatType
<1>7. QueueTypes'
  BY <1>1, <1>6 DEF QueueTypes
<1> QED
  BY <1>1, <1>4, <1>5, <1>7

\* Whatever handler runs, what it emits takes the client along with the turn.
LEMMA HandlerHeard ==
    ASSUME NEW s \in TurnStates, NEW d \in Clients, Matches(s, d),
           NEW e \in IREvents(persisted), e = Head(transformed), TurnLegal(s, e),
           NEW u, u = TurnAfter(s, e), ToProvider
    PROVE  /\ transformed' = Tail(transformed) /\ transformed # <<>>
           /\ UNCHANGED <<up, told, fromVars, ir, adaptVars, generator, yielded, client, bufferVars>>
           /\ \E q \in Seq(Events), c \in Clients :
                 events' = events \o q /\ Leads(Steps, d, q, c) /\ Matches(u, c)'
<1>1. CASE handle_stream_start_to_p
  BY <1>1, StartHeard DEF handle_stream_start_to_p, Emit, AtType
<1>2. CASE handle_text_delta_to_p
  BY <1>2, TextHeard DEF handle_text_delta_to_p, Emit, AtType
<1>3. CASE handle_reasoning_delta_to_p
  BY <1>3, ReasoningHeard DEF handle_reasoning_delta_to_p, Emit, AtType
<1>4. CASE handle_tool_call_start_to_p
  BY <1>4, CallHeard DEF handle_tool_call_start_to_p, Emit, AtType
<1>5. CASE handle_tool_call_delta_to_p
  BY <1>5, ArgumentsHeard DEF handle_tool_call_delta_to_p, Emit, AtType
<1>6. CASE handle_finish_to_p
  BY <1>6, FinishHeard DEF handle_finish_to_p, Emit, AtType
<1>7. CASE handle_usage_to_p
  BY <1>7, UsageHeard DEF handle_usage_to_p, Emit, AtType
<1>8. CASE handle_stream_end_to_p
  <2>1. /\ transformed' = Tail(transformed) /\ transformed # <<>>
        /\ UNCHANGED <<up, told, fromVars, ir, adaptVars, generator, yielded, client, bufferVars>>
    BY <1>8 DEF handle_stream_end_to_p, Emit, AtType
  <2> QED
    BY <1>8, <2>1, EndHeard
<1> QED
  BY <1>1, <1>2, <1>3, <1>4, <1>5, <1>6, <1>7, <1>8 DEF ToProvider

\* The converter: what the client will know grows as what it does not yet shrinks.
LEMMA ConvertHeard ==
    ASSUME QueueTypes, NEW s \in TurnStates, NEW m, Heard(s), Converted(s, m), ToProvider
    PROVE  /\ QueueTypes'
           /\ UNCHANGED <<up, told, fromVars, ir, adaptVars, generator, yielded, client, bufferVars>>
           /\ \E u \in TurnStates : Heard(u)' /\ Converted(u, m)'
<1>1. PICK d \in Clients : Leads(Steps, client, Queue, d) /\ Matches(s, d)
  BY DEF Heard
<1> DEFINE T == TurnSteps(persisted)
           I == IREvents(persisted)
<1>2. transformed # <<>>
  BY DEF ToProvider, AtType, handle_stream_start_to_p, handle_text_delta_to_p,
         handle_reasoning_delta_to_p, handle_tool_call_start_to_p,
         handle_tool_call_delta_to_p, handle_finish_to_p, handle_usage_to_p,
         handle_stream_end_to_p
<1>3. PICK b : <<s, Head(transformed), b>> \in T /\ Leads(T, b, Tail(transformed), m)
  <2>1. transformed \in Seq(I) /\ Leads(T, s, transformed, m)
    BY DEF Converted
  <2> HIDE DEF T, I
  <2> QED
    BY <1>2, <2>1, LeadsTail
<1>4. PICK e \in I : e = Head(transformed)
  BY <1>3, TurnStepIs
<1>5. PICK u \in TurnStates : u = b
  BY <1>3, TurnStepIs
<1>6. TurnLegal(s, e) /\ u = TurnAfter(s, e)
  BY <1>3, <1>4, <1>5, TurnStepIs
<1>7. /\ transformed' = Tail(transformed)
      /\ UNCHANGED <<up, told, fromVars, ir, adaptVars, generator, yielded, client, bufferVars>>
      /\ \E q \in Seq(Events), c \in Clients :
            events' = events \o q /\ Leads(Steps, d, q, c) /\ Matches(u, c)'
  <2> HIDE DEF T
  <2> QED
    BY <1>1, <1>4, <1>6, HandlerHeard
<1>8. PICK q \in Seq(Events), c \in Clients :
          events' = events \o q /\ Leads(Steps, d, q, c) /\ Matches(u, c)'
  BY <1>7
<1>9. QueueTypes' /\ Leads(Steps, client', Queue', c)
  BY <1>1, <1>7, <1>8, QueueMore
<1>10. Heard(u)'
  BY <1>8, <1>9 DEF Heard
<1>11. Converted(u, m)'
  <2>1. persisted' = persisted
    BY <1>7 DEF adaptVars
  <2>2. Tail(transformed) \in Seq(I)
    <3> HIDE DEF I
    <3> QED
      BY <1>2, HeadTailProperties DEF Converted, I
  <2> QED
    BY <1>3, <1>5, <1>7, <2>1, <2>2 DEF Converted
<1> QED
  BY <1>5, <1>7, <1>9, <1>10, <1>11

-----------------------------------------------------------------------------
(* The tool transformer: calls held back, and passed on at the finish.       *)

\* `l` is `m` with the calls that are held back.
Held(l) ==
    \A k, j \in 1..Len(pending) :
        /\ Localized(pending[k].id) /\ l.content[pending[k].id] = pending[k].args
        /\ pending[k].id = pending[j].id => k = j
Lifted(m, l) ==
    /\ pending \in Seq([id : Tools, args : Clean])
    /\ l.started = m.started /\ l.fin = m.fin /\ l.end = m.end /\ l.usage = m.usage
    /\ l.items = m.items \cup HeldIds
    /\ m.items \cap HeldIds = {}
    /\ \A i \in Items \ HeldIds : l.content[i] = m.content[i]
    /\ Held(l)
    /\ HeldIds # {} => m.started /\ ~m.fin

\* The calls that are held back.
LEMMA HeldFacts ==
    ASSUME pending \in Seq([id : Tools, args : Clean])
    PROVE  /\ HeldIds = {pending[k].id : k \in 1..Len(pending)}
           /\ DOMAIN pending = 1..Len(pending) /\ Len(pending) \in Nat
           /\ \A k \in 1..Len(pending) : pending[k].id \in HeldIds /\ pending[k].id \in Tools
                                         /\ pending[k].args \in Clean
                                         /\ pending[k] = [id |-> pending[k].id, args |-> pending[k].args]
           /\ HeldIds \subseteq Tools
           /\ pending = <<>> <=> HeldIds = {}
<1>1. DOMAIN pending = 1..Len(pending) /\ Len(pending) \in Nat
  BY LenProperties
<1>2. HeldIds = {pending[k].id : k \in 1..Len(pending)}
  BY <1>1 DEF HeldIds
<1>3. \A k \in 1..Len(pending) : pending[k] \in [id : Tools, args : Clean]
  BY ElementOfSeq
<1>4. pending = <<>> <=> HeldIds = {}
  <2>1. pending = <<>> => HeldIds = {}
    BY <1>2
  <2>2. pending # <<>> => 1 \in 1..Len(pending)
    BY <1>1, EmptySeq
  <2> QED
    BY <1>2, <2>1, <2>2
<1>5. ASSUME NEW k \in 1..Len(pending)
      PROVE  /\ pending[k].id \in HeldIds /\ pending[k].id \in Tools
             /\ pending[k].args \in Clean
             /\ pending[k] = [id |-> pending[k].id, args |-> pending[k].args]
  <2>1. pending[k] \in [id : Tools, args : Clean]
    BY <1>3
  <2> QED
    BY <1>2, <2>1
<1>6. HeldIds \subseteq Tools
  BY <1>2, <1>5
<1> QED
  BY <1>1, <1>2, <1>4, <1>5, <1>6

\* The next event of the turn that is to be transformed.
LEMMA RemainingStep ==
    ASSUME NEW l, NEW u, Remaining(l, u), ir # <<>>, ir' = Tail(ir)
    PROVE  \E e \in IREvents({}), k \in TurnStates :
              /\ e = Head(ir) /\ ~Rewritten(e.data) /\ l \in TurnStates
              /\ TurnLegal(l, e) /\ k = TurnAfter(l, e) /\ Remaining(k, u)'
<1> DEFINE T == TurnSteps({})
           I == IREvents({})
<1>1. ir \in Seq(I) /\ Leads(T, l, ir, u)
  BY DEF Remaining
<1>2. /\ \E b : <<l, Head(ir), b>> \in T /\ Leads(T, b, Tail(ir), u)
      /\ Tail(ir) \in Seq(I)
  <2> HIDE DEF T, I
  <2> QED
    BY <1>1, LeadsTail, HeadTailProperties
<1>3. PICK b : <<l, Head(ir), b>> \in T /\ Leads(T, b, Tail(ir), u)
  BY <1>2
<1>4. /\ l \in TurnStates /\ Head(ir) \in I /\ b \in TurnStates
      /\ TurnLegal(l, Head(ir)) /\ b = TurnAfter(l, Head(ir))
  BY <1>3, TurnStepIs
<1>5. PICK e \in I : e = Head(ir)
  BY <1>4
<1>6. PICK k \in TurnStates : k = b
  BY <1>4
<1>7. ~Rewritten(e.data)
  BY <1>5, IREventFacts
<1>8. Remaining(k, u)'
  BY <1>2, <1>3, <1>6 DEF Remaining
<1> QED
  BY <1>4, <1>5, <1>6, <1>7, <1>8

\* HoldCall: the call is held, and nothing of it passed on.
LEMMA HoldCallLifts ==
    ASSUME NEW m \in TurnStates, NEW l \in TurnStates, Lifted(m, l),
           NEW e \in IREvents({}), e = Head(ir), TurnLegal(l, e),
           NEW k, k = TurnAfter(l, e), HoldCall
    PROVE  Lifted(m, k)'
<1> DEFINE t == e.tool
           call == [id |-> t, args |-> <<>>]
           n == Len(pending)
<1>1. e.type = "tool_call_start" /\ Localized(t)
  BY DEF HoldCall, AtIR
<1>2. /\ k = [l EXCEPT !.items = @ \cup {t}, !.fresh = @ \cup {t}]
      /\ t \in Tools /\ t \in Items /\ t \notin l.items
      /\ l.started /\ ~l.fin /\ ~l.end /\ l.content[t] = <<>>
  BY <1>1, CallStep
<1> HIDE DEF t
<1>3. /\ k.started = l.started /\ k.fin = l.fin /\ k.end = l.end /\ k.usage = l.usage
      /\ k.items = l.items \cup {t} /\ k.content = l.content
  BY <1>2 DEF TurnStates, TurnRecords
<1>4. /\ pending \in Seq([id : Tools, args : Clean]) /\ Held(l)
      /\ l.items = m.items \cup HeldIds /\ m.items \cap HeldIds = {}
      /\ \A i \in Items \ HeldIds : l.content[i] = m.content[i]
      /\ m.started /\ ~m.fin
      /\ l.started = m.started /\ l.fin = m.fin /\ l.end = m.end /\ l.usage = m.usage
  BY <1>2 DEF Lifted
<1>5. pending' = Append(pending, call)
  <2>1. t \notin HeldIds
    BY <1>2, <1>4
  <2> QED
    BY <2>1 DEF HoldCall, t
<1>6. call \in [id : Tools, args : Clean] /\ call.id = t /\ call.args = <<>>
  BY <1>2, EmptySeq DEF Clean
<1> HIDE DEF call
<1> DEFINE R == [id : Tools, args : Clean]
<1>7. pending' \in Seq(R) /\ Len(pending') = n + 1 /\ n \in Nat
      /\ (\A j \in 1..n : pending'[j] = pending[j]) /\ pending'[n + 1] = call
  <2>1. call \in R /\ pending \in Seq(R)
    BY <1>4, <1>6
  <2> HIDE DEF R
  <2> QED
    BY <1>5, <2>1, AppendProperties, LenProperties
<1>8. HeldIds' = HeldIds \cup {t}
  <2>1. HeldIds' = {pending'[j].id : j \in 1..(n + 1)}
    <3>1. DOMAIN pending' = 1..(n + 1)
      BY <1>7, LenProperties
    <3> QED
      BY <3>1 DEF HeldIds
  <2>2. HeldIds = {pending[j].id : j \in 1..n}
    BY <1>4, HeldFacts
  <2>3. 1..(n + 1) = 1..n \cup {n + 1}
    BY <1>7
  <2> HIDE DEF n
  <2> QED
    BY <1>6, <1>7, <2>1, <2>2, <2>3
<1>9. Held(k)'
  <2> SUFFICES ASSUME NEW a \in 1..(n + 1), NEW b \in 1..(n + 1)
               PROVE  /\ Localized(pending'[a].id)
                      /\ k.content[pending'[a].id] = pending'[a].args
                      /\ pending'[a].id = pending'[b].id => a = b
    BY <1>7 DEF Held, Localized
  <2>1. \A j \in 1..n : pending[j].id \in HeldIds
    BY <1>4, HeldFacts
  <2>2. t \notin HeldIds
    BY <1>2, <1>4
  <2>3. (a \in 1..n \/ a = n + 1) /\ (b \in 1..n \/ b = n + 1)
    BY <1>7
  <2> HIDE DEF n
  <2>4. ASSUME a \in 1..n
        PROVE  /\ Localized(pending'[a].id) /\ pending'[a].id = pending[a].id /\ pending'[a].id # t
               /\ k.content[pending'[a].id] = pending'[a].args
    BY <1>3, <1>4, <1>7, <2>1, <2>2, <2>4 DEF Held, n
  <2>5. ASSUME a = n + 1
        PROVE  /\ Localized(pending'[a].id) /\ pending'[a].id = t
               /\ k.content[pending'[a].id] = pending'[a].args
    BY <1>1, <1>2, <1>3, <1>6, <1>7, <2>5 DEF t
  <2>6. pending'[a].id = pending'[b].id => a = b
    <3>1. CASE a \in 1..n /\ b \in 1..n
      BY <1>4, <1>7, <3>1 DEF Held, n
    <3>2. CASE a \in 1..n /\ b = n + 1
      BY <1>6, <1>7, <2>4, <3>2
    <3>3. CASE a = n + 1 /\ b \in 1..n
      BY <1>7, <2>1, <2>2, <2>5, <3>3
    <3>4. CASE a = n + 1 /\ b = n + 1
      BY <3>4
    <3> QED
      BY <2>3, <3>1, <3>2, <3>3, <3>4
  <2> QED
    BY <2>3, <2>4, <2>5, <2>6
<1> HIDE DEF n
<1>10. \A i \in Items \ HeldIds' : k.content[i] = m.content[i]
  BY <1>3, <1>4, <1>8
<1>11. m.items \cap HeldIds' = {} /\ k.items = m.items \cup HeldIds'
  BY <1>2, <1>3, <1>4, <1>8
<1> QED
  BY <1>3, <1>4, <1>7, <1>9, <1>10, <1>11 DEF Lifted

\* HoldArguments: the arguments are added to those held.
LEMMA HoldArgumentsLifts ==
    ASSUME NEW m \in TurnStates, NEW l \in TurnStates, Lifted(m, l),
           NEW e \in IREvents({}), e = Head(ir), TurnLegal(l, e), ~Rewritten(e.data),
           NEW k, k = TurnAfter(l, e), HoldArguments
    PROVE  Lifted(m, k)'
<1> DEFINE t == e.tool
           n == Len(pending)
<1>1. e.type = "tool_call_delta" /\ t \in HeldIds
  BY DEF HoldArguments, AtIR
<1>2. k \in TurnStates /\ Piece(l, e, k, t)
  <2>1. Target(e) = t
    BY <1>1 DEF Target
  <2> QED
    BY <1>1, <2>1, PieceStep
<1>3. e.data \in Clean /\ Sources(e.data) = e.data
  BY IREventFacts
<1>0. t = e.tool
  OBVIOUS
<1> HIDE DEF t
<1>4. /\ t \in Items /\ k.started = l.started /\ k.fin = l.fin /\ k.end = l.end
      /\ k.usage = l.usage /\ k.items = l.items
      /\ k.content[t] = l.content[t] \o e.data
      /\ \A j \in Items : j # t => k.content[j] = l.content[j]
  <2>1. t \in l.items
    BY <1>1 DEF Lifted
  <2>2. /\ t \in Items /\ k.started = l.started /\ k.fin = l.fin /\ k.end = l.end
        /\ k.usage = l.usage /\ k.items = l.items \cup {t}
        /\ k.content[t] = l.content[t] \o Sources(e.data)
        /\ \A j \in Items : j # t => k.content[j] = l.content[j]
    BY <1>2 DEF Piece
  <2> QED
    BY <1>3, <2>1, <2>2
<1>5. /\ pending \in Seq([id : Tools, args : Clean]) /\ Held(l)
      /\ l.items = m.items \cup HeldIds /\ m.items \cap HeldIds = {}
      /\ \A i \in Items \ HeldIds : l.content[i] = m.content[i]
      /\ HeldIds # {} => m.started /\ ~m.fin
      /\ l.started = m.started /\ l.fin = m.fin /\ l.end = m.end /\ l.usage = m.usage
  BY DEF Lifted
<1> DEFINE R == [id : Tools, args : Clean]
<1>6. /\ n \in Nat /\ DOMAIN pending = 1..n
      /\ \A j \in 1..n : pending[j].id \in HeldIds /\ pending[j].id \in Tools
                         /\ pending[j].args \in Clean
                         /\ pending[j] = [id |-> pending[j].id, args |-> pending[j].args]
      /\ HeldIds = {pending[j].id : j \in 1..n} /\ HeldIds \subseteq Tools
  BY <1>5, HeldFacts
<1>7. pending' = [j \in 1..n |-> IF pending[j].id = t
                                 THEN [pending[j] EXCEPT !.args = @ \o e.data]
                                 ELSE pending[j]]
  BY <1>6 DEF HoldArguments, t
<1> HIDE DEF n
<1>8. ASSUME NEW j \in 1..n
      PROVE  /\ pending'[j].id = pending[j].id
             /\ pending'[j].args = IF pending[j].id = t THEN pending[j].args \o e.data
                                   ELSE pending[j].args
             /\ pending'[j] \in R
  <2>1. pending[j].args \o e.data \in Clean
    BY <1>3, <1>6, CleanConcat
  <2> DEFINE x == pending[j].args \o e.data
             i == pending[j].id
  <2>2. pending[j] = [id |-> i, args |-> pending[j].args] /\ i \in Tools
        /\ pending'[j] = IF i = t THEN [pending[j] EXCEPT !.args = x] ELSE pending[j]
    BY <1>6, <1>7
  <2>3. x \in Clean /\ pending[j].args \in Clean
    BY <1>6, <2>1
  <2> HIDE DEF x, i
  <2>4. CASE i = t
    <3>1. pending'[j] = [id |-> i, args |-> x]
      BY <2>2, <2>4
    <3> QED
      BY <2>2, <2>3, <2>4, <3>1 DEF x, i
  <2>5. CASE i # t
    <3>1. pending'[j] = pending[j]
      BY <2>2, <2>5
    <3> QED
      BY <2>2, <2>3, <2>5, <3>1 DEF x, i
  <2> QED
    BY <2>4, <2>5
<1>9. pending' \in Seq(R) /\ Len(pending') = n
  <2>1. pending' \in [1..n -> R]
    BY <1>7, <1>8
  <2> HIDE DEF R
  <2> QED
    BY <1>6, <2>1, FunctionIsSeq
<1>10. HeldIds' = HeldIds
  <2>1. DOMAIN pending' = 1..n
    BY <1>7
  <2>2. HeldIds' = {pending'[j].id : j \in 1..n}
    BY <2>1 DEF HeldIds
  <2>3. \A j \in 1..n : pending'[j].id = pending[j].id
    BY <1>8
  <2>4. {pending'[j].id : j \in 1..n} = {pending[j].id : j \in 1..n}
    BY <2>3
  <2> QED
    BY <1>6, <2>2, <2>4
<1>11. Held(k)'
  <2> SUFFICES ASSUME NEW a \in 1..n, NEW b \in 1..n
               PROVE  /\ Localized(pending'[a].id)
                      /\ k.content[pending'[a].id] = pending'[a].args
                      /\ pending'[a].id = pending'[b].id => a = b
    BY <1>9 DEF Held, Localized
  <2>1. /\ Localized(pending[a].id) /\ l.content[pending[a].id] = pending[a].args
        /\ pending[a].id = pending[b].id => a = b
    BY <1>5 DEF Held, n
  <2>2. pending[a].id \in Items
    BY <1>6, Names
  <2>3. k.content[pending[a].id] = pending'[a].args
    <3>1. CASE pending[a].id = t
      BY <1>4, <1>8, <2>1, <3>1
    <3>2. CASE pending[a].id # t
      BY <1>4, <1>8, <2>1, <2>2, <3>2
    <3> QED
      BY <3>1, <3>2
  <2> QED
    BY <1>8, <2>1, <2>3
<1>12. \A i \in Items \ HeldIds' : k.content[i] = m.content[i]
  BY <1>1, <1>4, <1>5, <1>10
<1> QED
  BY <1>4, <1>5, <1>9, <1>10, <1>11, <1>12 DEF Lifted

\* A turn is what it says of each item.
LEMMA TurnsEqual ==
    ASSUME NEW s \in TurnRecords, NEW u \in TurnRecords,
           s.started = u.started, s.fin = u.fin, s.end = u.end, s.items = u.items,
           s.fresh = u.fresh, s.usage = u.usage,
           \A i \in Items : s.content[i] = u.content[i]
    PROVE  s = u
<1>1. s.content = u.content
  BY DEF TurnRecords
<1> QED
  BY <1>1 DEF TurnRecords

\* What is held back stays so when neither it nor what it was held from changes.
LEMMA LiftedSame ==
    ASSUME NEW m, NEW l, Lifted(m, l), NEW v, NEW k, pending' = pending,
           k.started = v.started, k.fin = v.fin, k.end = v.end, k.usage = v.usage,
           k.items = v.items \cup HeldIds, v.items \cap HeldIds = {},
           \A i \in Items \ HeldIds : k.content[i] = v.content[i],
           \A i \in HeldIds : k.content[i] = l.content[i],
           HeldIds # {} => v.started /\ ~v.fin
    PROVE  Lifted(v, k)'
<1>1. HeldIds' = HeldIds
  BY DEF HeldIds
<1>2. Held(k)'
  <2>1. \A j \in 1..Len(pending) : pending[j].id \in HeldIds
    BY HeldFacts DEF Lifted
  <2> QED
    BY <2>1 DEF Lifted, Held, Localized
<1> QED
  BY <1>1, <1>2 DEF Lifted

LEMMA LiftedAgain ==
    ASSUME NEW m, NEW l, Lifted(m, l), NEW v, NEW k, pending' = pending,
           k.started = v.started, k.fin = v.fin, k.end = v.end, k.usage = v.usage,
           k.items = l.items, k.content = l.content, v.items = m.items, v.content = m.content,
           HeldIds # {} => v.started /\ ~v.fin
    PROVE  Lifted(v, k)'
<1>1. k.items = v.items \cup HeldIds /\ v.items \cap HeldIds = {}
  BY DEF Lifted
<1>2. \A i \in Items \ HeldIds : k.content[i] = v.content[i]
  BY DEF Lifted
<1>3. \A i \in HeldIds : k.content[i] = l.content[i]
  OBVIOUS
<1> QED
  BY <1>1, <1>2, <1>3, LiftedSame

\* PassOn: the event is passed on as it is.
LEMMA PassOnLifts ==
    ASSUME NEW m \in TurnStates, NEW l \in TurnStates, Lifted(m, l),
           NEW e \in IREvents({}), e = Head(ir), TurnLegal(l, e), ~Rewritten(e.data),
           NEW k, k = TurnAfter(l, e), NEW v, v = TurnAfter(m, e), PassOn
    PROVE  TurnLegal(m, e) /\ v \in TurnStates /\ Lifted(v, k)'
<1>1. /\ ~(e.type = "tool_call_start" /\ Localized(e.tool))
      /\ ~(e.type = "tool_call_delta" /\ e.tool \in HeldIds)
      /\ e.type \in Ends => pending = <<>>
      /\ pending' = pending
  BY DEF PassOn, adaptVars
<1>2. /\ l.items = m.items \cup HeldIds /\ m.items \cap HeldIds = {}
      /\ \A i \in Items \ HeldIds : l.content[i] = m.content[i]
      /\ HeldIds # {} => m.started /\ ~m.fin
      /\ l.started = m.started /\ l.fin = m.fin /\ l.end = m.end /\ l.usage = m.usage
      /\ HeldIds \subseteq Tools /\ (pending = <<>> <=> HeldIds = {})
  BY HeldFacts DEF Lifted
<1>3. e.type \in IRTypes /\ (e.type \in CallTypes => e.tool \in Tools)
  BY IREventFacts
<1>4. /\ m \in TurnRecords /\ Sound(m) /\ l \in TurnRecords /\ Sound(l)
      /\ m.items \subseteq Items
  BY DEF TurnStates, TurnRecords
<1>5. TurnLegal(m, e)
  BY <1>1, <1>2, <1>3 DEF TurnLegal, IRTypes
<1>6. v \in TurnStates
  BY <1>5, TurnStepIntro, TurnStepIs
<1>7. CASE e.type = "stream_start"
  <2>1. /\ k = [l EXCEPT !.started = TRUE] /\ v = [m EXCEPT !.started = TRUE]
        /\ ~l.started
    BY <1>5, <1>7, StartStep
  <2>2. /\ k.started = TRUE /\ k.fin = l.fin /\ k.end = l.end /\ k.usage = l.usage
        /\ k.items = l.items /\ k.content = l.content
        /\ v.started = TRUE /\ v.fin = m.fin /\ v.end = m.end /\ v.usage = m.usage
        /\ v.items = m.items /\ v.content = m.content
    BY <1>4, <2>1 DEF TurnRecords
  <2>h. /\ k.started = v.started /\ k.fin = v.fin /\ k.end = v.end /\ k.usage = v.usage
        /\ HeldIds # {} => v.started /\ ~v.fin
    BY <1>2, <2>2
  <2> QED
    BY <1>1, <1>5, <1>6, <2>2, <2>h, LiftedAgain
<1>8. CASE e.type = "finish"
  <2>1. k = [l EXCEPT !.fin = TRUE, !.fresh = {}] /\ v = [m EXCEPT !.fin = TRUE, !.fresh = {}]
    BY <1>5, <1>8, FinishStep
  <2>2. /\ k.started = l.started /\ k.fin = TRUE /\ k.end = l.end /\ k.usage = l.usage
        /\ k.items = l.items /\ k.content = l.content
        /\ v.started = m.started /\ v.fin = TRUE /\ v.end = m.end /\ v.usage = m.usage
        /\ v.items = m.items /\ v.content = m.content
    BY <1>4, <2>1 DEF TurnRecords
  <2>3. HeldIds = {}
    BY <1>1, <1>2, <1>8 DEF Ends
  <2>h. /\ k.started = v.started /\ k.fin = v.fin /\ k.end = v.end /\ k.usage = v.usage
        /\ HeldIds # {} => v.started /\ ~v.fin
    BY <1>2, <2>2, <2>3
  <2> QED
    BY <1>1, <1>5, <1>6, <2>2, <2>h, LiftedAgain
<1>9. CASE e.type = "stream_end"
  <2>1. k = [l EXCEPT !.end = TRUE] /\ v = [m EXCEPT !.end = TRUE]
    BY <1>5, <1>9, EndStep
  <2>2. /\ k.started = l.started /\ k.fin = l.fin /\ k.end = TRUE /\ k.usage = l.usage
        /\ k.items = l.items /\ k.content = l.content
        /\ v.started = m.started /\ v.fin = m.fin /\ v.end = TRUE /\ v.usage = m.usage
        /\ v.items = m.items /\ v.content = m.content
    BY <1>4, <2>1 DEF TurnRecords
  <2>h. /\ k.started = v.started /\ k.fin = v.fin /\ k.end = v.end /\ k.usage = v.usage
        /\ HeldIds # {} => v.started /\ ~v.fin
    BY <1>2, <2>2
  <2> QED
    BY <1>1, <1>5, <1>6, <2>2, <2>h, LiftedAgain
<1>10. CASE e.type = "usage"
  <2> DEFINE x == ToSet(e.data)
  <2>a. k = IF l.end THEN l ELSE [l EXCEPT !.usage = @ \cup ToSet(e.data)]
    BY <1>10 DEF TurnAfter
  <2>b. v = IF m.end THEN m ELSE [m EXCEPT !.usage = @ \cup ToSet(e.data)]
    BY <1>10 DEF TurnAfter
  <2>1. /\ k = IF l.end THEN l ELSE [l EXCEPT !.usage = @ \cup x]
        /\ v = IF m.end THEN m ELSE [m EXCEPT !.usage = @ \cup x]
    BY <2>a, <2>b
  <2> HIDE DEF x
  <2>2. /\ k.started = l.started /\ k.fin = l.fin /\ k.end = l.end
        /\ k.usage = (IF l.end THEN l.usage ELSE l.usage \cup x)
        /\ k.items = l.items /\ k.content = l.content
        /\ v.started = m.started /\ v.fin = m.fin /\ v.end = m.end
        /\ v.usage = (IF m.end THEN m.usage ELSE m.usage \cup x)
        /\ v.items = m.items /\ v.content = m.content
    BY <1>4, <2>1 DEF TurnRecords
  <2>h. /\ k.started = v.started /\ k.fin = v.fin /\ k.end = v.end /\ k.usage = v.usage
        /\ HeldIds # {} => v.started /\ ~v.fin
    BY <1>2, <2>2
  <2> QED
    BY <1>1, <1>5, <1>6, <2>2, <2>h, LiftedAgain
<1>11. CASE e.type = "tool_call_start"
  <2> DEFINE t == e.tool
  <2>1. /\ k = [l EXCEPT !.items = @ \cup {t}, !.fresh = @ \cup {t}]
        /\ v = [m EXCEPT !.items = @ \cup {t}, !.fresh = @ \cup {t}]
        /\ t \notin l.items
    <3>1. /\ k = [l EXCEPT !.items = @ \cup {t}, !.fresh = @ \cup {t}]
          /\ t \notin l.items
      BY <1>11, CallStep
    <3>2. v = [m EXCEPT !.items = @ \cup {t}, !.fresh = @ \cup {t}]
      BY <1>11 DEF TurnAfter
    <3> QED
      BY <3>1, <3>2
  <2> HIDE DEF t
  <2>2. /\ k.started = l.started /\ k.fin = l.fin /\ k.end = l.end /\ k.usage = l.usage
        /\ k.items = l.items \cup {t} /\ k.content = l.content
        /\ v.started = m.started /\ v.fin = m.fin /\ v.end = m.end /\ v.usage = m.usage
        /\ v.items = m.items \cup {t} /\ v.content = m.content
    BY <1>4, <2>1 DEF TurnRecords
  <2> QED
    BY <1>1, <1>2, <1>5, <1>6, <2>1, <2>2, LiftedSame
<1>12. CASE e.type \in {"text_delta", "reasoning_delta", "tool_call_delta"}
  <2> DEFINE i == Target(e)
             x == Sources(e.data)
  <2>1. Piece(l, e, k, i) /\ Piece(m, e, v, i)
    <3> HIDE DEF i
    <3>1. Piece(l, e, k, Target(e)) /\ Piece(m, e, v, Target(e))
      BY <1>5, <1>12, PieceStep
    <3> QED
      BY <3>1 DEF i
  <2>2. i \notin HeldIds
    BY <1>1, <1>2, <1>12, Names DEF Target
  <2> HIDE DEF i, x
  <2>3. /\ k.started = l.started /\ k.fin = l.fin /\ k.end = l.end /\ k.usage = l.usage
        /\ k.items = l.items \cup {i} /\ k.content[i] = l.content[i] \o x
        /\ \A j \in Items : j # i => k.content[j] = l.content[j]
        /\ v.started = m.started /\ v.fin = m.fin /\ v.end = m.end /\ v.usage = m.usage
        /\ v.items = m.items \cup {i} /\ v.content[i] = m.content[i] \o x
        /\ \A j \in Items : j # i => v.content[j] = m.content[j]
        /\ i \in Items
    BY <2>1 DEF Piece, x
  <2>4. \A j \in HeldIds : k.content[j] = l.content[j]
    BY <1>2, <2>2, <2>3, Names
  <2>5. \A j \in Items \ HeldIds : k.content[j] = v.content[j]
    <3> SUFFICES ASSUME NEW j \in Items \ HeldIds
                 PROVE  k.content[j] = v.content[j]
      OBVIOUS
    <3>1. l.content[j] = m.content[j]
      BY <1>2
    <3>2. CASE j = i
      BY <2>3, <3>1, <3>2
    <3>3. CASE j # i
      BY <2>3, <3>1, <3>3
    <3> QED
      BY <3>2, <3>3
  <2> QED
    BY <1>1, <1>2, <1>5, <1>6, <2>2, <2>3, <2>4, <2>5, LiftedSame
<1> QED
  BY <1>3, <1>7, <1>8, <1>9, <1>10, <1>11, <1>12 DEF IRTypes

\* `m` with the calls A of l; those in `native` have arguments, if only the head.
Unheard(l, A, native) == {t \in A : l.content[t] = <<>> /\ t \notin native}
Partly(m, l, A, native) ==
    [m EXCEPT !.items = @ \cup A,
              !.content = [i \in Items |-> IF i \in A THEN l.content[i] ELSE m.content[i]],
              !.fresh = @ \cup Unheard(l, A, native)]

HasPart(p, m, l, A, native) ==
    /\ p.started = m.started /\ p.fin = m.fin /\ p.end = m.end /\ p.usage = m.usage
    /\ p.items = m.items \cup A
    /\ p.fresh = m.fresh \cup Unheard(l, A, native)
    /\ \A i \in Items : p.content[i] = IF i \in A THEN l.content[i] ELSE m.content[i]

\* The turn m with the calls of K passed on too; those in `native` rewritten.
LEMMA PartlyFacts ==
    ASSUME NEW m \in TurnStates, NEW l \in TurnStates, NEW A \in SUBSET Tools,
           A \cap m.items = {}, m.started, ~m.fin, NEW native
    PROVE  LET p == Partly(m, l, A, native)
           IN  p \in TurnStates /\ HasPart(p, m, l, A, native)
<1> DEFINE p == Partly(m, l, A, native)
<1>1. m \in TurnRecords /\ Sound(m) /\ l \in TurnRecords /\ Sound(l)
  BY DEF TurnStates
<1> DEFINE items == m.items \cup A
           content == [i \in Items |-> IF i \in A THEN l.content[i] ELSE m.content[i]]
           fresh == m.fresh \cup Unheard(l, A, native)
<1>2. items \in SUBSET Items /\ fresh \in SUBSET Tools /\ content \in [Items -> Clean]
  BY <1>1, Names DEF TurnRecords, Unheard
<1>3. \A i \in Items : content[i] = IF i \in A THEN l.content[i] ELSE m.content[i]
  OBVIOUS
<1>4. p = [m EXCEPT !.items = items, !.content = content, !.fresh = fresh]
  BY DEF Partly
<1>5. fresh \subseteq items /\ \A t \in fresh : content[t] = <<>>
  <2>1. m.fresh \subseteq m.items
    BY <1>1 DEF Sound
  <2>2. ASSUME NEW t \in fresh
        PROVE  content[t] = <<>>
    <3>1. t \in Items
      BY <1>2, Names
    <3>2. CASE t \in A
      <4>1. t \notin m.fresh
        BY <2>1, <3>2
      <4> QED
        BY <3>1, <3>2, <4>1 DEF Unheard
    <3>3. CASE t \notin A
      BY <1>1, <3>1, <3>3 DEF Sound, Unheard
    <3> QED
      BY <3>2, <3>3
  <2> QED
    BY <2>1, <2>2 DEF Unheard
<1>7. m.items \subseteq items /\ (\A i \in items : i \in m.items \/ i \in A)
  OBVIOUS
<1>6. items = m.items \cup A
      /\ fresh = m.fresh \cup Unheard(l, A, native)
  OBVIOUS
<1> HIDE DEF items, content, fresh, p
<1>8. [m EXCEPT !.items = items, !.content = content, !.fresh = fresh] \in TurnRecords
  BY <1>1, <1>2 DEF TurnRecords
<1>9. /\ p \in TurnRecords /\ p.started = m.started /\ p.fin = m.fin /\ p.end = m.end
      /\ p.usage = m.usage /\ p.items = items /\ p.content = content /\ p.fresh = fresh
  <2>1. p \in TurnRecords
    BY <1>4, <1>8
  <2> QED
    BY <1>1, <1>4, <2>1 DEF TurnRecords
<1>10. \A i \in Items \ items : content[i] = <<>>
  BY <1>1, <1>3, <1>6 DEF Sound
<1>11. Message \in items => content[Message] # <<>>
  BY <1>1, <1>3, <1>6, Names DEF Sound
<1>12. Sound(p)
  BY <1>1, <1>5, <1>9, <1>10, <1>11 DEF Sound
<1> QED
  BY <1>3, <1>6, <1>9, <1>12 DEF TurnStates, HasPart, p

\* What becomes of one held call.
LEMMA FlushedCallLeads ==
    ASSUME NEW m \in TurnStates, NEW l \in TurnStates, NEW A \in SUBSET Tools,
           NEW t \in Tools, Localized(t), t \notin A, t \notin m.items,
           A \cap m.items = {}, m.started, ~m.fin,
           NEW stored, NEW native, native \subseteq stored,
           NEW B, B = A \cup {t}
    PROVE  LET q == FlushedCall([id |-> t, args |-> l.content[t]], native)
           IN  /\ q \in Seq(IREvents(stored))
               /\ Leads(TurnSteps(stored), Partly(m, l, A, native), q, Partly(m, l, B, native))
<1> DEFINE I == IREvents(stored)
           T == TurnSteps(stored)
           p == Partly(m, l, A, native)
           r == Partly(m, l, B, native)
           x == l.content[t]
           q == FlushedCall([id |-> t, args |-> l.content[t]], native)
           first == IREvent("tool_call_start", t, <<>>)
           b == TurnAfter(p, first)
<1>1. t \in Items /\ t # Message /\ t # Reasoning /\ x \in Clean /\ x \in Fragments
      /\ ~Rewritten(x) /\ Sources(x) = x
  <2>1. t \in Items /\ t # Message /\ t # Reasoning /\ x \in Clean
    BY Names DEF TurnStates, TurnRecords
  <2> QED
    BY <2>1, CleanFacts
<1>2. /\ p \in TurnStates
      /\ p.started /\ ~p.fin /\ p.end = m.end /\ p.usage = m.usage
      /\ p.items = m.items \cup A
      /\ p.fresh = m.fresh \cup Unheard(l, A, native)
      /\ \A i \in Items : p.content[i] = IF i \in A THEN l.content[i] ELSE m.content[i]
  <2>1. B \in SUBSET Tools /\ B \cap m.items = {}
    OBVIOUS
  <2>2. p \in TurnStates /\ HasPart(p, m, l, A, native)
    BY <2>1, PartlyFacts
  <2> HIDE DEF p
  <2> QED
    BY <2>2 DEF HasPart
<1>3. /\ r \in TurnStates
      /\ r.started /\ ~r.fin /\ r.end = m.end /\ r.usage = m.usage
      /\ r.items = m.items \cup B
      /\ r.fresh = m.fresh \cup Unheard(l, B, native)
      /\ \A i \in Items : r.content[i] = IF i \in B THEN l.content[i] ELSE m.content[i]
  <2>1. B \in SUBSET Tools /\ B \cap m.items = {}
    OBVIOUS
  <2>2. r \in TurnStates /\ HasPart(r, m, l, B, native)
    BY <2>1, PartlyFacts
  <2> HIDE DEF r
  <2> QED
    BY <2>2 DEF HasPart
<1>4. <<>> \in Fragments /\ Sources(<<>>) = <<>> /\ ~Rewritten(<<>>) /\ <<>> \in Clean
  BY EmptySeq DEF Fragments, Clean, Sources, Rewritten
<1>5. first \in I /\ first.type = "tool_call_start" /\ first.tool = t /\ first.data = <<>>
  <2>1. first \in [type : IRTypes, tool : Tools \cup {NoId}, data : Fragments]
    BY <1>4 DEF IREvent, IRTypes
  <2>2. first.type = "tool_call_start" /\ first.tool = t /\ first.data = <<>>
    BY DEF IREvent
  <2> HIDE DEF first
  <2> QED
    BY <1>4, <2>1, <2>2 DEF IREvents, CallTypes
<1>6. q = <<first>> \o IF t \in native
                       THEN <<IREvent("tool_call_delta", t, <<0>> \o x)>>
                       ELSE On(x # <<>>, <<IREvent("tool_call_delta", t, x)>>)
  BY DEF FlushedCall
<1> HIDE DEF p, r, x, q, first
<1>7. TurnLegal(p, first)
  BY <1>2, <1>5 DEF TurnLegal
<1>8. /\ b \in TurnStates /\ <<p, first, b>> \in T
      /\ b.started /\ ~b.fin /\ b.end = m.end /\ b.usage = m.usage
      /\ b.items = p.items \cup {t} /\ b.fresh = p.fresh \cup {t}
      /\ b.content = p.content
  <2>1. <<p, first, b>> \in T
    BY <1>2, <1>5, <1>7, TurnStepIntro
  <2>2. b = TurnAfter(p, first)
    OBVIOUS
  <2> HIDE DEF b
  <2>3. /\ b = [p EXCEPT !.items = @ \cup {t}, !.fresh = @ \cup {t}]
        /\ b \in TurnStates
    BY <1>5, <2>1, <2>2, TurnStepIs DEF TurnAfter
  <2> QED
    BY <1>2, <1>5, <2>1, <2>3 DEF TurnStates, TurnRecords
<1> HIDE DEF b
<1>9. b.content[t] = <<>>
  <2>1. m.content[t] = <<>>
    BY <1>1 DEF TurnStates, Sound
  <2> QED
    BY <1>1, <1>2, <1>8, <2>1
<1>10. Leads(T, p, <<first>>, b) /\ <<first>> \in Seq(I)
  <2> HIDE DEF I, T
  <2> QED
    BY <1>5, <1>8, LeadsOne
\* The arguments, whole.
<1>11. ASSUME NEW y \in Fragments, y # <<>>, Sources(y) = x,
              Rewritten(y) => t \in native, x = <<>> => t \in native
       PROVE  LET e == IREvent("tool_call_delta", t, y)
              IN  <<e>> \in Seq(I) /\ Leads(T, b, <<e>>, r)
  <2> DEFINE e == IREvent("tool_call_delta", t, y)
             c == TurnAfter(b, e)
  <2>1. e.type = "tool_call_delta" /\ e.tool = t /\ e.data = y
    BY DEF IREvent
  <2>2. e \in I
    <3>1. e \in [type : IRTypes, tool : Tools \cup {NoId}, data : Fragments]
      BY DEF IREvent, IRTypes
    <3> HIDE DEF e
    <3> QED
      BY <1>1, <1>11, <2>1, <3>1 DEF IREvents, CallTypes
  <2> HIDE DEF e
  <2>3. TurnLegal(b, e)
    BY <1>8, <2>1 DEF TurnLegal
  <2>4. <<b, e, c>> \in T
    BY <1>8, <2>2, <2>3, TurnStepIntro
  <2>5. c \in TurnStates /\ Piece(b, e, c, t)
    <3>1. Target(e) = t /\ c = TurnAfter(b, e)
      BY <2>1 DEF Target
    <3> HIDE DEF c
    <3> QED
      BY <1>8, <2>1, <2>2, <2>3, <3>1, PieceStep
  <2> HIDE DEF c
  <2>6. /\ c.started = b.started /\ c.fin = b.fin /\ c.end = b.end /\ c.usage = b.usage
        /\ c.items = b.items \cup {t} /\ c.fresh = b.fresh \ {t}
        /\ c.content[t] = b.content[t] \o x
        /\ \A j \in Items : j # t => c.content[j] = b.content[j]
    BY <1>11, <2>1, <2>5 DEF Piece
  <2>7. c.content[t] = x
    BY <1>1, <1>9, <2>6, ConcatEmptySeq DEF Clean
  <2>8. c = r
    <3>1. \A i \in Items : c.content[i] = r.content[i]
      <4> SUFFICES ASSUME NEW i \in Items
                   PROVE  c.content[i] = r.content[i]
        OBVIOUS
      <4>1. CASE i = t
        BY <1>3, <2>7, <4>1 DEF x
      <4>2. CASE i # t
        <5>1. c.content[i] = p.content[i] /\ (i \in A <=> i \in B)
          BY <1>8, <2>6, <4>2
        <5> QED
          BY <1>2, <1>3, <5>1 DEF Unheard
      <4> QED
        BY <4>1, <4>2
    <3>2. c.fresh = r.fresh
      <4>1. t \notin m.fresh
        BY DEF TurnStates, Sound
      <4>2. p.fresh \ {t} = p.fresh
        <5>1. t \notin Unheard(l, A, native)
          BY DEF Unheard
        <5>2. t \notin p.fresh
          BY <1>2, <4>1, <5>1
        <5> QED
          BY <5>2
      <4>3. r.fresh = p.fresh
        <5>1. ~(l.content[t] = <<>> /\ t \notin native)
          BY <1>11 DEF x
        <5> QED
          BY <1>2, <1>3, <5>1 DEF Unheard
      <4> QED
        BY <1>8, <2>6, <4>2, <4>3
    <3>3. c.items = r.items
      BY <1>2, <1>3, <1>8, <2>6
    <3>4. /\ c.started = r.started /\ c.fin = r.fin /\ c.end = r.end /\ c.usage = r.usage
          /\ c \in TurnRecords /\ r \in TurnRecords
      BY <1>3, <1>8, <2>5, <2>6 DEF TurnStates, TurnRecords
    <3> QED
      BY <3>1, <3>2, <3>3, <3>4, TurnsEqual
  <2> HIDE DEF I, T
  <2>9. <<e>> \in Seq(I) /\ Leads(T, b, <<e>>, r)
    BY <2>2, <2>4, <2>8, LeadsOne
  <2> QED
    BY <2>9 DEF e
<1>12. CASE t \in native
  <2> DEFINE y == <<0>> \o x
             e == IREvent("tool_call_delta", t, y)
  <2>1. y \in Fragments /\ Rewritten(y) /\ Sources(y) = x
    BY <1>1, Headed
  <2>2. y # <<>>
    BY <2>1 DEF Rewritten
  <2>3. q = <<first>> \o <<e>>
    BY <1>6, <1>12
  <2> HIDE DEF y
  <2>4. <<e>> \in Seq(I) /\ Leads(T, b, <<e>>, r)
    BY <1>11, <1>12, <2>1, <2>2
  <2> HIDE DEF e, I, T
  <2>5. q \in Seq(I) /\ Leads(T, p, q, r)
    BY <1>10, <2>3, <2>4, LeadsConcat, ConcatProperties
  <2> QED
    BY <2>5 DEF q, p, r, I, T
<1>13. CASE t \notin native /\ x # <<>>
  <2> DEFINE e == IREvent("tool_call_delta", t, x)
  <2>1. q = <<first>> \o <<e>>
    BY <1>6, <1>13 DEF On
  <2>2. <<e>> \in Seq(I) /\ Leads(T, b, <<e>>, r)
    BY <1>1, <1>11, <1>13
  <2> HIDE DEF e, I, T
  <2>3. q \in Seq(I) /\ Leads(T, p, q, r)
    BY <1>10, <2>1, <2>2, LeadsConcat, ConcatProperties
  <2> QED
    BY <2>3 DEF q, p, r, I, T
<1>14. CASE t \notin native /\ x = <<>>
  <2>1. q = <<first>>
    BY <1>6, <1>14 DEF On
  <2>2. b = r
    <3>1. \A i \in Items : b.content[i] = r.content[i]
      <4> SUFFICES ASSUME NEW i \in Items
                   PROVE  b.content[i] = r.content[i]
        OBVIOUS
      <4>1. CASE i = t
        BY <1>3, <1>9, <1>14, <4>1 DEF x
      <4>2. CASE i # t
        BY <1>2, <1>3, <1>8, <4>2
      <4> QED
        BY <4>1, <4>2
    <3>2. b.fresh = r.fresh
      BY <1>2, <1>3, <1>8, <1>14 DEF x, Unheard
    <3>3. b.items = r.items
      BY <1>2, <1>3, <1>8
    <3>4. /\ b.started = r.started /\ b.fin = r.fin /\ b.end = r.end /\ b.usage = r.usage
          /\ b \in TurnRecords /\ r \in TurnRecords
      BY <1>3, <1>8 DEF TurnStates, TurnRecords
    <3> QED
      BY <3>1, <3>2, <3>3, <3>4, TurnsEqual
  <2> HIDE DEF I, T
  <2>3. q \in Seq(I) /\ Leads(T, p, q, r)
    BY <1>10, <2>1, <2>2
  <2> QED
    BY <2>3 DEF q, p, r, I, T
<1> QED
  BY <1>12, <1>13, <1>14

LEMMA PartlyNone ==
    ASSUME NEW m \in TurnStates, NEW l \in TurnStates, m.started, ~m.fin, NEW native
    PROVE  Partly(m, l, {}, native) = m
<1> DEFINE p == Partly(m, l, {}, native)
           E == {}
<1>1. E \in SUBSET Tools /\ E \cap m.items = {}
  OBVIOUS
<1>2. p \in TurnStates /\ HasPart(p, m, l, E, native)
  <2> HIDE DEF E, p
  <2>1. Partly(m, l, E, native) \in TurnStates /\ HasPart(Partly(m, l, E, native), m, l, E, native)
    BY <1>1, PartlyFacts
  <2> QED
    BY <2>1 DEF p, E
<1> HIDE DEF p
<1>3. Unheard(l, E, native) = {}
  BY DEF Unheard
<1>4. p \in TurnRecords /\ m \in TurnRecords
  BY <1>2 DEF TurnStates
<1>5. /\ p.started = m.started /\ p.fin = m.fin /\ p.end = m.end /\ p.usage = m.usage
      /\ p.items = m.items /\ p.fresh = m.fresh /\ \A i \in Items : p.content[i] = m.content[i]
  BY <1>2, <1>3 DEF HasPart
<1>6. p = m
  BY <1>4, <1>5, TurnsEqual
<1> QED
  BY <1>6 DEF p

\* The held calls, as the flush hands them on.
LEMMA FlushLeads ==
    ASSUME NEW m \in TurnStates, NEW l \in TurnStates, Lifted(m, l), m.started, ~m.fin,
           NEW stored, NEW native \in SUBSET HeldIds, native \subseteq stored
    PROVE  LET q == FlattenSeq([j \in DOMAIN pending |-> FlushedCall(pending[j], native)])
           IN  /\ q \in Seq(IREvents(stored))
               /\ Leads(TurnSteps(stored), m, q, Partly(m, l, HeldIds, native))
<1> DEFINE n == Len(pending)
           I == IREvents(stored)
           T == TurnSteps(stored)
           seqs == [j \in DOMAIN pending |-> FlushedCall(pending[j], native)]
           K(j) == {pending[a].id : a \in 1..j}
           h == [j \in 0..n |-> Partly(m, l, K(j), native)]
<1>1. /\ n \in Nat /\ DOMAIN pending = 1..n
      /\ \A j \in 1..n : pending[j].id \in HeldIds /\ pending[j].id \in Tools
                         /\ pending[j].args \in Clean
                         /\ pending[j] = [id |-> pending[j].id, args |-> pending[j].args]
      /\ HeldIds = {pending[j].id : j \in 1..n} /\ HeldIds \subseteq Tools
  BY HeldFacts DEF Lifted
<1>2. /\ l.items = m.items \cup HeldIds /\ m.items \cap HeldIds = {}
      /\ \A a, b \in 1..n :
            /\ Localized(pending[a].id) /\ l.content[pending[a].id] = pending[a].args
            /\ pending[a].id = pending[b].id => a = b
  BY DEF Lifted, Held
<1>3. ASSUME NEW j \in 1..n
      PROVE  /\ FlushedCall(pending[j], native) \in Seq(I)
             /\ Leads(T, Partly(m, l, K(j - 1), native), FlushedCall(pending[j], native),
                      Partly(m, l, K(j), native))
  <2> DEFINE t == pending[j].id
             A == K(j - 1)
             B == K(j)
  <2>1. t \in Tools /\ t \in HeldIds /\ Localized(t) /\ l.content[t] = pending[j].args
        /\ pending[j] = [id |-> t, args |-> l.content[t]]
    BY <1>1, <1>2
  <2>2. 1..j = (1..(j - 1)) \cup {j} /\ j \notin 1..(j - 1) /\ 1..j \subseteq 1..n
    BY <1>1
  <2>3. B = A \cup {t}
    BY <2>2
  <2>4. t \notin A
    BY <1>2, <2>2
  <2>5. A \subseteq HeldIds
    BY <1>1, <2>2
  <2>6. A \in SUBSET Tools /\ A \cap m.items = {} /\ t \notin m.items
    BY <1>1, <1>2, <2>1, <2>5
  <2> HIDE DEF t, A, B, K, n, seqs, h
  <2> DEFINE f == FlushedCall([id |-> t, args |-> l.content[t]], native)
  <2>7. f \in Seq(I) /\ Leads(T, Partly(m, l, A, native), f, Partly(m, l, B, native))
    BY <2>1, <2>3, <2>4, <2>6, FlushedCallLeads
  <2>8. f = FlushedCall(pending[j], native)
    BY <2>1
  <2> HIDE DEF f
  <2> QED
    BY <2>7, <2>8 DEF A, B
<1>4. seqs \in Seq(Seq(I)) /\ Len(seqs) = n
  <2>1. seqs = [j \in 1..n |-> FlushedCall(pending[j], native)]
    BY <1>1
  <2>2. seqs \in [1..n -> Seq(I)]
    BY <1>3, <2>1
  <2> HIDE DEF seqs, n, I
  <2> QED
    BY <1>1, <2>2, FunctionIsSeq
<1>5. ASSUME NEW j \in 1..Len(seqs)
      PROVE  Leads(T, h[j - 1], seqs[j], h[j])
  <2>1. j \in 1..n /\ j \in 0..n /\ j - 1 \in 0..n
    BY <1>1, <1>4
  <2>2. /\ h[j - 1] = Partly(m, l, K(j - 1), native) /\ h[j] = Partly(m, l, K(j), native)
        /\ seqs[j] = FlushedCall(pending[j], native)
    <3> HIDE DEF K
    <3> QED
      BY <1>1, <2>1
  <2> HIDE DEF h, seqs, K, T, I
  <2> QED
    BY <1>3, <2>1, <2>2
<1>6. h[0] = m
  <2>1. K(0) = {} /\ 0 \in 0..n
    BY <1>1
  <2> HIDE DEF K
  <2>2. h[0] = Partly(m, l, {}, native)
    BY <2>1
  <2> QED
    BY <2>2, PartlyNone
<1>7. h[Len(seqs)] = Partly(m, l, HeldIds, native)
  <2>1. K(n) = HeldIds /\ n \in 0..n
    BY <1>1
  <2> HIDE DEF K, n
  <2>2. h[n] = Partly(m, l, HeldIds, native)
    BY <2>1
  <2> QED
    BY <1>4, <2>2
<1> HIDE DEF h, T, I
<1>8. seqs \in Seq(Seq(I)) /\ \A j \in 1..Len(seqs) : Leads(T, h[j - 1], seqs[j], h[j])
  BY <1>4, <1>5
<1> HIDE DEF seqs, K, n
<1>9. FlattenSeq(seqs) \in Seq(I) /\ Leads(T, h[0], FlattenSeq(seqs), h[Len(seqs)])
  BY <1>8, FlattenLeads
<1>10. FlattenSeq(seqs) \in Seq(I) /\ Leads(T, m, FlattenSeq(seqs), Partly(m, l, HeldIds, native))
  BY <1>6, <1>7, <1>9
<1> QED
  BY <1>10 DEF seqs, I, T

\* FlushCalls: nothing is held any more, and the finish comes after the calls.
LEMMA FlushLifts ==
    ASSUME NEW m \in TurnStates, NEW l \in TurnStates, Lifted(m, l),
           NEW e \in IREvents({}), e = Head(ir), TurnLegal(l, e),
           NEW k, k = TurnAfter(l, e), FlushCalls
    PROVE  \E v \in TurnStates : Converted(m, v)' /\ Lifted(v, k)' /\ v.fin /\ e.type = "finish"
<1>1. e.type \in Ends /\ pending # <<>> /\ pending' = <<>>
  BY DEF FlushCalls, AtIR
<1>2. PICK native \in SUBSET HeldIds :
         /\ persisted' = persisted \cup native
         /\ transformed' = FlattenSeq([j \in DOMAIN pending |-> FlushedCall(pending[j], native)])
                           \o <<e>>
  BY DEF FlushCalls, Took
<1>3. /\ l.items = m.items \cup HeldIds /\ m.items \cap HeldIds = {}
      /\ \A i \in Items \ HeldIds : l.content[i] = m.content[i]
      /\ HeldIds # {} => m.started /\ ~m.fin
      /\ l.started = m.started /\ l.fin = m.fin /\ l.end = m.end /\ l.usage = m.usage
      /\ HeldIds \subseteq Tools /\ (pending = <<>> <=> HeldIds = {})
  BY HeldFacts DEF Lifted
<1>4. m.started /\ ~m.fin /\ ~l.fin
  BY <1>1, <1>3
<1>5. e.type = "finish"
  BY <1>1, <1>4 DEF Ends, TurnLegal
<1> DEFINE stored == persisted'
           T == TurnSteps(stored)
           I == IREvents(stored)
           q == FlattenSeq([j \in DOMAIN pending |-> FlushedCall(pending[j], native)])
           w == Partly(m, l, HeldIds, native)
<1>6. q \in Seq(I) /\ Leads(T, m, q, w)
  <2>1. native \subseteq stored
    BY <1>2
  <2> HIDE DEF stored
  <2> QED
    BY <1>4, <2>1, FlushLeads
<1>7. w \in TurnStates /\ HasPart(w, m, l, HeldIds, native)
  BY <1>3, <1>4, PartlyFacts
<1>8. transformed' = q \o <<e>>
  BY <1>2
<1> HIDE DEF q
<1>b. PICK b \in TurnStates : b = w
  BY <1>7
<1> HIDE DEF w
<1>9. /\ b.started = m.started /\ b.fin = m.fin /\ b.end = m.end /\ b.usage = m.usage
      /\ b.items = m.items \cup HeldIds
      /\ \A i \in Items : b.content[i] = IF i \in HeldIds THEN l.content[i] ELSE m.content[i]
  BY <1>7, <1>b DEF HasPart
<1>10. TurnLegal(b, e)
  BY <1>4, <1>5, <1>9 DEF TurnLegal
<1> DEFINE v == TurnAfter(b, e)
<1>11. e \in I
  <2>1. {} \subseteq stored
    OBVIOUS
  <2> HIDE DEF stored
  <2> QED
    BY <2>1, StoredMore
<1>12. <<b, e, v>> \in T /\ v \in TurnStates
  BY <1>10, <1>11, TurnStepIntro, TurnStepIs
<1>13. v = [b EXCEPT !.fin = TRUE, !.fresh = {}] /\ k = [l EXCEPT !.fin = TRUE, !.fresh = {}]
  BY <1>5 DEF TurnAfter
<1> HIDE DEF v
<1>14. Leads(T, m, q \o <<e>>, v) /\ q \o <<e>> \in Seq(I)
  <2>1. Leads(T, b, <<e>>, v) /\ <<e>> \in Seq(I)
    <3> HIDE DEF T, I
    <3> QED
      BY <1>11, <1>12, LeadsOne
  <2>2. Leads(T, m, q, b) /\ q \in Seq(I)
    BY <1>6, <1>b
  <2> HIDE DEF T, I
  <2> QED
    BY <2>1, <2>2, LeadsConcat, ConcatProperties
<1>15. Converted(m, v)'
  <2> HIDE DEF q
  <2> QED
    BY <1>8, <1>14 DEF Converted
<1>16. /\ k.started = l.started /\ k.fin = TRUE /\ k.end = l.end /\ k.usage = l.usage
       /\ k.items = l.items /\ k.content = l.content
       /\ v.started = b.started /\ v.fin = TRUE /\ v.end = b.end /\ v.usage = b.usage
       /\ v.items = b.items /\ v.content = b.content
  BY <1>13 DEF TurnStates, TurnRecords
<1>17. HeldIds' = {}
  BY <1>1 DEF HeldIds
<1>18. Lifted(v, k)'
  <2>1. pending' \in Seq([id : Tools, args : Clean]) /\ Len(pending') = 0
    BY <1>1, EmptySeq
  <2>2. Held(k)'
    BY <2>1 DEF Held
  <2>3. \A i \in Items : k.content[i] = v.content[i]
    BY <1>3, <1>9, <1>16
  <2>4. k.items = v.items
    BY <1>3, <1>9, <1>16
  <2>5. k.started = v.started /\ k.fin = v.fin /\ k.end = v.end /\ k.usage = v.usage
    BY <1>3, <1>9, <1>16
  <2> QED
    BY <1>17, <2>1, <2>2, <2>3, <2>4, <2>5 DEF Lifted
<1> QED
  BY <1>5, <1>12, <1>15, <1>16, <1>18

-----------------------------------------------------------------------------
(* The upstream: what a chunk is taken for takes the turn to what the        *)
(* upstream has sent of it then.                                             *)

UpstreamTypes ==
    /\ up \in [n : 0..MaxChunks, order : Seq(Tools), finished : BOOLEAN, last : BOOLEAN]
    /\ told \in [items : SUBSET Items, content : [Items -> Clean], usage : SUBSET (1..MaxChunks)]
    /\ from_started \in BOOLEAN /\ from_ended \in BOOLEAN /\ saw_finish \in BOOLEAN
    /\ from_order = up.order
    /\ told.items \cap Tools = ToSet(up.order)
    /\ up.n = 0 => ~from_started

\* u is the turn the upstream has sent so far.
UpstreamMatches(u) ==
    /\ (u.started <=> from_started) /\ (u.fin <=> up.finished) /\ (u.end <=> from_ended)
    /\ u.items = told.items
    /\ \A i \in Items : u.content[i] = told.content[i]
    /\ Quirks = {} => told.usage \subseteq u.usage

\* Event by event, q takes the turn from u to v.
Takes(u, q, v) ==
    u \in TurnStates /\ v \in TurnStates /\ q \in Seq(IREvents({})) /\ Leads(TurnSteps({}), u, q, v)

LEMMA TakesNothing == ASSUME NEW u \in TurnStates PROVE Takes(u, <<>>, u)
  BY LeadsEmpty, EmptySeq DEF Takes

LEMMA TakesOne ==
    ASSUME NEW u \in TurnStates, NEW e \in IREvents({}), TurnLegal(u, e)
    PROVE  Takes(u, <<e>>, TurnAfter(u, e))
<1> DEFINE T == TurnSteps({})
           I == IREvents({})
           v == TurnAfter(u, e)
<1>1. <<u, e, v>> \in T /\ v \in TurnStates
  BY TurnStepIntro, TurnStepIs
<1>2. Leads(T, u, <<e>>, v) /\ <<e>> \in Seq(I)
  <2> HIDE DEF T, I, v
  <2> QED
    BY <1>1, LeadsOne DEF I
<1> QED
  BY <1>1, <1>2 DEF Takes

LEMMA TakesBoth ==
    ASSUME NEW u, NEW q, NEW t, Takes(u, q, t), NEW r, NEW v, Takes(t, r, v)
    PROVE  Takes(u, q \o r, v)
<1> DEFINE T == TurnSteps({})
           I == IREvents({})
<1>1. q \in Seq(I) /\ r \in Seq(I) /\ Leads(T, u, q, t) /\ Leads(T, t, r, v)
  BY DEF Takes
<1> HIDE DEF T, I
<1>2. q \o r \in Seq(I) /\ Leads(T, u, q \o r, v)
  BY <1>1, LeadsConcat, ConcatProperties
<1> QED
  BY <1>2 DEF Takes, T, I

LEMMA IREventIs ==
    ASSUME NEW type \in IRTypes \ CallTypes, NEW data \in Clean,
           type \in {"text_delta", "usage"} => data # <<>>
    PROVE  /\ IREvent(type, NoId, data) \in IREvents({})
           /\ IREvent(type, NoId, data).type = type /\ IREvent(type, NoId, data).data = data
<1> DEFINE e == IREvent(type, NoId, data)
<1>1. e.type = type /\ e.tool = NoId /\ e.data = data
  BY DEF IREvent
<1>2. data \in Fragments /\ ~Rewritten(data) /\ Sources(data) = data
  BY CleanFacts
<1>3. e \in [type : IRTypes, tool : Tools \cup {NoId}, data : Fragments]
  BY <1>2 DEF IREvent
<1> HIDE DEF e
<1>4. e \in IREvents({})
  BY <1>1, <1>2, <1>3, Names DEF IREvents, CallTypes
<1> QED
  BY <1>1, <1>4 DEF e

LEMMA IRCallIs ==
    ASSUME NEW type \in CallTypes, NEW t \in Tools, NEW data \in Clean,
           type = "tool_call_delta" => data # <<>>
    PROVE  /\ IREvent(type, t, data) \in IREvents({})
           /\ IREvent(type, t, data).type = type /\ IREvent(type, t, data).data = data
           /\ IREvent(type, t, data).tool = t
<1> DEFINE e == IREvent(type, t, data)
<1>1. e.type = type /\ e.tool = t /\ e.data = data
  BY DEF IREvent
<1>2. data \in Fragments /\ ~Rewritten(data) /\ Sources(data) = data
  BY CleanFacts
<1>3. e \in [type : IRTypes, tool : Tools \cup {NoId}, data : Fragments]
  BY <1>2 DEF IREvent, CallTypes, IRTypes
<1> HIDE DEF e
<1>4. e \in IREvents({})
  BY <1>1, <1>2, <1>3, Names DEF IREvents, CallTypes
<1> QED
  BY <1>1, <1>4 DEF e

\* The stream_start of a chunk, if it has one.
LEMMA StartTaken ==
    ASSUME NEW u \in TurnStates, NEW condition \in BOOLEAN, condition => ~u.started
    PROVE  \E v \in TurnStates :
              /\ Takes(u, On(condition, <<IREvent("stream_start", NoId, <<>>)>>), v)
              /\ v.started = (u.started \/ condition) /\ v.fin = u.fin /\ v.end = u.end
              /\ v.items = u.items /\ v.content = u.content /\ v.usage = u.usage
<1> DEFINE e == IREvent("stream_start", NoId, <<>>)
<1>1. e \in IREvents({}) /\ e.type = "stream_start"
  BY EmptySeq, IREventIs DEF IRTypes, CallTypes, Clean
<1> HIDE DEF e
<1>2. CASE condition
  <2> DEFINE v == TurnAfter(u, e)
  <2>1. TurnLegal(u, e)
    BY <1>1, <1>2 DEF TurnLegal
  <2>2. Takes(u, <<e>>, v) /\ v \in TurnStates
    BY <1>1, <2>1, TakesOne DEF Takes
  <2>3. v = [u EXCEPT !.started = TRUE]
    BY <1>1 DEF TurnAfter
  <2> HIDE DEF v
  <2>4. v.started = TRUE /\ v.fin = u.fin /\ v.end = u.end
        /\ v.items = u.items /\ v.content = u.content /\ v.usage = u.usage
    BY <2>3 DEF TurnStates, TurnRecords
  <2> QED
    BY <1>2, <2>2, <2>4 DEF On, e
<1>3. CASE ~condition
  <2>1. u.started = (u.started \/ condition)
    BY <1>3 DEF TurnStates, TurnRecords
  <2> QED
    BY <1>3, <2>1, TakesNothing DEF On
<1> QED
  BY <1>2, <1>3

\* Its finish, if it has one.
LEMMA FinishTaken ==
    ASSUME NEW u \in TurnStates, NEW condition \in BOOLEAN, condition => u.started /\ ~u.fin
    PROVE  \E v \in TurnStates :
              /\ Takes(u, On(condition, <<IREvent("finish", NoId, <<>>)>>), v)
              /\ v.started = u.started /\ v.fin = (u.fin \/ condition) /\ v.end = u.end
              /\ v.items = u.items /\ v.content = u.content /\ v.usage = u.usage
<1> DEFINE e == IREvent("finish", NoId, <<>>)
<1>1. e \in IREvents({}) /\ e.type = "finish"
  BY EmptySeq, IREventIs DEF IRTypes, CallTypes, Clean
<1> HIDE DEF e
<1>2. CASE condition
  <2> DEFINE v == TurnAfter(u, e)
  <2>1. TurnLegal(u, e)
    BY <1>1, <1>2 DEF TurnLegal
  <2>2. Takes(u, <<e>>, v) /\ v \in TurnStates
    BY <1>1, <2>1, TakesOne DEF Takes
  <2>3. v = [u EXCEPT !.fin = TRUE, !.fresh = {}]
    BY <1>1 DEF TurnAfter
  <2> HIDE DEF v
  <2>4. v.started = u.started /\ v.fin = TRUE /\ v.end = u.end
        /\ v.items = u.items /\ v.content = u.content /\ v.usage = u.usage
    BY <2>3 DEF TurnStates, TurnRecords
  <2> QED
    BY <1>2, <2>2, <2>4 DEF On, e
<1>3. CASE ~condition
  <2>1. u.fin = (u.fin \/ condition)
    BY <1>3 DEF TurnStates, TurnRecords
  <2> QED
    BY <1>3, <2>1, TakesNothing DEF On
<1> QED
  BY <1>2, <1>3

\* Its stream_end, if it has one.
LEMMA EndTaken ==
    ASSUME NEW u \in TurnStates, NEW condition \in BOOLEAN, condition => u.fin /\ ~u.end
    PROVE  \E v \in TurnStates :
              /\ Takes(u, On(condition, <<IREvent("stream_end", NoId, <<>>)>>), v)
              /\ v.started = u.started /\ v.fin = u.fin /\ v.end = (u.end \/ condition)
              /\ v.items = u.items /\ v.content = u.content /\ v.usage = u.usage
<1> DEFINE e == IREvent("stream_end", NoId, <<>>)
<1>1. e \in IREvents({}) /\ e.type = "stream_end"
  BY EmptySeq, IREventIs DEF IRTypes, CallTypes, Clean
<1> HIDE DEF e
<1>2. CASE condition
  <2> DEFINE v == TurnAfter(u, e)
  <2>1. TurnLegal(u, e)
    BY <1>1, <1>2 DEF TurnLegal
  <2>2. Takes(u, <<e>>, v) /\ v \in TurnStates
    BY <1>1, <2>1, TakesOne DEF Takes
  <2>3. v = [u EXCEPT !.end = TRUE]
    BY <1>1 DEF TurnAfter
  <2> HIDE DEF v
  <2>4. v.started = u.started /\ v.fin = u.fin /\ v.end = TRUE
        /\ v.items = u.items /\ v.content = u.content /\ v.usage = u.usage
    BY <2>3 DEF TurnStates, TurnRecords
  <2> QED
    BY <1>2, <2>2, <2>4 DEF On, e
<1>3. CASE ~condition
  <2>1. u.end = (u.end \/ condition)
    BY <1>3 DEF TurnStates, TurnRecords
  <2> QED
    BY <1>3, <2>1, TakesNothing DEF On
<1> QED
  BY <1>2, <1>3

\* Its usage, if it has one.
LEMMA UsageTaken ==
    ASSUME NEW u \in TurnStates, NEW condition \in BOOLEAN, NEW n \in 1..MaxChunks,
           condition /\ Quirks = {} => u.fin
    PROVE  \E v \in TurnStates :
              /\ Takes(u, On(condition, <<IREvent("usage", NoId, <<n>>)>>), v)
              /\ v.started = u.started /\ v.fin = u.fin /\ v.end = u.end
              /\ v.items = u.items /\ v.content = u.content /\ u.usage \subseteq v.usage
              /\ condition /\ ~u.end => n \in v.usage
<1> DEFINE d == <<n>>
           e == IREvent("usage", NoId, d)
<1>1. d \in Clean /\ d # <<>> /\ ToSet(d) = {n}
  BY DEF Clean, ToSet
<1> HIDE DEF d
<1>2. e \in IREvents({}) /\ e.type = "usage" /\ e.data = d
  BY <1>1, IREventIs DEF IRTypes, CallTypes
<1> HIDE DEF e
<1>3. CASE condition
  <2> DEFINE v == TurnAfter(u, e)
  <2>1. TurnLegal(u, e)
    BY <1>2, <1>3 DEF TurnLegal
  <2>2. Takes(u, <<e>>, v) /\ v \in TurnStates
    BY <1>2, <2>1, TakesOne DEF Takes
  <2>3. v = IF u.end THEN u ELSE [u EXCEPT !.usage = @ \cup {n}]
    BY <1>1, <1>2 DEF TurnAfter
  <2> HIDE DEF v
  <2>4. v.started = u.started /\ v.fin = u.fin /\ v.end = u.end
        /\ v.items = u.items /\ v.content = u.content
        /\ v.usage = IF u.end THEN u.usage ELSE u.usage \cup {n}
    BY <2>3 DEF TurnStates, TurnRecords
  <2> QED
    BY <1>3, <2>2, <2>4 DEF On, d, e
<1>4. CASE ~condition
  BY <1>4, TakesNothing DEF On
<1> QED
  BY <1>3, <1>4

\* v is u with one more piece x of item i.
Gets(u, v, i, x) ==
    /\ v.started = u.started /\ v.fin = u.fin /\ v.end = u.end /\ v.usage = u.usage
    /\ v.items = u.items \cup {i}
    /\ v.content[i] = u.content[i] \o x
    /\ \A j \in Items : j # i => v.content[j] = u.content[j]

\* A piece of an item.
LEMMA PieceTaken ==
    ASSUME NEW u \in TurnStates, NEW e \in IREvents({}), TurnLegal(u, e),
           e.type \in {"text_delta", "reasoning_delta", "tool_call_delta"}
    PROVE  \E v \in TurnStates : Takes(u, <<e>>, v) /\ Gets(u, v, Target(e), e.data)
<1> DEFINE v == TurnAfter(u, e)
<1>1. Takes(u, <<e>>, v) /\ v \in TurnStates
  BY TakesOne DEF Takes
<1>2. v = TurnAfter(u, e)
  OBVIOUS
<1> HIDE DEF v
<1>3. Piece(u, e, v, Target(e))
  BY <1>2, PieceStep
<1>4. Sources(e.data) = e.data
  BY IREventFacts
<1> DEFINE i == Target(e)
<1> HIDE DEF i
<1>5. Gets(u, v, i, e.data)
  BY <1>3, <1>4 DEF Piece, Gets, i
<1> QED
  BY <1>1, <1>5 DEF i

DeltaKinds == {"text", "reasoning", "tool_start", "tool_args", "none"}

\* What a delta may be after those that came before.
DeltaFits(delta) ==
    /\ delta.kind \in DeltaKinds /\ delta.carries \in BOOLEAN
    /\ delta.kind \in {"text", "tool_args"} => delta.carries
    /\ delta.kind = "tool_start" => delta.tool \in Tools \ ToSet(up.order)
    /\ delta.kind = "tool_args" => delta.tool \in ToSet(up.order)

\* v is u with what the delta of chunk n brings.
GetsDelta(u, v, delta, n) ==
    /\ v.started = u.started /\ v.fin = u.fin /\ v.end = u.end /\ v.usage = u.usage
    /\ v.items = u.items \cup ItemOf(delta)
    /\ \A i \in Items : v.content[i] = IF i \in ItemOf(delta) /\ delta.carries
                                       THEN Append(u.content[i], n) ELSE u.content[i]

LEMMA CleanOne ==
    ASSUME NEW n \in 1..MaxChunks
    PROVE  /\ <<n>> \in Clean /\ <<n>> # <<>>
           /\ \A x \in Clean : x \o <<n>> = Append(x, n) /\ x \o <<>> = x
<1> DEFINE S == 1..MaxChunks
<1>1. n \in S
  OBVIOUS
<1> HIDE DEF S
<1>2. <<n>> \in Seq(S) /\ <<n>> # <<>>
  BY <1>1
<1>3. ASSUME NEW x \in Seq(S)
      PROVE  x \o <<n>> = Append(x, n) /\ x \o <<>> = x
  BY <1>1, AppendIsConcat, ConcatEmptySeq
<1> QED
  BY <1>2, <1>3 DEF Clean, S

LEMMA PieceIsDelta ==
    ASSUME NEW u \in TurnStates, NEW v, NEW i \in Items, NEW n \in 1..MaxChunks,
           NEW delta, ItemOf(delta) = {i}, delta.carries \in BOOLEAN,
           Gets(u, v, i, On(delta.carries, <<n>>))
    PROVE  GetsDelta(u, v, delta, n)
<1>1. u.content[i] \in Clean
  BY DEF TurnStates, TurnRecords
<1>2. v.content[i] = IF delta.carries THEN Append(u.content[i], n) ELSE u.content[i]
  <2>1. CASE delta.carries
    BY <1>1, <2>1, CleanOne DEF Gets, On
  <2>2. CASE ~delta.carries
    BY <1>1, <2>2, CleanOne DEF Gets, On
  <2> QED
    BY <2>1, <2>2
<1> QED
  BY <1>2 DEF Gets, GetsDelta

\* The delta of a chunk, whatever it is of.
LEMMA DeltaTaken ==
    ASSUME NEW u \in TurnStates, NEW c, NEW n \in 1..MaxChunks, DeltaFits(c.delta),
           UpstreamTypes, u.items \cap Tools = ToSet(up.order),
           c.delta.kind # "none" => u.started /\ ~u.fin
    PROVE  \E v \in TurnStates :
              /\ Takes(u, (On(c.delta.kind = "text", <<IREvent("text_delta", NoId, <<n>>)>>)
                           \o On(c.delta.kind = "reasoning",
                                 <<IREvent("reasoning_delta", NoId, On(c.delta.carries, <<n>>))>>))
                          \o handle_tool_calls_from_p(c, n), v)
              /\ GetsDelta(u, v, c.delta, n)
<1> DEFINE delta == c.delta
           q1 == On(c.delta.kind = "text", <<IREvent("text_delta", NoId, <<n>>)>>)
           q2 == On(c.delta.kind = "reasoning",
                    <<IREvent("reasoning_delta", NoId, On(c.delta.carries, <<n>>))>>)
           q3 == handle_tool_calls_from_p(c, n)
<1>1. /\ <<n>> \in Clean /\ <<n>> # <<>> /\ <<>> \in Clean
      /\ On(c.delta.carries, <<n>>) \in Clean
  BY CleanOne, EmptySeq DEF Clean, On
<1>2. Message \in Items /\ Reasoning \in Items /\ Tools \subseteq Items
  BY Names
<1>3. \A t \in TurnStates : Takes(t, <<>>, t)
  BY TakesNothing
<1>4. CASE delta.kind = "text"
  <2> DEFINE e == IREvent("text_delta", NoId, <<n>>)
  <2>1. e \in IREvents({}) /\ e.type = "text_delta" /\ e.data = <<n>>
    BY <1>1, IREventIs DEF IRTypes, CallTypes
  <2>2. q1 = <<e>> /\ q2 = <<>> /\ q3 = <<>> /\ delta.carries
    BY <1>4 DEF On, handle_tool_calls_from_p, DeltaFits
  <2> HIDE DEF e
  <2>3. TurnLegal(u, e) /\ Target(e) = Message
    BY <1>4, <2>1 DEF TurnLegal, Target
  <2>4. PICK v \in TurnStates : Takes(u, <<e>>, v) /\ Gets(u, v, Message, e.data)
    BY <2>1, <2>3, PieceTaken
  <2>5. Takes(u, (<<e>> \o <<>>) \o <<>>, v)
    BY <1>3, <2>4, TakesBoth
  <2>6. GetsDelta(u, v, delta, n)
    <3>1. ItemOf(delta) = {Message} /\ Gets(u, v, Message, On(delta.carries, <<n>>))
      BY <1>4, <2>1, <2>2, <2>4 DEF ItemOf, On
    <3>2. delta.carries \in BOOLEAN
      BY DEF DeltaFits
    <3> HIDE DEF delta
    <3> QED
      BY <1>2, <3>1, <3>2, PieceIsDelta
  <2> QED
    BY <2>2, <2>5, <2>6
<1>5. CASE delta.kind = "reasoning"
  <2> DEFINE d == On(c.delta.carries, <<n>>)
             e == IREvent("reasoning_delta", NoId, d)
  <2>1. e \in IREvents({}) /\ e.type = "reasoning_delta" /\ e.data = d
    <3>1. d \in Clean
      BY <1>1
    <3> HIDE DEF d
    <3> QED
      BY <3>1, IREventIs DEF IRTypes, CallTypes
  <2>2. q1 = <<>> /\ q2 = <<e>> /\ q3 = <<>>
    BY <1>5 DEF On, handle_tool_calls_from_p
  <2> HIDE DEF e
  <2>3. TurnLegal(u, e) /\ Target(e) = Reasoning
    BY <1>5, <2>1 DEF TurnLegal, Target
  <2>4. PICK v \in TurnStates : Takes(u, <<e>>, v) /\ Gets(u, v, Reasoning, e.data)
    BY <2>1, <2>3, PieceTaken
  <2>5. Takes(u, (<<>> \o <<e>>) \o <<>>, v)
    BY <1>3, <2>4, TakesBoth
  <2>6. GetsDelta(u, v, delta, n)
    <3>1. ItemOf(delta) = {Reasoning} /\ Gets(u, v, Reasoning, On(delta.carries, <<n>>))
      BY <1>5, <2>1, <2>2, <2>4 DEF ItemOf
    <3>2. delta.carries \in BOOLEAN
      BY DEF DeltaFits
    <3> HIDE DEF delta
    <3> QED
      BY <1>2, <3>1, <3>2, PieceIsDelta
  <2> QED
    BY <2>2, <2>5, <2>6
<1>6. CASE delta.kind = "tool_args"
  <2> DEFINE t == delta.tool
             e == IREvent("tool_call_delta", t, <<n>>)
  <2>1. t \in ToSet(up.order) /\ t \in Tools /\ t \in u.items /\ delta.carries
    BY <1>6 DEF DeltaFits
  <2>2. effective_tc_id(c) = t
    <3>1. \E k \in DOMAIN up.order : up.order[k] = t
      BY <2>1 DEF ToSet
    <3>2. from_order = up.order
      BY DEF UpstreamTypes
    <3> QED
      BY <3>1, <3>2 DEF effective_tc_id
  <2>3. q1 = <<>> /\ q2 = <<>> /\ q3 = <<e>>
    BY <1>6, <2>2 DEF On, handle_tool_calls_from_p
  <2>4. e \in IREvents({}) /\ e.type = "tool_call_delta" /\ e.tool = t /\ e.data = <<n>>
    <3> HIDE DEF t
    <3> QED
      BY <1>1, <2>1, IRCallIs DEF CallTypes
  <2> HIDE DEF e
  <2>5. TurnLegal(u, e) /\ Target(e) = t
    <3>1. ~Rewritten(e.data)
      BY <2>4, IREventFacts
    <3> QED
      BY <1>6, <2>1, <2>4, <3>1 DEF TurnLegal, Target
  <2>6. PICK v \in TurnStates : Takes(u, <<e>>, v) /\ Gets(u, v, t, e.data)
    BY <2>4, <2>5, PieceTaken
  <2>7. Takes(u, (<<>> \o <<>>) \o <<e>>, v)
    BY <1>3, <2>6, TakesBoth
  <2>8. GetsDelta(u, v, delta, n)
    <3>1. ItemOf(delta) = {t} /\ Gets(u, v, t, On(delta.carries, <<n>>))
      BY <1>6, <2>1, <2>4, <2>6 DEF ItemOf, On
    <3>2. delta.carries \in BOOLEAN /\ t \in Items
      BY <1>2, <2>1 DEF DeltaFits
    <3> HIDE DEF delta, t
    <3> QED
      BY <3>1, <3>2, PieceIsDelta
  <2> QED
    BY <2>3, <2>7, <2>8
<1>7. CASE delta.kind = "none"
  <2>1. q1 = <<>> /\ q2 = <<>> /\ q3 = <<>> /\ ItemOf(delta) = {}
    BY <1>7 DEF On, handle_tool_calls_from_p, ItemOf
  <2>2. Takes(u, (<<>> \o <<>>) \o <<>>, u)
    BY <1>3, TakesBoth
  <2>3. GetsDelta(u, u, delta, n)
    BY <2>1 DEF GetsDelta
  <2> QED
    BY <2>1, <2>2, <2>3
<1>8. CASE delta.kind = "tool_start"
  <2> DEFINE t == delta.tool
             e == IREvent("tool_call_start", t, <<>>)
             f == IREvent("tool_call_delta", t, <<n>>)
             b == TurnAfter(u, e)
  <2>1. t \in Tools /\ t \in Items /\ t \notin u.items
    BY <1>2, <1>8 DEF DeltaFits
  <2>2. q1 = <<>> /\ q2 = <<>> /\ q3 = <<e>> \o On(delta.carries, <<f>>)
    BY <1>8 DEF On, handle_tool_calls_from_p
  <2>3. /\ e \in IREvents({}) /\ e.type = "tool_call_start" /\ e.tool = t
        /\ f \in IREvents({}) /\ f.type = "tool_call_delta" /\ f.tool = t /\ f.data = <<n>>
    <3> HIDE DEF t
    <3> QED
      BY <1>1, <2>1, IRCallIs DEF CallTypes
  <2> HIDE DEF e, f
  <2>4. TurnLegal(u, e)
    BY <1>8, <2>1, <2>3 DEF TurnLegal
  <2>5. Takes(u, <<e>>, b) /\ b \in TurnStates
    BY <2>3, <2>4, TakesOne DEF Takes
  <2>6. b = [u EXCEPT !.items = @ \cup {t}, !.fresh = @ \cup {t}]
    BY <2>3 DEF TurnAfter
  <2> HIDE DEF b
  <2>7. /\ b.started = u.started /\ b.fin = u.fin /\ b.end = u.end /\ b.usage = u.usage
        /\ b.items = u.items \cup {t} /\ b.content = u.content
    BY <2>6 DEF TurnStates, TurnRecords
  <2>8. Takes(u, (<<>> \o <<>>) \o <<e>>, b)
    BY <1>3, <2>5, TakesBoth
  <2>9. ItemOf(delta) = {t} /\ delta.carries \in BOOLEAN
    BY <1>8 DEF ItemOf, DeltaFits
  <2>10. CASE delta.carries
    <3>1. TurnLegal(b, f) /\ Target(f) = t
      <4>1. ~Rewritten(f.data)
        BY <2>3, IREventFacts
      <4> QED
        BY <1>8, <2>3, <2>7, <4>1 DEF TurnLegal, Target
    <3>2. PICK v \in TurnStates : Takes(b, <<f>>, v) /\ Gets(b, v, t, f.data)
      BY <2>3, <2>5, <3>1, PieceTaken
    <3>3. Takes(u, (<<>> \o <<>>) \o (<<e>> \o <<f>>), v)
      BY <1>3, <2>5, <3>2, TakesBoth
    <3>4. Gets(u, v, t, On(delta.carries, <<n>>))
      <4>1. v.items = u.items \cup {t}
        BY <2>7, <3>2 DEF Gets
      <4>2. On(delta.carries, <<n>>) = f.data
        BY <2>3, <2>10 DEF On
      <4> QED
        BY <2>7, <3>2, <4>1, <4>2 DEF Gets
    <3>5. GetsDelta(u, v, delta, n)
      <4> HIDE DEF delta, t
      <4> QED
        BY <2>1, <2>9, <3>4, PieceIsDelta
    <3>6. q3 = <<e>> \o <<f>>
      BY <2>2, <2>10 DEF On
    <3> QED
      BY <2>2, <3>3, <3>5, <3>6
  <2>11. CASE ~delta.carries
    <3>1. q3 = <<e>> \o <<>>
      BY <2>2, <2>11 DEF On
    <3>2. Takes(u, (<<>> \o <<>>) \o (<<e>> \o <<>>), b)
      BY <1>3, <2>5, TakesBoth
    <3>3. GetsDelta(u, b, delta, n)
      BY <2>7, <2>9, <2>11 DEF GetsDelta
    <3> QED
      BY <2>2, <2>5, <3>1, <3>2, <3>3
  <2> QED
    BY <2>9, <2>10, <2>11
<1> QED
  BY <1>4, <1>5, <1>6, <1>7, <1>8 DEF DeltaFits, DeltaKinds

\* What a chunk of the upstream may be.
ChunkFits(c) ==
    /\ DeltaFits(c.delta) /\ c.finish \in BOOLEAN /\ c.usage \in BOOLEAN
    /\ c.empty \in BOOLEAN /\ c.ident \in BOOLEAN
    /\ c.delta.kind # "none" => c.ident /\ ~up.finished
    /\ c.finish => c.ident /\ ~up.finished
    /\ c.usage /\ Quirks = {} => up.finished \/ c.finish
    /\ c.empty => up.finished \/ (~c.ident /\ ~c.usage /\ up.n = 0)

\* The chunks of the Chat protocol carry a delta that the handlers can take.
LEMMA DeltaIs ==
    ASSUME NEW d \in Deltas, up.order \in Seq(Tools)
    PROVE  DeltaFits(d) /\ d.kind # "none"
<1>1. ToSet(up.order) \subseteq Tools
  BY DEF ToSet
<1>2. CASE d = Delta("text", NoId, TRUE)
  <2>1. d.kind = "text" /\ d.carries = TRUE
    BY <1>2 DEF Delta
  <2> QED
    BY <2>1 DEF DeltaFits, DeltaKinds
<1>3. CASE d = Delta("reasoning", NoId, TRUE)
  <2>1. d.kind = "reasoning" /\ d.carries = TRUE
    BY <1>3 DEF Delta
  <2> QED
    BY <2>1 DEF DeltaFits, DeltaKinds
<1>4. CASE d = Delta("reasoning", NoId, FALSE)
  <2>1. d.kind = "reasoning" /\ d.carries = FALSE
    BY <1>4 DEF Delta
  <2> QED
    BY <2>1 DEF DeltaFits, DeltaKinds
<1>5. ASSUME NEW t \in Callable, NEW a \in BOOLEAN, d = Delta("tool_start", t, a)
      PROVE  DeltaFits(d) /\ d.kind # "none"
  <2>1. d.kind = "tool_start" /\ d.carries = a /\ d.tool = t
    BY <1>5 DEF Delta
  <2>2. t \in Tools \ ToSet(up.order)
    BY DEF Callable
  <2> QED
    BY <2>1, <2>2 DEF DeltaFits, DeltaKinds
<1>6. ASSUME NEW t \in ToSet(up.order), d = Delta("tool_args", t, TRUE)
      PROVE  DeltaFits(d) /\ d.kind # "none"
  <2>1. d.kind = "tool_args" /\ d.carries = TRUE /\ d.tool = t
    BY <1>6 DEF Delta
  <2> QED
    BY <2>1 DEF DeltaFits, DeltaKinds
<1> DEFINE D1 == {Delta("text", NoId, TRUE), Delta("reasoning", NoId, TRUE)}
           D2 == {Delta("reasoning", NoId, FALSE) : i \in {Reasoning} \ told.items}
           D3 == {Delta("tool_start", t, a) : t \in Callable, a \in BOOLEAN}
           D4 == {Delta("tool_args", t, TRUE) : t \in ToSet(up.order)}
<1>7. Deltas = D1 \cup D2 \cup D3 \cup D4
  BY DEF Deltas
<1>8. ASSUME d \in D1
      PROVE  DeltaFits(d) /\ d.kind # "none"
  BY <1>2, <1>3, <1>8
<1>9. ASSUME d \in D2
      PROVE  DeltaFits(d) /\ d.kind # "none"
  BY <1>4, <1>9
<1>10. ASSUME d \in D3
       PROVE  DeltaFits(d) /\ d.kind # "none"
  BY <1>5, <1>10
<1>11. ASSUME d \in D4
       PROVE  DeltaFits(d) /\ d.kind # "none"
  BY <1>6, <1>11
<1> HIDE DEF D1, D2, D3, D4
<1> QED
  BY <1>7, <1>8, <1>9, <1>10, <1>11

LEMMA ChunkIs ==
    ASSUME NEW c \in Chunks, UpstreamTypes
    PROVE  ChunkFits(c)
<1>0. DeltaFits(NoDelta) /\ NoDelta.kind = "none"
  BY DEF NoDelta, Delta, DeltaFits, DeltaKinds
<1>1. \A d \in Deltas : DeltaFits(d) /\ d.kind # "none"
  BY DeltaIs DEF UpstreamTypes
<1>2. up.finished \in BOOLEAN
  BY DEF UpstreamTypes
<1>4. CASE up.finished
  <2> DEFINE C0 == {Chunk(NoDelta, FALSE, u, TRUE) : u \in BOOLEAN}
  <2>1. Chunks = C0
    BY <1>4 DEF Chunks
  <2>2. PICK b \in BOOLEAN : c = Chunk(NoDelta, FALSE, b, TRUE)
    <3>1. c \in C0
      BY <2>1
    <3> QED
      BY <3>1
  <2>3. /\ c.delta = NoDelta /\ c.finish = FALSE /\ c.usage = b /\ c.empty = TRUE
        /\ c.ident = TRUE
    BY <2>2 DEF Chunk
  <2> QED
    BY <1>0, <1>4, <2>3 DEF ChunkFits
<1>5. CASE ~up.finished
  <2>1. ASSUME NEW d \in Deltas, c = Chunk(d, FALSE, FALSE, FALSE)
        PROVE  ChunkFits(c)
    <3>1. c.delta = d /\ c.finish = FALSE /\ c.usage = FALSE /\ c.empty = FALSE /\ c.ident = TRUE
      BY <2>1 DEF Chunk
    <3> QED
      BY <1>1, <1>5, <3>1 DEF ChunkFits
  <2>2. ASSUME NEW d \in Deltas \cup {NoDelta}, NEW b \in BOOLEAN, c = Chunk(d, TRUE, b, FALSE)
        PROVE  ChunkFits(c)
    <3>1. c.delta = d /\ c.finish = TRUE /\ c.usage = b /\ c.empty = FALSE /\ c.ident = TRUE
      BY <2>2 DEF Chunk
    <3>2. DeltaFits(d)
      BY <1>0, <1>1
    <3> QED
      BY <1>5, <3>1, <3>2 DEF ChunkFits
  <2>3. ASSUME up.n = 0, c = Preflight
        PROVE  ChunkFits(c)
    <3>1. /\ c.delta = NoDelta /\ c.finish = FALSE /\ c.usage = FALSE
          /\ c.empty = TRUE /\ c.ident = FALSE
      BY <2>3 DEF Preflight, Chunk
    <3> QED
      BY <1>0, <2>3, <3>1 DEF ChunkFits
  <2>4. ASSUME NEW d \in Deltas, Quirks # {}, c = Chunk(d, FALSE, TRUE, FALSE)
        PROVE  ChunkFits(c)
    <3>1. c.delta = d /\ c.finish = FALSE /\ c.usage = TRUE /\ c.empty = FALSE /\ c.ident = TRUE
      BY <2>4 DEF Chunk
    <3> QED
      BY <1>1, <1>5, <2>4, <3>1 DEF ChunkFits
  <2> DEFINE C1 == {Chunk(d, FALSE, FALSE, FALSE) : d \in Deltas}
             C2 == {Chunk(d, TRUE, u, FALSE) : d \in Deltas \cup {NoDelta}, u \in BOOLEAN}
             C3 == IF up.n = 0 THEN {Preflight} ELSE {}
             C4 == IF "usage_early" \in Quirks
                   THEN {Chunk(d, FALSE, TRUE, FALSE) : d \in Deltas} ELSE {}
  <2>5. Chunks = C1 \cup C2 \cup C3 \cup C4
    BY <1>5 DEF Chunks
  <2>6. ASSUME c \in C1
        PROVE  ChunkFits(c)
    BY <2>1, <2>6
  <2>7. ASSUME c \in C2
        PROVE  ChunkFits(c)
    <3>1. \A d \in Deltas \cup {NoDelta}, u \in BOOLEAN :
             c = Chunk(d, TRUE, u, FALSE) => ChunkFits(c)
      BY <2>2
    <3>2. \E d \in Deltas \cup {NoDelta} : \E u \in BOOLEAN : c = Chunk(d, TRUE, u, FALSE)
      BY <2>7 DEF Chunk
    <3> QED
      BY <3>1, <3>2
  <2>8. ASSUME c \in C3
        PROVE  ChunkFits(c)
    BY <2>3, <2>8
  <2>9. ASSUME c \in C4
        PROVE  ChunkFits(c)
    <3>1. Quirks # {} /\ \E d \in Deltas : c = Chunk(d, FALSE, TRUE, FALSE)
      BY <2>9
    <3> QED
      BY <2>4, <3>1
  <2> HIDE DEF C1, C2, C3, C4
  <2> QED
    BY <2>5, <2>6, <2>7, <2>8, <2>9
<1> QED
  BY <1>2, <1>4, <1>5

LEMMA SentTypes ==
    ASSUME NEW c, ChunkFits(c), UpstreamTypes, NEW n \in 1..MaxChunks,
           told' = Sent(c, n)
    PROVE  told' \in [items : SUBSET Items, content : [Items -> Clean],
                      usage : SUBSET (1..MaxChunks)]
<1>1. ToSet(up.order) \subseteq Tools
  BY DEF UpstreamTypes, ToSet
<1>2. ItemOf(c.delta) \subseteq Items
  <2>1. c.delta.kind \in DeltaKinds
    BY DEF ChunkFits, DeltaFits
  <2>2. c.delta.kind \in {"tool_start", "tool_args"} => c.delta.tool \in Tools
    BY <1>1 DEF ChunkFits, DeltaFits
  <2> QED
    BY <2>1, <2>2 DEF ItemOf, DeltaKinds, Items
<1>3. \A x \in Clean : Append(x, n) \in Clean
  BY DEF Clean
<1>4. told \in [items : SUBSET Items, content : [Items -> Clean], usage : SUBSET (1..MaxChunks)]
  BY DEF UpstreamTypes
<1>5. told.items \cup ItemOf(c.delta) \in SUBSET Items
  BY <1>2, <1>4
<1>6. [i \in Items |-> IF i \in ItemOf(c.delta) /\ c.delta.carries
                       THEN Append(told.content[i], n) ELSE told.content[i]]
        \in [Items -> Clean]
  BY <1>3, <1>4
<1>7. (IF c.usage /\ (up.finished \/ c.finish) /\ ~from_ended
       THEN told.usage \cup {n} ELSE told.usage) \in SUBSET (1..MaxChunks)
  BY <1>4
<1> QED
  BY <1>5, <1>6, <1>7 DEF Sent

\* v is the turn when chunk c has come as the n-th after those of u.
HasChunk(v, c, n) ==
    /\ v.started <=> from_started \/ c.ident
    /\ v.fin <=> up.finished \/ c.finish
    /\ v.end <=> from_ended \/ handle_stream_end_from_p(c)
    /\ v.items = Sent(c, n).items
    /\ \A i \in Items : v.content[i] = Sent(c, n).content[i]
    /\ Quirks = {} => Sent(c, n).usage \subseteq v.usage

\* A whole chunk.
LEMMA ChunkTaken ==
    ASSUME NEW c, ChunkFits(c), UpstreamTypes, NEW u \in TurnStates, UpstreamMatches(u),
           NEW n \in 1..MaxChunks
    PROVE  \E v \in TurnStates :
              /\ Takes(u, ((handle_stream_start_from_p(c) \o handle_choice_from_p(c, n))
                           \o On(c.usage, <<IREvent("usage", NoId, <<n>>)>>))
                          \o On(handle_stream_end_from_p(c),
                                <<IREvent("stream_end", NoId, <<>>)>>), v)
              /\ HasChunk(v, c, n)
<1> DEFINE q1 == handle_stream_start_from_p(c)
           q2 == (On(c.delta.kind = "text", <<IREvent("text_delta", NoId, <<n>>)>>)
                  \o On(c.delta.kind = "reasoning",
                        <<IREvent("reasoning_delta", NoId, On(c.delta.carries, <<n>>))>>))
                 \o handle_tool_calls_from_p(c, n)
           q3 == On(c.finish, <<IREvent("finish", NoId, <<>>)>>)
           q4 == On(c.usage, <<IREvent("usage", NoId, <<n>>)>>)
           q5 == On(handle_stream_end_from_p(c), <<IREvent("stream_end", NoId, <<>>)>>)
           starts == c.ident /\ ~from_started
           ends == handle_stream_end_from_p(c)
<1>1. /\ DeltaFits(c.delta) /\ c.finish \in BOOLEAN /\ c.usage \in BOOLEAN
      /\ c.empty \in BOOLEAN /\ c.ident \in BOOLEAN
      /\ c.delta.kind # "none" => c.ident /\ ~up.finished
      /\ c.finish => c.ident /\ ~up.finished
      /\ c.usage /\ Quirks = {} => up.finished \/ c.finish
      /\ c.empty => up.finished \/ (~c.ident /\ ~c.usage /\ up.n = 0)
  BY DEF ChunkFits
<1>2. /\ u.started \in BOOLEAN /\ u.fin \in BOOLEAN /\ u.end \in BOOLEAN
      /\ (u.started <=> from_started) /\ (u.fin <=> up.finished) /\ (u.end <=> from_ended)
      /\ from_started \in BOOLEAN /\ from_ended \in BOOLEAN /\ up.finished \in BOOLEAN
      /\ u.items = told.items /\ told.items \cap Tools = ToSet(up.order)
      /\ Quirks = {} => told.usage \subseteq u.usage
      /\ u.end => u.fin /\ (u.fin => u.started)
      /\ up.n = 0 => ~from_started
  BY DEF UpstreamMatches, UpstreamTypes, TurnStates, TurnRecords, Sound
<1>3. /\ starts \in BOOLEAN /\ (starts => ~u.started)
      /\ ends \in BOOLEAN /\ (ends => ~from_ended /\ (up.finished \/ c.finish))
  <2>1. starts \in BOOLEAN /\ (starts => ~u.started)
    BY <1>1, <1>2
  <2>2. ends <=> ~from_ended /\ ((c.empty /\ (from_started \/ c.ident)) \/ (c.usage /\ c.finish))
    BY Zenon DEF handle_stream_end_from_p
  <2>3. ends \in BOOLEAN
    <3>1. ends = TRUE \/ ends = FALSE
      BY Zenon DEF handle_stream_end_from_p
    <3> QED
      BY <3>1
  <2> HIDE DEF ends, starts
  <2> QED
    BY <1>1, <1>2, <2>1, <2>2, <2>3
<1>4. PICK a \in TurnStates :
         /\ Takes(u, q1, a)
         /\ a.started = (u.started \/ starts) /\ a.fin = u.fin /\ a.end = u.end
         /\ a.items = u.items /\ a.content = u.content /\ a.usage = u.usage
  <2>1. q1 = On(starts, <<IREvent("stream_start", NoId, <<>>)>>)
    BY DEF handle_stream_start_from_p
  <2>2. starts \in BOOLEAN /\ (starts => ~u.started)
    BY <1>3
  <2> HIDE DEF starts, q1
  <2> QED
    BY <2>1, <2>2, StartTaken
<1>5. PICK b \in TurnStates : Takes(a, q2, b) /\ GetsDelta(a, b, c.delta, n)
  <2>1. a.items \cap Tools = ToSet(up.order)
    BY <1>2, <1>4
  <2>2. c.delta.kind # "none" => a.started /\ ~a.fin
    BY <1>1, <1>2, <1>4
  <2>3. DeltaFits(c.delta)
    BY <1>1
  <2> QED
    BY <2>1, <2>2, <2>3, DeltaTaken
<1>6. PICK d \in TurnStates :
         /\ Takes(b, q3, d)
         /\ d.started = b.started /\ d.fin = (b.fin \/ c.finish) /\ d.end = b.end
         /\ d.items = b.items /\ d.content = b.content /\ d.usage = b.usage
  <2>1. c.finish \in BOOLEAN /\ (c.finish => b.started /\ ~b.fin)
    BY <1>1, <1>2, <1>4, <1>5 DEF GetsDelta
  <2> QED
    BY <2>1, FinishTaken
<1>7. PICK e \in TurnStates :
         /\ Takes(d, q4, e)
         /\ e.started = d.started /\ e.fin = d.fin /\ e.end = d.end
         /\ e.items = d.items /\ e.content = d.content /\ d.usage \subseteq e.usage
         /\ c.usage /\ ~d.end => n \in e.usage
  <2>1. c.usage \in BOOLEAN /\ (c.usage /\ Quirks = {} => d.fin)
    BY <1>1, <1>2, <1>4, <1>5, <1>6 DEF GetsDelta
  <2> QED
    BY <2>1, UsageTaken
<1>8. PICK v \in TurnStates :
         /\ Takes(e, q5, v)
         /\ v.started = e.started /\ v.fin = e.fin /\ v.end = (e.end \/ ends)
         /\ v.items = e.items /\ v.content = e.content /\ v.usage = e.usage
  <2>1. ends \in BOOLEAN /\ (ends => e.fin /\ ~e.end)
    BY <1>2, <1>3, <1>4, <1>5, <1>6, <1>7 DEF GetsDelta
  <2> QED
    BY <2>1, EndTaken
<1>9. Takes(u, ((q1 \o (q2 \o q3)) \o q4) \o q5, v)
  <2> HIDE DEF q1, q2, q3, q4, q5
  <2>1. Takes(a, q2 \o q3, d)
    BY <1>5, <1>6, TakesBoth
  <2>2. Takes(u, q1 \o (q2 \o q3), d)
    BY <1>4, <2>1, TakesBoth
  <2>3. Takes(u, (q1 \o (q2 \o q3)) \o q4, e)
    BY <1>7, <2>2, TakesBoth
  <2> QED
    BY <1>8, <2>3, TakesBoth
<1>10. handle_choice_from_p(c, n) = q2 \o q3
  BY DEF handle_choice_from_p
<1>11. HasChunk(v, c, n)
  <2> DEFINE more == Sent(c, n)
  <2>1. /\ more.items = told.items \cup ItemOf(c.delta)
        /\ \A i \in Items : more.content[i] = IF i \in ItemOf(c.delta) /\ c.delta.carries
                                              THEN Append(told.content[i], n)
                                              ELSE told.content[i]
        /\ more.usage = IF c.usage /\ (up.finished \/ c.finish) /\ ~from_ended
                        THEN told.usage \cup {n} ELSE told.usage
    BY DEF Sent
  <2> HIDE DEF more
  <2>2. /\ v.started <=> from_started \/ c.ident
        /\ v.fin <=> up.finished \/ c.finish
        /\ v.end <=> from_ended \/ ends
    BY <1>2, <1>4, <1>5, <1>6, <1>7, <1>8 DEF GetsDelta
  <2>3. v.items = more.items
    BY <1>2, <1>4, <1>5, <1>6, <1>7, <1>8, <2>1 DEF GetsDelta
  <2>4. \A i \in Items : v.content[i] = more.content[i]
    <3>1. \A i \in Items : u.content[i] = told.content[i]
      BY DEF UpstreamMatches
    <3>2. \A i \in Items : v.content[i] = b.content[i]
      BY <1>6, <1>7, <1>8
    <3>3. \A i \in Items : b.content[i] = IF i \in ItemOf(c.delta) /\ c.delta.carries
                                          THEN Append(u.content[i], n) ELSE u.content[i]
      BY <1>4, <1>5 DEF GetsDelta
    <3> QED
      BY <2>1, <3>1, <3>2, <3>3
  <2>5. Quirks = {} => more.usage \subseteq v.usage
    <3>1. a.usage = u.usage /\ b.usage = a.usage /\ d.usage = b.usage /\ d.usage \subseteq e.usage
          /\ v.usage = e.usage
      BY <1>4, <1>5, <1>6, <1>7, <1>8 DEF GetsDelta
    <3>2. c.usage /\ ~from_ended => n \in e.usage
      BY <1>2, <1>4, <1>5, <1>6, <1>7 DEF GetsDelta
    <3> QED
      BY <1>2, <2>1, <3>1, <3>2
  <2> QED
    BY <2>2, <2>3, <2>4, <2>5 DEF HasChunk, more
<1> QED
  BY <1>9, <1>10, <1>11

LEMMA AppendSet ==
    ASSUME NEW X, NEW q \in Seq(X), NEW t \in X
    PROVE  ToSet(Append(q, t)) = ToSet(q) \cup {t}
<1> DEFINE n == Len(q)
           r == Append(q, t)
<1>1. /\ n \in Nat /\ r[n + 1] = t
      /\ \A k \in 1..n : r[k] = q[k]
      /\ DOMAIN q = 1..n /\ DOMAIN r = 1..(n + 1)
  BY AppendProperties, LenProperties
<1> HIDE DEF n, r
<1>2. ToSet(q) = {q[k] : k \in 1..n} /\ ToSet(r) = {r[k] : k \in 1..(n + 1)}
  BY <1>1 DEF ToSet
<1>3. 1..(n + 1) = (1..n) \cup {n + 1}
  BY <1>1
<1> QED
  BY <1>1, <1>2, <1>3 DEF r

\* FromProvider: what becomes of a chunk takes the turn to what has been sent then.
LEMMA ProviderTaken ==
    ASSUME FromProvider, UpstreamTypes, NEW u \in TurnStates, UpstreamMatches(u)
    PROVE  /\ UpstreamTypes'
           /\ \E v \in TurnStates : Takes(u, ir', v) /\ UpstreamMatches(v)'
<1> DEFINE n == up.n + 1
<1>1. n \in 1..MaxChunks /\ up.n \in 0..MaxChunks
  BY LimitsAssumption DEF FromProvider, UpstreamTypes
<1> DEFINE ItsIR(c) ==
              ((handle_stream_start_from_p(c) \o handle_choice_from_p(c, n))
               \o On(c.usage, <<IREvent("usage", NoId, <<n>>)>>))
              \o On(handle_stream_end_from_p(c), <<IREvent("stream_end", NoId, <<>>)>>)
<1>2. PICK c \in Chunks :
         /\ ir' = ItsIR(c)
         /\ from_started' = (from_started \/ c.ident)
         /\ from_ended' = (from_ended \/ handle_stream_end_from_p(c))
         /\ from_order' = IF c.delta.kind = "tool_start" /\ c.delta.tool \notin ToSet(from_order)
                          THEN Append(from_order, c.delta.tool) ELSE from_order
         /\ up' = [n        |-> n,
                   order    |-> IF c.delta.kind = "tool_start"
                                THEN Append(up.order, c.delta.tool) ELSE up.order,
                   finished |-> up.finished \/ c.finish,
                   last     |-> c.empty /\ c.ident]
         /\ told' = Sent(c, n)
  BY DEF FromProvider
<1>3. ChunkFits(c)
  BY ChunkIs
<1>4. saw_finish' = saw_finish
  BY DEF FromProvider
<1>5. PICK v \in TurnStates : Takes(u, ItsIR(c), v) /\ HasChunk(v, c, n)
  <2> HIDE DEF n
  <2> QED
    BY <1>1, <1>3, ChunkTaken DEF n
<1>6. UpstreamMatches(v)'
  <2>1. up'.finished = (up.finished \/ c.finish)
    BY <1>2
  <2> HIDE DEF ItsIR, n
  <2> QED
    BY <1>2, <1>5, <2>1 DEF HasChunk, UpstreamMatches
<1>7. UpstreamTypes'
  <2>1. /\ up.order \in Seq(Tools) /\ from_order = up.order
        /\ up.finished \in BOOLEAN /\ from_started \in BOOLEAN /\ from_ended \in BOOLEAN
        /\ told.items \cap Tools = ToSet(up.order)
    BY DEF UpstreamTypes
  <2>2. /\ c.delta.kind \in DeltaKinds
        /\ c.delta.kind = "tool_start" => c.delta.tool \in Tools \ ToSet(up.order)
        /\ c.delta.kind = "tool_args" => c.delta.tool \in ToSet(up.order)
    BY <1>3 DEF ChunkFits, DeltaFits
  <2>3. up' \in [n : 0..MaxChunks, order : Seq(Tools), finished : BOOLEAN, last : BOOLEAN]
    <3>1. n \in 0..MaxChunks /\ c.finish \in BOOLEAN /\ c.empty \in BOOLEAN /\ c.ident \in BOOLEAN
      BY <1>1, <1>3 DEF ChunkFits
    <3>2. (IF c.delta.kind = "tool_start" THEN Append(up.order, c.delta.tool) ELSE up.order)
            \in Seq(Tools)
      BY <2>1, <2>2
    <3> HIDE DEF n
    <3> QED
      BY <1>2, <2>1, <3>1, <3>2
  <2>4. told' \in [items : SUBSET Items, content : [Items -> Clean], usage : SUBSET (1..MaxChunks)]
    <3> HIDE DEF n
    <3> QED
      BY <1>1, <1>2, <1>3, SentTypes DEF n
  <2>5. from_order' = up'.order
    <3>1. up'.order = IF c.delta.kind = "tool_start"
                      THEN Append(up.order, c.delta.tool) ELSE up.order
      BY <1>2
    <3>2. CASE c.delta.kind = "tool_start"
      BY <1>2, <2>1, <2>2, <3>1, <3>2
    <3>3. CASE c.delta.kind # "tool_start"
      BY <1>2, <2>1, <3>1, <3>3
    <3> QED
      BY <3>2, <3>3
  <2>6. told'.items \cap Tools = ToSet(up'.order)
    <3>1. /\ told'.items = told.items \cup ItemOf(c.delta)
          /\ up'.order = IF c.delta.kind = "tool_start"
                         THEN Append(up.order, c.delta.tool) ELSE up.order
      BY <1>2 DEF Sent
    <3>2. CASE c.delta.kind = "tool_start"
      <4>1. ToSet(up'.order) = ToSet(up.order) \cup {c.delta.tool}
        <5> DEFINE t == c.delta.tool
                   q == up.order
        <5>1. t \in Tools /\ q \in Seq(Tools) /\ t \notin ToSet(q)
          BY <2>1, <2>2, <3>2
        <5> HIDE DEF t, q
        <5>2. ToSet(Append(q, t)) = ToSet(q) \cup {t}
          BY <5>1, AppendSet
        <5> QED
          BY <3>1, <3>2, <5>2 DEF t, q
      <4>2. ItemOf(c.delta) = {c.delta.tool}
        BY <3>2 DEF ItemOf
      <4> QED
        BY <2>1, <2>2, <3>1, <3>2, <4>1, <4>2
    <3>3. CASE c.delta.kind # "tool_start"
      <4>1. ItemOf(c.delta) \cap Tools \subseteq ToSet(up.order)
        BY <2>2, <3>3, Names DEF ItemOf, DeltaKinds
      <4> QED
        BY <2>1, <3>1, <3>3, <4>1
    <3> QED
      BY <3>2, <3>3
  <2>7. /\ from_started' \in BOOLEAN /\ from_ended' \in BOOLEAN
    BY <1>2, <2>1
  <2>8. saw_finish' \in BOOLEAN
    BY <1>4 DEF UpstreamTypes
  <2>9. up'.n # 0
    BY <1>1, <1>2
  <2> HIDE DEF ItsIR, n
  <2> QED
    BY <2>3, <2>4, <2>5, <2>6, <2>7, <2>8, <2>9 DEF UpstreamTypes
<1> QED
  BY <1>2, <1>5, <1>6, <1>7

-----------------------------------------------------------------------------
(* The inductive invariant.                                                  *)

Generators == {"running", "finalized", "completed", "cancelled", "error"}

\* The chain from what the upstream has sent (u) to what the client will know
\* when it has read all that is under way (s).
Links(s, m, l, u) ==
    /\ Heard(s) /\ Converted(s, m) /\ Lifted(m, l) /\ Remaining(l, u) /\ UpstreamMatches(u)
    /\ m.fin <=> saw_finish
    /\ generator = "finalized" /\ u.fin => u.end
Chain == \E s, m, l, u \in TurnStates : Links(s, m, l, u)

Types ==
    /\ QueueTypes /\ FlagTypes /\ UpstreamTypes /\ ToTypes
    /\ client \in Clients
    /\ pending \in Seq([id : Tools, args : Clean]) /\ persisted \subseteq Tools
    /\ generator \in Generators

Phases ==
    /\ commentary => up.order # <<>>
    /\ \A p \in 1..Len(output) :
          /\ output[p].phase = "commentary" => up.order # <<>>
          /\ output[p].phase = "final_answer" => up.order = <<>> /\ up.finished

Drained ==
    /\ ~Live => ir = <<>> /\ transformed = <<>>
    /\ eof => /\ ir = <<>> /\ transformed = <<>> /\ events = <<>> /\ buffer = <<>>
              /\ generator # "running"

IInv == Types /\ BufferInv /\ Phases /\ Drained /\ (Live => Chain)

\* Along the chain a turn only grows.
LEMMA LinksGrow ==
    ASSUME NEW s \in TurnStates, NEW m \in TurnStates, NEW l \in TurnStates, NEW u,
           Converted(s, m), Remaining(l, u)
    PROVE  TurnGrown(s, m) /\ TurnGrown(l, u) /\ u \in TurnStates
  BY TurnLeadsGrows DEF Converted, Remaining

\* An item the client has heard of stays.
LEMMA StageStep ==
    ASSUME NEW c, NEW e, NEW d, <<c, e, d>> \in Steps, NEW i \in Items,
           c.stage[i] # "absent" \/ (e \in ItemEvents /\ e.item = i)
    PROVE  d.stage[i] # "absent"
<1>1. c \in Clients /\ e \in Events /\ d = After(c, e)
  BY StepIs
<1>2. CASE e \in ItemEvents
  <2>1. /\ d = [c EXCEPT !.stage = [c.stage EXCEPT ![e.item] = StageAfter(e)],
                         !.content = [c.content EXCEPT ![e.item] =
                                         ContentAfter(e, c.content[e.item])]]
        /\ e.type \in ItemTypes /\ e.item \in Items
    BY <1>1, <1>2, AfterItem, ItemEventFacts
  <2>2. d.stage = [c.stage EXCEPT ![e.item] = StageAfter(e)] /\ DOMAIN c.stage = Items
    BY <1>1, <2>1 DEF Clients
  <2>3. StageAfter(e) # "absent"
    BY <2>1 DEF StageAfter, ItemTypes
  <2> QED
    BY <2>1, <2>2, <2>3
<1>3. CASE e \notin ItemEvents
  <2>1. e.type \in {"created", "completed"}
    BY <1>1, <1>3, EventKinds
  <2>2. d.stage = c.stage
    BY <1>1, <2>1 DEF After, Clients
  <2> QED
    BY <1>3, <2>2
<1> QED
  BY <1>2, <1>3

LEMMA StageStays ==
    ASSUME NEW q \in Seq(Events), NEW c, NEW d, Leads(Steps, c, q, d), NEW i \in Items,
           c.stage[i] # "absent"
    PROVE  d.stage[i] # "absent"
<1> DEFINE Good == {b \in Clients \cup {c} : b.stage[i] # "absent"}
<1>1. c \in Good
  OBVIOUS
<1>2. ASSUME NEW a, NEW e, NEW b, <<a, e, b>> \in Steps, a \in Good
      PROVE  b \in Good
  <2>1. b \in Clients /\ b.stage[i] # "absent"
    BY <1>2, StepIs, StageStep
  <2> QED
    BY <2>1
<1> HIDE DEF Good
<1>3. d \in Good
  BY <1>1, <1>2, LeadsKeeps
<1> QED
  BY <1>3 DEF Good

\* What the client knows of the turn's tools and of its end, the upstream has said.
LEMMA ToldOf ==
    ASSUME NEW s \in TurnStates, NEW m \in TurnStates, NEW l \in TurnStates,
           NEW u \in TurnStates, NEW d, Matches(s, d), Converted(s, m), Lifted(m, l),
           Remaining(l, u), UpstreamMatches(u), UpstreamTypes
    PROVE  /\ \A t \in Tools : d.stage[t] # "absent" => up.order # <<>>
           /\ d.phase = "completed" /\ (\A t \in Tools : d.stage[t] = "absent") =>
                 up.order = <<>> /\ up.finished
<1>1. TurnGrown(s, m) /\ TurnGrown(l, u)
  BY LinksGrow
<1>2. /\ s.items \subseteq l.items /\ l.items \subseteq u.items /\ u.items = told.items
      /\ told.items \cap Tools = ToSet(up.order) /\ up.order \in Seq(Tools)
      /\ u.fin <=> up.finished
  BY <1>1 DEF TurnGrown, Lifted, UpstreamMatches, UpstreamTypes
<1>3. \A t \in Tools : d.stage[t] = IF t \notin s.items THEN "absent"
                                    ELSE IF s.fin THEN "done" ELSE "streaming"
  BY Names DEF Matches, ClientMatches, ItemMatches
<1>4. ASSUME NEW t \in Tools, d.stage[t] # "absent"
      PROVE  up.order # <<>>
  <2>1. t \in ToSet(up.order)
    BY <1>2, <1>3, <1>4
  <2> QED
    BY <2>1 DEF ToSet
<1>5. ASSUME d.phase = "completed", \A t \in Tools : d.stage[t] = "absent"
      PROVE  up.order = <<>> /\ up.finished
  <2>1. s.end
    BY <1>5 DEF Matches, ClientMatches
  <2>2. s.fin /\ m.fin /\ m.items = s.items
    BY <1>1, <2>1 DEF TurnGrown, TurnStates, Sound
  <2>3. l.fin /\ l.items = m.items
    BY <2>2 DEF Lifted
  <2>4. u.fin /\ u.items = s.items
    BY <1>1, <2>2, <2>3 DEF TurnGrown
  <2>5. ToSet(up.order) = {}
    BY <1>2, <1>3, <1>5, <2>4
  <2>6. up.order = <<>>
    <3> DEFINE q == up.order
    <3>1. q \in Seq(Tools) /\ ToSet(q) = {}
      BY <1>2, <2>5
    <3> HIDE DEF q
    <3>2. ToSet(q) = {q[k] : k \in DOMAIN q}
      BY DEF ToSet
    <3>3. DOMAIN q = 1..Len(q) /\ Len(q) \in Nat /\ (Len(q) = 0 => q = <<>>)
      BY <3>1, LenProperties, EmptySeq
    <3>4. Len(q) > 0 => 1 \in DOMAIN q
      BY <3>3
    <3>5. ~(Len(q) > 0)
      BY <3>1, <3>2, <3>4
    <3> QED
      BY <3>3, <3>5 DEF q
  <2> QED
    BY <1>2, <2>4, <2>6
<1> QED
  BY <1>4, <1>5

\* Feed: the phase the buffer gives an event is the phase of the turn.
LEMMA FeedPhases ==
    ASSUME QueueTypes, BufferInv, FlagTypes, UpstreamTypes, Phases, Feed, Chain
    PROVE  Phases'
<1> DEFINE e == Head(events)
           n == Len(input) + 1
<1>1. /\ events # <<>> /\ yielded = Len(output) /\ PB!process(e) /\ up' = up
      /\ input \in Seq(Events) /\ output \in Seq(Entries(Len(input))) /\ events \in Seq(Events)
  BY DEF Feed, QueueTypes
<1>2. e \in Events /\ Tail(events) \in Seq(Events) /\ events = <<e>> \o Tail(events)
  BY <1>1, HeadTailProperties
<1> HIDE DEF e
<1>3. /\ commentary' => commentary \/ e.kind \in PB!ToolKinds
      /\ \E more \in Seq([ev : 1..n, phase : PhasesAt(e)]) : output' = output \o more
  BY <1>1, <1>2, ProcessForms
<1>4. PICK s \in TurnStates, m \in TurnStates, l \in TurnStates, u \in TurnStates :
         Links(s, m, l, u)
  BY DEF Chain
<1>5. /\ Heard(s) /\ Converted(s, m) /\ Lifted(m, l) /\ Remaining(l, u) /\ UpstreamMatches(u)
  BY <1>4 DEF Links
<1>6. PICK d \in Clients : Leads(Steps, client, Queue, d) /\ Matches(s, d)
  BY <1>5 DEF Heard
<1>7. /\ \A t \in Tools : d.stage[t] # "absent" => up.order # <<>>
      /\ d.phase = "completed" /\ (\A t \in Tools : d.stage[t] = "absent") =>
            up.order = <<>> /\ up.finished
  BY <1>5, <1>6, ToldOf
<1>8. PICK a, b : <<a, e, b>> \in Steps /\ Leads(Steps, b, Tail(events), d)
  <2> DEFINE p == EventsAt(input, buffer)
             r == Tail(events)
  <2>1. p \in Seq(Events) /\ Queue = p \o (<<e>> \o r)
    BY <1>1, <1>2, QueueType DEF e
  <2>2. r \in Seq(Events) /\ <<e>> \in Seq(Events) /\ <<e>> \o r \in Seq(Events)
    BY <1>2, ConcatProperties
  <2> HIDE DEF p, r
  <2>3. PICK a : Leads(Steps, client, p, a) /\ Leads(Steps, a, <<e>> \o r, d)
    BY <1>6, <2>1, <2>2, LeadsSplit
  <2>4. /\ <<e>> \o r # <<>> /\ Head(<<e>> \o r) = e /\ Tail(<<e>> \o r) = r
    BY <1>1, <1>2 DEF r, e
  <2>5. PICK b : <<a, e, b>> \in Steps /\ Leads(Steps, b, r, d)
    BY <2>2, <2>3, <2>4, LeadsTail
  <2> QED
    BY <2>5 DEF r
<1>9. /\ a \in Clients /\ b \in Clients /\ Legal(a, e) /\ b = After(a, e)
  BY <1>8, StepIs
<1>10. e.kind \in PB!ToolKinds => up.order # <<>>
  <2> SUFFICES ASSUME e.kind \in PB!ToolKinds
               PROVE  \E t \in Tools : d.stage[t] # "absent"
    BY <1>7
  <2>1. \E t \in Tools : b.stage[t] # "absent"
    <3>1. CASE e \in ItemEvents /\ e.item \in Tools
      BY <1>8, <3>1, StageStep, Names
    <3>2. CASE e \in CompletedEvents /\ \E i \in DOMAIN e.output : i \in Tools
      <4>1. PICK t \in Tools : t \in DOMAIN e.output
        BY <3>2
      <4>2. e.type = "completed"
        BY <3>2, CompletedFacts
      <4>3. a.stage[t] = "done"
        BY <1>9, <4>1, <4>2 DEF Legal
      <4>4. b.stage = a.stage
        BY <1>9, <4>2 DEF After, Clients
      <4> QED
        BY <4>3, <4>4
    <3> QED
      BY <1>2, <3>1, <3>2, KindFacts
  <2>2. PICK t \in Tools : b.stage[t] # "absent"
    BY <2>1
  <2>3. t \in Items /\ Tail(events) \in Seq(Events) /\ Leads(Steps, b, Tail(events), d)
    BY <1>2, <1>8, Names
  <2> QED
    BY <2>2, <2>3, StageStays
<1>11. e.kind = "completed" => up.order = <<>> /\ up.finished
  <2> SUFFICES ASSUME e.kind = "completed"
               PROVE  d.phase = "completed" /\ \A t \in Tools : d.stage[t] = "absent"
    BY <1>7
  <2>1. e \in CompletedEvents /\ (\A i \in DOMAIN e.output : i \notin Tools) /\ e.type = "completed"
    BY <1>2, KindFacts, CompletedFacts
  <2>2. b.phase = "completed" /\ b.stage = a.stage
    BY <1>9, <2>1 DEF After, Clients
  <2>3. d = b
    BY <1>2, <1>8, <2>2, NothingAfter
  <2>4. \A t \in Tools : a.stage[t] = "absent"
    BY <1>9, <2>1, Names DEF Legal
  <2> QED
    BY <2>2, <2>3, <2>4
<1>12. commentary' => up.order # <<>>
  BY <1>3, <1>10 DEF Phases
<1>13. ASSUME NEW p \in 1..Len(output')
       PROVE  /\ output'[p].phase = "commentary" => up.order # <<>>
              /\ output'[p].phase = "final_answer" => up.order = <<>> /\ up.finished
  <2>1. PICK more \in Seq([ev : 1..n, phase : PhasesAt(e)]) : output' = output \o more
    BY <1>3
  <2> DEFINE k == Len(output)
             j == Len(more)
             E == [ev : 1..n, phase : PhasesAt(e)]
  <2>2. /\ k \in Nat /\ j \in Nat /\ Len(output') = k + j
        /\ output'[p] = IF p <= k THEN output[p] ELSE more[p - k]
    <3>1. /\ k \in Nat /\ j \in Nat /\ Len(output \o more) = k + j
          /\ \A x \in 1..k + j : (output \o more)[x] = IF x <= k THEN output[x] ELSE more[x - k]
      BY <1>1, <2>1, LenProperties, ConcatProperties
    <3> HIDE DEF k, j
    <3> QED
      BY <2>1, <3>1
  <2>3. CASE p <= k
    <3>1. p \in 1..Len(output) /\ output'[p] = output[p]
      BY <2>2, <2>3
    <3> QED
      BY <3>1 DEF Phases
  <2>4. CASE ~(p <= k)
    <3>1. p - k \in 1..j /\ output'[p] = more[p - k]
      <4> HIDE DEF k, j
      <4> QED
        BY <2>2, <2>4
    <3>2. more \in Seq(E) /\ \A x \in 1..j : more[x] \in E
      <4>1. more \in Seq(E)
        BY <2>1
      <4> HIDE DEF E
      <4> QED
        BY <4>1, ElementOfSeq
    <3>3. output'[p].phase \in PhasesAt(e)
      BY <3>1, <3>2
    <3> QED
      BY <1>11, <1>12, <3>3 DEF PhasesAt
  <2> QED
    BY <2>3, <2>4
<1> QED
  BY <1>1, <1>12, <1>13 DEF Phases

-----------------------------------------------------------------------------
(* What a step leaves alone of the chain.                                    *)

\* Steps that leave the converter's context alone, with as many mappings in the store.
LEMMA MatchesSame ==
    ASSUME NEW s \in TurnStates, NEW d, Matches(s, d), to' = to, persisted \subseteq persisted'
    PROVE  Matches(s, d)'
<1>1. \A i \in Items : Raw(i)' = Raw(i)
  BY DEF Raw
<1>2. ASSUME NEW i \in Items, ItemMatches(s, d, i)
      PROVE  ItemMatches(s, d, i)'
  <2>1. Raw(i)' = Raw(i) /\ Visible(i)' = Visible(i)
    BY <1>1 DEF Visible, Streamed
  <2> QED
    BY <1>2, <2>1 DEF ItemMatches, Localized
<1>3. ClientMatches(s, d)'
  BY <1>2 DEF Matches, ClientMatches
<1>4. ContextMatches(s)' /\ ToTypes' /\ ResponseMatches(s, d)'
  BY DEF Matches, ContextMatches, ToTypes, ResponseMatches
<1> QED
  BY <1>3, <1>4 DEF Matches

LEMMA HeardSame ==
    ASSUME NEW s \in TurnStates, Heard(s), to' = to, persisted \subseteq persisted',
           UNCHANGED <<client, input, output, yielded, buffer, events>>
    PROVE  Heard(s)'
<1>1. PICK d \in Clients : Leads(Steps, client, Queue, d) /\ Matches(s, d)
  BY DEF Heard
<1>2. Queue' = Queue
  BY DEF Queue
<1>3. Leads(Steps, client', Queue', d) /\ Matches(s, d)'
  BY <1>1, <1>2, MatchesSame
<1> QED
  BY <1>3 DEF Heard

LEMMA ConvertedSame ==
    ASSUME NEW s, NEW m, Converted(s, m), transformed' = transformed,
           persisted \subseteq persisted'
    PROVE  Converted(s, m)'
<1>1. PICK stored : stored = persisted
  OBVIOUS
<1>2. PICK more : more = persisted'
  OBVIOUS
<1>3. IREvents(stored) \subseteq IREvents(more) /\ TurnSteps(stored) \subseteq TurnSteps(more)
  BY <1>1, <1>2, StoredMore
<1>4. transformed \in Seq(IREvents(stored)) /\ Leads(TurnSteps(stored), s, transformed, m)
  BY <1>1 DEF Converted
<1>5. transformed' \in Seq(IREvents(more)) /\ Leads(TurnSteps(more), s, transformed', m)
  <2> DEFINE q == transformed
  <2>1. q \in Seq(IREvents(stored)) /\ Leads(TurnSteps(stored), s, q, m) /\ transformed' = q
    BY <1>4
  <2> HIDE DEF q
  <2>2. q \in Seq(IREvents(more))
    BY <1>3, <2>1, SeqMonotonic
  <2>3. Leads(TurnSteps(more), s, q, m)
    BY <1>3, <2>1, LeadsMore
  <2> QED
    BY <2>1, <2>2, <2>3
<1> QED
  BY <1>2, <1>5 DEF Converted

LEMMA LiftedKept ==
    ASSUME NEW m, NEW l, Lifted(m, l), pending' = pending
    PROVE  Lifted(m, l)'
  BY DEF Lifted, Held, HeldIds, Localized

LEMMA RemainingKept ==
    ASSUME NEW l, NEW u, Remaining(l, u), ir' = ir
    PROVE  Remaining(l, u)'
  BY DEF Remaining

LEMMA UpstreamKept ==
    ASSUME NEW u, UpstreamMatches(u), UpstreamTypes,
           UNCHANGED <<up, told, from_started, from_ended, from_order>>, saw_finish' \in BOOLEAN
    PROVE  UpstreamMatches(u)' /\ UpstreamTypes'
  BY DEF UpstreamMatches, UpstreamTypes

\* The intermediate links when nothing is under way between them.
LEMMA NothingConverting ==
    ASSUME NEW s, NEW m, Converted(s, m), transformed = <<>>
    PROVE  s = m
  BY LeadsNowhere DEF Converted

LEMMA NothingRemaining ==
    ASSUME NEW l, NEW u, Remaining(l, u), ir = <<>>
    PROVE  l = u
  BY LeadsNowhere DEF Remaining

LEMMA ConvertsNothing ==
    ASSUME NEW s, transformed = <<>>
    PROVE  Converted(s, s)
<1>1. <<>> \in Seq(IREvents(persisted))
  BY EmptySeq
<1> QED
  BY <1>1, LeadsEmpty DEF Converted

\* The upstream's calls and its finish are there to stay.
LEMMA OrderLater ==
    ASSUME FromProvider, UpstreamTypes
    PROVE  /\ up.order # <<>> => up'.order # <<>>
           /\ up.finished => up'.order = up.order /\ up'.finished
<1>1. PICK c \in Chunks :
         up' = [n        |-> up.n + 1,
                order    |-> IF c.delta.kind = "tool_start"
                             THEN Append(up.order, c.delta.tool) ELSE up.order,
                finished |-> up.finished \/ c.finish,
                last     |-> c.empty /\ c.ident]
  BY DEF FromProvider
<1>2. ChunkFits(c)
  BY ChunkIs
<1>3. /\ up'.order = IF c.delta.kind = "tool_start"
                     THEN Append(up.order, c.delta.tool) ELSE up.order
      /\ up'.finished = (up.finished \/ c.finish)
  BY <1>1
<1>4. c.delta.kind = "tool_start" => c.delta.tool \in Tools /\ ~up.finished
  BY <1>2 DEF ChunkFits, DeltaFits
<1>5. up.order \in Seq(Tools) /\ up.finished \in BOOLEAN /\ c.finish \in BOOLEAN
  BY <1>2 DEF UpstreamTypes, ChunkFits
<1>6. up.order # <<>> => up'.order # <<>>
  <2>1. CASE c.delta.kind = "tool_start"
    <3>1. Append(up.order, c.delta.tool) # <<>>
      BY <1>4, <1>5, <2>1
    <3> QED
      BY <1>3, <2>1, <3>1
  <2>2. CASE c.delta.kind # "tool_start"
    BY <1>3, <2>2
  <2> QED
    BY <2>1, <2>2
<1> QED
  BY <1>3, <1>4, <1>5, <1>6

-----------------------------------------------------------------------------
(* The actions, one by one.                                                  *)

\* A chunk arrives.
LEMMA ProviderInv == ASSUME IInv, FromProvider PROVE IInv'
<1>1. /\ generator = "running" /\ ir = <<>> /\ transformed = <<>>
      /\ UNCHANGED <<saw_finish, transformed, pending, persisted, to, events, generator, yielded,
                     client, buffer, message_item_ids, commentary, terminal_seen,
                     passthrough, input, output, eof>>
  BY DEF FromProvider, AwaitsChunk, Converting, adaptVars, bufferVars
<1>2. /\ Types /\ BufferInv /\ Phases /\ Drained /\ Chain /\ UpstreamTypes
  BY <1>1 DEF IInv, Live, Types
<1>3. PICK s \in TurnStates, m \in TurnStates, l \in TurnStates, u \in TurnStates :
         Links(s, m, l, u)
  BY <1>2 DEF Chain
<1>4. /\ Heard(s) /\ Converted(s, m) /\ Lifted(m, l) /\ Remaining(l, u) /\ UpstreamMatches(u)
      /\ (m.fin <=> saw_finish)
  BY <1>3 DEF Links
<1>5. l = u
  BY <1>1, <1>4, NothingRemaining
<1>6. UpstreamTypes' /\ \E v \in TurnStates : Takes(u, ir', v) /\ UpstreamMatches(v)'
  BY <1>2, <1>4, ProviderTaken
<1>7. PICK v \in TurnStates : Takes(l, ir', v) /\ UpstreamMatches(v)'
  BY <1>5, <1>6
<1>8. Remaining(l, v)'
  BY <1>7 DEF Takes, Remaining
<1>9. Heard(s)' /\ Converted(s, m)' /\ Lifted(m, l)'
  BY <1>1, <1>4, HeardSame, ConvertedSame, LiftedKept
<1>10. Chain'
  BY <1>1, <1>4, <1>7, <1>8, <1>9 DEF Links, Chain
<1>11. Types'
  BY <1>1, <1>2, <1>6 DEF Types, QueueTypes, FlagTypes, ToTypes
<1>12. BufferInv'
  BY <1>1, <1>2 DEF BufferInv
<1>13. Phases'
  BY <1>1, <1>2, OrderLater DEF Phases
<1>14. Drained'
  BY <1>1, <1>2 DEF Drained, Live
<1> QED
  BY <1>10, <1>11, <1>12, <1>13, <1>14 DEF IInv

\* What every step of the tool adaptation has in common.
LEMMA AdaptFacts ==
    ASSUME IInv, ir # <<>>, transformed = <<>>, NEW replacement, Took(replacement)
    PROVE  /\ Live /\ ~eof
           /\ \E m, l, u, k \in TurnStates, e \in IREvents({}) :
                 /\ Heard(m) /\ Converted(m, m) /\ Lifted(m, l) /\ UpstreamMatches(u)
                 /\ (m.fin <=> saw_finish) /\ (generator = "finalized" /\ u.fin => u.end)
                 /\ e = Head(ir) /\ ~Rewritten(e.data) /\ TurnLegal(l, e)
                 /\ k = TurnAfter(l, e) /\ Remaining(k, u)'
<1>1. Live /\ ~eof /\ Chain
  BY DEF IInv, Drained
<1>2. PICK s \in TurnStates, m \in TurnStates, l \in TurnStates, u \in TurnStates :
         Links(s, m, l, u)
  BY <1>1 DEF Chain
<1>3. /\ Heard(s) /\ Converted(s, m) /\ Lifted(m, l) /\ Remaining(l, u) /\ UpstreamMatches(u)
      /\ (m.fin <=> saw_finish) /\ (generator = "finalized" /\ u.fin => u.end)
  BY <1>2 DEF Links
<1>4. s = m
  BY <1>3, NothingConverting
<1>5. ir' = Tail(ir)
  BY DEF Took
<1>6. PICK e \in IREvents({}), k \in TurnStates :
         /\ e = Head(ir) /\ ~Rewritten(e.data) /\ l \in TurnStates
         /\ TurnLegal(l, e) /\ k = TurnAfter(l, e) /\ Remaining(k, u)'
  BY <1>3, <1>5, RemainingStep
<1> QED
  BY <1>1, <1>3, <1>4, <1>6

\* A step of the tool transformer keeps the invariant if it keeps its link of the chain.
LEMMA AdaptInv ==
    ASSUME IInv, ir # <<>>, transformed = <<>>, NEW replacement, Took(replacement),
           persisted \subseteq persisted', persisted' \subseteq Tools,
           NEW m \in TurnStates, NEW v \in TurnStates, NEW k \in TurnStates,
           NEW u \in TurnStates, Heard(m), UpstreamMatches(u),
           generator = "finalized" /\ u.fin => u.end,
           Converted(m, v)', Lifted(v, k)', Remaining(k, u)', v.fin <=> saw_finish'
    PROVE  IInv'
<1>1. /\ Types /\ BufferInv /\ Phases /\ Drained /\ UpstreamTypes /\ Live /\ ~eof
  BY DEF IInv, Types, Drained
<1>2. /\ saw_finish' = (saw_finish \/ Head(ir).type = "finish")
      /\ UNCHANGED <<up, told, from_started, from_ended, from_order, to, events, generator,
                     yielded, client, buffer, message_item_ids, commentary,
                     terminal_seen, passthrough, input, output, eof>>
  BY DEF Took, bufferVars
<1>3. Heard(m)'
  BY <1>2, HeardSame
<1>4. saw_finish' \in BOOLEAN
  BY <1>2
<1>5. UpstreamMatches(u)' /\ UpstreamTypes'
  BY <1>1, <1>2, <1>4, UpstreamKept
<1>6. Chain'
  BY <1>2, <1>3, <1>5 DEF Links, Chain
<1>7. pending' \in Seq([id : Tools, args : Clean])
  BY DEF Lifted
<1>8. Types'
  BY <1>1, <1>2, <1>5, <1>7 DEF Types, QueueTypes, FlagTypes, ToTypes
<1>9. BufferInv' /\ Phases' /\ Drained'
  BY <1>1, <1>2 DEF BufferInv, Phases, Drained, Live
<1> QED
  BY <1>6, <1>8, <1>9 DEF IInv

\* The start of a localized call is held back.
LEMMA HoldCallInv == ASSUME IInv, HoldCall PROVE IInv'
<1>1. /\ ir # <<>> /\ transformed = <<>> /\ Took(<<>>) /\ persisted' = persisted
      /\ Head(ir).type = "tool_call_start"
      /\ transformed' = <<>> /\ saw_finish' = (saw_finish \/ Head(ir).type = "finish")
  BY DEF HoldCall, AtIR, Took
<1>2. PICK m \in TurnStates, l \in TurnStates, u \in TurnStates, k \in TurnStates,
           e \in IREvents({}) :
         /\ Heard(m) /\ Converted(m, m) /\ Lifted(m, l) /\ UpstreamMatches(u)
         /\ (m.fin <=> saw_finish) /\ (generator = "finalized" /\ u.fin => u.end)
         /\ e = Head(ir) /\ ~Rewritten(e.data) /\ TurnLegal(l, e)
         /\ k = TurnAfter(l, e) /\ Remaining(k, u)'
  BY <1>1, AdaptFacts
<1>3. Lifted(m, k)'
  BY <1>2, HoldCallLifts
<1>4. Converted(m, m)'
  BY <1>1, <1>2, ConvertedSame
<1>5. m.fin <=> saw_finish'
  BY <1>1, <1>2
<1>6. persisted \subseteq Tools
  BY DEF IInv, Types
<1> QED
  BY <1>1, <1>2, <1>3, <1>4, <1>5, <1>6, AdaptInv

\* So are its arguments.
LEMMA HoldArgumentsInv == ASSUME IInv, HoldArguments PROVE IInv'
<1>1. /\ ir # <<>> /\ transformed = <<>> /\ Took(<<>>) /\ persisted' = persisted
      /\ Head(ir).type = "tool_call_delta"
      /\ transformed' = <<>> /\ saw_finish' = (saw_finish \/ Head(ir).type = "finish")
  BY DEF HoldArguments, AtIR, Took
<1>2. PICK m \in TurnStates, l \in TurnStates, u \in TurnStates, k \in TurnStates,
           e \in IREvents({}) :
         /\ Heard(m) /\ Converted(m, m) /\ Lifted(m, l) /\ UpstreamMatches(u)
         /\ (m.fin <=> saw_finish) /\ (generator = "finalized" /\ u.fin => u.end)
         /\ e = Head(ir) /\ ~Rewritten(e.data) /\ TurnLegal(l, e)
         /\ k = TurnAfter(l, e) /\ Remaining(k, u)'
  BY <1>1, AdaptFacts
<1>3. Lifted(m, k)'
  BY <1>2, HoldArgumentsLifts
<1>4. Converted(m, m)'
  BY <1>1, <1>2, ConvertedSame
<1>5. m.fin <=> saw_finish'
  BY <1>1, <1>2
<1>6. persisted \subseteq Tools
  BY DEF IInv, Types
<1> QED
  BY <1>1, <1>2, <1>3, <1>4, <1>5, <1>6, AdaptInv

\* At the finish the held calls are translated, stored and passed on.
LEMMA FlushCallsInv == ASSUME IInv, FlushCalls PROVE IInv'
<1>1. ir # <<>> /\ transformed = <<>>
  BY DEF FlushCalls, AtIR
<1> DEFINE flushed(native) ==
              FlattenSeq([j \in DOMAIN pending |-> FlushedCall(pending[j], native)])
              \o <<Head(ir)>>
<1>2. PICK native \in SUBSET HeldIds :
         Took(flushed(native)) /\ persisted' = persisted \cup native
  BY DEF FlushCalls
<1> HIDE DEF flushed
<1>3. PICK m \in TurnStates, l \in TurnStates, u \in TurnStates, k \in TurnStates,
           e \in IREvents({}) :
         /\ Heard(m) /\ Converted(m, m) /\ Lifted(m, l) /\ UpstreamMatches(u)
         /\ (m.fin <=> saw_finish) /\ (generator = "finalized" /\ u.fin => u.end)
         /\ e = Head(ir) /\ ~Rewritten(e.data) /\ TurnLegal(l, e)
         /\ k = TurnAfter(l, e) /\ Remaining(k, u)'
  BY <1>1, <1>2, AdaptFacts
<1>4. PICK v \in TurnStates : Converted(m, v)' /\ Lifted(v, k)' /\ v.fin /\ e.type = "finish"
  BY <1>3, FlushLifts
<1>5. v.fin <=> saw_finish'
  BY <1>2, <1>3, <1>4 DEF Took
<1>6. persisted \subseteq Tools /\ HeldIds \subseteq Tools
  BY HeldFacts DEF IInv, Types
<1>7. persisted \subseteq persisted' /\ persisted' \subseteq Tools
  BY <1>2, <1>6
<1> QED
  BY <1>1, <1>2, <1>3, <1>4, <1>5, <1>7, AdaptInv

\* Everything else is passed on.
LEMMA PassOnInv == ASSUME IInv, PassOn PROVE IInv'
<1>1. /\ ir # <<>> /\ transformed = <<>> /\ Took(<<Head(ir)>>) /\ pending' = pending
      /\ persisted' = persisted
      /\ transformed' = <<Head(ir)>> /\ saw_finish' = (saw_finish \/ Head(ir).type = "finish")
  BY DEF PassOn, Took, adaptVars
<1>2. PICK m \in TurnStates, l \in TurnStates, u \in TurnStates, k \in TurnStates,
           e \in IREvents({}) :
         /\ Heard(m) /\ Converted(m, m) /\ Lifted(m, l) /\ UpstreamMatches(u)
         /\ (m.fin <=> saw_finish) /\ (generator = "finalized" /\ u.fin => u.end)
         /\ e = Head(ir) /\ ~Rewritten(e.data) /\ TurnLegal(l, e)
         /\ k = TurnAfter(l, e) /\ Remaining(k, u)'
  BY <1>1, AdaptFacts
<1>3. PICK v : v = TurnAfter(m, e)
  OBVIOUS
<1>4. TurnLegal(m, e) /\ v \in TurnStates /\ Lifted(v, k)'
  BY <1>2, <1>3, PassOnLifts
<1>5. Converted(m, v)'
  <2>1. PICK stored : stored = persisted'
    OBVIOUS
  <2>2. e \in IREvents(stored) /\ <<m, e, v>> \in TurnSteps(stored)
    <3>1. Takes(m, <<e>>, v)
      BY <1>2, <1>3, <1>4, TakesOne
    <3>2. IREvents({}) \subseteq IREvents(stored)
      BY StoredMore
    <3>3. e \in IREvents(stored)
      BY <1>2, <3>2
    <3> QED
      BY <1>3, <1>4, <3>3, TurnStepIntro
  <2>3. <<e>> \in Seq(IREvents(stored)) /\ Leads(TurnSteps(stored), m, <<e>>, v)
    <3> DEFINE T == TurnSteps(stored)
               I == IREvents(stored)
    <3>1. e \in I /\ <<m, e, v>> \in T
      BY <2>2
    <3> HIDE DEF T, I
    <3>2. <<e>> \in Seq(I) /\ Leads(T, m, <<e>>, v)
      BY <3>1, LeadsOne
    <3> QED
      BY <3>2 DEF T, I
  <2> QED
    BY <1>1, <1>2, <2>1, <2>3 DEF Converted
<1>6. v.fin <=> saw_finish'
  <2>1. v.fin <=> m.fin \/ e.type = "finish"
    BY <1>3, <1>4 DEF TurnAfter, TurnStates, TurnRecords
  <2> QED
    BY <1>1, <1>2, <2>1
<1>7. persisted \subseteq Tools
  BY DEF IInv, Types
<1> QED
  BY <1>1, <1>2, <1>4, <1>5, <1>6, <1>7, AdaptInv

\* An event is converted for the client.
LEMMA ToProviderInv == ASSUME IInv, ToProvider PROVE IInv'
<1>1. transformed # <<>>
  BY DEF ToProvider, AtType, handle_stream_start_to_p, handle_text_delta_to_p,
         handle_reasoning_delta_to_p, handle_tool_call_start_to_p,
         handle_tool_call_delta_to_p, handle_finish_to_p, handle_usage_to_p,
         handle_stream_end_to_p
<1>2. /\ Types /\ BufferInv /\ Phases /\ Live /\ ~eof /\ Chain
      /\ QueueTypes /\ UpstreamTypes /\ FlagTypes
  BY <1>1 DEF IInv, Types, Drained
<1>3. PICK s \in TurnStates, m \in TurnStates, l \in TurnStates, u \in TurnStates :
         Links(s, m, l, u)
  BY <1>2 DEF Chain
<1>4. /\ Heard(s) /\ Converted(s, m) /\ Lifted(m, l) /\ Remaining(l, u) /\ UpstreamMatches(u)
      /\ (m.fin <=> saw_finish) /\ (generator = "finalized" /\ u.fin => u.end)
  BY <1>3 DEF Links
<1>5. /\ QueueTypes'
      /\ UNCHANGED <<up, told, fromVars, ir, adaptVars, generator, yielded, client, bufferVars>>
      /\ \E t \in TurnStates : Heard(t)' /\ Converted(t, m)'
  BY <1>2, <1>4, ConvertHeard
<1>6. UNCHANGED <<up, told, from_started, from_ended, from_order, saw_finish, ir, pending,
                  persisted, generator, yielded, client, buffer, message_item_ids, commentary,
                  terminal_seen, passthrough, input, output, eof>>
  BY <1>5 DEF fromVars, adaptVars, bufferVars
<1>7. PICK t \in TurnStates : Heard(t)' /\ Converted(t, m)'
  BY <1>5
<1>8. saw_finish' \in BOOLEAN
  BY <1>2, <1>6 DEF UpstreamTypes
<1>9. /\ Lifted(m, l)' /\ Remaining(l, u)' /\ UpstreamMatches(u)' /\ UpstreamTypes'
  BY <1>2, <1>4, <1>6, <1>8, LiftedKept, RemainingKept, UpstreamKept
<1>10. Chain'
  BY <1>4, <1>6, <1>7, <1>9 DEF Links, Chain
<1>11. ToTypes'
  BY <1>7 DEF Heard, Matches
<1>12. Types'
  BY <1>2, <1>5, <1>6, <1>9, <1>11 DEF Types, FlagTypes
<1>13. BufferInv' /\ Phases'
  BY <1>2, <1>6 DEF BufferInv, Phases
<1>14. Drained'
  BY <1>2, <1>6 DEF Drained, Live
<1> QED
  BY <1>10, <1>12, <1>13, <1>14 DEF IInv

\* An event goes into the phase buffer.
LEMMA FeedInv == ASSUME IInv, Feed PROVE IInv'
<1>1. /\ Live /\ ir = <<>> /\ transformed = <<>> /\ events # <<>> /\ PB!process(Head(events))
      /\ UNCHANGED <<up, told, from_started, from_ended, from_order, saw_finish, ir, transformed,
                     pending, persisted, to, generator, yielded, client>>
  BY DEF Feed, Converting, fromVars, adaptVars
<1>2. /\ Types /\ BufferInv /\ Phases /\ Drained /\ Chain
      /\ QueueTypes /\ UpstreamTypes /\ FlagTypes
  BY <1>1 DEF IInv, Types
<1>3. PICK s \in TurnStates, m \in TurnStates, l \in TurnStates, u \in TurnStates :
         Links(s, m, l, u)
  BY <1>2 DEF Chain
<1>4. /\ Heard(s) /\ Converted(s, m) /\ Lifted(m, l) /\ Remaining(l, u) /\ UpstreamMatches(u)
      /\ (m.fin <=> saw_finish) /\ (generator = "finalized" /\ u.fin => u.end)
  BY <1>3 DEF Links
<1>5. PICK d \in Clients : Leads(Steps, client, Queue, d) /\ Matches(s, d)
  BY <1>4 DEF Heard
<1>6. QueueTypes' /\ BufferInv' /\ FlagTypes' /\ Leads(Steps, client', Queue', d)
  BY <1>2, <1>5, FeedQueue
<1>7. Matches(s, d)'
  BY <1>1, <1>5, MatchesSame
<1>8. Heard(s)'
  BY <1>6, <1>7 DEF Heard
<1>9. saw_finish' \in BOOLEAN
  BY <1>1, <1>2 DEF UpstreamTypes
<1>10. /\ Converted(s, m)' /\ Lifted(m, l)' /\ Remaining(l, u)' /\ UpstreamMatches(u)'
       /\ UpstreamTypes'
  BY <1>1, <1>2, <1>4, <1>9, ConvertedSame, LiftedKept, RemainingKept, UpstreamKept
<1>11. Chain'
  BY <1>1, <1>4, <1>8, <1>10 DEF Links, Chain
<1>12. Types'
  BY <1>1, <1>2, <1>6, <1>10 DEF Types, ToTypes
<1>13. Phases'
  BY <1>2, FeedPhases
<1>14. Drained'
  <2>1. Head(events) \in Events
    BY <1>1, <1>2, HeadTailProperties DEF QueueTypes
  <2>2. ~eof /\ eof' = eof
    BY <1>1, <1>2, <2>1, ProcessForms
  <2> QED
    BY <1>1, <2>2 DEF Drained, Live
<1> QED
  BY <1>6, <1>11, <1>12, <1>13, <1>14 DEF IInv

\* The client receives an event.
LEMMA YieldInv == ASSUME IInv, Yield PROVE IInv'
<1>1. /\ Live
      /\ UNCHANGED <<up, told, from_started, from_ended, from_order, saw_finish, ir, transformed,
                     pending, persisted, to, events, generator, buffer, message_item_ids,
                     commentary, terminal_seen, passthrough, input, output, eof>>
  BY DEF Yield, fromVars, adaptVars, bufferVars
<1>2. /\ Types /\ BufferInv /\ Phases /\ Drained /\ Chain
      /\ QueueTypes /\ UpstreamTypes /\ FlagTypes
  BY <1>1 DEF IInv, Types
<1>3. PICK s \in TurnStates, m \in TurnStates, l \in TurnStates, u \in TurnStates :
         Links(s, m, l, u)
  BY <1>2 DEF Chain
<1>4. /\ Heard(s) /\ Converted(s, m) /\ Lifted(m, l) /\ Remaining(l, u) /\ UpstreamMatches(u)
      /\ (m.fin <=> saw_finish) /\ (generator = "finalized" /\ u.fin => u.end)
  BY <1>3 DEF Links
<1>5. PICK d \in Clients : Leads(Steps, client, Queue, d) /\ Matches(s, d)
  BY <1>4 DEF Heard
<1>6. QueueTypes' /\ Leads(Steps, client', Queue', d) /\ \E e : <<client, e, client'>> \in Steps
  BY <1>2, <1>5, YieldQueue
<1>7. client' \in Clients
  BY <1>6, StepIs
<1>8. Matches(s, d)'
  BY <1>1, <1>5, MatchesSame
<1>9. Heard(s)'
  BY <1>6, <1>8 DEF Heard
<1>10. saw_finish' \in BOOLEAN
  BY <1>1, <1>2 DEF UpstreamTypes
<1>11. /\ Converted(s, m)' /\ Lifted(m, l)' /\ Remaining(l, u)' /\ UpstreamMatches(u)'
       /\ UpstreamTypes'
  BY <1>1, <1>2, <1>4, <1>10, ConvertedSame, LiftedKept, RemainingKept, UpstreamKept
<1>12. Chain'
  BY <1>1, <1>4, <1>9, <1>11 DEF Links, Chain
<1>13. Types'
  BY <1>1, <1>2, <1>6, <1>7, <1>11 DEF Types, ToTypes, FlagTypes
<1>14. BufferInv' /\ Phases' /\ Drained'
  BY <1>1, <1>2 DEF BufferInv, Phases, Drained, Live
<1> QED
  BY <1>12, <1>13, <1>14 DEF IInv

\* The upstream's stream is over: what the finalization emits ends the turn.
LEMMA UpstreamEOFInv == ASSUME IInv, UpstreamEOF PROVE IInv'
<1>1. /\ generator = "running" /\ ir = <<>> /\ transformed = <<>> /\ generator' = "finalized"
      /\ from_ended' = (from_ended \/ saw_finish)
      /\ ir' = On(saw_finish /\ ~from_ended, <<IREvent("stream_end", NoId, <<>>)>>)
      /\ UNCHANGED <<up, told, from_started, from_order, saw_finish, transformed, pending,
                     persisted, to, events, yielded, client, buffer, message_item_ids,
                     commentary, terminal_seen, passthrough, input, output, eof>>
  BY DEF UpstreamEOF, AwaitsChunk, Converting, adaptVars, bufferVars
<1>2. /\ Types /\ BufferInv /\ Phases /\ Drained /\ Chain /\ UpstreamTypes /\ ~eof
  BY <1>1 DEF IInv, Live, Types, Drained
<1>3. PICK s \in TurnStates, m \in TurnStates, l \in TurnStates, u \in TurnStates :
         Links(s, m, l, u)
  BY <1>2 DEF Chain
<1>4. /\ Heard(s) /\ Converted(s, m) /\ Lifted(m, l) /\ Remaining(l, u) /\ UpstreamMatches(u)
      /\ (m.fin <=> saw_finish)
  BY <1>3 DEF Links
<1>5. l = u
  BY <1>1, <1>4, NothingRemaining
<1>6. /\ u.fin \in BOOLEAN /\ u.end \in BOOLEAN /\ saw_finish \in BOOLEAN /\ from_ended \in BOOLEAN
      /\ (u.fin <=> saw_finish) /\ (u.end <=> from_ended)
  BY <1>2, <1>4, <1>5 DEF TurnStates, TurnRecords, UpstreamTypes, Lifted, UpstreamMatches
<1> DEFINE ends == saw_finish /\ ~from_ended
<1>7. PICK v \in TurnStates :
         /\ Takes(u, ir', v)
         /\ v.started = u.started /\ v.fin = u.fin /\ v.end = (u.end \/ ends)
         /\ v.items = u.items /\ v.content = u.content /\ v.usage = u.usage
  <2>1. ends \in BOOLEAN /\ (ends => u.fin /\ ~u.end)
    BY <1>6
  <2>2. ir' = On(ends, <<IREvent("stream_end", NoId, <<>>)>>)
    BY <1>1
  <2> HIDE DEF ends
  <2> QED
    BY <2>1, <2>2, EndTaken
<1>8. Remaining(l, v)'
  BY <1>5, <1>7 DEF Takes, Remaining
<1>9. UpstreamMatches(v)'
  <2>1. /\ (u.started <=> from_started) /\ (u.fin <=> up.finished) /\ u.items = told.items
        /\ (\A i \in Items : u.content[i] = told.content[i])
        /\ (Quirks = {} => told.usage \subseteq u.usage)
    BY <1>4 DEF UpstreamMatches
  <2>2. v.end <=> from_ended'
    BY <1>1, <1>6, <1>7
  <2> QED
    BY <1>1, <1>7, <2>1, <2>2 DEF UpstreamMatches
<1>10. v.fin => v.end
  BY <1>6, <1>7
<1>11. Heard(s)' /\ Converted(s, m)' /\ Lifted(m, l)'
  BY <1>1, <1>4, HeardSame, ConvertedSame, LiftedKept
<1>12. Chain'
  BY <1>1, <1>4, <1>8, <1>9, <1>10, <1>11 DEF Links, Chain
<1>13. UpstreamTypes'
  BY <1>1, <1>2, <1>6 DEF UpstreamTypes
<1>14. Types'
  BY <1>1, <1>2, <1>13 DEF Types, QueueTypes, FlagTypes, ToTypes, Generators
<1>15. BufferInv' /\ Phases' /\ Drained'
  BY <1>1, <1>2 DEF BufferInv, Phases, Drained, Live
<1> QED
  BY <1>12, <1>14, <1>15 DEF IInv

\* The phase buffer is flushed.
LEMMA FlushBufferInv == ASSUME IInv, FlushBuffer PROVE IInv'
<1>1. /\ generator = "finalized" /\ ir = <<>> /\ transformed = <<>> /\ events = <<>>
      /\ buffer' = <<>> /\ output' = output \o PB!flushed("none")
      /\ UNCHANGED <<up, told, from_started, from_ended, from_order, saw_finish, ir, transformed,
                     pending, persisted, to, events, generator, yielded, client,
                     message_item_ids, commentary, terminal_seen, passthrough, input>>
  BY DEF FlushBuffer, Converting, Delivering, PB!flush, PB!flags, fromVars, adaptVars
<1>2. /\ Types /\ BufferInv /\ Phases /\ Chain
      /\ QueueTypes /\ UpstreamTypes /\ FlagTypes
  BY <1>1 DEF IInv, Types, Live
<1>3. PICK s \in TurnStates, m \in TurnStates, l \in TurnStates, u \in TurnStates :
         Links(s, m, l, u)
  BY <1>2 DEF Chain
<1>4. /\ Heard(s) /\ Converted(s, m) /\ Lifted(m, l) /\ Remaining(l, u) /\ UpstreamMatches(u)
      /\ (m.fin <=> saw_finish) /\ (generator = "finalized" /\ u.fin => u.end)
  BY <1>3 DEF Links
<1>5. PICK d \in Clients : Leads(Steps, client, Queue, d) /\ Matches(s, d)
  BY <1>4 DEF Heard
<1>6. QueueTypes' /\ Leads(Steps, client', Queue', d)
  BY <1>2, <1>5, FlushQueue
<1>7. Matches(s, d)'
  BY <1>1, <1>5, MatchesSame
<1>8. Heard(s)'
  BY <1>6, <1>7 DEF Heard
<1>9. saw_finish' \in BOOLEAN
  BY <1>1, <1>2 DEF UpstreamTypes
<1>10. /\ Converted(s, m)' /\ Lifted(m, l)' /\ Remaining(l, u)' /\ UpstreamMatches(u)'
       /\ UpstreamTypes'
  BY <1>1, <1>2, <1>4, <1>9, ConvertedSame, LiftedKept, RemainingKept, UpstreamKept
<1>11. Chain'
  BY <1>1, <1>4, <1>8, <1>10 DEF Links, Chain
<1>12. Types'
  BY <1>1, <1>2, <1>6, <1>10 DEF Types, ToTypes, FlagTypes
<1>13. Phases'
  <2> DEFINE f == PB!flushed("none")
             k == Len(output)
             E == [ev : 1..Len(input), phase : {"none"}]
  <2>1. f \in Seq(E) /\ output \in Seq(Entries(Len(input)))
    <3>1. "none" \in PB!Phases /\ {"none", "none"} = {"none"}
      BY DEF PB!Phases
    <3>2. f \in Seq([ev : 1..Len(input), phase : {"none", "none"}])
      BY <1>2, <3>1, FlushedEntries
    <3> QED
      BY <1>2, <3>1, <3>2 DEF QueueTypes
  <2> HIDE DEF f
  <2>2. /\ k \in Nat /\ Len(f) \in Nat /\ Len(output \o f) = k + Len(f)
        /\ \A p \in 1..k + Len(f) : (output \o f)[p] = IF p <= k THEN output[p] ELSE f[p - k]
        /\ \A p \in 1..Len(f) : f[p] \in E
    <3> HIDE DEF E, k
    <3> QED
      BY <2>1, LenProperties, ConcatProperties, ElementOfSeq DEF k
  <2>3. ASSUME NEW p \in 1..Len(output')
        PROVE  /\ output'[p].phase = "commentary" => up.order # <<>>
               /\ output'[p].phase = "final_answer" => up.order = <<>> /\ up.finished
    <3>1. output' = output \o f
      BY <1>1 DEF f
    <3>2. CASE p <= k
      <4>1. p \in 1..Len(output) /\ output'[p] = output[p]
        BY <2>2, <3>1, <3>2
      <4> QED
        BY <1>2, <4>1 DEF Phases
    <3>3. CASE ~(p <= k)
      <4> HIDE DEF E, k
      <4>1. p - k \in 1..Len(f) /\ output'[p] = f[p - k]
        BY <2>2, <3>1, <3>3
      <4>2. output'[p] \in E
        BY <2>2, <4>1
      <4> QED
        BY <4>2 DEF E
    <3> QED
      BY <3>2, <3>3
  <2> QED
    BY <1>1, <1>2, <2>3 DEF Phases
<1>14. BufferInv'
  <2>1. Len(buffer') = 0 /\ 1..0 = {}
    BY <1>1
  <2> QED
    BY <1>1, <1>2, <2>1 DEF BufferInv
<1>15. Drained'
  BY <1>1 DEF Drained, Live
<1> QED
  BY <1>11, <1>12, <1>13, <1>14, <1>15 DEF IInv

LEMMA SubSeqType ==
    ASSUME NEW E, NEW q \in Seq(E), NEW k \in 1..Len(q)
    PROVE  SubSeq(q, k + 1, Len(q)) \in Seq(E)
<1>1. Len(q) \in Nat
  OBVIOUS
<1>2. \A i \in (k + 1)..Len(q) : q[i] \in E
  BY <1>1
<1> QED
  BY <1>1, <1>2, SubSeqProperties

\* A mapping cannot be stored: the turn is given up, with a store that has only grown.
LEMMA PersistFailsInv == ASSUME IInv, PersistFails PROVE IInv'
<1>1. /\ ir # <<>> /\ generator' = "error" /\ ir' = <<>> /\ transformed' = <<>> /\ events' = <<>>
      /\ saw_finish' = (saw_finish \/ Head(ir).type = "finish")
      /\ UNCHANGED <<up, told, from_started, from_ended, from_order, to, yielded, client, buffer,
                     message_item_ids, commentary, terminal_seen, passthrough, input, output,
                     eof>>
  BY DEF PersistFails, AtIR, bufferVars
<1>2. PICK k \in DOMAIN pending :
         /\ \E native \in SUBSET {pending[j].id : j \in 1..(k - 1)} :
              persisted' = persisted \cup native
         /\ pending' = SubSeq(pending, k + 1, Len(pending))
  BY DEF PersistFails
<1>3. /\ Types /\ BufferInv /\ Phases /\ ~eof /\ UpstreamTypes
      /\ pending \in Seq([id : Tools, args : Clean]) /\ persisted \subseteq Tools
  BY <1>1 DEF IInv, Types, Drained
<1>4. /\ DOMAIN pending = 1..Len(pending) /\ Len(pending) \in Nat
      /\ \A j \in 1..Len(pending) : pending[j].id \in Tools
  BY <1>3, HeldFacts
<1>5. pending' \in Seq([id : Tools, args : Clean])
  BY <1>2, <1>3, <1>4, SubSeqType
<1>6. persisted' \subseteq Tools
  <2>1. \A j \in 1..(k - 1) : j \in 1..Len(pending)
    BY <1>4
  <2> QED
    BY <1>2, <1>3, <1>4, <2>1
<1>7. UpstreamTypes'
  <2>1. saw_finish' \in BOOLEAN
    BY <1>1
  <2> QED
    BY <1>1, <1>3, <2>1 DEF UpstreamTypes
<1>8. QueueTypes'
  <2>1. <<>> \in Seq(Events)
    BY EmptySeq
  <2> QED
    BY <1>1, <1>3, <2>1 DEF Types, QueueTypes
<1>9. Types'
  BY <1>1, <1>3, <1>5, <1>6, <1>7, <1>8 DEF Types, FlagTypes, ToTypes, Generators
<1>10. BufferInv' /\ Phases' /\ Drained' /\ ~Live'
  BY <1>1, <1>3 DEF BufferInv, Phases, Drained, Live
<1> QED
  BY <1>9, <1>10 DEF IInv

\* The generator is left: nothing happens after that.
LEMMA LeaveInv ==
    ASSUME IInv, UpstreamError \/ Cancel \/ Complete
    PROVE  IInv'
<1>1. /\ generator' \in {"error", "cancelled", "completed"}
      /\ events' = events \/ events' = <<>>
      /\ UNCHANGED <<up, told, from_started, from_ended, from_order, saw_finish, ir, transformed,
                     pending, persisted, to, yielded, client, buffer, message_item_ids, commentary,
                     terminal_seen, passthrough, input, output, eof>>
  BY DEF UpstreamError, Cancel, Complete, fromVars, adaptVars, bufferVars
<1>2. Types /\ BufferInv /\ Phases /\ Drained
  BY DEF IInv
<1>3. ir = <<>> /\ transformed = <<>>
  BY <1>2 DEF UpstreamError, Cancel, Complete, AwaitsChunk, Converting, Drained
<1>4. QueueTypes'
  <2>1. <<>> \in Seq(Events)
    BY EmptySeq
  <2> QED
    BY <1>1, <1>2, <2>1 DEF Types, QueueTypes
<1>5. Types'
  BY <1>1, <1>2, <1>4 DEF Types, FlagTypes, UpstreamTypes, ToTypes, Generators
<1>6. BufferInv' /\ Phases' /\ ~Live'
  BY <1>1, <1>2 DEF BufferInv, Phases, Live
<1>7. Drained'
  BY <1>1, <1>2, <1>3 DEF Drained
<1> QED
  BY <1>5, <1>6, <1>7 DEF IInv

LEMMA UnchangedInv == ASSUME IInv, UNCHANGED vars PROVE IInv'
<1>1. UNCHANGED <<up, told, from_started, from_ended, from_order, saw_finish, ir, transformed,
                  pending, persisted, to, events, generator, yielded, client, buffer,
                  message_item_ids, commentary, terminal_seen, passthrough, input, output, eof>>
  BY DEF vars, fromVars, adaptVars, bufferVars
<1>2. Types /\ BufferInv /\ Phases /\ Drained /\ UpstreamTypes
  BY DEF IInv, Types
<1>3. Live' => Chain'
  <2> SUFFICES ASSUME Live
               PROVE  Chain'
    BY <1>1 DEF Live
  <2>1. PICK s \in TurnStates, m \in TurnStates, l \in TurnStates, u \in TurnStates :
           Links(s, m, l, u)
    BY DEF IInv, Chain
  <2>2. /\ Heard(s) /\ Converted(s, m) /\ Lifted(m, l) /\ Remaining(l, u) /\ UpstreamMatches(u)
        /\ (m.fin <=> saw_finish) /\ (generator = "finalized" /\ u.fin => u.end)
    BY <2>1 DEF Links
  <2>3. saw_finish' \in BOOLEAN
    BY <1>1, <1>2 DEF UpstreamTypes
  <2>4. /\ Heard(s)' /\ Converted(s, m)' /\ Lifted(m, l)' /\ Remaining(l, u)'
        /\ UpstreamMatches(u)'
    BY <1>1, <1>2, <2>2, <2>3, HeardSame, ConvertedSame, LiftedKept, RemainingKept, UpstreamKept
  <2> QED
    BY <1>1, <2>2, <2>4 DEF Links, Chain
<1>4. Types'
  BY <1>1, <1>2 DEF Types, QueueTypes, FlagTypes, UpstreamTypes, ToTypes
<1>5. BufferInv' /\ Phases' /\ Drained'
  BY <1>1, <1>2 DEF BufferInv, Phases, Drained, Live
<1> QED
  BY <1>3, <1>4, <1>5 DEF IInv

\* The invariant is inductive: every step of the turn keeps it, whichever of the two
\* state machines, the transformer, the buffer or the generator takes it.
THEOREM StepInv == ASSUME IInv, [Next]_vars PROVE IInv'
<1>1. CASE Next
  <2>1. CASE Convert
    BY <2>1, HoldCallInv, HoldArgumentsInv, FlushCallsInv, PassOnInv, ToProviderInv DEF Convert
  <2>2. CASE UpstreamError \/ Cancel \/ Complete
    BY <2>2, LeaveInv
  <2>3. CASE Stopped
    BY <2>3, UnchangedInv DEF Stopped
  <2> QED
    BY <1>1, <2>1, <2>2, <2>3, ProviderInv, PersistFailsInv, FeedInv, YieldInv, UpstreamEOFInv,
       FlushBufferInv DEF Next
<1>2. CASE UNCHANGED vars
  BY <1>2, UnchangedInv
<1> QED
  BY <1>1, <1>2

Blank == [started |-> FALSE, fin |-> FALSE, end |-> FALSE, items |-> {},
          content |-> [i \in Items |-> <<>>], fresh |-> {}, usage |-> {}]

\* The turn before anything was sent.
LEMMA BlankIs ==
    /\ Blank \in TurnStates
    /\ Blank.started = FALSE /\ Blank.fin = FALSE /\ Blank.end = FALSE /\ Blank.items = {}
    /\ Blank.fresh = {} /\ Blank.usage = {} /\ \A i \in Items : Blank.content[i] = <<>>
<1>1. /\ Blank.started = FALSE /\ Blank.fin = FALSE /\ Blank.end = FALSE /\ Blank.items = {}
      /\ Blank.fresh = {} /\ Blank.usage = {} /\ \A i \in Items : Blank.content[i] = <<>>
  BY DEF Blank
<1>2. <<>> \in Clean
  BY EmptySeq DEF Clean
<1>3. Blank \in TurnRecords
  BY <1>2 DEF Blank, TurnRecords
<1>4. Sound(Blank)
  BY <1>1 DEF Sound
<1> QED
  BY <1>1, <1>3, <1>4 DEF TurnStates

LEMMA InitInv == ASSUME Init PROVE IInv
<1>1. <<>> \in Clean /\ <<>> \in Fragments /\ <<>> \in Seq(Tools) /\ Sources(<<>>) = <<>>
  BY EmptySeq DEF Clean, Fragments, Sources
<1>2. /\ input = <<>> /\ events = <<>> /\ output = <<>> /\ yielded = 0 /\ buffer = <<>>
      /\ message_item_ids = {} /\ commentary = FALSE /\ terminal_seen = FALSE
      /\ passthrough = FALSE /\ eof = FALSE
      /\ ir = <<>> /\ transformed = <<>> /\ pending = <<>> /\ persisted = {}
      /\ generator = "running" /\ from_started = FALSE /\ from_ended = FALSE
      /\ from_order = <<>> /\ saw_finish = FALSE
  BY DEF Init, PB!Init
<1>3. Len(<<>>) = 0 /\ 1..0 = {} /\ DOMAIN <<>> = {}
  OBVIOUS
<1>4. QueueTypes
  <2>1. <<>> \in Seq(Events) /\ <<>> \in Seq(Entries(Len(input))) /\ <<>> \in Seq(1..Len(input))
    BY EmptySeq
  <2> QED
    BY <1>2, <1>3, <2>1 DEF QueueTypes
<1>5. /\ up = [n |-> 0, order |-> <<>>, finished |-> FALSE, last |-> FALSE]
      /\ told = [items |-> {}, content |-> [i \in Items |-> <<>>], usage |-> {}]
  BY DEF Init
<1>6. /\ up.n = 0 /\ up.order = <<>> /\ up.finished = FALSE /\ up.last = FALSE
      /\ told.items = {} /\ told.usage = {} /\ \A i \in Items : told.content[i] = <<>>
  BY <1>5
<1>7. UpstreamTypes
  <2>1. 0 \in 0..MaxChunks
    BY LimitsAssumption
  <2>2. up \in [n : 0..MaxChunks, order : Seq(Tools), finished : BOOLEAN, last : BOOLEAN]
    BY <1>1, <1>5, <2>1
  <2>3. told \in [items : SUBSET Items, content : [Items -> Clean], usage : SUBSET (1..MaxChunks)]
    BY <1>1, <1>5
  <2>4. ToSet(up.order) = {}
    BY <1>3, <1>6 DEF ToSet
  <2> QED
    BY <1>2, <1>6, <2>2, <2>3, <2>4 DEF UpstreamTypes
<1>8. to = [started |-> FALSE, ended |-> FALSE,
            output_item_emitted |-> FALSE, accumulated_text |-> <<>>,
            reasoning_seen |-> FALSE, reasoning_item_emitted |-> FALSE,
            reasoning_item_done_emitted |-> FALSE, accumulated_reasoning |-> <<>>,
            order |-> <<>>, args |-> [t \in Tools |-> <<>>],
            pending_usage |-> NotSet, pending_response |-> <<>>]
  BY DEF Init
<1>9. ToTypes
  <2>1. NotSet \in Usages
    BY LimitsAssumption DEF NotSet, Usages
  <2>2. <<>> \in Seq(Responses)
    BY EmptySeq
  <2> QED
    BY <1>1, <1>8, <2>1, <2>2 DEF ToTypes
<1>10. client = [phase |-> "idle", stage |-> [i \in Items |-> "absent"],
                 content |-> [i \in Items |-> <<>>], listed |-> {}, usage |-> {}]
  BY DEF Init
<1>11. client \in Clients
  BY <1>1, <1>10 DEF Clients, Stages, Usages
<1>12. Types
  <2>1. <<>> \in Seq([id : Tools, args : Clean])
    BY EmptySeq
  <2> QED
    BY <1>2, <1>4, <1>7, <1>9, <1>11, <2>1 DEF Types, FlagTypes, Generators
<1>13. BufferInv /\ Phases /\ Drained
  BY <1>2, <1>3 DEF BufferInv, Phases, Drained, Live
<1> DEFINE b == Blank
<1>14. /\ b \in TurnStates
       /\ b.started = FALSE /\ b.fin = FALSE /\ b.end = FALSE /\ b.items = {}
       /\ b.fresh = {} /\ b.usage = {} /\ \A i \in Items : b.content[i] = <<>>
  BY BlankIs
<1> HIDE DEF b
<1>15. \A i \in Items : Raw(i) = <<>>
  BY <1>8, Names DEF Raw
<1>16. Matches(b, client)
  <2>1. ContextMatches(b)
    <3>1. /\ to.started = FALSE /\ to.ended = FALSE /\ to.output_item_emitted = FALSE
          /\ to.reasoning_seen = FALSE /\ to.reasoning_item_emitted = FALSE
          /\ to.reasoning_item_done_emitted = FALSE /\ to.order = <<>>
          /\ to.pending_usage = NotSet
      BY <1>8
    <3>2. ToSet(to.order) = {} /\ Distinct(to.order)
      BY <1>3, <3>1 DEF ToSet, Distinct
    <3> QED
      BY <1>14, <3>1, <3>2 DEF ContextMatches
  <2>2. ASSUME NEW i \in Items
        PROVE  ItemMatches(b, client, i)
    <3>1. client.stage[i] = "absent" /\ client.content[i] = <<>>
      BY <1>10
    <3>2. ~Rewritten(<<>>)
      BY DEF Rewritten
    <3> QED
      BY <1>1, <1>14, <1>15, <3>1, <3>2 DEF ItemMatches
  <2>3. ClientMatches(b, client)
    BY <1>10, <1>14, <2>2 DEF ClientMatches
  <2>4. ResponseMatches(b, client)
    BY <1>8, <1>14 DEF ResponseMatches
  <2> QED
    BY <1>9, <2>1, <2>3, <2>4 DEF Matches
<1>17. Heard(b)
  <2>1. Queue = <<>>
    <3>1. Due(output, yielded) = <<>>
      <4>1. Len(output) - yielded = 0
        BY <1>2, <1>3
      <4> QED
        BY <1>3, <4>1, EmptySeq DEF Due
    <3>2. Due(output, yielded) \o buffer = <<>>
      BY <1>2, <3>1, EmptySeq, ConcatEmptySeq
    <3>3. EventsAt(input, <<>>) = <<>>
      BY <1>3, EmptySeq DEF EventsAt
    <3> QED
      BY <1>2, <3>2, <3>3, EmptySeq, ConcatEmptySeq DEF Queue
  <2>2. Leads(Steps, client, Queue, client)
    BY <2>1, LeadsEmpty
  <2> QED
    BY <1>11, <1>16, <2>2 DEF Heard
<1>18. Converted(b, b)
  BY <1>2, ConvertsNothing
<1>19. Remaining(b, b)
  BY <1>2, EmptySeq, LeadsEmpty DEF Remaining
<1>20. Lifted(b, b)
  <2>1. HeldIds = {} /\ pending \in Seq([id : Tools, args : Clean])
    BY <1>2, <1>3, EmptySeq DEF HeldIds
  <2>2. Held(b)
    BY <1>2, <1>3 DEF Held
  <2> QED
    BY <1>14, <2>1, <2>2 DEF Lifted
<1>21. UpstreamMatches(b)
  BY <1>2, <1>6, <1>14 DEF UpstreamMatches
<1>22. Chain
  BY <1>2, <1>14, <1>17, <1>18, <1>19, <1>20, <1>21 DEF Links, Chain
<1> QED
  BY <1>12, <1>13, <1>22 DEF IInv

\* At every moment of a streamed turn that has not broken off, what is under way
\* (ir events, held calls, source events, delayed events, output not yet read) leads the
\* client to a turn that is what the upstream has sent.
THEOREM InvHolds == Spec => []IInv
<1>1. Init => IInv
  BY InitInv
<1>2. IInv /\ [Next]_vars => IInv'
  BY StepInv
<1> QED
  BY <1>1, <1>2, PTL DEF Spec

-----------------------------------------------------------------------------
(* What the chain says of the client.                                        *)

PartOf(a, b) == \E x \in Fragments : b = a \o x

\* PartOf is the order of the contents.
LEMMA PartOfPart ==
    ASSUME NEW a \in Fragments, NEW b, NEW c, PartOf(a, b), PartOf(b, c)
    PROVE  PartOf(a, c)
<1>1. PICK x \in Fragments : b = a \o x
  BY DEF PartOf
<1>2. PICK y \in Fragments : c = b \o y
  BY DEF PartOf
<1>3. x \o y \in Fragments /\ (a \o x) \o y = a \o (x \o y)
  <2> DEFINE S == 0..MaxChunks
  <2>1. a \in Seq(S) /\ x \in Seq(S) /\ y \in Seq(S)
    BY DEF Fragments
  <2> HIDE DEF S
  <2>2. x \o y \in Seq(S) /\ (a \o x) \o y = a \o (x \o y)
    BY <2>1, ConcatThree
  <2> QED
    BY <2>2 DEF Fragments, S
<1> QED
  BY <1>1, <1>2, <1>3 DEF PartOf

LEMMA PartOfSelf == ASSUME NEW a \in Fragments PROVE PartOf(a, a) /\ PartOf(<<>>, a)
<1>1. <<>> \in Fragments /\ a \o <<>> = a /\ <<>> \o a = a
  BY EmptySeq, ConcatEmptySeq DEF Fragments
<1> QED
  BY <1>1 DEF PartOf

LEMMA PartOfIsPrefix ==
    ASSUME NEW a \in Fragments, NEW b, PartOf(a, b)
    PROVE  IsPrefix(a, b)
  BY PrefixOf DEF PartOf, Fragments

LEMMA TurnGrownPart ==
    ASSUME NEW s, NEW u, TurnGrown(s, u), NEW i \in Items
    PROVE  PartOf(s.content[i], u.content[i])
  BY CleanFacts DEF TurnGrown, PartOf

\* The turn the client will know of is part of the turn the upstream has sent,
\* and all of it once the client will know it finished.
LEMMA ChainGrows ==
    ASSUME NEW s \in TurnStates, NEW m \in TurnStates, NEW l \in TurnStates,
           NEW u \in TurnStates, Converted(s, m), Lifted(m, l), Remaining(l, u),
           UpstreamMatches(u), NEW i \in Items
    PROVE  /\ PartOf(s.content[i], told.content[i])
           /\ s.fin => s.content[i] = told.content[i] /\ s.items = told.items
<1>1. TurnGrown(s, m) /\ TurnGrown(l, u)
  BY LinksGrow
<1>2. /\ s.content[i] \in Clean /\ m.content[i] \in Clean /\ l.content[i] \in Clean
      /\ u.items = told.items /\ u.content[i] = told.content[i]
  BY DEF TurnStates, TurnRecords, UpstreamMatches
<1>3. /\ s.content[i] \in Fragments /\ m.content[i] \in Fragments /\ l.content[i] \in Fragments
  BY <1>2, CleanFacts
<1>4. PartOf(m.content[i], l.content[i])
  <2>1. CASE i \in HeldIds
    <3>1. i \notin m.items
      BY <2>1 DEF Lifted
    <3>2. m.content[i] = <<>>
      BY <3>1 DEF TurnStates, Sound
    <3> QED
      BY <1>3, <3>2, PartOfSelf
  <2>2. CASE i \notin HeldIds
    <3>1. l.content[i] = m.content[i]
      BY <2>2 DEF Lifted
    <3> QED
      BY <1>3, <3>1, PartOfSelf
  <2> QED
    BY <2>1, <2>2
<1>5. PartOf(s.content[i], m.content[i]) /\ PartOf(l.content[i], u.content[i])
  BY <1>1, TurnGrownPart
<1>6. PartOf(s.content[i], told.content[i])
  <2>1. PartOf(s.content[i], l.content[i])
    BY <1>3, <1>4, <1>5, PartOfPart
  <2>2. PartOf(s.content[i], u.content[i])
    BY <1>3, <1>5, <2>1, PartOfPart
  <2> QED
    BY <1>2, <2>2
<1>7. ASSUME s.fin
      PROVE  s.content[i] = told.content[i] /\ s.items = told.items
  <2>1. m.fin /\ m.items = s.items /\ m.content = s.content
    BY <1>1, <1>7 DEF TurnGrown
  <2>2. HeldIds = {} /\ l.fin /\ l.items = m.items /\ l.content[i] = m.content[i]
    BY <2>1 DEF Lifted
  <2>3. u.items = l.items /\ u.content = l.content
    BY <1>1, <2>2 DEF TurnGrown
  <2> QED
    BY <1>2, <2>1, <2>2, <2>3
<1> QED
  BY <1>6, <1>7

\* The client knows nothing the upstream has not sent.
LEMMA ClientKnows ==
    ASSUME ToTypes, NEW s \in TurnStates, NEW d \in Clients, Matches(s, d), client \in Clients,
           Grown(client, d), NEW i \in Items
    PROVE  /\ PartOf(Sources(client.content[i]), s.content[i])
           /\ client.stage[i] = "done" => s.fin /\ Sources(client.content[i]) = s.content[i]
           /\ i \in Tools /\ Localized(i) /\ Rewritten(client.content[i]) => i \in persisted
<1>1. /\ client.content[i] \in Fragments /\ d.content[i] \in Fragments
      /\ s.content[i] \in Clean /\ s.content[i] \in Fragments
  BY CleanFacts DEF Clients, TurnStates, TurnRecords
<1>2. PICK x \in Fragments : d.content[i] = client.content[i] \o x
  BY DEF Grown
<1>3. ItemMatches(s, d, i)
  BY DEF Matches, ClientMatches
<1>4. PartOf(Sources(client.content[i]), Sources(d.content[i]))
  <2> DEFINE a == client.content[i]
  <2>1. a \in Fragments /\ d.content[i] = a \o x
    BY <1>1, <1>2
  <2> HIDE DEF a
  <2>2. PICK y \in Fragments : Sources(a \o x) = Sources(a) \o y
    BY <2>1, SourcesPrefix
  <2> QED
    BY <2>1, <2>2 DEF PartOf, a
<1>5. Sources(client.content[i]) \in Fragments /\ Sources(d.content[i]) \in Fragments
  BY <1>1, SourcesType
<1>6. PartOf(Sources(d.content[i]), s.content[i])
  <2>1. CASE s.fin
    <3>1. Sources(d.content[i]) = s.content[i]
      BY <1>3, <2>1 DEF ItemMatches
    <3> QED
      BY <1>1, <3>1, PartOfSelf
  <2>2. CASE ~s.fin
    <3>1. /\ d.content[i] = IF i \in s.items /\ Visible(i) THEN Raw(i) ELSE <<>>
          /\ Sources(Raw(i)) = s.content[i]
      BY <1>3, <2>2 DEF ItemMatches
    <3>2. Sources(<<>>) = <<>>
      BY DEF Sources
    <3> QED
      BY <1>1, <3>1, <3>2, PartOfSelf
  <2> QED
    BY <2>1, <2>2
<1>7. PartOf(Sources(client.content[i]), s.content[i])
  BY <1>4, <1>5, <1>6, PartOfPart
<1>8. client.stage[i] = "done" => s.fin /\ Sources(client.content[i]) = s.content[i]
  <2> SUFFICES ASSUME client.stage[i] = "done"
               PROVE  s.fin /\ Sources(client.content[i]) = s.content[i]
    OBVIOUS
  <2>1. d.stage[i] = "done" /\ d.content[i] = client.content[i]
    BY DEF Grown
  <2>2. s.fin
    BY <1>3, <2>1 DEF ItemMatches
  <2> QED
    BY <1>3, <2>1, <2>2 DEF ItemMatches
<1>9. Rewritten(client.content[i]) => Rewritten(d.content[i])
  <2> SUFFICES ASSUME Rewritten(client.content[i])
               PROVE  Rewritten(d.content[i])
    OBVIOUS
  <2>1. client.content[i] # <<>>
    BY DEF Rewritten
  <2> QED
    BY <1>1, <1>2, <2>1, SourcesAfter
<1> QED
  BY <1>3, <1>7, <1>8, <1>9 DEF ItemMatches

Safe ==
    /\ ContentIsFaithful /\ NativeCallHasMapping
    /\ Quirks = {} => UsageIsMerged

\* While the turn goes on, the client has nothing wrong.
LEMMA ChainSafe == IInv /\ Live => Safe
<1> SUFFICES ASSUME IInv, Live
             PROVE  Safe
  OBVIOUS
<1>1. /\ QueueTypes /\ ToTypes /\ client \in Clients
      /\ Chain
  BY DEF IInv, Types
<1>2. PICK s \in TurnStates, m \in TurnStates, l \in TurnStates, u \in TurnStates :
         Links(s, m, l, u)
  BY <1>1 DEF Chain
<1>3. /\ Heard(s) /\ Converted(s, m) /\ Lifted(m, l) /\ Remaining(l, u) /\ UpstreamMatches(u)
  BY <1>2 DEF Links
<1>4. PICK d \in Clients : Leads(Steps, client, Queue, d) /\ Matches(s, d)
  BY <1>3 DEF Heard
<1>5. Queue \in Seq(Events)
  BY <1>1, QueueType
<1>6. Grown(client, d)
  BY <1>1, <1>4, <1>5, LeadsGrows
<1>7. ASSUME NEW i \in Items
      PROVE  /\ PartOf(Sources(client.content[i]), told.content[i])
             /\ Sources(client.content[i]) \in Fragments
             /\ client.stage[i] = "done" => Sources(client.content[i]) = told.content[i]
             /\ i \in Tools /\ Localized(i) /\ Rewritten(client.content[i]) => i \in persisted
  <2>1. /\ PartOf(Sources(client.content[i]), s.content[i])
        /\ client.stage[i] = "done" => s.fin /\ Sources(client.content[i]) = s.content[i]
        /\ i \in Tools /\ Localized(i) /\ Rewritten(client.content[i]) => i \in persisted
    BY <1>1, <1>4, <1>6, ClientKnows
  <2>2. /\ PartOf(s.content[i], told.content[i])
        /\ s.fin => s.content[i] = told.content[i]
    BY <1>3, ChainGrows
  <2>3. client.content[i] \in Fragments
    BY <1>1 DEF Clients
  <2>4. Sources(client.content[i]) \in Fragments
    BY <2>3, SourcesType
  <2> QED
    BY <2>1, <2>2, <2>4, PartOfPart
<1>8. ASSUME client.phase = "completed"
      PROVE  s.end /\ client.listed = s.items /\ (Quirks = {} => s.usage \subseteq client.usage)
  <2>1. d = client
    BY <1>4, <1>5, <1>8, NothingAfter
  <2>2. s.end
    BY <1>4, <1>8, <2>1 DEF Matches, ClientMatches
  <2> QED
    BY <1>4, <2>1, <2>2 DEF Matches, ClientMatches
<1>9. ContentIsFaithful
  <2>1. \A i \in Items :
           IF client.stage[i] = "done"
           THEN Sources(client.content[i]) = told.content[i]
           ELSE IsPrefix(Sources(client.content[i]), told.content[i])
    BY <1>7, PartOfIsPrefix
  <2>2. client.phase = "completed" => client.listed = told.items
    <3> SUFFICES ASSUME client.phase = "completed"
                 PROVE  client.listed = told.items
      OBVIOUS
    <3>1. s.fin
      BY <1>8 DEF TurnStates, Sound
    <3>2. s.items = told.items
      BY <1>3, <3>1, ChainGrows, Names
    <3> QED
      BY <1>8, <3>2
  <2> QED
    BY <2>1, <2>2 DEF ContentIsFaithful
<1>10. NativeCallHasMapping
  BY <1>7, Names DEF NativeCallHasMapping, Rewritten
<1>11. Quirks = {} => UsageIsMerged
  <2> SUFFICES ASSUME Quirks = {}, client.phase = "completed"
               PROVE  told.usage \subseteq client.usage
    BY DEF UsageIsMerged
  <2>1. s.end /\ s.usage \subseteq client.usage
    BY <1>8
  <2>2. TurnGrown(s, m) /\ TurnGrown(l, u)
    BY <1>3, LinksGrow
  <2>3. m.end /\ m.usage = s.usage
    BY <2>1, <2>2 DEF TurnGrown
  <2>4. l.end /\ l.usage = m.usage
    BY <1>3, <2>3 DEF Lifted
  <2>5. u.usage = l.usage
    BY <2>2, <2>4 DEF TurnGrown
  <2>6. told.usage \subseteq u.usage
    BY <1>3 DEF UpstreamMatches
  <2> QED
    BY <2>1, <2>3, <2>4, <2>5, <2>6
<1> QED
  BY <1>9, <1>10, <1>11 DEF Safe

\* A normal end tells the client of the finish, or of none.
LEMMA CompleteAgrees ==
    ASSUME IInv, Complete
    PROVE  saw_finish <=> client.phase = "completed"
<1>1. /\ generator = "finalized" /\ eof /\ events = <<>> /\ ~(yielded < Len(output)) /\ Live
  BY DEF Complete, Delivering, Live
<1>2. /\ QueueTypes /\ ir = <<>> /\ transformed = <<>> /\ buffer = <<>> /\ Chain
  BY <1>1 DEF IInv, Types, Drained
<1>3. PICK s \in TurnStates, m \in TurnStates, l \in TurnStates, u \in TurnStates :
         Links(s, m, l, u)
  BY <1>2 DEF Chain
<1>4. /\ Heard(s) /\ Converted(s, m) /\ Lifted(m, l) /\ Remaining(l, u)
      /\ (m.fin <=> saw_finish) /\ (u.fin => u.end)
  BY <1>1, <1>3 DEF Links
<1>5. s = m /\ l = u
  BY <1>2, <1>4, NothingConverting, NothingRemaining
<1>6. PICK d \in Clients : Leads(Steps, client, Queue, d) /\ Matches(s, d)
  BY <1>4 DEF Heard
<1>7. Queue = <<>>
  <2>1. yielded = Len(output)
    <3>1. Len(output) \in Nat /\ yielded \in 0..Len(output)
      BY <1>2, LenProperties DEF QueueTypes
    <3> QED
      BY <1>1, <3>1
  <2>2. Queue = EventsAt(input, <<>>) \o <<>>
    BY <1>1, <1>2, <2>1, QueueType
  <2>3. EventsAt(input, <<>>) = <<>>
    <3>1. Len(<<>>) = 0 /\ 1..0 = {}
      OBVIOUS
    <3> QED
      BY <3>1, EmptySeq DEF EventsAt
  <2> QED
    BY <2>2, <2>3, EmptySeq, ConcatEmptySeq
<1>8. d = client
  BY <1>6, <1>7, LeadsNowhere
<1>9. client.phase = "completed" <=> s.end
  BY <1>6, <1>8 DEF Matches, ClientMatches
<1>10. /\ l.fin = m.fin /\ l.end = m.end /\ (l.end => l.fin)
  BY <1>4 DEF Lifted, TurnStates, Sound
<1> QED
  BY <1>4, <1>5, <1>9, <1>10

LEMMA SafeSame ==
    ASSUME Safe, UNCHANGED <<client, told>>, persisted \subseteq persisted'
    PROVE  Safe'
  BY DEF Safe, ContentIsFaithful, NativeCallHasMapping, UsageIsMerged, Localized

\* The actions after which the generator still runs.
LEMMA StaysLive ==
    ASSUME IInv, FromProvider \/ Convert \/ Feed \/ Yield \/ UpstreamEOF \/ FlushBuffer
    PROVE  Live'
<1>1. CASE FromProvider
  BY <1>1 DEF FromProvider, AwaitsChunk, Live
<1>2. CASE HoldCall \/ HoldArguments \/ FlushCalls \/ PassOn
  <2>1. ir # <<>> /\ generator' = generator
    BY <1>2 DEF HoldCall, HoldArguments, FlushCalls, PassOn, AtIR, Took
  <2> QED
    BY <2>1 DEF IInv, Drained, Live
<1>3. CASE ToProvider
  <2>1. transformed # <<>> /\ generator' = generator
    BY <1>3 DEF ToProvider, AtType, handle_stream_start_to_p, handle_text_delta_to_p,
         handle_reasoning_delta_to_p, handle_tool_call_start_to_p,
         handle_tool_call_delta_to_p, handle_finish_to_p, handle_usage_to_p,
         handle_stream_end_to_p, Emit
  <2> QED
    BY <2>1 DEF IInv, Drained, Live
<1>4. CASE Feed \/ Yield \/ UpstreamEOF \/ FlushBuffer
  BY <1>4 DEF Feed, Yield, UpstreamEOF, FlushBuffer, Live
<1> QED
  BY <1>1, <1>2, <1>3, <1>4 DEF Convert

\* The steps that break off or end a turn tell the client nothing.
LEMMA LeavesClient ==
    ASSUME PersistFails \/ UpstreamError \/ Cancel \/ Complete \/ UNCHANGED vars
    PROVE  UNCHANGED <<client, told>> /\ persisted \subseteq persisted'
<1>1. CASE PersistFails
  BY <1>1 DEF PersistFails
<1>2. CASE UpstreamError \/ Cancel \/ Complete
  BY <1>2 DEF UpstreamError, Cancel, Complete, adaptVars
<1>3. CASE UNCHANGED vars
  BY <1>3 DEF vars, adaptVars
<1> QED
  BY <1>1, <1>2, <1>3

SafeInv == IInv /\ Safe /\ CompletedIffFinished

\* What the client has is right from then on: once a turn has ended nobody adds to it.
LEMMA SafeStep == SafeInv /\ [Next]_vars => SafeInv'
<1> SUFFICES ASSUME SafeInv, [Next]_vars
             PROVE  SafeInv'
  OBVIOUS
<1>1. IInv /\ Safe /\ CompletedIffFinished
  BY DEF SafeInv
<1>2. IInv'
  BY <1>1, StepInv
<1>3. (IInv /\ Live => Safe)'
  BY ChainSafe, PTL
<1>4. \/ FromProvider \/ Convert \/ Feed \/ Yield \/ UpstreamEOF \/ FlushBuffer
      \/ PersistFails \/ UpstreamError \/ Cancel \/ Complete \/ UNCHANGED vars
  BY DEF Next, Stopped
<1>5. CASE FromProvider \/ Convert \/ Feed \/ Yield \/ UpstreamEOF \/ FlushBuffer
  <2>1. Live'
    BY <1>1, <1>5, StaysLive
  <2>2. CompletedIffFinished'
    BY <2>1 DEF CompletedIffFinished, Live
  <2> QED
    BY <1>2, <1>3, <2>1, <2>2 DEF SafeInv
<1>6. CASE PersistFails \/ UpstreamError \/ Cancel \/ Complete \/ UNCHANGED vars
  <2>1. Safe'
    BY <1>1, <1>6, LeavesClient, SafeSame
  <2>2. CompletedIffFinished'
    <3>1. CASE PersistFails \/ UpstreamError \/ Cancel
      <4>1. generator' \in {"error", "cancelled"}
        BY <3>1 DEF PersistFails, UpstreamError, Cancel
      <4> QED
        BY <4>1 DEF CompletedIffFinished
    <3>2. CASE Complete
      <4>1. saw_finish <=> client.phase = "completed"
        BY <1>1, <3>2, CompleteAgrees
      <4>2. saw_finish' = saw_finish /\ client' = client
        BY <3>2 DEF Complete, fromVars
      <4> QED
        BY <4>1, <4>2 DEF CompletedIffFinished
    <3>3. CASE UNCHANGED vars
      BY <1>1, <3>3 DEF CompletedIffFinished, vars, fromVars
    <3> QED
      BY <1>6, <3>1, <3>2, <3>3
  <2> QED
    BY <1>2, <2>1, <2>2 DEF SafeInv
<1> QED
  BY <1>4, <1>5, <1>6

LEMMA SafeHolds == Spec => []SafeInv
<1>1. Init => SafeInv
  <2> SUFFICES ASSUME Init
               PROVE  SafeInv
    OBVIOUS
  <2>1. IInv /\ generator = "running"
    BY InitInv DEF Init
  <2>2. Safe
    BY <2>1, ChainSafe DEF Live
  <2> QED
    BY <2>1, <2>2 DEF SafeInv, CompletedIffFinished
<1> QED
  BY <1>1, SafeStep, PTL DEF Spec

LEMMA TypesGive == IInv => TypeOK
<1> SUFFICES ASSUME IInv
             PROVE  TypeOK
  OBVIOUS
<1>1. /\ QueueTypes /\ FlagTypes /\ UpstreamTypes /\ ToTypes
      /\ client \in Clients
      /\ pending \in Seq([id : Tools, args : Clean]) /\ persisted \subseteq Tools
      /\ generator \in Generators
  BY DEF IInv, Types
<1>2. Clean \subseteq Fragments
  BY CleanFacts
<1>3. /\ up \in [n : 0..MaxChunks, order : Seq(Tools), finished : BOOLEAN, last : BOOLEAN]
      /\ from_started \in BOOLEAN /\ from_ended \in BOOLEAN /\ saw_finish \in BOOLEAN
      /\ from_order \in Seq(Tools)
  BY <1>1 DEF UpstreamTypes
<1>4. told \in [items : SUBSET Items, content : [Items -> Fragments], usage : SUBSET (1..MaxChunks)]
  BY <1>1, <1>2 DEF UpstreamTypes
<1>5. pending \in Seq([id : Tools, args : Fragments])
  <2>1. [id : Tools, args : Clean] \subseteq [id : Tools, args : Fragments]
    BY <1>2
  <2> QED
    BY <1>1, <2>1, SeqMonotonic
<1>6. /\ to.order \in Seq(Tools) /\ to.args \in [Tools -> Fragments]
      /\ to.accumulated_text \in Fragments /\ to.accumulated_reasoning \in Fragments
      /\ to.pending_usage \subseteq 0..MaxChunks
  BY <1>1 DEF ToTypes, Usages
<1>7. ASSUME NEW e \in ToSet(events)
      PROVE  e.item \in Items \cup {NoId} /\ e.kind \in PB!Kinds
  <2>1. e \in Events
    BY <1>1 DEF QueueTypes, ToSet
  <2>2. e.item \in Items \cup {NoId}
    BY <2>1, EventKinds, ItemEventFacts, CreatedFacts, CompletedFacts
  <2> QED
    BY <2>1, <2>2, KindFacts
<1>8. yielded \in 0..Len(output)
  BY <1>1 DEF QueueTypes
<1>9. client.content \in [Items -> Fragments] /\ client.listed \subseteq Items
  BY <1>1 DEF Clients
<1> QED
  BY <1>1, <1>3, <1>4, <1>5, <1>6, <1>7, <1>8, <1>9 DEF TypeOK, Generators

LEMMA PhasesGive == IInv => PhaseMatchesTurn
<1> SUFFICES ASSUME IInv, NEW p \in 1..yielded
             PROVE  /\ output[p].phase = "final_answer" => up.order = <<>>
                    /\ output[p].phase = "commentary" => up.order # <<>>
  BY DEF PhaseMatchesTurn
<1>1. p \in 1..Len(output)
  <2>1. Len(output) \in Nat /\ yielded \in 0..Len(output)
    BY LenProperties DEF IInv, Types, QueueTypes
  <2> QED
    BY <2>1
<1> QED
  BY <1>1 DEF IInv, Phases

\* The state of a streamed turn always has its type: the upstream's progress, both stream
\* contexts, the held calls, the queues, the phase buffer and the client.
THEOREM TypeCorrect == Spec => []TypeOK
  BY InvHolds, TypesGive, PTL

\* The client has of every item a prefix of what the upstream sent for it, and all of it,
\* under the item's own id, once it is told that the item is done or the response complete:
\* nothing is lost, doubled or mixed up by the two converters, the held calls and the buffer
\* (pipeline.py, converters/openai_chat, converters/openai_responses, tool_adaptation.py).
THEOREM ContentCorrect == Spec => []ContentIsFaithful
<1>1. SafeInv => ContentIsFaithful
  BY DEF SafeInv, Safe
<1> QED
  BY <1>1, SafeHolds, PTL

\* A call the client sees in its native form has its mapping in the store by then, so the
\* next request can translate it back (proxy.py, _persist_tool_mapping).
THEOREM MappingCorrect == Spec => []NativeCallHasMapping
<1>1. SafeInv => NativeCallHasMapping
  BY DEF SafeInv, Safe
<1> QED
  BY <1>1, SafeHolds, PTL

\* What the client reads as commentary is of a turn that calls a tool, what it reads as the
\* final answer of one that calls none (stream_phase_buffer.py as proxy.py uses it).
THEOREM PhaseCorrect == Spec => []PhaseMatchesTurn
  BY InvHolds, PhasesGive, PTL

\* A stream that the generator ends normally was completed for the client exactly if the
\* upstream had finished (proxy.py, _stream_event_generator).
THEOREM CompletionCorrect == Spec => []CompletedIffFinished
<1>1. SafeInv => CompletedIffFinished
  BY DEF SafeInv
<1> QED
  BY <1>1, SafeHolds, PTL

\* Usage that an upstream keeping to the protocol sends with or after the finish is in
\* response.completed (converter.py, handle_usage_to_p and handle_stream_end_to_p). With
\* usage before the finish it is not: that is the divergence of the run `usage`.
THEOREM UsageCorrect == ASSUME Quirks = {} PROVE Spec => []UsageIsMerged
<1>1. SafeInv => UsageIsMerged
  BY DEF SafeInv, Safe
<1> QED
  BY <1>1, SafeHolds, PTL

LEMMA ImplementsInit == Init => Protocol!Init
  BY DEF Init, Protocol!Init, Protocol!Items, Items

\* A step of the bridge is a step of the protocol's reader when an event is yielded, and none
\* otherwise.
LEMMA ImplementsStep == IInv /\ [Next]_vars => [Protocol!Next]_Protocol!vars
<1> SUFFICES ASSUME IInv, [Next]_vars
             PROVE  Protocol!Next \/ UNCHANGED <<yielded, client>>
  BY DEF Protocol!vars
<1>1. CASE Yield
  <2>1. QueueTypes /\ Chain
    BY <1>1 DEF IInv, Types, Yield
  <2>2. PICK s \in TurnStates, m \in TurnStates, l \in TurnStates, u \in TurnStates :
           Links(s, m, l, u)
    BY <2>1 DEF Chain
  <2>3. PICK d \in Clients : Leads(Steps, client, Queue, d)
    BY <2>2 DEF Links, Heard
  <2>4. PICK e : <<client, e, client'>> \in Steps /\ yielded' = yielded + 1
    BY <1>1, <2>1, <2>3, YieldQueue
  <2> QED
    BY <2>4, ProtocolStep
<1>2. CASE FromProvider \/ PersistFails \/ Feed \/ UpstreamEOF \/ FlushBuffer \/ Complete
           \/ UpstreamError \/ Cancel
  BY <1>2 DEF FromProvider, PersistFails, Feed, UpstreamEOF, FlushBuffer, Complete,
              UpstreamError, Cancel
<1>3. CASE HoldCall \/ HoldArguments \/ FlushCalls \/ PassOn
  BY <1>3 DEF HoldCall, HoldArguments, FlushCalls, PassOn, Took
<1>4. CASE ToProvider
  BY <1>4 DEF ToProvider, handle_stream_start_to_p, handle_text_delta_to_p,
         handle_reasoning_delta_to_p, handle_tool_call_start_to_p,
         handle_tool_call_delta_to_p, handle_finish_to_p, handle_usage_to_p,
         handle_stream_end_to_p, Emit
<1>5. CASE Stopped \/ UNCHANGED vars
  BY <1>5 DEF Stopped, vars
<1> QED
  BY <1>1, <1>2, <1>3, <1>4, <1>5 DEF Next, Convert

\* The refinement: whatever the upstream sends, and wherever the turn is broken off, what the
\* client reads is a behaviour of ResponsesProtocol.
THEOREM ProtocolCorrect == Spec => ImplementsProtocol
<1>1. Spec => Protocol!Init /\ [][Protocol!Next]_Protocol!vars
  BY ImplementsInit, ImplementsStep, InvHolds, PTL DEF Spec
<1> QED
  BY <1>1 DEF ImplementsProtocol, Protocol!Spec
=============================================================================
