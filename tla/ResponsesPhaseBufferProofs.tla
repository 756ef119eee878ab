--------------------- MODULE ResponsesPhaseBufferProofs ---------------------
(***************************************************************************)
(* Proofs about ResponsesPhaseBuffer, for every set of item ids and sizes, *)
(* every pair of limits and streams of any length.                         *)
(***************************************************************************)
EXTENDS ResponsesPhaseBuffer, SequenceTheorems, WellFoundedInduction, TLAPS

Entry == [ev : Positions, phase : Phases]

\* A step takes one event in: what it does to the history of inputs.
LEMMA ReceiveFacts ==
    ASSUME TypeOK, NEW e \in Event, Receive(e)
    PROVE  /\ input' \in Seq(Event)
           /\ Len(input) \in Nat
           /\ Len(input') = Len(input) + 1
           /\ Positions \subseteq Positions'
           /\ Position \in Positions'
           /\ Position \notin Positions
           /\ \A i \in Positions : input'[i] = input[i]
           /\ input'[Position] = e
           /\ ~eof /\ ~eof'
BY AppendProperties DEF TypeOK, Receive, Positions, Position

\* The released buffer is a sequence of entries, one per delayed event.
LEMMA FlushedFacts ==
    ASSUME TypeOK, NEW phase \in Phases
    PROVE  /\ flushed(phase) \in Seq(Entry)
           /\ Len(buffer) \in Nat
           /\ Len(flushed(phase)) = Len(buffer)
           /\ \A b \in 1..Len(buffer) :
                 /\ buffer[b] \in Positions
                 /\ flushed(phase)[b] = with_message_phase(buffer[b], input[buffer[b]], phase)
<1>1. Len(buffer) \in Nat /\ \A b \in 1..Len(buffer) : buffer[b] \in Positions
  BY DEF TypeOK
<1>2. \A b \in 1..Len(buffer) :
         with_message_phase(buffer[b], input[buffer[b]], phase) \in Entry
  BY <1>1 DEF with_message_phase, Entry, Phases
<1>3. flushed(phase) \in [1..Len(buffer) -> Entry]
  BY <1>2 DEF flushed
<1>4. flushed(phase) \in Seq(Entry) /\ Len(flushed(phase)) = Len(buffer)
  BY <1>1, <1>3
<1> QED
  BY <1>1, <1>4 DEF flushed

\* Releasing the buffer and then one entry: where each entry ends up.
LEMMA ReleaseFacts ==
    ASSUME TypeOK, NEW phase \in Phases, NEW entry, NEW e \in Event,
           Receive(e), ReleaseBefore(phase, entry), entry \in Entry'
    PROVE  /\ output' \in Seq(Entry')
           /\ Len(output) \in Nat /\ Len(buffer) \in Nat
           /\ Len(output') = Len(output) + Len(buffer) + 1
           /\ \A p \in 1..Len(output) : output'[p] = output[p]
           /\ \A b \in 1..Len(buffer) :
                 output'[Len(output) + b]
                    = with_message_phase(buffer[b], input[buffer[b]], phase)
           /\ output'[Len(output) + Len(buffer) + 1] = entry
<1>1. Entry \subseteq Entry'
  BY ReceiveFacts DEF Entry
<1>2. output \in Seq(Entry) /\ flushed(phase) \in Seq(Entry)
  BY FlushedFacts DEF TypeOK, Entry
<1>3. output \in Seq(Entry') /\ flushed(phase) \in Seq(Entry')
  BY <1>1, <1>2, SeqMonotonic
<1> DEFINE released == output \o flushed(phase)
<1>4. /\ released \in Seq(Entry')
      /\ Len(released) = Len(output) + Len(flushed(phase))
      /\ \A i \in 1..Len(output) + Len(flushed(phase)) :
            released[i] = IF i <= Len(output) THEN output[i]
                          ELSE flushed(phase)[i - Len(output)]
  BY <1>3, ConcatProperties
<1>5. output' = Append(released, entry)
  BY DEF ReleaseBefore
<1>6. /\ Len(flushed(phase)) = Len(buffer) /\ Len(buffer) \in Nat
      /\ \A b \in 1..Len(buffer) :
            flushed(phase)[b] = with_message_phase(buffer[b], input[buffer[b]], phase)
  BY FlushedFacts
<1>7. Len(output) \in Nat
  BY <1>2
<1> HIDE DEF released
<1>8. /\ output' \in Seq(Entry')
      /\ Len(output') = Len(released) + 1
      /\ \A i \in 1..Len(released) : output'[i] = released[i]
      /\ output'[Len(released) + 1] = entry
  BY <1>4, <1>5, AppendProperties
<1>9. \A p \in 1..Len(output) : output'[p] = output[p]
  BY <1>4, <1>6, <1>7, <1>8
<1>10. \A b \in 1..Len(buffer) :
          output'[Len(output) + b] = with_message_phase(buffer[b], input[buffer[b]], phase)
  <2> TAKE b \in 1..Len(buffer)
  <2>1. Len(output) + b \in 1..Len(released)
    BY <1>4, <1>6, <1>7
  <2>2. released[Len(output) + b] = flushed(phase)[b]
    BY <1>4, <1>6, <1>7
  <2> QED BY <1>6, <1>8, <2>1, <2>2
<1> QED
  BY <1>4, <1>6, <1>7, <1>8, <1>9, <1>10

\* Returning one entry at once.
LEMMA ReturnFacts ==
    ASSUME TypeOK, NEW entry, NEW e \in Event,
           Receive(e), Return(entry), entry \in Entry'
    PROVE  /\ output' \in Seq(Entry')
           /\ Len(output) \in Nat
           /\ Len(output') = Len(output) + 1
           /\ \A p \in 1..Len(output) : output'[p] = output[p]
           /\ output'[Len(output) + 1] = entry
<1>1. Entry \subseteq Entry'
  BY ReceiveFacts DEF Entry
<1>2. output \in Seq(Entry')
  BY <1>1, SeqMonotonic DEF TypeOK, Entry
<1> QED
  BY <1>2, AppendProperties DEF Return

\* flush() releases the buffer alone.
LEMMA FlushFacts ==
    ASSUME TypeOK, flush
    PROVE  /\ output' \in Seq(Entry)
           /\ Len(output) \in Nat /\ Len(buffer) \in Nat
           /\ Len(output') = Len(output) + Len(buffer)
           /\ \A p \in 1..Len(output) : output'[p] = output[p]
           /\ \A b \in 1..Len(buffer) :
                 output'[Len(output) + b]
                    = with_message_phase(buffer[b], input[buffer[b]], "none")
<1>1. "none" \in Phases
  BY DEF Phases
<1>2. output \in Seq(Entry) /\ flushed("none") \in Seq(Entry)
  BY <1>1, FlushedFacts DEF TypeOK, Entry
<1>3. /\ output' \in Seq(Entry)
      /\ Len(output') = Len(output) + Len(flushed("none"))
      /\ \A i \in 1..Len(output) + Len(flushed("none")) :
            output'[i] = IF i <= Len(output) THEN output[i]
                         ELSE flushed("none")[i - Len(output)]
  BY <1>2, ConcatProperties DEF flush
<1>4. /\ Len(flushed("none")) = Len(buffer) /\ Len(buffer) \in Nat
      /\ \A b \in 1..Len(buffer) :
            flushed("none")[b] = with_message_phase(buffer[b], input[buffer[b]], "none")
  BY <1>1, FlushedFacts
<1>5. Len(output) \in Nat
  BY <1>2
<1>6. \A p \in 1..Len(output) : output'[p] = output[p]
  BY <1>3, <1>4, <1>5
<1>7. \A b \in 1..Len(buffer) :
         output'[Len(output) + b] = with_message_phase(buffer[b], input[buffer[b]], "none")
  BY <1>3, <1>4, <1>5
<1> QED
  BY <1>3, <1>4, <1>5, <1>6, <1>7

\* The entry of the event just received is well formed.
LEMMA EntryFacts ==
    ASSUME TypeOK, NEW e \in Event, Receive(e), NEW phase \in Phases
    PROVE  /\ with_message_phase(Position, e, phase) \in Entry'
           /\ with_message_phase(Position, e, phase).ev = Position
           /\ [ev |-> Position, phase |-> "none"] \in Entry'
BY ReceiveFacts DEF with_message_phase, Entry, Phases

\* The branches of process() leave the history of outputs, the buffer and the
\* flags in one of these three ways.
Released(e) == \E phase \in Phases, entry \in Entry' :
                  entry.ev = Position /\ ReleaseBefore(phase, entry)
Returned(e) == \E entry \in Entry' :
                  /\ entry.ev = Position
                  /\ Return(entry)
                  /\ UNCHANGED flags
                  /\ passthrough \/ terminal_seen \/ NotDelayed(e)

\* Whatever its branch, process(e) receives e and then releases, returns or
\* delays it.
LEMMA StepForms ==
    ASSUME TypeOK, NEW e \in Event, process(e)
    PROVE  /\ Receive(e)
           /\ Released(e) \/ Returned(e) \/ Delay(e)
           /\ commentary' \in BOOLEAN /\ terminal_seen' \in BOOLEAN /\ passthrough' \in BOOLEAN
<1>1. Receive(e)
  BY DEF process, PassThrough, AfterTerminal, ToolSignal, Terminal, Overflow, Delay, NotDelayed
<1>2. "none" \in Phases /\ "commentary" \in Phases /\ "final_answer" \in Phases
  BY DEF Phases
<1>3. [ev |-> Position, phase |-> "none"] \in Entry'
  BY <1>1, <1>2, EntryFacts
<1>4. \A phase \in Phases : /\ with_message_phase(Position, e, phase) \in Entry'
                            /\ with_message_phase(Position, e, phase).ev = Position
  BY <1>1, EntryFacts
<1>5. /\ annotate_if_needed(Position, e) \in Entry'
      /\ annotate_if_needed(Position, e).ev = Position
  BY <1>2, <1>4 DEF annotate_if_needed
<1>6. CASE PassThrough(e)
  BY <1>1, <1>3, <1>6 DEF PassThrough, Returned, flags, TypeOK
<1>7. CASE AfterTerminal(e)
  BY <1>1, <1>5, <1>7 DEF AfterTerminal, Returned, flags, TypeOK
<1>8. CASE ToolSignal(e)
  BY <1>1, <1>2, <1>5, <1>8 DEF ToolSignal, Released, TypeOK
<1>9. CASE Terminal(e)
  <2> DEFINE phase == IF commentary THEN "commentary" ELSE final_buffer_phase_for_terminal(e)
  <2>1. phase \in Phases
    BY <1>2 DEF final_buffer_phase_for_terminal
  <2>2. ReleaseBefore(phase, with_message_phase(Position, e, phase))
    BY <1>9 DEF Terminal
  <2> HIDE DEF phase
  <2>3. Released(e)
    BY <1>4, <2>1, <2>2 DEF Released
  <2> QED BY <1>1, <1>9, <2>3 DEF Terminal, TypeOK
<1>10. CASE Overflow(e)
  BY <1>1, <1>2, <1>3, <1>10 DEF Overflow, Released, TypeOK
<1>11. CASE Delay(e)
  BY <1>1, <1>11 DEF Delay, flags, TypeOK
<1>12. CASE NotDelayed(e)
  <2>1. Return(annotate_if_needed(Position, e)) /\ UNCHANGED flags
    BY <1>12 DEF NotDelayed
  <2>2. Returned(e)
    BY <1>5, <1>12, <2>1 DEF Returned
  <2> QED BY <1>1, <1>12, <2>2 DEF NotDelayed, flags, TypeOK
<1> QED
  BY <1>6, <1>7, <1>8, <1>9, <1>10, <1>11, <1>12 DEF process

-----------------------------------------------------------------------------
(* Type correctness. *)

\* The initial state has the right types.
LEMMA TypeInit == Init => TypeOK
<1> SUFFICES ASSUME Init PROVE TypeOK
  OBVIOUS
<1>1. /\ <<>> \in Seq(Event) /\ <<>> \in Seq(Positions)
      /\ <<>> \in Seq([ev : Positions, phase : Phases])
  BY EmptySeq
<1> QED
  BY <1>1 DEF Init, TypeOK

\* Every step keeps the types.
LEMMA TypeNext == TypeOK /\ [Next]_vars => TypeOK'
<1> SUFFICES ASSUME TypeOK, [Next]_vars PROVE TypeOK'
  OBVIOUS
<1>1. ASSUME NEW e \in Event, process(e) PROVE TypeOK'
  <2>1. Receive(e) /\ (Released(e) \/ Returned(e) \/ Delay(e))
    BY <1>1, StepForms
  <2>2. /\ input' \in Seq(Event) /\ eof' \in BOOLEAN
        /\ Positions \subseteq Positions' /\ Position \in Positions'
    BY <2>1, ReceiveFacts DEF TypeOK, Receive
  <2>3. commentary' \in BOOLEAN /\ terminal_seen' \in BOOLEAN /\ passthrough' \in BOOLEAN
    BY <1>1, StepForms
  <2>4. buffer \in Seq(Positions') /\ output \in Seq(Entry')
    <3>1. Entry \subseteq Entry'
      BY <2>2 DEF Entry
    <3> QED BY <2>2, <3>1, SeqMonotonic DEF TypeOK, Entry
  <2>5. CASE Released(e)
    <3>1. output' \in Seq(Entry')
      BY <2>1, <2>5, ReleaseFacts DEF Released
    <3>2. buffer' = <<>> /\ buffered_bytes' = 0 /\ message_item_ids' = message_item_ids
      BY <2>5 DEF Released, ReleaseBefore
    <3> QED BY <2>2, <2>3, <3>1, <3>2, EmptySeq DEF TypeOK, Entry
  <2>6. CASE Returned(e)
    <3>1. output' \in Seq(Entry')
      BY <2>1, <2>6, ReturnFacts DEF Returned
    <3>2. /\ buffer' = buffer /\ buffered_bytes' = buffered_bytes
          /\ message_item_ids' = message_item_ids
      BY <2>6 DEF Returned, Return
    <3> QED BY <2>2, <2>3, <2>4, <3>1, <3>2 DEF TypeOK, Entry
  <2>7. CASE Delay(e)
    <3>1. buffer' \in Seq(Positions')
      BY <2>2, <2>4, <2>7, AppendProperties DEF Delay
    <3>2. message_item_ids' \subseteq ItemIds
      BY <2>7 DEF Delay, TypeOK, Event, MessageEvent, OtherEvent, MessageKinds, Kinds
    <3>3. buffered_bytes' \in Nat
      <4>1. e.size \in Nat
        <5>1. Sizes \subseteq Nat
          BY LimitsAssumption
        <5>2. e.size \in Sizes \cup {0}
          BY DEF Event, MessageEvent, OtherEvent
        <5>3. 0 \in Nat
          OBVIOUS
        <5> QED BY <5>1, <5>2, <5>3
      <4> QED BY <2>7, <4>1 DEF Delay, TypeOK
    <3>4. output' = output
      BY <2>7 DEF Delay
    <3> QED BY <2>2, <2>3, <2>4, <3>1, <3>2, <3>3, <3>4 DEF TypeOK, Entry
  <2> QED BY <2>1, <2>5, <2>6, <2>7
<1>2. CASE flush
  <2>1. output' \in Seq(Entry)
    BY <1>2, FlushFacts
  <2> QED BY <1>2, <2>1, EmptySeq DEF flush, flags, TypeOK, Positions, Entry
<1>3. CASE UNCHANGED vars
  BY <1>3 DEF vars, flags, TypeOK, Positions
<1> QED
  BY <1>1, <1>2, <1>3 DEF Next, Closed

\* TypeOK: the state of a phase buffer keeps the types its fields are given in
\* __init__, whatever events process() is called with.
THEOREM TypeCorrect == Spec => []TypeOK
<1>1. Init => TypeOK
  BY TypeInit
<1>2. TypeOK /\ [Next]_vars => TypeOK'
  BY TypeNext
<1> QED
  BY <1>1, <1>2, PTL DEF Spec

-----------------------------------------------------------------------------
(* Exactly-once delivery and order.  The invariant relates the delayed      *)
(* events to the ones already returned: a delayed event that was overtaken   *)
(* was overtaken only by events that may overtake it.                        *)

\* Delayed events are in the order they arrived in, belong to a message whose
\* item is remembered, and there are none once a flag is raised.
BufferShape ==
    /\ \A b, c \in 1..Len(buffer) : b < c => buffer[b] < buffer[c]
    /\ \A b \in 1..Len(buffer) :
          /\ input[buffer[b]].kind \in MessageKinds
          /\ input[buffer[b]].id \in message_item_ids \cup {NoId}
    /\ commentary \/ terminal_seen \/ passthrough \/ eof => buffer = <<>>

OvertakenFairly ==
    \A b \in 1..Len(buffer), p \in 1..Len(output) :
        buffer[b] < output[p].ev
            => ~MustKeepOrder(input[buffer[b]], input[output[p].ev])

DeliveryInv == TypeOK /\ BufferShape /\ OvertakenFairly /\ ExactlyOnce /\ OrderKept

\* What the type invariant says of places in output and in the buffer.
LEMMA Domains ==
    ASSUME TypeOK
    PROVE  /\ DOMAIN output = 1..Len(output) /\ Len(output) \in Nat
           /\ DOMAIN buffer = 1..Len(buffer) /\ Len(buffer) \in Nat
           /\ \A p \in 1..Len(output) : output[p].ev \in Positions /\ output[p].phase \in Phases
           /\ \A b \in 1..Len(buffer) : buffer[b] \in Positions
<1>1. /\ DOMAIN output = 1..Len(output) /\ Len(output) \in Nat
      /\ DOMAIN buffer = 1..Len(buffer) /\ Len(buffer) \in Nat
  BY LenProperties DEF TypeOK
<1>2. \A b \in 1..Len(buffer) : buffer[b] \in Positions
  BY ElementOfSeq DEF TypeOK
<1>3. \A p \in 1..Len(output) : output[p] \in [ev : Positions, phase : Phases]
  BY ElementOfSeq DEF TypeOK
<1> QED
  BY <1>1, <1>2, <1>3

\* with_message_phase keeps the event.
LEMMA WithPhaseEv == \A i, e, phase : with_message_phase(i, e, phase).ev = i
BY DEF with_message_phase

\* A step that empties the buffer into the output, and then returns the event
\* it received (extra = 1) or, at the end of the stream, nothing (extra = 0).
Drained(extra) ==
    /\ buffer' = <<>>
    /\ Len(output') = Len(output) + Len(buffer) + extra
    /\ \A p \in 1..Len(output) : output'[p].ev = output[p].ev
    /\ \A b \in 1..Len(buffer) : output'[Len(output) + b].ev = buffer[b]
    /\ extra = 1 => output'[Len(output) + Len(buffer) + 1].ev = Position
    /\ Positions' = IF extra = 1 THEN Positions \cup {Position} ELSE Positions
    /\ \A i \in Positions : input'[i] = input[i]

\* Releasing everything, whatever comes last, keeps order and loses nothing.
LEMMA DeliveryDrained ==
    ASSUME DeliveryInv, TypeOK', NEW extra \in {0, 1}, Drained(extra)
    PROVE  DeliveryInv'
<1> USE DEF DeliveryInv
<1> DEFINE O == Len(output)
           B == Len(buffer)
<1>2. /\ O \in Nat /\ B \in Nat
      /\ DOMAIN output = 1..O /\ DOMAIN buffer = 1..B
      /\ DOMAIN output' = 1..O + B + extra
      /\ buffer' = <<>> /\ Len(buffer') = 0 /\ DOMAIN buffer' = {}
  BY Domains, LenProperties DEF TypeOK, Drained
<1>3. /\ \A p \in 1..O : output'[p].ev = output[p].ev /\ output[p].ev \in Positions
      /\ \A b \in 1..B : output'[O + b].ev = buffer[b] /\ buffer[b] \in Positions
      /\ extra = 1 => output'[O + B + 1].ev = Position
  BY Domains DEF Drained
<1>4. /\ Positions' = IF extra = 1 THEN Positions \cup {Position} ELSE Positions
      /\ Position \notin Positions /\ Position \in Nat
      /\ \A i \in Positions : i \in Nat /\ i < Position /\ input'[i] = input[i]
  BY LenProperties DEF Positions, Position, Drained, TypeOK
<1> HIDE DEF O, B
<1>5. BufferShape' /\ OvertakenFairly'
  BY <1>2 DEF BufferShape, OvertakenFairly
<1>6. ExactlyOnce'
  <2>1. \A i \in Positions' : Delivered(i)' /\ ~Delayed(i)'
    <3> SUFFICES ASSUME NEW i \in Positions' PROVE Delivered(i)'
      BY <1>2 DEF Delayed
    <3>1. CASE i = Position
      <4>1. extra = 1 /\ O + B + 1 \in DOMAIN output'
        BY <3>1, <1>2, <1>4
      <4> QED BY <3>1, <4>1, <1>3 DEF Delivered
    <3>2. CASE i \in Positions
      <4>1. (\E p \in 1..O : output[p].ev = i) \/ (\E b \in 1..B : buffer[b] = i)
        BY <3>2, <1>2 DEF ExactlyOnce, Delivered, Delayed
      <4>2. ASSUME NEW p \in 1..O, output[p].ev = i PROVE Delivered(i)'
        <5>1. p \in DOMAIN output'
          BY <1>2
        <5>2. output'[p].ev = i
          BY <4>2, <1>3
        <5> QED BY <5>1, <5>2 DEF Delivered
      <4>3. ASSUME NEW b \in 1..B, buffer[b] = i PROVE Delivered(i)'
        <5>1. O + b \in DOMAIN output'
          BY <1>2
        <5>2. output'[O + b].ev = i
          BY <4>3, <1>3
        <5> QED BY <5>1, <5>2 DEF Delivered
      <4> QED BY <4>1, <4>2, <4>3
    <3> QED BY <3>1, <3>2, <1>4
  <2>2. \A p, q \in DOMAIN output' : output'[p].ev = output'[q].ev => p = q
    <3> SUFFICES ASSUME NEW p \in 1..O + B + extra, NEW q \in 1..O + B + extra,
                        output'[p].ev = output'[q].ev, p < q
                 PROVE  FALSE
      BY <1>2
    <3>1. p \in 1..O \/ \E b \in 1..B : p = O + b
      <4>1. p \notin 1..O => p - O \in 1..B /\ p = O + (p - O)
        BY <1>2
      <4> QED BY <4>1
    <3>2. output'[p].ev \in Positions
      BY <3>1, <1>3
    <3>3. ~(extra = 1 /\ q = O + B + 1)
      BY <3>2, <1>3, <1>4
    <3>4. q \in 1..O \/ \E c \in 1..B : q = O + c
      <4>1. q \notin 1..O => q - O \in 1..B /\ q = O + (q - O)
        BY <3>3, <1>2
      <4> QED BY <4>1
    <3>5. CASE p \in 1..O /\ q \in 1..O
      BY <3>5, <1>2, <1>3 DEF ExactlyOnce
    <3>6. ASSUME p \in 1..O, NEW c \in 1..B, q = O + c PROVE FALSE
      <4>1. Delivered(buffer[c]) /\ Delayed(buffer[c]) /\ buffer[c] \in Positions
        BY <3>6, <1>2, <1>3 DEF Delivered, Delayed
      <4> QED BY <4>1 DEF ExactlyOnce
    <3>7. ASSUME NEW b \in 1..B, p = O + b, NEW c \in 1..B, q = O + c PROVE FALSE
      <4>1. buffer[b] = buffer[c]
        BY <3>7, <1>3
      <4>2. b = c
        BY <4>1, <1>2 DEF ExactlyOnce
      <4> QED BY <3>7, <4>2, <1>2
    <3>8. p \notin 1..O => q \notin 1..O
      BY <1>2
    <3> QED BY <3>1, <3>4, <3>5, <3>6, <3>7, <3>8
  <2> QED BY <2>1, <2>2, <1>2 DEF ExactlyOnce
<1>7. OrderKept'
  <2> SUFFICES ASSUME NEW p \in 1..O + B + extra, NEW q \in 1..O + B + extra,
                      p < q, output'[q].ev < output'[p].ev
               PROVE  ~MustKeepOrder(input'[output'[q].ev], input'[output'[p].ev])
    BY <1>2 DEF OrderKept, MustKeepOrder, Barrier, SameMessage
  <2>1. p \in 1..O \/ \E b \in 1..B : p = O + b
    <3>1. p \notin 1..O => p - O \in 1..B /\ p = O + (p - O)
      BY <1>2
    <3> QED BY <3>1
  <2>2. output'[p].ev \in Positions
    BY <2>1, <1>3
  <2>3. ~(extra = 1 /\ q = O + B + 1)
    <3>1. output'[p].ev \in Nat /\ output'[p].ev < Position
      BY <2>2, <1>4
    <3> QED BY <3>1, <1>3, <1>4
  <2>4. q \in 1..O \/ \E c \in 1..B : q = O + c
    <3>1. q \notin 1..O => q - O \in 1..B /\ q = O + (q - O)
      BY <2>3, <1>2
    <3> QED BY <3>1
  <2>5. CASE p \in 1..O /\ q \in 1..O
    <3>1. /\ output'[p].ev = output[p].ev /\ output'[q].ev = output[q].ev
          /\ output[p].ev \in Positions /\ output[q].ev \in Positions
      BY <2>5, <1>3
    <3>2. ~MustKeepOrder(input[output[q].ev], input[output[p].ev])
      BY <2>5, <3>1, <1>2 DEF OrderKept
    <3> QED BY <3>1, <3>2, <1>4
  <2>6. ASSUME p \in 1..O, NEW c \in 1..B, q = O + c
        PROVE  ~MustKeepOrder(input'[output'[q].ev], input'[output'[p].ev])
    <3>1. /\ output'[p].ev = output[p].ev /\ output'[q].ev = buffer[c]
          /\ output[p].ev \in Positions /\ buffer[c] \in Positions
      BY <2>6, <1>3
    <3>2. ~MustKeepOrder(input[buffer[c]], input[output[p].ev])
      BY <2>6, <3>1 DEF OvertakenFairly, O, B
    <3> QED BY <3>1, <3>2, <1>4
  <2>7. ASSUME NEW b \in 1..B, p = O + b, NEW c \in 1..B, q = O + c PROVE FALSE
    <3>1. b < c
      BY <2>7, <1>2
    <3>2. buffer[b] < buffer[c] /\ buffer[c] < buffer[b]
      BY <2>7, <3>1, <1>3 DEF BufferShape, B
    <3> QED BY <3>2, <1>3, <1>4
  <2>8. p \notin 1..O => q \notin 1..O
    BY <1>2
  <2> QED BY <2>1, <2>4, <2>5, <2>6, <2>7, <2>8
<1> QED
  BY <1>5, <1>6, <1>7

\* A step that releases the delayed events before its own keeps DeliveryInv.
LEMMA DeliveryReleased ==
    ASSUME DeliveryInv, TypeOK', NEW e \in Event, Receive(e), Released(e)
    PROVE  DeliveryInv'
<1>1. PICK phase \in Phases, entry \in Entry' :
         entry.ev = Position /\ ReleaseBefore(phase, entry)
  BY DEF Released
<1>2. TypeOK
  BY DEF DeliveryInv
<1>3. Positions' = Positions \cup {Position} /\ \A i \in Positions : input'[i] = input[i]
  BY <1>2, ReceiveFacts DEF Positions, Position
<1>4. Drained(1)
  <2>1. buffer' = <<>>
    BY <1>1 DEF ReleaseBefore
  <2>2. /\ Len(output') = Len(output) + Len(buffer) + 1
        /\ \A p \in 1..Len(output) : output'[p] = output[p]
        /\ \A b \in 1..Len(buffer) :
              output'[Len(output) + b] = with_message_phase(buffer[b], input[buffer[b]], phase)
        /\ output'[Len(output) + Len(buffer) + 1] = entry
    BY <1>1, <1>2, ReleaseFacts
  <2> QED BY <1>1, <1>3, <2>1, <2>2, WithPhaseEv DEF Drained
<1> QED
  BY <1>4, DeliveryDrained

\* flush() keeps DeliveryInv.
LEMMA DeliveryFlushed ==
    ASSUME DeliveryInv, TypeOK', flush
    PROVE  DeliveryInv'
<1>1. TypeOK
  BY DEF DeliveryInv
<1>2. Drained(0)
  <2>1. buffer' = <<>> /\ input' = input /\ Positions' = Positions
    BY DEF flush, Positions
  <2>2. /\ Len(output') = Len(output) + Len(buffer) + 0
        /\ \A p \in 1..Len(output) : output'[p] = output[p]
        /\ \A b \in 1..Len(buffer) :
              output'[Len(output) + b] = with_message_phase(buffer[b], input[buffer[b]], "none")
    BY <1>1, FlushFacts
  <2> QED BY <2>1, <2>2, WithPhaseEv DEF Drained
<1> QED
  BY <1>2, DeliveryDrained

\* An event that is returned at once may overtake whatever is delayed.
LEMMA MayOvertake ==
    ASSUME DeliveryInv, NEW e \in Event,
           passthrough \/ terminal_seen \/ NotDelayed(e),
           NEW b \in 1..Len(buffer)
    PROVE  ~MustKeepOrder(input[buffer[b]], e)
<1> USE DEF DeliveryInv
<1>1. buffer # <<>>
  <2>1. Len(buffer) \in Nat
    BY Domains
  <2> QED BY <2>1, EmptySeq
<1>2. ~commentary /\ ~terminal_seen /\ ~passthrough
  BY <1>1 DEF BufferShape
<1>3. /\ e.kind \notin ToolKinds \cup TerminalKinds
      /\ e.kind # "message_item"
      /\ e.kind = "message_part" => e.id # NoId /\ e.id \notin message_item_ids
  BY <1>2 DEF NotDelayed, Undecided, should_buffer
<1>4. /\ input[buffer[b]].kind \in MessageKinds
      /\ input[buffer[b]].id \in message_item_ids \cup {NoId}
  BY DEF BufferShape
<1> QED
  BY <1>3, <1>4 DEF MustKeepOrder, Barrier, SameMessage, MessageKinds, ToolKinds, TerminalKinds

\* A step that returns its event at once keeps DeliveryInv: what is delayed may
\* be overtaken by it.
LEMMA DeliveryReturned ==
    ASSUME DeliveryInv, TypeOK', NEW e \in Event, Receive(e), Returned(e)
    PROVE  DeliveryInv'
<1> USE DEF DeliveryInv
<1>1. PICK entry \in Entry' :
        /\ entry.ev = Position /\ Return(entry) /\ UNCHANGED flags
        /\ passthrough \/ terminal_seen \/ NotDelayed(e)
  BY DEF Returned
<1> DEFINE O == Len(output)
           B == Len(buffer)
<1>2. /\ O \in Nat /\ B \in Nat
      /\ DOMAIN output = 1..O /\ DOMAIN buffer = 1..B /\ DOMAIN output' = 1..O + 1
      /\ buffer' = buffer /\ message_item_ids' = message_item_ids /\ eof' = eof
  <2>1. Len(output') = O + 1
    BY <1>1, ReturnFacts
  <2> QED BY <1>1, <2>1, Domains, LenProperties DEF Return, Receive, TypeOK
<1>3. /\ \A p \in 1..O : output'[p].ev = output[p].ev /\ output[p].ev \in Positions
      /\ \A b \in 1..B : buffer[b] \in Positions
      /\ output'[O + 1].ev = Position
  <2>1. \A p \in 1..O : output'[p] = output[p]
    BY <1>1, ReturnFacts
  <2>2. output'[O + 1] = entry
    BY <1>1, ReturnFacts
  <2> QED BY <1>1, <2>1, <2>2, Domains
<1>4. /\ Positions' = Positions \cup {Position} /\ Position \notin Positions /\ Position \in Nat
      /\ \A i \in Positions : i \in Nat /\ i < Position /\ input'[i] = input[i]
      /\ input'[Position] = e
  BY ReceiveFacts DEF Positions, Position
<1>5. BufferShape'
  BY <1>1, <1>2, <1>3, <1>4 DEF BufferShape, flags
<1>6. OvertakenFairly'
  <2> SUFFICES ASSUME NEW b \in 1..B, NEW p \in 1..O + 1, buffer[b] < output'[p].ev
               PROVE  ~MustKeepOrder(input'[buffer[b]], input'[output'[p].ev])
    BY <1>2 DEF OvertakenFairly, MustKeepOrder, Barrier, SameMessage
  <2>1. CASE p = O + 1
    <3>1. ~MustKeepOrder(input[buffer[b]], e)
      BY <1>1, MayOvertake
    <3> QED BY <2>1, <3>1, <1>3, <1>4
  <2>2. CASE p \in 1..O
    <3>1. output'[p].ev = output[p].ev /\ output[p].ev \in Positions /\ buffer[b] \in Positions
      BY <2>2, <1>3
    <3>2. ~MustKeepOrder(input[buffer[b]], input[output[p].ev])
      BY <2>2, <3>1 DEF OvertakenFairly
    <3> QED BY <3>1, <3>2, <1>4
  <2> QED BY <2>1, <2>2, <1>2
<1> HIDE DEF O, B
<1>7. ExactlyOnce'
  <2>1. \A i \in Positions' : Delivered(i)' <=> ~Delayed(i)'
    <3> SUFFICES ASSUME NEW i \in Positions' PROVE Delivered(i)' <=> ~Delayed(i)'
      OBVIOUS
    <3>1. CASE i = Position
      BY <3>1, <1>2, <1>3, <1>4 DEF Delivered, Delayed
    <3>2. CASE i \in Positions
      <4>1. Delivered(i)' <=> Delivered(i)
        BY <3>2, <1>2, <1>3, <1>4 DEF Delivered
      <4>2. Delayed(i)' <=> Delayed(i)
        BY <1>2 DEF Delayed
      <4> QED BY <3>2, <4>1, <4>2 DEF ExactlyOnce
    <3> QED BY <3>1, <3>2, <1>4
  <2>2. \A p, q \in DOMAIN output' : output'[p].ev = output'[q].ev => p = q
    BY <1>2, <1>3, <1>4 DEF ExactlyOnce
  <2> QED BY <2>1, <2>2, <1>2 DEF ExactlyOnce
<1>8. OrderKept'
  <2> SUFFICES ASSUME NEW p \in 1..O + 1, NEW q \in 1..O + 1,
                      p < q, output'[q].ev < output'[p].ev
               PROVE  ~MustKeepOrder(input'[output'[q].ev], input'[output'[p].ev])
    BY <1>2 DEF OrderKept, MustKeepOrder, Barrier, SameMessage
  <2>1. p \in 1..O
    BY <1>2
  <2>2. q \in 1..O
    BY <2>1, <1>2, <1>3, <1>4
  <2>3. /\ output'[p].ev = output[p].ev /\ output'[q].ev = output[q].ev
        /\ output[p].ev \in Positions /\ output[q].ev \in Positions
    BY <2>1, <2>2, <1>3
  <2>4. ~MustKeepOrder(input[output[q].ev], input[output[p].ev])
    BY <2>1, <2>2, <2>3, <1>2 DEF OrderKept
  <2> QED BY <2>3, <2>4, <1>4
<1> QED
  BY <1>5, <1>6, <1>7, <1>8

\* A step that delays its event keeps DeliveryInv: the buffer stays in the order
\* of arrival.
LEMMA DeliveryDelayed ==
    ASSUME DeliveryInv, TypeOK', NEW e \in Event, Receive(e), Delay(e)
    PROVE  DeliveryInv'
<1> USE DEF DeliveryInv
<1> DEFINE O == Len(output)
           B == Len(buffer)
<1>1. /\ O \in Nat /\ B \in Nat
      /\ DOMAIN output = 1..O /\ DOMAIN buffer = 1..B /\ DOMAIN buffer' = 1..B + 1
      /\ Len(buffer') = B + 1
      /\ output' = output /\ ~eof'
      /\ \A b \in 1..B : buffer'[b] = buffer[b] /\ buffer[b] \in Positions
      /\ buffer'[B + 1] = Position
      /\ \A p \in 1..O : output[p].ev \in Positions
  <2>1. buffer' = Append(buffer, Position) /\ output' = output
    BY DEF Delay
  <2>2. buffer \in Seq(Nat) /\ Position \in Nat
    BY SeqMonotonic, ReceiveFacts DEF TypeOK, Positions, Position
  <2> QED BY <2>1, <2>2, AppendProperties, Domains, ReceiveFacts
<1>2. /\ Positions' = Positions \cup {Position} /\ Position \notin Positions /\ Position \in Nat
      /\ \A i \in Positions : i \in Nat /\ i < Position /\ input'[i] = input[i]
      /\ input'[Position] = e
  BY ReceiveFacts DEF Positions, Position
<1>3. /\ ~commentary' /\ ~terminal_seen' /\ ~passthrough'
      /\ e.kind \in MessageKinds
      /\ e.id \in message_item_ids' \cup {NoId}
      /\ message_item_ids \subseteq message_item_ids'
  BY DEF Delay, flags, Undecided, should_buffer, MessageKinds
<1> HIDE DEF O, B
<1>4. BufferShape'
  <2>1. \A b, c \in 1..B + 1 : b < c => buffer'[b] < buffer'[c]
    <3> SUFFICES ASSUME NEW b \in 1..B + 1, NEW c \in 1..B + 1, b < c
                 PROVE  buffer'[b] < buffer'[c]
      OBVIOUS
    <3>1. b \in 1..B
      BY <1>1
    <3>2. CASE c = B + 1
      BY <3>1, <3>2, <1>1, <1>2
    <3>3. CASE c \in 1..B
      BY <3>1, <3>3, <1>1 DEF BufferShape, B
    <3> QED BY <3>2, <3>3, <1>1
  <2>2. \A b \in 1..B + 1 : /\ input'[buffer'[b]].kind \in MessageKinds
                           /\ input'[buffer'[b]].id \in message_item_ids' \cup {NoId}
    BY <1>1, <1>2, <1>3 DEF BufferShape, B
  <2> QED BY <2>1, <2>2, <1>1, <1>3 DEF BufferShape
<1>5. OvertakenFairly'
  <2> SUFFICES ASSUME NEW b \in 1..B + 1, NEW p \in 1..O, buffer'[b] < output[p].ev
               PROVE  ~MustKeepOrder(input'[buffer'[b]], input'[output[p].ev])
    BY <1>1 DEF OvertakenFairly, MustKeepOrder, Barrier, SameMessage, O
  <2>1. b \in 1..B
    BY <1>1, <1>2
  <2>2. buffer'[b] = buffer[b] /\ buffer[b] \in Positions /\ output[p].ev \in Positions
    BY <2>1, <1>1
  <2>3. ~MustKeepOrder(input[buffer[b]], input[output[p].ev])
    BY <2>1, <2>2 DEF OvertakenFairly, O, B
  <2> QED BY <2>2, <2>3, <1>2
<1>6. ExactlyOnce'
  <2>1. \A i \in Positions' : Delivered(i)' <=> ~Delayed(i)'
    <3> SUFFICES ASSUME NEW i \in Positions' PROVE Delivered(i)' <=> ~Delayed(i)'
      OBVIOUS
    <3>1. CASE i = Position
      BY <3>1, <1>1, <1>2 DEF Delivered, Delayed
    <3>2. CASE i \in Positions
      <4>1. Delayed(i)' <=> Delayed(i)
        <5>1. ASSUME Delayed(i)
              PROVE  Delayed(i)'
          <6>1. PICK b \in 1..B : buffer[b] = i
            BY <5>1, <1>1 DEF Delayed
          <6>2. b \in 1..B + 1 /\ buffer'[b] = i
            BY <6>1, <1>1
          <6> QED BY <6>2, <1>1 DEF Delayed
        <5>2. ASSUME Delayed(i)'
              PROVE  Delayed(i)
          <6>1. PICK b \in 1..B + 1 : buffer'[b] = i
            BY <5>2, <1>1 DEF Delayed
          <6>2. b # B + 1
            BY <6>1, <3>2, <1>1, <1>2
          <6>3. b \in 1..B
            BY <6>1, <6>2, <1>1
          <6> QED BY <6>1, <6>3, <1>1 DEF Delayed
        <5> QED BY <5>1, <5>2
      <4>2. Delivered(i)' <=> Delivered(i)
        BY <1>1 DEF Delivered
      <4> QED BY <3>2, <4>1, <4>2 DEF ExactlyOnce
    <3> QED BY <3>1, <3>2, <1>2
  <2>2. \A b, c \in DOMAIN buffer' : buffer'[b] = buffer'[c] => b = c
    BY <1>1, <1>2 DEF ExactlyOnce
  <2> QED BY <2>1, <2>2, <1>1 DEF ExactlyOnce
<1>7. OrderKept'
  <2> SUFFICES ASSUME NEW p \in 1..O, NEW q \in 1..O, p < q, output[q].ev < output[p].ev
               PROVE  ~MustKeepOrder(input'[output[q].ev], input'[output[p].ev])
    BY <1>1 DEF OrderKept, MustKeepOrder, Barrier, SameMessage
  <2>1. ~MustKeepOrder(input[output[q].ev], input[output[p].ev])
    BY <1>1 DEF OrderKept
  <2> QED BY <2>1, <1>1, <1>2
<1> QED
  BY <1>4, <1>5, <1>6, <1>7

\* DeliveryInv holds initially.
LEMMA DeliveryInit == Init => DeliveryInv
<1> SUFFICES ASSUME Init PROVE DeliveryInv
  OBVIOUS
<1>1. TypeOK
  BY TypeInit
<1>2. Len(buffer) = 0 /\ Len(output) = 0 /\ Len(input) = 0
  BY EmptySeq DEF Init
<1>3. DOMAIN buffer = {} /\ DOMAIN output = {} /\ Positions = {}
  BY <1>1, <1>2, Domains DEF Positions
<1> QED
  BY <1>1, <1>2, <1>3 DEF Init, DeliveryInv, BufferShape, OvertakenFairly, ExactlyOnce, OrderKept

\* DeliveryInv is inductive.
LEMMA DeliveryNext == DeliveryInv /\ [Next]_vars => DeliveryInv'
<1> SUFFICES ASSUME DeliveryInv, [Next]_vars PROVE DeliveryInv'
  OBVIOUS
<1>1. TypeOK /\ TypeOK'
  BY TypeNext DEF DeliveryInv
<1>2. ASSUME NEW e \in Event, process(e) PROVE DeliveryInv'
  <2>1. Receive(e) /\ (Released(e) \/ Returned(e) \/ Delay(e))
    BY <1>1, <1>2, StepForms
  <2> QED BY <1>1, <2>1, DeliveryReleased, DeliveryReturned, DeliveryDelayed
<1>3. CASE flush
  BY <1>1, <1>3, DeliveryFlushed
<1>4. CASE UNCHANGED vars
  BY <1>4 DEF vars, flags, DeliveryInv, TypeOK, BufferShape, OvertakenFairly, ExactlyOnce,
              OrderKept, Delivered, Delayed, Positions, MustKeepOrder, Barrier, SameMessage
<1> QED
  BY <1>2, <1>3, <1>4 DEF Next, Closed

\* DeliveryKept: whatever a stream sends, the phase buffer neither
\* loses nor repeats an event, never reorders a message item's own events, and
\* never moves an event across a tool or terminal event.
THEOREM DeliveryCorrect == Spec => []DeliveryKept
<1>1. Init => DeliveryInv
  BY DeliveryInit
<1>2. DeliveryInv /\ [Next]_vars => DeliveryInv'
  BY DeliveryNext
<1>3. DeliveryInv => DeliveryKept
  BY DEF DeliveryInv, DeliveryKept
<1> QED
  BY <1>1, <1>2, <1>3, PTL DEF Spec

-----------------------------------------------------------------------------
(* Phases.  The invariant says what each combination of flags implies about  *)
(* everything returned so far.                                               *)

Places == 1..Len(output)

PhaseInv ==
    /\ passthrough => /\ ~commentary /\ ~terminal_seen
                      /\ \A p \in Places : CarriesPhase(At(p)) => output[p].phase = "none"
    /\ ~passthrough /\ ~terminal_seen => \A p \in Places : At(p).kind \notin TerminalKinds
    /\ terminal_seen => \E p \in Places : At(p).kind \in TerminalKinds
    /\ ~passthrough /\ commentary =>
          \A p \in Places : PhaseAt(p) => output[p].phase = "commentary"
    /\ ~passthrough /\ ~commentary =>
          \A p \in Places : UpToTerminal(p) => ~has_tool_signal(At(p))
    /\ ~passthrough /\ ~commentary /\ ~terminal_seen /\ ~eof =>
          \A p \in Places : ~CarriesPhase(At(p))
    /\ OnePhase

FullInv == DeliveryInv /\ PhaseInv

\* What was returned before a step is the same afterwards.
Kept ==
    /\ Len(output) \in Nat /\ Len(output') \in Nat /\ Len(output) <= Len(output')
    /\ \A p \in Places : output'[p] = output[p] /\ At(p)' = At(p)

\* As long as the output only grows, whether a place lies before the terminal
\* event, and whether it carries a phase, does not change.
LEMMA KeptUpTo ==
    ASSUME TypeOK, TypeOK', Kept, NEW p \in Places
    PROVE  /\ p \in Places'
           /\ UpToTerminal(p)' <=> UpToTerminal(p)
           /\ PhaseAt(p)' <=> PhaseAt(p)
<1>1. DOMAIN output = Places /\ DOMAIN output' = Places'
  BY LenProperties DEF TypeOK, Places
<1>2. p \in Places' /\ At(p)' = At(p)
  BY DEF Kept, Places
<1>3. UpToTerminal(p)' <=> UpToTerminal(p)
  <2>1. \A q \in Places : q \in Places' /\ At(q)' = At(q)
    BY DEF Kept, Places
  <2>2. \A q \in Places' : q < p => q \in Places
    BY DEF Kept, Places
  <2> QED BY <1>1, <2>1, <2>2 DEF UpToTerminal
<1> QED
  BY <1>2, <1>3 DEF PhaseAt, CarriesPhase

\* The place of the event a step received, and of the delayed ones it released.
Last == Len(output) + Len(buffer) + 1

\* The places a step fills that releases the delayed events.
LEMMA PlacesReleased ==
    ASSUME DeliveryInv, TypeOK', NEW e \in Event, Receive(e), NEW phase \in Phases,
           NEW entry \in Entry', entry.ev = Position, ReleaseBefore(phase, entry)
    PROVE  /\ Kept
           /\ Last \in Places' /\ Last \notin Places
           /\ \A p \in Places' : p <= Last
           /\ output'[Last] = entry /\ input'[output'[Last].ev] = e
           /\ \A p \in Places' : p \notin Places /\ p # Last =>
                 /\ buffer # <<>>
                 /\ input'[output'[p].ev].kind \in MessageKinds
                 /\ CarriesPhase(input'[output'[p].ev]) => output'[p].phase = phase
<1> USE DEF DeliveryInv
<1>1. /\ Len(output) \in Nat /\ Len(buffer) \in Nat /\ Len(output') = Last
      /\ \A p \in Places : output'[p] = output[p]
      /\ \A b \in 1..Len(buffer) :
            output'[Len(output) + b] = with_message_phase(buffer[b], input[buffer[b]], phase)
      /\ output'[Last] = entry
  BY ReleaseFacts DEF Last, Places
<1>2. /\ \A i \in Positions : input'[i] = input[i]
      /\ input'[Position] = e
  BY ReceiveFacts
<1>3. /\ \A p \in Places : output[p].ev \in Positions
      /\ \A b \in 1..Len(buffer) : buffer[b] \in Positions
  BY Domains DEF Places
<1>4. Kept
  BY <1>1, <1>2, <1>3 DEF Kept, Last, At, Places
<1>5. ASSUME NEW p \in Places', p \notin Places, p # Last
      PROVE  /\ buffer # <<>>
             /\ input'[output'[p].ev].kind \in MessageKinds
             /\ CarriesPhase(input'[output'[p].ev]) => output'[p].phase = phase
  <2>1. PICK b \in 1..Len(buffer) : p = Len(output) + b
    <3>1. p - Len(output) \in 1..Len(buffer) /\ p = Len(output) + (p - Len(output))
      BY <1>1, <1>5 DEF Places, Last
    <3> QED BY <3>1
  <2>2. output'[p] = with_message_phase(buffer[b], input[buffer[b]], phase)
    BY <1>1, <2>1
  <2>3. output'[p].ev = buffer[b] /\ input'[buffer[b]] = input[buffer[b]]
    BY <1>2, <1>3, <2>1, <2>2, WithPhaseEv
  <2>4. input[buffer[b]].kind \in MessageKinds
    BY <2>1 DEF BufferShape
  <2>5. buffer # <<>>
    BY <2>1, <1>1, EmptySeq
  <2>6. CarriesPhase(input[buffer[b]]) => output'[p].phase = phase
    BY <2>2 DEF with_message_phase
  <2> QED BY <2>3, <2>4, <2>5, <2>6
<1>6. Last \in Places' /\ Last \notin Places /\ \A p \in Places' : p <= Last
  BY <1>1 DEF Places, Last
<1>7. output'[Last] = entry /\ input'[output'[Last].ev] = e
  BY <1>1, <1>2
<1> QED
  BY <1>4, <1>5, <1>6, <1>7

\* The place a step fills that returns its event.
LEMMA PlacesReturned ==
    ASSUME DeliveryInv, TypeOK', NEW e \in Event, Receive(e),
           NEW entry \in Entry', entry.ev = Position, Return(entry)
    PROVE  /\ Kept
           /\ Places' = Places \cup {Len(output) + 1}
           /\ Len(output) + 1 \notin Places
           /\ output'[Len(output) + 1] = entry
           /\ input'[output'[Len(output) + 1].ev] = e
<1> USE DEF DeliveryInv
<1>1. /\ Len(output) \in Nat /\ Len(output') = Len(output) + 1
      /\ \A p \in Places : output'[p] = output[p]
      /\ output'[Len(output) + 1] = entry
  BY ReturnFacts DEF Places
<1>2. /\ \A i \in Positions : input'[i] = input[i]
      /\ input'[Position] = e
  BY ReceiveFacts
<1>3. \A p \in Places : output[p].ev \in Positions
  BY Domains DEF Places
<1>4. Kept
  BY <1>1, <1>2, <1>3 DEF Kept, At, Places
<1> QED
  BY <1>1, <1>2, <1>4 DEF Places

\* While no flag is raised and the stream goes on, nothing that carries a phase
\* has been returned, and no terminal or tool event either.
LEMMA NothingYet ==
    ASSUME PhaseInv, ~passthrough, ~commentary, ~terminal_seen, ~eof
    PROVE  \A p \in Places : ~CarriesPhase(At(p)) /\ At(p).kind \notin TerminalKinds
BY DEF PhaseInv

\* Events passed through carry no phase of their own.
LEMMA PhasePassThrough ==
    ASSUME FullInv, TypeOK', NEW e \in Event, PassThrough(e)
    PROVE  PhaseInv'
<1> USE DEF FullInv, DeliveryInv
<1>1. /\ Receive(e) /\ passthrough /\ passthrough' /\ ~commentary' /\ ~terminal_seen'
      /\ Return([ev |-> Position, phase |-> "none"])
  BY DEF PassThrough, PhaseInv, flags
<1>2. [ev |-> Position, phase |-> "none"] \in Entry'
  BY <1>1, EntryFacts DEF Phases
<1>3. /\ Kept /\ Places' = Places \cup {Len(output) + 1}
      /\ output'[Len(output) + 1].phase = "none"
  BY <1>1, <1>2, PlacesReturned
<1>4. \A p \in Places' : CarriesPhase(At(p))' => output'[p].phase = "none"
  <2>1. \A p \in Places : CarriesPhase(At(p)) => output[p].phase = "none"
    BY <1>1 DEF PhaseInv
  <2> QED BY <1>3, <2>1 DEF Kept, CarriesPhase
<1>5. OnePhase'
  <2>1. \A p \in Places' : PhaseAt(p)' => output'[p].phase = "none"
    BY <1>4 DEF PhaseAt
  <2> QED BY <2>1, LenProperties DEF OnePhase, Places, TypeOK
<1> QED
  BY <1>1, <1>4, <1>5 DEF PhaseInv

\* What follows the terminal event is outside the response.
LEMMA PhaseAfterTerminal ==
    ASSUME FullInv, TypeOK', NEW e \in Event, AfterTerminal(e)
    PROVE  PhaseInv'
<1> USE DEF FullInv, DeliveryInv
<1>1. /\ Receive(e) /\ ~passthrough /\ ~passthrough' /\ terminal_seen /\ terminal_seen'
      /\ commentary' = commentary
      /\ Return(annotate_if_needed(Position, e))
  BY DEF AfterTerminal, flags
<1>2. /\ annotate_if_needed(Position, e) \in Entry'
      /\ annotate_if_needed(Position, e).ev = Position
  BY <1>1, EntryFacts DEF annotate_if_needed, Phases
<1>3. PICK n : n = Len(output) + 1 /\ Kept /\ Places' = Places \cup {n} /\ n \notin Places
  BY <1>1, <1>2, PlacesReturned
<1>4. PICK t \in Places : At(t).kind \in TerminalKinds
  BY <1>1 DEF PhaseInv
<1>5. t \in Places' /\ At(t)'.kind \in TerminalKinds
  BY <1>3, <1>4 DEF Kept
<1>6. ~UpToTerminal(n)' /\ ~PhaseAt(n)'
  <2>1. t < n /\ t \in DOMAIN output'
    BY <1>3, <1>5, LenProperties DEF Places, Kept, TypeOK
  <2> QED BY <1>5, <2>1 DEF UpToTerminal, PhaseAt
<1>7. \A p \in Places : /\ UpToTerminal(p)' <=> UpToTerminal(p)
                        /\ PhaseAt(p)' <=> PhaseAt(p)
                        /\ output'[p] = output[p] /\ At(p)' = At(p)
  BY <1>3, KeptUpTo DEF Kept
<1>8. commentary' => \A p \in Places' : PhaseAt(p)' => output'[p].phase = "commentary"
  BY <1>1, <1>3, <1>6, <1>7 DEF PhaseInv
<1>9. ~commentary' => \A p \in Places' : UpToTerminal(p)' => ~has_tool_signal(At(p))'
  BY <1>1, <1>3, <1>6, <1>7 DEF PhaseInv, has_tool_signal
<1>10. OnePhase'
  <2>1. DOMAIN output = Places /\ DOMAIN output' = Places'
    BY LenProperties DEF TypeOK, Places
  <2> QED BY <2>1, <1>3, <1>6, <1>7 DEF PhaseInv, OnePhase
<1> QED
  BY <1>1, <1>5, <1>8, <1>9, <1>10 DEF PhaseInv

\* A tool signal gives all delayed messages, and all to come, the same phase.
LEMMA PhaseToolSignal ==
    ASSUME FullInv, TypeOK', NEW e \in Event, ToolSignal(e)
    PROVE  PhaseInv'
<1> USE DEF FullInv, DeliveryInv
<1>1. /\ Receive(e) /\ ~passthrough /\ ~passthrough' /\ ~terminal_seen
      /\ commentary' /\ terminal_seen' = (e.kind \in TerminalKinds)
      /\ ReleaseBefore("commentary", annotate_if_needed(Position, e))
  BY DEF ToolSignal
<1>2. /\ annotate_if_needed(Position, e) \in Entry'
      /\ annotate_if_needed(Position, e).ev = Position
      /\ CarriesPhase(e) => annotate_if_needed(Position, e).phase = "commentary"
      /\ "commentary" \in Phases
  BY <1>1, EntryFacts DEF annotate_if_needed, with_message_phase, Phases
<1>3. /\ Kept
      /\ Last \in Places' /\ Last \notin Places
      /\ output'[Last] = annotate_if_needed(Position, e) /\ input'[output'[Last].ev] = e
      /\ \A p \in Places' : p \notin Places /\ p # Last =>
            /\ input'[output'[p].ev].kind \in MessageKinds
            /\ CarriesPhase(input'[output'[p].ev]) => output'[p].phase = "commentary"
  BY <1>1, <1>2, PlacesReleased
<1>4. \A p \in Places' : PhaseAt(p)' => output'[p].phase = "commentary"
  <2> SUFFICES ASSUME NEW p \in Places', PhaseAt(p)' PROVE output'[p].phase = "commentary"
    OBVIOUS
  <2>1. CASE p \in Places
    <3>1. PhaseAt(p) /\ CarriesPhase(At(p)) /\ ~eof /\ output'[p] = output[p]
      BY <1>1, <1>3, <2>1, KeptUpTo DEF PhaseAt, Receive, Kept
    <3>2. commentary
      BY <1>1, <2>1, <3>1, NothingYet
    <3> QED BY <1>1, <2>1, <3>1, <3>2 DEF PhaseInv
  <2>2. CASE p \notin Places
    BY <1>2, <1>3, <2>2 DEF PhaseAt, CarriesPhase, At
  <2> QED BY <2>1, <2>2
<1>5. e.kind \notin TerminalKinds => \A p \in Places' : At(p)'.kind \notin TerminalKinds
  <2>1. \A p \in Places : At(p).kind \notin TerminalKinds
    BY <1>1 DEF PhaseInv
  <2> QED BY <1>3, <2>1 DEF Kept, At, MessageKinds, TerminalKinds
<1>6. e.kind \in TerminalKinds => \E p \in Places' : At(p)'.kind \in TerminalKinds
  BY <1>3 DEF At
<1>7. OnePhase'
  BY <1>4, LenProperties DEF OnePhase, Places, TypeOK
<1> QED
  BY <1>1, <1>4, <1>5, <1>6, <1>7 DEF PhaseInv

\* The terminal event settles the phase of what is delayed and of itself.
LEMMA PhaseTerminal ==
    ASSUME FullInv, TypeOK', NEW e \in Event, Terminal(e)
    PROVE  PhaseInv'
<1> USE DEF FullInv, DeliveryInv
<1> DEFINE phase == IF commentary THEN "commentary" ELSE final_buffer_phase_for_terminal(e)
           entry == with_message_phase(Position, e, phase)
<1>1. /\ Receive(e) /\ ~passthrough /\ ~passthrough' /\ ~terminal_seen /\ terminal_seen'
      /\ commentary' = commentary /\ ~eof
      /\ e.kind \in TerminalKinds /\ e.kind \notin ToolKinds
      /\ ReleaseBefore(phase, entry)
  BY DEF Terminal, Receive
<1>2. phase \in Phases
  BY DEF final_buffer_phase_for_terminal, Phases
<1>3. commentary => phase = "commentary"
  OBVIOUS
<1> HIDE DEF phase
<1>4. entry \in Entry' /\ entry.ev = Position /\ (CarriesPhase(e) => entry.phase = phase)
  BY <1>1, <1>2, EntryFacts DEF with_message_phase
<1> HIDE DEF entry
<1>5. /\ Kept
      /\ Last \in Places' /\ Last \notin Places
      /\ output'[Last] = entry /\ input'[output'[Last].ev] = e
      /\ \A p \in Places' : p \notin Places /\ p # Last =>
            /\ input'[output'[p].ev].kind \in MessageKinds
            /\ CarriesPhase(input'[output'[p].ev]) => output'[p].phase = phase
  BY <1>1, <1>2, <1>4, PlacesReleased
<1>6. \A p \in Places' : PhaseAt(p)' => output'[p].phase = phase
  <2> SUFFICES ASSUME NEW p \in Places', PhaseAt(p)' PROVE output'[p].phase = phase
    OBVIOUS
  <2>1. CASE p \in Places
    <3>1. PhaseAt(p) /\ CarriesPhase(At(p)) /\ output'[p] = output[p]
      BY <1>5, <2>1, KeptUpTo DEF PhaseAt, Kept
    <3>2. commentary
      BY <1>1, <2>1, <3>1, NothingYet
    <3> QED BY <1>1, <1>3, <2>1, <3>1, <3>2 DEF PhaseInv
  <2>2. CASE p \notin Places
    BY <1>4, <1>5, <2>2 DEF PhaseAt, CarriesPhase, At
  <2> QED BY <2>1, <2>2
<1>7. ~commentary => \A p \in Places' : ~has_tool_signal(At(p))'
  <2> SUFFICES ASSUME ~commentary, NEW p \in Places' PROVE ~has_tool_signal(At(p))'
    OBVIOUS
  <2>1. CASE p \in Places
    <3>1. UpToTerminal(p)
      BY <1>1, LenProperties DEF PhaseInv, UpToTerminal, Places, TypeOK
    <3> QED BY <1>1, <1>5, <2>1, <3>1 DEF PhaseInv, Kept, has_tool_signal
  <2>2. CASE p \notin Places
    BY <1>1, <1>5, <2>2 DEF has_tool_signal, At, MessageKinds, ToolKinds
  <2> QED BY <2>1, <2>2
<1>8. \E p \in Places' : At(p)'.kind \in TerminalKinds
  BY <1>1, <1>5 DEF At
<1>9. OnePhase'
  BY <1>6, LenProperties DEF OnePhase, Places, TypeOK
<1> QED
  BY <1>1, <1>3, <1>6, <1>7, <1>8, <1>9 DEF PhaseInv

\* An overflow happens before any phase was given, and leaves none to give.
LEMMA PhaseOverflow ==
    ASSUME FullInv, TypeOK', NEW e \in Event, Overflow(e)
    PROVE  PhaseInv'
<1> USE DEF FullInv, DeliveryInv
<1> DEFINE entry == [ev |-> Position, phase |-> "none"]
<1>1. /\ Receive(e) /\ ~passthrough /\ passthrough' /\ ~eof
      /\ ~terminal_seen /\ ~terminal_seen' /\ ~commentary /\ ~commentary'
      /\ ReleaseBefore("none", entry)
  BY DEF Overflow, Undecided, should_buffer, Receive
<1>2. "none" \in Phases
  BY DEF Phases
<1>3. entry \in Entry' /\ entry.ev = Position /\ entry.phase = "none"
  BY <1>1, <1>2, EntryFacts
<1> HIDE DEF entry
<1>4. /\ Kept
      /\ Last \in Places' /\ Last \notin Places
      /\ output'[Last] = entry
      /\ \A p \in Places' :
            p \notin Places /\ p # Last /\ CarriesPhase(input'[output'[p].ev])
                => output'[p].phase = "none"
  BY <1>1, <1>2, <1>3, PlacesReleased
<1>5. \A p \in Places' : CarriesPhase(At(p))' => output'[p].phase = "none"
  <2> SUFFICES ASSUME NEW p \in Places', CarriesPhase(At(p))' PROVE output'[p].phase = "none"
    OBVIOUS
  <2>1. CASE p \in Places
    BY <1>1, <1>4, <2>1, NothingYet DEF Kept, CarriesPhase
  <2>2. CASE p \notin Places
    BY <1>3, <1>4, <2>2 DEF CarriesPhase, At
  <2> QED BY <2>1, <2>2
<1>6. OnePhase'
  <2>1. \A p \in Places' : PhaseAt(p)' => output'[p].phase = "none"
    BY <1>5 DEF PhaseAt
  <2> QED BY <2>1, LenProperties DEF OnePhase, Places, TypeOK
<1> QED
  BY <1>1, <1>5, <1>6 DEF PhaseInv

\* An event returned at once finds commentary settled, or carries no phase.
LEMMA PhaseNotDelayed ==
    ASSUME FullInv, TypeOK', NEW e \in Event, NotDelayed(e)
    PROVE  PhaseInv'
<1> USE DEF FullInv, DeliveryInv
<1>1. /\ Receive(e) /\ ~passthrough /\ ~passthrough' /\ ~terminal_seen /\ ~terminal_seen'
      /\ commentary' = commentary /\ ~eof
      /\ e.kind \notin ToolKinds \cup TerminalKinds
      /\ ~commentary => e.kind # "message_item"
      /\ Return(annotate_if_needed(Position, e))
  BY DEF NotDelayed, Undecided, should_buffer, flags, Receive
<1>2. /\ annotate_if_needed(Position, e) \in Entry'
      /\ annotate_if_needed(Position, e).ev = Position
      /\ commentary /\ CarriesPhase(e) => annotate_if_needed(Position, e).phase = "commentary"
  BY <1>1, EntryFacts DEF annotate_if_needed, with_message_phase, Phases
<1>3. PICK n : /\ n = Len(output) + 1 /\ Kept /\ Places' = Places \cup {n} /\ n \notin Places
               /\ output'[n] = annotate_if_needed(Position, e) /\ At(n)' = e
  BY <1>1, <1>2, PlacesReturned DEF At
<1>4. /\ ~commentary => ~CarriesPhase(e)
      /\ ~has_tool_signal(e) /\ e.kind \notin TerminalKinds
  BY <1>1 DEF CarriesPhase, has_tool_signal, TerminalKinds, ToolKinds
<1>5. \A p \in Places : /\ UpToTerminal(p)' <=> UpToTerminal(p)
                        /\ PhaseAt(p)' <=> PhaseAt(p)
                        /\ output'[p] = output[p] /\ At(p)' = At(p)
  BY <1>3, KeptUpTo DEF Kept
<1>6. commentary => \A p \in Places' : PhaseAt(p)' => output'[p].phase = "commentary"
  <2> SUFFICES ASSUME commentary, NEW p \in Places', PhaseAt(p)'
               PROVE  output'[p].phase = "commentary"
    OBVIOUS
  <2>1. CASE p = n
    BY <1>2, <1>3, <2>1 DEF PhaseAt, CarriesPhase
  <2>2. CASE p \in Places
    BY <1>1, <1>5, <2>2 DEF PhaseInv
  <2> QED BY <1>3, <2>1, <2>2
<1>7. ~commentary => \A p \in Places' : ~CarriesPhase(At(p))' /\ ~PhaseAt(p)'
  <2> SUFFICES ASSUME ~commentary, NEW p \in Places' PROVE ~CarriesPhase(At(p))'
    BY DEF PhaseAt
  <2>1. CASE p = n
    BY <1>3, <1>4, <2>1 DEF CarriesPhase
  <2>2. CASE p \in Places
    BY <1>1, <1>5, <2>2, NothingYet DEF CarriesPhase
  <2> QED BY <1>3, <2>1, <2>2
<1>8. ~commentary => \A p \in Places' : UpToTerminal(p)' => ~has_tool_signal(At(p))'
  <2> SUFFICES ASSUME ~commentary, NEW p \in Places', UpToTerminal(p)'
               PROVE  ~has_tool_signal(At(p))'
    OBVIOUS
  <2>1. CASE p = n
    BY <1>3, <1>4, <2>1 DEF has_tool_signal
  <2>2. CASE p \in Places
    BY <1>1, <1>5, <2>2 DEF PhaseInv, has_tool_signal
  <2> QED BY <1>3, <2>1, <2>2
<1>9. \A p \in Places' : At(p)'.kind \notin TerminalKinds
  BY <1>1, <1>3, <1>4, <1>5 DEF PhaseInv
<1>10. OnePhase'
  BY <1>6, <1>7, LenProperties DEF OnePhase, Places, TypeOK
<1> QED
  BY <1>1, <1>6, <1>7, <1>8, <1>9, <1>10 DEF PhaseInv

\* Delaying an event gives no phase.
LEMMA PhaseDelay ==
    ASSUME FullInv, TypeOK', NEW e \in Event, Delay(e)
    PROVE  PhaseInv'
<1> USE DEF FullInv, DeliveryInv
<1>1. Receive(e) /\ UNCHANGED flags /\ output' = output /\ eof' = eof
  BY DEF Delay, Receive
<1>2. \A i \in Positions : input'[i] = input[i]
  BY <1>1, ReceiveFacts
<1>3. /\ Places' = Places /\ DOMAIN output = Places
      /\ \A p \in Places : At(p)' = At(p)
  BY <1>1, <1>2, Domains DEF Places, At
<1>4. \A p \in Places : /\ UpToTerminal(p)' <=> UpToTerminal(p)
                        /\ PhaseAt(p)' <=> PhaseAt(p)
  BY <1>1, <1>3 DEF UpToTerminal, PhaseAt, CarriesPhase
<1>5. OnePhase'
  BY <1>1, <1>3, <1>4 DEF PhaseInv, OnePhase
<1> QED
  BY <1>1, <1>3, <1>4, <1>5 DEF PhaseInv, flags, has_tool_signal, CarriesPhase

\* flush() releases messages of a response that had no terminal event.
LEMMA PhaseFlush ==
    ASSUME FullInv, TypeOK', flush
    PROVE  PhaseInv'
<1> USE DEF FullInv, DeliveryInv
<1>1. /\ ~eof /\ eof' /\ UNCHANGED flags /\ input' = input
  BY DEF flush
<1>2. /\ Len(output) \in Nat /\ Len(buffer) \in Nat
      /\ Len(output') = Len(output) + Len(buffer)
      /\ \A p \in Places : output'[p] = output[p]
      /\ \A b \in 1..Len(buffer) :
            output'[Len(output) + b] = with_message_phase(buffer[b], input[buffer[b]], "none")
  BY FlushFacts DEF Places
<1>3. Kept
  BY <1>1, <1>2 DEF Kept, At, Places
<1>4. CASE buffer = <<>>
  <2>1. output' = output
    BY <1>4, <1>2, FlushFacts, SeqEqual DEF TypeOK, Entry, Places
  <2> QED BY <1>1, <2>1 DEF PhaseInv, flags, OnePhase, Places, At, UpToTerminal, PhaseAt,
                            has_tool_signal, CarriesPhase
<1>5. CASE buffer # <<>>
  <2>1. ~commentary /\ ~terminal_seen /\ ~passthrough
    BY <1>5 DEF BufferShape
  <2>2. \A p \in Places' : p \notin Places =>
           /\ At(p)'.kind \in MessageKinds
           /\ output'[p].phase = "none"
    <3> SUFFICES ASSUME NEW p \in Places', p \notin Places
                 PROVE  At(p)'.kind \in MessageKinds /\ output'[p].phase = "none"
      OBVIOUS
    <3>1. PICK b \in 1..Len(buffer) : p = Len(output) + b
      <4>1. p - Len(output) \in 1..Len(buffer) /\ p = Len(output) + (p - Len(output))
        BY <1>2 DEF Places
      <4> QED BY <4>1
    <3>2. output'[p] = with_message_phase(buffer[b], input[buffer[b]], "none")
      BY <1>2, <3>1
    <3>3. output'[p].ev = buffer[b] /\ output'[p].phase = "none"
      BY <3>2 DEF with_message_phase
    <3> QED BY <1>1, <3>1, <3>3 DEF At, BufferShape
  <2>3. \A p \in Places : ~CarriesPhase(At(p)) /\ At(p).kind \notin TerminalKinds
    BY <1>1, <2>1, NothingYet
  <2>4. \A p \in Places : ~has_tool_signal(At(p))
    <3>1. \A p \in Places : UpToTerminal(p)
      BY <2>3, Domains DEF UpToTerminal, Places
    <3> QED BY <2>1, <3>1 DEF PhaseInv
  <2>5. \A p \in Places' : At(p)'.kind \notin TerminalKinds /\ ~has_tool_signal(At(p))'
    BY <1>3, <2>2, <2>3, <2>4 DEF Kept, has_tool_signal, MessageKinds, ToolKinds, TerminalKinds
  <2>6. \A p \in Places' : PhaseAt(p)' => output'[p].phase = "none"
    BY <1>3, <2>2, <2>3 DEF Kept, PhaseAt, CarriesPhase
  <2>7. OnePhase'
    BY <2>6, LenProperties DEF OnePhase, Places, TypeOK
  <2> QED BY <1>1, <2>1, <2>5, <2>7 DEF PhaseInv, flags
<1> QED
  BY <1>4, <1>5

\* FullInv holds initially.
LEMMA FullInit == Init => FullInv
<1> SUFFICES ASSUME Init PROVE FullInv
  OBVIOUS
<1>1. DeliveryInv
  BY DeliveryInit
<1>2. Places = {} /\ DOMAIN output = {}
  BY EmptySeq DEF Init, Places
<1> QED
  BY <1>1, <1>2 DEF Init, FullInv, PhaseInv, OnePhase

\* FullInv is inductive: the branches of process() one by one.
LEMMA FullNext == FullInv /\ [Next]_vars => FullInv'
<1> SUFFICES ASSUME FullInv, [Next]_vars PROVE FullInv'
  OBVIOUS
<1>1. DeliveryInv' /\ TypeOK'
  BY DeliveryNext DEF FullInv, DeliveryInv
<1>2. ASSUME NEW e \in Event, process(e) PROVE PhaseInv'
  BY <1>1, <1>2, PhasePassThrough, PhaseAfterTerminal, PhaseToolSignal, PhaseTerminal,
     PhaseOverflow, PhaseDelay, PhaseNotDelayed DEF process
<1>3. CASE flush
  BY <1>1, <1>3, PhaseFlush DEF FullInv
<1>4. CASE UNCHANGED vars
  BY <1>1, <1>4 DEF vars, flags, FullInv, PhaseInv, OnePhase, Places, At, UpToTerminal, PhaseAt,
              has_tool_signal, CarriesPhase
<1> QED
  BY <1>1, <1>2, <1>3, <1>4 DEF Next, Closed, FullInv

\* The invariant decides the phase of a tool turn.
LEMMA ToolTurn == FullInv => ToolTurnIsCommentary
<1> SUFFICES ASSUME FullInv PROVE ToolTurnIsCommentary
  OBVIOUS
<1>1. DOMAIN output = Places
  BY Domains DEF FullInv, DeliveryInv, Places
<1> SUFFICES ASSUME NEW p \in Places, NEW q \in Places,
                    has_tool_signal(At(p)), UpToTerminal(p), PhaseAt(q)
             PROVE  output[q].phase = IF passthrough THEN "none" ELSE "commentary"
  BY <1>1 DEF ToolTurnIsCommentary
<1>2. CASE passthrough
  BY <1>2 DEF FullInv, PhaseInv, PhaseAt
<1>3. CASE ~passthrough
  BY <1>3 DEF FullInv, PhaseInv
<1> QED
  BY <1>2, <1>3

\* TurnHasItsPhase: the messages of a response all carry the
\* same phase, and with a tool call among them that phase is commentary (or none,
\* after an overflow), whatever the order and the sizes of the events.
THEOREM PhaseCorrect == Spec => []TurnHasItsPhase
<1>1. Init => FullInv
  BY FullInit
<1>2. FullInv /\ [Next]_vars => FullInv'
  BY FullNext
<1>3. FullInv => TurnHasItsPhase
  BY ToolTurn DEF FullInv, PhaseInv, TurnHasItsPhase
<1> QED
  BY <1>1, <1>2, <1>3, PTL DEF Spec

\* Latches: the three flags only ever rise, and a step that raises one leaves
\* no event delayed.
THEOREM FlagsLatch == Spec => Latches
<1>1. ASSUME [Next]_vars
      PROVE  [/\ commentary => commentary'
              /\ terminal_seen => terminal_seen'
              /\ passthrough => passthrough'
              /\ flags # flags' => buffer' = <<>>]_vars
  <2>1. ASSUME NEW e \in Event, process(e)
        PROVE  /\ commentary => commentary'
               /\ terminal_seen => terminal_seen'
               /\ passthrough => passthrough'
               /\ flags # flags' => buffer' = <<>>
    BY <2>1 DEF process, PassThrough, AfterTerminal, ToolSignal, Terminal, Overflow, Delay,
                NotDelayed, ReleaseBefore, flags
  <2>2. CASE flush
    BY <2>2 DEF flush, flags
  <2> QED BY <1>1, <2>1, <2>2 DEF Next, Closed
<1> QED
  BY <1>1, PTL DEF Spec, Latches

-----------------------------------------------------------------------------
(* Induction up to a number.  The property is given as the set of those that *)
(* have it. *)

\* A non-empty set of numbers has a least one.
LEMMA LeastOf ==
    ASSUME NEW T \in SUBSET Nat, T # {}
    PROVE  \E n \in T : \A m \in T : n <= m
<1>1. PICK n \in T : \A m \in T : <<m, n>> \notin OpToRel(<, Nat)
  BY NatLessThanWellFounded, WFMin
<1>2. \A m \in T : ~(m < n)
  BY <1>1 DEF OpToRel
<1> QED
  BY <1>2

\* What holds of 0, and of a number when it holds of the one before, holds up to n.
LEMMA PrefixInduction ==
    ASSUME NEW n \in Nat, NEW Good, 0 \in Good,
           \A i \in 1..n : i - 1 \in Good => i \in Good
    PROVE  \A i \in 0..n : i \in Good
<1> DEFINE Bad == (0..n) \ Good
<1> SUFFICES ASSUME Bad # {}
             PROVE  FALSE
  OBVIOUS
<1>1. PICK i \in Bad : \A j \in Bad : i <= j
  <2>1. Bad \in SUBSET Nat
    OBVIOUS
  <2> HIDE DEF Bad
  <2> QED
    BY <2>1, LeastOf
<1>2. i \in 1..n /\ i - 1 \in 0..n /\ ~(i <= i - 1)
  BY <1>1
<1> QED
  BY <1>1, <1>2

-----------------------------------------------------------------------------
(* The sum of the first n values of w, built up one value at a time.        *)

IsSum(F, w, n) == F = [k \in 0..n |-> IF k = 0 THEN 0 ELSE F[k - 1] + w[k]]
Sum(w, n) == (CHOOSE F : IsSum(F, w, n))[n]

\* What a sum is, position by position.
LEMMA SumFacts ==
    ASSUME NEW F, NEW w, NEW n \in Nat, IsSum(F, w, n)
    PROVE  F[0] = 0 /\ \A k \in 1..n : F[k] = F[k - 1] + w[k]
<1>1. \A k \in 0..n : F[k] = IF k = 0 THEN 0 ELSE F[k - 1] + w[k]
  <2>1. F = [k \in 0..n |-> IF k = 0 THEN 0 ELSE F[k - 1] + w[k]]
    BY DEF IsSum
  <2> QED
    BY <2>1
<1>2. 0 \in 0..n /\ \A k \in 1..n : k \in 0..n /\ k # 0
  OBVIOUS
<1> QED
  BY <1>1, <1>2

\* One value more.
LEMMA SumMore ==
    ASSUME NEW w, NEW n \in Nat, NEW F, IsSum(F, w, n)
    PROVE  \E G : IsSum(G, w, n + 1)
<1> DEFINE m == n + 1
           G == [k \in 0..m |-> IF k = 0 THEN 0 ELSE F[k - 1] + w[k]]
<1>1. m \in Nat /\ \A k \in 0..m : k # 0 => k - 1 \in 0..n /\ k - 1 \in 0..m
  OBVIOUS
<1>2. \A k \in 0..n : k \in 0..m /\ G[k] = F[k]
  <2>1. \A k \in 0..n : k \in 0..m /\ (k # 0 => k \in 1..n)
    OBVIOUS
  <2>2. \A k \in 0..n : G[k] = IF k = 0 THEN 0 ELSE F[k - 1] + w[k]
    BY <2>1
  <2> HIDE DEF G
  <2> QED
    BY <2>1, <2>2, SumFacts
<1>3. \A k \in 0..m : k # 0 => G[k - 1] = F[k - 1]
  <2> HIDE DEF G, m
  <2> QED
    BY <1>1, <1>2
<1>4. G = [k \in 0..m |-> IF k = 0 THEN 0 ELSE G[k - 1] + w[k]]
  BY <1>3
<1> HIDE DEF G
<1> QED
  BY <1>4 DEF IsSum

LEMMA SumExists ==
    ASSUME NEW w, NEW n \in Nat
    PROVE  IsSum(CHOOSE F : IsSum(F, w, n), w, n)
<1> DEFINE Good == {m \in 0..n : \E F : IsSum(F, w, m)}
<1>1. 0 \in Good
  <2>1. IsSum([k \in 0..0 |-> 0], w, 0)
    BY DEF IsSum
  <2> QED
    BY <2>1
<1>2. ASSUME NEW m \in 1..n, m - 1 \in Good
      PROVE  m \in Good
  <2>1. m - 1 \in Nat /\ m - 1 + 1 = m /\ m \in 0..n
    OBVIOUS
  <2>2. \E F : IsSum(F, w, m - 1)
    BY <1>2
  <2>3. \E G : IsSum(G, w, m - 1 + 1)
    BY <2>1, <2>2, SumMore
  <2> QED
    BY <2>1, <2>3
<1>3. n \in Good
  <2> HIDE DEF Good
  <2>1. \A m \in 0..n : m \in Good
    BY <1>1, <1>2, PrefixInduction
  <2> QED
    BY <2>1
<1>4. \E F : IsSum(F, w, n)
  BY <1>3
<1> QED
  BY <1>4

\* Two sums agree where both are defined.
LEMMA SumsAgree ==
    ASSUME NEW w, NEW n \in Nat, NEW m \in 0..n, NEW F, NEW G, IsSum(F, w, m), IsSum(G, w, n)
    PROVE  F[m] = G[m]
<1> DEFINE Good == {k \in 0..m : F[k] = G[k]}
<1>1. m \in Nat /\ m \in 0..m /\ 0 \in 0..m /\ \A k \in 1..m : k \in 1..n /\ k \in 0..m
  OBVIOUS
<1>2. 0 \in Good
  BY <1>1, SumFacts
<1>3. ASSUME NEW k \in 1..m, k - 1 \in Good
      PROVE  k \in Good
  <2>1. F[k] = F[k - 1] + w[k]
    BY <1>1, SumFacts
  <2>2. G[k] = G[k - 1] + w[k]
    BY <1>1, SumFacts
  <2> QED
    BY <1>1, <1>3, <2>1, <2>2
<1>4. \A k \in 0..m : k \in Good
  <2> HIDE DEF Good
  <2> QED
    BY <1>1, <1>2, <1>3, PrefixInduction
<1> QED
  BY <1>1, <1>4

LEMMA SumOfNone == ASSUME NEW w PROVE Sum(w, 0) = 0
  BY SumExists, SumFacts DEF Sum

LEMMA SumStep ==
    ASSUME NEW w, NEW n \in Nat
    PROVE  Sum(w, n + 1) = Sum(w, n) + w[n + 1]
<1> DEFINE F == CHOOSE f : IsSum(f, w, n)
           G == CHOOSE f : IsSum(f, w, n + 1)
<1>1. IsSum(F, w, n) /\ IsSum(G, w, n + 1) /\ n + 1 \in Nat
  BY SumExists
<1>2. Sum(w, n) = F[n] /\ Sum(w, n + 1) = G[n + 1]
  BY DEF Sum
<1> HIDE DEF F, G
<1>3. n \in 0..n + 1 /\ n + 1 \in 1..n + 1 /\ n + 1 - 1 = n
  OBVIOUS
<1>4. F[n] = G[n]
  BY <1>1, <1>3, SumsAgree
<1>5. G[n + 1] = G[n + 1 - 1] + w[n + 1]
  BY <1>1, <1>3, SumFacts
<1> QED
  BY <1>2, <1>3, <1>4, <1>5

-----------------------------------------------------------------------------
(* The buffer is bounded: the counter is the sum of the sizes of what is    *)
(* really delayed, which a step empties, leaves alone or adds one event to. *)

SizeOf(events, delayed) ==
    LET upto[n \in 0..Len(delayed)] ==
            IF n = 0 THEN 0 ELSE upto[n - 1] + events[delayed[n]].size
    IN  upto[Len(delayed)]
BoundInv == TypeOK /\ BufferBounded

LEMMA SizeIsSum ==
    ASSUME NEW events, NEW delayed, Len(delayed) \in Nat, NEW w,
           \A b \in 1..Len(delayed) : w[b] = events[delayed[b]].size
    PROVE  SizeOf(events, delayed) = Sum(w, Len(delayed))
<1> DEFINE n == Len(delayed)
           Is(F) == F = [k \in 0..n |-> IF k = 0 THEN 0
                                        ELSE F[k - 1] + events[delayed[k]].size]
<1>1. \A F : Is(F) <=> IsSum(F, w, n)
  <2> TAKE F
  <2>1. \A k \in 0..n : k # 0 => k \in 1..n
    OBVIOUS
  <2>2. [k \in 0..n |-> IF k = 0 THEN 0 ELSE F[k - 1] + events[delayed[k]].size]
        = [k \in 0..n |-> IF k = 0 THEN 0 ELSE F[k - 1] + w[k]]
    BY <2>1
  <2> HIDE DEF n
  <2> QED
    BY <2>2 DEF IsSum
<1>2. (CHOOSE F : Is(F)) = (CHOOSE F : IsSum(F, w, n))
  <2> HIDE DEF Is, n
  <2> QED
    BY <1>1
<1>3. SizeOf(events, delayed) = (CHOOSE F : Is(F))[n]
  BY Zenon DEF SizeOf
<1> QED
  BY <1>2, <1>3, Zenon DEF Sum

LEMMA SizeNow == BufferedSize = SizeOf(input, buffer)
  BY Zenon DEF BufferedSize, SizeOf
LEMMA SizeNext == BufferedSize' = SizeOf(input', buffer')
  BY Zenon DEF BufferedSize, SizeOf

LEMMA EventSize == ASSUME NEW e \in Event PROVE e.size \in Nat
<1>1. Sizes \subseteq Nat /\ 0 \in Nat
  BY LimitsAssumption
<1>2. e.size \in Sizes \cup {0}
  BY DEF Event, MessageEvent, OtherEvent
<1> QED
  BY <1>1, <1>2

\* An empty buffer.
LEMMA BoundEmpty ==
    ASSUME BoundInv, TypeOK', buffer' = <<>>, buffered_bytes' = 0
    PROVE  BoundInv'
<1>1. Len(buffer') = 0
  OBVIOUS
<1>2. SizeOf(input', buffer') = 0
  <2>1. SizeOf(input', buffer') = Sum(<<>>, 0)
    BY <1>1, SizeIsSum
  <2> QED
    BY <2>1, SumOfNone
<1> QED
  BY <1>1, <1>2, SizeNext, LimitsAssumption DEF BoundInv, BufferBounded

\* The events delayed before a step are the ones delayed after it.
LEMMA SizeKept ==
    ASSUME TypeOK, \A i \in Positions : input'[i] = input[i], NEW w,
           \A b \in 1..Len(buffer) : w[b] = input[buffer[b]].size
    PROVE  /\ SizeOf(input, buffer) = Sum(w, Len(buffer))
           /\ SizeOf(input', buffer) = Sum(w, Len(buffer))
<1>1. Len(buffer) \in Nat /\ \A b \in 1..Len(buffer) : buffer[b] \in Positions
  BY DEF TypeOK
<1>2. \A b \in 1..Len(buffer) : w[b] = input'[buffer[b]].size
  BY <1>1
<1> QED
  BY <1>1, <1>2, SizeIsSum

LEMMA BoundReturned ==
    ASSUME BoundInv, TypeOK', UNCHANGED <<buffer, buffered_bytes>>,
           \A i \in Positions : input'[i] = input[i]
    PROVE  BoundInv'
<1> DEFINE w == [b \in 1..Len(buffer) |-> input[buffer[b]].size]
<1>1. SizeOf(input', buffer') = SizeOf(input, buffer)
  <2>1. \A b \in 1..Len(buffer) : w[b] = input[buffer[b]].size
    OBVIOUS
  <2> HIDE DEF w
  <2> QED
    BY <2>1, SizeKept DEF BoundInv
<1> QED
  BY <1>1, SizeNow, SizeNext DEF BoundInv, BufferBounded

LEMMA BoundDelayed ==
    ASSUME BoundInv, TypeOK', NEW e \in Event, Delay(e)
    PROVE  BoundInv'
<1> DEFINE n == Len(buffer)
           w == [b \in 1..n + 1 |-> IF b = n + 1 THEN e.size ELSE input[buffer[b]].size]
<1>1. TypeOK /\ Receive(e) /\ ~Full(e) /\ buffer' = Append(buffer, Position)
      /\ buffered_bytes' = buffered_bytes + e.size
  BY DEF Delay, BoundInv
<1>2. /\ \A i \in Positions : input'[i] = input[i]
      /\ input'[Position] = e
  BY <1>1, ReceiveFacts
<1>3. n \in Nat /\ (\A b \in 1..n : buffer[b] \in Positions)
      /\ (\A i \in Positions : input[i] \in Event)
  BY <1>1 DEF TypeOK, Positions
<1>4. /\ Len(buffer') = n + 1
      /\ \A b \in 1..n : buffer'[b] = buffer[b]
      /\ buffer'[n + 1] = Position
  BY <1>1, <1>3, AppendProperties DEF TypeOK
<1>5. n + 1 \notin 1..n /\ 1..n + 1 = (1..n) \cup {n + 1} /\ n + 1 \in Nat
  <2> HIDE DEF n
  <2> QED
    BY <1>3
<1>6. /\ \A b \in 1..n : w[b] = input[buffer[b]].size
      /\ w[n + 1] = e.size
      /\ \A b \in 1..n + 1 : w[b] = input'[buffer'[b]].size
  <2>1. \A b \in 1..n : w[b] = input[buffer[b]].size
    BY <1>3, <1>5
  <2>2. \A b \in 1..n : w[b] = input'[buffer'[b]].size
    BY <1>2, <1>3, <1>4, <2>1
  <2>3. w[n + 1] = e.size /\ e.size = input'[buffer'[n + 1]].size
    BY <1>2, <1>3, <1>4
  <2> HIDE DEF w
  <2> QED
    BY <1>5, <2>1, <2>2, <2>3
<1> HIDE DEF w
<1>7. SizeOf(input, buffer) = Sum(w, n)
  BY <1>3, <1>6, SizeIsSum
<1>8. SizeOf(input', buffer') = Sum(w, n + 1)
  BY <1>4, <1>5, <1>6, SizeIsSum
<1>9. Sum(w, n + 1) = Sum(w, n) + e.size
  BY <1>3, <1>6, SumStep
<1>10. BufferedSize' = buffered_bytes + e.size
  BY <1>1, <1>7, <1>8, <1>9, SizeNow, SizeNext, EventSize DEF BoundInv, BufferBounded, TypeOK
<1> QED
  BY <1>1, <1>3, <1>4, <1>10, EventSize, LimitsAssumption
     DEF BoundInv, BufferBounded, Full, TypeOK

\* BufferBounded: neither limit is ever passed by what is really delayed, and the
\* counter that decides is exact, for every stream (ResponsesPhaseBuffer.process).
THEOREM BoundCorrect == Spec => []BufferBounded
<1>1. Init => BoundInv
  <2> SUFFICES ASSUME Init
               PROVE  BoundInv
    OBVIOUS
  <2>1. buffer = <<>> /\ Len(buffer) = 0 /\ buffered_bytes = 0
    BY DEF Init
  <2>2. SizeOf(input, buffer) = 0
    <3>1. SizeOf(input, buffer) = Sum(<<>>, 0)
      BY <2>1, SizeIsSum
    <3> QED
      BY <3>1, SumOfNone
  <2> QED
    BY <2>1, <2>2, SizeNow, TypeInit, LimitsAssumption DEF BoundInv, BufferBounded
<1>2. BoundInv /\ [Next]_vars => BoundInv'
  <2> SUFFICES ASSUME BoundInv, [Next]_vars
               PROVE  BoundInv'
    OBVIOUS
  <2>1. TypeOK'
    BY TypeNext DEF BoundInv
  <2>2. ASSUME NEW e \in Event, process(e)
        PROVE  BoundInv'
    <3>1. CASE Delay(e)
      BY <2>1, <3>1, BoundDelayed
    <3>2. CASE Returned(e)
      <4>1. \A i \in Positions : input'[i] = input[i]
        BY <2>2, StepForms, ReceiveFacts DEF BoundInv
      <4> QED
        BY <2>1, <3>2, <4>1, BoundReturned DEF Returned, Return
    <3>3. CASE Released(e)
      BY <2>1, <3>3, BoundEmpty DEF Released, ReleaseBefore
    <3> QED
      BY <2>2, <3>1, <3>2, <3>3, StepForms DEF BoundInv
  <2>3. CASE flush
    BY <2>1, <2>3, BoundEmpty DEF flush
  <2>4. CASE UNCHANGED vars
    BY <2>1, <2>4, BoundReturned DEF vars
  <2> QED
    BY <2>2, <2>3, <2>4 DEF Next, Closed
<1>3. BoundInv => BufferBounded
  BY DEF BoundInv
<1> QED
  BY <1>1, <1>2, <1>3, PTL DEF Spec
=============================================================================
