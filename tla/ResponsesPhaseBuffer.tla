------------------------ MODULE ResponsesPhaseBuffer ------------------------
(***************************************************************************)
(* gateway/stream_phase_buffer.py: class ResponsesPhaseBuffer.             *)
(*                                                                         *)
(* The gateway delays the message events of a Responses stream until it    *)
(* knows whether the turn calls a tool.  If it does, the messages are      *)
(* released with phase "commentary"; if the response completes without a   *)
(* tool, with phase "final_answer"; if the buffer overflows, the stream    *)
(* fails or ends without a terminal event, with no phase at all.           *)
(*                                                                         *)
(* An event is abstracted to what the branches of process() look at:       *)
(*   kind  the class of the event's type, and of its item's type;          *)
(*   id    the id of the message item it belongs to, NoId if it has none;  *)
(*   size  the length of its serialized form, in the unit of MaxBytes.     *)
(* The histories `input` and `output` are the events given to process()    *)
(* and the events it returned: an output entry is the position of the      *)
(* event in `input` and the phase written into it.                         *)
(***************************************************************************)
EXTENDS Naturals, Sequences

CONSTANTS
    ItemIds,      \* ids of message items
    NoId,         \* an absent or empty id
    Sizes,        \* serialized sizes of the events that may be buffered
    MaxEvents,    \* max_buffered_events
    MaxBytes,     \* max_buffered_bytes
    MaxInput      \* bound of the model: events of one stream

ASSUME IdsAssumption == NoId \notin ItemIds
ASSUME LimitsAssumption == /\ MaxEvents \in Nat
                           /\ MaxBytes \in Nat
                           /\ MaxInput \in Nat
                           /\ Sizes \subseteq Nat

VARIABLES
    buffer,            \* positions in input of the delayed events, in order
    buffered_bytes,
    message_item_ids,
    commentary,
    terminal_seen,
    passthrough,
    input,             \* history: events given to process()
    output,            \* history: [ev, phase] of the events it returned
    eof                \* flush() has been called

flags == <<commentary, terminal_seen, passthrough>>
vars == <<buffer, buffered_bytes, message_item_ids, flags, input, output, eof>>

-----------------------------------------------------------------------------
(* Events.  "message_part" stands for the four types of                    *)
(* _MESSAGE_EVENT_TYPES, "message_item", "tool_item" and "other_item" for   *)
(* output_item.added and output_item.done by the type of the item,         *)
(* "tool_args" for _TOOL_EVENT_TYPES, "completed_tool" for a               *)
(* response.completed that lists a tool call, "failed" for                 *)
(* response.failed and response.done.                                      *)

MessageKinds == {"message_part", "message_item"}
ToolKinds == {"tool_item", "tool_args", "completed_tool"}
TerminalKinds == {"completed", "completed_tool", "failed"}
Kinds == MessageKinds \cup ToolKinds \cup TerminalKinds \cup {"other_item", "other"}


\* Only the events of a message are ever weighed or looked up by item.
MessageEvent == [kind : MessageKinds, id : ItemIds \cup {NoId}, size : Sizes]
OtherEvent == [kind : Kinds \ MessageKinds, id : {NoId}, size : {0}]
Event == MessageEvent \cup OtherEvent

Phases == {"none", "commentary", "final_answer"}

\* _with_message_phase writes the phase into message items and into the
\* messages a response.completed lists, and leaves every other event alone.
CarriesPhase(e) == e.kind \in {"message_item", "completed", "completed_tool"}
with_message_phase(i, e, phase) ==
    [ev |-> i, phase |-> IF CarriesPhase(e) THEN phase ELSE "none"]

\* Mutant: any item that is not a message counts as a tool.
has_tool_signal_any_item(e) == e.kind \in ToolKinds \cup {"other_item"}

has_tool_signal(e) == e.kind \in ToolKinds

should_buffer(e) ==
    /\ ~commentary
    /\ \/ e.kind = "message_part" /\ (e.id = NoId \/ e.id \in message_item_ids)
       \/ e.kind = "message_item"

annotate_if_needed(i, e) ==
    with_message_phase(i, e, IF commentary' THEN "commentary" ELSE "none")

flushed(phase) ==
    [k \in 1..Len(buffer) |-> with_message_phase(buffer[k], input[buffer[k]], phase)]

\* Mutant: a misspelt phase.
final_buffer_phase_misspelt(e) == IF e.kind = "completed" THEN "final" ELSE "none"

final_buffer_phase_for_terminal(e) ==
    IF e.kind = "completed" THEN "final_answer" ELSE "none"

-----------------------------------------------------------------------------
Init ==
    /\ buffer = <<>>
    /\ buffered_bytes = 0
    /\ message_item_ids = {}
    /\ commentary = FALSE
    /\ terminal_seen = FALSE
    /\ passthrough = FALSE
    /\ input = <<>>
    /\ output = <<>>
    /\ eof = FALSE

Receive(e) == ~eof /\ input' = Append(input, e) /\ UNCHANGED eof
Position == Len(input) + 1

\* Mutant: the event overtakes what was delayed before it.
ReleaseBefore_swapped(phase, entry) ==
    /\ output' = Append(output, entry) \o flushed(phase)
    /\ buffer' = <<>>
    /\ buffered_bytes' = 0
    /\ UNCHANGED message_item_ids

\* _flush_buffer: release the delayed events with a phase, then the event itself.
ReleaseBefore(phase, entry) ==
    /\ output' = Append(output \o flushed(phase), entry)
    /\ buffer' = <<>>
    /\ buffered_bytes' = 0
    /\ UNCHANGED message_item_ids

\* Return the event at once and leave the delayed events where they are.
Return(entry) ==
    /\ output' = Append(output, entry)
    /\ UNCHANGED <<buffer, buffered_bytes, message_item_ids>>

\* process(), one action per branch, in the order of the branches.
PassThrough(e) ==
    /\ passthrough
    /\ Receive(e)
    /\ UNCHANGED flags
    /\ Return([ev |-> Position, phase |-> "none"])

AfterTerminal(e) ==
    /\ ~passthrough /\ terminal_seen
    /\ Receive(e)
    /\ UNCHANGED flags
    /\ Return(annotate_if_needed(Position, e))

\* Mutant: the tool signal is forgotten at once.
ToolSignal_unlatched(e) ==
    /\ ~passthrough /\ ~terminal_seen
    /\ has_tool_signal(e)
    /\ Receive(e)
    /\ terminal_seen' = (e.kind \in TerminalKinds)
    /\ UNCHANGED <<commentary, passthrough>>
    /\ ReleaseBefore("commentary", annotate_if_needed(Position, e))

ToolSignal(e) ==
    /\ ~passthrough /\ ~terminal_seen
    /\ has_tool_signal(e)
    /\ Receive(e)
    /\ commentary' = TRUE
    /\ terminal_seen' = (e.kind \in TerminalKinds)
    /\ UNCHANGED passthrough
    /\ ReleaseBefore("commentary", annotate_if_needed(Position, e))

Terminal(e) ==
    /\ ~passthrough /\ ~terminal_seen
    /\ e.kind \in TerminalKinds \ ToolKinds
    /\ Receive(e)
    /\ terminal_seen' = TRUE
    /\ UNCHANGED <<commentary, passthrough>>
    /\ LET phase == IF commentary THEN "commentary"
                    ELSE final_buffer_phase_for_terminal(e)
       IN  ReleaseBefore(phase, with_message_phase(Position, e, phase))

\* The event could be delayed or returned: no earlier branch has taken it.
Undecided(e) ==
    /\ ~passthrough /\ ~terminal_seen
    /\ e.kind \notin ToolKinds \cup TerminalKinds

\* Mutant: off by one in the count of events.
Full_off_by_one(e) == \/ Len(buffer) > MaxEvents
                      \/ buffered_bytes + e.size > MaxBytes

Full(e) == \/ Len(buffer) >= MaxEvents
           \/ buffered_bytes + e.size > MaxBytes

Overflow(e) ==
    /\ Undecided(e)
    /\ should_buffer(e)
    /\ Full(e)
    /\ Receive(e)
    /\ passthrough' = TRUE
    /\ UNCHANGED <<commentary, terminal_seen>>
    /\ ReleaseBefore("none", [ev |-> Position, phase |-> "none"])

\* _remember_message_item and the append to the buffer.
Delay(e) ==
    /\ Undecided(e)
    /\ should_buffer(e)
    /\ ~Full(e)
    /\ Receive(e)
    /\ message_item_ids' = IF e.kind = "message_item" /\ e.id # NoId
                           THEN message_item_ids \cup {e.id}
                           ELSE message_item_ids
    /\ buffer' = Append(buffer, Position)
    /\ buffered_bytes' = buffered_bytes + e.size
    /\ UNCHANGED <<flags, output>>

NotDelayed(e) ==
    /\ Undecided(e)
    /\ ~should_buffer(e)
    /\ Receive(e)
    /\ UNCHANGED flags
    /\ Return(annotate_if_needed(Position, e))

process(e) ==
    \/ PassThrough(e)
    \/ AfterTerminal(e)
    \/ ToolSignal(e)
    \/ Terminal(e)
    \/ Overflow(e)
    \/ Delay(e)
    \/ NotDelayed(e)

\* flush(): the generator calls it once, after the upstream's normal end.
flush ==
    /\ ~eof
    /\ eof' = TRUE
    /\ output' = output \o flushed("none")
    /\ buffer' = <<>>
    /\ buffered_bytes' = 0
    /\ UNCHANGED <<message_item_ids, flags, input>>

\* The stream has been read to its end.
Closed == eof /\ UNCHANGED vars

Next ==
    \/ Len(input) < MaxInput /\ \E e \in Event : process(e)
    \/ flush
    \/ Closed

Spec == Init /\ [][Next]_vars

-----------------------------------------------------------------------------
(* Properties. *)

Positions == 1..Len(input)

\* Type invariant.
TypeOK ==
    /\ input \in Seq(Event)
    /\ buffer \in Seq(Positions)
    /\ buffered_bytes \in Nat
    /\ message_item_ids \subseteq ItemIds
    /\ commentary \in BOOLEAN
    /\ terminal_seen \in BOOLEAN
    /\ passthrough \in BOOLEAN
    /\ output \in Seq([ev : Positions, phase : Phases])
    /\ eof \in BOOLEAN

Delivered(i) == \E p \in DOMAIN output : output[p].ev = i
Delayed(i) == \E b \in DOMAIN buffer : buffer[b] = i

\* Delaying neither loses nor repeats an event: each event given to process()
\* is either still delayed or was returned, never both and never twice, and
\* nothing is delayed any more once the end of the stream was flushed.
ExactlyOnce ==
    /\ \A i \in Positions : Delivered(i) <=> ~Delayed(i)
    /\ \A p, q \in DOMAIN output : output[p].ev = output[q].ev => p = q
    /\ \A b, c \in DOMAIN buffer : buffer[b] = buffer[c] => b = c
    /\ eof => buffer = <<>>

\* The two events must reach the client in the order they arrived in: one of
\* them is a tool or a terminal event, or they belong to the same message item.
Barrier(e) == e.kind \in ToolKinds \cup TerminalKinds
SameMessage(e, f) ==
    e.kind \in MessageKinds /\ f.kind \in MessageKinds /\ e.id = f.id
MustKeepOrder(e, f) == Barrier(e) \/ Barrier(f) \/ SameMessage(e, f)

\* Events that are returned at once may overtake delayed ones, but never an
\* event of their own message item, and nothing moves across a tool event or
\* the terminal event of the response.
OrderKept ==
    \A p, q \in DOMAIN output :
        p < q /\ output[q].ev < output[p].ev
            => ~MustKeepOrder(input[output[q].ev], input[output[p].ev])

\* What delaying may do to the stream: every event arrives once, after those it
\* must follow.
DeliveryKept == ExactlyOnce /\ OrderKept

\* The event returned at place p, and the places up to the terminal event.
At(p) == input[output[p].ev]
UpToTerminal(p) == \A q \in DOMAIN output : q < p => At(q).kind \notin TerminalKinds
PhaseAt(p) == CarriesPhase(At(p)) /\ UpToTerminal(p)

\* All message items of a response, and the messages its response.completed
\* lists, carry one and the same phase: "added" and "done" of an item agree
\* (docs/en/codex-tool-localization/basic-conversation.md), and a turn is never
\* part commentary, part final answer.  Events after the terminal one, which no
\* converter emits, are left aside.
OnePhase ==
    \A p, q \in DOMAIN output :
        PhaseAt(p) /\ PhaseAt(q) => output[p].phase = output[q].phase

\* A turn that calls a tool is never presented as the final answer, and a turn
\* whose tool call the buffer noticed is presented as commentary throughout.
ToolTurnIsCommentary ==
    \A p, q \in DOMAIN output :
        has_tool_signal(At(p)) /\ UpToTerminal(p) /\ PhaseAt(q)
            => output[q].phase = IF passthrough THEN "none" ELSE "commentary"

\* What the client is told of the turn: one phase, and the right one.
TurnHasItsPhase == OnePhase /\ ToolTurnIsCommentary

\* Memory is bounded by what is really in the buffer, not by what the counter
\* says, and the two limits are the only reason to give up phase inference.
BufferedSize ==
    LET upto[n \in 0..Len(buffer)] ==
            IF n = 0 THEN 0 ELSE upto[n - 1] + input[buffer[n]].size
    IN  upto[Len(buffer)]
BufferBounded ==
    /\ Len(buffer) <= MaxEvents
    /\ BufferedSize = buffered_bytes
    /\ BufferedSize <= MaxBytes

\* commentary, terminal_seen and passthrough never fall back, and none of them
\* rises over delayed events: the step that raises one empties the buffer.
Latches ==
    [][/\ commentary => commentary'
       /\ terminal_seen => terminal_seen'
       /\ passthrough => passthrough'
       /\ flags # flags' => buffer' = <<>>]_vars
=============================================================================
