-------------------------- MODULE ResponsesProtocol -------------------------
(***************************************************************************)
(* What a client of the Responses endpoint may rely on when it reads one   *)
(* stream: response.created comes first, every output item is added once,  *)
(* its deltas lie between its "added" and its "done" events, what "done"   *)
(* reports is what the deltas added up to, and response.completed comes    *)
(* last, when every item is done, and lists exactly those items.           *)
(*                                                                         *)
(* This is the abstract specification StreamBridge implements; it knows    *)
(* nothing of chunks, contexts or buffers.                                 *)
(***************************************************************************)
EXTENDS Naturals, SequencesExt

CONSTANTS
    Message,     \* the message item (one per stream)
    Reasoning,   \* the reasoning item
    Tools,       \* the tool call items
    Silent       \* the members of Tools whose arguments are not streamed

Items == {Message, Reasoning} \cup Tools

VARIABLES
    sent,       \* number of events the client has received
    phase,      \* "idle", "open" or "completed"
    stage,      \* per item: how far its events have come
    content,    \* per item: the fragments it consists of
    listed      \* the items response.completed lists

vars == <<sent, phase, stage, content, listed>>

Stages == {"absent", "added", "streaming", "closed", "sealed", "done"}

Init ==
    /\ sent = 0
    /\ phase = "idle"
    /\ stage = [i \in Items |-> "absent"]
    /\ content = [i \in Items |-> <<>>]
    /\ listed = {}

Created ==
    /\ phase = "idle"
    /\ phase' = "open"
    /\ sent' = sent + 1
    /\ UNCHANGED <<stage, content, listed>>

\* One event about item i moves it from stage `from` to stage `to`.
Move(i, from, to) ==
    /\ phase = "open"
    /\ stage[i] = from
    /\ stage' = [stage EXCEPT ![i] = to]
    /\ sent' = sent + 1
    /\ UNCHANGED <<phase, listed>>

\* The content of item i is taken from the event; the others keep theirs.
Writes(i) ==
    /\ content' \in [Items -> Seq(Nat)]
    /\ \A j \in Items \ {i} : content'[j] = content[j]

ItemAdded(i) ==
    /\ Move(i, "absent", IF i = Message THEN "added" ELSE "streaming")
    /\ UNCHANGED content

PartAdded == Move(Message, "added", "streaming") /\ UNCHANGED content

Delta(i) ==
    /\ i \notin Silent
    /\ Move(i, "streaming", "streaming")
    /\ Writes(i)
    /\ IsPrefix(content[i], content'[i])

\* output_text.done, function_call_arguments.done, custom_tool_call_input.done.
ContentDone(i) ==
    /\ i # Reasoning /\ i \notin Silent
    /\ Move(i, "streaming", IF i = Message THEN "closed" ELSE "sealed")
    /\ UNCHANGED content

PartDone == Move(Message, "closed", "sealed") /\ UNCHANGED content

\* A silent item reports its arguments here for the first time.
ItemDone(i) ==
    /\ Move(i, IF i = Reasoning \/ i \in Silent THEN "streaming" ELSE "sealed", "done")
    /\ Writes(i)
    /\ i \notin Silent => content'[i] = content[i]

Completed ==
    /\ phase = "open"
    /\ \A i \in Items : stage[i] \in {"absent", "done"}
    /\ phase' = "completed"
    /\ listed' = {i \in Items : stage[i] = "done"}
    /\ sent' = sent + 1
    /\ UNCHANGED <<stage, content>>

Next ==
    \/ Created
    \/ \E i \in Items : ItemAdded(i) \/ Delta(i) \/ ContentDone(i) \/ ItemDone(i)
    \/ PartAdded
    \/ PartDone
    \/ Completed

Spec == Init /\ [][Next]_vars
=============================================================================
