---------------------------- MODULE WebSearchLoop ----------------------------
(***************************************************************************)
(* One client stream in which the gateway runs the model's web searches:   *)
(* gateway/web_search.py and proxy.py:_web_search_stream_event_generator.  *)
(*                                                                         *)
(* The model is asked in rounds.  Each round is an upstream stream of its  *)
(* own, converted by a processor of its own (StreamBridge).  The           *)
(* controller lets one response.created and one response.completed         *)
(* through, keeps back the "done" of a web_search call, and when a round   *)
(* made such calls they are executed one after the other, reported to the  *)
(* client and, in a further request, to the model.                         *)
(*                                                                         *)
(*   upstream chunk | processor              Text, CallStart, ..., Finish  *)
(*   source event   | process_source_event   Feed                          *)
(*   event          | phase buffer           PB!process                    *)
(*   output         | yield                  Yield                         *)
(*                                                                         *)
(* The events of an item are its "added", a text event of a message, its   *)
(* "done"; arguments, reasoning and usage are StreamBridge's subject.      *)
(***************************************************************************)
EXTENDS Naturals, SequencesExt

CONSTANTS
    max_rounds,    \* follow-up requests a stream may need
    MaxChunks,     \* bound of the model: chunks of one round before its finish
    MaxEvents      \* max_buffered_events of the phase buffer

ASSUME RoundsAssumption == max_rounds \in Nat /\ MaxChunks \in Nat /\ MaxEvents \in Nat

\* The items of a round: its message, a call of a client's tool, its searches.
Rounds == 0..max_rounds
Message(r) == [kind |-> "message", round |-> r, n |-> 0]
Call(r) == [kind |-> "call", round |-> r, n |-> 0]
Search(r, n) == [kind |-> "search", round |-> r, n |-> n]
Messages == {Message(r) : r \in Rounds}
Searches == {Search(r, n) : r \in Rounds, n \in 1..MaxChunks}
Items == Messages \cup {Call(r) : r \in Rounds} \cup Searches
NoItem == [kind |-> "none", round |-> 0, n |-> 0]

Outcomes == {"completed", "failed"}
Results == [item : Searches, status : Outcomes]

VARIABLES
    \* the current upstream stream and its processor
    upstream,            \* [n, items, finished]: chunks sent, items announced
    open,                \* the stream holds a connection
    round_index,
    current_body,        \* the search results the request body reports, in order
    \* WebSearchStreamController
    controller,          \* [created, completed_items, pending_calls, indexes]
    \* execute_many
    calls, results,
    \* generator
    generator,           \* where it is, see Generators
    events,              \* source events still to process
    yielded,             \* number of entries of output the client has received
    \* phase buffer
    buffer, buffered_bytes, message_item_ids,
    commentary, terminal_seen, passthrough, input, output, eof

PB == INSTANCE ResponsesPhaseBuffer WITH
        ItemIds <- Messages, NoId <- NoItem, Sizes <- {1},
        MaxBytes <- 1000, MaxInput <- 1000

bufferVars == <<buffer, buffered_bytes, message_item_ids, commentary, terminal_seen,
                passthrough, input, output, eof>>
roundVars == <<upstream, open, round_index, current_body>>
searchVars == <<calls, results>>
vars == <<roundVars, controller, searchVars, generator, events, yielded, bufferVars>>

\* "streaming" reads chunks, "closing" handles what the end of the stream left,
\* "searching" executes, "announcing" reports to the client, "requesting" waits
\* for the model, "flushing" ends the response.
Ended == {"completed", "cancelled", "error"}
Generators ==
    {"streaming", "closing", "searching", "announcing", "requesting", "flushing"} \cup Ended

NewProcessor == [n |-> 0, items |-> <<>>, finished |-> FALSE]

Init ==
    /\ upstream = NewProcessor
    /\ open = TRUE
    /\ round_index = 0
    /\ current_body = <<>>
    /\ controller = [created |-> FALSE, completed_items |-> <<>>, pending_calls |-> <<>>,
                     indexes |-> [s \in {} |-> 0]]
    /\ calls = <<>> /\ results = <<>>
    /\ generator = "streaming"
    /\ events = <<>>
    /\ yielded = 0
    /\ PB!Init

-----------------------------------------------------------------------------
(* Source events: what the phase buffer looks at, and the item they are     *)
(* about; index is the output_index, output what response.completed lists.  *)

Event(type, kind, item, index) ==
    [type |-> type, kind |-> kind, id |-> IF item \in Messages THEN item ELSE NoItem,
     size |-> 1, item |-> item, index |-> index, status |-> "none", output |-> <<>>]

\* The elements of a sequence that are in S, in their order.
Select(seq, S) ==
    LET upto[k \in 0..Len(seq)] ==
            IF k = 0 THEN <<>>
            ELSE IF seq[k] \in S THEN Append(upto[k - 1], seq[k]) ELSE upto[k - 1]
    IN  upto[Len(seq)]

KindOf(item) == IF item \in Messages THEN "message_item" ELSE "tool_item"

\* A message is at 0, a call after the calls and the message known so far.
InOutputOrder(items) == Select(items, Messages) \o Select(items, Items \ Messages)
IndexIn(items, item) == (CHOOSE k \in DOMAIN items : items[k] = item) - 1

Added(item, items) ==
    Event("added", KindOf(item), item, IndexIn(InOutputOrder(items), item))
Text(item) == Event("text", "message_part", item, 0)
Done(item, items) ==
    Event("done", KindOf(item), item, IndexIn(InOutputOrder(items), item))
Created == Event("created", "other", NoItem, 0)

\* A finished item of response.completed's output.
Listed(item) == [item |-> item, status |-> "completed"]
Completed(output_items) ==
    LET tool == \E entry \in ToSet(output_items) : entry.item \notin Messages
    IN  [Event("completed", IF tool THEN "completed_tool" ELSE "completed", NoItem, 0)
            EXCEPT !.output = output_items]

-----------------------------------------------------------------------------
(* The upstream and the round's processor. *)

Delivering == events # <<>> \/ yielded < Len(output)
AwaitsChunk == generator = "streaming" /\ ~Delivering

Receive(items, finished, source) ==
    /\ AwaitsChunk /\ ~upstream.finished
    /\ upstream' = [n |-> upstream.n + 1, items |-> items, finished |-> finished]
    /\ events' = (IF upstream.n = 0 THEN <<Created>> ELSE <<>>) \o source
    /\ UNCHANGED <<open, round_index, current_body, controller, searchVars, generator, yielded,
                   bufferVars>>

Starts(item) ==
    LET items == Append(upstream.items, item)
    IN  /\ upstream.n < MaxChunks
        /\ item \notin ToSet(upstream.items)
        /\ Receive(items, FALSE, <<Added(item, items)>>)

\* The first text starts the message.
TextChunk ==
    LET m == Message(round_index)
        items == Append(upstream.items, m)
    IN  /\ upstream.n < MaxChunks
        /\ IF m \in ToSet(upstream.items) THEN Receive(upstream.items, FALSE, <<Text(m)>>)
           ELSE Receive(items, FALSE, <<Added(m, items), Text(m)>>)

CallChunk == Starts(Call(round_index))

SearchesIn(items) == Select(items, Searches)
SearchChunk == Starts(Search(round_index, Len(SearchesIn(upstream.items)) + 1))

\* The finish chunk: every item is done.
FinishChunk ==
    LET done == InOutputOrder(upstream.items)
    IN  Receive(upstream.items, TRUE, [k \in DOMAIN done |-> Done(done[k], upstream.items)])

\* The end of the upstream stream.  It is closed, and finalize_stream ends the
\* round with response.completed if a finish chunk had arrived.
UpstreamEOF ==
    LET done == InOutputOrder(upstream.items)
    IN  /\ AwaitsChunk
        /\ open' = FALSE
        /\ generator' = "closing"
        /\ events' = IF upstream.finished THEN <<Completed([k \in DOMAIN done |-> Listed(done[k])])>>
                     ELSE <<>>
        /\ UNCHANGED <<upstream, round_index, current_body, controller, searchVars, yielded,
                       bufferVars>>

\* The connection breaks or stays silent for too long; the client is told.
UpstreamError ==
    /\ AwaitsChunk
    /\ open' = FALSE
    /\ generator' = "error"
    /\ UNCHANGED <<upstream, round_index, current_body, controller, searchVars, events, yielded,
                   bufferVars>>

-----------------------------------------------------------------------------
(* process_source_event, one action per branch.  What it lets through goes *)
(* to the phase buffer; a source event is processed once what the previous *)
(* one released has been yielded.                                          *)

Processing(type) ==
    /\ generator \in {"streaming", "closing"}
    /\ events # <<>> /\ yielded = Len(output)
    /\ Head(events).type = type
    /\ events' = Tail(events)
    /\ UNCHANGED <<roundVars, searchVars, generator, yielded>>

Drop == UNCHANGED bufferVars

FirstCreated ==
    /\ Processing("created")
    /\ ~controller.created
    /\ controller' = [controller EXCEPT !.created = TRUE]
    /\ PB!process(Head(events))

LaterCreated ==
    /\ Processing("created")
    /\ controller.created
    /\ Drop /\ UNCHANGED controller

\* _set_web_search_output_index: the index of a search is fixed once.
WithIndex(indexes, item) ==
    IF item \in DOMAIN indexes THEN indexes
    ELSE [s \in DOMAIN indexes \cup {item} |->
            IF s = item
            THEN Len(controller.completed_items) + Len(controller.pending_calls)
            ELSE indexes[s]]

SearchAdded ==
    LET item == Head(events).item
    IN  /\ Processing("added")
        /\ item \in Searches
        /\ controller' = [controller EXCEPT !.indexes = WithIndex(@, item)]
        /\ PB!process([Head(events) EXCEPT !.index = controller'.indexes[item]])

\* Mutant: a second search of the round replaces the first.
SearchDone_replaces ==
    LET item == Head(events).item
    IN  /\ Processing("done")
        /\ item \in Searches
        /\ controller' = [controller EXCEPT !.indexes = WithIndex(@, item),
                                            !.pending_calls = <<item>>]
        /\ Drop

\* The search is to be executed before the client sees it done.
SearchDone ==
    LET item == Head(events).item
    IN  /\ Processing("done")
        /\ item \in Searches
        /\ controller' = [controller EXCEPT !.indexes = WithIndex(@, item),
                                            !.pending_calls = Append(@, item)]
        /\ Drop

\* The response goes on with another round.
ResponseHeld ==
    /\ Processing("completed")
    /\ controller.pending_calls # <<>>
    /\ Drop /\ UNCHANGED controller

\* _patch_completed_response: the searches come before the last round's items.
Patched(output_items) ==
    LET there == {entry.item : entry \in ToSet(output_items)}
    IN  Select(controller.completed_items, {c \in Results : c.item \notin there}) \o output_items

ResponseCompleted ==
    /\ Processing("completed")
    /\ controller.pending_calls = <<>>
    /\ PB!process(Completed(Patched(Head(events).output)))
    /\ UNCHANGED controller

\* _shift_output_index.
Shifted(e) ==
    IF round_index = 0 THEN e
    ELSE [e EXCEPT !.index = @ + Len(controller.completed_items)]

OtherEvent ==
    /\ \E type \in {"added", "text", "done"} : Processing(type)
    /\ Head(events).item \notin Searches
    /\ PB!process(Shifted(Head(events)))
    /\ UNCHANGED controller

process_source_event ==
    \/ FirstCreated \/ LaterCreated
    \/ SearchAdded \/ SearchDone
    \/ ResponseHeld \/ ResponseCompleted
    \/ OtherEvent

\* The events of complete_search_results do not pass the controller.
Announce ==
    /\ generator = "announcing"
    /\ events # <<>> /\ yielded = Len(output)
    /\ events' = Tail(events)
    /\ PB!process(Head(events))
    /\ UNCHANGED <<roundVars, controller, searchVars, generator, yielded>>

Yield ==
    /\ generator \notin Ended
    /\ yielded < Len(output)
    /\ yielded' = yielded + 1
    /\ UNCHANGED <<roundVars, controller, searchVars, generator, events, bufferVars>>

-----------------------------------------------------------------------------
(* Between two rounds. *)

RoundOver == generator = "closing" /\ ~Delivering
Goto(place) == generator' = place

NoSearches ==
    /\ RoundOver
    /\ controller.pending_calls = <<>>
    /\ Goto("flushing")
    /\ UNCHANGED <<roundVars, controller, searchVars, events, yielded, bufferVars>>

TooManyRounds ==
    /\ RoundOver
    /\ controller.pending_calls # <<>>
    /\ round_index >= max_rounds
    /\ controller' = [controller EXCEPT !.pending_calls = <<>>]
    /\ Goto("error")
    /\ UNCHANGED <<roundVars, searchVars, events, yielded, bufferVars>>

\* Mutant: the rounds are not limited.
StartSearches_unlimited ==
    /\ RoundOver
    /\ controller.pending_calls # <<>>
    /\ calls' = controller.pending_calls
    /\ controller' = [controller EXCEPT !.pending_calls = <<>>]
    /\ Goto("searching")
    /\ UNCHANGED <<roundVars, results, events, yielded, bufferVars>>

\* pop_pending_calls and the start of execute_many.
StartSearches ==
    /\ RoundOver
    /\ controller.pending_calls # <<>>
    /\ round_index < max_rounds
    /\ calls' = controller.pending_calls
    /\ controller' = [controller EXCEPT !.pending_calls = <<>>]
    /\ Goto("searching")
    /\ UNCHANGED <<roundVars, results, events, yielded, bufferVars>>

Searching == generator = "searching" /\ Len(results) < Len(calls)

\* execute: a search that raises has failed, and the next one is run.
SearchEnds(outcome) ==
    /\ Searching
    /\ results' = Append(results, [item |-> calls[Len(results) + 1], status |-> outcome])
    /\ UNCHANGED <<roundVars, controller, calls, generator, events, yielded, bufferVars>>

\* Mutant: only the searches of the last round are remembered.
complete_search_results_last ==
    /\ generator = "searching" /\ Len(results) = Len(calls)
    /\ controller' = [controller EXCEPT !.completed_items = results]
    /\ events' = [k \in DOMAIN results |->
                    [Event("done", "tool_item", results[k].item,
                           controller.indexes[results[k].item])
                        EXCEPT !.status = results[k].status]]
    /\ Goto("announcing")
    /\ UNCHANGED <<roundVars, searchVars, yielded, bufferVars>>

complete_search_results ==
    /\ generator = "searching" /\ Len(results) = Len(calls)
    /\ controller' = [controller EXCEPT !.completed_items = @ \o results]
    /\ events' = [k \in DOMAIN results |->
                    [Event("done", "tool_item", results[k].item,
                           controller.indexes[results[k].item])
                        EXCEPT !.status = results[k].status]]
    /\ Goto("announcing")
    /\ UNCHANGED <<roundVars, searchVars, yielded, bufferVars>>

\* Mutant: the body is built from the first request each time.
append_tool_results_restarts ==
    /\ generator = "announcing" /\ ~Delivering
    /\ current_body' = results
    /\ calls' = <<>> /\ results' = <<>>
    /\ Goto("requesting")
    /\ UNCHANGED <<upstream, open, round_index, controller, events, yielded, bufferVars>>

append_tool_results ==
    /\ generator = "announcing" /\ ~Delivering
    /\ current_body' = current_body \o results
    /\ calls' = <<>> /\ results' = <<>>
    /\ Goto("requesting")
    /\ UNCHANGED <<upstream, open, round_index, controller, events, yielded, bufferVars>>

FollowUpOpens ==
    /\ generator = "requesting"
    /\ upstream' = NewProcessor
    /\ open' = TRUE
    /\ round_index' = round_index + 1
    /\ Goto("streaming")
    /\ UNCHANGED <<current_body, controller, searchVars, events, yielded, bufferVars>>

\* The upstream cannot be reached, or it refuses: send_streaming has then read the
\* error and closed the response, so that read_error and close do not suspend, and
\* there is no step between the refusal and the end.
FollowUpFails ==
    /\ generator = "requesting"
    /\ Goto("error")
    /\ UNCHANGED <<roundVars, controller, searchVars, events, yielded, bufferVars>>

FlushBuffer ==
    /\ generator = "flushing"
    /\ PB!flush
    /\ UNCHANGED <<roundVars, controller, searchVars, generator, events, yielded>>

Complete ==
    /\ generator = "flushing" /\ eof /\ ~Delivering
    /\ Goto("completed")
    /\ UNCHANGED <<roundVars, controller, searchVars, events, yielded, bufferVars>>

\* The client goes away, at any yield or await.
Awaits ==
    \/ generator \notin Ended /\ yielded < Len(output)
    \/ AwaitsChunk
    \/ Searching
    \/ generator = "requesting"

Cancel ==
    /\ Awaits
    /\ open' = FALSE
    /\ Goto("cancelled")
    /\ UNCHANGED <<upstream, round_index, current_body, controller, searchVars, events, yielded,
                   bufferVars>>

Stopped == generator \in Ended /\ UNCHANGED vars

Upstream == TextChunk \/ CallChunk \/ SearchChunk \/ FinishChunk \/ UpstreamEOF \/ UpstreamError
Between ==
    \/ NoSearches \/ TooManyRounds \/ StartSearches
    \/ \E outcome \in Outcomes : SearchEnds(outcome)
    \/ complete_search_results \/ append_tool_results
    \/ FollowUpOpens \/ FollowUpFails
    \/ FlushBuffer \/ Complete
Progress == Upstream \/ process_source_event \/ Announce \/ Yield \/ Between

Next == Progress \/ Cancel \/ Stopped
Spec == Init /\ [][Next]_vars

\* The upstream's next line, a search and the opening of a follow-up are each
\* waited for with a timeout, and the client reads what is yielded or goes away.
Fairness == WF_vars(Progress)
FairSpec == Spec /\ Fairness

-----------------------------------------------------------------------------
(* Properties. *)

\* What the client has received.
Shown == [p \in 1..yielded |-> input[output[p].ev]]
IsShown(type, item) == \E p \in DOMAIN Shown : Shown[p].type = type /\ Shown[p].item = item

\* The outcomes of searches that a sequence of events reports, in its order.
Reports(e) == e.type = "done" /\ e.item \in Searches
Reported(seq) ==
    LET upto[k \in 0..Len(seq)] ==
            IF k = 0 THEN <<>>
            ELSE IF Reports(seq[k])
            THEN Append(upto[k - 1], [item |-> seq[k].item, status |-> seq[k].status])
            ELSE upto[k - 1]
    IN  upto[Len(seq)]
SearchesDone == Reported(Shown)

\* Type invariant.
TypeOK ==
    /\ upstream \in [n : 0..MaxChunks + 1, items : Seq(Items), finished : BOOLEAN]
    /\ open \in BOOLEAN
    /\ round_index \in Rounds
    /\ current_body \in Seq(Results)
    /\ controller.created \in BOOLEAN
    /\ controller.completed_items \in Seq(Results)
    /\ controller.pending_calls \in Seq(Searches)
    /\ DOMAIN controller.indexes \subseteq Searches
    /\ \A s \in DOMAIN controller.indexes : controller.indexes[s] \in Nat
    /\ calls \in Seq(Searches)
    /\ results \in Seq(Results) /\ Len(results) <= Len(calls)
    /\ generator \in Generators
    /\ events \in Seq({Created} \cup [type : {"added", "text", "done", "completed"},
                            kind : PB!Kinds, id : Messages \cup {NoItem}, size : {1},
                            item : Items \cup {NoItem}, index : Nat,
                            status : Outcomes \cup {"none"}, output : Seq(Results \cup
                                {Listed(i) : i \in Items})])
    /\ yielded \in 0..Len(output)

\* To the client the rounds are one response: created once, before anything
\* else; completed once, after everything else, with the executed searches in
\* the order they were reported, as they ended, and then the items of the last
\* round, each of them done; an item is announced once, before it is done once,
\* and a search keeps the output_index it was announced with.
OneResponse ==
    LET S == Shown
        First(type, item) == \E p \in DOMAIN S :
            /\ S[p].type = type /\ S[p].item = item
            /\ \A q \in DOMAIN S : S[q].type = type /\ S[q].item = item => p = q
    IN  \A p \in DOMAIN S :
            /\ S[p].type = "created" <=> p = 1
            /\ S[p].type = "added" => First("added", S[p].item)
            /\ S[p].type \in {"text", "done"} =>
                    \E q \in 1..p - 1 :
                        /\ S[q].type = "added" /\ S[q].item = S[p].item
                        /\ S[p].item \in Searches => S[q].index = S[p].index
            /\ S[p].type = "done" => First("done", S[p].item)
            /\ S[p].type = "completed" =>
                    /\ p = Len(S)
                    /\ IsPrefix(SearchesDone, S[p].output)
                    /\ {S[p].output[k].item : k \in Len(SearchesDone) + 1 .. Len(S[p].output)}
                            = ToSet(upstream.items)
                    /\ \A entry \in ToSet(S[p].output) : IsShown("done", entry.item)

\* The model and the client hear the same of the searches: while a round is
\* answered, its request reports exactly the searches the client was shown as
\* done, in that order and with those outcomes, and that is every search of the
\* earlier rounds.  No upstream stream stays open behind a response that ended.
ModelIsTold ==
    /\ generator \in {"requesting", "streaming", "closing"} => current_body = SearchesDone
    /\ \A s \in Searches :
            IsShown("added", s) /\ s.round < round_index
                => \E k \in DOMAIN current_body : current_body[k].item = s
    /\ open => generator = "streaming"

\* A search the client sees starting ends before its eyes, unless the client
\* leaves, the stream ends in an error it is told of, or the upstream breaks off
\* before the finish of the round.
SearchIsAnswered ==
    \A s \in Searches :
        IsShown("added", s) ~>
            \/ IsShown("done", s)
            \/ generator \in {"cancelled", "error"}
            \/ generator = "completed" /\ ~upstream.finished

\* The answer of a round that calls no tool is not presented as commentary
\* (docs/dev/version-compatibility/upgrade-checklist.md:513).
FinalAnswerIsNotFolded ==
    generator = "completed" /\ upstream.items = <<Message(round_index)>>
        => \A p \in DOMAIN Shown :
               Shown[p].item = Message(round_index) => output[p].phase # "commentary"
=============================================================================
