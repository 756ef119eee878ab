---------------------------- MODULE StreamBridge ----------------------------
(***************************************************************************)
(* One streaming turn of the gateway: an upstream Chat Completions stream  *)
(* is turned into the Responses stream the client reads.                   *)
(*                                                                         *)
(*   upstream chunk                                                        *)
(*     | converters/openai_chat: stream_response_from_provider  FromProvider *)
(*   ir events                                                             *)
(*     | gateway/tool_adaptation: transform    Hold..., FlushCalls, PassOn *)
(*   transformed ir events                                                 *)
(*     | converters/openai_responses: stream_response_to_provider handle_* *)
(*   source events                                                         *)
(*     | gateway/stream_phase_buffer: process                    Feed      *)
(*   output  --  yielded one by one by _stream_event_generator   Yield     *)
(*                                                                         *)
(* process_chunk runs without an await, so the conversion steps of a chunk *)
(* cannot be interrupted; the generator waits for the next chunk, and is   *)
(* suspended at each yield, and there it can be closed.                    *)
(*                                                                         *)
(* Text, reasoning and tool arguments are sequences of fragments; a        *)
(* fragment is the number of the chunk that brought it.  Arguments that    *)
(* the gateway rewrote as a whole are headed by the fragment 0.            *)
(***************************************************************************)
EXTENDS Naturals, SequencesExt

CONSTANTS
    Tools,         \* ids of the tool calls the upstream may make
    ToolType,      \* [Tools -> {"function", "localized", "custom", "web_search"}]
    Turns,         \* bound of the model: the sets of calls a turn may make
    MaxChunks,     \* bound of the model: chunks of the upstream stream
    MaxEvents,     \* max_buffered_events of the phase buffer
    Quirks         \* what this upstream does beside the plain protocol

ASSUME ToolTypeAssumption ==
    ToolType \in [Tools -> {"function", "localized", "custom", "web_search"}]
ASSUME TurnsAssumption == Turns \subseteq SUBSET Tools
ASSUME QuirksAssumption == Quirks \subseteq {"usage_early"}
ASSUME LimitsAssumption == MaxChunks \in Nat /\ MaxEvents \in Nat

Message == "message"
Reasoning == "reasoning"
NoId == "none"
Items == {Message, Reasoning} \cup Tools
ASSUME NamesAssumption == Tools \cap {Message, Reasoning, NoId} = {}

VARIABLES
    \* upstream
    up,             \* [n, order, finished, last]: chunks sent, tools called, finish
                    \* sent, no chunk to follow
    told,           \* history: the items, their content and the late usage it sent
    \* StreamContext of the upstream side, and the StreamProcessor
    from_started, from_ended,
    from_order,     \* _tool_call_order
    saw_finish,
    ir,             \* ir events of the current chunk still to transform
    transformed,    \* their replacements still to convert
    \* LocalizedToolCallStreamTransformer
    pending,        \* _pending, in insertion order: [id, args]
    persisted,      \* mappings written to the store by on_mapping
    \* OpenAIResponsesStreamContext
    to,
    \* generator
    events,         \* source events still to hand to the phase buffer
    generator,      \* "running", "finalized", "completed", "cancelled", "error"
    yielded,        \* number of entries of output the client has received
    client,         \* history: what those events told it
    \* phase buffer
    buffer, buffered_bytes, message_item_ids,
    commentary, terminal_seen, passthrough, input, output, eof

PB == INSTANCE ResponsesPhaseBuffer WITH
        ItemIds <- {Message}, NoId <- NoId, Sizes <- {1},
        MaxBytes <- 1000, MaxInput <- 1000

fromVars == <<from_started, from_ended, from_order, saw_finish>>
adaptVars == <<pending, persisted>>
bufferVars == <<buffer, buffered_bytes, message_item_ids, commentary, terminal_seen,
                passthrough, input, output, eof>>
vars == <<up, told, fromVars, ir, transformed, adaptVars, to, events, generator, yielded,
          client, bufferVars>>

Localized(t) == ToolType[t] = "localized"
NotSet == {0}     \* a usage that was never set; otherwise a set of chunk numbers

-----------------------------------------------------------------------------
(* The upstream. *)

Init ==
    /\ up = [n |-> 0, order |-> <<>>, finished |-> FALSE, last |-> FALSE]
    /\ told = [items |-> {}, content |-> [i \in Items |-> <<>>], usage |-> {}]
    /\ from_started = FALSE /\ from_ended = FALSE
    /\ from_order = <<>>
    /\ saw_finish = FALSE
    /\ ir = <<>> /\ transformed = <<>>
    /\ pending = <<>> /\ persisted = {}
    /\ to = [started |-> FALSE, ended |-> FALSE,
             output_item_emitted |-> FALSE, accumulated_text |-> <<>>,
             reasoning_seen |-> FALSE, reasoning_item_emitted |-> FALSE,
             reasoning_item_done_emitted |-> FALSE, accumulated_reasoning |-> <<>>,
             order |-> <<>>, args |-> [t \in Tools |-> <<>>],
             pending_usage |-> NotSet, pending_response |-> <<>>]
    /\ events = <<>>
    /\ generator = "running"
    /\ yielded = 0
    /\ client = [phase |-> "idle", stage |-> [i \in Items |-> "absent"],
                 content |-> [i \in Items |-> <<>>], listed |-> {}, usage |-> {}]
    /\ PB!Init

Converting == ir # <<>> \/ transformed # <<>>
Delivering == events # <<>> \/ yielded < Len(output)
AwaitsChunk == generator = "running" /\ ~Converting /\ ~Delivering

ItemOf(delta) ==
    CASE delta.kind = "text" -> {Message}
      [] delta.kind = "reasoning" -> {Reasoning}
      [] delta.kind = "none" -> {}
      [] OTHER -> {delta.tool}

\* The calls this turn may still make.
Callable == {t \in Tools \ ToSet(up.order) :
                \E turn \in Turns : ToSet(up.order) \cup {t} \subseteq turn}

Sent(c, n) ==
    [items   |-> told.items \cup ItemOf(c.delta),
     content |-> [i \in Items |-> IF i \in ItemOf(c.delta) /\ c.delta.carries
                                 THEN Append(told.content[i], n) ELSE told.content[i]],
     usage   |-> IF c.usage /\ (up.finished \/ c.finish) /\ ~from_ended
                 THEN told.usage \cup {n} ELSE told.usage]

\* A chunk: the delta of its only choice, its finish_reason, its usage.
Delta(kind, tool, carries) == [kind |-> kind, tool |-> tool, carries |-> carries]
NoDelta == Delta("none", NoId, FALSE)

\* A first reasoning delta may be the empty string.
Deltas ==
    {Delta("text", NoId, TRUE), Delta("reasoning", NoId, TRUE)}
    \cup {Delta("reasoning", NoId, FALSE) : i \in {Reasoning} \ told.items}
    \cup {Delta("tool_start", t, a) : t \in Callable, a \in BOOLEAN}
    \cup {Delta("tool_args", t, TRUE) : t \in ToSet(up.order)}

Chunk(delta, finish, usage, empty) ==
    [delta |-> delta, finish |-> finish, usage |-> usage,
     empty |-> empty,          \* choices is []
     ident |-> TRUE]           \* id and model are set

\* A preflight chunk has neither choices nor an id; afterwards every chunk has
\* both, until the finish, after which there is at most one more, without
\* choices, that may report the usage.
Preflight == [Chunk(NoDelta, FALSE, FALSE, TRUE) EXCEPT !.ident = FALSE]
Chunks ==
    IF up.finished
    THEN {Chunk(NoDelta, FALSE, u, TRUE) : u \in BOOLEAN}
    ELSE {Chunk(d, FALSE, FALSE, FALSE) : d \in Deltas}
         \cup {Chunk(d, TRUE, u, FALSE) : d \in Deltas \cup {NoDelta}, u \in BOOLEAN}
         \cup (IF up.n = 0 THEN {Preflight} ELSE {})
         \cup IF "usage_early" \in Quirks
              THEN {Chunk(d, FALSE, TRUE, FALSE) : d \in Deltas} ELSE {}

-----------------------------------------------------------------------------
(* openai_chat: one chunk becomes a list of ir events.                     *)

IREvent(type, tool, data) == [type |-> type, tool |-> tool, data |-> data]
On(condition, sequence) == IF condition THEN sequence ELSE <<>>

handle_stream_start_from_p(c) ==
    On(c.ident /\ ~from_started, <<IREvent("stream_start", NoId, <<>>)>>)

\* A delta that only carries an index belongs to the call registered there.
effective_tc_id(c) ==
    LET index == CHOOSE k \in DOMAIN up.order : up.order[k] = c.delta.tool
    IN  from_order[index]

handle_tool_calls_from_p(c, n) ==
    CASE c.delta.kind = "tool_start" ->
           <<IREvent("tool_call_start", c.delta.tool, <<>>)>>
             \o On(c.delta.carries, <<IREvent("tool_call_delta", c.delta.tool, <<n>>)>>)
      [] c.delta.kind = "tool_args" ->
           <<IREvent("tool_call_delta", effective_tc_id(c), <<n>>)>>
      [] OTHER -> <<>>

handle_choice_from_p(c, n) ==
    On(c.delta.kind = "text", <<IREvent("text_delta", NoId, <<n>>)>>)
    \o On(c.delta.kind = "reasoning",
          <<IREvent("reasoning_delta", NoId, On(c.delta.carries, <<n>>))>>)
    \o handle_tool_calls_from_p(c, n)
    \o On(c.finish, <<IREvent("finish", NoId, <<>>)>>)

\* Empty choices end a stream that has started, and so does a usage that comes
\* with the finish.
handle_stream_end_from_p(c) ==
    /\ ~from_ended
    /\ \/ c.empty /\ (from_started \/ c.ident)
       \/ c.usage /\ c.finish

FromProvider ==
    /\ AwaitsChunk
    /\ ~up.last /\ up.n < MaxChunks
    /\ \E c \in Chunks :
         LET n == up.n + 1 IN
         /\ ir' = handle_stream_start_from_p(c)
                  \o handle_choice_from_p(c, n)
                  \o On(c.usage, <<IREvent("usage", NoId, <<n>>)>>)
                  \o On(handle_stream_end_from_p(c), <<IREvent("stream_end", NoId, <<>>)>>)
         /\ from_started' = (from_started \/ c.ident)
         /\ from_ended' = (from_ended \/ handle_stream_end_from_p(c))
         /\ from_order' = IF c.delta.kind = "tool_start" /\ c.delta.tool \notin ToSet(from_order)
                          THEN Append(from_order, c.delta.tool) ELSE from_order
         /\ up' = [n        |-> n,
                   order    |-> IF c.delta.kind = "tool_start"
                                THEN Append(up.order, c.delta.tool) ELSE up.order,
                   finished |-> up.finished \/ c.finish,
                   last     |-> c.empty /\ c.ident]
         /\ told' = Sent(c, n)
    /\ UNCHANGED <<saw_finish, transformed, adaptVars, to, events, generator, yielded,
                   client, bufferVars>>

-----------------------------------------------------------------------------
(* tool_adaptation: calls of localized tools are held back until the finish, *)
(* then rewritten as native calls, each mapping being stored on the way.     *)

HeldIds == {pending[k].id : k \in DOMAIN pending}
AtIR(types) == ir # <<>> /\ transformed = <<>> /\ Head(ir).type \in types

Took(replacement) ==
    /\ ir' = Tail(ir)
    /\ transformed' = replacement
    /\ saw_finish' = (saw_finish \/ Head(ir).type = "finish")
    /\ UNCHANGED <<up, told, from_started, from_ended, from_order, to, events, generator,
                   yielded, client, bufferVars>>

HoldCall ==
    /\ AtIR({"tool_call_start"}) /\ Localized(Head(ir).tool)
    /\ LET call == [id |-> Head(ir).tool, args |-> <<>>] IN
         pending' = IF call.id \in HeldIds
                    THEN [k \in DOMAIN pending |->
                             IF pending[k].id = call.id THEN call ELSE pending[k]]
                    ELSE Append(pending, call)
    /\ Took(<<>>)
    /\ UNCHANGED persisted

\* Mutant: each fragment of the arguments replaces the ones before.
HoldArguments_overwrites ==
    /\ AtIR({"tool_call_delta"}) /\ Head(ir).tool \in HeldIds
    /\ pending' = [k \in DOMAIN pending |->
                      IF pending[k].id = Head(ir).tool
                      THEN [pending[k] EXCEPT !.args = Head(ir).data]
                      ELSE pending[k]]
    /\ Took(<<>>)
    /\ UNCHANGED persisted

HoldArguments ==
    /\ AtIR({"tool_call_delta"}) /\ Head(ir).tool \in HeldIds
    /\ pending' = [k \in DOMAIN pending |->
                      IF pending[k].id = Head(ir).tool
                      THEN [pending[k] EXCEPT !.args = @ \o Head(ir).data]
                      ELSE pending[k]]
    /\ Took(<<>>)
    /\ UNCHANGED persisted

Ends == {"finish", "stream_end"}

\* What becomes of one held call: `native` are the ids of the calls that have a
\* native form; the others go on as they are.
FlushedCall(call, native) ==
    <<IREvent("tool_call_start", call.id, <<>>)>>
    \o IF call.id \in native
       THEN <<IREvent("tool_call_delta", call.id, <<0>> \o call.args)>>
       ELSE On(call.args # <<>>, <<IREvent("tool_call_delta", call.id, call.args)>>)

\* Mutant: the mappings are not stored.
FlushCalls_unstored ==
    /\ AtIR(Ends) /\ pending # <<>>
    /\ \E native \in SUBSET HeldIds :
         Took(FlattenSeq([k \in DOMAIN pending |-> FlushedCall(pending[k], native)])
              \o <<Head(ir)>>)
    /\ pending' = <<>>
    /\ UNCHANGED persisted

\* flush(), and the event that caused it.
FlushCalls ==
    /\ AtIR(Ends) /\ pending # <<>>
    /\ \E native \in SUBSET HeldIds :
         /\ persisted' = persisted \cup native
         /\ Took(FlattenSeq([k \in DOMAIN pending |-> FlushedCall(pending[k], native)])
                 \o <<Head(ir)>>)
    /\ pending' = <<>>

\* _persist_tool_mapping raises for the k-th held call: process_chunk is left by
\* the exception and the source events of this chunk are lost with it.
PersistFails ==
    /\ AtIR(Ends)
    /\ \E k \in DOMAIN pending :
         /\ \E native \in SUBSET {pending[j].id : j \in 1..(k - 1)} :
              persisted' = persisted \cup native
         /\ pending' = SubSeq(pending, k + 1, Len(pending))
    /\ generator' = "error"
    /\ ir' = <<>> /\ transformed' = <<>> /\ events' = <<>>
    /\ saw_finish' = (saw_finish \/ Head(ir).type = "finish")
    /\ UNCHANGED <<up, told, from_started, from_ended, from_order, to, yielded, client,
                   bufferVars>>

PassOn ==
    /\ ir # <<>> /\ transformed = <<>>
    /\ LET e == Head(ir) IN
         /\ ~(e.type = "tool_call_start" /\ Localized(e.tool))
         /\ ~(e.type = "tool_call_delta" /\ e.tool \in HeldIds)
         /\ e.type \in Ends => pending = <<>>
         /\ Took(<<e>>)
    /\ UNCHANGED adaptVars

-----------------------------------------------------------------------------
(* openai_responses: one ir event becomes a list of source events.          *)

\* Mutant: a reasoning item is of a kind the phase buffer does not know.
KindOf_reasoning(type, item) ==
    CASE item = Message -> IF type \in {"added", "done"} THEN "message_item" ELSE "message_part"
      [] item \in Tools  -> IF type \in {"added", "done"} THEN "tool_item" ELSE "tool_args"
      [] item = Reasoning -> "reasoning_item"
      [] OTHER -> "other"

KindOf(type, item) ==
    CASE item = Message -> IF type \in {"added", "done"} THEN "message_item" ELSE "message_part"
      [] item \in Tools  -> IF type \in {"added", "done"} THEN "tool_item" ELSE "tool_args"
      [] item = Reasoning /\ type \in {"added", "done"} -> "other_item"
      [] OTHER -> "other"

SourceEvent(type, item, data) ==
    [type |-> type, item |-> item, data |-> data,
     kind |-> KindOf(type, item), id |-> IF item = Message THEN Message ELSE NoId, size |-> 1]

AtType(type) == transformed # <<>> /\ Head(transformed).type = type

Emit(sourceEvents) ==
    /\ transformed' = Tail(transformed)
    /\ events' = events \o sourceEvents
    /\ UNCHANGED <<up, told, fromVars, ir, adaptVars, generator, yielded, client, bufferVars>>

handle_stream_start_to_p ==
    /\ AtType("stream_start")
    /\ to' = [to EXCEPT !.started = TRUE]
    /\ Emit(<<SourceEvent("created", NoId, <<>>)>>)

build_message_preamble_events ==
    <<SourceEvent("added", Message, <<>>), SourceEvent("part_added", Message, <<>>)>>

handle_text_delta_to_p ==
    /\ AtType("text_delta")
    /\ LET text == Head(transformed).data IN
         /\ to' = [to EXCEPT !.accumulated_text = @ \o text, !.output_item_emitted = TRUE]
         /\ Emit(On(~to.output_item_emitted, build_message_preamble_events)
                 \o <<SourceEvent("delta", Message, text)>>)

handle_reasoning_delta_to_p ==
    /\ AtType("reasoning_delta")
    /\ LET reasoning == Head(transformed).data IN
         /\ to' = [to EXCEPT !.reasoning_seen = TRUE, !.reasoning_item_emitted = TRUE,
                             !.accumulated_reasoning = @ \o reasoning]
         /\ Emit(On(~to.reasoning_item_emitted, <<SourceEvent("added", Reasoning, <<>>)>>)
                 \o <<SourceEvent("delta", Reasoning, reasoning)>>)

\* register_tool_call and the item's "added" event.
handle_tool_call_start_to_p ==
    /\ AtType("tool_call_start")
    /\ LET call_id == Head(transformed).tool IN
         /\ to' = [to EXCEPT !.args[call_id] = <<>>,
                             !.order = IF call_id \in ToSet(@) THEN @ ELSE Append(@, call_id)]
         /\ Emit(<<SourceEvent("added", call_id, <<>>)>>)

\* Mutant: the JSON wrapper of a custom input is streamed as well.
Streamed_custom(t) == ToolType[t] # "web_search"

\* The input of a bridged custom tool and a search query are only sent whole.
Streamed(t) == ToolType[t] \notin {"custom", "web_search"}
handle_tool_call_delta_to_p ==
    /\ AtType("tool_call_delta")
    /\ LET call_id == Head(transformed).tool
           delta == Head(transformed).data
       IN  /\ to' = [to EXCEPT !.args[call_id] = @ \o delta]
           /\ Emit(On(Streamed(call_id), <<SourceEvent("delta", call_id, delta)>>))

\* _restore_bridged_custom_tool_input: `wrapped` are the calls whose arguments
\* are the JSON wrapper of a custom input.
Arguments(t, wrapped) == IF t \in wrapped THEN <<0>> \o to.args[t] ELSE to.args[t]

collect_finish_output(wrapped) ==
    [i \in (IF to.reasoning_seen THEN {Reasoning} ELSE {})
            \cup (IF to.accumulated_text # <<>> THEN {Message} ELSE {})
            \cup ToSet(to.order)
       |-> CASE i = Reasoning -> to.accumulated_reasoning
             [] i = Message   -> to.accumulated_text
             [] OTHER         -> Arguments(i, wrapped)]

emit_reasoning_done_event ==
    On(to.reasoning_seen /\ ~to.reasoning_item_done_emitted,
       <<SourceEvent("done", Reasoning, to.accumulated_reasoning)>>)

emit_text_done_events ==
    On(to.output_item_emitted,
       <<SourceEvent("content_done", Message, to.accumulated_text),
         SourceEvent("part_done", Message, to.accumulated_text),
         SourceEvent("done", Message, to.accumulated_text)>>)

tool_call_done_events(t, wrapped) ==
    LET arguments == Arguments(t, wrapped) IN
    CASE ToolType[t] = "web_search" -> <<SourceEvent("done", t, arguments)>>
      [] ToolType[t] = "custom" ->
           On(arguments # <<>>, <<SourceEvent("delta", t, arguments)>>)
           \o <<SourceEvent("content_done", t, arguments), SourceEvent("done", t, arguments)>>
      [] OTHER ->
           <<SourceEvent("content_done", t, arguments), SourceEvent("done", t, arguments)>>

emit_tool_call_done_events(wrapped) ==
    FlattenSeq([k \in DOMAIN to.order |-> tool_call_done_events(to.order[k], wrapped)])

handle_finish_to_p ==
    /\ AtType("finish")
    /\ \E wrapped \in SUBSET {t \in ToSet(to.order) : ToolType[t] = "custom"} :
         /\ to' = [to EXCEPT !.reasoning_item_done_emitted = @ \/ to.reasoning_seen,
                             !.pending_response = <<[output |-> collect_finish_output(wrapped),
                                                     usage  |-> to.pending_usage]>>]
         /\ Emit(emit_reasoning_done_event \o emit_text_done_events
                 \o emit_tool_call_done_events(wrapped))

\* buffer_usage adds the new numbers to what is pending.
handle_usage_to_p ==
    /\ AtType("usage")
    /\ to' = [to EXCEPT !.pending_usage = (@ \ NotSet) \cup ToSet(Head(transformed).data)]
    /\ Emit(<<>>)

CompletedEvent(response) ==
    [type |-> "completed", item |-> NoId, data |-> <<>>,
     output |-> response.output, usage |-> response.usage,
     kind |-> IF \E i \in DOMAIN response.output : i \in Tools
              THEN "completed_tool" ELSE "completed",
     id |-> NoId, size |-> 1]

\* Mutant: late usage is not merged.
handle_stream_end_unmerged ==
    /\ AtType("stream_end")
    /\ to' = [to EXCEPT !.ended = TRUE, !.pending_response = <<>>]
    /\ Emit([k \in DOMAIN to.pending_response |-> CompletedEvent(to.pending_response[k])])

\* The deferred response.completed, with the usage that came after the finish.
handle_stream_end_to_p ==
    /\ AtType("stream_end")
    /\ to' = [to EXCEPT !.ended = TRUE, !.pending_response = <<>>]
    /\ IF to.pending_response = <<>>
       THEN Emit(<<>>)
       ELSE LET resp == Head(to.pending_response) IN
            Emit(<<CompletedEvent(
                     IF resp.usage = NotSet
                     THEN [resp EXCEPT !.usage = to.pending_usage] ELSE resp)>>)

ToProvider ==
    \/ handle_stream_start_to_p
    \/ handle_text_delta_to_p
    \/ handle_reasoning_delta_to_p
    \/ handle_tool_call_start_to_p
    \/ handle_tool_call_delta_to_p
    \/ handle_finish_to_p
    \/ handle_usage_to_p
    \/ handle_stream_end_to_p

-----------------------------------------------------------------------------
(* What the client makes of the events it reads.                            *)

StageAfter(e) ==
    CASE e.type = "added" -> IF e.item = Message THEN "added" ELSE "streaming"
      [] e.type \in {"part_added", "delta"} -> "streaming"
      [] e.type = "content_done" -> IF e.item = Message THEN "closed" ELSE "sealed"
      [] e.type = "part_done" -> "sealed"
      [] e.type = "done" -> "done"

Hear(e) ==
    CASE e.type = "created" -> [client EXCEPT !.phase = "open"]
      [] e.type = "completed" ->
           [client EXCEPT !.phase = "completed",
                          !.listed = DOMAIN e.output,
                          !.usage = e.usage,
                          !.content = [i \in Items |-> IF i \in DOMAIN e.output
                                                      THEN e.output[i] ELSE @[i]]]
      [] OTHER ->
           [client EXCEPT !.stage[e.item] = StageAfter(e),
                          !.content[e.item] =
                             CASE e.type = "delta" -> @ \o e.data
                               [] e.type \in {"content_done", "part_done", "done"} -> e.data
                               [] OTHER -> @]

-----------------------------------------------------------------------------
(* proxy: _stream_event_generator.                                          *)

Live == generator \in {"running", "finalized"}

\* The next source event goes through the phase buffer.
Feed ==
    /\ Live /\ ~Converting
    /\ events # <<>> /\ yielded = Len(output)
    /\ PB!process(Head(events))
    /\ events' = Tail(events)
    /\ UNCHANGED <<up, told, fromVars, ir, transformed, adaptVars, to, generator, yielded,
                   client>>

\* The client receives the next event.
Yield ==
    /\ Live /\ ~Converting
    /\ yielded < Len(output)
    /\ yielded' = yielded + 1
    /\ client' = Hear(input[output[yielded + 1].ev])
    /\ UNCHANGED <<up, told, fromVars, ir, transformed, adaptVars, to, events, generator,
                   bufferVars>>

\* Mutant: the end of the upstream does not end the response.
UpstreamEOF_unfinalized ==
    /\ AwaitsChunk
    /\ generator' = "finalized"
    /\ UNCHANGED <<up, told, fromVars, ir, transformed, adaptVars, to, events, yielded,
                   client, bufferVars>>

\* Normal end of the upstream: finalize_stream.
UpstreamEOF ==
    /\ AwaitsChunk
    /\ generator' = "finalized"
    /\ from_ended' = (from_ended \/ saw_finish)
    /\ ir' = On(saw_finish /\ ~from_ended, <<IREvent("stream_end", NoId, <<>>)>>)
    /\ UNCHANGED <<up, told, from_started, from_order, saw_finish, transformed, adaptVars, to,
                   events, yielded, client, bufferVars>>

FlushBuffer ==
    /\ generator = "finalized" /\ ~Converting /\ ~Delivering
    /\ PB!flush
    /\ UNCHANGED <<up, told, fromVars, ir, transformed, adaptVars, to, events, generator,
                   yielded, client>>

\* terminal_state.complete()
Complete ==
    /\ generator = "finalized" /\ eof /\ ~Delivering
    /\ generator' = "completed"
    /\ UNCHANGED <<up, told, fromVars, ir, transformed, adaptVars, to, events, yielded, client,
                   bufferVars>>

\* The upstream connection breaks while the generator waits for a chunk.
UpstreamError ==
    /\ AwaitsChunk
    /\ generator' = "error"
    /\ UNCHANGED <<up, told, fromVars, ir, transformed, adaptVars, to, events, yielded, client,
                   bufferVars>>

\* The client goes away: the generator is closed where it is suspended, at a
\* yield, before or after the client got the event, or in the wait for a chunk.
Cancel ==
    /\ Live /\ ~Converting
    /\ generator' = "cancelled"
    /\ events' = <<>>
    /\ UNCHANGED <<up, told, fromVars, ir, transformed, adaptVars, to, yielded, client,
                   bufferVars>>

Stopped == generator \in {"completed", "cancelled", "error"} /\ UNCHANGED vars

Convert ==
    \/ HoldCall \/ HoldArguments \/ FlushCalls \/ PassOn
    \/ ToProvider

Next ==
    \/ FromProvider
    \/ Convert \/ PersistFails
    \/ Feed \/ Yield
    \/ UpstreamEOF \/ FlushBuffer \/ Complete
    \/ UpstreamError \/ Cancel
    \/ Stopped

\* The event loop keeps running the generator and the client keeps reading; the
\* upstream, its errors and the client's departure are not fair.
Fairness ==
    /\ WF_vars(Convert \/ PersistFails)
    /\ WF_vars(Feed) /\ WF_vars(Yield)
    /\ WF_vars(FlushBuffer) /\ WF_vars(Complete)

Spec == Init /\ [][Next]_vars
FairSpec == Spec /\ Fairness

Protocol == INSTANCE ResponsesProtocol WITH
    Message   <- Message,
    Reasoning <- Reasoning,
    Tools     <- Tools,
    Silent    <- {t \in Tools : ToolType[t] = "web_search"},
    sent      <- yielded,
    phase     <- client.phase,
    stage     <- client.stage,
    content   <- client.content,
    listed    <- client.listed

-----------------------------------------------------------------------------
(* Properties. *)

Fragments == Seq(0..MaxChunks)

\* Type invariant.
TypeOK ==
    /\ up \in [n : 0..MaxChunks, order : Seq(Tools), finished : BOOLEAN, last : BOOLEAN]
    /\ told \in [items : SUBSET Items, content : [Items -> Fragments],
                usage : SUBSET (1..MaxChunks)]
    /\ from_started \in BOOLEAN /\ from_ended \in BOOLEAN /\ saw_finish \in BOOLEAN
    /\ from_order \in Seq(Tools)
    /\ pending \in Seq([id : Tools, args : Fragments])
    /\ persisted \subseteq Tools
    /\ to.order \in Seq(Tools) /\ to.args \in [Tools -> Fragments]
    /\ to.accumulated_text \in Fragments /\ to.accumulated_reasoning \in Fragments
    /\ to.pending_usage \subseteq 0..MaxChunks
    /\ \A e \in ToSet(events) : e.item \in Items \cup {NoId} /\ e.kind \in PB!Kinds
    /\ generator \in {"running", "finalized", "completed", "cancelled", "error"}
    /\ yielded \in 0..Len(output)
    /\ client.content \in [Items -> Fragments] /\ client.listed \subseteq Items

\* The stream the client reads is a Responses stream: created first, each item
\* added once, deltas before done, done with what the deltas added up to,
\* completed last and listing the items that are done.
ImplementsProtocol == Protocol!Spec

\* What the client has of an item is what the upstream sent of it, in order and
\* without gaps: a part of it while it is streamed, all of it when the item is
\* done; and response.completed leaves out nothing the upstream sent.
Sources(c) == IF c # <<>> /\ Head(c) = 0 THEN Tail(c) ELSE c
ContentIsFaithful ==
    /\ \A i \in Items :
          IF client.stage[i] = "done"
          THEN Sources(client.content[i]) = told.content[i]
          ELSE IsPrefix(Sources(client.content[i]), told.content[i])
    /\ client.phase = "completed" =>
          client.listed = told.items

\* A native call the gateway made up reaches the client only after the mapping
\* that translates its result back is stored (gateway/proxy.py:941-971).
NativeCallHasMapping ==
    \A t \in Tools :
        /\ Localized(t)
        /\ client.content[t] # <<>> /\ Head(client.content[t]) = 0
        => t \in persisted

\* Whatever the client was told about the turn's phase agrees with whether the
\* upstream called a tool in it, also when the call was held back.
PhaseMatchesTurn ==
    \A p \in 1..yielded :
        /\ output[p].phase = "final_answer" => up.order = <<>>
        /\ output[p].phase = "commentary" => up.order # <<>>

\* Usage that arrives between the finish and the end of the stream is in
\* response.completed (converters/openai_responses/converter.py:1522-1526).
UsageIsMerged == client.phase = "completed" => told.usage \subseteq client.usage

\* A stream that ended normally closed with response.completed exactly if the
\* upstream had finished.
CompletedIffFinished ==
    generator = "completed" =>
        (saw_finish <=> client.phase = "completed")

\* Once the upstream has ended after its finish, the client gets
\* response.completed, unless it leaves or a mapping cannot be stored.
FinishReachesClient ==
    generator = "finalized" /\ saw_finish
        ~> client.phase = "completed" \/ generator \in {"cancelled", "error"}
=============================================================================
