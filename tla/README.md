# Codex-Rosetta: specification and verification

Codex-Rosetta is an LLM gateway. A coding agent talks to it in the OpenAI
Responses format; the gateway forwards the request to an upstream that speaks
Chat Completions, Anthropic Messages, Google GenAI or Responses, and translates
the answer back, usually as a stream. It is one Python process around one
asyncio loop, with a few threads for blocking work and a SQLite file.

This directory holds TLA+ modules of the parts of it that are hard to test, the
TLC configurations that check them, and proofs checked by TLAPS. Paths below
are relative to `src/codex_rosetta/` of the repository.

## 1. The system

| component | state it keeps | operations | what is hard | what makes it correct |
|---|---|---|---|---|
| phase buffer, `gateway/stream_phase_buffer.py` | delayed events, their size, three flags | `process`, `flush` | it reorders a stream while the answer to "does this turn call a tool?" is open, and gives up at two limits | nothing lost, doubled or wrongly overtaken; one phase per turn; bounded |
| streaming bridge, `pipeline.py`, `converters/openai_chat`, `converters/openai_responses`, `gateway/tool_adaptation.py`, `gateway/proxy.py` | two stream contexts, held tool calls, the generator | one handler per event type; end, error, cancellation | state machines in series; calls held back; three ways for an upstream to end; broken off anywhere | the client reads a well-formed stream with exactly what the upstream sent |
| image fetch pool, `gateway/image_workers.py` | semaphore, queue, threads, tokens | `run`, `close`, the threads | loop and threads interleave; timeouts race with grants and results; `close` races with all of it | permits conserved, work bounded, nobody left waiting |
| admin model tests, `gateway/admin/runtime.py`, `routes/testing.py` | records, byte account, asyncio tasks | start, poll, cancel, expire, finish, shut down | record and task end at different times and both report | true accounts, limits kept, no slot leaked |
| admin login limiter, `gateway/admin/runtime.py` | attempts per client | check, record | bounded table of clients | limits hold under eviction |
| tool-call mappings, `gateway/proxy.py`, `observability/persistence.py` | rows per window and call | load, delete unused, persist, expire | concurrent requests of one window, restarts | a call the history mentions can be translated back |
| provider metadata store, `gateway/proxy.py` | bounded TTL cache, four counters | put many, inject, clear | shared by the loop and by threads; the clock is read before the lock; five limits checked on counters | accounts true; nobody loses an entry to another client |
| web search loop, `gateway/web_search.py`, `gateway/proxy.py` | round, pending and finished searches, request body | convert a round, search, report, ask again | several upstream streams become one; searches and follow-ups fail | one created, one completed; model and client hear the same |
| Codex's own search tool, `gateway/codex_search*.py` | reference table per session | search, open, find | network | references resolve |
| configuration commit, `gateway/config.py`, `admin/routes/_shared.py`, `local_mode.py`, `cli.py` | the file, Codex's two files, live objects, a lock | load, write, synchronize, swap, roll back, start | several processes; every step can fail; kills and power loss | no reported edit lost; all or nothing; a start repairs |
| observability, `observability/*` | SQLite rows, quotas | append, retain, snapshot | two locks, one connection | quotas hold, no deadlock |
| upstream transport, `gateway/transport/http` | lazily built clients | get, replace, close | replaced while in use | no stream loses its client |
| web-run sidecar, `gateway/web_run_*.py`, `resources/web_run` | process, probe cache | start, probe, restart, stop | shutdown and restart race | at most one process; probes end |
| other converters, non-streaming path, code-mode projection, authentication, CLI, static pages | little or none | translate, check | the data, not the control | - |

A streamed turn passes through the components in this order: `app.py` admits
the request, `proxy.handle_streaming` converts it, loads the tool mappings and
opens the upstream stream; for each chunk `StreamProcessor.process_chunk` runs
the upstream converter, the tool transformer (which calls back into
`_persist_tool_mapping`) and the client converter, and the resulting events go
through the phase buffer into the SSE response. The image pool is entered from
the request conversion, the admin store only from the admin routes; the
observability store is shared by all. A turn with server-side web search goes
through all of that once per round, with one phase buffer and one controller
around the rounds. The configuration is read at the start and replaced, as a
whole, by an admin request; other processes (the command line) write the same
file, and Codex reads the two files that local mode keeps in line with it.

## 2. The modules

### ResponsesPhaseBuffer: `gateway/stream_phase_buffer.py`

The stream is any sequence of events. An event is a kind, a message item and a
size; `Kinds` groups the event types that `process` tells apart. `input` and
`output` are histories: what `process` was given and what it returned, an output
entry being the position of an event and the phase written into it. `buffer`,
`buffered_bytes`, `message_item_ids` and the flags are the fields of the class.
`process` is one action with a disjunct per path through the method
(`PassThrough`, `AfterTerminal`, `ToolSignal`, `Terminal`, `Overflow`, `Delay`,
`NotDelayed`); `flush` closes the stream.

### StreamBridge: one streamed turn

`FromProvider` is the arrival of an upstream chunk and its conversion to ir
events (`converters/openai_chat/converter.py:554-789`). `HoldCall`,
`HoldArguments`, `FlushCalls` and `PassOn` are the branches of
`LocalizedToolCallStreamTransformer.transform`; `PersistFails` is the exception
of `_persist_tool_mapping` on the way. The actions named `handle_..._to_p` are
the handlers of the Responses converter, with the names they have there. `Feed`
gives the next source event to the phase buffer, which is the module above by
`INSTANCE`, and `Yield` hands one event to the client. `UpstreamEOF`,
`FlushBuffer`, `Complete`, `UpstreamError` and `Cancel` are the rest of
`_stream_event_generator`. The generator awaits only the next chunk and is
suspended only at a yield, so only there can it be cancelled; between them the
steps of one chunk follow each other in one order.

Data is abstract: a text or an argument string is the sequence of the numbers of
the chunks its pieces came in, with 0 in front where the gateway rewrote the
whole. That is enough to see loss, duplication, reordering and a mix-up of
items. Four types of tool call differ in control: `function` (streamed through),
`localized` (held back, translated, mapping stored), `custom` (a custom tool
that Chat sees as a function: arguments restored at the end), `web_search` (no
argument events). Whether a call's arguments can be translated, or are the
wrapper of a custom input, is a choice the model leaves open.

The upstream is the Chat protocol as the code expects it: an optional preflight
chunk, deltas, a finish chunk that may carry a delta and usage, at most one
chunk after it. `Quirks` adds what some upstreams do beside that
(`usage_early`: usage with a delta); the run that uses it shows a divergence.

### ResponsesProtocol: what the client is promised

The abstract specification: a Responses stream as its reader sees it. The
response is created, items are added once, filled, closed and done, in the
order the protocol prescribes, and response.completed comes last and lists the
items that are done. It knows nothing of chunks, buffers or held calls.
`StreamBridge` implements it under the refinement mapping `Protocol`, whose
abstract variables are `client`, the history of what the received events said,
and the number of events received.

### ImageWorkerPool: `gateway/image_workers.py`

One request is one call of `run`. The loop's steps go from one await to the
next: `RunAtOnce` and `WaitForPermit` up to the first, `ResumeGranted` and
`ResumeClosed` from there to the second, `Deliver` the result; `GiveUpWaiting`
and `GiveUpResult` are a timeout or a cancellation at either. `Get` and `Finish`
are the threads, `RunRelease` the callback they schedule. `close` never awaits,
so while it drains (`Drain`, `PutSentinels`) the threads move and the loop does
not. The semaphore is `asyncio.Semaphore` with its waiter list; a waiter that
has been woken may still time out before it runs.

### AdminTestTasks: `gateway/admin/runtime.py` and `admin/routes/testing.py`

Records and asyncio tasks are separate state. A handler is one action, with the
sweep of expired records it starts with (`cut` is how far expiry has come).
`Overrun` says whether a record may expire under a test that still runs. With
the code's deadlines (a record lives 300 seconds, a request is given up after
120) only a client that hangs while it is closed takes that long, since closing
has no deadline; the run `admin_tests` allows it at any time, which is more than
the code does, and `running` not at all. The coroutine of a test has an action
for each stretch between awaits. `cancelling` is what `_cancel_task` scheduled
on the loop and has not reached the task yet. The first step of a task is queued
before any cancellation of it, so a task is always inside its `try` when one
arrives. `finish` is modelled with its eviction loop, the replacement of an
oversize result, and the drop of a record that does not fit at all.
`ClientClosed` is the closing of the client, which may itself fail, after a
response was stored too.

### ToolMappings: `gateway/proxy.py` and `observability/persistence.py`

The table of tool-call mappings, as the requests of one window use it. A row's
key is the scope of its request (the model or provider; owner and window are the
same for all) and the call id; its value is its size and the time it has left.
`Send` loads and renews the rows of the scope and translates a history that
mentions any of the client's calls; `Answered` deletes what was loaded and not
mentioned; `Store` is the upsert, `Deliver` the client's reading of the call,
`End` every way for a stream to stop, the failure of a store included. `Fits` is
the code's arithmetic: expired rows are deleted, the row under the key is looked
up, rows and bytes are counted before the insert, for the scope and for the
owner, and what the row adds (`RowDelta`, `ByteDelta`) is added to each count.
Nothing looks at the table that results; `QuotaHolds` does. Each action is one
transaction, under one lock. `Cleanup` is the periodic task, `Restart` a stop at
any point: the table is a file and stays.

Which calls can be asked for again is not in the code, so the model keeps it as
history: `issued` (the scope a call came from) and `neglect` (the time since its
scope was last used, up to a row's lifetime). A call is forgotten when `neglect`
has reached that lifetime: its scope went unused so long, or a request that loaded
the call left it out of its history;
`docs/en/codex-tool-localization/code-edit.md:70` documents both. That rule has
a sharp edge which the property does not hide: of two concurrent requests, one
may load and delete the row the other has just stored, because its client could
not mention a call that it had not read yet.

A deletion that fails deletes nothing here. An undecryptable row shows only as a
request that ends. With one owner, the limits per owner and those of the whole
table have the same form, and one pair stands for both. The mappings of
compaction are another table and are left out.

### ProviderMetadataStore: `gateway/proxy.py`, class ProviderMetadataStore

What a provider attached to a tool call, by scope and call id, with the four
counters the limits are checked on. The store is used by the event loop and by
the image workers' threads, under one lock, and each section under the lock is
one action: `Put` (`_put_many`: expiry, the limit of entries, the evictions, the
three limits in bytes, all on a trial sum, then the commit), `clear`,
`clear_all`, and `inject_into_request`, which only removes what has expired.
`_put_many` checks the value sizes and reads the clock before it waits for the
lock; that is an action of its own (`Prepare`), so a `Put` may find entries that
are younger than its own idea of now, and treat them as the code does. A value
is its canonical size. Where the code takes the first of several oldest entries,
the model takes any.

### WebSearchLoop: `gateway/web_search.py` and the loop of `gateway/proxy.py`

One client stream of several upstream streams. A round's chunks are converted
into source events (`TextChunk`, `CallChunk`, `SearchChunk`, `FinishChunk`,
`UpstreamEOF`); the conversion itself is StreamBridge's subject and is cut down
to an item's added, text and done events. `process_source_event` is the
controller with one action per branch; what it lets through goes into the phase
buffer, by `INSTANCE`, which lives as long as the client's stream. Between two
rounds, `StartSearches` and `SearchEnds` are `execute_many`,
`complete_search_results` and `Announce` report to the client,
`append_tool_results` to the model, and `FollowUpOpens` or `FollowUpFails` is
the next request. A refusal is one step: the transport has read the error and
closed the response before it returns (`transport/http/transport.py:601-612`),
so `read_error` and `close` return at once (386-387, 458-459) and the generator
cannot be cancelled between them. `Cancel` is the client leaving at any yield or
await; `TooManyRounds` and `UpstreamError` end the stream with an error.
`output_index` is modelled: the controller fixes that of a search, and shifts
those of the other items of later rounds.

### ConfigCommit: how the configuration file is changed

`gateway/config.py:write_config` and its callers. A *job* is a run of an `add`
command, of `local-mode clear`, an admin request, or a start of the gateway;
`pc` says where it is. Commands are processes of their own, admin requests and
starts run in the gateway's process, one at a time. The steps are those between
which something else can happen or that can fail on their own: `Acquire` (lock,
digest comparison), `Backup`, `Replace`, `SyncDirectory`, the transaction on
Codex's files (`Snapshot`, `WriteCatalog`, `WriteToml`), `Activate`, the two
restores (`UndoCatalog` and `UndoToml`; `Restore` and `SyncRestored`) and
`Release`. A start that has nothing to write runs the transaction without the
lock, and so does the model; it has something to write if its flags or the answer
changed something, or if it had to add an API key for Codex, which the model
leaves open (`WritesFor`). `SnapshotFails` is an `apply` that raises before it has
its snapshots: there is nothing to undo in Codex's files then, and `rollback` does
nothing.

`file` is what a process reads; `disk` is the set of contents a power loss may
leave in its place, which a sync of the directory reduces to one. `codex_disk`
is the same for Codex's files, whose directory the code never syncs. `Kill`
ends a process anywhere (the kernel drops its lock), `PowerLoss` all of them.
`Fault` is the failure of one step, `MaxFaults` and `MaxCrashes` bound how many
there are.

A content is the set of jobs whose edits are in it and the two flags of local
mode; the digest of a content is the content. Left out: the content of the
backup (that writing it fails is modelled), edits made by hand while a job runs,
exceptions that are no `Exception` (a `KeyboardInterrupt` between two steps does
what `Kill` does, except that `finally` blocks run), more than one gateway
process on a file, validation of a candidate, and the requests in flight during
a reload, which keep the objects they have. The rollbacks that
`_commit_gateway_config` makes after `write_config` has already undone
everything find nothing to do and are no steps. A job that found no file has no
digest to compare, so it replaces a file that has appeared since, with the edits
in it: the code compares nothing then, and `DoneSurvives` exempts it.

## 3. The runs

| run | question | bounds | fairness |
|---|---|---|---|
| `phase_buffer` | is every event delivered once, in a permitted order, with the phase of the turn; is the buffer bounded | 4 events, 2 message items, sizes 1 and 2, limits of 2 events and 3 units | none |
| `bridge` | is the client's stream well formed and true to the upstream's, and does response.completed reach the client | 4 chunks, turns of up to two calls out of the four types, buffer of 3 | `Fairness` of StreamBridge |
| `image_pool` | are permits conserved under every race, and does everyone stop waiting | 4 requests, 2 threads | `Fairness` of ImageWorkerPool |
| `admin_tests` | are the accounts true and the limits kept; do tests and the shutdown end | 3 tests, 2 active, 2 retained, bodies of 1 and 3 units, budget of 3 | `Fairness` of AdminTestTasks |
| `tool_mappings` | can a call be translated back; do the limits hold; do rows go away | 2 requests, 2 models, 3 calls, a lifetime of 2 ticks, rows of 1 to 3 bytes, 1 row and 2 bytes per model, 2 rows and 3 bytes in all | `FairSpec` of ToolMappings |
| `provider_metadata` | are the counters the contents; is a loss of an entry always its own client's doing | 2 threads, 2 clients, 3 scopes, 2 calls, sizes 1, 3 and 4, lifetime of 1 tick, 3 instants, 2 entries | none |
| `web_search` | are the rounds one response to the client; do model and client hear the same; is every search answered | 2 follow-up rounds, 2 chunks and a finish per round, buffer of 3 | `Fairness` of WebSearchLoop |
| `config_commit` | is a reported edit ever lost; is an admin request all or nothing; does a start repair what a crash left | 1 command, 1 admin request, 2 starts with any flags, 2 failing steps, 1 kill or power loss | none |
| `usage`, `running`, `local_mode_cleared`, `final_answer` | the four divergences of section 5, one property each | the smallest that shows it | none |

Why the bounds are enough. *Phase buffer*: a wrong order or phase involves two
events and what decides between them, a third; with four events and a limit of
two the buffer can fill, overflow and go on. (The proofs below lift the bound.)
*Bridge*: four chunks hold a text delta, the start and the arguments of a call
and a finish; two calls can be open at once and interleave, and the late usage
chunk can follow. A buffer of three overflows in the middle of a message. (All
but `FinishReachesClient` is lifted as well.) *Image pool*, safety lifted too:
with two threads, four requests give two conversions and two waiters that race
for a permit. The requests are alike, so `InOrder` lets them come in one order
only; every other behaviour is one of these with the requests renamed, which a
symmetry set could not use for the liveness properties. *Admin tests*, safety
lifted too: with three tests the count of two retained records overflows, two
completed records of one or two units do not always fit the budget, and a body
of three units does not fit at all. *Tool mappings*, lifted too, but for
`RowsExpire`: three calls are more than a model may have, two models show a row
under the wrong scope, and a lifetime of two ticks leaves a tick in which a read
can renew. Rows of three bytes may be stored and never fit a model; rows of one
and two replace each other, of one model or beside those of the other, with all
combinations of the old row alive, expired or gone. As in
`tests/gateway/test_persistence_sqlite.py`, limits are small enough for each of
three to decide somewhere (rows and bytes of a model, bytes of the owner); with
one row for each of two models the row limit of the owner cannot, and is left to
the proof. *Provider metadata*, lifted too: each of the five limits is the
first to be reached somewhere; two threads and three instants let a `Put` with
an old clock meet a younger entry and have to choose what to evict among entries
of two ages; a value of size 4 is refused. *Web search*: two follow-ups let a
search of the first round be reported in the third, two searches in one round
let one fail and one succeed, and the limit of rounds is reached; lifted as well.
*Configuration*, lifted too: two jobs beside a start give an edit to lose and
another to lose it to; two faults are a failing step and a failing undo of it;
one crash and a second start show the repair.

Runs check deadlock, and a module has a step for the state in which it has
really stopped; only `ConfigCommit` stops when all its jobs are over.

Fairness. `StreamBridge`: the loop runs a generator that is ready, and the
client reads; there is no fairness for chunks, for the upstream's end, for
errors or for the client's departure. `ImageWorkerPool`: threads and scheduled
callbacks run, a call is resumed when what it waits for is there, and `close`
goes on once begun; nobody is obliged to call `close`. A conversion ends because
the fetch has its own deadline and looks at its token. `AdminTestTasks`: the
coroutine goes on because its request has a timeout, and scheduled cancellations
are delivered. `ToolMappings`: the clock and the cleanup task go on; a client and
an upstream owe nothing, so `RowsExpire` speaks of a window that falls silent.
`WebSearchLoop`: each thing its generator waits for (a line of the upstream, a
search, a follow-up request, the client's reading) has a timeout or ends by the
client leaving, and the rest is code that runs on.

The properties and the hazards they answer to are listed in `PROJECT.json`, as
is a mutant of the code for each property, with which TLC finds it violated.
The mutants are the operators that carry a comment "Mutant" in the modules.

## 4. What is proved

`ResponsesPhaseBufferProofs` proves, for all item ids, sizes, limits and inputs:

- `TypeCorrect`: `Spec => []TypeOK`.
- `DeliveryCorrect`: `Spec => []DeliveryKept`, which is `ExactlyOnce /\ OrderKept`.
- `PhaseCorrect`: `Spec => []TurnHasItsPhase`, which is
  `OnePhase /\ ToolTurnIsCommentary`.
- `FlagsLatch`: `Spec => Latches`, an action property.
- `BoundCorrect`: `Spec => []BufferBounded`.

The assumptions are those on the constants in `ResponsesPhaseBuffer`, which TLC
evaluates in every run of it.

`ExactlyOnce` and `OrderKept` are not inductive: that a delayed event may still
be overtaken, but only by events that may overtake it, has to be said of the
events in the buffer. `DeliveryInv` adds `BufferShape` (what is delayed is a
message event, in order of arrival, of a known item, and nothing is delayed once
a flag is set) and `OvertakenFairly` (every event already returned that arrived
after a delayed one is neither a barrier nor of the same message). The path of
each `process` branch is then one of two forms, *released* (the buffer is
emptied in front of the event) and *delayed*, and the proof has one lemma per
form. `FullInv` adds `PhaseInv` for the phases: which phase the returned events
carry is a function of the flags, and while the flags are all low nothing that
carries a phase has been returned. `BufferBounded` is inductive with the types;
what it takes is that the sum over the buffer grows by the size of the event that
is delayed (`SizeIsSum` and `SumStep`; the sum is built up along the buffer, and
that there is one such function is an induction over its length).

`ImageWorkerPoolProofs` proves, for every finite set of requests and of threads
(`RequestsAssumption`, `WorkersAssumption`):

- `PoolTypeCorrect`: `Spec => []TypeOK`.
- `PermitsCorrect`: `Spec => []WorkIsPermitted`, which is
  `PermitsConserved /\ WorkFits`.
- `AbandonedCorrect`: `Spec => []AbandonedIsCancelled`.
- `WakeupCorrect`: `Spec => []NoLostWakeup`.

The balance of the permits alone is not inductive: a waiter that leaves must be
in the list exactly once, or the permit it returns would not be the one it was
given, and a thread that finishes must be the only one with that work. `PoolInv`
says so: `WaitersInv` (the list has no repetition, holds exactly the requests
that wait, and `waiting_submitters` counts it), `WorkInv` (tokens and work in
hand are the same set, no work before the permit, no two threads on the same),
`QueueInv` (pending work and no repetition up to the sentinels, sentinels only
and no more than the threads after them) and `PermitsInv`, which after `close`
keeps just the bound on the work. There is a lemma for each step. The semaphore
enters through `WakeUpFacts` (waking moves permits, it makes none; this rests on
`OldestAreFew`, a count by an injection of the woken into their ranks) and
`WakeUpWakes` (with a permit free and a sleeper, somebody is woken; the oldest
sleeper is found by well-foundedness of the subset order). `WorkFits` follows
because the queue is an injection into the work in hand. `asyncio.Semaphore`
itself is an assumption: it is modelled from the standard library, Python 3.14.

`ToolMappingsProofs` proves, for any number of models, calls and concurrent
requests, every lifetime of a row and all limits (`ScopesAssumption`: the sets
of models and calls are finite; `TtlAssumption`, `LimitsAssumption`):

- `TableTypeCorrect`: `Spec => []TypeOK`.
- `HistoryCorrect`: `Spec => []HistoryTranslatable`.
- `QuotaCorrect`: `Spec => []QuotaHolds`.

That a row is there is not inductive: it has to be known how much time it has
left. `AgeInv` says that the row of a call that is not forgotten is exactly as
old as its call is neglected, and younger than a lifetime; `IssuedInv` that a
client holds only calls that were issued. `TableInv` adds the type invariant,
whose part that a row's scope is the one its call came from is what `StepStore`
needs when an id is used again.

The limits hold because the count before an insert and the deltas of its row are
the count after it. That is `UsageAfter`, for rows and bytes, of any set of keys
and with the row under the key alive, expired or absent. Bytes are counted as the
cardinality of a set (`Bytes`: a pair of key and number for each byte of a row),
so what one row weighs (`BytesOfOne`) and that other rows weigh the same before
and after (`BytesSame`) are facts about disjoint finite sets. `StoreFits` then
covers the scope that is written to and the owner; another scope has at most what
it had (`FewerUsed`), and so has every set of rows after a deletion
(`FewerRowsFit`).

`ConfigCommitProofs` proves, for any number of commands, admin requests and
starts, any number of failing steps, kills and power losses (`JobsAssumption`:
the kinds of jobs are disjoint; `ValuesAssumption`: the marks for "no file" and
"not Rosetta's" are no contents):

- `ConfigTypeCorrect`: `Spec => []TypeOK`.
- `ReportedEditSurvives`: `Spec => []DoneSurvives`.
- `AdminChangeIsAtomic`: `Spec => []AllOrNothing`.
- `StartLeavesAgreement`: `Spec => []StartRepairs`.

Part of `TypeOK` is mutual exclusion: who is inside `write_config` holds the
lock, and a held lock is held by a job that is still inside. `TypesInv` adds who
may change Codex's files without the lock: a start, never an admin request.
`DoneSurvives` says that the reported edits are in every content a power loss may
leave. It is not inductive, and what `SurviveInv` adds is the argument for the
code: a job never drops an edit it has loaded (`CandidateKeeps`); past the digest
comparison what it loaded is what is in the file (`DigestHolds`), so replacing
the file keeps everybody's edits; what the holder of the lock would put back
has every reported edit, since nobody can report while it holds the lock
(`FoundKeeps`); and past the sync of the directory only the job's own content is
on disk (`ReplacedHolds`, `SettledHolds`), so it may report. There is a frame
lemma for the steps that leave the file alone and a lemma for each of the
others; a crash takes the disk to one of the contents it may leave.

`AllOrNothing` needs to know, at every place of an admin request, what file,
Codex's files and live configuration are, in terms of what it found (`before`)
and what it writes (`cand`): that is `AdminInv`. It is kept because nobody else
changes any of them while the request is inside: another process would need the
lock, and the one job that changes Codex's files without it is a start, which the
gateway does not run beside a request (`OneAtATime`). The same argument serves
`StartRepairs`: `QuietInv` says what Codex's files are at each place of a start
since which nobody else took the lock, and `ServingAlone` that the next start
waits for the end of the gateway that serves. `AdminMove` and `StartMove` reduce
a step to what has to be known at the place it goes to; `AdminOthers` and
`StartOthers` are the steps of everybody else.

`AdminTestTasksProofs` proves, for any number of tests, any sizes and all limits
(`LimitsAssumption`):

- `BackedCorrect`: `Spec => []PendingIsBacked`.
- `TypeCorrect`: `Spec => []TypeOK`.
- `StoreCorrect`: `Spec => []StoreAccounted`.
- `EvictionCorrect`: `Spec => EvictsOnlyCompleted`, an action property.

What makes the first inductive is that whatever asks a task to stop ends its
record in the same step: no pending test is being cancelled, and a closed store
has no records (`PendingInv`). `FinishFacts` says that `finish` leaves fewer
pending records whatever it evicts. The books need `StoreInv`: a pending record
weighs nothing (`RecordsInv`), the eviction order lists every completed record
once and nothing else (`OrderInv`), the counter is the sum over them
(`BudgetInv`). What is taken out of the order is a recursive function along it,
and what it leaves is proved by induction over the prefixes of the list.

`ProviderMetadataStoreProofs` proves, for any finite sets of scopes, calls and
principals, any number of threads and all limits (`ScopesAssumption`,
`LimitsAssumption`):

- `LossCorrect`: `Spec => LossIsFair`, an action property.
- `AccountsCorrect`: `Spec => []AccountsBalance`.
- `TypeCorrect`: `Spec => []TypeOK`.

`LossIsFair` needs of the state only which keys there are and that a thread's
idea of the time is never ahead of the clock (`PutInv`, `ExpiredLater`).
`PutStores` says how a put ends; `OldestMakeRoom` that as many entries go as
exceed `max_size`, so that the store is full when one has gone. It does not rest
on the counters: whatever they said, a put that does not fit would only be
refused. That the counters are right is `AccountsInv`: a put is a sequence of
removals (what has expired, what makes room, what is replaced) and additions on
books that balance (`Balanced`), and the limits are tested on the books the put
would leave (`Within`). That the types follow is not trivial: the counter of all
bytes is subtracted from without a check, and is never too small because it is
the sum.

The books of the last two are sums over sets (`MapThenSumSet`, a recursive
function on the subsets of a finite set, which takes one element at a time and
leaves open which). That the sum does not depend on the order neither the
library nor a backend knows, so each of the two modules starts with the lemmas
it needs of it: `TotalTake`, `TotalAdd`, `TotalSplit` and, for the tests,
`TotalZero`. They are proved by induction in a form that needs no operator as a
parameter: a property is given as the set of numbers, or of subsets, that have
it, and a smallest one without it is refuted (`PrefixInduction`,
`SubsetInduction`). The same `PrefixInduction` is what the other proofs that
follow a sequence use.

`StreamBridgeProofs` proves, for any set of calls of the four types, any number
of chunks and any size of the phase buffer (`ToolTypeAssumption`,
`TurnsAssumption`, `QuirksAssumption`, `LimitsAssumption`, `NamesAssumption`):

- `TypeCorrect`: `Spec => []TypeOK`.
- `ContentCorrect`: `Spec => []ContentIsFaithful`.
- `MappingCorrect`: `Spec => []NativeCallHasMapping`.
- `PhaseCorrect`: `Spec => []PhaseMatchesTurn`.
- `CompletionCorrect`: `Spec => []CompletedIffFinished`.
- `UsageCorrect`: `Spec => []UsageIsMerged`, for `Quirks = {}`. With
  `usage_early` it is false, which the run `usage` shows.
- `ProtocolCorrect`: `Spec => ImplementsProtocol`, the refinement.

None of the safety properties is inductive. What the client has is right because
what is still under way is right, and a good deal may be under way: ir events,
calls held back, transformed events, events not yet fed, events the phase buffer
delays, output the client has not read. The invariant ties these together.
`Leads(T, s, q, t)` says that a queue of events q takes one from s to t, each
event by a step of T. `Legal` and `After` are the steps of a reader of the
client's stream, `TurnLegal` and `TurnAfter` those of a turn as a sequence of ir
events. `Chain` says that there are four turns, of which

- the client will know the first, s, when it has read the output that is due,
  then what the buffer delays, then what has not been fed (`Heard`, over
  `Queue`);
- the transformed events lead from s to m (`Converted`);
- l is m with the calls that are held back (`Lifted`);
- the ir events lead from l to u (`Remaining`), and u is what the upstream has
  sent (`UpstreamMatches`).

An action moves an event over one border of this chain, so that a lemma about it
concerns two neighbouring links: a chunk extends u, the transformer trades ir
events for transformed ones or for held calls, a handler trades one transformed
event for several of the client's (one lemma for each handler), a read takes the
head of the queue. Feeding may change the order of the queue, and this is where
it is proved that the phase buffer does no harm: events about different items
commute for a reader (`Commutes`), so a queue in which the delayed ones come
later leads to the same place (`LeadsSwap`). `IInv` is `Chain` while the turn
goes on (`Live`), with `Types`, `BufferInv` (what is delayed is of the message),
`Phases` and `Drained` (which stages are empty when). A turn that has broken off
adds nothing for the client, so what it has then stays right: `SafeInv`. For the
refinement, the event at the head of a queue that leads somewhere is `Legal`, and
reading a legal event is a step of the protocol; all other steps leave the client
alone and are stutters.

`WebSearchLoopProofs` proves, for any number of rounds, any number of chunks in
a round and any size of the phase buffer (`RoundsAssumption`: the three are
natural numbers):

- `TypeCorrect`: `Spec => []TypeOK`.
- `ResponseCorrect`: `Spec => []OneResponse`.
- `ToldCorrect`: `Spec => []ModelIsTold`.

Both properties speak of what the client has received, and neither is inductive:
most of what decides about them is still in the controller, in a list of results
or in the phase buffer. The invariant therefore speaks of everything that has
been fed to the buffer (`input`), of which the client has a prefix. That it is a
prefix is `BufferInv`: what is out and what is delayed are, in that order, the
input, because only events of a message wait and in these streams every message
is announced before its text. `OrderInv` says that the input is an orderly
response (`Orderly`: created first, each item announced once before it is done
once, a search under one index), `IndexInv` that the index of a search is the
one the controller remembers, `ToldInv` that the searches of the earlier rounds
are in the request, `CompletedInv` that a response.completed is last and lists
what it should (`EndsWell`), `RoundInv` which items belong to the round and that
a pending search is announced and not done.

`LiveInv` is the argument itself: at each place of the generator, how much of the
round the client has and where the rest is. While chunks arrive (`ChunkInv`) the
events still to be processed and the input together are the round, and a search
whose done event was kept back is pending; at the end of the round
(`ClosingInv`) every item is done or pending; then the pending searches are the
calls in execution (`SearchingInv`), and the results are told to the client one
by one (`AnnouncingInv`: what it was told, followed by the events that are left,
is the list of completed items, which is the old request body followed by the
results). Outside of the telling, what was reported, the completed items and the
request body are the same list, which is the heart of both properties. There is
a lemma for each action. `Select` and `SearchesDone` are recursive along a
sequence; `Picked` states what both do and the lemmas about it (`PickedStep`,
`PickedFacts`, `PickedAt`) are proved by induction over the length. All conjuncts
of `IInv` were checked by TLC on the reachable states of the run `web_search`
before they were proved.

Model-checked only: the liveness properties (`FinishReachesClient`,
`EveryRequestAnswered`, `WorkersExit`, `PendingEnds`, `ShutdownEnds`,
`RowsExpire`, `SearchIsAnswered`), which are out of the prover's reach: it has no
rule for fairness and ENABLED. Every other property of a passing run is a
theorem; `UsageIsMerged` is one for `Quirks = {}`, the value of its run.

## 5. Where code and words disagree

- `usage`: `converters/openai_responses/converter.py:1531` merges late usage
  only into a response that has none. The comment at 1522-1526 says that usage
  between the finish and the end of the stream is merged.
- `running`: `gateway/admin/runtime.py:388` frees the slot of a cancelled test
  while its request is still open; `docs/en/gateway-security.md:282` says that
  at most four run. The run starts two tests, with room for two, cancels one and
  starts a third before the cancelled task has run.
- `local_mode_cleared`: `gateway/cli.py:408` applies the transaction on Codex's
  files without the lock when a start has nothing to write. If `local-mode
  clear` runs between the start's load and that apply, Codex's catalog and
  Provider table are back after the command has reported success;
  `docs/dev/version-compatibility/compatibility-points.md:328` says that
  disabling local mode removes them.
- `final_answer`: the latch of `gateway/stream_phase_buffer.py:78` outlives the
  round that set it, so the answer after a search reaches the client as
  `commentary`; `docs/dev/version-compatibility/upgrade-checklist.md:513` says
  that the final answer is not folded by mistake.

## 6. What is not modelled

In the modelled parts: `output_index` (but for WebSearchLoop),
`sequence_number`, provider metadata on its way through the bridge, annotations,
refusals and content blocks of other providers; the error event that a
credential collision turns a failing stream into; direct passthrough of a
Responses upstream; the stream trace, profiles and logs; the image URL itself;
the request and response body of a model test beyond its size; `queue.Full`,
which `WorkFits` shows is never raised; what a web search asks the network. An
upstream that sends empty choices in the middle of a stream, a tool call id
twice or a second finish chunk is outside the model.

The components marked `not_modelled` in `PROJECT.json` have their reasons there.
Most of the repository's lines are of three kinds that a state machine would
only repeat: translation of documents between wire formats, field by field
(`converters/*`, the tool projections, the profiles); vendored HTTP and
validation code; and presentation (admin pages, command line, logs). The modules
here take up the parts where something can happen in an order nobody wrote
down.

## 7. Plan

Done: `ResponsesPhaseBuffer`, `ImageWorkerPool`, `ToolMappings`, `ConfigCommit`,
`AdminTestTasks`, `ProviderMetadataStore`, `StreamBridge` (which implements
`ResponsesProtocol`) and `WebSearchLoop`, all with their proofs.

Next, in this order:

1. The web-run health probe: its cached answer, the probe in flight, and the
   reload that invalidates it, which is a step of `ConfigCommit`'s `Activate`.
2. The upstream clients that a reload replaces while streams read from them.
3. The reference table of Codex's search tool, per session and bounded.
4. The quota of the request log, and the order of its two locks.
