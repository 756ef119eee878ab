---------------------------- MODULE AdminTestTasks --------------------------
(***************************************************************************)
(* gateway/admin/runtime.py: class AdminTestTaskStore, and the handlers    *)
(* and the coroutine of gateway/admin/routes/testing.py that use it.       *)
(*                                                                         *)
(* A model test has a record in the store and an asyncio task that does    *)
(* the work, and the two do not end together: cancelling a test, its       *)
(* expiry and the shutdown finish or remove the record at once, but only   *)
(* ask the task to stop; the task stops when the loop gets to it and its   *)
(* client is closed, and then it reports to the store on its own.          *)
(*                                                                         *)
(* Handlers and the coroutine are atomic between awaits, the store's lock  *)
(* is never contended.  Tasks are numbered in the order they start, so the *)
(* expired records are those up to some number.                            *)
(***************************************************************************)
EXTENDS Naturals, Sequences, FiniteSetsExt, SequencesExt

CONSTANTS
    MaxActive, MaxCount,       \* max_active, max_count
    MaxPayload,                \* max_payload_bytes
    MaxCompletedBytes,         \* max_completed_bytes
    MetaSize,                  \* size of a record without a body
    Bodies,                    \* sizes of response bodies
    Overrun,                   \* may a test go on when its record expires?
    MaxTasks                   \* bound of the model: tests started

ASSUME LimitsAssumption ==
    /\ MaxActive \in Nat /\ MaxCount \in Nat \ {0}
    /\ MaxPayload \in Nat /\ MaxCompletedBytes \in Nat
    /\ MetaSize \in Nat /\ Bodies \subseteq Nat /\ MaxTasks \in Nat
    /\ Overrun \in BOOLEAN

VARIABLES
    tasks,               \* _tasks: id -> [status, bytes]; bytes is retained_bytes
    order,               \* the completed records by the time they finished
    completed_bytes,
    closed,
    started,             \* number of tests started
    coroutine,           \* where the asyncio task of a test is
    cancelling,          \* tasks whose cancel() is scheduled on the loop
    awaited,             \* tasks aclose() waits for
    aclose               \* "none", "gathering", "done"

store == <<tasks, order, completed_bytes>>
vars == <<store, closed, started, coroutine, cancelling, awaited, aclose>>

Ids == 1..MaxTasks
Stored == DOMAIN tasks
Active == {t \in Stored : tasks[t].status = "pending"}
Without(s, S) ==
    LET F[i \in 0..Len(s)] ==
            IF i = 0 THEN <<>>
            ELSE IF s[i] \in S THEN F[i - 1] ELSE Append(F[i - 1], s[i])
    IN  F[Len(s)]
Keep(f, S) == [t \in S |-> f[t]]
BytesOf(S) == MapThenSumSet(LAMBDA t : tasks[t].bytes, S)

Init ==
    /\ tasks = <<>> /\ order = <<>>
    /\ completed_bytes = 0
    /\ closed = FALSE
    /\ started = 0
    /\ coroutine = [t \in Ids |-> "absent"]
    /\ cancelling = {}
    /\ awaited = {} /\ aclose = "none"

-----------------------------------------------------------------------------
(* The store. *)

\* Mutant: a status of its own for an oversize result.
Small_status == [status |-> "oversize", bytes |-> MetaSize]

\* What finish() makes of the record of t: the new contents of the store.
Small == [status |-> "error", bytes |-> MetaSize]
Retained(status, body) ==
    IF MetaSize + body > MaxPayload THEN Small
    ELSE [status |-> status, bytes |-> MetaSize + body]

\* finish(): evict the oldest completed records until the new one fits; if it
\* does not even fit alone, keep an error in its place, or nothing at all.
Finished(t, status, body) ==
    LET record == Retained(status, body)
        others == Without(order, {t})
        left(k) == completed_bytes - tasks[t].bytes - BytesOf(ToSet(SubSeq(others, 1, k)))
        enough == {k \in 0..Len(others) : left(k) + record.bytes <= MaxCompletedBytes}
        evict == IF enough = {} THEN Len(others) ELSE Min(enough)
        final == IF enough = {} THEN Small ELSE record
        kept == Stored \ ToSet(SubSeq(others, 1, evict))
    IN  IF left(evict) + final.bytes <= MaxCompletedBytes
        THEN [tasks |-> [Keep(tasks, kept) EXCEPT ![t] = final],
              order |-> Append(SubSeq(others, evict + 1, Len(others)), t),
              bytes |-> left(evict) + final.bytes]
        ELSE [tasks |-> Keep(tasks, kept \ {t}),
              order |-> SubSeq(others, evict + 1, Len(others)),
              bytes |-> left(evict)]

finish(t, status, body) ==
    IF t \notin Stored \/ closed
    THEN UNCHANGED store
    ELSE LET new == Finished(t, status, body) IN
         /\ tasks' = new.tasks
         /\ order' = new.order
         /\ completed_bytes' = new.bytes

\* The requests time out long before their records expire (120 and 300 seconds), but
\* closing a client has no timeout: only a test that hangs there overruns its record.
Cuts == {cut \in 0..started : Overrun \/ \A t \in 1..cut : coroutine[t] = "ended"}

\* The records that have expired when those up to `cut` have.
Expired(cut) == {t \in Stored : t <= cut}

\* Mutant: the bytes of expired records stay on the account.
cleanup_expired_uncounted(cut) ==
    /\ tasks' = Keep(tasks, Stored \ Expired(cut))
    /\ order' = Without(order, Expired(cut))
    /\ cancelling' = cancelling \cup (Expired(cut) \cap Active)
    /\ UNCHANGED completed_bytes

\* Mutant: the tasks of expired records go on.
cleanup_expired_uncancelled(cut) ==
    /\ tasks' = Keep(tasks, Stored \ Expired(cut))
    /\ order' = Without(order, Expired(cut))
    /\ completed_bytes' = completed_bytes - BytesOf(Expired(cut))
    /\ UNCHANGED cancelling

\* _sweep_locked, and the cancellation of what it finds running.
cleanup_expired(cut) ==
    /\ tasks' = Keep(tasks, Stored \ Expired(cut))
    /\ order' = Without(order, Expired(cut))
    /\ completed_bytes' = completed_bytes - BytesOf(Expired(cut))
    /\ cancelling' = cancelling \cup (Expired(cut) \cap Active)

-----------------------------------------------------------------------------
(* The handlers. *)

\* reserve() refuses: too many tests run, or the count is reached and no record is
\* completed.
start_test_refused(cut) ==
    /\ ~closed
    /\ LET active == Active \ Expired(cut)
           left == Stored \ Expired(cut)
       IN  \/ Cardinality(active) >= MaxActive
           \/ Cardinality(left) >= MaxCount /\ left = active
    /\ cleanup_expired(cut)
    /\ UNCHANGED <<closed, started, coroutine, awaited, aclose>>

\* How many of n records must go before another one is added.
Surplus(n) == IF n < MaxCount THEN 0 ELSE n - MaxCount + 1

\* reserve(), create_task and attach_task.
start_test(cut) ==
    /\ ~closed
    /\ started < MaxTasks
    /\ LET active == Active \ Expired(cut)
           left == Stored \ Expired(cut)
           done == Without(order, Expired(cut))
           surplus == Surplus(Cardinality(left))
           evicted == ToSet(SubSeq(done, 1, surplus))
           t == started + 1
       IN  /\ Cardinality(active) < MaxActive
           /\ surplus <= Len(done)
           /\ tasks' = [i \in (left \ evicted) \cup {t} |->
                           IF i = t THEN [status |-> "pending", bytes |-> 0] ELSE tasks[i]]
           /\ order' = Without(done, evicted)
           /\ completed_bytes' = completed_bytes - BytesOf(Expired(cut) \cup evicted)
           /\ cancelling' = cancelling \cup (Expired(cut) \cap Active)
           /\ coroutine' = [coroutine EXCEPT ![t] = "running"]
           /\ started' = t
    /\ UNCHANGED <<closed, awaited, aclose>>

\* get_public() returns what is there, after a sweep.
get_test_result(cut) ==
    /\ Expired(cut) # {}
    /\ cleanup_expired(cut)
    /\ UNCHANGED <<closed, started, coroutine, awaited, aclose>>

\* cancel(), when the sweep finds nothing expired: the record is finished while the
\* task has yet to notice.
cancel_test(t) ==
    /\ t \in Active
    /\ cancelling' = cancelling \cup {t}
    /\ finish(t, "cancelled", 0)
    /\ UNCHANGED <<closed, started, coroutine, awaited, aclose>>

\* Mutant: waits for tasks that were never started.
shutdown_awaits_all ==
    /\ ~closed
    /\ closed' = TRUE
    /\ tasks' = <<>> /\ order' = <<>>
    /\ completed_bytes' = 0
    /\ cancelling' = cancelling \cup Active
    /\ awaited' = Ids
    /\ aclose' = "gathering"
    /\ UNCHANGED <<started, coroutine>>

\* AdminRuntimeState.aclose(): shutdown(), then gather.
shutdown ==
    /\ ~closed
    /\ closed' = TRUE
    /\ tasks' = <<>> /\ order' = <<>>
    /\ completed_bytes' = 0
    /\ cancelling' = cancelling \cup Active
    /\ awaited' = Active
    /\ aclose' = "gathering"
    /\ UNCHANGED <<started, coroutine>>

Gathered ==
    /\ aclose = "gathering"
    /\ \A t \in awaited : coroutine[t] = "ended"
    /\ aclose' = "done"
    /\ UNCHANGED <<store, closed, started, coroutine, cancelling, awaited>>

-----------------------------------------------------------------------------
(* _run_test_task. *)

Goto(t, place) == coroutine' = [coroutine EXCEPT ![t] = place]

\* The response is stored, then the client is closed.
Response(t) ==
    /\ coroutine[t] = "running"
    /\ \E body \in Bodies : finish(t, "done", body)
    /\ Goto(t, "responded")
    /\ UNCHANGED <<closed, started, cancelling, awaited, aclose>>

\* A timeout or an error: the client is closed, then the error stored.
RequestFails(t) ==
    /\ coroutine[t] = "running"
    /\ Goto(t, "failed")
    /\ UNCHANGED <<store, closed, started, cancelling, awaited, aclose>>

\* cancel() reaches the task at its await: in the request it has the client
\* closed, in the closing of the client it ends the task.
CancelDelivered(t) ==
    /\ t \in cancelling
    /\ cancelling' = cancelling \ {t}
    /\ CASE coroutine[t] = "running" -> Goto(t, "stopping") /\ UNCHANGED store
         [] coroutine[t] \in {"responded", "failed", "stopping"} ->
              Goto(t, "ended") /\ finish(t, "cancelled", 0)
         [] coroutine[t] = "ended" -> UNCHANGED <<coroutine, store>>
    /\ UNCHANGED <<closed, started, awaited, aclose>>

\* Mutant: an error is not reported to the store.
ClientClosed_silent(t) ==
    /\ coroutine[t] \in {"responded", "failed", "stopping"}
    /\ Goto(t, "ended")
    /\ UNCHANGED <<store, closed, started, cancelling, awaited, aclose>>

\* Closing the client may fail: an error then replaces what the test had come to, a
\* response that is stored already among it.
ClientClosed(t) ==
    /\ coroutine[t] \in {"responded", "failed", "stopping"}
    /\ \/ coroutine[t] = "responded" /\ UNCHANGED store
       \/ coroutine[t] = "stopping" /\ finish(t, "cancelled", 0)
       \/ finish(t, "error", 0)
    /\ Goto(t, "ended")
    /\ UNCHANGED <<closed, started, cancelling, awaited, aclose>>

-----------------------------------------------------------------------------
Stopped ==
    /\ aclose = "done"
    /\ \A t \in 1..started : coroutine[t] = "ended"
    /\ cancelling = {}
    /\ UNCHANGED vars

Run(t) == Response(t) \/ RequestFails(t) \/ ClientClosed(t)

Next ==
    \/ \E cut \in Cuts :
          start_test_refused(cut) \/ start_test(cut) \/ get_test_result(cut)
    \/ \E t \in Ids : cancel_test(t) \/ Run(t) \/ CancelDelivered(t)
    \/ shutdown \/ Gathered
    \/ Stopped

Spec == Init /\ [][Next]_vars

\* The request has a timeout and the client's close ends, so the coroutine goes on;
\* the loop runs what is scheduled.  Tests, cancellations and the shutdown are not fair.
Fairness == WF_vars(Gathered \/ \E t \in Ids : Run(t) \/ CancelDelivered(t))
FairSpec == Spec /\ Fairness

-----------------------------------------------------------------------------
(* Properties. *)

\* Type invariant.
TypeOK ==
    /\ Stored \subseteq 1..started
    /\ \A t \in Stored : /\ tasks[t].status \in {"pending", "done", "error", "cancelled"}
                         /\ tasks[t].bytes \in Nat
    /\ order \in Seq(Ids)
    /\ completed_bytes \in Nat
    /\ closed \in BOOLEAN /\ started \in 0..MaxTasks
    /\ coroutine \in [Ids -> {"absent", "running", "responded", "failed", "stopping", "ended"}]
    /\ cancelling \subseteq 1..started /\ awaited \subseteq Ids
    /\ aclose \in {"none", "gathering", "done"}

\* The counter of completed bytes is what the records really hold, however often a
\* record is finished, expires or is evicted; and it keeps within the budget.
BytesAccounted ==
    /\ completed_bytes = BytesOf(Stored)
    /\ completed_bytes <= MaxCompletedBytes
    /\ ToSet(order) = Stored \ Active

\* The counts keep within their limits (docs/en/gateway-security.md:282-283).
CountsBounded ==
    /\ Cardinality(Active) <= MaxActive
    /\ Cardinality(Stored) <= MaxCount

\* The store's books are true and within their limits.
StoreAccounted == BytesAccounted /\ CountsBounded

\* Every pending record has a task that will report to it: a slot is never held by a
\* test that is over.
PendingIsBacked == \A t \in Active : coroutine[t] \in {"running", "failed"}

\* Capacity is made by evicting completed records only: a record that is pending
\* leaves the store by expiring or by the shutdown, which both cancel its task, or
\* by its own result when the budget has no room even for the record of an error.
DroppedByItself(t) == coroutine'[t] # coroutine[t] /\ MetaSize > MaxCompletedBytes
EvictsOnlyCompleted ==
    [][\A t \in Active :
          t \notin DOMAIN tasks' => t \in cancelling' \/ DroppedByItself(t)]_vars

\* At most max_active tests are running (docs/en/gateway-security.md:282).
Running == {t \in Ids : coroutine[t] \notin {"absent", "ended"}}
AtMostMaxActiveRun == Cardinality(Running) <= MaxActive

\* A test that is pending ends, and the shutdown completes.
PendingEnds == \A t \in Ids : t \in Active ~> t \notin Active
ShutdownEnds == closed ~> aclose = "done"
=============================================================================
