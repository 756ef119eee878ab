--------------------------- MODULE ImageWorkerPool --------------------------
(***************************************************************************)
(* gateway/image_workers.py: class ImageFetchWorkerPool.                   *)
(*                                                                         *)
(* Requests of the event loop hand blocking image conversions to a fixed   *)
(* set of daemon threads.  A semaphore bounds the conversions that are     *)
(* queued or running; its permit is given back by a callback of the work's *)
(* future, which a worker thread schedules on the loop when the conversion *)
(* is over, not when the request that asked for it gives up.               *)
(*                                                                         *)
(* The loop interleaves with the threads.  run() is atomic from one await  *)
(* to the next, and it awaits twice: for a permit and for the result.      *)
(* close() never awaits, but the threads go on while it drains the queue.  *)
(***************************************************************************)
EXTENDS Naturals, Sequences, FiniteSets, SequencesExt

CONSTANTS
    Requests,      \* calls of run(), one conversion and one token each
    Workers        \* the threads; Cardinality(Workers) is max_workers

max_workers == Cardinality(Workers)
SENTINEL == "sentinel"
Idle == "idle"
Exited == "exited"

ASSUME WorkersAssumption == IsFiniteSet(Workers) /\ Workers # {}
ASSUME RequestsAssumption ==
    IsFiniteSet(Requests) /\ Requests \cap {SENTINEL, Idle, Exited} = {}

VARIABLES
    request,              \* per request: where its run() is, or how it ended
    \* asyncio.Semaphore
    value,
    waiters,              \* requests in its waiter list, oldest first
    granted,              \* those of them whose waiter has been woken
    \* pool
    queue,
    worker,               \* per thread: Idle, Exited or the request it works for
    future,               \* per request: the state of raw_future
    tokens,               \* _tokens
    cancelled,            \* requests whose cancellation token is set
    releases,             \* permits.release callbacks scheduled on the loop
    waiting_submitters,
    closed,
    close_at              \* "open", "drain", "done": the progress of close()

semaphore == <<value, waiters, granted>>
threads == <<queue, worker, future>>
vars == <<request, semaphore, threads, tokens, cancelled, releases,
          waiting_submitters, closed, close_at>>

Waits == {"waiting", "submitted"}
\* "done": the result or exception of the conversion; "refused": the pool is
\* closed; "given_up": a timeout, or the request itself was cancelled; "cancelled":
\* close() cancelled the queued item.
Ends == {"done", "refused", "given_up", "cancelled"}

Init ==
    /\ request = [r \in Requests |-> "new"]
    /\ value = max_workers /\ waiters = <<>> /\ granted = {}
    /\ queue = <<>>
    /\ worker = [w \in Workers |-> Idle]
    /\ future = [r \in Requests |-> "none"]
    /\ tokens = {} /\ cancelled = {}
    /\ releases = 0
    /\ waiting_submitters = 0
    /\ closed = FALSE /\ close_at = "open"

-----------------------------------------------------------------------------
(* asyncio.Semaphore, as of Python 3.14. *)

\* The places of the waiters that are not awake yet; waking k of them gives the
\* k oldest a permit each.
Asleep(w, g) == {i \in DOMAIN w : w[i] \notin g}
Upto(i, places) == {j \in places : j <= i}
Oldest(k, places) == {i \in places : Cardinality(Upto(i, places)) <= k}
Woken(k, w, g) == {w[i] : i \in Oldest(k, Asleep(w, g))}

\* The semaphore when it has v free permits and wakes at most k waiters.
WakeUp(v, k, w, g) ==
    LET woken == Woken(IF k < v THEN k ELSE v, w, g)
    IN  /\ value' = v - Cardinality(woken)
        /\ waiters' = w
        /\ granted' = g \cup woken

\* release(): one more permit, and the oldest sleeper is woken.
release == WakeUp(value + 1, 1, waiters, granted)

Without(s, r) == RemoveAt(s, CHOOSE i \in DOMAIN s : s[i] = r)

-----------------------------------------------------------------------------
(* run(). *)

\* The caller has a permit: register the token, queue the work.
Submit(r) ==
    /\ tokens' = tokens \cup {r}
    /\ future' = [future EXCEPT ![r] = "pending"]
    /\ queue' = Append(queue, r)
    /\ request' = [request EXCEPT ![r] = "submitted"]
    /\ UNCHANGED worker

RefusedClosed(r) ==
    /\ request[r] = "new"
    /\ closed
    /\ request' = [request EXCEPT ![r] = "refused"]
    /\ UNCHANGED <<semaphore, threads, tokens, cancelled, releases, waiting_submitters,
                   closed, close_at>>

\* Mutant: nobody in front, but no look at the permits.
RunAtOnce_unchecked(r) ==
    /\ request[r] = "new"
    /\ ~closed
    /\ waiters = <<>>
    /\ value' = value - 1
    /\ Submit(r)
    /\ UNCHANGED <<waiters, granted, cancelled, releases, waiting_submitters, closed,
                   close_at>>

\* acquire() finds a permit and nobody in front.
RunAtOnce(r) ==
    /\ request[r] = "new"
    /\ ~closed
    /\ value > 0 /\ waiters = <<>>
    /\ value' = value - 1
    /\ Submit(r)
    /\ UNCHANGED <<waiters, granted, cancelled, releases, waiting_submitters, closed,
                   close_at>>

WaitForPermit(r) ==
    /\ request[r] = "new"
    /\ ~closed
    /\ ~(value > 0 /\ waiters = <<>>)
    /\ request' = [request EXCEPT ![r] = "waiting"]
    /\ waiters' = Append(waiters, r)
    /\ waiting_submitters' = waiting_submitters + 1
    /\ UNCHANGED <<value, granted, threads, tokens, cancelled, releases, closed, close_at>>

\* Mutant: a woken waiter does not wake others.
ResumeGranted_silent(r) ==
    /\ r \in granted /\ ~closed
    /\ WakeUp(value, 0, Without(waiters, r), granted \ {r})
    /\ waiting_submitters' = waiting_submitters - 1
    /\ Submit(r)
    /\ UNCHANGED <<cancelled, releases, closed, close_at>>

\* The woken waiter resumes.  acquire() leaves the waiter list and wakes others if
\* permits are free; if close() came first the permit goes straight back.
ResumeGranted(r) ==
    /\ r \in granted /\ ~closed
    /\ WakeUp(value, value, Without(waiters, r), granted \ {r})
    /\ waiting_submitters' = waiting_submitters - 1
    /\ Submit(r)
    /\ UNCHANGED <<cancelled, releases, closed, close_at>>

ResumeClosed(r) ==
    /\ r \in granted /\ closed
    /\ WakeUp(value + 1, value + 1, Without(waiters, r), granted \ {r})
    /\ waiting_submitters' = waiting_submitters - 1
    /\ request' = [request EXCEPT ![r] = "refused"]
    /\ UNCHANGED <<threads, tokens, cancelled, releases, closed, close_at>>

\* Mutant: a woken waiter that gives up keeps its permit.
GiveUpWaiting_leaks(r) ==
    /\ request[r] = "waiting"
    /\ WakeUp(value, value, Without(waiters, r), granted \ {r})
    /\ waiting_submitters' = waiting_submitters - 1
    /\ request' = [request EXCEPT ![r] = "given_up"]
    /\ UNCHANGED <<threads, tokens, cancelled, releases, closed, close_at>>

\* The wait for a permit times out, or the request is cancelled in it.  A waiter
\* that was woken already returns its permit.
GiveUpWaiting(r) ==
    /\ request[r] = "waiting"
    /\ LET free == IF r \in granted THEN value + 1 ELSE value
       IN  WakeUp(free, free, Without(waiters, r), granted \ {r})
    /\ waiting_submitters' = waiting_submitters - 1
    /\ request' = [request EXCEPT ![r] = "given_up"]
    /\ UNCHANGED <<threads, tokens, cancelled, releases, closed, close_at>>

\* The wait for the result times out, or the request is cancelled in it: the token
\* is set, the work itself goes on and keeps its permit.
GiveUpResult(r) ==
    /\ request[r] = "submitted"
    /\ cancelled' = cancelled \cup {r}
    /\ request' = [request EXCEPT ![r] = "given_up"]
    /\ UNCHANGED <<semaphore, threads, tokens, releases, waiting_submitters, closed,
                   close_at>>

\* The result reaches the request; a future that close() cancelled is raised in
\* it as a cancellation.
Deliver(r) ==
    /\ request[r] = "submitted"
    /\ future[r] \in {"done", "cancelled"}
    /\ request' = [request EXCEPT ![r] = future[r]]
    /\ cancelled' = IF future[r] = "cancelled" THEN cancelled \cup {r} ELSE cancelled
    /\ UNCHANGED <<semaphore, threads, tokens, releases, waiting_submitters, closed,
                   close_at>>

\* The loop runs a release that a done callback has scheduled.
RunRelease ==
    /\ releases > 0
    /\ releases' = releases - 1
    /\ release
    /\ UNCHANGED <<request, threads, tokens, cancelled, waiting_submitters, closed, close_at>>

-----------------------------------------------------------------------------
(* _worker(). *)

\* _worker_done, the done callback of raw_future.
WorkerDone(r) == tokens' = tokens \ {r} /\ releases' = releases + 1

Get(w) ==
    /\ worker[w] = Idle
    /\ queue # <<>>
    /\ worker' = [worker EXCEPT ![w] = IF Head(queue) = SENTINEL THEN Exited ELSE Head(queue)]
    /\ queue' = Tail(queue)
    /\ future' = IF Head(queue) = SENTINEL THEN future
                 ELSE [future EXCEPT ![Head(queue)] = "running"]
    /\ UNCHANGED <<request, semaphore, tokens, cancelled, releases, waiting_submitters,
                   closed, close_at>>

\* The conversion is over; a cancelled token makes it fail.
Finish(w) ==
    /\ worker[w] \in Requests
    /\ future' = [future EXCEPT ![worker[w]] = "done"]
    /\ WorkerDone(worker[w])
    /\ worker' = [worker EXCEPT ![w] = Idle]
    /\ UNCHANGED <<request, semaphore, queue, cancelled, waiting_submitters, closed, close_at>>

-----------------------------------------------------------------------------
(* close(). *)

\* Mutant: the running conversions are not told.
close_untold ==
    /\ ~closed
    /\ closed' = TRUE
    /\ close_at' = "drain"
    /\ WakeUp(value + waiting_submitters, waiting_submitters, waiters, granted)
    /\ UNCHANGED <<request, threads, tokens, cancelled, releases, waiting_submitters>>

\* Refuse new work, set the tokens of what is queued or running, and wake the
\* submitters that wait for a permit.
close ==
    /\ ~closed
    /\ closed' = TRUE
    /\ close_at' = "drain"
    /\ cancelled' = cancelled \cup tokens
    /\ WakeUp(value + waiting_submitters, waiting_submitters, waiters, granted)
    /\ UNCHANGED <<request, threads, tokens, releases, waiting_submitters>>

\* Mutant: the drained item's future is left pending.
Drain_forgets ==
    /\ close_at = "drain"
    /\ queue # <<>>
    /\ queue' = Tail(queue)
    /\ cancelled' = cancelled \cup {Head(queue)}
    /\ UNCHANGED <<request, semaphore, worker, future, tokens, releases,
                   waiting_submitters, closed, close_at>>

\* A queued item no thread has taken is cancelled.
Drain ==
    /\ close_at = "drain"
    /\ queue # <<>>
    /\ queue' = Tail(queue)
    /\ future' = [future EXCEPT ![Head(queue)] = "cancelled"]
    /\ cancelled' = cancelled \cup {Head(queue)}
    /\ WorkerDone(Head(queue))
    /\ UNCHANGED <<request, semaphore, worker, waiting_submitters, closed, close_at>>

\* Mutant: a single sentinel.
PutSentinels_one ==
    /\ close_at = "drain"
    /\ queue = <<>>
    /\ close_at' = "done"
    /\ queue' = <<SENTINEL>>
    /\ UNCHANGED <<request, semaphore, worker, future, tokens, cancelled, releases,
                   waiting_submitters, closed>>

\* One sentinel for each thread.
PutSentinels ==
    /\ close_at = "drain"
    /\ queue = <<>>
    /\ close_at' = "done"
    /\ queue' = [i \in 1..max_workers |-> SENTINEL]
    /\ UNCHANGED <<request, semaphore, worker, future, tokens, cancelled, releases,
                   waiting_submitters, closed>>

-----------------------------------------------------------------------------
\* close() does not await: the loop does nothing else until it is done.
LoopFree == close_at # "drain"

Loop(r) ==
    /\ LoopFree
    /\ \/ RefusedClosed(r) \/ RunAtOnce(r) \/ WaitForPermit(r)
       \/ ResumeGranted(r) \/ ResumeClosed(r)
       \/ GiveUpWaiting(r) \/ GiveUpResult(r) \/ Deliver(r)

Stopped ==
    /\ \A w \in Workers : worker[w] = Exited
    /\ \A r \in Requests : request[r] \in Ends
    /\ releases = 0
    /\ UNCHANGED vars

Next ==
    \/ \E r \in Requests : Loop(r)
    \/ LoopFree /\ RunRelease
    \/ LoopFree /\ close
    \/ Drain \/ PutSentinels
    \/ \E w \in Workers : Get(w) \/ Finish(w)
    \/ Stopped

Spec == Init /\ [][Next]_vars

\* The loop runs what is ready, the threads are scheduled, and a conversion ends,
\* as each of its steps has a deadline.  Timers, cancellations and close() need
\* not happen.
Resume(r) ==
    LoopFree /\ (ResumeGranted(r) \/ ResumeClosed(r) \/ Deliver(r))
LoopRuns ==
    \/ LoopFree /\ RunRelease
    \/ \E r \in Requests : Resume(r)
    \/ Drain \/ PutSentinels
Fairness == WF_vars(LoopRuns) /\ \A w \in Workers : WF_vars(Get(w) \/ Finish(w))

FairSpec == Spec /\ Fairness

-----------------------------------------------------------------------------
(* Properties. *)

\* Type invariant.
TypeOK ==
    /\ request \in [Requests -> {"new"} \cup Waits \cup Ends]
    /\ value \in Nat
    /\ waiters \in Seq(Requests)
    /\ granted \subseteq ToSet(waiters)
    /\ queue \in Seq(Requests \cup {SENTINEL})
    /\ worker \in [Workers -> Requests \cup {Idle, Exited}]
    /\ future \in [Requests -> {"none", "pending", "running", "done", "cancelled"}]
    /\ tokens \subseteq Requests /\ cancelled \subseteq Requests
    /\ releases \in Nat /\ waiting_submitters \in Nat
    /\ closed \in BOOLEAN /\ close_at \in {"open", "drain", "done"}

\* The conversions that are queued or in a thread.
Occupied == {r \in Requests : future[r] \in {"pending", "running"}}

\* Every permit is accounted for: free, given to a woken waiter, held by a
\* conversion that is not over, or on its way back.  No timeout or cancellation
\* loses one, and none is given back before the conversion is over
\* (docs/en/gateway-security.md:298-300).
PermitsConserved ==
    ~closed =>
        value + Cardinality(granted) + Cardinality(Occupied) + releases = max_workers

\* Also while it closes, the pool has no more work than threads, so put_nowait
\* never finds the queue full, neither for work nor for the sentinels.
WorkFits ==
    /\ Cardinality(Occupied) <= max_workers
    /\ Len(queue) <= max_workers

\* Together: the permits are a true count of the work, so the queue cannot overfill.
WorkIsPermitted == PermitsConserved /\ WorkFits

\* A conversion nobody waits for any more, and every conversion left over when the
\* pool closes, has its token set: it ends early instead of holding its permit.
AbandonedIsCancelled ==
    \A r \in Occupied : closed \/ request[r] \in Ends => r \in cancelled

\* No wake-up is lost: while a permit is free and a request sleeps, another waiter
\* is awake, and it will pass the permit on.
NoLostWakeup == value > 0 /\ Asleep(waiters, granted) # {} => granted # {}

\* Every request is answered, even if no timer ever fires.
EveryRequestAnswered ==
    \A r \in Requests : request[r] \in Waits ~> request[r] \in Ends

\* After close() every thread exits.
WorkersExit == closed ~> \A w \in Workers : worker[w] = Exited
=============================================================================
