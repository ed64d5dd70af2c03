----------------------------- MODULE Scheduler -----------------------------
(***************************************************************************)
(* The monitoring scheduler (src/internal/monitoring/scheduler.go): a      *)
(* dispatcher polls the store for due checks and feeds a bounded channel,  *)
(* a fixed pool of workers runs the checks and records their results, and  *)
(* a map of check ids keeps a check from being queued or run twice.  The   *)
(* service's context may be cancelled between any two steps.               *)
(*                                                                         *)
(* The store is reduced to the set of checks it would report as due; what  *)
(* a recorded result does to a check is in CheckStore.tla.  The figures    *)
(* that Stats shows (results recorded, last error) are left out.           *)
(***************************************************************************)
EXTENDS CheckIds, Sequences

CONSTANT Workers    \* the worker goroutines

ASSUME WorkersAssumption == IsFiniteSet(Workers) /\ Workers # {}

QueueCapacity == 2 * Cardinality(Workers)

\* Mutant: as many checks are asked for as there are workers.
DueLimitOfWorkers == Cardinality(Workers)

DueLimit == 4 * Cardinality(Workers)

VARIABLES
    loop,       \* where Run's goroutine is
    batch,      \* due checks dispatch has not yet considered
    sending,    \* the check dispatch has acquired and is sending, or None
    jobs,       \* the buffered channel of queued checks
    closed,     \* the channel has been closed
    inFlight,   \* the in-flight map's keys
    wpc,        \* wpc[w]: where worker w is
    job,        \* job[w]: the check worker w took from the channel, or None
    cancelled,  \* the context has been cancelled
    due         \* the store: the checks ListDue would find due now

dispatcherVars == <<loop, batch, sending>>
workerVars     == <<wpc, job>>
vars == <<loop, batch, sending, jobs, closed, inFlight, wpc, job, cancelled, due>>

\* Worker w is between receiving a check and having released it.
Busy(w) == wpc[w] \in {"running", "recording", "releasing"}

\* Every variable has its type; a worker has a check exactly while it is busy
\* (never the zero value a receive from the closed channel would give).
TypeOK ==
    /\ loop \in {"list", "next", "send", "wait", "drain", "returned"}
    /\ batch \in SUBSET Checks
    /\ sending \in Checks \cup {None}
    /\ jobs \in Seq(Checks)
    /\ closed \in BOOLEAN
    /\ inFlight \in SUBSET Checks
    /\ wpc \in [Workers -> {"idle", "running", "recording", "releasing", "exited"}]
    /\ job \in [Workers -> Checks \cup {None}]
    /\ \A w \in Workers : Busy(w) <=> job[w] # None
    /\ cancelled \in BOOLEAN
    /\ due \in SUBSET Checks

\* Run has swapped `running` to TRUE, started the workers and is about to dispatch.
Init ==
    /\ loop = "list"
    /\ batch = {}
    /\ sending = None
    /\ jobs = <<>>
    /\ closed = FALSE
    /\ inFlight = {}
    /\ wpc = [w \in Workers |-> "idle"]
    /\ job = [w \in Workers |-> None]
    /\ cancelled = FALSE
    /\ due \in SUBSET Checks

-----------------------------------------------------------------------------
(* The dispatcher *)

\* Mutant: acquire does not look the check up.
AcquirableAlways(c) == TRUE

\* What acquire finds under its lock.
Acquirable(c) == c \notin inFlight

\* Mutant: release forgets the deletion.
ReleasedNever(c) == inFlight

\* The map after release.
Released(c) == inFlight \ {c}

\* The first checks in list order of a set of due ones, at most DueLimit of them.
FirstDue(S) == {c \in S : Cardinality({d \in S : d < c}) < DueLimit}

ListDue ==
    /\ loop = "list" /\ ~cancelled
    /\ batch' = FirstDue(due)
    /\ loop' = "next"
    /\ UNCHANGED <<sending, jobs, closed, inFlight, workerVars, cancelled, due>>

\* The query fails: the store's fault, or the context is cancelled.
ListFails ==
    /\ loop = "list"
    /\ loop' = "wait"
    /\ UNCHANGED <<batch, sending, jobs, closed, inFlight, workerVars, cancelled, due>>

IsNext(c) == c \in batch /\ \A d \in batch : c <= d

\* acquire finds the check in flight and dispatch passes on to the next one.
Skip(c) ==
    /\ loop = "next" /\ IsNext(c)
    /\ ~Acquirable(c)
    /\ batch' = batch \ {c}
    /\ UNCHANGED <<loop, sending, jobs, closed, inFlight, workerVars, cancelled, due>>

Acquire(c) ==
    /\ loop = "next" /\ IsNext(c)
    /\ Acquirable(c)
    /\ inFlight' = inFlight \cup {c}
    /\ sending' = c
    /\ batch' = batch \ {c}
    /\ loop' = "send"
    /\ UNCHANGED <<jobs, closed, workerVars, cancelled, due>>

\* The select's send case: ready only while the channel has room.
Send ==
    /\ loop = "send"
    /\ Len(jobs) < QueueCapacity
    /\ jobs' = Append(jobs, sending)
    /\ sending' = None
    /\ loop' = "next"
    /\ UNCHANGED <<batch, closed, inFlight, workerVars, cancelled, due>>

\* The select's Done case: the acquired check is released, the rest dropped.
AbandonSend ==
    /\ loop = "send" /\ cancelled
    /\ inFlight' = Released(sending)
    /\ sending' = None
    /\ batch' = {}
    /\ loop' = "wait"
    /\ UNCHANGED <<jobs, closed, workerVars, cancelled, due>>

EndOfBatch ==
    /\ loop = "next" /\ batch = {}
    /\ loop' = "wait"
    /\ UNCHANGED <<batch, sending, jobs, closed, inFlight, workerVars, cancelled, due>>

\* The ticker's case of Run's select; a cancelled context does not exclude it.
Tick ==
    /\ loop = "wait"
    /\ loop' = "list"
    /\ UNCHANGED <<batch, sending, jobs, closed, inFlight, workerVars, cancelled, due>>

\* Mutant: Run waits for the workers without closing the channel.
CloseForgotten ==
    /\ loop = "wait" /\ cancelled
    /\ loop' = "drain"
    /\ UNCHANGED <<batch, sending, jobs, closed, inFlight, workerVars, cancelled, due>>

Close ==
    /\ loop = "wait" /\ cancelled
    /\ closed' = TRUE
    /\ loop' = "drain"
    /\ UNCHANGED <<batch, sending, jobs, inFlight, workerVars, cancelled, due>>

\* workers.Wait returns and so does Run.
Return ==
    /\ loop = "drain"
    /\ \A w \in Workers : wpc[w] = "exited"
    /\ loop' = "returned"
    /\ UNCHANGED <<batch, sending, jobs, closed, inFlight, workerVars, cancelled, due>>

Dispatcher ==
    \/ ListDue \/ ListFails \/ Send \/ AbandonSend \/ EndOfBatch \/ Tick \/ Close \/ Return
    \/ \E c \in Checks : Skip(c) \/ Acquire(c)

-----------------------------------------------------------------------------
(* The workers *)

Receive(w) ==
    /\ wpc[w] = "idle" /\ jobs # <<>>
    /\ job' = [job EXCEPT ![w] = Head(jobs)]
    /\ jobs' = Tail(jobs)
    /\ wpc' = [wpc EXCEPT ![w] = "running"]
    /\ UNCHANGED <<dispatcherVars, closed, inFlight, cancelled, due>>

\* The runner returns and the worker looks at the context.
RunEnds(w) ==
    /\ wpc[w] = "running"
    /\ wpc' = [wpc EXCEPT ![w] = IF cancelled THEN "releasing" ELSE "recording"]
    /\ UNCHANGED <<dispatcherVars, jobs, closed, inFlight, job, cancelled, due>>

\* Mutant: the result is recorded under a context that outlives the service's.
MayCommitDetached == TRUE

\* A worker's transaction is bound to the service's context.
MayCommit == ~cancelled

\* The transaction of RecordScheduledResult commits: the check is not due any more,
\* unless its interval has passed since the result's timestamp was taken, which is the
\* last one then also if a later one was stored before it.
RecordResult(w) ==
    /\ wpc[w] = "recording" /\ MayCommit
    /\ due' \in {due \ {job[w]}, due \cup {job[w]}}
    /\ wpc' = [wpc EXCEPT ![w] = "releasing"]
    /\ UNCHANGED <<dispatcherVars, jobs, closed, inFlight, job, cancelled>>

RecordFails(w) ==
    /\ wpc[w] = "recording"
    /\ wpc' = [wpc EXCEPT ![w] = "releasing"]
    /\ UNCHANGED <<dispatcherVars, jobs, closed, inFlight, job, cancelled, due>>

Release(w) ==
    /\ wpc[w] = "releasing"
    /\ inFlight' = Released(job[w])
    /\ job' = [job EXCEPT ![w] = None]
    /\ wpc' = [wpc EXCEPT ![w] = "idle"]
    /\ UNCHANGED <<dispatcherVars, jobs, closed, cancelled, due>>

\* Mutant: an idle worker leaves on cancellation instead of draining the channel.
RangeEndsOnCancel == cancelled \/ (closed /\ jobs = <<>>)

\* The range over the channel ends once it is closed and drained.
RangeEnds == closed /\ jobs = <<>>

Exit(w) ==
    /\ wpc[w] = "idle" /\ RangeEnds
    /\ wpc' = [wpc EXCEPT ![w] = "exited"]
    /\ UNCHANGED <<dispatcherVars, jobs, closed, inFlight, job, cancelled, due>>

Worker(w) ==
    Receive(w) \/ RunEnds(w) \/ RecordResult(w) \/ RecordFails(w) \/ Release(w) \/ Exit(w)

-----------------------------------------------------------------------------
(* The world around the scheduler *)

programVars ==
    <<dispatcherVars, jobs, closed, inFlight, workerVars, cancelled>>

\* A check's interval has passed since its last result, or the check is new.
BecomeDue(c) ==
    /\ c \notin due
    /\ due' = due \cup {c}
    /\ UNCHANGED programVars

\* "Run now" records a result for a check, past the scheduler and its in-flight map.
ManualResult(c) ==
    /\ c \in due
    /\ due' = due \ {c}
    /\ UNCHANGED programVars

Cancel ==
    /\ ~cancelled
    /\ cancelled' = TRUE
    /\ UNCHANGED <<dispatcherVars, jobs, closed, inFlight, workerVars, due>>

\* Run has returned; the process is free to end.
Finished ==
    /\ loop = "returned"
    /\ UNCHANGED vars

Next ==
    \/ Dispatcher
    \/ \E w \in Workers : Worker(w)
    \/ \E c \in Checks : BecomeDue(c) \/ ManualResult(c)
    \/ Cancel
    \/ Finished

Spec == Init /\ [][Next]_vars

\* Goroutines are scheduled (weak fairness).  Go's select picks among its ready
\* cases at random, so the Done case is not passed over for ever; errors of the
\* store are transient, so a query tried for ever succeeds in the end.
Fairness ==
    /\ WF_vars(Dispatcher)
    /\ SF_vars(Close) /\ SF_vars(ListDue)
    /\ \A w \in Workers : WF_vars(Worker(w))

FairSpec == Spec /\ Fairness

-----------------------------------------------------------------------------
(* Properties *)

Queued  == {jobs[i] : i \in DOMAIN jobs}
Held    == {job[w] : w \in {v \in Workers : Busy(v)}}

\* A check is in at most one place: one slot of the channel, one worker, or the
\* dispatcher's blocked send.
OnePlace ==
    /\ \A i, j \in DOMAIN jobs : jobs[i] = jobs[j] => i = j
    /\ \A v, w \in Workers : Busy(v) /\ Busy(w) /\ job[v] = job[w] => v = w
    /\ Queued \cap Held = {}
    /\ sending \notin Queued \cup Held

\* The in-flight map holds exactly the checks that are somewhere: no entry leaks
\* (a leaked one would never be scheduled again) and none is missing (a missing
\* one could be run twice at once).
InFlightExact ==
    inFlight = Queued \cup Held \cup (IF loop = "send" THEN {sending} ELSE {})

\* When Run has returned nothing is queued, running or left in the map, although
\* the context may have been cancelled with a full channel and a blocked send.
CleanReturn ==
    loop = "returned" =>
        /\ jobs = <<>> /\ inFlight = {}
        /\ \A w \in Workers : wpc[w] = "exited"

\* The scheduler implements the abstract specification of check executions.
PhaseOf(c) ==
    IF c \in Queued \/ (loop = "send" /\ c = sending) THEN "waiting"
    ELSE IF \E w \in Workers : job[w] = c /\ wpc[w] \in {"running", "recording"} THEN "running"
    ELSE IF \E w \in Workers : job[w] = c /\ wpc[w] = "releasing" THEN "ending"
    ELSE "idle"

Abstract == INSTANCE CheckRuns WITH
    phase <- [c \in Checks |-> PhaseOf(c)], offered <- batch, stopped <- cancelled

RunsPromise == Abstract!Spec

\* Once the context is cancelled Run returns: no worker and no send blocks it.
ShutdownCompletes == cancelled ~> (loop = "returned")

\* A check that is due is run, unless the scheduler is stopped: no due check is
\* starved by the others.
DueIsRun == \A c \in Checks : (c \in due) ~> (c \in Held \/ c \notin due \/ cancelled)
=============================================================================
