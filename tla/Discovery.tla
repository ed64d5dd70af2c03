----------------------------- MODULE Discovery -----------------------------
(***************************************************************************)
(* The discovery service and its store: requests start jobs, a background  *)
(* goroutine runs the scanner and writes every result to the job's row,    *)
(* and the row's status is what the discovery page shows                   *)
(* (src/internal/discovery/service.go and store.go).  The scanner is that  *)
(* of Scanner.tla; here its callback is RecordProbe, a transaction on the  *)
(* row under the service's context.                                        *)
(*                                                                         *)
(* Any statement may fail; the process may end at any point, as main lets  *)
(* it without waiting for the goroutine, and start again on the same       *)
(* database.                                                               *)
(***************************************************************************)
EXTENDS Scanner

CONSTANTS
    Requests,   \* handlers that may call Start at the same time
    JobIds,     \* row ids, in the order they are given out; bounds the jobs
    Targets,    \* Targets[j]: the targets the form of job j may name
    Restarts    \* bounds how often the process ends

\* The rows of discovery_jobs.
Jobs == [status : {"pending", "running", "completed", "failed"},
         total : Nat, processed : Nat, responsive : Nat, target : SUBSET Addresses]

ASSUME JobsAssumption ==
    /\ JobIds \subseteq Nat /\ IsFiniteSet(JobIds) /\ Restarts \in Nat
    /\ None \notin JobIds \cup Jobs /\ "runner" \notin Requests
    /\ Targets \in [JobIds -> SUBSET ((SUBSET Addresses) \ {{}})]

VARIABLES
    request,    \* request[q]: how far handler q is in Start
    reads,      \* reads[q]: the job handler q has inserted, or None
    running,    \* the service's running flag
    runner,     \* where the background goroutine is
    current,    \* the job it runs, or None
    jobs,       \* the table discovery_jobs; None where there is no row
    devices,    \* devices[j]: the rows of discovered_devices, by address
    restarts    \* how often the process has ended

serviceVars == <<request, reads, running, runner, current>>
storeVars   == <<jobs, devices>>
vars == <<scannerVars, serviceVars, storeVars, restarts>>

\* Every variable has its type; a scan is under way only for a running job.
TypeOK ==
    /\ ScannerTypeOK
    /\ request \in [Requests -> {"idle", "inserting", "reading"}]
    /\ reads \in [Requests -> JobIds \cup {None}]
    /\ running \in BOOLEAN
    /\ runner \in {"off", "marking", "scanning", "completing", "failing", "ending"}
    /\ current \in JobIds \cup {None}
    /\ runner = "off" <=> current = None
    /\ scan # "out" => runner = "scanning"
    /\ jobs \in [JobIds -> Jobs \cup {None}]
    /\ devices \in [JobIds -> SUBSET Addresses]

Init ==
    /\ ScannerInit
    /\ request = [q \in Requests |-> "idle"]
    /\ reads = [q \in Requests |-> None]
    /\ running = FALSE
    /\ runner = "off"
    /\ current = None
    /\ jobs = [j \in JobIds |-> None]
    /\ devices = [j \in JobIds |-> {}]
    /\ restarts = 0

-----------------------------------------------------------------------------
(* Start, in the handler's goroutine, under the request's context *)

\* Mutant: the flag is read here and set only when the goroutine is launched.
SwappedLate == running

\* The flag after a compare-and-swap that found it unset.
Swapped == TRUE

\* The compare-and-swap; a request that loses it is turned away.
Claim(q) ==
    /\ request[q] = "idle" /\ ~running
    /\ \E j \in JobIds : jobs[j] = None
    /\ running' = Swapped
    /\ request' = [request EXCEPT ![q] = "inserting"]
    /\ UNCHANGED <<scannerVars, reads, runner, current, storeVars, restarts>>

\* CreateJob's insert, committed on its own.
Insert(q, j, T) ==
    /\ request[q] = "inserting"
    /\ jobs[j] = None /\ \A i \in JobIds : i < j => jobs[i] # None
    /\ T \in Targets[j]
    /\ jobs' = [jobs EXCEPT ![j] =
                 [status |-> "pending", total |-> Cardinality(T), processed |-> 0,
                  responsive |-> 0, target |-> T]]
    /\ reads' = [reads EXCEPT ![q] = j]
    /\ request' = [request EXCEPT ![q] = "reading"]
    /\ UNCHANGED <<scannerVars, running, runner, current, devices, restarts>>

\* CreateJob reads the row back and Start launches the goroutine.
Launch(q) ==
    /\ request[q] = "reading"
    /\ running' = TRUE
    /\ runner' = "marking"
    /\ current' = reads[q]
    /\ reads' = [reads EXCEPT ![q] = None]
    /\ request' = [request EXCEPT ![q] = "idle"]
    /\ UNCHANGED <<scannerVars, storeVars, restarts>>

\* Mutant: the flag stays set.
ResetForgotten == running

\* The flag after the reset on the error path of Start and at the end of run.
Reset == FALSE

\* The insert, or the read of the row it has inserted, fails.
StartFails(q) ==
    /\ request[q] \in {"inserting", "reading"}
    /\ running' = Reset
    /\ reads' = [reads EXCEPT ![q] = None]
    /\ request' = [request EXCEPT ![q] = "idle"]
    /\ UNCHANGED <<scannerVars, runner, current, storeVars, restarts>>

Start(q) ==
    \/ Claim(q) \/ Launch(q) \/ StartFails(q)
    \/ \E j \in JobIds, T \in SUBSET Addresses : Insert(q, j, T)

-----------------------------------------------------------------------------
(* The background goroutine, under the service's context *)

\* Mutant: the update names no row.
SetStatusEverywhere(status) ==
    jobs' = [j \in JobIds |->
                IF jobs[j] = None THEN None ELSE [jobs[j] EXCEPT !.status = status]]

\* updateJobStatus: whatever the row's status was.
SetStatus(status) == jobs' = [jobs EXCEPT ![current].status = status]

MarkRunning ==
    /\ runner = "marking" /\ ~cancelled
    /\ SetStatus("running")
    /\ Call(jobs[current].target)
    /\ runner' = "scanning"
    /\ UNCHANGED <<request, reads, running, current, devices, restarts>>

MarkFails ==
    /\ runner = "marking"
    /\ runner' = "failing"
    /\ UNCHANGED <<scannerVars, request, reads, running, current, storeVars, restarts>>

\* Mutant: the addresses that do not respond are counted as well.
FoundAlways == 1

\* What a result adds to the count of responsive addresses.
Found == IF hand.responsive THEN 1 ELSE 0

\* A job's row with one more result, found or not.
Counted(job, found) ==
    [job EXCEPT !.processed = job.processed + 1, !.responsive = job.responsive + found]

\* RecordProbe's transaction: the device and its ports, and the job's counters.
RecordProbe ==
    /\ runner = "scanning" /\ ~cancelled
    /\ jobs[current].status = "running"
    /\ ConsumeOk
    /\ jobs' = [jobs EXCEPT ![current] = Counted(@, Found)]
    /\ devices' = [devices EXCEPT ![current] =
                     IF hand.responsive THEN @ \cup {hand.address} ELSE @]
    /\ UNCHANGED <<serviceVars, restarts>>

\* Mutant: the goroutine records the failure while the scan's workers still run.
RecordProbeFailsLeaving ==
    /\ ConsumeFails
    /\ runner' = "failing"
    /\ UNCHANGED <<request, reads, running, current, storeVars, restarts>>

\* RecordProbe fails and its transaction is rolled back.
RecordProbeFails ==
    /\ ConsumeFails
    /\ UNCHANGED <<serviceVars, storeVars, restarts>>

\* The scanner's own steps.
ScanStep ==
    /\ CloseJobs \/ \E w \in Workers : Worker(w)
    /\ UNCHANGED <<serviceVars, storeVars, restarts>>

\* Scan returns to run.
ScanEnds ==
    /\ Return
    /\ runner' = IF outcome' = "ok" THEN "completing" ELSE "failing"
    /\ UNCHANGED <<request, reads, running, current, storeVars, restarts>>

Complete ==
    /\ runner = "completing" /\ ~cancelled
    /\ SetStatus("completed")
    /\ runner' = "ending"
    /\ UNCHANGED <<scannerVars, request, reads, running, current, devices, restarts>>

\* A failing Complete is logged and nothing else.
CompleteFails ==
    /\ runner = "completing"
    /\ runner' = "ending"
    /\ UNCHANGED <<scannerVars, request, reads, running, current, storeVars, restarts>>

\* recordFailure has a context of its own, which the service's does not cancel.
Fail ==
    /\ runner = "failing"
    /\ SetStatus("failed")
    /\ runner' = "ending"
    /\ UNCHANGED <<scannerVars, request, reads, running, current, devices, restarts>>

FailFails ==
    /\ runner = "failing"
    /\ runner' = "ending"
    /\ UNCHANGED <<scannerVars, request, reads, running, current, storeVars, restarts>>

\* The deferred reset of the flag, and the goroutine ends.
End ==
    /\ runner = "ending"
    /\ running' = Reset
    /\ runner' = "off"
    /\ current' = None
    /\ UNCHANGED <<scannerVars, request, reads, storeVars, restarts>>

Runner ==
    \/ MarkRunning \/ MarkFails \/ RecordProbe \/ RecordProbeFails \/ ScanEnds
    \/ Complete \/ CompleteFails \/ Fail \/ FailFails \/ End

-----------------------------------------------------------------------------
(* The process *)

\* The service's context is cancelled: the process is about to shut down.
Shutdown ==
    /\ CancelContext
    /\ UNCHANGED <<serviceVars, storeVars, restarts>>

\* The process ends, wherever its goroutines are, and starts again: everything but
\* the database is as in the initial state.
Restart ==
    /\ restarts < Restarts
    /\ restarts' = restarts + 1
    /\ scan' = "out"
    /\ target' = {} /\ todo' = {}
    /\ feeder' = "closed"
    /\ wpc' = [w \in Workers |-> "exited"]
    /\ result' = [w \in Workers |-> None]
    /\ hand' = None
    /\ consumed' = {}
    /\ failed' = FALSE
    /\ outcome' = "none"
    /\ cancelled' = FALSE
    /\ request' = [q \in Requests |-> "idle"]
    /\ reads' = [q \in Requests |-> None]
    /\ running' = FALSE
    /\ runner' = "off"
    /\ current' = None
    /\ UNCHANGED storeVars

\* The bounds are used up and nothing is under way.
Idle ==
    /\ runner = "off"
    /\ \A q \in Requests : request[q] = "idle"
    /\ UNCHANGED vars

JobNext ==
    \/ \E q \in Requests : Start(q)
    \/ Runner
    \/ ScanStep
    \/ Shutdown
    \/ Restart
    \/ Idle

JobSpec == Init /\ [][JobNext]_vars

\* Goroutines and handlers are scheduled, and every probe ends.
JobFairness ==
    /\ WF_vars(Runner) /\ WF_vars(CloseJobs /\ ScanStep)
    /\ \A w \in Workers : WF_vars(Worker(w) /\ ScanStep)
    /\ \A q \in Requests : WF_vars(Start(q) /\ request[q] # "idle")

FairJobSpec == JobSpec /\ JobFairness

-----------------------------------------------------------------------------
(* Properties *)

\* The flag is set exactly while one handler is past the compare-and-swap or the
\* goroutine runs, never two of them: only one discovery job runs at a time, and a
\* failed start does not block the next.
Holders == {q \in Requests : request[q] # "idle"} \cup {r \in {"runner"} : runner # "off"}

OneScanAtATime ==
    /\ \A g, h \in Holders : g = h
    /\ running <=> Holders # {}

\* A job's counters are its devices and its consumed results, through failures,
\* a cancelled context and restarts.
CountersExact ==
    \A j \in JobIds : jobs[j] # None =>
        /\ jobs[j].responsive = Cardinality(devices[j])
        /\ jobs[j].responsive <= jobs[j].processed
        /\ j = current /\ runner \in {"scanning", "completing"} =>
              jobs[j].processed = Cardinality(consumed)

\* A job shown as completed has a result for every address of its target.
CompletedIsComplete ==
    \A j \in JobIds : jobs[j] # None /\ jobs[j].status = "completed" =>
        jobs[j].processed = jobs[j].total

\* A finished job stays as it is: no late result or status change reaches its row.
FinishedIsFinal ==
    [][\A j \in JobIds : jobs[j] # None /\ jobs[j].status \in {"completed", "failed"} =>
         jobs'[j] = jobs[j] /\ devices'[j] = devices[j]]_vars

\* A claimed service is released again: the flag does not stay set.
FlagIsReset == running ~> ~running

\* The rows follow the abstract specification of jobs: one is worked on at a time, no
\* address is recorded twice or after the end, completed means that all were, and
\* nothing but a job's own goroutine writes its row.
Working == ({current} \cup {reads[q] : q \in Requests}) \ {None}

Seen ==
    IF current # None /\ jobs[current] # None /\ jobs[current].status = "running"
    THEN Consumed ELSE {}

Abstract == INSTANCE DiscoveryJobs WITH working <- Working, seen <- Seen

JobsPromise == Abstract!Spec

\* A job the page shows as pending or running is being started or scanned.
ShownRunningIsRunning ==
    \A j \in JobIds : jobs[j] # None /\ jobs[j].status \in {"pending", "running"} =>
        j = current \/ \E q \in Requests : reads[q] = j
=============================================================================
