--------------------------- MODULE DiscoveryJobs ---------------------------
(***************************************************************************)
(* What the discovery service promises about the rows of its jobs, without *)
(* the running flag, the handlers, the goroutines and the channels of the  *)
(* scanner: one job at a time is worked on, from its row's insert on; every*)
(* address of its target is recorded at most once, and only while the row  *)
(* says running; the row says completed only when all of them were; and a  *)
(* row nobody works on does not change, finished or not.                   *)
(*                                                                         *)
(* Discovery.tla implements this specification.                            *)
(***************************************************************************)
EXTENDS Naturals, FiniteSets

CONSTANTS
    Addresses,  \* the addresses that may be discovered
    JobIds,     \* row ids, in the order they are given out
    Targets,    \* Targets[j]: the targets job j may have
    None        \* no row

VARIABLES
    jobs,       \* jobs[j]: the row of job j, or None
    devices,    \* devices[j]: the addresses found for job j
    working,    \* the job worked on, as a set of at most one
    seen        \* the addresses recorded for it while its row says running

vars == <<jobs, devices, working, seen>>

Init ==
    /\ jobs = [j \in JobIds |-> None]
    /\ devices = [j \in JobIds |-> {}]
    /\ working = {} /\ seen = {}

\* The next row is inserted, while no job is worked on.
Create(j, T) ==
    /\ working = {}
    /\ jobs[j] = None /\ \A i \in JobIds : i < j => jobs[i] # None
    /\ T \in Targets[j]
    /\ jobs' = [jobs EXCEPT ![j] =
                 [status |-> "pending", total |-> Cardinality(T), processed |-> 0,
                  responsive |-> 0, target |-> T]]
    /\ working' = {j}
    /\ UNCHANGED <<devices, seen>>

\* The status of the job worked on goes from one of a few to another.
Moves(j, from, to) ==
    /\ j \in working /\ jobs[j].status \in from
    /\ jobs' = [jobs EXCEPT ![j].status = to]
    /\ seen' = {}
    /\ UNCHANGED <<devices, working>>

Run(j) == Moves(j, {"pending"}, "running")

Complete(j) == Moves(j, {"running"}, "completed") /\ seen = jobs[j].target

Fail(j) == Moves(j, {"pending", "running"}, "failed")

\* A row with one more address, which has n devices.
Counted(job, n) ==
    [job EXCEPT !.processed = job.processed + 1, !.responsive = job.responsive + n]

\* An address is recorded, with a device or without one.
Record(j, a) ==
    /\ j \in working /\ jobs[j].status = "running"
    /\ a \in jobs[j].target \ seen
    /\ \E found \in SUBSET {a} :
        /\ jobs' = [jobs EXCEPT ![j] = Counted(@, IF found = {} THEN 0 ELSE 1)]
        /\ devices' = [devices EXCEPT ![j] = @ \cup found]
    /\ seen' = seen \cup {a}
    /\ UNCHANGED working

\* Nobody works on the job any more, whether its row says so or not.
Leave ==
    /\ working' = {} /\ seen' = {}
    /\ UNCHANGED <<jobs, devices>>

Next ==
    \/ \E j \in JobIds, T \in SUBSET Addresses : Create(j, T)
    \/ \E j \in JobIds : Run(j) \/ Complete(j) \/ Fail(j)
    \/ \E j \in JobIds, a \in Addresses : Record(j, a)
    \/ Leave

Spec == Init /\ [][Next]_vars
=============================================================================
