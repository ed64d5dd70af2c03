---------------------------- MODULE Monitoring -----------------------------
(***************************************************************************)
(* Scheduled monitoring as a whole: the scheduler of Scheduler.tla, the    *)
(* machine store of CheckStore.tla, the handlers that run a check at an    *)
(* operator's request (checkRunSubmit), a clock, and a process that may    *)
(* end at any point and start again on the same database.                  *)
(*                                                                         *)
(* A handler runs its check without asking the scheduler, so the two may   *)
(* execute the same check at the same time.  recordResult takes the time   *)
(* and then waits for the database's only connection, so that results may  *)
(* be stored in another order than that of their timestamps; with the      *)
(* connection it reads the check's row, and it writes and commits in a     *)
(* later step.  Anything may happen between these three.                   *)
(***************************************************************************)
EXTENDS Scheduler, CheckStore

CONSTANTS
    Handlers,       \* handlers of "Run now" requests
    Interval,       \* a check's interval, in ticks of the clock
    MaxTime,        \* bounds the clock
    MaxResults,     \* bounds the results of a check
    Restarts        \* bounds how often the process ends

ASSUME BoundsAssumption ==
    Interval \in Nat \ {0} /\ MaxTime \in Nat /\ MaxResults \in Nat /\ Restarts \in Nat

VARIABLES
    clock,          \* the time
    probe,          \* probe[w]: the outcome worker w is recording, or None
    handler,        \* handler[m]: where handler m is, with its check and outcome
    restarts

mvars == <<vars, clock, probe, handler, storeVars, restarts>>

\* An outcome that is being recorded: the time was taken, and row is what the transaction
\* has read of the check, or None as long as it has not begun.
Outcomes == [healthy : BOOLEAN, at : Nat, row : Row \cup {None}]

NewOutcome(healthy) == [healthy |-> healthy, at |-> clock, row |-> None]

AtRest == [pc |-> "idle", check |-> None, outcome |-> None]

\* Every variable has its type; a handler has an outcome only once its run has ended.
MTypeOK ==
    /\ TypeOK
    /\ StoreTypeOK
    /\ clock \in 0..MaxTime
    /\ probe \in [Workers -> Outcomes \cup {None}]
    /\ handler \in [Handlers ->
            {AtRest} \cup
            [pc : {"running"}, check : Checks, outcome : {None}] \cup
            [pc : {"recording"}, check : Checks, outcome : Outcomes]]

\* Mutant: the interval is forgotten.
IsDueAtOnce(row, now) == TRUE

\* ListDue's test: no result yet, or the interval has passed since the last one.
IsDue(row, now) == row.lastChecked = None \/ row.lastChecked + Interval <= now
DueChecks(rows, now) == {c \in Checks : IsDue(rows[c], now)}

MInit ==
    /\ Init
    /\ StoreInit
    /\ clock = 0
    /\ probe = [w \in Workers |-> None]
    /\ handler = [m \in Handlers |-> AtRest]
    /\ restarts = 0
    /\ due = DueChecks(check, clock)

HasRoom(c) == Len(history[c]) < MaxResults

\* A transaction has begun and read its row.
Began(outcome) == outcome # None /\ outcome.row # None

\* Mutant: transactions are given connections of their own.
ConnectionFreeAlways == TRUE

\* No transaction of a result holds the only connection.
ConnectionFree ==
    /\ \A w \in Workers : ~Began(probe[w])
    /\ \A m \in Handlers : ~Began(handler[m].outcome)

-----------------------------------------------------------------------------
(* The scheduler's steps, those that touch the store with what they store *)

\* Everything of the scheduler but the recording of a result.
SchedulerStep ==
    /\ \/ Dispatcher
       \/ \E w \in Workers :
            \/ Receive(w) \/ RunEnds(w) \/ Release(w) \/ Exit(w)
            \/ RecordFails(w) /\ probe[w] = None
       \/ Cancel
    /\ UNCHANGED <<clock, probe, handler, storeVars, restarts>>

\* recordResult takes the time and begins to wait for the connection.
TakeTime(w) ==
    /\ wpc[w] = "recording" /\ probe[w] = None /\ HasRoom(job[w])
    /\ \E healthy \in BOOLEAN : probe' = [probe EXCEPT ![w] = NewOutcome(healthy)]
    /\ UNCHANGED <<vars, clock, handler, storeVars, restarts>>

\* The transaction gets the connection and reads the check's row.
BeginScheduled(w) ==
    /\ probe[w] # None /\ ~Began(probe[w])
    /\ ConnectionFree /\ MayCommit
    /\ probe' = [probe EXCEPT ![w].row = check[job[w]]]
    /\ UNCHANGED <<vars, clock, handler, storeVars, restarts>>

\* It writes and commits.
ScheduledResult(w) ==
    /\ Began(probe[w]) /\ HasRoom(job[w])
    /\ RecordResult(w)
    /\ Record(job[w], probe[w].row, probe[w].healthy, probe[w].at, FALSE)
    /\ due' = DueChecks(check', clock)
    /\ probe' = [probe EXCEPT ![w] = None]
    /\ UNCHANGED <<clock, handler, restarts>>

ScheduledResultFails(w) ==
    /\ probe[w] # None
    /\ RecordFails(w)
    /\ probe' = [probe EXCEPT ![w] = None]
    /\ UNCHANGED <<clock, handler, storeVars, restarts>>

-----------------------------------------------------------------------------
(* "Run now" *)

RunNow(m, c) ==
    /\ handler[m].pc = "idle"
    /\ handler' = [handler EXCEPT ![m] =
                    [pc |-> "running", check |-> c, outcome |-> None]]
    /\ UNCHANGED <<vars, clock, probe, storeVars, restarts>>

\* The runner returns, RecordResult takes the time and waits for the connection.
RunNowEnds(m) ==
    /\ handler[m].pc = "running" /\ HasRoom(handler[m].check)
    /\ \E healthy \in BOOLEAN :
        handler' = [handler EXCEPT
                     ![m].pc = "recording", ![m].outcome = NewOutcome(healthy)]
    /\ UNCHANGED <<vars, clock, probe, storeVars, restarts>>

BeginManual(m) ==
    /\ handler[m].pc = "recording" /\ ~Began(handler[m].outcome)
    /\ ConnectionFree
    /\ handler' = [handler EXCEPT ![m].outcome.row = check[handler[m].check]]
    /\ UNCHANGED <<vars, clock, probe, storeVars, restarts>>

ManualRecord(m) ==
    /\ Began(handler[m].outcome) /\ HasRoom(handler[m].check)
    /\ Record(handler[m].check, handler[m].outcome.row, handler[m].outcome.healthy,
              handler[m].outcome.at, TRUE)
    /\ due' = DueChecks(check', clock)
    /\ handler' = [handler EXCEPT ![m] = AtRest]
    /\ UNCHANGED <<programVars, clock, probe, restarts>>

\* The request is given up or the transaction fails.
ManualFails(m) ==
    /\ handler[m].pc \in {"running", "recording"}
    /\ handler' = [handler EXCEPT ![m] = AtRest]
    /\ UNCHANGED <<vars, clock, probe, storeVars, restarts>>

-----------------------------------------------------------------------------
(* Time and the process *)

Elapse ==
    /\ clock < MaxTime
    /\ clock' = clock + 1
    /\ due' = DueChecks(check, clock')
    /\ UNCHANGED <<programVars, probe, handler, storeVars, restarts>>

\* The process ends, wherever its goroutines are, and starts again.
Restart ==
    /\ restarts < Restarts
    /\ restarts' = restarts + 1
    /\ loop' = "list" /\ batch' = {} /\ sending' = None
    /\ jobs' = <<>> /\ closed' = FALSE /\ inFlight' = {}
    /\ wpc' = [w \in Workers |-> "idle"]
    /\ job' = [w \in Workers |-> None]
    /\ cancelled' = FALSE
    /\ probe' = [w \in Workers |-> None]
    /\ handler' = [m \in Handlers |-> AtRest]
    /\ UNCHANGED <<due, clock, storeVars>>

MNext ==
    \/ SchedulerStep
    \/ \E w \in Workers :
        TakeTime(w) \/ BeginScheduled(w) \/ ScheduledResult(w) \/ ScheduledResultFails(w)
    \/ \E m \in Handlers :
        \/ \E c \in Checks : RunNow(m, c)
        \/ RunNowEnds(m) \/ BeginManual(m) \/ ManualRecord(m) \/ ManualFails(m)
    \/ Elapse
    \/ Restart

MSpec == MInit /\ [][MNext]_mvars

-----------------------------------------------------------------------------
(* Properties *)

\* The list of due checks may be stale when dispatch comes to a check, which has been run
\* meanwhile and is run again.  That does not happen twice in a row, also across a restart:
\* among three results that the scheduler stored one after the other, the third was taken
\* an interval after the first at the earliest.
EarlyOnce ==
    \A c \in Checks : \A i \in DOMAIN history[c] :
        /\ i + 2 \in DOMAIN history[c]
        /\ \A j \in i..(i + 2) : ~history[c][j].manual
        => history[c][i].at + Interval <= history[c][i + 2].at
=============================================================================
