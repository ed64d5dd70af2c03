---------------------------- MODULE CheckStore -----------------------------
(***************************************************************************)
(* What the machine store does with the result of one execution of a check *)
(* (recordResult in src/internal/machines/store.go): one transaction adds  *)
(* a row to the check's history, moves the counters of consecutive results *)
(* and, past a threshold, the check's status, and sets the status of the   *)
(* check's machine.  That is aggregated over the machine's checks; a       *)
(* machine has one (docs/poc.md:97), so here it is that of the check.      *)
(***************************************************************************)
EXTENDS CheckIds, Sequences

CONSTANT MaxThreshold   \* the largest threshold a check is created with

ASSUME ThresholdAssumption == MaxThreshold \in Nat \ {0}

VARIABLES
    check,          \* the rows of table checks
    machineStatus,  \* the status of each check's machine
    history,        \* history[c]: the rows of check_results, in the order of their ids
    audits          \* audits[c]: how many audit events "check.executed" name c

storeVars == <<check, machineStatus, history, audits>>

Status == {"unknown", "healthy", "critical"}

Row == [status : Status, failures : Nat, successes : Nat,
        failureThreshold : 1..MaxThreshold, recoveryThreshold : 1..MaxThreshold,
        lastChecked : Nat \cup {None}]

Result == [healthy : BOOLEAN, at : Nat, manual : BOOLEAN]

\* The tables' rows have their types.
StoreTypeOK ==
    /\ check \in [Checks -> Row]
    /\ machineStatus \in [Checks -> Status]
    /\ history \in [Checks -> Seq(Result)]
    /\ audits \in [Checks -> Nat]

NewRow(f, r) ==
    [status |-> "unknown", failures |-> 0, successes |-> 0,
     failureThreshold |-> f, recoveryThreshold |-> r, lastChecked |-> None]

\* Create has stored the checks, with any thresholds.
StoreInit ==
    /\ check \in [Checks -> {NewRow(f, r) : f, r \in 1..MaxThreshold}]
    /\ machineStatus = [c \in Checks |-> "unknown"]
    /\ history = [c \in Checks |-> <<>>]
    /\ audits = [c \in Checks |-> 0]

\* The length of a run of equal results after one more.
Extended(run, more) == IF more THEN run + 1 ELSE 0

\* Mutant: the threshold must be exceeded instead of reached.
ReachesPast(run, threshold) == run > threshold

Reaches(run, threshold) == run >= threshold

\* The row after a result: a run of equal results moves the status when it reaches
\* its threshold, anything else leaves it.
NextRow(row, healthy, at) ==
    LET successes == Extended(row.successes, healthy)
        failures  == Extended(row.failures, ~healthy)
    IN  [row EXCEPT
            !.successes = successes, !.failures = failures, !.lastChecked = at,
            !.status =
                IF healthy /\ Reaches(successes, row.recoveryThreshold) THEN "healthy"
                ELSE IF ~healthy /\ Reaches(failures, row.failureThreshold) THEN "critical"
                ELSE @]

\* What recordResult's transaction writes, row being what it has read of the check.
Record(c, row, healthy, at, manual) ==
    /\ check' = [check EXCEPT ![c] = NextRow(row, healthy, at)]
    /\ machineStatus' = [machineStatus EXCEPT ![c] = check'[c].status]
    /\ history' = [history EXCEPT
                    ![c] = Append(@, [healthy |-> healthy, at |-> at, manual |-> manual])]
    /\ audits' = [audits EXCEPT ![c] = @ + IF manual THEN 1 ELSE 0]

\* recordResult as it should appear: each result is added to the row as it is.
StoreNext ==
    \E c \in Checks, healthy, manual \in BOOLEAN, at \in Nat :
        Record(c, check[c], healthy, at, manual)

StoreSpec == StoreInit /\ [][StoreNext]_storeVars

-----------------------------------------------------------------------------
(* Properties *)

\* The last n results of h are all healthy, or all not, as b says, and no more are.
EndsInRun(h, b, n) ==
    /\ n <= Len(h)
    /\ \A i \in (Len(h) - n + 1)..Len(h) : h[i].healthy = b
    /\ n < Len(h) => h[Len(h) - n].healthy # b

\* A check's counters are the lengths of the runs its history ends in, whoever
\* recorded the results and in whatever order.
CountersMatchHistory ==
    \A c \in Checks : /\ EndsInRun(history[c], TRUE, check[c].successes)
                      /\ EndsInRun(history[c], FALSE, check[c].failures)

\* The positions of h where a run of n results b, or the n-th of a longer one, ends.
Reached(h, b, n) ==
    {k \in 1..Len(h) : n <= k /\ \A i \in (k - n + 1)..k : h[i].healthy = b}

\* What the documentation says of a history: the status is set by the last run that
\* reached its threshold.
Verdict(h, failureThreshold, recoveryThreshold) ==
    LET down == Reached(h, FALSE, failureThreshold)
        up   == Reached(h, TRUE, recoveryThreshold)
    IN  IF \E k \in down : \A j \in up : j < k THEN "critical"
        ELSE IF up # {} THEN "healthy" ELSE "unknown"

\* A check is critical only after its number of consecutive failures, and healthy
\* again only after its number of consecutive successes.
StatusMatchesHistory ==
    \A c \in Checks :
        check[c].status =
            Verdict(history[c], check[c].failureThreshold, check[c].recoveryThreshold)

\* Results of the check that are not an operator's are stored in the order in which
\* they were taken: the scheduler's executions of a check do not overlap, also across
\* a restart.  (An operator's run may overlap them and be stored late.)
ScheduledInOrder ==
    \A c \in Checks : \A i, j \in DOMAIN history[c] :
        i < j /\ ~history[c][i].manual /\ ~history[c][j].manual =>
            history[c][i].at <= history[c][j].at
=============================================================================
