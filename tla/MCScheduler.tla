---------------------------- MODULE MCScheduler ----------------------------
(***************************************************************************)
(* Finite instances of Scheduler.  One worker makes a channel of two slots *)
(* and polls of at most four checks: four checks fill worker, channel and  *)
(* the blocked send; a fifth one does not fit in a poll.                   *)
(***************************************************************************)
EXTENDS Scheduler

CONSTANT w1

OneWorker == {w1}

FourChecks == 1..4
FiveChecks == 1..5

\* The behaviours of a service that is never stopped and whose store never fails,
\* checks being run by the scheduler alone.
OverloadSpec ==
    /\ Init
    /\ [][/\ Next /\ ~cancelled'
          /\ ~ListFails /\ ~\E w \in Workers : RecordFails(w)
          /\ ~\E c \in Checks : ManualResult(c)]_vars
    /\ Fairness
=============================================================================
