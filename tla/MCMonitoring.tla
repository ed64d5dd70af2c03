--------------------------- MODULE MCMonitoring ---------------------------
(***************************************************************************)
(* One check is enough for two executions to meet in the store: the        *)
(* scheduler's, an operator's and one of an earlier process.  Three        *)
(* results with thresholds up to two give every change of status and a run *)
(* that is broken.                                                         *)
(***************************************************************************)
EXTENDS Monitoring, TLC

CONSTANTS w1, w2, m1

TwoWorkers == {w1, w2}
OneHandler == {m1}
OneCheck   == {1}

\* The run checks safety only.
WorkerSymmetry == Permutations(TwoWorkers)
=============================================================================
