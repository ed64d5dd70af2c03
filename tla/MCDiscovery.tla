---------------------------- MODULE MCDiscovery ----------------------------
(***************************************************************************)
(* Two requests and two jobs, the first over one or three addresses, the   *)
(* second over two, scanned by two workers with one identity slot, in a    *)
(* process that ends at most once.                                         *)
(***************************************************************************)
EXTENDS Discovery

CONSTANTS a1, a2, a3, w1, w2, q1, q2

TheAddresses == {a1, a2, a3}
TwoWorkers   == {w1, w2}
TwoRequests  == {q1, q2}
TwoJobs      == 1..2
TheTargets   == [j \in TwoJobs |-> IF j = 1 THEN {{a1}, TheAddresses} ELSE {{a1, a2}}]
=============================================================================
