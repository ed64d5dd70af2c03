------------------------------ MODULE CheckIds ------------------------------
(***************************************************************************)
(* The identities the monitoring modules share.  A check's id is its       *)
(* position in the order in which the store lists the checks.              *)
(***************************************************************************)
EXTENDS Integers, FiniteSets

CONSTANTS
    Checks,     \* the stored checks
    None        \* no check, no time, no result

ASSUME ChecksAssumption == Checks \subseteq Nat /\ IsFiniteSet(Checks)
ASSUME NoneAssumption == None \notin Nat
=============================================================================
