-------------------------- MODULE MCLoginLimiter ---------------------------
(***************************************************************************)
(* Two sources and three accounts, of which the tables keep two; a window  *)
(* of the accounts that outlives a sweep, as five minutes outlive one.     *)
(***************************************************************************)
EXTENDS LoginLimiter, TLC

CONSTANTS s1, s2, a1, a2, a3

TheSources  == {s1, s2}
TheAccounts == {a1, a2, a3}

\* The run checks safety only.
KeySymmetry == Permutations(TheSources) \cup Permutations(TheAccounts)
=============================================================================
