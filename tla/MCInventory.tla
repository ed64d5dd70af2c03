---------------------------- MODULE MCInventory ----------------------------
(***************************************************************************)
(* Two jobs find the same two addresses, with or without a known port, so  *)
(* that imports meet machines of an operator, of the other job and of a    *)
(* form that names a device twice.                                         *)
(***************************************************************************)
EXTENDS Inventory, TLC

CONSTANTS a1, a2, g1, g2

TheAddresses == {a1, a2}
TheGroups    == {g1, g2}
TwoJobs      == {1, 2}
ThePortSets  == {{}, {22, 443}}
TheEndpoints == {<<"tcp", 22>>}
ThePaths     == {"/", "/status"}

\* The run checks safety only.
NameSymmetry == Permutations(TheAddresses) \cup Permutations(TheGroups)
=============================================================================
