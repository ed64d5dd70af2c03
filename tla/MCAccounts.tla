---------------------------- MODULE MCAccounts -----------------------------
(***************************************************************************)
(* Two requests share the single slot of the server, a command has a       *)
(* process of its own; two names, and of three events at most one failed   *)
(* login is kept.                                                          *)
(***************************************************************************)
EXTENDS Accounts

CONSTANTS r1, r2, command, server, cli, n1, n2

TheCallers   == {r1, r2, command}
TheProcesses == {server, cli}
TheProcessOf == [c \in TheCallers |-> IF c = command THEN cli ELSE server]
TheNames     == {n1, n2}
=============================================================================
