--------------------------- MODULE MCMigrations ----------------------------
(***************************************************************************)
(* The service and two commands, binaries of one and of two migrations,    *)
(* two writes of an open process more than they need, and two faults.      *)
(***************************************************************************)
EXTENDS Migrations

CONSTANTS service, command, command2

ThreeProcesses == {service, command, command2}
=============================================================================
