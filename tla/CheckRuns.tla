----------------------------- MODULE CheckRuns -----------------------------
(***************************************************************************)
(* What the monitoring scheduler promises about the executions of the      *)
(* stored checks, without its queue, its worker pool or its in-flight map: *)
(* a check is executed only because a poll of the store offered it as due, *)
(* at most once per offer and never twice at a time; an execution records  *)
(* at most one result, and none once the scheduler has been told to stop.  *)
(*                                                                         *)
(* Scheduler.tla implements this specification.                            *)
(***************************************************************************)

CONSTANT Checks

VARIABLES
    phase,      \* phase[c]: how far the execution of check c has come
    offered,    \* the checks of the last poll not yet considered
    due,        \* the checks the store reports as due
    stopped     \* TRUE once the scheduler has been told to stop

vars == <<phase, offered, due, stopped>>

Phases == {"idle", "waiting", "running", "ending"}

Init ==
    /\ phase = [c \in Checks |-> "idle"]
    /\ offered = {}
    /\ due \in SUBSET Checks
    /\ stopped = FALSE

\* A poll offers some of the checks that are due at that moment.
Offer ==
    /\ offered = {} /\ ~stopped
    /\ offered' \in SUBSET due
    /\ UNCHANGED <<phase, due, stopped>>

\* An offered check that is already being executed is passed over.
Pass(c) ==
    /\ c \in offered /\ phase[c] # "idle"
    /\ offered' = offered \ {c}
    /\ UNCHANGED <<phase, due, stopped>>

Claim(c) ==
    /\ c \in offered /\ phase[c] = "idle"
    /\ phase' = [phase EXCEPT ![c] = "waiting"]
    /\ offered' = offered \ {c}
    /\ UNCHANGED <<due, stopped>>

\* Only a stop gives back a claimed check unexecuted, with the rest of its poll.
Withdraw(c) ==
    /\ stopped /\ phase[c] = "waiting"
    /\ phase' = [phase EXCEPT ![c] = "idle"]
    /\ offered' = {}
    /\ UNCHANGED <<due, stopped>>

Begin(c) ==
    /\ phase[c] = "waiting"
    /\ phase' = [phase EXCEPT ![c] = "running"]
    /\ UNCHANGED <<offered, due, stopped>>

\* A result is recorded.  The check is not due any more, unless its interval has
\* passed again since the result was taken.
Record(c) ==
    /\ phase[c] = "running" /\ ~stopped
    /\ phase' = [phase EXCEPT ![c] = "ending"]
    /\ due' \in {due \ {c}, due \cup {c}}
    /\ UNCHANGED <<offered, stopped>>

\* The execution ends without a recorded result.
Drop(c) ==
    /\ phase[c] = "running"
    /\ phase' = [phase EXCEPT ![c] = "ending"]
    /\ UNCHANGED <<offered, due, stopped>>

End(c) ==
    /\ phase[c] = "ending"
    /\ phase' = [phase EXCEPT ![c] = "idle"]
    /\ UNCHANGED <<offered, due, stopped>>

\* Time passes and operators run checks by hand: not the scheduler's doing.
Environment ==
    /\ due' \in SUBSET Checks
    /\ UNCHANGED <<phase, offered, stopped>>

Stop ==
    /\ stopped' = TRUE
    /\ UNCHANGED <<phase, offered, due>>

Next ==
    \/ Offer
    \/ \E c \in Checks :
        Pass(c) \/ Claim(c) \/ Withdraw(c) \/ Begin(c) \/ Record(c) \/ Drop(c) \/ End(c)
    \/ Environment
    \/ Stop

Spec == Init /\ [][Next]_vars
=============================================================================
