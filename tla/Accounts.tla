------------------------------ MODULE Accounts -----------------------------
(***************************************************************************)
(* The first administrator and the logins (src/internal/auth/store.go).    *)
(* An account is created by the web form or, in a process of its own, on   *)
(* the command line; logins verify passwords.  Both look into the table    *)
(* first, hash a password in one of the process's few slots, and then      *)
(* write in a transaction; anything may happen in between.                 *)
(*                                                                         *)
(* Of a password only the verdict on it is kept.  The session of a login   *)
(* that succeeds is in Sessions.tla.                                       *)
(***************************************************************************)
EXTENDS Integers, Sequences, FiniteSets

CONSTANTS
    Callers,        \* the requests and commands handled at a time
    Processes,
    ProcessOf,      \* ProcessOf[c]: the process caller c belongs to
    Names,          \* valid user names
    Slots,          \* maximumConcurrentPasswordOperations
    MaxFailures,    \* maximumFailedLoginAuditEvents
    MaxEvents,      \* bounds the audit events
    None

ASSUME AccountsAssumption ==
    /\ IsFiniteSet(Callers) /\ ProcessOf \in [Callers -> Processes]
    /\ Slots \in Nat \ {0} /\ MaxFailures \in Nat \ {0} /\ MaxEvents \in Nat
    /\ None \notin Names

VARIABLES
    users,      \* the table users
    log,        \* the rows of audit_events, in the order of their ids
    past,       \* history: every event that was ever logged
    slots,      \* slots[p]: how many password slots of process p are taken
    caller      \* caller[c]: where caller c is, with its task

vars == <<users, log, past, slots, caller>>

\* A task has the name it was given, the account it found, and an outcome in the end.
Tasks == [pc : {"waiting", "hashing", "writing"}, kind : {"setup", "login"},
          name : Names, user : Names \cup {None}, outcome : {"none", "success", "failure"}]
AtRest == [pc |-> "idle"]

Events == [action : {"user.created", "user.login"}, user : Names \cup {None},
           outcome : {"success", "failure"}]

Hashing(p) == {c \in Callers : ProcessOf[c] = p /\ caller[c].pc = "hashing"}

\* Every variable has its type, and the slots taken are those of the callers that hash.
TypeOK ==
    /\ users \in SUBSET Names
    /\ log \in Seq(Events) /\ past \in Seq(Events)
    /\ slots \in [Processes -> 0..Slots]
    /\ \A p \in Processes : slots[p] = Cardinality(Hashing(p))
    /\ caller \in [Callers -> Tasks \cup {AtRest}]

Init ==
    /\ users = {}
    /\ log = <<>> /\ past = <<>>
    /\ slots = [p \in Processes |-> 0]
    /\ caller = [c \in Callers |-> AtRest]

-----------------------------------------------------------------------------
(* What both do *)

Leave(c) == caller' = [caller EXCEPT ![c] = AtRest]

Take(c, kind, name, user) ==
    caller' = [caller EXCEPT ![c] = [pc |-> "waiting", kind |-> kind, name |-> name,
                                     user |-> user, outcome |-> "none"]]

AcquireSlot(c) ==
    /\ caller[c].pc = "waiting"
    /\ slots[ProcessOf[c]] < Slots
    /\ slots' = [slots EXCEPT ![ProcessOf[c]] = @ + 1]
    /\ caller' = [caller EXCEPT ![c].pc = "hashing"]
    /\ UNCHANGED <<users, log, past>>

\* The request is given up while it waits for a slot.
GiveUp(c) ==
    /\ caller[c].pc = "waiting"
    /\ Leave(c)
    /\ UNCHANGED <<users, log, past, slots>>

\* Mutant: the slot is not given back.
ReleaseSlotForgotten(c) == slots' = slots

ReleaseSlot(c) == slots' = [slots EXCEPT ![ProcessOf[c]] = @ - 1]

\* The slot is given back before the result of the hash is looked at.  Only the
\* password of an account that was found can be right.
HashEnds(c) ==
    /\ caller[c].pc = "hashing"
    /\ ReleaseSlot(c)
    /\ \E outcome \in {"success", "failure"} :
        /\ outcome = "success" => caller[c].kind = "setup" \/ caller[c].user # None
        /\ outcome = "failure" => caller[c].kind = "login"
        /\ caller' = [caller EXCEPT ![c].pc = "writing", ![c].outcome = outcome]
    /\ UNCHANGED <<users, log, past>>

\* Hashing a new password or decoding a stored hash fails; a login that found no
\* account hashes in vain and ignores errors.
HashFails(c) ==
    /\ caller[c].pc = "hashing"
    /\ caller[c].kind = "setup" \/ caller[c].user # None
    /\ ReleaseSlot(c)
    /\ Leave(c)
    /\ UNCHANGED <<users, log, past>>

\* The transaction fails or the request is given up.
WriteFails(c) ==
    /\ caller[c].pc = "writing"
    /\ Leave(c)
    /\ UNCHANGED <<users, log, past, slots>>

-----------------------------------------------------------------------------
(* The first administrator *)

SetupBegins(c, name) ==
    /\ caller[c].pc = "idle"
    /\ users = {}
    /\ Take(c, "setup", name, None)
    /\ UNCHANGED <<users, log, past, slots>>

Created(name) == [action |-> "user.created", user |-> name, outcome |-> "success"]

\* Mutant: the transaction relies on the look into the table before the hash.
UninitializedAssumed == TRUE

\* What the transaction sees of the table.
Uninitialized == users = {}

\* The transaction looks again.
CreateAdministrator(c) ==
    /\ caller[c].pc = "writing" /\ caller[c].kind = "setup"
    /\ Len(past) < MaxEvents
    /\ Uninitialized
    /\ users' = users \cup {caller[c].name}
    /\ log' = Append(log, Created(caller[c].name))
    /\ past' = Append(past, Created(caller[c].name))
    /\ Leave(c)
    /\ UNCHANGED slots

AlreadyInitialized(c) ==
    /\ caller[c].pc = "writing" /\ caller[c].kind = "setup"
    /\ ~Uninitialized
    /\ Leave(c)
    /\ UNCHANGED <<users, log, past, slots>>

-----------------------------------------------------------------------------
(* Logins *)

LoginBegins(c, name) ==
    /\ caller[c].pc = "idle"
    /\ Take(c, "login", name, IF name \in users THEN name ELSE None)
    /\ UNCHANGED <<users, log, past, slots>>

IsFailedLogin(e) == e.action = "user.login" /\ e.outcome = "failure"

\* Mutant: the oldest logins are deleted, whatever their outcome.
PrunableLogin(e) == e.action = "user.login"

Prunable(e) == IsFailedLogin(e)

\* The failed logins but the newest MaxFailures are deleted: at most one more, which
\* the one just logged has made too many.
Prune(events) ==
    LET failed == {i \in DOMAIN events : Prunable(events[i])}
    IN  IF Cardinality(failed) <= MaxFailures THEN events
        ELSE LET oldest == CHOOSE i \in failed : \A j \in failed : i <= j
             IN  SubSeq(events, 1, oldest - 1) \o SubSeq(events, oldest + 1, Len(events))

\* recordLogin
RecordLogin(c) ==
    LET e == [action |-> "user.login", user |-> caller[c].user,
              outcome |-> caller[c].outcome]
    IN  /\ caller[c].pc = "writing" /\ caller[c].kind = "login"
        /\ Len(past) < MaxEvents
        /\ log' = IF IsFailedLogin(e) THEN Prune(Append(log, e)) ELSE Append(log, e)
        /\ past' = Append(past, e)
        /\ Leave(c)
        /\ UNCHANGED <<users, slots>>

-----------------------------------------------------------------------------
(* A process ends; the database remains *)

End(p) ==
    /\ slots' = [slots EXCEPT ![p] = 0]
    /\ caller' = [c \in Callers |-> IF ProcessOf[c] = p THEN AtRest ELSE caller[c]]
    /\ UNCHANGED <<users, log, past>>

Next ==
    \/ \E c \in Callers :
        \/ \E name \in Names : SetupBegins(c, name) \/ LoginBegins(c, name)
        \/ AcquireSlot(c) \/ GiveUp(c) \/ HashEnds(c) \/ HashFails(c)
        \/ CreateAdministrator(c) \/ AlreadyInitialized(c) \/ RecordLogin(c)
        \/ WriteFails(c)
    \/ \E p \in Processes : End(p)

Spec == Init /\ [][Next]_vars

\* Hashing ends; a channel serves the goroutines that wait for it in turn.
Fairness ==
    \A c \in Callers : /\ WF_vars(HashEnds(c) \/ HashFails(c))
                       /\ SF_vars(AcquireSlot(c))

FairSpec == Spec /\ Fairness

-----------------------------------------------------------------------------
(* Properties *)

\* At most one administrator is created, by whichever processes try at the same time.
OneAdministrator == Cardinality(users) <= 1

\* The log keeps every event but old failed logins, of which it keeps the newest
\* MaxFailures; every account has its event.
AuditKept ==
    LET failed == {i \in DOMAIN past : IsFailedLogin(past[i])}
        recent == {i \in failed : Cardinality({j \in failed : i < j}) < MaxFailures}
        kept   == (DOMAIN past \ failed) \cup recent
    IN  /\ Len(log) = Cardinality(kept)
        /\ \A i \in kept : log[Cardinality({j \in kept : j <= i})] = past[i]
        /\ \A name \in users : \E i \in DOMAIN log : log[i] = Created(name)

\* Whoever waits for a password slot gets one, or gives up: no path loses a slot.
SlotIsGiven == \A c \in Callers : (caller[c].pc = "waiting") ~> (caller[c].pc # "waiting")
=============================================================================
