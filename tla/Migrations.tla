---------------------------- MODULE Migrations -----------------------------
(***************************************************************************)
(* Opening the database (src/internal/storage): every process, the service *)
(* and a command next to it, creates the ledger of migrations and applies, *)
(* one transaction each, the migrations its binary embeds and the ledger   *)
(* does not name.  The service's binary is replaced by newer ones, and now *)
(* and then by an older one.                                               *)
(*                                                                         *)
(* The database is SQLite in WAL mode, seen as the sequence of its         *)
(* committed states.  A transaction reads the state that was the last one  *)
(* when it began; the first of its statements that writes needs the write  *)
(* lock and that state to be the last one still, and fails otherwise.      *)
(* After a power loss the last transactions may be missing (synchronous =  *)
(* NORMAL), together with everything they wrote.                           *)
(***************************************************************************)
EXTENDS Naturals, Sequences, SequencesExt

CONSTANTS
    Processes,
    Service,        \* the process that is restarted when it fails
    Versions,       \* versions of the binary; version v embeds migrations 1 to v
    MaxCommits,     \* bounds what open processes write
    MaxFaults       \* bounds failing statements, ends of processes, power losses and
                    \* returns to an older binary

ASSUME MigrationsAssumption ==
    /\ Service \in Processes
    /\ Versions \in Nat \ {0} /\ MaxCommits \in Nat /\ MaxFaults \in Nat

VARIABLES
    commits,    \* the committed states of the database
    installed,  \* the version of the installed binary
    pc,         \* pc[p]: where process p is
    known,      \* known[p]: the version process p runs
    at,         \* at[p]: the migration process p is at
    snapshot,   \* snapshot[p]: which committed state p's transaction has read
    pending,    \* pending[p]: the state p's transaction would commit
    faults

vars == <<commits, installed, pc, known, at, snapshot, pending, faults>>

\* The ledger's table, the migrations whose statements were executed, in that order,
\* and those the ledger names.
States == [table : BOOLEAN, schema : Seq(1..Versions), ledger : SUBSET (1..Versions)]
Empty  == [table |-> FALSE, schema |-> <<>>, ledger |-> {}]

Writers == {p \in Processes : pc[p] \in {"recording", "committing"}}
Current == Last(commits)

\* Every variable has its type; one transaction writes at a time, upon the last state.
TypeOK ==
    /\ commits \in Seq(States) \ {<<>>}
    /\ installed \in 1..Versions
    /\ pc \in [Processes -> {"off", "creating", "looking", "applying", "recording",
                             "committing", "open", "busy", "failed"}]
    /\ known \in [Processes -> 1..Versions]
    /\ at \in [Processes -> 1..(Versions + 1)]
    /\ snapshot \in [Processes -> 0..Len(commits)]
    /\ pending \in [Processes -> States]
    /\ \A p, q \in Writers : p = q /\ snapshot[p] = Len(commits)
    /\ faults \in 0..MaxFaults

Init ==
    /\ commits = <<Empty>>
    /\ installed = 1
    /\ pc = [p \in Processes |-> "off"]
    /\ known = [p \in Processes |-> 1]
    /\ at = [p \in Processes |-> 1]
    /\ snapshot = [p \in Processes |-> 0]
    /\ pending = [p \in Processes |-> Empty]
    /\ faults = 0

-----------------------------------------------------------------------------
(* A process opens the database *)

Goto(p, place) == pc' = [pc EXCEPT ![p] = place]

\* The process has no transaction any more.
Forget(p) ==
    /\ snapshot' = [snapshot EXCEPT ![p] = 0]
    /\ pending' = [pending EXCEPT ![p] = Empty]

Start(p) ==
    /\ pc[p] \in {"off", "busy", "failed"}
    /\ Goto(p, "creating")
    /\ known' = [known EXCEPT ![p] = installed]
    /\ at' = [at EXCEPT ![p] = 1]
    /\ UNCHANGED <<commits, installed, snapshot, pending, faults>>

\* Mutant: the statement is no IF NOT EXISTS.
CreatableOnce == ~Current.table /\ Writers = {}

\* The statement writes only if there is no such table, and needs the lock then.
Creatable == Current.table \/ Writers = {}

CreateLedger(p) ==
    /\ pc[p] = "creating" /\ Creatable
    /\ commits' = IF Current.table THEN commits
                  ELSE Append(commits, [Current EXCEPT !.table = TRUE])
    /\ Goto(p, "looking")
    /\ UNCHANGED <<installed, known, at, snapshot, pending, faults>>

Missing(p) == at[p] \notin Current.ledger

\* A transaction begins and reads whether the migration was applied; if it was, the
\* loop goes on to the next one.
Look(p) ==
    /\ pc[p] = "looking" /\ at[p] <= known[p]
    /\ IF Missing(p)
       THEN /\ Goto(p, "applying")
            /\ snapshot' = [snapshot EXCEPT ![p] = Len(commits)]
            /\ UNCHANGED at
       ELSE /\ at' = [at EXCEPT ![p] = @ + 1]
            /\ UNCHANGED <<pc, snapshot>>
    /\ UNCHANGED <<commits, installed, known, pending, faults>>

\* The write lock is free, and nothing was committed since the transaction's snapshot.
MayWrite(p) == Writers = {} /\ snapshot[p] = Len(commits)

\* Mutant: the script is executed outside of the transaction.
ExecAtOnce(p, state) == commits' = Append(commits, state)

\* What executing a script does to the committed states: nothing yet.
Exec(p, state) == UNCHANGED commits

Apply(p) ==
    /\ pc[p] = "applying" /\ MayWrite(p)
    /\ pending' = [pending EXCEPT ![p] =
                     [Current EXCEPT !.schema = Append(@, at[p])]]
    /\ Exec(p, pending'[p])
    /\ snapshot' = [snapshot EXCEPT ![p] = Len(commits')]
    /\ Goto(p, "recording")
    /\ UNCHANGED <<installed, known, at, faults>>

\* SQLITE_BUSY: for a snapshot that is not the last state any more at once, for a lock
\* that is held after the busy timeout.  The process exits.
Busy(p) ==
    /\ \/ pc[p] = "applying" /\ ~MayWrite(p)
       \/ pc[p] = "creating" /\ ~Creatable
    /\ Goto(p, "busy")
    /\ Forget(p)
    /\ UNCHANGED <<commits, installed, known, at, faults>>

Record(p) ==
    /\ pc[p] = "recording"
    /\ pending' = [pending EXCEPT ![p].ledger = @ \cup {at[p]}]
    /\ Goto(p, "committing")
    /\ UNCHANGED <<commits, installed, known, at, snapshot, faults>>

Commit(p) ==
    /\ pc[p] = "committing"
    /\ commits' = Append(commits, pending[p])
    /\ Forget(p)
    /\ at' = [at EXCEPT ![p] = @ + 1]
    /\ Goto(p, "looking")
    /\ UNCHANGED <<installed, known, faults>>

Opened(p) ==
    /\ pc[p] = "looking" /\ at[p] > known[p]
    /\ Goto(p, "open")
    /\ UNCHANGED <<commits, installed, known, at, snapshot, pending, faults>>

-----------------------------------------------------------------------------
(* What may happen at any time *)

Fault == faults < MaxFaults /\ faults' = faults + 1

\* Mutant: the loop of migrate goes on to the next migration.
AfterFailure(p) == Goto(p, "looking") /\ at' = [at EXCEPT ![p] = @ + 1]

\* The error is returned to main, which exits.
FailureReturned(p) == Goto(p, "failed") /\ UNCHANGED at

\* A statement of Open fails and its transaction, if any, is rolled back.
Fails(p) ==
    /\ pc[p] \in {"creating", "looking", "applying", "recording", "committing"}
    /\ Fault
    /\ FailureReturned(p)
    /\ Forget(p)
    /\ UNCHANGED <<commits, installed, known>>

\* The process is killed; the service is stopped by the updater, once it has replaced
\* the binary; a command has done its work.
Ends(p) ==
    /\ pc[p] \notin {"off", "busy", "failed"}
    /\ \/ Fault
       \/ p = Service /\ known[p] # installed /\ UNCHANGED faults
       \/ p # Service /\ pc[p] = "open" /\ UNCHANGED faults
    /\ Goto(p, "off")
    /\ Forget(p)
    /\ UNCHANGED <<commits, installed, known, at>>

\* Processes end everywhere, and the database is one of its committed states.
PowerLoss ==
    /\ Fault
    /\ \E n \in 1..Len(commits) : commits' = SubSeq(commits, 1, n)
    /\ pc' = [p \in Processes |-> "off"]
    /\ snapshot' = [p \in Processes |-> 0]
    /\ pending' = [p \in Processes |-> Empty]
    /\ UNCHANGED <<installed, known, at>>

\* An open process commits a transaction of its own.
Write(p) ==
    /\ pc[p] = "open" /\ Writers = {}
    /\ Len(commits) < MaxCommits
    /\ commits' = Append(commits, Current)
    /\ UNCHANGED <<installed, pc, known, at, snapshot, pending, faults>>

\* The updater replaces the binary, whoever runs the one before.  It takes any commit of
\* the main branch, also an older one.
Update ==
    /\ installed' \in (1..Versions) \ {installed}
    /\ IF installed' < installed THEN Fault ELSE UNCHANGED faults
    /\ UNCHANGED <<commits, pc, known, at, snapshot, pending>>

Open(p) ==
    \/ Start(p) \/ CreateLedger(p) \/ Look(p) \/ Apply(p) \/ Busy(p) \/ Record(p)
    \/ Commit(p) \/ Opened(p)

Next ==
    \/ \E p \in Processes : Open(p) \/ Fails(p) \/ Ends(p) \/ Write(p)
    \/ PowerLoss
    \/ Update

Spec == Init /\ [][Next]_vars

\* Processes that were started go on, and the service is started again (Restart =
\* on-failure); nobody need run a command.
Fairness ==
    /\ WF_vars(Open(Service))
    /\ \A p \in Processes : WF_vars(Open(p) /\ pc[p] \notin {"off", "busy", "failed"})

FairSpec == Spec /\ Fairness

-----------------------------------------------------------------------------
(* Properties *)

\* In every committed state the migrations that were executed are the first ones, each
\* once and in order, and the ledger names exactly those.
LedgerExact ==
    \A i \in DOMAIN commits :
        LET state == commits[i]
        IN  /\ state.schema = [k \in DOMAIN state.schema |-> k]
            /\ state.ledger = DOMAIN state.schema

\* Whoever has opened the database finds the schema of its own version in it, whichever
\* process has applied the migrations and however often one of them failed.
OpenIsMigrated ==
    \A p \in Processes : pc[p] = "open" => 1..known[p] \subseteq Range(Current.schema)

\* Once the faults are over the service comes up and stays up, also when it meets a
\* command at the same migration: of two transactions that exclude each other one goes
\* through.
ServiceComesUp == <>[](pc[Service] = "open")
=============================================================================
