-------------------------- MODULE MigrationsProofs --------------------------
(***************************************************************************)
(* Theorems about Migrations, for any number of processes, versions,       *)
(* writes and faults.                                                      *)
(***************************************************************************)
EXTENDS Migrations, TLAPS

Applying == {"applying", "recording", "committing"}

\* Where process p is: how far it has come, what its transaction has read and, once it
\* holds the write lock, what the transaction would commit.
PlaceOK(p) ==
    /\ pc[p] = "creating" => at[p] = 1
    /\ pc[p] \in Applying \cup {"looking", "open"} => at[p] - 1 <= Len(Current.schema)
    /\ pc[p] \in Applying =>
        /\ at[p] <= known[p]
        /\ snapshot[p] \in 1..Len(commits)
        /\ at[p] \notin commits[snapshot[p]].ledger
    /\ pc[p] \in {"recording", "committing"} =>
        pending[p].schema = Append(Current.schema, at[p])
    /\ pc[p] = "recording" => pending[p].ledger = Current.ledger
    /\ pc[p] = "committing" => pending[p].ledger = Current.ledger \cup {at[p]}
    /\ pc[p] = "open" => at[p] > known[p]

IInv == TypeOK /\ LedgerExact /\ \A p \in Processes : PlaceOK(p)

Exact(state) ==
    /\ state.schema = [k \in DOMAIN state.schema |-> k]
    /\ state.ledger = DOMAIN state.schema

-----------------------------------------------------------------------------
(* The committed states *)

\* The database always has a last committed state, and it is exact.
LEMMA CurrentIsExact ==
    ASSUME TypeOK, LedgerExact
    PROVE  /\ Len(commits) \in Nat \ {0}
           /\ Current \in States /\ Current = commits[Len(commits)]
           /\ Exact(Current)
<1>1. Len(commits) \in Nat \ {0} /\ Len(commits) \in DOMAIN commits
  BY DEF TypeOK
<1>2. Current = commits[Len(commits)] /\ Current \in States
  BY <1>1 DEF TypeOK, Current, Last
<1> QED
  BY <1>1, <1>2 DEF LedgerExact, Exact

\* What appending to a sequence does.
LEMMA Appended ==
    ASSUME NEW S, NEW seq \in Seq(S), NEW e \in S
    PROVE  /\ Append(seq, e) \in Seq(S) /\ Append(seq, e) # <<>>
           /\ Len(Append(seq, e)) = Len(seq) + 1 /\ Len(seq) \in Nat
           /\ \A i \in 1..Len(seq) : Append(seq, e)[i] = seq[i]
           /\ Append(seq, e)[Len(seq) + 1] = e
  OBVIOUS

\* A commit leaves the earlier states alone.
LEMMA Committed ==
    ASSUME TypeOK, LedgerExact, NEW state \in States, Exact(state),
           commits' = Append(commits, state)
    PROVE  /\ commits' \in Seq(States) \ {<<>>}
           /\ Len(commits') = Len(commits) + 1
           /\ \A i \in 1..Len(commits) : commits'[i] = commits[i]
           /\ Current' = state
           /\ LedgerExact'
<1>1. /\ commits' \in Seq(States) \ {<<>>}
      /\ Len(commits') = Len(commits) + 1
      /\ \A i \in 1..Len(commits) : commits'[i] = commits[i]
      /\ commits'[Len(commits) + 1] = state
  <2>1. commits \in Seq(States)
    BY DEF TypeOK
  <2> QED BY <2>1, Appended
<1>2. Current' = state
  BY <1>1 DEF Current, Last
<1>3. ASSUME NEW i \in DOMAIN commits' PROVE Exact(commits'[i])
  <2>1. CASE i = Len(commits) + 1
    BY <2>1, <1>1
  <2>2. CASE i # Len(commits) + 1
    <3>1. i \in DOMAIN commits /\ commits'[i] = commits[i]
      BY <2>2, <1>1 DEF TypeOK
    <3> QED BY <3>1 DEF LedgerExact, Exact
  <2> QED BY <2>1, <2>2
<1>4. LedgerExact'
  BY <1>3 DEF LedgerExact, Exact
<1> QED BY <1>1, <1>2, <1>4

\* The migration a writer is at is the next one the database lacks.
LEMMA WriterIsNext ==
    ASSUME IInv, NEW p \in Processes, pc[p] \in Applying, snapshot[p] = Len(commits)
    PROVE  /\ at[p] \in 1..Versions
           /\ at[p] = Len(Current.schema) + 1
<1>1. at[p] - 1 <= Len(Current.schema) /\ at[p] <= known[p] /\ at[p] \notin Current.ledger
  BY CurrentIsExact DEF IInv, PlaceOK
<1>2. at[p] \in 1..(Versions + 1) /\ known[p] \in 1..Versions /\ Versions \in Nat
  BY MigrationsAssumption DEF IInv, TypeOK
<1>3. Current.schema \in Seq(1..Versions) /\ Current.ledger = 1..Len(Current.schema)
  BY CurrentIsExact DEF IInv, States, Exact
<1> QED BY <1>1, <1>2, <1>3

-----------------------------------------------------------------------------
(* The invariant is inductive *)

LEMMA Initial == Init => IInv
<1> SUFFICES ASSUME Init PROVE IInv
  OBVIOUS
<1>1. Empty \in States /\ Exact(Empty)
  BY DEF Empty, States, Exact
<1>2. TypeOK
  BY <1>1, MigrationsAssumption DEF Init, TypeOK, Writers
<1>3. LedgerExact
  BY <1>1 DEF Init, LedgerExact, Exact
<1>4. ASSUME NEW p \in Processes PROVE PlaceOK(p)
  BY DEF Init, PlaceOK, Applying
<1> QED BY <1>2, <1>3, <1>4 DEF IInv

Places == {"off", "creating", "looking", "applying", "recording", "committing", "open",
           "busy", "failed"}

\* What the step of a process other than q leaves alone.
Untouched(q) ==
    /\ pc'[q] = pc[q] /\ at'[q] = at[q] /\ known'[q] = known[q]
    /\ snapshot'[q] = snapshot[q] /\ pending'[q] = pending[q]

\* The next state has its types, except for what a writer must have read.
TypesNext ==
    /\ installed' \in 1..Versions /\ faults' \in 0..MaxFaults
    /\ pc' \in [Processes -> Places]
    /\ known' \in [Processes -> 1..Versions]
    /\ at' \in [Processes -> 1..(Versions + 1)]
    /\ snapshot' \in [Processes -> 0..Len(commits)]
    /\ pending' \in [Processes -> States]

\* Steps that commit nothing; the process at hand may get the lock.
LEMMA KeepsCommits ==
    ASSUME IInv, NEW p \in Processes, UNCHANGED commits, TypesNext, PlaceOK(p)',
           pc'[p] \in {"recording", "committing"} =>
                Writers \subseteq {p} /\ snapshot'[p] = Len(commits),
           \A q \in Processes \ {p} : Untouched(q)
    PROVE  IInv'
<1>1. Current' = Current
  BY DEF Current
<1>2. \A q, r \in Writers' : q = r /\ snapshot'[q] = Len(commits)
  <2>1. \A q \in Writers' \ {p} : q \in Writers /\ snapshot'[q] = snapshot[q]
    BY DEF Writers, Untouched
  <2>2. \A q, r \in Writers : q = r /\ snapshot[q] = Len(commits)
    BY DEF IInv, TypeOK
  <2>3. p \in Writers' => Writers \subseteq {p} /\ snapshot'[p] = Len(commits)
    BY DEF Writers
  <2> QED BY <2>1, <2>2, <2>3
<1>3. TypeOK'
  BY <1>2 DEF IInv, TypeOK, TypesNext, Places
<1>4. LedgerExact'
  BY DEF IInv, LedgerExact
<1>5. ASSUME NEW q \in Processes \ {p} PROVE PlaceOK(q)'
  <2>1. PlaceOK(q) /\ Untouched(q)
    BY DEF IInv
  <2> QED BY <2>1, <1>1 DEF PlaceOK, Untouched
<1> QED BY <1>3, <1>4, <1>5 DEF IInv

\* Steps that commit a state upon the last one, when no other process writes.
LEMMA KeepsOthers ==
    ASSUME IInv, NEW p \in Processes, NEW state \in States, Exact(state),
           Writers \subseteq {p}, Len(state.schema) >= Len(Current.schema),
           commits' = Append(commits, state), TypesNext, PlaceOK(p)',
           pc'[p] \notin {"recording", "committing"},
           \A q \in Processes \ {p} : Untouched(q)
    PROVE  IInv'
<1>1. /\ commits' \in Seq(States) \ {<<>>} /\ Len(commits') = Len(commits) + 1
      /\ \A i \in 1..Len(commits) : commits'[i] = commits[i]
      /\ Current' = state /\ LedgerExact'
  BY Committed DEF IInv
<1>2. Writers' = {}
  BY DEF Writers, Untouched
<1>3. Len(commits) \in Nat /\ Len(state.schema) \in Nat /\ Len(Current.schema) \in Nat
  BY CurrentIsExact DEF IInv, States
<1>4. TypeOK'
  <2>1. snapshot' \in [Processes -> 0..Len(commits')]
    BY <1>1, <1>3 DEF TypesNext
  <2> QED BY <1>1, <1>2, <2>1 DEF TypesNext, Places, TypeOK
<1>5. ASSUME NEW q \in Processes \ {p} PROVE PlaceOK(q)'
  <2>1. PlaceOK(q) /\ Untouched(q) /\ at[q] \in Nat /\ pc[q] \notin {"recording", "committing"}
    BY DEF IInv, TypeOK, Writers
  <2>2. pc[q] \in Applying \cup {"looking", "open"} => at[q] - 1 <= Len(state.schema)
    BY <2>1, <1>3 DEF PlaceOK
  <2>3. pc[q] \in Applying =>
            /\ at[q] <= known[q]
            /\ snapshot[q] \in 1..Len(commits')
            /\ at[q] \notin commits'[snapshot[q]].ledger
    BY <2>1, <1>1, <1>3 DEF PlaceOK
  <2> QED BY <2>1, <2>2, <2>3, <1>1 DEF PlaceOK, Untouched
<1> QED BY <1>1, <1>4, <1>5 DEF IInv

\* One lemma per action.
LEMMA StartKeeps == ASSUME IInv, NEW p \in Processes, Start(p) PROVE IInv'
<1>1. PlaceOK(p)'
  BY DEF Start, Goto, PlaceOK, Applying, IInv, TypeOK
<1>2. TypesNext /\ pc'[p] = "creating" /\ \A q \in Processes \ {p} : Untouched(q)
  BY MigrationsAssumption DEF Start, Goto, IInv, TypeOK, TypesNext, Places, Untouched
<1> QED
  BY <1>1, <1>2, KeepsCommits DEF Start

LEMMA LookKeeps == ASSUME IInv, NEW p \in Processes, Look(p) PROVE IInv'
<1>1. /\ PlaceOK(p) /\ Len(commits) \in Nat \ {0} /\ Current = commits[Len(commits)]
      /\ Current.schema \in Seq(1..Versions) /\ Current.ledger = 1..Len(Current.schema)
      /\ at[p] \in 1..(Versions + 1) /\ known[p] \in 1..Versions /\ Versions \in Nat
      /\ pc[p] = "looking" /\ at[p] <= known[p] /\ Current' = Current
  <2>1. Len(commits) \in Nat \ {0} /\ Current = commits[Len(commits)] /\ Current \in States
        /\ Exact(Current)
    BY CurrentIsExact DEF IInv
  <2>2. Current.schema \in Seq(1..Versions) /\ Current.ledger = 1..Len(Current.schema)
    BY <2>1 DEF States, Exact
  <2>3. pc[p] = "looking" /\ at[p] <= known[p] /\ Current' = Current
    BY DEF Look, Current
  <2>4. at[p] \in 1..(Versions + 1) /\ known[p] \in 1..Versions /\ Versions \in Nat
    BY MigrationsAssumption DEF IInv, TypeOK
  <2> QED BY <2>1, <2>2, <2>3, <2>4 DEF IInv
<1>2. at[p] - 1 <= Len(Current.schema) /\ Len(Current.schema) \in Nat
  BY <1>1 DEF PlaceOK
<1>3. CASE Missing(p)
  <2>1. /\ pc' = [pc EXCEPT ![p] = "applying"]
        /\ snapshot' = [snapshot EXCEPT ![p] = Len(commits)]
        /\ UNCHANGED <<at, commits, installed, known, pending, faults>>
    BY <1>3 DEF Look, Goto
  <2>2. TypesNext /\ pc'[p] = "applying" /\ \A q \in Processes \ {p} : Untouched(q)
    BY <2>1, <1>1 DEF IInv, TypeOK, TypesNext, Places, Untouched
  <2>3. snapshot'[p] = Len(commits)
    BY <2>1 DEF IInv, TypeOK
  <2>4. PlaceOK(p)'
    BY <2>1, <2>2, <2>3, <1>1, <1>2, <1>3 DEF Missing, PlaceOK, Applying
  <2> QED
    BY <2>1, <2>2, <2>4, KeepsCommits
<1>4. CASE ~Missing(p)
  <2>1. /\ at' = [at EXCEPT ![p] = @ + 1]
        /\ UNCHANGED <<pc, snapshot, commits, installed, known, pending, faults>>
    BY <1>4 DEF Look
  <2>2. at[p] <= Len(Current.schema) /\ at'[p] = at[p] + 1 /\ at'[p] \in 1..(Versions + 1)
    BY <1>1, <1>2, <1>4, <2>1 DEF Missing, IInv, TypeOK
  <2>3. PlaceOK(p)'
    BY <1>1, <1>2, <2>1, <2>2 DEF PlaceOK, Applying
  <2>4. TypesNext /\ \A q \in Processes \ {p} : Untouched(q)
    BY <2>1, <2>2 DEF IInv, TypeOK, TypesNext, Places, Untouched
  <2> QED
    BY <1>1, <2>1, <2>3, <2>4, KeepsCommits
<1> QED BY <1>3, <1>4

LEMMA OpenedKeeps == ASSUME IInv, NEW p \in Processes, Opened(p) PROVE IInv'
<1>1. PlaceOK(p)'
  BY DEF Opened, Goto, PlaceOK, Applying, IInv, TypeOK, Current
<1>2. TypesNext /\ pc'[p] = "open" /\ \A q \in Processes \ {p} : Untouched(q)
  BY DEF Opened, Goto, IInv, TypeOK, TypesNext, Places, Untouched
<1> QED
  BY <1>1, <1>2, KeepsCommits DEF Opened

\* A process that gives up, fails or ends, whether or not it held the lock.
LEMMA LeavesKeeps ==
    ASSUME IInv, NEW p \in Processes, NEW place \in {"off", "busy", "failed"},
           Goto(p, place), Forget(p), UNCHANGED <<commits, installed, known, at>>,
           faults' \in 0..MaxFaults
    PROVE  IInv'
<1>1. Empty \in States /\ 0 \in 0..Len(commits)
  BY CurrentIsExact DEF Empty, States, IInv
<1>2. PlaceOK(p)'
  BY DEF Goto, PlaceOK, Applying, IInv, TypeOK
<1>3. TypesNext /\ pc'[p] = place /\ \A q \in Processes \ {p} : Untouched(q)
  BY <1>1 DEF Goto, Forget, IInv, TypeOK, TypesNext, Places, Untouched
<1> QED
  BY <1>2, <1>3, KeepsCommits

LEMMA CreateLedgerKeeps == ASSUME IInv, NEW p \in Processes, CreateLedger(p) PROVE IInv'
<1> DEFINE created == [Current EXCEPT !.table = TRUE]
<1>1. /\ Len(commits) \in Nat \ {0} /\ Current \in States /\ Exact(Current)
      /\ Len(Current.schema) \in Nat
  BY CurrentIsExact DEF IInv, States
<1>2. created \in States /\ Exact(created) /\ created.schema = Current.schema
  BY <1>1 DEF States, Exact
<1>3. TypesNext /\ pc'[p] = "looking" /\ \A q \in Processes \ {p} : Untouched(q)
  BY DEF CreateLedger, Goto, IInv, TypeOK, TypesNext, Places, Untouched
<1>4. at[p] \in Nat /\ at'[p] = at[p] /\ PlaceOK(p)
  BY DEF CreateLedger, IInv, TypeOK
<1>5. CASE Current.table
  <2>1. UNCHANGED commits /\ Current' = Current
    BY <1>5 DEF CreateLedger, Current
  <2>2. PlaceOK(p)'
    BY <1>3, <1>4, <1>1, <2>1 DEF PlaceOK, Applying, CreateLedger
  <2> QED BY <2>1, <2>2, <1>3, KeepsCommits
<1>6. CASE ~Current.table
  <2>1. commits' = Append(commits, created) /\ Writers = {}
    BY <1>6 DEF CreateLedger, Creatable
  <2>2. Current' = created
    BY <2>1, <1>2, Committed DEF IInv
  <2>3. PlaceOK(p)'
    BY <1>3, <1>4, <1>1, <1>2, <2>2 DEF PlaceOK, Applying, CreateLedger
  <2>4. Writers \subseteq {p} /\ Len(created.schema) >= Len(Current.schema)
    BY <2>1, <1>1, <1>2
  <2> HIDE DEF created
  <2> QED BY <2>1, <2>3, <2>4, <1>2, <1>3, KeepsOthers
<1> QED BY <1>5, <1>6

LEMMA ApplyKeeps == ASSUME IInv, NEW p \in Processes, Apply(p) PROVE IInv'
<1> DEFINE state == [Current EXCEPT !.schema = Append(@, at[p])]
<1>1. /\ pc[p] = "applying" /\ Writers = {} /\ snapshot[p] = Len(commits)
      /\ UNCHANGED <<commits, installed, known, at, faults>>
      /\ pc' = [pc EXCEPT ![p] = "recording"]
      /\ pending' = [pending EXCEPT ![p] = state]
      /\ snapshot' = [snapshot EXCEPT ![p] = Len(commits)]
  BY DEF Apply, Exec, MayWrite, Goto
<1>2. at[p] \in 1..Versions
  BY <1>1, WriterIsNext DEF Applying
<1>3. Current \in States /\ Len(commits) \in Nat \ {0}
  BY CurrentIsExact DEF IInv
<1>4. /\ state \in States
      /\ state.schema = Append(Current.schema, at[p]) /\ state.ledger = Current.ledger
  <2>1. Append(Current.schema, at[p]) \in Seq(1..Versions)
    BY <1>2, <1>3, Appended DEF States
  <2>2. /\ state.table = Current.table /\ state.ledger = Current.ledger
        /\ state.schema = Append(Current.schema, at[p])
    BY <1>3 DEF States
  <2>3. ASSUME NEW schema \in Seq(1..Versions)
        PROVE  [Current EXCEPT !.schema = schema] \in States
    BY <1>3 DEF States
  <2> QED BY <2>1, <2>2, <2>3
<1>5. /\ TypesNext /\ pc'[p] = "recording" /\ snapshot'[p] = snapshot[p]
      /\ pending'[p] = state /\ \A q \in Processes \ {p} : Untouched(q)
  BY <1>1, <1>3, <1>4 DEF IInv, TypeOK, TypesNext, Places, Untouched
<1>6. PlaceOK(p)'
  BY <1>1, <1>4, <1>5 DEF IInv, PlaceOK, Applying, Current
<1> QED BY <1>1, <1>5, <1>6, KeepsCommits

LEMMA RecordKeeps == ASSUME IInv, NEW p \in Processes, Record(p) PROVE IInv'
<1>1. /\ pc[p] = "recording" /\ pc' = [pc EXCEPT ![p] = "committing"]
      /\ pending' = [pending EXCEPT ![p].ledger = @ \cup {at[p]}]
      /\ UNCHANGED <<commits, installed, known, at, snapshot, faults>>
  BY DEF Record, Goto
<1>2. p \in Writers /\ snapshot[p] = Len(commits) /\ Writers \subseteq {p}
  BY <1>1 DEF IInv, TypeOK, Writers
<1>3. at[p] \in 1..Versions
  BY <1>1, <1>2, WriterIsNext DEF Applying
<1>4. /\ pending[p] \in States
      /\ pending'[p] = [pending[p] EXCEPT !.ledger = @ \cup {at[p]}]
  BY <1>1 DEF IInv, TypeOK
<1>5. /\ pending'[p] \in States /\ pending'[p].schema = pending[p].schema
      /\ pending'[p].ledger = pending[p].ledger \cup {at[p]}
  BY <1>3, <1>4 DEF States
<1>6. TypesNext /\ pc'[p] = "committing" /\ \A q \in Processes \ {p} : Untouched(q)
  BY <1>1, <1>5 DEF IInv, TypeOK, TypesNext, Places, Untouched
<1>7. PlaceOK(p)'
  BY <1>1, <1>5, <1>6 DEF IInv, PlaceOK, Applying, Current
<1> QED BY <1>1, <1>2, <1>6, <1>7, KeepsCommits

LEMMA CommitKeeps == ASSUME IInv, NEW p \in Processes, Commit(p) PROVE IInv'
<1>1. /\ pc[p] = "committing" /\ pc' = [pc EXCEPT ![p] = "looking"]
      /\ commits' = Append(commits, pending[p])
      /\ at' = [at EXCEPT ![p] = @ + 1]
      /\ UNCHANGED <<installed, known, faults>> /\ Forget(p)
  BY DEF Commit, Goto
<1>2. snapshot[p] = Len(commits) /\ Writers \subseteq {p}
  BY <1>1 DEF IInv, TypeOK, Writers
<1>3. at[p] \in 1..Versions /\ at[p] = Len(Current.schema) + 1
  BY <1>1, <1>2, WriterIsNext DEF Applying
<1>4. /\ pending[p] \in States /\ pending[p].schema = Append(Current.schema, at[p])
      /\ pending[p].ledger = Current.ledger \cup {at[p]}
  BY <1>1 DEF IInv, TypeOK, PlaceOK
<1>5. /\ Current.schema \in Seq(1..Versions) /\ Len(Current.schema) \in Nat
      /\ Current.schema = [k \in 1..Len(Current.schema) |-> k]
      /\ Current.ledger = 1..Len(Current.schema)
  BY CurrentIsExact DEF IInv, States, Exact
<1>6. Exact(pending[p]) /\ Len(pending[p].schema) = at[p]
  <2>1. /\ Len(pending[p].schema) = at[p] /\ DOMAIN pending[p].schema = 1..at[p]
        /\ \A k \in 1..at[p] : pending[p].schema[k] = k
    BY <1>3, <1>4, <1>5
  <2>2. pending[p].schema = [k \in 1..at[p] |-> k]
    BY <2>1, <1>4, <1>3, <1>5
  <2>3. pending[p].ledger = 1..at[p]
    BY <1>3, <1>4, <1>5
  <2> QED BY <2>1, <2>2, <2>3 DEF Exact
<1>7. Empty \in States /\ 0 \in 0..Len(commits) /\ Versions \in Nat
  BY CurrentIsExact, MigrationsAssumption DEF Empty, States, IInv
<1>8. /\ TypesNext /\ pc'[p] = "looking" /\ at'[p] = at[p] + 1
      /\ \A q \in Processes \ {p} : Untouched(q)
  BY <1>1, <1>3, <1>7 DEF Forget, IInv, TypeOK, TypesNext, Places, Untouched
<1>9. Current' = pending[p]
  BY <1>1, <1>4, <1>6, Committed DEF IInv
<1>10. PlaceOK(p)'
  BY <1>3, <1>6, <1>8, <1>9 DEF PlaceOK, Applying
<1> QED BY <1>1, <1>2, <1>3, <1>4, <1>5, <1>6, <1>8, <1>10, KeepsOthers

LEMMA WriteKeeps == ASSUME IInv, NEW p \in Processes, Write(p) PROVE IInv'
<1>1. /\ pc[p] = "open" /\ Writers = {} /\ commits' = Append(commits, Current)
      /\ UNCHANGED <<installed, pc, known, at, snapshot, pending, faults>>
  BY DEF Write
<1>2. Current \in States /\ Exact(Current) /\ Len(Current.schema) \in Nat
  BY CurrentIsExact DEF IInv, States
<1>3. TypesNext /\ \A q \in Processes \ {p} : Untouched(q)
  BY <1>1 DEF IInv, TypeOK, TypesNext, Places, Untouched
<1>4. Current' = Current
  BY <1>1, <1>2, Committed DEF IInv
<1>5. PlaceOK(p)'
  BY <1>1, <1>4 DEF IInv, PlaceOK, Applying
<1> QED BY <1>1, <1>2, <1>3, <1>5, KeepsOthers

LEMMA PowerLossKeeps == ASSUME IInv, PowerLoss PROVE IInv'
<1> PICK n \in 1..Len(commits) : commits' = SubSeq(commits, 1, n)
  BY DEF PowerLoss
<1>1. /\ pc' = [p \in Processes |-> "off"] /\ snapshot' = [p \in Processes |-> 0]
      /\ pending' = [p \in Processes |-> Empty]
      /\ UNCHANGED <<installed, known, at>> /\ faults' = faults + 1 /\ faults < MaxFaults
  BY DEF PowerLoss, Fault
<1>2. /\ commits' \in Seq(States) \ {<<>>} /\ Len(commits') = n
      /\ \A i \in 1..n : commits'[i] = commits[i]
  <2>1. commits \in Seq(States) /\ Len(commits) \in Nat /\ n \in Nat /\ n >= 1
    BY DEF IInv, TypeOK
  <2>2. /\ Len(commits') = n /\ \A i \in 1..n : commits'[i] = commits[i]
        /\ commits' = [i \in 1..n |-> commits[i]]
    BY <2>1
  <2>3. commits' \in Seq(States)
    BY <2>1, <2>2
  <2> QED BY <2>1, <2>2, <2>3
<1>3. Empty \in States
  BY DEF Empty, States
<1>4. TypeOK'
  <2>1. Writers' = {} /\ faults' \in 0..MaxFaults
    BY <1>1, MigrationsAssumption DEF IInv, TypeOK, Writers
  <2>2. /\ pc' \in [Processes -> Places] /\ snapshot' \in [Processes -> 0..Len(commits')]
        /\ pending' \in [Processes -> States]
    BY <1>1, <1>2, <1>3 DEF Places
  <2> QED BY <1>1, <1>2, <2>1, <2>2 DEF IInv, TypeOK, Places
<1>5. LedgerExact'
  <2>1. DOMAIN commits' = 1..n /\ 1..n \subseteq DOMAIN commits
    BY <1>2 DEF IInv, TypeOK
  <2> QED BY <2>1, <1>2 DEF IInv, LedgerExact
<1>6. ASSUME NEW p \in Processes PROVE PlaceOK(p)'
  BY <1>1 DEF PlaceOK, Applying
<1> QED BY <1>4, <1>5, <1>6 DEF IInv

LEMMA UpdateKeeps == ASSUME IInv, Update PROVE IInv'
<1>1. TypeOK'
  BY MigrationsAssumption DEF Update, Fault, IInv, TypeOK, Writers
<1>2. LedgerExact' /\ \A p \in Processes : PlaceOK(p)'
  BY DEF Update, IInv, LedgerExact, PlaceOK, Current
<1> QED BY <1>1, <1>2 DEF IInv

\* Every step preserves the invariant.
LEMMA Preserved == IInv /\ [Next]_vars => IInv'
<1> SUFFICES ASSUME IInv, [Next]_vars PROVE IInv'
  OBVIOUS
<1>1. CASE UNCHANGED vars
  BY <1>1 DEF vars, IInv, TypeOK, LedgerExact, PlaceOK, Writers, Current
<1>2. ASSUME NEW p \in Processes, Open(p) PROVE IInv'
  <2>1. CASE Busy(p)
    <3>1. faults' \in 0..MaxFaults
      BY <2>1 DEF Busy, IInv, TypeOK
    <3> QED BY <2>1, <3>1, LeavesKeeps DEF Busy
  <2> QED
    BY <1>2, <2>1, StartKeeps, CreateLedgerKeeps, LookKeeps, ApplyKeeps, RecordKeeps,
       CommitKeeps, OpenedKeeps DEF Open
<1>3. ASSUME NEW p \in Processes, Fails(p) PROVE IInv'
  <2>1. faults' \in 0..MaxFaults
    BY <1>3, MigrationsAssumption DEF Fails, Fault, IInv, TypeOK
  <2> QED BY <1>3, <2>1, LeavesKeeps DEF Fails, FailureReturned
<1>4. ASSUME NEW p \in Processes, Ends(p) PROVE IInv'
  <2>1. faults' \in 0..MaxFaults
    BY <1>4, MigrationsAssumption DEF Ends, Fault, IInv, TypeOK
  <2> QED BY <1>4, <2>1, LeavesKeeps DEF Ends
<1> QED
  BY <1>1, <1>2, <1>3, <1>4, WriteKeeps, PowerLossKeeps, UpdateKeeps DEF Next

-----------------------------------------------------------------------------
(* Theorems *)

\* The inductive invariant holds through any interleaving of processes, faults and
\* updates.
THEOREM Invariance == Spec => []IInv
  BY Initial, Preserved, PTL DEF Spec

\* Type correctness; one transaction writes at a time, upon the last committed state.
THEOREM TypeCorrect == Spec => []TypeOK
<1>1. IInv => TypeOK
  BY DEF IInv
<1> QED BY <1>1, Invariance, PTL

\* In every state that was ever committed, the migrations were executed once and in
\* order, and the ledger names exactly those.
THEOREM LedgerCorrect == Spec => []LedgerExact
<1>1. IInv => LedgerExact
  BY DEF IInv
<1> QED BY <1>1, Invariance, PTL

\* Whoever has opened the database finds the schema of its own version in it.
THEOREM OpenCorrect == Spec => []OpenIsMigrated
<1>1. ASSUME IInv, NEW p \in Processes, pc[p] = "open"
      PROVE  1..known[p] \subseteq Range(Current.schema)
  <2>1. /\ Current.schema \in Seq(1..Versions) /\ Len(Current.schema) \in Nat
        /\ Current.schema = [k \in 1..Len(Current.schema) |-> k]
    <3>1. Current \in States /\ Exact(Current)
      BY <1>1, CurrentIsExact DEF IInv
    <3> QED BY <3>1 DEF States, Exact
  <2>2. known[p] <= Len(Current.schema) /\ known[p] \in Nat
    BY <1>1, <2>1 DEF IInv, TypeOK, PlaceOK
  <2>3. Range(Current.schema) = 1..Len(Current.schema)
    BY <2>1 DEF Range
  <2> QED BY <2>1, <2>2, <2>3
<1>2. IInv => OpenIsMigrated
  BY <1>1 DEF OpenIsMigrated
<1> QED BY <1>2, Invariance, PTL
=============================================================================
