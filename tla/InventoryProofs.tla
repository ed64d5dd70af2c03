--------------------------- MODULE InventoryProofs --------------------------
(***************************************************************************)
(* Theorems about Inventory, for any addresses, jobs, ports and groups,    *)
(* and for forms of any length.                                            *)
(***************************************************************************)
EXTENDS Inventory, FiniteSetTheorems, SequenceTheorems, WellFoundedInduction, TLAPS

\* The devices that were imported into machine m, and the audit events of it.
Owners(t, m) == {d \in DeviceIds : t.devices[d] # None /\ t.devices[d].machine = m}
Audits(t, m) == {i \in DOMAIN t.imports : t.imports[i] = m}

\* What holds of the row of device d: an imported device has a machine that is monitored.
DeviceOK(t, d, names) ==
    t.devices[d] # None =>
        IF t.devices[d].status = "imported"
        THEN /\ t.devices[d].machine \in DOMAIN t.machines
             /\ t.machines[t.devices[d].machine] = CheckFor(d[2], t.devices[d].port)
             /\ \E g \in names : <<t.devices[d].machine, g>> \in t.members
        ELSE t.devices[d].machine = None

AuditsOK(t, m) ==
    /\ IsFiniteSet(Owners(t, m)) /\ IsFiniteSet(Audits(t, m))
    /\ Cardinality(Owners(t, m)) = Cardinality(Audits(t, m))

\* What holds of the tables within a transaction that has names in its table of groups.
TablesOK(t, names) ==
    /\ t.machines \in Seq(Check)
    /\ t.devices \in [DeviceIds -> Devices \cup {None}]
    /\ t.members \in SUBSET ((DOMAIN t.machines) \X names)
    /\ t.imports \in Seq(DOMAIN t.machines)
    /\ IsInjective(t.machines)
    /\ \A d \in DeviceIds : DeviceOK(t, d, names)
    /\ \A m \in DOMAIN t.machines : AuditsOK(t, m)

Tables == [machines |-> machines, devices |-> devices, members |-> members, imports |-> imports]

IInv == groups \in SUBSET Groups /\ TablesOK(Tables, groups)

-----------------------------------------------------------------------------
(* Numbers and sequences *)

\* Numbers have a least one.
LEMMA Least ==
    ASSUME NEW S \in SUBSET Nat, S # {}
    PROVE  \E n \in S : \A m \in S : n <= m
<1>1. \E n \in S : \A m \in S : ~(<<m, n>> \in OpToRel(<, Nat))
  BY NatLessThanWellFounded, WFMin
<1>2. ASSUME NEW m \in Nat, NEW n \in Nat, ~(<<m, n>> \in OpToRel(<, Nat))
      PROVE  n <= m
  <2>1. ~(m < n)
    BY <1>2 DEF OpToRel
  <2> QED BY <2>1
<1> QED
  BY <1>1, <1>2

\* A sequence of members is one of members of a larger set.
LEMMA Widen == ASSUME NEW B, NEW A \in SUBSET B, NEW s \in Seq(A) PROVE s \in Seq(B)
<1>1. /\ Len(s) \in Nat /\ s = [i \in 1..Len(s) |-> s[i]]
      /\ \A i \in 1..Len(s) : s[i] \in B
  BY LenProperties, ElementOfSeq
<1> QED
  BY <1>1

\* A set of sequences that has the empty one, and every extension of its members by
\* one element, has them all.
LEMMA EverySequence ==
    ASSUME NEW A, NEW S, <<>> \in S,
           \A s \in Seq(A) : \A x \in A : s \in S => Append(s, x) \in S
    PROVE  Seq(A) \subseteq S
<1> DEFINE Missing == {n \in Nat : \E s \in Seq(A) : Len(s) = n /\ s \notin S}
<1>1. SUFFICES ASSUME Missing # {} PROVE FALSE
  BY LenProperties
<1>2. Missing \in SUBSET Nat
  OBVIOUS
<1>3. PICK n \in Missing : \A m \in Missing : n <= m
  <2> HIDE DEF Missing
  <2> QED BY <1>1, <1>2, Least
<1>4. PICK s \in Seq(A) : Len(s) = n /\ s \notin S
  OBVIOUS
<1>5. s # <<>>
  BY <1>4
<1>6. PICK front \in Seq(A), x \in A : s = Append(front, x)
  BY <1>5, SequenceEmptyOrAppend
<1>7. Len(front) + 1 = n /\ Len(front) \in Nat
  BY <1>4, <1>6, AppendProperties, LenProperties
<1>8. front \in S
  BY <1>3, <1>7
<1> QED
  BY <1>4, <1>6, <1>8

-----------------------------------------------------------------------------
(* The loop over a form *)

\* run is what the tables are after each number of devices.
Runs(before, job, ids, group, run) ==
    run = [i \in 0..Len(ids) |->
            IF i = 0 THEN before
            ELSE IF Importable(run[i - 1], job, ids[i]) THEN ImportOne(run[i - 1], ids[i], group)
            ELSE run[i - 1]]

\* One turn of the loop.
Turn(t, job, d, group) == IF Importable(t, job, d) THEN ImportOne(t, d, group) ELSE t

\* What one turn of the loop does.
LEMMA RunsAt ==
    ASSUME NEW before, NEW job, NEW group, NEW D, NEW ids \in Seq(D), NEW run,
           Runs(before, job, ids, group, run)
    PROVE  /\ run[0] = before
           /\ \A i \in 1..Len(ids) : run[i] = Turn(run[i - 1], job, ids[i], group)
<1>1. /\ Len(ids) \in Nat /\ 0 \in 0..Len(ids)
      /\ \A i \in 1..Len(ids) : i # 0 /\ i \in 0..Len(ids)
  BY LenProperties
<1>2. run[0] = before
  BY <1>1 DEF Runs
<1>3. ASSUME NEW i \in 1..Len(ids) PROVE run[i] = Turn(run[i - 1], job, ids[i], group)
  BY <1>1 DEF Runs, Turn
<1> QED
  BY <1>2, <1>3

\* The loop is determined.
LEMMA RunsOnce ==
    ASSUME NEW before, NEW job, NEW group, NEW D, NEW ids \in Seq(D),
           NEW f, Runs(before, job, ids, group, f), NEW g, Runs(before, job, ids, group, g)
    PROVE  f[Len(ids)] = g[Len(ids)]
<1> DEFINE Differ == {n \in 0..Len(ids) : f[n] # g[n]}
<1>1. SUFFICES ASSUME Differ # {} PROVE FALSE
  BY LenProperties
<1>2. Differ \in SUBSET Nat
  BY LenProperties
<1>3. PICK n \in Differ : \A m \in Differ : n <= m
  <2> HIDE DEF Differ
  <2> QED BY <1>1, <1>2, Least
<1>4. n # 0
  BY RunsAt
<1>5. n \in 1..Len(ids) /\ n - 1 \in 0..Len(ids) /\ n - 1 \notin Differ
  BY <1>3, <1>4, LenProperties
<1>6. f[n - 1] = g[n - 1]
  BY <1>5
<1> QED
  BY <1>5, <1>6, RunsAt

\* The loop over one device more.
LEMMA RunsMore ==
    ASSUME NEW before, NEW job, NEW group, NEW D, NEW ids \in Seq(D), NEW d \in D,
           NEW f, Runs(before, job, ids, group, f)
    PROVE  LET last == Turn(f[Len(ids)], job, d, group)
           IN  Runs(before, job, Append(ids, d), group,
                   [i \in 0..Len(ids) + 1 |-> IF i <= Len(ids) THEN f[i] ELSE last])
<1> DEFINE last == Turn(f[Len(ids)], job, d, group)
           more == [i \in 0..Len(ids) + 1 |-> IF i <= Len(ids) THEN f[i] ELSE last]
           b == Append(ids, d)
<1>1. /\ Len(ids) \in Nat /\ Len(b) = Len(ids) + 1
      /\ \A i \in 1..Len(ids) : b[i] = ids[i]
      /\ b[Len(ids) + 1] = d
  BY AppendProperties, LenProperties
<1>2. ASSUME NEW i \in 0..Len(b)
      PROVE  more[i] = IF i = 0 THEN before ELSE Turn(more[i - 1], job, b[i], group)
  <2>1. CASE i = 0
    <3>1. more[0] = f[0]
      BY <1>1
    <3>2. f[0] = before
      BY RunsAt
    <3> HIDE DEF more, b
    <3> QED BY <2>1, <3>1, <3>2
  <2>2. CASE i \in 1..Len(ids)
    <3>1. more[i] = f[i] /\ more[i - 1] = f[i - 1] /\ b[i] = ids[i] /\ i # 0
      BY <1>1, <2>2
    <3>2. f[i] = Turn(f[i - 1], job, ids[i], group)
      BY <2>2, RunsAt
    <3> HIDE DEF more, b
    <3> QED BY <3>1, <3>2
  <2>3. CASE i = Len(ids) + 1
    <3>1. more[i] = last /\ more[i - 1] = f[Len(ids)] /\ b[i] = d /\ i # 0
      BY <1>1, <2>3
    <3> HIDE DEF more, b
    <3> QED BY <3>1
  <2> QED BY <1>1, <2>1, <2>2, <2>3
<1>3. more = [i \in 0..Len(b) |->
                IF i = 0 THEN before ELSE Turn(more[i - 1], job, b[i], group)]
  <2>1. more = [i \in 0..Len(b) |-> more[i]]
    BY <1>1
  <2> HIDE DEF more, b
  <2> QED BY <1>2, <2>1
<1> HIDE DEF more, b
<1> QED
  BY <1>3 DEF Runs, Turn, more, b

\* ImportAll is what the tables are in the end.
LEMMA ImportAllRuns ==
    ASSUME NEW before, NEW job, NEW group, NEW D, NEW ids \in Seq(D)
    PROVE  \E f : /\ Runs(before, job, ids, group, f)
                  /\ ImportAll(before, job, ids, group) = f[Len(ids)]
<1> DEFINE S == {s \in Seq(D) : \E f : Runs(before, job, s, group, f)}
<1>1. <<>> \in S
  <2>1. Runs(before, job, <<>>, group, [i \in 0..0 |-> before])
    BY DEF Runs
  <2> QED BY <2>1
<1>2. ASSUME NEW s \in Seq(D), NEW d \in D, s \in S PROVE Append(s, d) \in S
  <2>1. PICK f : Runs(before, job, s, group, f)
    BY <1>2
  <2>2. \E g : Runs(before, job, Append(s, d), group, g)
    BY <2>1, RunsMore
  <2> QED BY <2>2, AppendProperties
<1>3. ids \in S
  <2> HIDE DEF S
  <2> QED BY <1>1, <1>2, EverySequence
<1>4. PICK f : Runs(before, job, ids, group, f)
  BY <1>3
<1> DEFINE r == CHOOSE g : Runs(before, job, ids, group, g)
<1>5. Runs(before, job, ids, group, r)
  BY <1>4
<1>6. ImportAll(before, job, ids, group) = r[Len(ids)]
  BY DEF ImportAll, Runs
<1> QED
  BY <1>5, <1>6

\* What every turn keeps is kept by the loop.
LEMMA ImportAllKeeps ==
    ASSUME NEW before, NEW job, NEW group, NEW D, NEW ids \in Seq(D), NEW Good, before \in Good,
           \A t \in Good : \A d \in D : Turn(t, job, d, group) \in Good
    PROVE  ImportAll(before, job, ids, group) \in Good
<1>1. PICK f : /\ Runs(before, job, ids, group, f)
               /\ ImportAll(before, job, ids, group) = f[Len(ids)]
  BY ImportAllRuns
<1> DEFINE Bad == {n \in 0..Len(ids) : f[n] \notin Good}
<1>2. SUFFICES ASSUME Bad # {} PROVE FALSE
  BY <1>1, LenProperties
<1>3. Bad \in SUBSET Nat
  BY LenProperties
<1>4. PICK n \in Bad : \A m \in Bad : n <= m
  <2> HIDE DEF Bad
  <2> QED BY <1>2, <1>3, Least
<1>5. n # 0
  BY <1>1, RunsAt
<1>6. n \in 1..Len(ids) /\ n - 1 \in 0..Len(ids) /\ n - 1 \notin Bad
  BY <1>4, <1>5, LenProperties
<1>7. f[n] = Turn(f[n - 1], job, ids[n], group) /\ ids[n] \in D
  BY <1>1, <1>6, RunsAt, ElementOfSeq
<1> QED
  BY <1>6, <1>7

-----------------------------------------------------------------------------
(* Checks of detected ports *)

LEMMA PortsAreNumbers == ASSUME NEW n \in Ports PROVE n \in Nat
  BY DEF Ports

LEMMA PreferredPortType ==
    ASSUME NEW ports \in SUBSET Ports
    PROVE  PreferredPort(ports) \in Ports \cup {None}
<1>1. CASE ports = {}
  BY <1>1 DEF PreferredPort
<1>2. CASE ports # {} /\ ports \cap {22, 80, 443} # {}
  <2> DEFINE S == ports \cap {22, 80, 443}
  <2>1. \E x \in S : \A y \in S : x >= y
    BY <1>2
  <2>2. Max(S) \in S
    BY <2>1 DEF Max
  <2> QED BY <1>2, <2>2 DEF PreferredPort
<1>3. CASE ports # {} /\ ports \cap {22, 80, 443} = {}
  <2>1. ports \in SUBSET Nat
    BY PortsAreNumbers
  <2>2. \E x \in ports : \A y \in ports : x <= y
    BY <1>3, <2>1, Least
  <2>3. Min(ports) \in ports
    BY <2>2 DEF Min
  <2> QED BY <1>3, <2>3 DEF PreferredPort
<1> QED
  BY <1>1, <1>2, <1>3

LEMMA CheckForType ==
    ASSUME NEW a \in Addresses, NEW port \in Ports \cup {None}
    PROVE  CheckFor(a, port) \in Check
<1>1. (IF port = 80 THEN "http" ELSE IF port = 443 THEN "https" ELSE "tcp") \in Types
  BY DEF Types
<1>2. (IF port = None THEN 22 ELSE port) \in Ports
  BY DEF Ports
<1>3. "/" \in Paths
  BY InventoryAssumption
<1> QED
  BY <1>1, <1>2, <1>3 DEF CheckFor, Check

\* The machine a search finds has the check.
LEMMA FoundHasCheck ==
    ASSUME NEW table \in Seq(Check), NEW check, Same(table, check) # {}
    PROVE  Min(Same(table, check)) \in DOMAIN table /\ table[Min(Same(table, check))] = check
<1>1. Same(table, check) \in SUBSET Nat
  BY LenProperties DEF Same
<1>2. \E x \in Same(table, check) : \A y \in Same(table, check) : x <= y
  BY <1>1, Least
<1>3. Min(Same(table, check)) \in Same(table, check)
  BY <1>2 DEF Min
<1> QED
  BY <1>3 DEF Same

\* A machine added when none has its check keeps the table free of twins.
LEMMA AppendKeepsApart ==
    ASSUME NEW table \in Seq(Check), IsInjective(table), NEW check \in Check,
           Same(table, check) = {}
    PROVE  /\ Append(table, check) \in Seq(Check)
           /\ DOMAIN Append(table, check) = DOMAIN table \cup {Len(table) + 1}
           /\ Len(table) + 1 \notin DOMAIN table
           /\ \A i \in DOMAIN table : Append(table, check)[i] = table[i]
           /\ Append(table, check)[Len(table) + 1] = check
           /\ IsInjective(Append(table, check))
<1> DEFINE more == Append(table, check)
<1>1. /\ Len(table) \in Nat /\ DOMAIN table = 1..Len(table)
      /\ more \in Seq(Check) /\ Len(more) = Len(table) + 1 /\ DOMAIN more = 1..Len(more)
      /\ \A i \in 1..Len(table) : more[i] = table[i]
      /\ more[Len(table) + 1] = check
  BY AppendProperties, LenProperties
<1>2. \A i \in DOMAIN table : table[i] # check
  BY DEF Same
<1> HIDE DEF more
<1>3. DOMAIN more = DOMAIN table \cup {Len(table) + 1} /\ Len(table) + 1 \notin DOMAIN table
  BY <1>1
<1>4. ASSUME NEW a \in DOMAIN more, NEW b \in DOMAIN more, more[a] = more[b] PROVE a = b
  BY <1>1, <1>2, <1>3, <1>4 DEF IsInjective
<1>5. IsInjective(more)
  BY <1>4 DEF IsInjective
<1> QED
  BY <1>1, <1>3, <1>5 DEF more

-----------------------------------------------------------------------------
(* One device is imported *)

\* A machine that is not there owns nothing and has no event.
LEMMA NothingBeyond ==
    ASSUME NEW names, NEW t, TablesOK(t, names), NEW m \in Nat, m \notin DOMAIN t.machines
    PROVE  Owners(t, m) = {} /\ Audits(t, m) = {}
<1>1. None # m
  BY InventoryAssumption
<1>2. ASSUME NEW d \in DeviceIds, t.devices[d] # None PROVE t.devices[d].machine # m
  BY <1>1, <1>2 DEF TablesOK, DeviceOK
<1>3. ASSUME NEW i \in DOMAIN t.imports PROVE t.imports[i] # m
  <2>1. t.imports \in Seq(DOMAIN t.machines)
    BY DEF TablesOK
  <2>2. t.imports[i] \in DOMAIN t.machines
    BY <2>1, LenProperties, ElementOfSeq
  <2> QED BY <2>2
<1> QED
  BY <1>2, <1>3 DEF Owners, Audits

\* An import is audited where it is noted: machine m gains device d and one event.
LEMMA AuditedOnce ==
    ASSUME NEW t, NEW u, NEW m, NEW d \in DeviceIds, NEW A, t.imports \in Seq(A), m \in A,
           t.devices[d] # None, t.devices[d].machine # m,
           u.imports = Append(t.imports, m),
           u.devices[d] # None, u.devices[d].machine = m,
           \A x \in DeviceIds \ {d} : u.devices[x] = t.devices[x],
           AuditsOK(t, m)
    PROVE  AuditsOK(u, m)
<1> DEFINE n == Len(t.imports) + 1
<1>1. /\ Len(t.imports) \in Nat /\ DOMAIN t.imports = 1..Len(t.imports)
      /\ DOMAIN u.imports = 1..n
      /\ \A i \in 1..Len(t.imports) : u.imports[i] = t.imports[i]
      /\ u.imports[n] = m
  BY AppendProperties, LenProperties
<1>2. Owners(u, m) = Owners(t, m) \cup {d} /\ d \notin Owners(t, m)
  BY DEF Owners
<1>3. Audits(u, m) = Audits(t, m) \cup {n} /\ n \notin Audits(t, m)
  BY <1>1 DEF Audits
<1>4. /\ IsFiniteSet(Owners(t, m)) /\ IsFiniteSet(Audits(t, m))
      /\ Cardinality(Owners(t, m)) = Cardinality(Audits(t, m))
  BY DEF AuditsOK
<1>5. IsFiniteSet(Owners(u, m)) /\ Cardinality(Owners(u, m)) = Cardinality(Owners(t, m)) + 1
  BY <1>2, <1>4, FS_AddElement
<1>6. IsFiniteSet(Audits(u, m)) /\ Cardinality(Audits(u, m)) = Cardinality(Audits(t, m)) + 1
  BY <1>3, <1>4, FS_AddElement
<1> QED
  BY <1>4, <1>5, <1>6 DEF AuditsOK

\* The other machines gain nothing.
LEMMA OthersUnaudited ==
    ASSUME NEW t, NEW u, NEW m, NEW k, k # m, NEW d \in DeviceIds, NEW A,
           t.imports \in Seq(A), m \in A,
           t.devices[d] # None, t.devices[d].machine # k,
           u.imports = Append(t.imports, m),
           u.devices[d] # None, u.devices[d].machine = m,
           \A x \in DeviceIds \ {d} : u.devices[x] = t.devices[x],
           AuditsOK(t, k)
    PROVE  AuditsOK(u, k)
<1> DEFINE n == Len(t.imports) + 1
<1>1. /\ Len(t.imports) \in Nat /\ DOMAIN t.imports = 1..Len(t.imports)
      /\ DOMAIN u.imports = 1..n
      /\ \A i \in 1..Len(t.imports) : u.imports[i] = t.imports[i]
      /\ u.imports[n] = m
  BY AppendProperties, LenProperties
<1>2. Owners(u, k) = Owners(t, k)
  BY DEF Owners
<1>3. Audits(u, k) = Audits(t, k)
  BY <1>1 DEF Audits
<1> QED
  BY <1>2, <1>3 DEF AuditsOK

\* The import of a device that waits for it keeps the tables in order.
LEMMA ImportOneKeeps ==
    ASSUME NEW names, NEW group \in names, NEW t, TablesOK(t, names), NEW d \in DeviceIds,
           t.devices[d] # None, t.devices[d].status # "imported"
    PROVE  TablesOK(ImportOne(t, d, group), names)
<1> DEFINE port  == t.devices[d].port
           check == CheckFor(d[2], port)
           found == Same(t.machines, check)
           m     == IF found # {} THEN Min(found) ELSE Len(t.machines) + 1
           u     == ImportOne(t, d, group)
<1>1. /\ t.devices[d] \in Devices /\ port \in Ports \cup {None}
      /\ d[2] \in Addresses
      /\ t.devices[d].machine = None
      /\ t.machines \in Seq(Check) /\ IsInjective(t.machines)
      /\ Len(t.machines) \in Nat /\ DOMAIN t.machines = 1..Len(t.machines)
  BY LenProperties DEF TablesOK, DeviceOK, Devices, DeviceIds
<1>2. check \in Check
  BY <1>1, CheckForType
<1>3. /\ u.machines = (IF found # {} THEN t.machines ELSE Append(t.machines, check))
      /\ u.devices = [t.devices EXCEPT ![d] = [t.devices[d] EXCEPT !.status = "imported", !.machine = m]]
      /\ u.members = t.members \cup {<<m, group>>}
      /\ u.imports = Append(t.imports, m)
  BY DEF ImportOne, Imported, Joined
<1> HIDE DEF check, u
<1>4. /\ m \in Nat
      /\ u.machines \in Seq(Check) /\ IsInjective(u.machines)
      /\ DOMAIN u.machines = DOMAIN t.machines \cup {m}
      /\ \A i \in DOMAIN t.machines : u.machines[i] = t.machines[i]
      /\ u.machines[m] = check
  <2>1. CASE found # {}
    <3>1. m \in DOMAIN t.machines /\ t.machines[m] = check
      BY <1>1, <2>1, FoundHasCheck
    <3> QED BY <1>1, <1>3, <2>1, <3>1
  <2>2. CASE found = {}
    <3>1. m = Len(t.machines) + 1 /\ u.machines = Append(t.machines, check)
      BY <1>3, <2>2
    <3> QED BY <1>1, <1>2, <2>2, <3>1, AppendKeepsApart
  <2> QED BY <2>1, <2>2
<1> HIDE DEF found, m
<1>5. m # None
  BY <1>4, InventoryAssumption
<1>6. /\ u.devices \in [DeviceIds -> Devices \cup {None}]
      /\ u.devices[d] # None
      /\ u.devices[d].status = "imported" /\ u.devices[d].machine = m /\ u.devices[d].port = port
      /\ \A x \in DeviceIds \ {d} : u.devices[x] = t.devices[x]
  <2>1. [t.devices[d] EXCEPT !.status = "imported", !.machine = m] \in Devices
    BY <1>1, <1>4 DEF Devices
  <2>2. t.devices \in [DeviceIds -> Devices \cup {None}]
    BY DEF TablesOK
  <2>3. u.devices[d] = [t.devices[d] EXCEPT !.status = "imported", !.machine = m]
    BY <1>3, <2>2
  <2>4. u.devices[d].status = "imported" /\ u.devices[d].machine = m /\ u.devices[d].port = port
    BY <1>1, <2>3 DEF Devices
  <2>5. u.devices[d] # None
    BY <2>1, <2>3, InventoryAssumption
  <2> QED BY <1>3, <2>1, <2>2, <2>4, <2>5
<1>7. u.members \in SUBSET ((DOMAIN u.machines) \X names) /\ t.members \subseteq u.members
  BY <1>3, <1>4 DEF TablesOK
<1>8. t.imports \in Seq(DOMAIN u.machines) /\ m \in DOMAIN u.machines
  <2>1. t.imports \in Seq(DOMAIN t.machines) /\ DOMAIN t.machines \in SUBSET DOMAIN u.machines
    BY <1>4 DEF TablesOK
  <2>2. t.imports \in Seq(DOMAIN u.machines)
    BY <2>1, Widen
  <2> QED BY <1>4, <2>2
<1> DEFINE there == DOMAIN u.machines
           log   == t.imports
<1>9. there = DOMAIN u.machines /\ log = t.imports
  OBVIOUS
<1>10. log \in Seq(there) /\ m \in there /\ u.imports = Append(log, m)
  BY <1>3, <1>8
<1> HIDE DEF there, log
<1>11. u.imports \in Seq(DOMAIN u.machines)
  <2>1. Append(log, m) \in Seq(there)
    BY <1>10, AppendProperties
  <2> QED BY <1>9, <1>10, <2>1
<1>12. ASSUME NEW x \in DeviceIds PROVE DeviceOK(u, x, names)
  <2>1. CASE x = d
    <3>1. /\ u.devices[x].machine \in DOMAIN u.machines
          /\ u.machines[u.devices[x].machine] = CheckFor(x[2], u.devices[x].port)
      BY <1>4, <1>6, <2>1 DEF check
    <3>2. <<u.devices[x].machine, group>> \in u.members
      BY <1>3, <1>6, <2>1
    <3> QED BY <1>6, <2>1, <3>1, <3>2 DEF DeviceOK
  <2>2. CASE x # d
    <3>1. u.devices[x] = t.devices[x] /\ DeviceOK(t, x, names)
      BY <1>6, <2>2 DEF TablesOK
    <3> QED BY <1>4, <1>7, <3>1 DEF DeviceOK
  <2> QED BY <2>1, <2>2
<1>13. ASSUME NEW k \in DOMAIN u.machines PROVE AuditsOK(u, k)
  <2>1. k \in Nat
    BY <1>1, <1>4
  <2>2. AuditsOK(t, k)
    <3>1. CASE k \in DOMAIN t.machines
      BY <3>1 DEF TablesOK
    <3>2. CASE k \notin DOMAIN t.machines
      <4>1. Owners(t, k) = {} /\ Audits(t, k) = {}
        BY <2>1, <3>2, NothingBeyond
      <4> QED BY <4>1, FS_EmptySet DEF AuditsOK
    <3> QED BY <3>1, <3>2
  <2>3. t.devices[d].machine # k
    BY <1>1, <2>1, InventoryAssumption
  <2>4. CASE k = m
    BY <1>6, <1>9, <1>10, <2>2, <2>3, <2>4, AuditedOnce
  <2>5. CASE k # m
    BY <1>6, <1>9, <1>10, <2>2, <2>3, <2>5, OthersUnaudited
  <2> QED BY <2>4, <2>5
<1>14. TablesOK(u, names)
  BY <1>4, <1>6, <1>7, <1>11, <1>12, <1>13 DEF TablesOK
<1> QED
  BY <1>14 DEF u

-----------------------------------------------------------------------------
(* A form is imported *)

\* The tables a transaction may leave.
Shapes(names) ==
    [machines : Seq(Check), devices : [DeviceIds -> Devices \cup {None}],
     members : SUBSET (Nat \X names), imports : Seq(Nat)]

Good(names) == {t \in Shapes(names) : TablesOK(t, names)}

\* Tables in order have the shape.
LEMMA Shaped ==
    ASSUME NEW names, NEW ms, NEW ds, NEW gs, NEW is,
           NEW t, t = [machines |-> ms, devices |-> ds, members |-> gs, imports |-> is],
           TablesOK(t, names)
    PROVE  t \in Good(names)
<1>1. /\ ms \in Seq(Check) /\ ds \in [DeviceIds -> Devices \cup {None}]
      /\ gs \in SUBSET ((DOMAIN ms) \X names) /\ is \in Seq(DOMAIN ms)
  BY DEF TablesOK
<1> DEFINE there == DOMAIN ms
<1>2. there \in SUBSET Nat
  BY <1>1, LenProperties
<1>3. gs \in SUBSET (there \X names) /\ is \in Seq(there)
  BY <1>1
<1> HIDE DEF there
<1>4. is \in Seq(Nat)
  BY <1>2, <1>3, Widen
<1>5. gs \in SUBSET (Nat \X names)
  BY <1>2, <1>3
<1> QED
  BY <1>1, <1>4, <1>5 DEF Shapes, Good

\* One turn of the loop keeps the tables in order.
LEMMA TurnKeeps ==
    ASSUME NEW names, NEW group \in names, NEW job, NEW t \in Good(names), NEW d \in DeviceIds
    PROVE  Turn(t, job, d, group) \in Good(names)
<1>1. TablesOK(t, names)
  BY DEF Good
<1>2. CASE Importable(t, job, d)
  <2>1. TablesOK(ImportOne(t, d, group), names)
    BY <1>1, <1>2, ImportOneKeeps DEF Importable
  <2>2. \E ms, ds, gs, is : ImportOne(t, d, group) =
            [machines |-> ms, devices |-> ds, members |-> gs, imports |-> is]
    BY DEF ImportOne
  <2>3. ImportOne(t, d, group) \in Good(names)
    BY <2>1, <2>2, Shaped
  <2> QED BY <1>2, <2>3 DEF Turn
<1>3. CASE ~Importable(t, job, d)
  BY <1>3 DEF Turn
<1> QED
  BY <1>2, <1>3

\* A group more does no harm.
LEMMA MoreGroups ==
    ASSUME NEW names, NEW more, names \subseteq more, NEW t, TablesOK(t, names)
    PROVE  TablesOK(t, more)
<1>1. t.members \in SUBSET ((DOMAIN t.machines) \X more)
  BY DEF TablesOK
<1>2. ASSUME NEW d \in DeviceIds PROVE DeviceOK(t, d, more)
  BY DEF TablesOK, DeviceOK
<1> QED
  BY <1>1, <1>2 DEF TablesOK

\* Import of a whole form.
LEMMA ImportKeeps ==
    ASSUME IInv, NEW job \in JobIds, NEW ids \in BoundedSeq(DeviceIds, MaxImport),
           NEW group \in Groups, Import(job, ids, group)
    PROVE  IInv'
<1> DEFINE names == groups \cup {group}
           after == ImportAll(Tables, job, ids, group)
<1>1. ids \in Seq(DeviceIds)
  <2>1. PICK m \in 0..MaxImport : ids \in [1..m -> DeviceIds]
    BY InventoryAssumption DEF BoundedSeq, SeqOf
  <2> QED BY <2>1, InventoryAssumption
<1>2. TablesOK(Tables, names)
  BY MoreGroups DEF IInv
<1>3. Tables \in Good(names)
  BY <1>2, Shaped DEF Tables
<1>4. \A t \in Good(names) : \A d \in DeviceIds : Turn(t, job, d, group) \in Good(names)
  BY TurnKeeps
<1>5. after \in Good(names)
  <2> HIDE DEF names
  <2> QED BY <1>1, <1>3, <1>4, ImportAllKeeps
<1>6. /\ groups' = names
      /\ machines' = after.machines /\ devices' = after.devices
      /\ members' = after.members /\ imports' = after.imports
  BY DEF Import, Tables
<1> HIDE DEF after
<1>7. Tables' = after
  <2>1. after = [machines |-> after.machines, devices |-> after.devices,
                 members |-> after.members, imports |-> after.imports]
    BY <1>5 DEF Good, Shapes
  <2> QED BY <1>6, <2>1 DEF Tables
<1>8. TablesOK(after, names)
  BY <1>5 DEF Good
<1>9. groups' \in SUBSET Groups
  BY <1>6 DEF IInv
<1>10. TablesOK(Tables', groups')
  BY <1>6, <1>7, <1>8
<1> QED
  BY <1>9, <1>10 DEF IInv

-----------------------------------------------------------------------------
(* The other operations *)

LEMMA CreateKeeps ==
    ASSUME IInv, NEW check \in Check, Create(check)
    PROVE  IInv'
<1> DEFINE t == Tables
           u == Tables'
<1>1. /\ TablesOK(t, groups)
      /\ t.machines = machines /\ t.devices = devices /\ t.members = members /\ t.imports = imports
      /\ u.machines = machines' /\ u.devices = devices' /\ u.members = members'
      /\ u.imports = imports'
  BY DEF IInv, Tables
<1>2. /\ Same(t.machines, check) = {} /\ u.machines = Append(t.machines, check)
      /\ u.devices = t.devices /\ u.members = t.members /\ u.imports = t.imports
      /\ groups' = groups
  BY <1>1 DEF Create, Creatable
<1> HIDE DEF t, u
<1> DEFINE k == Len(t.machines) + 1
<1>3. /\ u.machines \in Seq(Check) /\ IsInjective(u.machines)
      /\ DOMAIN u.machines = DOMAIN t.machines \cup {k} /\ k \notin DOMAIN t.machines
      /\ \A i \in DOMAIN t.machines : u.machines[i] = t.machines[i]
  BY <1>1, <1>2, AppendKeepsApart DEF TablesOK
<1>4. k \in Nat
  BY <1>1, LenProperties DEF TablesOK
<1> HIDE DEF k
<1>5. u.imports \in Seq(DOMAIN u.machines)
  <2>1. t.imports \in Seq(DOMAIN t.machines) /\ DOMAIN t.machines \in SUBSET DOMAIN u.machines
    BY <1>1, <1>3 DEF TablesOK
  <2> QED BY <1>2, <2>1, Widen
<1>6. ASSUME NEW d \in DeviceIds PROVE DeviceOK(u, d, groups)
  BY <1>1, <1>2, <1>3 DEF TablesOK, DeviceOK
<1>7. ASSUME NEW m \in DOMAIN u.machines PROVE AuditsOK(u, m)
  <2>1. Owners(u, m) = Owners(t, m) /\ Audits(u, m) = Audits(t, m)
    BY <1>2 DEF Owners, Audits
  <2>2. CASE m \in DOMAIN t.machines
    BY <1>1, <2>1, <2>2 DEF TablesOK, AuditsOK
  <2>3. CASE m = k
    <3>1. Owners(t, m) = {} /\ Audits(t, m) = {}
      BY <1>1, <1>3, <1>4, <2>3, NothingBeyond
    <3> QED BY <2>1, <3>1, FS_EmptySet DEF AuditsOK
  <2> QED BY <1>3, <2>2, <2>3
<1>8. TablesOK(u, groups)
  BY <1>1, <1>2, <1>3, <1>5, <1>6, <1>7 DEF TablesOK
<1>9. TablesOK(Tables', groups')
  BY <1>2, <1>8 DEF u
<1> QED
  BY <1>2, <1>9 DEF IInv

LEMMA DiscoverKeeps ==
    ASSUME IInv, NEW d \in DeviceIds, NEW ports \in PortSets, Discover(d, ports)
    PROVE  IInv'
<1> DEFINE t == Tables
           u == Tables'
           row == [port |-> PreferredPort(ports), status |-> "new", machine |-> None]
<1>1. /\ TablesOK(t, groups)
      /\ t.machines = machines /\ t.devices = devices /\ t.members = members /\ t.imports = imports
      /\ u.machines = machines' /\ u.devices = devices' /\ u.members = members'
      /\ u.imports = imports'
  BY DEF IInv, Tables
<1>2. /\ t.devices[d] = None /\ u.devices = [t.devices EXCEPT ![d] = row]
      /\ u.machines = t.machines /\ u.members = t.members /\ u.imports = t.imports
      /\ groups' = groups
  BY <1>1 DEF Discover
<1>3. row \in Devices /\ row.status # "imported" /\ row.machine = None
  <2>1. ports \in SUBSET Ports
    BY InventoryAssumption
  <2>2. PreferredPort(ports) \in Ports \cup {None}
    BY <2>1, PreferredPortType
  <2> QED BY <2>2 DEF Devices
<1> HIDE DEF t, u, row
<1>4. /\ u.devices \in [DeviceIds -> Devices \cup {None}]
      /\ u.devices[d] = row
      /\ \A x \in DeviceIds \ {d} : u.devices[x] = t.devices[x]
  BY <1>1, <1>2, <1>3 DEF TablesOK
<1>5. ASSUME NEW x \in DeviceIds PROVE DeviceOK(u, x, groups)
  <2>1. CASE x = d
    BY <1>3, <1>4, <2>1 DEF DeviceOK
  <2>2. CASE x # d
    BY <1>1, <1>2, <1>4, <2>2 DEF TablesOK, DeviceOK
  <2> QED BY <2>1, <2>2
<1>6. ASSUME NEW m \in DOMAIN u.machines PROVE AuditsOK(u, m)
  <2>1. m \in Nat
    BY <1>1, <1>2, LenProperties DEF TablesOK
  <2>2. m # None
    BY <2>1, InventoryAssumption
  <2>3. Owners(u, m) = Owners(t, m) /\ Audits(u, m) = Audits(t, m)
    BY <1>2, <1>3, <1>4, <2>2 DEF Owners, Audits
  <2> QED BY <1>1, <1>2, <2>3 DEF TablesOK, AuditsOK
<1>7. TablesOK(u, groups)
  BY <1>1, <1>2, <1>4, <1>5, <1>6 DEF TablesOK
<1>8. TablesOK(Tables', groups')
  BY <1>2, <1>7 DEF u
<1> QED
  BY <1>2, <1>8 DEF IInv

-----------------------------------------------------------------------------
(* The theorems *)

LEMMA InitIInv == Init => IInv
<1> SUFFICES ASSUME Init PROVE IInv
  OBVIOUS
<1>1. /\ machines = <<>> /\ devices = [d \in DeviceIds |-> None] /\ groups = {}
      /\ members = {} /\ imports = <<>>
  BY DEF Init
<1>2. machines \in Seq(Check) /\ imports \in Seq(DOMAIN machines) /\ DOMAIN machines = {}
  BY <1>1
<1>3. IsInjective(machines)
  BY <1>2 DEF IsInjective
<1>4. TablesOK(Tables, groups)
  BY <1>1, <1>2, <1>3 DEF TablesOK, Tables, DeviceOK
<1> QED
  BY <1>1, <1>4 DEF IInv

LEMMA NextIInv == IInv /\ [Next]_vars => IInv'
<1> SUFFICES ASSUME IInv, [Next]_vars PROVE IInv'
  OBVIOUS
<1>1. CASE \E a \in Addresses, e \in Endpoints, p \in Paths :
             Create([target |-> a, type |-> e[1], port |-> e[2], path |-> p])
  <2>1. PICK a \in Addresses, e \in Endpoints, p \in Paths :
            Create([target |-> a, type |-> e[1], port |-> e[2], path |-> p])
    BY <1>1
  <2>2. e[1] \in Types /\ e[2] \in Ports
    BY InventoryAssumption
  <2>3. [target |-> a, type |-> e[1], port |-> e[2], path |-> p] \in Check
    BY <2>2 DEF Check
  <2> QED BY <2>1, <2>3, CreateKeeps
<1>2. CASE \E d \in DeviceIds, ports \in PortSets : Discover(d, ports)
  BY <1>2, DiscoverKeeps
<1>3. CASE \E job \in JobIds, ids \in BoundedSeq(DeviceIds, MaxImport), group \in Groups :
             ids # <<>> /\ Import(job, ids, group)
  BY <1>3, ImportKeeps
<1>4. CASE UNCHANGED vars
  BY <1>4 DEF vars, IInv, Tables
<1> QED
  BY <1>1, <1>2, <1>3, <1>4 DEF Next

\* The tables refer to each other as they should, whatever is added, found and imported.
THEOREM Invariance == Spec => []IInv
  BY InitIInv, NextIInv, PTL DEF Spec

LEMMA IInvParts ==
    ASSUME IInv
    PROVE  TypeOK /\ NoTwins /\ ImportedIsMonitored /\ ImportsAudited
<1>1. /\ groups \in SUBSET Groups
      /\ machines \in Seq(Check) /\ devices \in [DeviceIds -> Devices \cup {None}]
      /\ members \in SUBSET ((DOMAIN machines) \X groups)
      /\ imports \in Seq(DOMAIN machines)
      /\ IsInjective(machines)
  BY DEF IInv, TablesOK, Tables
<1>2. ASSUME NEW d \in DeviceIds, devices[d] # None
      PROVE  IF devices[d].status = "imported"
             THEN /\ devices[d].machine \in DOMAIN machines
                  /\ machines[devices[d].machine] = CheckFor(d[2], devices[d].port)
                  /\ \E g \in groups : <<devices[d].machine, g>> \in members
             ELSE devices[d].machine = None
  BY <1>2 DEF IInv, TablesOK, Tables, DeviceOK
<1>3. ASSUME NEW m \in DOMAIN machines
      PROVE  Cardinality({i \in DOMAIN imports : imports[i] = m}) =
                 Cardinality({d \in DeviceIds : devices[d] # None /\ devices[d].machine = m})
  BY DEF IInv, TablesOK, Tables, AuditsOK, Owners, Audits
<1>4. TypeOK
  BY <1>1, <1>2 DEF TypeOK
<1>5. ImportedIsMonitored
  BY <1>2 DEF ImportedIsMonitored
<1> QED
  BY <1>1, <1>3, <1>4, <1>5 DEF NoTwins, ImportsAudited

\* The tables always have their types, and what a row refers to is there.
THEOREM TypeCorrect == Spec => []TypeOK
  BY Invariance, IInvParts, PTL

\* However machines come in, no two have the same check of the same target.
THEOREM TwinsNever == Spec => []NoTwins
  BY Invariance, IInvParts, PTL

\* Every imported device has a machine with its check, in a group.
THEOREM ImportedMonitored == Spec => []ImportedIsMonitored
  BY Invariance, IInvParts, PTL

\* Every imported device has one audit event, whatever forms name it and how often.
THEOREM ImportsAreAudited == Spec => []ImportsAudited
  BY Invariance, IInvParts, PTL
=============================================================================
