----------------------------- MODULE Inventory -----------------------------
(***************************************************************************)
(* How machines get into the inventory: an operator adds one by hand       *)
(* (Create in src/internal/machines/store.go), or imports devices that     *)
(* discovery jobs have found into a group (RecordProbe and ImportDevices   *)
(* in src/internal/discovery/store.go).  Both ways look for a machine that *)
(* has the same check of the same target before they add one.              *)
(*                                                                         *)
(* Each operation is one transaction on the database's only connection, so *)
(* that a failing statement leaves no trace and none is seen half done.    *)
(* Machines are known by their position in the table, a device by its job  *)
(* and its address, which the table keeps unique.                          *)
(***************************************************************************)
EXTENDS Integers, Sequences, FiniteSets, SequencesExt

CONSTANTS
    Addresses,
    JobIds,
    PortSets,       \* the sets of open ports a probe may find
    Endpoints,      \* <<type, port>> an operator may enter; others are refused
    Paths,          \* the paths an operator may enter, "/" among them
    Groups,
    MaxMachines,    \* bounds the machines an operator adds
    MaxImport,      \* bounds the devices of one import
    None

Types == {"tcp", "http", "https"}
Ports == 1..65535

Check   == [target : Addresses, type : Types, port : Ports, path : Paths]
Devices == [port : Ports \cup {None}, status : {"new", "imported"}, machine : Nat \cup {None}]

ASSUME InventoryAssumption ==
    /\ \A ports \in PortSets : ports \subseteq Ports
    /\ Endpoints \subseteq Types \X Ports
    /\ "/" \in Paths
    /\ None \notin Nat /\ None \notin Devices
    /\ MaxMachines \in Nat /\ MaxImport \in Nat \ {0}

VARIABLES
    machines,   \* the tables machines and checks: one check for every machine
    devices,    \* devices[<<j, a>>]: the row of discovered_devices, or None
    groups,     \* the groups' names
    members,    \* the table machine_groups
    imports     \* the audit events "discovery.device_imported": the machines they name

vars == <<machines, devices, groups, members, imports>>

DeviceIds == JobIds \X Addresses

\* Every variable has its type, and the references between the tables hold.
TypeOK ==
    /\ machines \in Seq(Check)
    /\ devices \in [DeviceIds -> Devices \cup {None}]
    /\ \A d \in DeviceIds : devices[d] # None =>
        IF devices[d].status = "imported" THEN devices[d].machine \in DOMAIN machines
        ELSE devices[d].machine = None
    /\ groups \in SUBSET Groups
    /\ members \in SUBSET ((DOMAIN machines) \X groups)
    /\ imports \in Seq(DOMAIN machines)

Init ==
    /\ machines = <<>>
    /\ devices = [d \in DeviceIds |-> None]
    /\ groups = {}
    /\ members = {}
    /\ imports = <<>>

-----------------------------------------------------------------------------
(* An operator adds a machine *)

\* The machines that have the check already.
Same(table, check) == {i \in DOMAIN table : table[i] = check}

\* Mutant: the table is not searched first.
CreatableAlways(check) == TRUE

Creatable(check) == Same(machines, check) = {}

Create(check) ==
    /\ Len(machines) < MaxMachines
    /\ Creatable(check)
    /\ machines' = Append(machines, check)
    /\ UNCHANGED <<devices, groups, members, imports>>

-----------------------------------------------------------------------------
(* A discovery job finds a device *)

\* preferredPort: 443 before 80 before 22 before the smallest.
PreferredPort(ports) ==
    IF ports = {} THEN None
    ELSE IF ports \cap {22, 80, 443} # {} THEN Max(ports \cap {22, 80, 443})
    ELSE Min(ports)

\* The scanner reports an address at most once to a job.
Discover(d, ports) ==
    /\ devices[d] = None
    /\ devices' = [devices EXCEPT ![d] =
                    [port |-> PreferredPort(ports), status |-> "new", machine |-> None]]
    /\ UNCHANGED <<machines, groups, members, imports>>

-----------------------------------------------------------------------------
(* Devices are imported *)

\* checkForDetectedPort
CheckFor(address, port) ==
    [target |-> address,
     type |-> IF port = 80 THEN "http" ELSE IF port = 443 THEN "https" ELSE "tcp",
     port |-> IF port = None THEN 22 ELSE port,
     path |-> "/"]

\* Mutant: a machine that is there already is taken as it is, outside the group.
JoinedIfNew(t, m, group) ==
    IF m \in DOMAIN t.machines THEN t.members ELSE t.members \cup {<<m, group>>}

\* The machine is put into the group, if it is not there yet.
Joined(t, m, group) == t.members \cup {<<m, group>>}

\* The row of a device that is machine m from now on.
Imported(row, m) == [row EXCEPT !.status = "imported", !.machine = m]

\* One device: its machine is found or created, put into the group, and audited.
ImportOne(t, d, group) ==
    LET check == CheckFor(d[2], t.devices[d].port)
        found == Same(t.machines, check)
        m     == IF found # {} THEN Min(found) ELSE Len(t.machines) + 1
    IN  [machines |-> IF found # {} THEN t.machines ELSE Append(t.machines, check),
         devices  |-> [t.devices EXCEPT ![d] = Imported(@, m)],
         members  |-> Joined(t, m, group),
         imports  |-> Append(t.imports, m)]

\* Mutant: a device that was imported already is imported again.
ImportableAlways(t, job, d) == d[1] = job /\ t.devices[d] # None

\* Ids that are not of the job, and devices imported before, are passed over.
Importable(t, job, d) ==
    d[1] = job /\ t.devices[d] # None /\ t.devices[d].status # "imported"

\* The devices are imported in the order of the form.
ImportAll(before, job, ids, group) ==
    LET t[i \in 0..Len(ids)] ==
            IF i = 0 THEN before
            ELSE IF Importable(t[i - 1], job, ids[i]) THEN ImportOne(t[i - 1], ids[i], group)
            ELSE t[i - 1]
    IN  t[Len(ids)]

\* The group is there in any case.
Import(job, ids, group) ==
    LET after == ImportAll([machines |-> machines, devices |-> devices,
                            members |-> members, imports |-> imports], job, ids, group)
    IN  /\ groups' = groups \cup {group}
        /\ machines' = after.machines
        /\ devices' = after.devices
        /\ members' = after.members
        /\ imports' = after.imports

Next ==
    \/ \E a \in Addresses, e \in Endpoints, p \in Paths :
        Create([target |-> a, type |-> e[1], port |-> e[2], path |-> p])
    \/ \E d \in DeviceIds, ports \in PortSets : Discover(d, ports)
    \/ \E job \in JobIds, ids \in BoundedSeq(DeviceIds, MaxImport), group \in Groups :
        ids # <<>> /\ Import(job, ids, group)

Spec == Init /\ [][Next]_vars

-----------------------------------------------------------------------------
(* Properties *)

\* No two machines have the same check of the same target, however they came in: a
\* check is run for one of them and shown for both otherwise.
NoTwins == IsInjective(machines)

\* An imported device is monitored: its machine has its address and a check of the
\* port that was found, and is in a group.
ImportedIsMonitored ==
    \A d \in DeviceIds : devices[d] # None /\ devices[d].status = "imported" =>
        /\ machines[devices[d].machine] = CheckFor(d[2], devices[d].port)
        /\ \E g \in groups : <<devices[d].machine, g>> \in members

\* Every import of a device is audited, once, also when a form names it twice, two
\* forms name it, or its machine is there already.
ImportsAudited ==
    \A m \in DOMAIN machines :
        Cardinality({i \in DOMAIN imports : imports[i] = m}) =
            Cardinality({d \in DeviceIds : devices[d] # None /\ devices[d].machine = m})
=============================================================================
