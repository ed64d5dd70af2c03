------------------------------ MODULE Identity -----------------------------
(***************************************************************************)
(* What the discovery page says of the identity of the devices it shows:   *)
(* classifyIdentityGroups of src/internal/discovery/identity.go, over the  *)
(* fingerprints that the identity probes took.                             *)
(*                                                                         *)
(* Devices are a function on their addresses, whose order is that of the   *)
(* page.  A probe takes at most one fingerprint of each kind: the hash of  *)
(* the SSH host keys it could capture, which is that set here, and the     *)
(* certificate of one port.                                                *)
(***************************************************************************)
EXTENDS Naturals, FiniteSets

CONSTANTS
    Keys,       \* SSH host keys
    Certs,      \* certificates, each with the port it was presented at
    NoCert

ASSUME IdentityAssumption == NoCert \notin Certs

Fingerprints == [ssh : SUBSET Keys, tls : Certs \cup {NoCert}]

\* A fingerprint of a kind that was not taken.
Absent == [ssh |-> {}, tls |-> NoCert]

\* Mutant: the hash of no keys is a fingerprint.
HasAlways(device, kind) == TRUE

Has(device, kind) == device[kind] # Absent[kind]

\* The devices with each of the fingerprints of a kind, where there are two at least.
MatchingGroups(devices, kind) ==
    LET GroupOf(a) == {b \in DOMAIN devices : devices[b][kind] = devices[a][kind]}
    IN  {GroupOf(a) : a \in {b \in DOMAIN devices :
                                /\ Has(devices[b], kind)
                                /\ Cardinality(GroupOf(b)) > 1}}

First(group) == CHOOSE a \in group : \A b \in group : a <= b

\* The groups' numbers on the page, in the order of their first devices.
NumberOf(devices, group) ==
    Cardinality({g \in MatchingGroups(devices, "ssh") : First(g) <= First(group)})

SharesCertificate(devices, group) ==
    \E cert \in Certs : \A a \in group : devices[a].tls = cert

\* Nothing is said of differing keys as soon as one device of the group has none.
DifferentKeys(devices, group) ==
    /\ \A a \in group : devices[a].ssh # {}
    /\ Cardinality({devices[a].ssh : a \in group}) > 1

DefaultHint(device) == [says |-> IF device = Absent THEN "no data" ELSE "unique"]

SSHHint(devices, group) ==
    [says |-> "same VM", number |-> NumberOf(devices, group),
     size |-> Cardinality(group), tls |-> SharesCertificate(devices, group)]

TLSHint(devices, group) ==
    [says |-> IF DifferentKeys(devices, group) THEN "keys differ" ELSE "shared service",
     size |-> Cardinality(group)]

\* Mutant: the loop over the TLS groups does not look at assignedSSH.
SSHFirstNot(inSSH, inTLS) == inTLS = {}

\* Whether a device of these groups gets the hint of its SSH group.
SSHFirst(inSSH, inTLS) == inSSH # {}

\* The hint beside device a.
HintOf(devices, a) ==
    LET In(kind) == {g \in MatchingGroups(devices, kind) : a \in g}
    IN  IF In("ssh") # {} /\ SSHFirst(In("ssh"), In("tls"))
        THEN SSHHint(devices, CHOOSE g \in In("ssh") : TRUE)
        ELSE IF In("tls") # {}
             THEN TLSHint(devices, CHOOSE g \in In("tls") : TRUE)
             ELSE DefaultHint(devices[a])

\* The page says of two devices that they are the same machine.
Merged(devices, a, b) ==
    /\ HintOf(devices, a).says = "same VM"
    /\ HintOf(devices, a) = HintOf(devices, b)
=============================================================================
