------------------------------- MODULE Survey -------------------------------
(***************************************************************************)
(* A discovery as its operator sees it (src/internal/discovery): the page  *)
(* suggests networks, a form names a target, and while the job runs the    *)
(* page shows the devices recorded so far and what their fingerprints say  *)
(* of them.  How the scanner gets the results to the store is the subject  *)
(* of Scanner and Discovery; here they come in any order.                  *)
(*                                                                         *)
(* The network is given: an address that answers has SSH host keys and a   *)
(* certificate.  Every one of the three handshakes that capture keys may   *)
(* time out, as may that for the certificate.                              *)
(***************************************************************************)
EXTENDS Targets, Identity

CONSTANTS
    HostKeys,   \* HostKeys[a]: the host keys at address a, where something answers
    HostCert,   \* HostCert[a]: the certificate there, or NoCert
    Nics,       \* interfaces the server may have
    NoForm

ASSUME NetworkAssumption ==
    /\ DOMAIN HostKeys \subseteq Addresses
    /\ HostKeys \in [DOMAIN HostKeys -> SUBSET Keys]
    /\ HostCert \in [DOMAIN HostKeys -> Certs \cup {NoCert}]
    /\ Nics \subseteq Interfaces
    /\ NoForm \notin Forms

VARIABLES
    allowed,     \* whether sensitive targets are allowed
    interfaces,  \* those of the server as the page was rendered
    form,        \* the form that was submitted
    scanned,     \* the addresses of the job, in order; none if the form was refused
    devices      \* the fingerprints of the devices recorded so far

vars == <<allowed, interfaces, form, scanned, devices>>

\* Every variable has its type; devices are those of the job.
TypeOK ==
    /\ allowed \in BOOLEAN
    /\ interfaces \subseteq Nics
    /\ form \in Forms \cup {NoForm}
    /\ scanned \in Seq(Addresses)
    /\ DOMAIN devices \subseteq Range(scanned) \cap DOMAIN HostKeys
    /\ devices \in [DOMAIN devices -> Fingerprints]

Init ==
    /\ allowed \in BOOLEAN
    /\ interfaces = {}
    /\ form = NoForm
    /\ scanned = <<>>
    /\ devices = <<>>

\* The page is rendered.
Suggest(I) ==
    /\ form = NoForm
    /\ interfaces' = I
    /\ UNCHANGED <<allowed, form, scanned, devices>>

\* The form is submitted: the job is started with its addresses, or refused.
Start(f) ==
    /\ form = NoForm
    /\ form' = f
    /\ scanned' = IF Refused(f, allowed) THEN <<>> ELSE ParseTarget(f)
    /\ interfaces' = {}
    /\ UNCHANGED <<allowed, devices>>

\* The keys a probe may capture: those whose handshakes succeed in time.
Taken(a) == SUBSET HostKeys[a]

\* A device has answered, and is recorded with the fingerprints that were taken.
RecordProbe(a) ==
    /\ a \in (Range(scanned) \cap DOMAIN HostKeys) \ DOMAIN devices
    /\ \E ssh \in Taken(a), tls \in {HostCert[a], NoCert} :
        devices' = [b \in DOMAIN devices \cup {a} |->
                      IF b = a THEN [ssh |-> ssh, tls |-> tls] ELSE devices[b]]
    /\ UNCHANGED <<allowed, interfaces, form, scanned>>

\* The operator goes on to another discovery.
Leave ==
    /\ form # NoForm
    /\ form' = NoForm /\ scanned' = <<>> /\ devices' = <<>>
    /\ UNCHANGED <<allowed, interfaces>>

Next ==
    \/ \E i \in Nics : Suggest({i})
    \/ \E f \in Forms : Start(f)
    \/ \E a \in Addresses : RecordProbe(a)
    \/ Leave

Spec == Init /\ [][Next]_vars

-----------------------------------------------------------------------------
(* Properties *)

\* What a form names, by its meaning: an address; the addresses between two; those whose
\* first bits are the prefix's, without the network's own and its broadcast address
\* where it has them.
Named(f) ==
    CASE f.kind = "address" -> {f.start}
      [] f.kind = "range"   -> {a \in Addresses : f.start <= a /\ a <= f.end}
      [] f.kind = "prefix"  ->
            LET network == {a \in Addresses : NetworkOf(a, f.bits) = NetworkOf(f.start, f.bits)}
                inside(a) == a - 1 \in network /\ a + 1 \in network
            IN  IF Width - f.bits < 2 THEN network ELSE {a \in network : inside(a)}
      [] OTHER -> {}

\* A job visits what the form names, each address once and at most MaximumAddresses of
\* them; no address that must not be scanned gets into it from within a range or a network;
\* and a form that names up to that many permitted addresses is not refused, but for
\* the network 0.0.0.0.
ScannedIsNamed ==
    form # NoForm =>
        LET named == Named(form)
            permitted == /\ named # {} /\ Cardinality(named) <= MaximumAddresses
                         /\ named \cap ({0} \cup Multicast) = {}
                         /\ allowed \/ named \cap Sensitive = {}
        IN  IF scanned # <<>>
            THEN permitted /\ Range(scanned) = named /\ Len(scanned) = Cardinality(named)
            ELSE permitted => NetworkOf(form.start, MinimumPrefixBits) = 0

\* What the page suggests is accepted unless it is sensitive, stays within the network of
\* an interface, and contains the interface's address if that is a host's.
SuggestionsAccepted ==
    \A i \in interfaces :
        i.up /\ ~i.loopback /\ i.address \in Local =>
            \E f \in LocalCIDRs(interfaces) :
                LET target == Range(ParseTarget(f))
                IN  /\ ~Refused(f, TRUE)
                    /\ \A a \in target : NetworkOf(a, i.bits) = NetworkOf(i.address, i.bits)
                    /\ \/ i.address \in target
                       \/ {i.address - 1, i.address + 1} \cap target # {}

\* Where all host keys of two addresses were captured, they are shown as the same machine
\* just if the sets of their keys are the same, so that one cloned key among several does
\* not group them.  Where a handshake failed, the keys that are left count as all of them:
\* machines that differ in what was missed are grouped then, although docs/poc.md says
\* that comparing the sets avoids this.  What remains is that without a host key in common
\* no two are grouped.
KeySetsTellApart ==
    \A a, b \in DOMAIN devices :
        LET whole == devices[a].ssh = HostKeys[a] /\ devices[b].ssh = HostKeys[b]
        IN  a # b =>
            /\ whole => (Merged(devices, a, b) <=> HostKeys[a] = HostKeys[b] /\ HostKeys[a] # {})
            /\ Merged(devices, a, b) => HostKeys[a] \cap HostKeys[b] # {}

\* While a job runs, devices that were shown as the same machine remain so, whatever
\* else is found and however the groups are renumbered.
StaysMerged ==
    [][form' = form =>
        \A a, b \in DOMAIN devices : Merged(devices, a, b) => Merged(devices', a, b)]_vars
=============================================================================
