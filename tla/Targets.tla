------------------------------ MODULE Targets ------------------------------
(***************************************************************************)
(* What a discovery form may name, and which addresses that makes the      *)
(* scanner visit: ParseTarget and LocalCIDRs of                            *)
(* src/internal/discovery/scanner.go.                                      *)
(*                                                                         *)
(* An IPv4 address is its number, below 2^Width (the code: 32), and a text *)
(* is what it parses to: one address, a range or a prefix, or nothing the  *)
(* scanner can use (IPv6, malformed).                                      *)
(***************************************************************************)
EXTENDS Integers, Sequences, SequencesExt

CONSTANTS
    Width,              \* 32
    MinimumPrefixBits,  \* 24
    MaximumAddresses,   \* 256
    Multicast,          \* 224.0.0.0/4
    Local,              \* private and link-local addresses
    Sensitive           \* the addresses netpolicy names

Addresses == 0..(2^Width - 1)
Bits == 0..Width

Forms ==
    [kind : {"address"}, start : Addresses]
        \cup [kind : {"range"}, start : Addresses, end : Addresses]
        \cup [kind : {"prefix"}, start : Addresses, bits : Bits]
        \cup [kind : {"other"}]

\* The number of the network of that many bits that an address is in.
NetworkOf(a, bits) == a \div 2^(Width - bits)

\* The widest prefix is as large as a range may be; multicast and local addresses are
\* whole networks, and 0.0.0.0 is in neither.
ASSUME TargetsAssumption ==
    /\ Width \in Nat /\ MinimumPrefixBits \in 2..(Width - 2)
    /\ MaximumAddresses = 2^(Width - MinimumPrefixBits)
    /\ \A S \in {Multicast, Local} :
        /\ S \subseteq Addresses \ {0}
        /\ \A a \in S, b \in Addresses :
            NetworkOf(a, MinimumPrefixBits) = NetworkOf(b, MinimumPrefixBits) => b \in S
    /\ Multicast \cap Local = {}
    /\ Sensitive \subseteq Addresses

Masked(a, bits) == NetworkOf(a, bits) * 2^(Width - bits)

Scannable(a) == a # 0 /\ a \notin Multicast

\* The loops over address.Next().
Walk(first, last) == [i \in 1..(last - first + 1) |-> first + i - 1]

\* Networks of up to 30 bits lose their first and last address.
HostsOf(base, bits) ==
    LET all == Walk(base, base + 2^(Width - bits) - 1)
    IN  IF bits <= Width - 2 THEN SubSeq(all, 2, Len(all) - 1) ELSE all

\* Mutant: the addresses are counted before the last one is added.
WithinLimitBut(start, end) == end - start <= MaximumAddresses

WithinLimit(start, end) == end - start < MaximumAddresses

\* The addresses of a form, or none if it is no target.
ParseTarget(form) ==
    CASE form.kind = "address" ->
            IF Scannable(form.start) THEN <<form.start>> ELSE <<>>
      [] form.kind = "range" ->
            IF /\ Scannable(form.start) /\ Scannable(form.end)
               /\ form.start <= form.end
               /\ WithinLimit(form.start, form.end)
            THEN Walk(form.start, form.end) ELSE <<>>
      [] form.kind = "prefix" ->
            IF /\ form.bits >= MinimumPrefixBits
               /\ Scannable(Masked(form.start, form.bits))
            THEN HostsOf(Masked(form.start, form.bits), form.bits) ELSE <<>>
      [] form.kind = "other" -> <<>>

\* Start refuses sensitive addresses unless they are allowed.
Refused(form, allowed) ==
    \/ ParseTarget(form) = <<>>
    \/ ~allowed /\ Range(ParseTarget(form)) \cap Sensitive # {}

-----------------------------------------------------------------------------
(* Suggestions *)

Interfaces == [address : Addresses, bits : Bits, up : BOOLEAN, loopback : BOOLEAN]

\* Mutant: the interface's own prefix is suggested.
SuggestedBitsOwn(interface) == interface.bits

SuggestedBits(interface) ==
    IF interface.bits < MinimumPrefixBits THEN MinimumPrefixBits ELSE interface.bits

Suggestion(interface) ==
    [kind |-> "prefix", bits |-> SuggestedBits(interface),
     start |-> Masked(interface.address, SuggestedBits(interface))]

\* The networks the page suggests to a server with these interfaces.
LocalCIDRs(interfaces) ==
    {Suggestion(i) : i \in {j \in interfaces :
                                j.up /\ ~j.loopback /\ j.address \in Local}}
=============================================================================
