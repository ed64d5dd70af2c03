------------------------------ MODULE MCSurvey ------------------------------
(***************************************************************************)
(* Addresses of six bits in networks of eight, the seventh of them         *)
(* multicast, the third and sixth local.  Of four addresses of one network *)
(* two have the same keys, the others one each of these; three present the *)
(* same certificate.                                                       *)
(***************************************************************************)
EXTENDS Survey

CONSTANTS k1, k2, cert

MCMulticast == 48..55
MCLocal     == 16..23 \cup 40..47
MCSensitive == {42}
MCKeys      == {k1, k2}
MCCerts     == {cert}
MCHostKeys  == [a \in 17..20 |-> CASE a \in {17, 19} -> {k1, k2} [] a = 18 -> {k1}
                                   [] a = 20 -> {k2}]
MCHostCert  == [a \in 17..20 |-> IF a = 17 THEN NoCert ELSE cert]
MCNics      == {i \in Interfaces : i.address \in {5, 16, 18, 23, 42}}
=============================================================================
