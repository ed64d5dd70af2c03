---------------------------- MODULE MCSessions -----------------------------
(***************************************************************************)
(* Two requests at a time over three tokens.  A second has four instants,  *)
(* whose texts end in Z, .01Z, .1Z and .11Z, and a session lasts five of   *)
(* them, so that it begins and expires at any fraction.                    *)
(***************************************************************************)
EXTENDS Sessions, TLC

CONSTANTS c1, c2, t1, t2, t3

TwoClients  == {c1, c2}
ThreeTokens == {t1, t2, t3}

\* The runs check safety only.
NameSymmetry == Permutations(TwoClients) \cup Permutations(ThreeTokens)
=============================================================================
