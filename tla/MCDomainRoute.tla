--------------------------- MODULE MCDomainRoute ---------------------------
(***************************************************************************)
(* A route between two domains with one or two gateways each.              *)
(***************************************************************************)
EXTENDS DomainRoute, TLC

CONSTANTS s1, s2, d1, d2

OneSrc == {s1}
TwoSrc == {s1, s2}
OneDst == {d1}
TwoDst == {d1, d2}
DstSymmetry == Permutations(TwoDst)
=============================================================================
