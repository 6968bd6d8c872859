------------------------- MODULE MCKusciaScheduling -------------------------
(***************************************************************************)
(* KusciaScheduling for TLC: pods and nodes are interchangeable.           *)
(***************************************************************************)
EXTENDS KusciaScheduling, TLC

Symmetry == Permutations(Pods) \cup Permutations(Nodes)
=============================================================================
