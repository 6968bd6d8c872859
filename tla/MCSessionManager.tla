-------------------------- MODULE MCSessionManager --------------------------
(***************************************************************************)
(* SessionManager for TLC: goroutines and names are interchangeable.       *)
(***************************************************************************)
EXTENDS SessionManager, TLC

Symmetry == Permutations(Threads) \cup Permutations(Sids)
=============================================================================
