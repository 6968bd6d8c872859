--------------------------- MODULE MCPortProvider ---------------------------
(***************************************************************************)
(* PortProvider for TLC: two short segments, tasks with one party in the   *)
(* namespace.                                                              *)
(***************************************************************************)
EXTENDS PortProvider, TLC

CONSTANTS a, b

MCSegments == << [min |-> 1, max |-> 3], [min |-> 5, max |-> 7] >>
OneEach == {{a}, {b}}
=============================================================================
