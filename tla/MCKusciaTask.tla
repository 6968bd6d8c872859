---------------------------- MODULE MCKusciaTask ----------------------------
(***************************************************************************)
(* A task of two parties: this cluster runs one, in one pod, the other     *)
(* runs elsewhere; one of them has to succeed.                             *)
(***************************************************************************)
EXTENDS KusciaTask

CONSTANTS a, b, p1

OwnParty == {a}
OtherParty == {b}
OnePod == {p1}
OwnerOf == [p \in OnePod |-> a]
MinPods == [q \in {a} |-> 1]
=============================================================================
