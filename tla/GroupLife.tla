----------------------------- MODULE GroupLife -----------------------------
(***************************************************************************)
(* What the co-scheduling controller promises the task controller: the     *)
(* life of a TaskResourceGroup.  All phases before it is granted or failed *)
(* are Reserving, however many rounds it takes.                            *)
(***************************************************************************)
VARIABLE phase

None == "none"

Init == phase \in {None, "Reserving"}

\* The task controller creates the group and deletes it.
Create == phase = None /\ phase' = "Reserving"
Delete == phase' = None

\* The controller grants it, or fails it.  The task controller, which fails the
\* group of a failed task, may have read an older version than the granted one.
Grant == phase = "Reserving" /\ phase' = "Reserved"
Fail == phase # None /\ phase' = "Failed"

Next == Create \/ Delete \/ Grant \/ Fail

Spec == Init /\ [][Next]_phase
=============================================================================
