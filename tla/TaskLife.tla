------------------------------ MODULE TaskLife ------------------------------
(***************************************************************************)
(* What the task controller promises the job controller: the life of a     *)
(* KusciaTask as its status tells it at the API server.                    *)
(***************************************************************************)
VARIABLES phase,
          done    \* the completion time is set

None == "none"
Finished == {"Succeeded", "Failed"}

Init == phase \in {None, "Pending"} /\ done = FALSE

\* The job controller, or a user, creates, stops and deletes the task.  A stop
\* may come to a task that has succeeded.
Create == phase = None /\ phase' = "Pending" /\ UNCHANGED done
Stop == phase # None /\ phase' = "Failed" /\ UNCHANGED done
Delete == phase' = None /\ done' = FALSE

\* The task controller takes the task to its end, then completes it.
Start == phase = "Pending" /\ phase' \in {"Running", "Failed"} /\ UNCHANGED done
End == phase = "Running" /\ phase' \in Finished /\ UNCHANGED done
Complete == phase \in Finished /\ done' = TRUE /\ UNCHANGED phase

Next == Create \/ Stop \/ Delete \/ Start \/ End \/ Complete

Spec == Init /\ [][Next]_<<phase, done>>
=============================================================================
