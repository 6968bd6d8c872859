-------------------------- MODULE KusciaJob_proofs --------------------------
(***************************************************************************)
(* For every set of tasks, spec of the job, lag of the listers and bound   *)
(* on commands and faults:                                                 *)
(*  - the types hold, and a job that is Succeeded, Cancelled or            *)
(*    ApprovalReject stays so: a status is written only on the version it  *)
(*    was computed from, and all other writers copy the phase or leave     *)
(*    finished jobs alone (IInv);                                          *)
(*  - until a restart deletes tasks, what status.taskStatus and the lister *)
(*    say of ended tasks is so, tasks are created in the order of their    *)
(*    dependencies, and one at a time when maxParallelism is 1 (Trust).    *)
(***************************************************************************)
EXTENDS KusciaJob, TLAPS

\* A nonempty queue of versions: its head, and what is left when it is taken.
LEMMA HeadAndTail ==
  ASSUME NEW S, NEW s \in Seq(S), s # <<>>
  PROVE  /\ Head(s) \in S /\ Head(s) = s[1] /\ Tail(s) \in Seq(S)
         /\ Len(s) \in Nat \ {0} /\ Len(Tail(s)) = Len(s) - 1
         /\ \A i \in 1..Len(Tail(s)) : Tail(s)[i] = s[i + 1]
         /\ (IF Tail(s) = <<>> THEN Head(s) ELSE Tail(s)[Len(Tail(s))]) = s[Len(s)]
<1>1. /\ Head(s) \in S /\ Head(s) = s[1] /\ Tail(s) \in Seq(S)
      /\ Len(s) \in Nat \ {0} /\ Len(Tail(s)) = Len(s) - 1
      /\ \A i \in 1..Len(Tail(s)) : Tail(s)[i] = s[i + 1]
  OBVIOUS
<1> DEFINE t == Tail(s)
<1>2. t \in Seq(S)
  BY <1>1, Zenon
<1>. HIDE DEF t
<1>3. t = <<>> <=> Len(t) = 0
  BY <1>2
<1>. QED BY <1>1, <1>3 DEF t

JobTypes ==
  /\ jobCache \in Job /\ jobEvents \in Seq(Job) /\ Len(jobEvents) <= JobLag
  /\ base \in Job /\ next \in Job
TaskTypes ==
  /\ tasks \in [Tasks -> TaskPhases] /\ taskCache \in [Tasks -> TaskPhases]
  /\ taskEvents \in Seq(Tasks \X TaskPhases) /\ Len(taskEvents) <= TaskLag
ControlTypes ==
  /\ spec \in Specs
  /\ op \in {"idle", "create", "stop", "delete"} /\ todo \in SUBSET Tasks
  /\ queued \in BOOLEAN /\ fresh \in BOOLEAN /\ restarted \in BOOLEAN
CountTypes ==
  /\ requeues \in 0..maxRetries /\ commands \in 0..MaxCommands /\ faults \in 0..MaxFaults

\* A worker in a loop read a version that was to be reconciled and, as long as
\* fresh says so, that version is still the API server's.
BaseInv ==
  op # "idle" => /\ ShouldReconcile(base)
                 /\ fresh => jobEvents = <<>> /\ jobCache = base

IInv == JobTypes /\ TaskTypes /\ ControlTypes /\ CountTypes /\ BaseInv

\* IInv is TypeOK and BaseInv.
LEMMA InvTypes == IInv => TypeOK
  BY Zenon DEF IInv, TypeOK, JobTypes, TaskTypes, ControlTypes, CountTypes

LEMMA LatestType == ASSUME JobTypes PROVE Latest \in Job
  BY DEF JobTypes, Latest

\* What WriteJob does to the versions.
LEMMA WriteJobEffect ==
  ASSUME JobTypes, NEW v \in Job, WriteJob(v)
  PROVE  /\ jobCache' \in Job /\ jobEvents' \in Seq(Job) /\ Len(jobEvents') <= JobLag
         /\ Latest' = v /\ fresh' = FALSE
         /\ UNCHANGED <<tasks, taskCache, taskEvents>>
<1>1. jobEvents' = Append(jobEvents, v) /\ Len(jobEvents) < JobLag /\ fresh' = FALSE
      /\ UNCHANGED <<jobCache, tasks, taskCache, taskEvents>>
  BY Zenon DEF WriteJob
<1>2. jobEvents' \in Seq(Job) /\ Len(jobEvents') = Len(jobEvents) + 1
      /\ jobEvents'[Len(jobEvents')] = v /\ jobEvents' # <<>>
  BY <1>1 DEF JobTypes
<1>. QED BY <1>1, <1>2, BoundsAssumption DEF JobTypes, Latest

\* The same for a task.
LEMMA WriteTaskEffect ==
  ASSUME TaskTypes, NEW t \in Tasks, NEW ph \in TaskPhases, WriteTask(t, ph)
  PROVE  TaskTypes' /\ UNCHANGED <<jobCache, jobEvents, fresh>>
<1>1. taskEvents' = Append(taskEvents, <<t, ph>>) /\ Len(taskEvents) < TaskLag
      /\ tasks' = [tasks EXCEPT ![t] = ph] /\ UNCHANGED <<jobCache, jobEvents, taskCache, fresh>>
  BY Zenon DEF WriteTask
<1>2. taskEvents' \in Seq(Tasks \X TaskPhases) /\ Len(taskEvents') = Len(taskEvents) + 1
  BY <1>1 DEF TaskTypes
<1>. QED BY <1>1, <1>2, BoundsAssumption DEF TaskTypes

\* The versions the handlers write are jobs.
LEMMA VersionTypes ==
  ASSUME NEW j \in Job
  PROVE  /\ \A ph \in JobPhases, d \in BOOLEAN, o \in PartyStages, ts \in [Tasks -> TaskPhases] :
              [j EXCEPT !.phase = ph, !.done = d, !.own = o, !.tasks = ts] \in Job
         /\ \A st \in Stages : [j EXCEPT !.stage = st] \in Job
         /\ [j EXCEPT !.annotated = TRUE] \in Job
         /\ [j EXCEPT !.ids = TRUE] \in Job
         /\ \A p \in Partners, st \in PartyStages : [j EXCEPT !.partner[p] = st] \in Job
         /\ \A p \in Partners, a \in {None, "accepted", "rejected"} : [j EXCEPT !.approve[p] = a] \in Job
  BY Zenon DEF Job

LEMMA ToFailedType ==
  ASSUME NEW s \in [Tasks -> TaskPhases]
  PROVE  setRunningTaskStatusToFailed(s) \in [Tasks -> TaskPhases]
  BY Zenon DEF setRunningTaskStatusToFailed, TaskPhases

LEMMA NewJobType == ASSUME NEW s \in Specs PROVE NewJob(s) \in Job
<1>1. s.givenIDs \in BOOLEAN BY SpecsAssumption, Zenon DEF JobSpec
<1>. QED BY <1>1, Zenon DEF NewJob, Job, JobPhases, Stages, PartyStages, TaskPhases

(***************************************************************************)
(* What every step does to the job, by the way it writes it.               *)
(***************************************************************************)
\* A step keeps the invariant and the phase of a finished job.
Safe == IInv' /\ (~ShouldReconcile(Latest) => Latest'.phase = Latest.phase)

\* A step that does not begin a loop.
Control ==
  /\ spec' = spec /\ restarted' \in BOOLEAN /\ commands' \in 0..MaxCommands
  /\ queued' \in BOOLEAN /\ requeues' \in 0..maxRetries /\ faults' \in 0..MaxFaults
  /\ \/ op' = op /\ base' = base /\ next' \in Job /\ todo' \in SUBSET Tasks
     \/ Return

LEMMA ControlTyped ==
  ASSUME IInv, Control
  PROVE  /\ base' \in Job /\ next' \in Job /\ CountTypes'
         /\ (fresh' \in BOOLEAN => ControlTypes')
         /\ op' # "idle" => op' = op /\ base' = base
<1>1. CASE Return
  <2>1. NewJob(spec) \in Job BY NewJobType, Zenon DEF IInv, ControlTypes
  <2>. QED BY <1>1, <2>1, Zenon DEF Return, Control, IInv, ControlTypes, CountTypes
<1>2. CASE op' = op /\ base' = base /\ next' \in Job /\ todo' \in SUBSET Tasks
  BY <1>2, Zenon DEF Control, IInv, ControlTypes, CountTypes, JobTypes
<1>. QED BY <1>1, <1>2, Zenon DEF Control

LEMMA Written ==
  ASSUME IInv, Control, NEW v \in Job, WriteJob(v),
         ShouldReconcile(Latest) \/ v.phase = Latest.phase
  PROVE  Safe
<1>1. /\ jobCache' \in Job /\ jobEvents' \in Seq(Job) /\ Len(jobEvents') <= JobLag
      /\ Latest' = v /\ fresh' = FALSE /\ UNCHANGED <<tasks, taskCache, taskEvents>>
  BY WriteJobEffect, Zenon DEF IInv
<1>2. JobTypes' /\ TaskTypes' /\ ControlTypes' /\ CountTypes'
  BY <1>1, ControlTyped, Zenon DEF IInv, JobTypes, TaskTypes
<1>3. BaseInv' BY <1>1, ControlTyped, Zenon DEF IInv, BaseInv, ShouldReconcile
<1>. QED BY <1>1, <1>2, <1>3, Zenon DEF Safe, IInv

LEMMA Kept ==
  ASSUME IInv, Control, UNCHANGED <<jobCache, jobEvents, fresh>>, TaskTypes'
  PROVE  Safe
<1>1. Latest' = Latest BY Zenon DEF Latest
<1>2. JobTypes' /\ ControlTypes' /\ CountTypes'
  BY ControlTyped, Zenon DEF IInv, JobTypes, ControlTypes
<1>3. BaseInv' BY ControlTyped, Zenon DEF IInv, BaseInv, ShouldReconcile
<1>. QED BY <1>1, <1>2, <1>3, Zenon DEF Safe, IInv

LEMMA KeepJobKept ==
  ASSUME IInv, KeepJob
  PROVE  UNCHANGED <<jobCache, jobEvents, fresh>> /\ TaskTypes'
  BY Zenon DEF IInv, KeepJob, objects, TaskTypes

LEMMA Queued ==
  ASSUME IInv, NEW q \in BOOLEAN, Requeue(q) \/ Forget(q)
  PROVE  queued' \in BOOLEAN /\ requeues' \in 0..maxRetries
<1>1. CASE Forget(q) BY <1>1, BoundsAssumption DEF Forget
<1>2. CASE Requeue(q)
  <2>1. requeues \in 0..maxRetries BY Zenon DEF IInv, CountTypes
  <2>2. CASE requeues < maxRetries
    <3>1. requeues' = requeues + 1 /\ queued' = TRUE BY <1>2, <2>2, Zenon DEF Requeue
    <3>2. requeues' \in 0..maxRetries BY <3>1, <2>1, <2>2, BoundsAssumption
    <3>. QED BY <3>1, <3>2, Zenon
  <2>3. CASE ~(requeues < maxRetries) BY <1>1, <1>2, <2>3, Zenon DEF Requeue
  <2>. QED BY <2>2, <2>3, Zenon
<1>. QED BY <1>1, <1>2, Zenon

LEMMA Faulted ==
  ASSUME IInv, Fault \/ UNCHANGED faults
  PROVE  faults' \in 0..MaxFaults
  BY BoundsAssumption DEF IInv, CountTypes, Fault

\* What a step may do besides writing the job, counting a fault and queueing.
Aside ==
  /\ spec' = spec /\ restarted' \in BOOLEAN /\ commands' \in 0..MaxCommands
  /\ \/ op' = op /\ base' = base /\ next' \in Job /\ todo' \in SUBSET Tasks
     \/ Return

\* A status is written on the version it was computed from.
LEMMA StatusSafe ==
  ASSUME IInv, Aside, NEW v \in Job, NEW current \in BOOLEAN, NEW q \in BOOLEAN,
         UpdateStatus(v, current, q), current => ShouldReconcile(Latest)
  PROVE  Safe
<1>1. Control
  <2>1. Requeue(q) \/ Forget(q) BY Zenon DEF UpdateStatus
  <2>2. Fault \/ UNCHANGED faults BY Zenon DEF UpdateStatus
  <2>. QED BY <2>1, <2>2, Queued, Faulted, Zenon DEF Control, Aside
<1>2. (WriteJob(v) /\ current) \/ KeepJob BY Zenon DEF UpdateStatus
<1>. QED BY <1>1, <1>2, Written, Kept, KeepJobKept, Zenon

LEMMA ErrorSafe ==
  ASSUME IInv, Aside, NEW v \in Job, NEW current \in BOOLEAN, NEW q \in BOOLEAN,
         SyncError(v, current, q), Fault \/ UNCHANGED faults,
         current => ShouldReconcile(Latest)
  PROVE  Safe
<1>1. Control
  <2>1. Requeue(q) \/ Forget(q) BY Zenon DEF SyncError
  <2>. QED BY <2>1, Queued, Faulted, Zenon DEF Control, Aside
<1>2. (WriteJob(failKusciaJob(v)) /\ current) \/ KeepJob BY Zenon DEF SyncError
<1>3. failKusciaJob(v) \in Job BY Zenon DEF failKusciaJob, Job, JobPhases
<1>. QED BY <1>1, <1>2, <1>3, Written, Kept, KeepJobKept, Zenon
LEMMA BeginSafe ==
  ASSUME IInv, Dequeue, NEW o \in {"create", "stop", "delete"}, NEW ts \in SUBSET Tasks,
         NEW v \in Job, Begin(o, ts, v), ShouldReconcile(jobCache)
  PROVE  Safe
<1>1. /\ op' = o /\ todo' = ts /\ base' = jobCache /\ next' = v
      /\ fresh' = (jobEvents = <<>>) /\ queued' = FALSE
      /\ UNCHANGED <<jobCache, jobEvents, tasks, taskCache, taskEvents, requeues, faults, spec, commands>>
      /\ restarted' = (restarted \/ jobCache.stage = "restart")
  BY Zenon DEF Begin, Dequeue, objects
<1>2. Latest' = Latest BY <1>1, Zenon DEF Latest
<1>3. JobTypes' /\ TaskTypes' /\ CountTypes'
  BY <1>1, Zenon DEF IInv, JobTypes, TaskTypes, CountTypes
<1>4. ControlTypes' BY <1>1, Zenon DEF IInv, ControlTypes
<1>5. BaseInv' BY <1>1, Zenon DEF BaseInv, ShouldReconcile
<1>. QED BY <1>2, <1>3, <1>4, <1>5, Zenon DEF Safe, IInv

\* A handler without a loop.
LEMMA DequeueAside ==
  ASSUME IInv, Dequeue, UNCHANGED worker
  PROVE  Aside
<1>1. restarted' \in BOOLEAN BY Zenon DEF Dequeue
<1>. QED BY <1>1, Zenon DEF IInv, Dequeue, worker, Aside, ControlTypes, CountTypes, JobTypes

LEMMA SaveSafe ==
  ASSUME IInv, Dequeue, UNCHANGED worker, NEW v \in Job, Save(v), ShouldReconcile(jobCache)
  PROVE  Safe
<1>1. Aside BY DequeueAside, Zenon
<1>2. UpdateStatus(v, jobEvents = <<>>, FALSE) BY Zenon DEF Save
<1>3. (jobEvents = <<>>) => ShouldReconcile(Latest) BY Zenon DEF Latest
<1>. QED BY <1>1, <1>2, <1>3, StatusSafe, Zenon

LEMMA NoUpdateSafe ==
  ASSUME IInv, Dequeue, UNCHANGED worker, NoUpdate
  PROVE  Safe
<1>1. Aside BY DequeueAside, Zenon
<1>2. KeepJob /\ Forget(FALSE) /\ UNCHANGED faults BY Zenon DEF NoUpdate
<1>3. Control BY <1>1, <1>2, Queued, Faulted, Zenon DEF Control, Aside
<1>. QED BY <1>2, <1>3, Kept, KeepJobKept, Zenon

(***************************************************************************)
(* The handlers.                                                           *)
(***************************************************************************)
LEMMA CommandSafe ==
  ASSUME IInv,
         \/ handleStageCmdStart \/ handleStageCmdStop \/ handleStageCmdCancelled
         \/ handleStageCmdSuspend \/ handleStageCmdRestart \/ handleRestartWait
  PROVE  Safe
<1>0. jobCache \in Job /\ jobCache.tasks \in [Tasks -> TaskPhases]
      /\ setRunningTaskStatusToFailed(jobCache.tasks) \in [Tasks -> TaskPhases]
      /\ unfinished(jobCache) \in SUBSET Tasks
  <2>1. jobCache \in Job BY Zenon DEF IInv, JobTypes
  <2>2. jobCache.tasks \in [Tasks -> TaskPhases] BY <2>1, Zenon DEF Job
  <2>. QED BY <2>1, <2>2, ToFailedType, Zenon DEF unfinished
<1>1. Dequeue /\ ShouldReconcile(jobCache)
  <2>1. Dequeue /\ Obeys(jobCache)
    BY Zenon DEF handleStageCmdStart, handleStageCmdStop, handleStageCmdCancelled,
           handleStageCmdSuspend, handleStageCmdRestart, handleRestartWait, Command
  <2>. QED BY <2>1, Zenon DEF Obeys, ShouldReconcile
<1>2. CASE handleStageCmdStart
  <2>1. [jobCache EXCEPT !.own = "started"] \in Job BY <1>0, Zenon DEF Job, PartyStages
  <2>. QED BY <1>1, <1>2, <2>1, SaveSafe, Zenon DEF handleStageCmdStart
<1>3. CASE handleStageCmdStop
  <2>1. [jobCache EXCEPT !.own = "stopped", !.phase = "Failed", !.done = TRUE,
                         !.tasks = setRunningTaskStatusToFailed(@)] \in Job
    BY <1>0, Zenon DEF Job, PartyStages, JobPhases
  <2>. QED BY <1>0, <1>1, <1>3, <2>1, BeginSafe, Zenon DEF handleStageCmdStop
<1>4. CASE handleStageCmdCancelled
  <2>1. [jobCache EXCEPT !.own = "stopped", !.phase = "Cancelled", !.done = TRUE,
                         !.tasks = setRunningTaskStatusToFailed(@)] \in Job
    BY <1>0, Zenon DEF Job, PartyStages, JobPhases
  <2>. QED BY <1>0, <1>1, <1>4, <2>1, BeginSafe, Zenon DEF handleStageCmdCancelled
<1>5. CASE handleStageCmdSuspend
  <2>1. [jobCache EXCEPT !.own = "stopped", !.phase = "Suspended"] \in Job
    BY <1>0, Zenon DEF Job, PartyStages, JobPhases
  <2>. QED BY <1>0, <1>1, <1>5, <2>1, BeginSafe, Zenon DEF handleStageCmdSuspend
<1>6. CASE handleStageCmdRestart
  <2>1. [t \in Tasks |-> IF jobCache.tasks[t] = "Succeeded" THEN jobCache.tasks[t] ELSE None]
          \in [Tasks -> TaskPhases]
    BY <1>0, Zenon DEF TaskPhases
  <2>2. [jobCache EXCEPT !.own = "restarted", !.phase = "Running", !.done = FALSE,
           !.tasks = [t \in Tasks |-> IF @[t] = "Succeeded" THEN @[t] ELSE None]] \in Job
    BY <1>0, <2>1, Zenon DEF Job, PartyStages, JobPhases
  <2>3. {t \in Tasks : jobCache.tasks[t] \notin {None, "Succeeded"}} \in SUBSET Tasks BY Zenon
  <2>. QED BY <1>1, <1>6, <2>2, <2>3, BeginSafe, Zenon DEF handleStageCmdRestart
<1>7. CASE handleRestartWait BY <1>0, <1>1, <1>7, SaveSafe, Zenon DEF handleRestartWait
<1>. QED BY <1>2, <1>3, <1>4, <1>5, <1>6, <1>7, Zenon
\* The handlers that write a status and have no loop.
LEMMA PhaseSafe ==
  ASSUME IInv,
         \/ SkipFinished \/ validateJob \/ annotateKusciaJob \/ handleInitialized
         \/ handleAwaitingApproval \/ handlePending \/ handleSuspended \/ handleFailedDone
  PROVE  Safe
<1>0. jobCache \in Job BY Zenon DEF IInv, JobTypes
<1>1. CASE SkipFinished BY <1>1, NoUpdateSafe, Zenon DEF SkipFinished
<1>2. CASE validateJob
  <2>1. [jobCache EXCEPT !.phase = "Failed"] \in Job BY <1>0, Zenon DEF Job, JobPhases
  <2>2. ShouldReconcile(jobCache) BY <1>2, Zenon DEF validateJob, Handles, ShouldReconcile
  <2>. QED BY <1>2, <2>1, <2>2, SaveSafe, Zenon DEF validateJob, Handles
<1>3. CASE annotateKusciaJob
  <2>1. Aside BY <1>3, DequeueAside, Zenon DEF annotateKusciaJob, Handles
  <2>2. Control
    <3>1. Forget(FALSE) /\ (Fault \/ UNCHANGED faults) BY <1>3, Zenon DEF annotateKusciaJob
    <3>. QED BY <2>1, <3>1, Queued, Faulted, Zenon DEF Control, Aside
  <2>3. [jobCache EXCEPT !.annotated = TRUE] \in Job BY <1>0, Zenon DEF Job
  <2>4. \/ WriteJob([jobCache EXCEPT !.annotated = TRUE]) /\ jobEvents = <<>>
        \/ KeepJob
    BY <1>3, Zenon DEF annotateKusciaJob
  <2>5. [jobCache EXCEPT !.annotated = TRUE].phase = jobCache.phase BY <1>0, Zenon DEF Job
  <2>. QED BY <2>2, <2>3, <2>4, <2>5, Written, Kept, KeepJobKept, Zenon DEF Latest
<1>4. CASE handleInitialized
  <2>1. [jobCache EXCEPT !.own = "created",
           !.phase = IF isInterConnJob THEN "AwaitingApproval" ELSE "Pending"] \in Job
    BY <1>0, Zenon DEF Job, JobPhases, PartyStages
  <2>2. ShouldReconcile(jobCache) BY <1>4, Zenon DEF handleInitialized, Handles, ShouldReconcile
  <2>. QED BY <1>4, <2>1, <2>2, SaveSafe, Zenon DEF handleInitialized, Handles
<1>5. CASE handleAwaitingApproval
  <2>1. [jobCache EXCEPT !.phase = "ApprovalReject", !.done = TRUE] \in Job
        /\ [jobCache EXCEPT !.phase = "Pending"] \in Job
    BY <1>0, Zenon DEF Job, JobPhases
  <2>2. Dequeue /\ UNCHANGED worker /\ ShouldReconcile(jobCache)
    BY <1>5, Zenon DEF handleAwaitingApproval, Uncommanded, Handles, ShouldReconcile
  <2>3. \/ Save([jobCache EXCEPT !.phase = "ApprovalReject", !.done = TRUE])
        \/ Save([jobCache EXCEPT !.phase = "Pending"]) \/ NoUpdate
    BY <1>5, Zenon DEF handleAwaitingApproval
  <2>. QED BY <2>1, <2>2, <2>3, SaveSafe, NoUpdateSafe, Zenon
<1>6. CASE handlePending
  <2>1. [jobCache EXCEPT !.phase = "Running"] \in Job
        /\ [jobCache EXCEPT !.phase = "Failed"] \in Job
    BY <1>0, Zenon DEF Job, JobPhases
  <2>2. Dequeue /\ UNCHANGED worker /\ ShouldReconcile(jobCache)
    BY <1>6, Zenon DEF handlePending, Uncommanded, Handles, ShouldReconcile
  <2>3. \/ Save([jobCache EXCEPT !.phase = "Running"])
        \/ Save([jobCache EXCEPT !.phase = "Failed"]) \/ NoUpdate
    BY <1>6, Zenon DEF handlePending
  <2>. QED BY <2>1, <2>2, <2>3, SaveSafe, NoUpdateSafe, Zenon
<1>7. CASE handleSuspended
  <2>1. jobCache.tasks \in [Tasks -> TaskPhases] BY <1>0, Zenon DEF Job
  <2>2. setRunningTaskStatusToFailed(jobCache.tasks) \in [Tasks -> TaskPhases]
    BY <2>1, ToFailedType, Zenon
  <2>3. [jobCache EXCEPT !.tasks = setRunningTaskStatusToFailed(@)] \in Job
    BY <1>0, <2>2, Zenon DEF Job
  <2>4. Dequeue /\ UNCHANGED worker /\ ShouldReconcile(jobCache)
    BY <1>7, Zenon DEF handleSuspended, Uncommanded, Handles, ShouldReconcile
  <2>. QED BY <1>7, <2>3, <2>4, SaveSafe, NoUpdateSafe, Zenon DEF handleSuspended
<1>8. CASE handleFailedDone
  BY <1>8, NoUpdateSafe, Zenon DEF handleFailedDone, Uncommanded, Handles
<1>. QED BY <1>1, <1>2, <1>3, <1>4, <1>5, <1>6, <1>7, <1>8, Zenon

\* setJobStage and setJobTaskID read the job again and change nothing but a label or IDs.
LEMMA RereadSafe ==
  ASSUME IInv, handleRestartComplete \/ setJobTaskID
  PROVE  Safe
<1>0. jobCache \in Job /\ Latest \in Job BY LatestType, Zenon DEF IInv, JobTypes
<1>1. Dequeue /\ UNCHANGED worker /\ ShouldReconcile(jobCache)
  BY Zenon DEF handleRestartComplete, setJobTaskID, Uncommanded, Handles, Command, ShouldReconcile
<1>2. Aside BY <1>1, DequeueAside, Zenon
<1>3. CASE Fault /\ SyncError(jobCache, jobEvents = <<>>, FALSE)
  <2>1. (jobEvents = <<>>) => ShouldReconcile(Latest) BY <1>1, Zenon DEF Latest
  <2>. QED BY <1>0, <1>2, <1>3, <2>1, ErrorSafe, Zenon
<1>4. /\ [Latest EXCEPT !.stage = "start"] \in Job
      /\ [Latest EXCEPT !.stage = "start"].phase = Latest.phase
  BY <1>0, Zenon DEF Job, Stages
<1>5. /\ [Latest EXCEPT !.ids = TRUE] \in Job
      /\ [Latest EXCEPT !.ids = TRUE].phase = Latest.phase
  BY <1>0, Zenon DEF Job
<1>6. ASSUME Forget(FALSE), UNCHANGED faults,
             NEW v \in {[Latest EXCEPT !.stage = "start"], [Latest EXCEPT !.ids = TRUE]},
             WriteJob(v) \/ KeepJob
      PROVE  Safe
  <2>1. Control BY <1>2, <1>6, Queued, Faulted, Zenon DEF Control, Aside
  <2>2. v \in Job /\ v.phase = Latest.phase BY <1>0, <1>6, <1>4, <1>5, Zenon
  <2>. QED BY <1>6, <2>1, <2>2, Written, Kept, KeepJobKept, Zenon
<1>7. CASE handleRestartComplete BY <1>3, <1>6, <1>7, Zenon DEF handleRestartComplete
<1>8. CASE setJobTaskID BY <1>3, <1>6, <1>8, Zenon DEF setJobTaskID
<1>. QED BY <1>7, <1>8, Zenon

LEMMA RunningSafe ==
  ASSUME IInv, handleRunning
  PROVE  Safe
<1>0. jobCache \in Job /\ taskCache \in [Tasks -> TaskPhases] BY Zenon DEF IInv, JobTypes, TaskTypes
<1>. DEFINE phase == jobStatusPhaseFrom(taskCache)
            v == [jobCache EXCEPT !.phase = phase, !.done = @ \/ phase = "Succeeded",
                                  !.tasks = taskCache]
            ts == IF phase = "Running" THEN willStartTasksOf(taskCache) ELSE {}
<1>1. phase \in {"Running", "Succeeded", "Failed"} BY Zenon DEF jobStatusPhaseFrom
<1>2. (jobCache.done \/ phase = "Succeeded") \in BOOLEAN BY Zenon
<1>3. v \in Job
  <2>. HIDE DEF phase
  <2>. QED BY <1>0, <1>1, <1>2, Zenon DEF Job, JobPhases
<1>4. ts \in SUBSET Tasks BY Zenon DEF willStartTasksOf, readyTasksOf
<1>5. Dequeue /\ Begin("create", ts, v) /\ ShouldReconcile(jobCache)
  BY Zenon DEF handleRunning, ShouldReconcile
<1>. HIDE DEF v, ts
<1>. QED BY <1>3, <1>4, <1>5, BeginSafe, Zenon

LEMMA FailedSafe ==
  ASSUME IInv, handleFailed
  PROVE  Safe
<1>0. jobCache \in Job BY Zenon DEF IInv, JobTypes
<1>1. jobCache.tasks \in [Tasks -> TaskPhases] BY <1>0, Zenon DEF Job
<1>2. setRunningTaskStatusToFailed(jobCache.tasks) \in [Tasks -> TaskPhases]
  BY <1>1, ToFailedType, Zenon
<1>3. [jobCache EXCEPT !.done = TRUE, !.tasks = setRunningTaskStatusToFailed(@)] \in Job
  BY <1>0, <1>2, Zenon DEF Job
<1>4. unfinished(jobCache) \in SUBSET Tasks BY Zenon DEF unfinished
<1>. QED BY <1>3, <1>4, BeginSafe, Zenon DEF handleFailed, ShouldReconcile
(***************************************************************************)
(* The loops over the tasks.                                               *)
(***************************************************************************)
LEMMA LoopSafe ==
  ASSUME IInv, NEW t \in Tasks,
         \/ createTask(t) \/ createTaskError(t) \/ stopTask(t)
         \/ stopTaskError(t) \/ deleteTask(t) \/ deleteTaskError(t)
  PROVE  Safe
<1>0. base \in Job /\ next \in Job /\ queued \in BOOLEAN /\ fresh \in BOOLEAN
  BY Zenon DEF IInv, JobTypes, ControlTypes
<1>1. op # "idle" /\ UNCHANGED <<spec, restarted, commands>>
  BY Zenon DEF createTask, createTaskError, stopTask, stopTaskError, deleteTask,
         deleteTaskError, InLoop
<1>2. fresh => ShouldReconcile(Latest)
  BY <1>1, Zenon DEF IInv, BaseInv, Latest
<1>3. spec' = spec /\ restarted' \in BOOLEAN /\ commands' \in 0..MaxCommands
  BY <1>1, Zenon DEF IInv, ControlTypes, CountTypes
<1>4. ASSUME Reached(t), UNCHANGED <<queue, faults>>,
             KeepJob \/ \E ph \in TaskPhases : WriteTask(t, ph)
      PROVE  Safe
  <2>1. op' = op /\ base' = base /\ next' \in Job /\ todo' \in SUBSET Tasks
    BY <1>0, <1>4, Zenon DEF Reached, IInv, ControlTypes
  <2>2. queued' = queued /\ requeues' = requeues /\ faults' = faults
    BY <1>4, Zenon DEF queue
  <2>3. requeues' \in 0..maxRetries /\ faults' \in 0..MaxFaults
    BY <2>2, Zenon DEF IInv, CountTypes
  <2>4. Control BY <1>0, <1>3, <2>1, <2>2, <2>3, Zenon DEF Control
  <2>5. UNCHANGED <<jobCache, jobEvents, fresh>> /\ TaskTypes'
    BY <1>4, KeepJobKept, WriteTaskEffect, Zenon DEF IInv
  <2>. QED BY <2>4, <2>5, Kept, Zenon
<1>5. CASE createTask(t)
  BY <1>4, <1>5, Zenon DEF createTask, TaskPhases
<1>6. CASE stopTask(t)
  BY <1>4, <1>6, Zenon DEF stopTask, TaskPhases
<1>7. CASE deleteTask(t)
  BY <1>4, <1>7, Zenon DEF deleteTask, TaskPhases
<1>8. CASE createTaskError(t)
  <2>1. [base EXCEPT !.tasks = next.tasks] \in Job BY <1>0, Zenon DEF Job
  <2>2. Aside BY <1>3, <1>8, Zenon DEF createTaskError, Aside
  <2>. QED BY <1>0, <1>2, <1>8, <2>1, <2>2, ErrorSafe, Zenon DEF createTaskError
<1>9. CASE stopTaskError(t)
  <2>1. Aside BY <1>3, <1>9, Zenon DEF stopTaskError, Aside
  <2>2. Fault \/ UNCHANGED faults BY <1>9, Zenon DEF stopTaskError
  <2>. QED BY <1>0, <1>2, <1>9, <2>1, <2>2, ErrorSafe, Zenon DEF stopTaskError
<1>10. CASE deleteTaskError(t)
  <2>1. [next EXCEPT !.own = "restartFailed", !.tasks = base.tasks] \in Job
    BY <1>0, Zenon DEF Job, PartyStages
  <2>2. /\ op' = op /\ base' = base /\ next' \in Job /\ todo' \in SUBSET Tasks
        /\ Fault /\ UNCHANGED <<queue, objects, fresh>>
    BY <1>10, <2>1, Zenon DEF deleteTaskError
  <2>3. requeues' \in 0..maxRetries /\ queued' = queued
    BY <2>2, Zenon DEF queue, IInv, CountTypes
  <2>4. Control BY <1>0, <1>3, <2>2, <2>3, Faulted, Zenon DEF Control
  <2>5. KeepJob BY <2>2, Zenon DEF KeepJob
  <2>. QED BY <2>4, <2>5, Kept, KeepJobKept, Zenon
<1>. QED BY <1>5, <1>6, <1>7, <1>8, <1>9, <1>10, Zenon

LEMMA EndSafe ==
  ASSUME IInv, endLoop
  PROVE  Safe
<1>0. base \in Job /\ next \in Job /\ queued \in BOOLEAN /\ fresh \in BOOLEAN
  BY Zenon DEF IInv, JobTypes, ControlTypes
<1>1. Aside BY Zenon DEF endLoop, Aside, IInv, ControlTypes, CountTypes
<1>2. fresh => ShouldReconcile(Latest) BY Zenon DEF endLoop, IInv, BaseInv, Latest
<1>3. CASE next = base
  <2>1. Forget(queued) /\ KeepJob /\ UNCHANGED faults BY <1>3, Zenon DEF endLoop
  <2>2. Control BY <1>0, <1>1, <2>1, Queued, Faulted, Zenon DEF Control, Aside
  <2>. QED BY <2>1, <2>2, Kept, KeepJobKept, Zenon
<1>4. CASE next # base BY <1>0, <1>1, <1>2, <1>4, StatusSafe, Zenon DEF endLoop
<1>. QED BY <1>3, <1>4, Zenon

(***************************************************************************)
(* The watch streams and the other actors.                                 *)
(***************************************************************************)
\* The lister's version changes, the API server's does not.
LEMMA DeliverJobSafe ==
  ASSUME IInv, deliverJob
  PROVE  Safe
<1>1. /\ jobEvents # <<>> /\ jobCache' = Head(jobEvents) /\ jobEvents' = Tail(jobEvents)
      /\ queued' = TRUE
      /\ UNCHANGED <<spec, tasks, taskCache, taskEvents, requeues, fresh, restarted>>
      /\ UNCHANGED <<op, todo, base, next, commands, faults>>
  BY Zenon DEF deliverJob, worker, bounds
<1>2. /\ Head(jobEvents) \in Job /\ Tail(jobEvents) \in Seq(Job)
      /\ Len(Tail(jobEvents)) <= JobLag
  BY <1>1, BoundsAssumption DEF IInv, JobTypes
<1>3. Latest' = Latest
  <2>1. jobEvents \in Seq(Job) BY Zenon DEF IInv, JobTypes
  <2>. QED BY <1>1, <2>1, HeadAndTail, Zenon DEF Latest
<1>4. JobTypes' /\ TaskTypes' /\ CountTypes'
  BY <1>1, <1>2, Zenon DEF IInv, JobTypes, TaskTypes, CountTypes
<1>5. ControlTypes' BY <1>1, Zenon DEF IInv, ControlTypes
<1>6. BaseInv' BY <1>1, Zenon DEF IInv, BaseInv, ShouldReconcile
<1>. QED BY <1>3, <1>4, <1>5, <1>6, Zenon DEF Safe, IInv

\* A change of a task, or a resync, reaches the controller.
LEMMA DeliverTaskSafe ==
  ASSUME IInv, handleTaskObject \/ resync
  PROVE  Safe
<1>1. /\ queued' = TRUE /\ UNCHANGED <<jobCache, jobEvents, fresh, spec, requeues, restarted>>
      /\ UNCHANGED <<op, todo, base, next, commands, faults>>
  BY Zenon DEF handleTaskObject, resync, worker, bounds, objects
<1>2. Control
  BY <1>1, Zenon DEF Control, IInv, ControlTypes, CountTypes, JobTypes
<1>3. TaskTypes'
  <2>1. CASE resync BY <2>1, Zenon DEF resync, objects, IInv, TaskTypes
  <2>2. CASE handleTaskObject
    <3>1. taskEvents \in Seq(Tasks \X TaskPhases) /\ taskEvents # <<>>
      BY <2>2, Zenon DEF handleTaskObject, IInv, TaskTypes
    <3>2. /\ Head(taskEvents) \in Tasks \X TaskPhases
          /\ Tail(taskEvents) \in Seq(Tasks \X TaskPhases)
          /\ Len(Tail(taskEvents)) = Len(taskEvents) - 1
      BY <3>1
    <3>3. Head(taskEvents)[2] \in TaskPhases BY <3>2, Zenon
    <3>4. taskCache' \in [Tasks -> TaskPhases] /\ tasks' = tasks
          /\ taskEvents' = Tail(taskEvents)
      BY <2>2, <3>3, Zenon DEF handleTaskObject, IInv, TaskTypes
    <3>5. Len(taskEvents') <= TaskLag BY <3>1, <3>2, <3>4, BoundsAssumption DEF IInv, TaskTypes
    <3>. QED BY <3>2, <3>4, <3>5, Zenon DEF IInv, TaskTypes
  <2>. QED BY <2>1, <2>2, Zenon
<1>. QED BY <1>1, <1>2, <1>3, Kept, Zenon

\* Commands and reports copy the phase; only an unfinished job is failed by a partner.
LEMMA OthersSafe ==
  ASSUME IInv, NEW v \in Job, WriteJob(v), UNCHANGED <<spec, queue, worker, restarted, faults>>,
         commands' \in 0..MaxCommands, ShouldReconcile(Latest) \/ v.phase = Latest.phase
  PROVE  Safe
<1>1. Control
  <2>1. UNCHANGED <<queued, requeues, op, todo, base, next>> BY Zenon DEF queue, worker
  <2>. QED BY <2>1, Zenon DEF Control, IInv, ControlTypes, CountTypes, JobTypes
<1>. QED BY <1>1, Written, Zenon

LEMMA CommandsSafe ==
  ASSUME IInv, NEW stage \in Stages, setJobStage(stage)
  PROVE  Safe
<1>0. Latest \in Job BY LatestType, Zenon DEF IInv
<1>1. /\ [Latest EXCEPT !.stage = stage] \in Job
      /\ [Latest EXCEPT !.stage = stage].phase = Latest.phase
  BY <1>0, Zenon DEF Job
<1>2. commands' \in 0..MaxCommands
  BY BoundsAssumption DEF setJobStage, IInv, CountTypes
<1>. QED BY <1>1, <1>2, OthersSafe, Zenon DEF setJobStage

LEMMA PartnersSafe ==
  ASSUME IInv, partnerActs
  PROVE  Safe
<1>0. Latest \in Job BY LatestType, Zenon DEF IInv
<1>1. ASSUME NEW p \in Partners, NEW v \in Job, Reported(p, v)
      PROVE  Safe
  <2>1. UNCHANGED <<spec, queue, worker, restarted, faults>> /\ commands' \in 0..MaxCommands
    BY <1>1, Zenon DEF Reported, Others, bounds, IInv, CountTypes
  <2>2. ShouldReconcile(Latest) /\ WriteJob(v) BY <1>1, Zenon DEF Reported, ShouldReconcile
  <2>. QED BY <2>1, <2>2, OthersSafe, Zenon
<1>2. PICK p \in Partners :
        \/ \E answer \in {"accepted", "rejected"} : partnerApproves(p, answer)
        \/ \E stage \in PartyStages : partnerReports(p, stage)
        \/ partnerFails(p)
  BY Zenon DEF partnerActs
<1>3. \A answer \in {"accepted", "rejected"} : [Latest EXCEPT !.approve[p] = answer] \in Job
  BY <1>0, VersionTypes, Zenon
<1>4. \A stage \in PartyStages : [Latest EXCEPT !.partner[p] = stage] \in Job
  BY <1>0, VersionTypes, Zenon
<1>5. [Latest EXCEPT !.phase = "Failed"] \in Job BY <1>0, Zenon DEF Job, JobPhases
<1>. QED BY <1>1, <1>2, <1>3, <1>4, <1>5, Zenon DEF partnerApproves, partnerReports, partnerFails

LEMMA TaskRunsSafe ==
  ASSUME IInv, NEW t \in Tasks, taskRuns(t)
  PROVE  Safe
<1>1. \E ph \in TaskPhases : WriteTask(t, ph) BY Zenon DEF taskRuns, TaskPhases, Finished
<1>2. TaskTypes' /\ UNCHANGED <<jobCache, jobEvents, fresh>>
  BY <1>1, WriteTaskEffect, Zenon DEF IInv
<1>3. UNCHANGED <<spec, queued, requeues, op, todo, base, next, restarted, commands, faults>>
  BY Zenon DEF taskRuns, Others, queue, worker, bounds
<1>4. Control BY <1>3, Zenon DEF Control, IInv, ControlTypes, CountTypes, JobTypes
<1>. QED BY <1>2, <1>4, Kept, Zenon

(***************************************************************************)
LEMMA NextSafe ==
  ASSUME IInv, [Next]_vars
  PROVE  Safe
<1>1. CASE syncHandler
  BY <1>1, CommandSafe, PhaseSafe, RereadSafe, RunningSafe, FailedSafe, Zenon DEF syncHandler
<1>2. CASE taskLoop BY <1>2, LoopSafe, EndSafe, Zenon DEF taskLoop
<1>3. CASE deliverJob BY <1>3, DeliverJobSafe, Zenon
<1>4. CASE handleTaskObject \/ resync BY <1>4, DeliverTaskSafe, Zenon
<1>5. CASE \E stage \in {"stop", "cancel", "suspend", "restart"} : setJobStage(stage)
  BY <1>5, CommandsSafe, Zenon DEF Stages
<1>6. CASE \E t \in Tasks : taskRuns(t) BY <1>6, TaskRunsSafe, Zenon
<1>7. CASE partnerActs BY <1>7, PartnersSafe, Zenon
<1>8. CASE UNCHANGED vars
  <2>1. KeepJob /\ UNCHANGED <<spec, queued, requeues, restarted, commands, faults>>
        /\ UNCHANGED <<op, todo, base, next>>
    BY <1>8, Zenon DEF vars, KeepJob, queue, worker, bounds
  <2>2. Control BY <2>1, Zenon DEF Control, IInv, ControlTypes, CountTypes, JobTypes
  <2>. QED BY <2>1, <2>2, Kept, KeepJobKept, Zenon
<1>. QED BY <1>1, <1>2, <1>3, <1>4, <1>5, <1>6, <1>7, <1>8, Zenon DEF Next

LEMMA InitInv == ASSUME Init PROVE IInv
<1>1. NewJob(spec) \in Job BY NewJobType, Zenon DEF Init
<1>2. JobTypes BY <1>1, BoundsAssumption DEF Init, JobTypes
<1>3. TaskTypes BY BoundsAssumption DEF Init, TaskTypes, TaskPhases
<1>4. ControlTypes BY Zenon DEF Init, ControlTypes
<1>5. CountTypes BY BoundsAssumption DEF Init, CountTypes
<1>6. BaseInv BY Zenon DEF Init, BaseInv
<1>. QED BY <1>2, <1>3, <1>4, <1>5, <1>6, Zenon DEF IInv

\* The types hold, and with them every bound of the controller: in particular a
\* key is requeued at most maxRetries times.
THEOREM TypeCorrect == Spec => []TypeOK
<1>1. IInv /\ [Next]_vars => IInv' BY NextSafe, Zenon DEF Safe
<1>. QED BY <1>1, InitInv, InvTypes, PTL DEF Spec

\* Succeeded, Cancelled and ApprovalReject are final: no status computed from an
\* older version, no command and no report of a partner moves the job on.
THEOREM FinalForGood == Spec => FinalPhase
<1>1. IInv /\ [Next]_vars => IInv' BY NextSafe, Zenon DEF Safe
<1>2. IInv /\ [Next]_vars =>
        [~ShouldReconcile(Latest) => Latest'.phase = Latest.phase]_vars
  BY NextSafe, Zenon DEF Safe
<1>. QED BY <1>1, <1>2, InitInv, PTL DEF Spec, FinalPhase

(***************************************************************************)
(* Until a restart deletes tasks.  Two things can make the lister's view   *)
(* of the tasks and status.taskStatus differ from the API server: lag, and *)
(* tasks that the controller stops.  A stopped task may have succeeded     *)
(* meanwhile; that it is then failed does no harm because the version      *)
(* that had it stopped halts: it is followed only by versions that halt    *)
(* and that show no success it does not show.                              *)
(***************************************************************************)
Active == {"Pending", "Running"}

Halting(j) ==
  \/ j.stage \in {"stop", "cancel"}
  \/ j.stage = "suspend" /\ j.phase = "Running"
  \/ j.phase \in {"Failed", "Suspended", "Succeeded", "Cancelled", "ApprovalReject"}

Later(j, k) ==
  Halting(j) => /\ Halting(k)
                /\ \A t \in Tasks : k.tasks[t] = "Succeeded" => j.tasks[t] = "Succeeded"

\* What a version says of successes is so at the API server.
Sound(j) ==
  /\ \A t \in Tasks : j.tasks[t] = "Succeeded" => tasks[t] = "Succeeded"
  /\ j.phase = "Succeeded" =>
       \A t \in Tasks : tasks[t] \in Finished /\ (t \in criticalTasks => j.tasks[t] = "Succeeded")

JobStream ==
  /\ Sound(jobCache)
  /\ \A i \in 1..Len(jobEvents) : Later(jobCache, jobEvents[i]) /\ Sound(jobEvents[i])
  /\ \A i, k \in 1..Len(jobEvents) : i < k => Later(jobEvents[i], jobEvents[k])

LoopInv ==
  /\ op \in {"idle", "create", "stop"}
  /\ op # "idle" => Later(base, jobCache) /\ Later(base, next) /\ Sound(base) /\ Sound(next)
  /\ op = "create" => ~Halting(base)
  /\ op = "stop" => /\ Halting(base) /\ todo \subseteq unfinished(base)
                    /\ next.phase = "Failed" => next.done

\* No task has been stopped: the controller has not acted on a version that halts.
Unstopped == op = "create" \/ ~Halting(jobCache)

\* The tasks' stream, while none is stopped: an ended task has no more events.
TaskStream ==
  /\ \A t \in Tasks : taskCache[t] # None => tasks[t] # None
  /\ \A t \in Tasks : taskCache[t] \in Finished => Current(t)
  /\ \A t \in Tasks : Current(t) => taskCache[t] = tasks[t]
  /\ \A i \in 1..Len(taskEvents) :
       /\ tasks[taskEvents[i][1]] # None
       /\ \/ taskEvents[i][2] \in Active
          \/ /\ taskEvents[i][2] = tasks[taskEvents[i][1]]
             /\ \A k \in 1..Len(taskEvents) : i < k => taskEvents[k][1] # taskEvents[i][1]

\* The last event of a task is its phase.
LastEvents ==
  \A i \in 1..Len(taskEvents) :
    (\A k \in 1..Len(taskEvents) : i < k => taskEvents[k][1] # taskEvents[i][1]) =>
      taskEvents[i][2] = tasks[taskEvents[i][1]]

\* A task exists, or is about to, only when its dependencies are seen to have
\* succeeded; a job that fails by itself has nothing under way.
Cleared(t) == \A d \in spec.deps[t] : taskCache[d] = "Succeeded"

Turns ==
  /\ \A t \in Tasks : tasks[t] # None => Cleared(t)
  /\ op = "create" => \A t \in todo : Cleared(t)
  /\ op = "create" /\ next.phase # "Running" => todo = {}
  /\ /\ op = "create" /\ next.phase = "Failed"
     /\ spec.mode = "BestEffort" /\ spec.givenIDs /\ ~isInterConnJob
     => (\A t \in Tasks : tasks[t] \notin Active) /\ readyTasksOf(tasks) = {}

\* With maxParallelism 1 at most one task is under way or on its way to the lister;
\* if the lister does not show it, it is the first of the tasks that seem ready.
Busy(t) == tasks[t] \in Active \/ ~Current(t)
First(t) == \A u \in readyTasksOf(taskCache) : spec.rank[t] <= spec.rank[u]

OneBusy ==
  /\ \A t, u \in Tasks : Busy(t) /\ Busy(u) => t = u
  /\ \A t \in Tasks : Busy(t) /\ taskCache[t] = None => First(t)
  /\ op = "create" => \A t \in todo : tasks[t] = None => First(t) /\ \A u \in Tasks : ~Busy(u)

Undisturbed == TaskStream /\ LastEvents /\ Turns /\ (spec.maxParallelism = 1 => OneBusy)

Trust ==
  ~restarted => /\ JobStream /\ LoopInv /\ ParallelismBounded
                /\ Unstopped => Undisturbed

\* A version k written on j that adds no success.
Follows(j, k) ==
  /\ Halting(j) => Halting(k)
  /\ \A t \in Tasks : k.tasks[t] = "Succeeded" => j.tasks[t] = "Succeeded"
  /\ k.phase = "Succeeded" => j.phase = "Succeeded" /\ k.tasks = j.tasks

LEMMA FollowsSound ==
  ASSUME NEW j, NEW k, Follows(j, k), Sound(j)
  PROVE  Later(j, k) /\ Sound(k)
  BY Zenon DEF Follows, Later, Sound

LEMMA LaterTransitive ==
  ASSUME NEW i, NEW j, NEW k, Later(i, j), Later(j, k)
  PROVE  Later(i, k)
  BY Zenon DEF Later

LEMMA LatestSound ==
  ASSUME JobTypes, JobStream
  PROVE  Sound(Latest) /\ Later(jobCache, Latest)
<1>1. CASE jobEvents = <<>> BY <1>1, Zenon DEF JobStream, Latest, Later
<1>2. CASE jobEvents # <<>>
  <2>1. Len(jobEvents) \in 1..Len(jobEvents) BY <1>2 DEF JobTypes
  <2>. QED BY <1>2, <2>1, Zenon DEF JobStream, Latest
<1>. QED BY <1>1, <1>2, Zenon

\* A step that writes the job at most, and keeps the loop or ends it.
Quiet ==
  /\ UNCHANGED <<spec, jobCache, tasks, taskCache, taskEvents>>
  /\ \/ jobEvents' = jobEvents
     \/ \E v \in Job : /\ jobEvents' = Append(jobEvents, v)
                      /\ Later(Latest, v) /\ Sound(v)
  /\ \/ UNCHANGED <<op, base, next>> /\ todo' \subseteq todo
     \/ op' = "idle"

LEMMA QuietTrust ==
  ASSUME IInv, Trust, ~restarted, Quiet
  PROVE  Trust'
<1>1. JobStream /\ LoopInv /\ ParallelismBounded /\ (Unstopped => Undisturbed)
  BY Zenon DEF Trust
<1>2. /\ UNCHANGED <<spec, jobCache, tasks, taskCache, taskEvents>>
      /\ \/ UNCHANGED <<op, base, next>> /\ todo' \subseteq todo
         \/ op' = "idle"
  BY Zenon DEF Quiet
<1>3. \A j : Sound(j)' <=> Sound(j)
  BY <1>2, Zenon DEF Sound, criticalTasks
<1>4. JobStream'
  <2>1. CASE jobEvents' = jobEvents
    BY <1>1, <1>2, <1>3, <2>1, Zenon DEF JobStream
  <2>2. ASSUME NEW v \in Job, jobEvents' = Append(jobEvents, v), Later(Latest, v), Sound(v)
        PROVE  JobStream'
    <3>1. jobEvents \in Seq(Job) BY Zenon DEF IInv, JobTypes
    <3>2. /\ Len(jobEvents') = Len(jobEvents) + 1 /\ Len(jobEvents) \in Nat
          /\ \A i \in 1..Len(jobEvents) : jobEvents'[i] = jobEvents[i]
          /\ jobEvents'[Len(jobEvents')] = v
      BY <2>2, <3>1
    <3>3. Later(jobCache, v)
      BY <1>1, <2>2, LatestSound, LaterTransitive, Zenon DEF IInv
    <3>4. \A i \in 1..Len(jobEvents) : Later(jobEvents[i], v)
      <4>1. SUFFICES ASSUME NEW i \in 1..Len(jobEvents) PROVE Later(jobEvents[i], v)
        BY Zenon
      <4>2. Latest = jobEvents[Len(jobEvents)]
        BY <3>1, <3>2 DEF Latest
      <4>3. CASE i = Len(jobEvents) BY <2>2, <4>2, <4>3, Zenon
      <4>4. CASE i # Len(jobEvents)
        <5>1. Later(jobEvents[i], Latest)
          BY <1>1, <3>2, <4>2, <4>4 DEF JobStream
        <5>. QED BY <2>2, <5>1, LaterTransitive, Zenon
      <4>. QED BY <4>3, <4>4, Zenon
    <3>5. Sound(jobCache)' BY <1>1, <1>2, <1>3, Zenon DEF JobStream
    <3>6. \A i \in 1..Len(jobEvents') : Later(jobCache, jobEvents'[i]) /\ Sound(jobEvents'[i])
      <4>1. SUFFICES ASSUME NEW i \in 1..Len(jobEvents')
                     PROVE  Later(jobCache, jobEvents'[i]) /\ Sound(jobEvents'[i])
        BY Zenon
      <4>2. CASE i = Len(jobEvents') BY <2>2, <3>2, <3>3, <4>2, Zenon
      <4>3. CASE i # Len(jobEvents')
        <5>1. i \in 1..Len(jobEvents) /\ jobEvents'[i] = jobEvents[i] BY <3>2, <4>3
        <5>. QED BY <1>1, <5>1, Zenon DEF JobStream
      <4>. QED BY <4>2, <4>3, Zenon
    <3>7. \A i, k \in 1..Len(jobEvents') : i < k => Later(jobEvents'[i], jobEvents'[k])
      <4>1. SUFFICES ASSUME NEW i \in 1..Len(jobEvents'), NEW k \in 1..Len(jobEvents'), i < k
                     PROVE  Later(jobEvents'[i], jobEvents'[k])
        BY Zenon
      <4>2. i \in 1..Len(jobEvents) /\ jobEvents'[i] = jobEvents[i] BY <3>2, <4>1
      <4>3. CASE k = Len(jobEvents') BY <3>2, <3>4, <4>2, <4>3, Zenon
      <4>4. CASE k # Len(jobEvents')
        <5>1. k \in 1..Len(jobEvents) /\ jobEvents'[k] = jobEvents[k] BY <3>2, <4>4
        <5>. QED BY <1>1, <4>1, <4>2, <5>1, Zenon DEF JobStream
      <4>. QED BY <4>3, <4>4, Zenon
    <3>. QED BY <1>2, <1>3, <3>5, <3>6, <3>7, Zenon DEF JobStream
  <2>. QED BY <2>1, <2>2, Zenon DEF Quiet
<1>5. LoopInv'
  <2>1. CASE op' = "idle" BY <2>1, Zenon DEF LoopInv
  <2>2. CASE UNCHANGED <<op, base, next>> /\ todo' \subseteq todo
    BY <1>1, <1>2, <1>3, <2>2, Zenon DEF LoopInv, unfinished
  <2>. QED BY <1>2, <2>1, <2>2, Zenon
<1>6. ParallelismBounded'
  BY <1>1, <1>2, ~restarted, Zenon DEF ParallelismBounded
<1>7. Unstopped' => Undisturbed'
  <2>1. SUFFICES ASSUME Unstopped' PROVE Undisturbed' BY Zenon
  <2>2. Undisturbed BY <1>1, <1>2, <2>1, Zenon DEF Unstopped
  <2>3. \A t : (Current(t)' <=> Current(t)) /\ (Busy(t)' <=> Busy(t))
              /\ (First(t)' <=> First(t)) /\ (Cleared(t)' <=> Cleared(t))
    BY <1>2, Zenon DEF Current, Busy, First, Cleared, readyTasksOf
  <2>4. TaskStream' /\ LastEvents' BY <1>2, <2>2, <2>3 DEF Undisturbed, TaskStream, LastEvents
  <2>5. Turns'
    BY <1>2, <2>2, <2>3, Zenon DEF Undisturbed, Turns, readyTasksOf, isInterConnJob
  <2>6. spec.maxParallelism = 1 => OneBusy'
    BY <1>2, <2>2, <2>3, Zenon DEF Undisturbed, OneBusy
  <2>. QED BY <1>2, <2>4, <2>5, <2>6, Zenon DEF Undisturbed
<1>. QED BY <1>4, <1>5, <1>6, <1>7, Zenon DEF Trust

\* What is written is a version, since the next stream is one of versions.
LEMMA WrittenJob ==
  ASSUME IInv, IInv', NEW v, WriteJob(v)
  PROVE  v \in Job
<1>1. jobEvents \in Seq(Job) /\ jobEvents' \in Seq(Job) BY Zenon DEF IInv, JobTypes
<1>2. jobEvents' = Append(jobEvents, v) BY Zenon DEF WriteJob
<1>3. jobEvents \in Seq(Job \cup {v}) BY <1>1
<1>4. /\ Len(jobEvents') = Len(jobEvents) + 1 /\ Len(jobEvents) \in Nat
      /\ jobEvents'[Len(jobEvents) + 1] = v
  BY <1>2, <1>3
<1>. QED BY <1>1, <1>4

\* The worker's part of a quiet step.
Calm == spec' = spec /\ ((UNCHANGED <<op, base, next>> /\ todo' \subseteq todo) \/ op' = "idle")

LEMMA WriteQuiet ==
  ASSUME IInv, IInv', Calm, NEW v,
         KeepJob \/ (WriteJob(v) /\ Later(Latest, v) /\ Sound(v))
  PROVE  Quiet
<1>1. CASE KeepJob BY <1>1, Zenon DEF KeepJob, objects, Quiet, Calm
<1>2. CASE WriteJob(v) /\ Later(Latest, v) /\ Sound(v)
  BY <1>2, WrittenJob, Zenon DEF WriteJob, Quiet, Calm
<1>. QED BY <1>1, <1>2, Zenon

LEMMA StatusQuiet ==
  ASSUME IInv, IInv', Calm, NEW v, NEW current \in BOOLEAN, NEW q,
         UpdateStatus(v, current, q), current => Later(Latest, v) /\ Sound(v)
  PROVE  Quiet
<1>1. KeepJob \/ (WriteJob(v) /\ current) BY Zenon DEF UpdateStatus
<1>. QED BY <1>1, WriteQuiet, Zenon

LEMMA ErrorQuiet ==
  ASSUME IInv, IInv', Calm, NEW v, NEW current \in BOOLEAN, NEW q,
         SyncError(v, current, q),
         current => Later(Latest, failKusciaJob(v)) /\ Sound(failKusciaJob(v))
  PROVE  Quiet
<1>1. KeepJob \/ (WriteJob(failKusciaJob(v)) /\ current) BY Zenon DEF SyncError
<1>. QED BY <1>1, WriteQuiet, Zenon

LEMMA SaveQuiet ==
  ASSUME IInv, IInv', JobStream, Calm, NEW v, Save(v), Follows(jobCache, v)
  PROVE  Quiet
<1>1. UpdateStatus(v, jobEvents = <<>>, FALSE) BY Zenon DEF Save
<1>2. Later(jobCache, v) /\ Sound(v) BY FollowsSound, Zenon DEF JobStream
<1>3. (jobEvents = <<>>) => Later(Latest, v) /\ Sound(v) BY <1>2, Zenon DEF Latest
<1>. QED BY <1>1, <1>3, StatusQuiet, Zenon

\* The handlers without a loop.
LEMMA PhaseQuiet ==
  ASSUME IInv, IInv', JobStream,
         \/ SkipFinished \/ validateJob \/ annotateKusciaJob \/ handleInitialized
         \/ handleStageCmdStart \/ handleAwaitingApproval \/ handlePending
         \/ handleSuspended \/ handleFailedDone \/ setJobTaskID
  PROVE  Quiet
<1>0. jobCache \in Job /\ jobCache.tasks \in [Tasks -> TaskPhases] /\ Latest \in Job
  BY LatestType, Zenon DEF IInv, JobTypes, Job
<1>1. Dequeue /\ UNCHANGED worker
  BY Zenon DEF SkipFinished, validateJob, annotateKusciaJob, handleInitialized, handleStageCmdStart,
         handleAwaitingApproval, handlePending, handleSuspended, handleFailedDone, setJobTaskID,
         Uncommanded, Handles, Command
<1>2. Calm BY <1>1, Zenon DEF Dequeue, worker, Calm
<1>3. ASSUME NoUpdate PROVE Quiet BY <1>2, <1>3, WriteQuiet, Zenon DEF NoUpdate
<1>4. CASE SkipFinished BY <1>3, <1>4, Zenon DEF SkipFinished
<1>5. CASE validateJob
  <2>1. Follows(jobCache, [jobCache EXCEPT !.phase = "Failed"])
    BY <1>0, Zenon DEF Follows, Halting, Job
  <2>. QED BY <1>2, <1>5, <2>1, SaveQuiet, Zenon DEF validateJob
<1>6. CASE annotateKusciaJob
  <2>. DEFINE v == [jobCache EXCEPT !.annotated = TRUE]
  <2>1. Follows(jobCache, v) BY <1>0, Zenon DEF Follows, Halting, Job
  <2>2. KeepJob \/ (WriteJob(v) /\ Latest = jobCache)
    BY <1>6, Zenon DEF annotateKusciaJob, Latest
  <2>. HIDE DEF v
  <2>. QED BY <1>2, <2>1, <2>2, FollowsSound, WriteQuiet, Zenon DEF JobStream
<1>7. CASE handleInitialized
  <2>. DEFINE ph == IF isInterConnJob THEN "AwaitingApproval" ELSE "Pending"
  <2>1. jobCache.phase = "Initialized" /\ Save([jobCache EXCEPT !.own = "created", !.phase = ph])
    BY <1>7, Zenon DEF handleInitialized, Handles
  <2>2. ph \in {"AwaitingApproval", "Pending"} BY Zenon
  <2>. HIDE DEF ph
  <2>3. Follows(jobCache, [jobCache EXCEPT !.own = "created", !.phase = ph])
    BY <1>0, <2>1, <2>2, Zenon DEF Follows, Halting, Job
  <2>. QED BY <1>2, <2>1, <2>3, SaveQuiet, Zenon
<1>8. CASE handleStageCmdStart
  <2>1. Follows(jobCache, [jobCache EXCEPT !.own = "started"])
    BY <1>0, Zenon DEF Follows, Halting, Job
  <2>. QED BY <1>2, <1>8, <2>1, SaveQuiet, Zenon DEF handleStageCmdStart
<1>9. CASE handleAwaitingApproval
  <2>1. jobCache.phase = "AwaitingApproval" /\ jobCache.stage \notin {"stop", "cancel"}
    BY <1>9, Zenon DEF handleAwaitingApproval, Uncommanded, Handles, Commanded
  <2>2. Follows(jobCache, [jobCache EXCEPT !.phase = "ApprovalReject", !.done = TRUE])
    BY <1>0, Zenon DEF Follows, Halting, Job
  <2>3. Follows(jobCache, [jobCache EXCEPT !.phase = "Pending"])
    BY <1>0, <2>1, Zenon DEF Follows, Halting, Job
  <2>. QED BY <1>2, <1>3, <1>9, <2>2, <2>3, SaveQuiet, Zenon DEF handleAwaitingApproval
<1>10. CASE handlePending
  <2>1. jobCache.phase = "Pending" /\ jobCache.stage \notin {"stop", "cancel"}
    BY <1>10, Zenon DEF handlePending, Uncommanded, Handles, Commanded
  <2>2. Follows(jobCache, [jobCache EXCEPT !.phase = "Failed"])
    BY <1>0, Zenon DEF Follows, Halting, Job
  <2>3. Follows(jobCache, [jobCache EXCEPT !.phase = "Running"])
    BY <1>0, <2>1, Zenon DEF Follows, Halting, Job
  <2>. QED BY <1>2, <1>3, <1>10, <2>2, <2>3, SaveQuiet, Zenon DEF handlePending
<1>11. CASE handleSuspended
  <2>. DEFINE v == [jobCache EXCEPT !.tasks = setRunningTaskStatusToFailed(@)]
  <2>1. jobCache.phase = "Suspended" /\ (NoUpdate \/ Save(v))
    BY <1>11, Zenon DEF handleSuspended, Uncommanded, Handles
  <2>2. v.tasks = setRunningTaskStatusToFailed(jobCache.tasks) /\ v.phase = jobCache.phase
        /\ v.stage = jobCache.stage
    BY <1>0, Zenon DEF Job
  <2>. HIDE DEF v
  <2>3. Follows(jobCache, v)
    BY <2>1, <2>2, Zenon DEF Follows, Halting, setRunningTaskStatusToFailed
  <2>. QED BY <1>2, <1>3, <2>1, <2>3, SaveQuiet, Zenon
<1>12. CASE handleFailedDone BY <1>3, <1>12, Zenon DEF handleFailedDone
<1>13. CASE setJobTaskID
  <2>1. Follows(jobCache, failKusciaJob(jobCache))
    BY <1>0, Zenon DEF Follows, Halting, Job, failKusciaJob
  <2>2. Follows(Latest, [Latest EXCEPT !.ids = TRUE])
    BY <1>0, Zenon DEF Follows, Halting, Job
  <2>3. CASE Fault /\ SyncError(jobCache, jobEvents = <<>>, FALSE)
    <3>1. (jobEvents = <<>>) => Later(Latest, failKusciaJob(jobCache)) /\ Sound(failKusciaJob(jobCache))
      BY <2>1, FollowsSound, Zenon DEF Latest, JobStream
    <3>. QED BY <1>2, <2>3, <3>1, ErrorQuiet, Zenon
  <2>4. CASE KeepJob \/ WriteJob([Latest EXCEPT !.ids = TRUE])
    <3>1. Sound(Latest) BY LatestSound, Zenon DEF IInv
    <3>. QED BY <1>2, <2>2, <2>4, <3>1, FollowsSound, WriteQuiet, Zenon
  <2>. QED BY <1>13, <2>3, <2>4, Zenon DEF setJobTaskID
<1>. QED BY <1>4, <1>5, <1>6, <1>7, <1>8, <1>9, <1>10, <1>11, <1>12, <1>13, Zenon

\* What is read again, reported or commanded: the other writers of the job.
LEMMA WritersQuiet ==
  ASSUME IInv, IInv', JobStream,
         \/ \E stage \in {"stop", "cancel", "suspend", "restart"} : setJobStage(stage)
         \/ partnerActs \/ resync
  PROVE  Quiet
<1>0. Latest \in Job /\ Sound(Latest) BY LatestType, LatestSound, Zenon DEF IInv
<1>1. ASSUME NEW v, WriteJob(v), Follows(Latest, v), UNCHANGED <<spec, worker>>
      PROVE  Quiet
  <2>1. Calm BY <1>1, Zenon DEF Calm, worker
  <2>. QED BY <1>0, <1>1, <2>1, FollowsSound, WriteQuiet, Zenon
<1>2. CASE resync
  <2>1. Calm /\ KeepJob BY <1>2, Zenon DEF resync, Calm, worker, KeepJob
  <2>. QED BY <2>1, WriteQuiet, Zenon
<1>3. ASSUME NEW stage \in {"stop", "cancel", "suspend", "restart"}, setJobStage(stage)
      PROVE  Quiet
  <2>1. Follows(Latest, [Latest EXCEPT !.stage = stage])
    <3>1. /\ stage = "suspend" => Latest.phase = "Running"
          /\ stage = "restart" => Latest.phase \in {"Failed", "Suspended"}
      BY <1>3, Zenon DEF setJobStage
    <3>. QED BY <1>0, <3>1, Zenon DEF Follows, Halting, Job
  <2>. QED BY <1>1, <1>3, <2>1, Zenon DEF setJobStage
<1>4. CASE partnerActs
  <2>1. ASSUME NEW p, NEW v, Reported(p, v), Follows(Latest, v) PROVE Quiet
    BY <1>1, <2>1, Zenon DEF Reported, Others
  <2>2. PICK p \in Partners :
          \/ \E answer \in {"accepted", "rejected"} : partnerApproves(p, answer)
          \/ \E stage \in PartyStages : partnerReports(p, stage)
          \/ partnerFails(p)
    BY <1>4, Zenon DEF partnerActs
  <2>3. \A a : Follows(Latest, [Latest EXCEPT !.approve[p] = a])
    BY <1>0, Zenon DEF Follows, Halting, Job
  <2>4. \A st : Follows(Latest, [Latest EXCEPT !.partner[p] = st])
    BY <1>0, Zenon DEF Follows, Halting, Job
  <2>5. Follows(Latest, [Latest EXCEPT !.phase = "Failed"])
    BY <1>0, Zenon DEF Follows, Halting, Job
  <2>. QED BY <2>1, <2>2, <2>3, <2>4, <2>5, Zenon DEF partnerApproves, partnerReports, partnerFails
<1>. QED BY <1>2, <1>3, <1>4, Zenon

\* The end of a loop.
LEMMA EndQuiet ==
  ASSUME IInv, IInv', LoopInv, endLoop
  PROVE  Quiet
<1>0. base \in Job /\ next \in Job /\ fresh \in BOOLEAN BY Zenon DEF IInv, JobTypes, ControlTypes
<1>1. op # "idle" /\ spec' = spec BY Zenon DEF endLoop
<1>2. fresh => Latest = base BY <1>1, Zenon DEF IInv, BaseInv, Latest
<1>3. Later(base, next) /\ Sound(next) BY <1>1, Zenon DEF LoopInv
<1>4. Calm BY <1>1, Zenon DEF endLoop, Return, Calm
<1>5. KeepJob \/ UpdateStatus(next, fresh, queued) BY Zenon DEF endLoop
<1>. QED BY <1>0, <1>2, <1>3, <1>4, <1>5, WriteQuiet, StatusQuiet, Zenon

\* A loop that fails, and the tasks a loop finds as it wants them.
LEMMA LoopQuiet ==
  ASSUME IInv, IInv', JobStream, LoopInv, NEW t \in Tasks,
         \/ createTaskError(t) \/ stopTaskError(t)
         \/ createTask(t) /\ tasks[t] # None
         \/ stopTask(t) /\ tasks[t] \in {None, "Failed"}
  PROVE  Quiet
<1>0. base \in Job /\ next \in Job /\ fresh \in BOOLEAN BY Zenon DEF IInv, JobTypes, ControlTypes
<1>1. op # "idle" /\ spec' = spec
  BY Zenon DEF createTask, createTaskError, stopTask, stopTaskError, InLoop
<1>2. fresh => Latest = base BY <1>1, Zenon DEF IInv, BaseInv, Latest
<1>3. Later(base, next) /\ Sound(base) /\ Sound(next) BY <1>1, Zenon DEF LoopInv
<1>4. CASE createTaskError(t)
  <2>. DEFINE v == [base EXCEPT !.tasks = next.tasks]
  <2>1. Calm BY <1>1, <1>4, Zenon DEF createTaskError, Return, Calm
  <2>2. SyncError(v, fresh, queued) /\ op = "create" BY <1>4, Zenon DEF createTaskError, InLoop
  <2>3. failKusciaJob(v).tasks = next.tasks /\ failKusciaJob(v).phase = "Failed"
    BY <1>0, Zenon DEF failKusciaJob, Job
  <2>. HIDE DEF v
  <2>4. Later(base, failKusciaJob(v)) BY <2>2, Zenon DEF LoopInv, Later
  <2>5. Sound(failKusciaJob(v)) BY <1>3, <2>3, Zenon DEF Sound
  <2>. QED BY <1>0, <1>2, <2>1, <2>2, <2>4, <2>5, ErrorQuiet, Zenon
<1>5. CASE stopTaskError(t)
  <2>1. Calm BY <1>1, <1>5, Zenon DEF stopTaskError, Return, Calm
  <2>2. SyncError(base, fresh, queued) BY <1>5, Zenon DEF stopTaskError
  <2>3. Follows(base, failKusciaJob(base)) BY <1>0, Zenon DEF Follows, failKusciaJob, Halting, Job
  <2>. QED BY <1>0, <1>2, <1>3, <2>1, <2>2, <2>3, FollowsSound, ErrorQuiet, Zenon
<1>6. CASE createTask(t) /\ tasks[t] # None
  <2>1. Calm /\ KeepJob BY <1>1, <1>6, Zenon DEF createTask, Reached, Calm
  <2>. QED BY <2>1, WriteQuiet, Zenon
<1>7. CASE stopTask(t) /\ tasks[t] \in {None, "Failed"}
  <2>1. Calm /\ KeepJob BY <1>1, <1>7, Zenon DEF stopTask, Reached, Calm
  <2>. QED BY <2>1, WriteQuiet, Zenon
<1>. QED BY <1>4, <1>5, <1>6, <1>7, Zenon

\* A loop that stops tasks begins.
LEMMA StopTrust ==
  ASSUME IInv, Trust, ~restarted, ~restarted',
         \/ handleStageCmdStop \/ handleStageCmdCancelled
         \/ handleStageCmdSuspend \/ handleFailed
  PROVE  Trust'
<1>0. jobCache \in Job /\ jobCache.tasks \in [Tasks -> TaskPhases]
      /\ JobStream /\ ParallelismBounded
  BY Zenon DEF IInv, JobTypes, Job, Trust
<1>1. ASSUME NEW v, Dequeue, Begin("stop", unfinished(jobCache), v), Halting(jobCache),
             Follows(jobCache, v), v.phase = "Failed" => v.done
      PROVE  Trust'
  <2>1. /\ op' = "stop" /\ base' = jobCache /\ next' = v /\ todo' = unfinished(jobCache)
        /\ UNCHANGED <<spec, jobCache, jobEvents, tasks, taskCache, taskEvents>>
    BY <1>1, Zenon DEF Begin, Dequeue, objects
  <2>2. \A j : Sound(j)' <=> Sound(j) BY <2>1, Zenon DEF Sound, criticalTasks
  <2>3. JobStream' BY <1>0, <2>1, <2>2, Zenon DEF JobStream
  <2>4. Later(jobCache, jobCache) BY Zenon DEF Later
  <2>5. Later(jobCache, v) /\ Sound(v) /\ Sound(jobCache)
    BY <1>0, <1>1, FollowsSound, Zenon DEF JobStream
  <2>6. LoopInv' BY <1>1, <2>1, <2>2, <2>4, <2>5, Zenon DEF LoopInv, unfinished
  <2>7. ParallelismBounded' BY <1>0, <2>1, Zenon DEF ParallelismBounded
  <2>8. ~Unstopped' BY <1>1, <2>1, Zenon DEF Unstopped
  <2>. QED BY <2>3, <2>6, <2>7, <2>8, Zenon DEF Trust
<1>. DEFINE failed == setRunningTaskStatusToFailed(jobCache.tasks)
<1>2. \A t \in Tasks : failed[t] = "Succeeded" => jobCache.tasks[t] = "Succeeded"
  BY Zenon DEF setRunningTaskStatusToFailed
<1>. HIDE DEF failed
<1>3. CASE handleStageCmdStop
  <2>. DEFINE v == [jobCache EXCEPT !.own = "stopped", !.phase = "Failed", !.done = TRUE,
                                    !.tasks = failed]
  <2>1. Dequeue /\ Begin("stop", unfinished(jobCache), v) /\ Halting(jobCache)
    BY <1>3, Zenon DEF handleStageCmdStop, Command, Halting, failed
  <2>2. Follows(jobCache, v) /\ v.done BY <1>0, <1>2, Zenon DEF Follows, Halting, Job
  <2>. HIDE DEF v
  <2>. QED BY <1>1, <2>1, <2>2, Zenon
<1>4. CASE handleStageCmdCancelled
  <2>. DEFINE v == [jobCache EXCEPT !.own = "stopped", !.phase = "Cancelled", !.done = TRUE,
                                    !.tasks = failed]
  <2>1. Dequeue /\ Begin("stop", unfinished(jobCache), v) /\ Halting(jobCache)
    BY <1>4, Zenon DEF handleStageCmdCancelled, Command, Halting, failed
  <2>2. Follows(jobCache, v) /\ v.done BY <1>0, <1>2, Zenon DEF Follows, Halting, Job
  <2>. HIDE DEF v
  <2>. QED BY <1>1, <2>1, <2>2, Zenon
<1>5. CASE handleStageCmdSuspend
  <2>. DEFINE v == [jobCache EXCEPT !.own = "stopped", !.phase = "Suspended"]
  <2>1. Dequeue /\ Begin("stop", unfinished(jobCache), v) /\ Halting(jobCache)
    BY <1>5, Zenon DEF handleStageCmdSuspend, Command, Commanded, Halting
  <2>2. Follows(jobCache, v) /\ v.phase # "Failed" BY <1>0, Zenon DEF Follows, Halting, Job
  <2>. HIDE DEF v
  <2>. QED BY <1>1, <2>1, <2>2, Zenon
<1>6. CASE handleFailed
  <2>. DEFINE v == [jobCache EXCEPT !.done = TRUE, !.tasks = failed]
  <2>1. Dequeue /\ Begin("stop", unfinished(jobCache), v) /\ Halting(jobCache)
        /\ jobCache.phase = "Failed"
    BY <1>6, Zenon DEF handleFailed, Halting, failed
  <2>2. Follows(jobCache, v) /\ v.done BY <1>0, <1>2, <2>1, Zenon DEF Follows, Halting, Job
  <2>. HIDE DEF v
  <2>. QED BY <1>1, <2>1, <2>2, Zenon
<1>. QED BY <1>3, <1>4, <1>5, <1>6, Zenon

\* What jobStatusPhaseFrom means by Succeeded and, in BestEffort mode, by Failed.
LEMMA PhaseFrom ==
  ASSUME NEW cur
  PROVE  /\ jobStatusPhaseFrom(cur) = "Succeeded" =>
              \A t \in Tasks : cur[t] \in Finished /\ (t \in criticalTasks => cur[t] = "Succeeded")
         /\ /\ jobStatusPhaseFrom(cur) = "Failed"
            /\ spec.mode = "BestEffort" /\ spec.givenIDs /\ ~isInterConnJob
            => readyTasksOf(cur) = {} /\ \A t \in Tasks : cur[t] \notin Active
<1>1. readyTasksOf(cur) = {} \/ readyTaskMap(cur) # {} \/ ~spec.givenIDs
  BY Zenon DEF readyTaskMap, readyTasksOf
<1>2. jobStatusPhaseFrom(cur) = "Succeeded" =>
         \A t \in Tasks : cur[t] \in Finished /\ (t \in criticalTasks => cur[t] = "Succeeded")
  BY Zenon DEF jobStatusPhaseFrom, criticalTasks
<1>3. /\ jobStatusPhaseFrom(cur) = "Failed" /\ spec.mode = "BestEffort" /\ ~isInterConnJob
      => readyTaskMap(cur) = {} /\ \A t \in Tasks : cur[t] \notin Active
  BY Zenon DEF jobStatusPhaseFrom, Active
<1>. QED BY <1>1, <1>2, <1>3, Zenon

\* While no task has been stopped the lister's ended tasks are the API server's,
\* and a task it does not show yet seems ready.
LEMMA ListerTruth ==
  ASSUME IInv, Undisturbed, NEW t \in Tasks
  PROVE  /\ taskCache[t] \in Finished => tasks[t] = taskCache[t] /\ ~Busy(t)
         /\ taskCache[t] = None /\ tasks[t] # None => t \in readyTasksOf(taskCache)
         /\ taskCache[t] = None /\ Busy(t) => tasks[t] # None
<1>1. tasks[t] \in TaskPhases /\ taskCache[t] \in TaskPhases BY Zenon DEF IInv, TaskTypes
<1>2. taskCache[t] \in Finished => Current(t) /\ taskCache[t] = tasks[t]
  BY Zenon DEF Undisturbed, TaskStream
<1>3. tasks[t] = None => Current(t)
  <2>1. SUFFICES ASSUME tasks[t] = None, NEW i \in 1..Len(taskEvents) PROVE taskEvents[i][1] # t
    BY Zenon DEF Current
  <2>. QED BY <2>1, Zenon DEF Undisturbed, TaskStream
<1>4. taskCache[t] \in Finished => ~Busy(t) BY <1>2, Zenon DEF Busy, Active, Finished
<1>5. taskCache[t] = None /\ tasks[t] # None => t \in readyTasksOf(taskCache)
  BY Zenon DEF Undisturbed, Turns, Cleared, readyTasksOf
<1>6. taskCache[t] = None /\ Busy(t) => tasks[t] # None
  BY <1>3, Zenon DEF Busy, Active, None
<1>. QED BY <1>2, <1>4, <1>5, <1>6, Zenon

LEMMA RanksDiffer ==
  ASSUME IInv, NEW t \in readyTasksOf(taskCache), NEW u \in readyTasksOf(taskCache),
         First(t), First(u)
  PROVE  t = u
<1>1. spec \in Specs /\ spec \in JobSpec /\ t \in Tasks /\ u \in Tasks
  BY SpecsAssumption, Zenon DEF IInv, ControlTypes, readyTasksOf
<1>2. spec.rank \in [Tasks -> Nat] /\ (spec.rank[t] = spec.rank[u] => t = u)
  BY <1>1, SpecsAssumption, Zenon DEF JobSpec
<1>3. spec.rank[t] <= spec.rank[u] /\ spec.rank[u] <= spec.rank[t] BY Zenon DEF First
<1>. QED BY <1>1, <1>2, <1>3

\* A task is written, one that has not ended.
LEMMA TaskWritten ==
  ASSUME IInv, NEW t \in Tasks, NEW ph \in TaskPhases \ {None}, WriteTask(t, ph),
         TaskStream, LastEvents, tasks[t] \notin Finished
  PROVE  /\ TaskStream' /\ LastEvents' /\ ~Current(t)'
         /\ \A u \in Tasks \ {t} : (Current(u)' <=> Current(u)) /\ tasks'[u] = tasks[u]
         /\ tasks'[t] = ph
<1>. DEFINE n == Len(taskEvents)
<1>0. tasks \in [Tasks -> TaskPhases] /\ taskEvents \in Seq(Tasks \X TaskPhases)
  BY Zenon DEF IInv, TaskTypes
<1>1. tasks' = [tasks EXCEPT ![t] = ph] /\ taskEvents' = Append(taskEvents, <<t, ph>>)
      /\ taskCache' = taskCache
  BY Zenon DEF WriteTask
<1>2. tasks'[t] = ph /\ \A u \in Tasks \ {t} : tasks'[u] = tasks[u] BY <1>0, <1>1, Zenon
<1>3. <<t, ph>> \in Tasks \X TaskPhases BY Zenon
<1>4. /\ n \in Nat /\ Len(taskEvents') = n + 1 /\ taskEvents'[n + 1] = <<t, ph>>
      /\ \A i \in 1..n : taskEvents'[i] = taskEvents[i]
  BY <1>0, <1>1, <1>3
<1>5. n \in Nat /\ n + 1 \in 1..(n + 1) /\ 1..(n + 1) = (1..n) \cup {n + 1}
      /\ \A i \in 1..n : i < n + 1 /\ i # n + 1 /\ ~(n + 1 < i)
  BY <1>4
<1>6. \A i \in 1..n : taskEvents[i][1] \in Tasks /\ taskEvents[i][2] \in TaskPhases
  BY <1>0
<1>. HIDE DEF n
<1>7. Len(taskEvents) = n BY Zenon DEF n
<1>8. ~Current(t)' BY <1>4, <1>5 DEF Current
<1>9. ASSUME NEW u \in Tasks, u # t PROVE Current(u)' <=> Current(u)
  BY <1>4, <1>5, <1>7, <1>9 DEF Current
<1>10. ASSUME NEW i \in 1..n, taskEvents[i][1] # t
       PROVE  (\A k \in 1..n : i < k => taskEvents[k][1] # taskEvents[i][1]) =>
              (\A k \in 1..(n + 1) : i < k => taskEvents'[k][1] # taskEvents'[i][1])
  BY <1>4, <1>5, <1>10
<1>11. TaskStream'
  <2>1. \A u \in Tasks : taskCache[u] # None => tasks'[u] # None
    BY <1>2, Zenon DEF TaskStream
  <2>2. \A u \in Tasks : taskCache[u] \in Finished => Current(u)'
    BY <1>9, Zenon DEF TaskStream
  <2>3. \A u \in Tasks : Current(u)' => taskCache[u] = tasks'[u]
    BY <1>2, <1>8, <1>9, Zenon DEF TaskStream
  <2>4. ASSUME NEW i \in 1..(n + 1)
        PROVE  /\ tasks'[taskEvents'[i][1]] # None
               /\ \/ taskEvents'[i][2] \in Active
                  \/ /\ taskEvents'[i][2] = tasks'[taskEvents'[i][1]]
                     /\ \A k \in 1..(n + 1) : i < k => taskEvents'[k][1] # taskEvents'[i][1]
    <3>1. CASE i = n + 1
      <4>1. taskEvents'[i][1] = t /\ taskEvents'[i][2] = ph BY <1>4, <3>1
      <4>2. \A k \in 1..(n + 1) : ~(i < k) BY <1>5, <3>1
      <4>. QED BY <1>2, <4>1, <4>2, Zenon
    <3>2. CASE i \in 1..n
      <4>1. /\ tasks[taskEvents[i][1]] # None
            /\ \/ taskEvents[i][2] \in Active
               \/ /\ taskEvents[i][2] = tasks[taskEvents[i][1]]
                  /\ \A k \in 1..n : i < k => taskEvents[k][1] # taskEvents[i][1]
        BY <1>7, <3>2, Zenon DEF TaskStream
      <4>2. taskEvents'[i] = taskEvents[i] /\ taskEvents[i][1] \in Tasks BY <1>4, <1>6, <3>2, Zenon
      <4>3. CASE taskEvents[i][1] = t
        BY <1>2, <3>2, <4>1, <4>2, <4>3, <1>6, Zenon DEF TaskPhases, Finished, Active
      <4>4. CASE taskEvents[i][1] # t
        BY <1>2, <1>10, <3>2, <4>1, <4>2, <4>4
      <4>. QED BY <4>3, <4>4, Zenon
    <3>. QED BY <1>5, <3>1, <3>2, Zenon
  <2>. QED BY <1>1, <1>4, <2>1, <2>2, <2>3, <2>4 DEF TaskStream
<1>12. LastEvents'
  <2>1. ASSUME NEW i \in 1..(n + 1),
               \A k \in 1..(n + 1) : i < k => taskEvents'[k][1] # taskEvents'[i][1]
        PROVE  taskEvents'[i][2] = tasks'[taskEvents'[i][1]]
    <3>1. CASE i = n + 1 BY <1>2, <1>4, <3>1
    <3>2. CASE i \in 1..n
      <4>1. taskEvents'[i] = taskEvents[i] /\ taskEvents[i][1] \in Tasks /\ taskEvents[i][1] # t
        BY <1>4, <1>5, <1>6, <2>1, <3>2
      <4>2. \A k \in 1..n : i < k => taskEvents[k][1] # taskEvents[i][1]
        BY <1>4, <1>5, <2>1, <3>2, Zenon
      <4>. QED BY <1>2, <1>7, <3>2, <4>1, <4>2, Zenon DEF LastEvents
    <3>. QED BY <1>5, <3>1, <3>2, Zenon
  <2>. QED BY <1>4, <2>1, Zenon DEF LastEvents
<1>. QED BY <1>2, <1>8, <1>9, <1>11, <1>12, Zenon

LEMMA WriteSound ==
  ASSUME IInv, NEW t \in Tasks, NEW ph, WriteTask(t, ph), spec' = spec, tasks[t] \notin Finished,
         NEW j, Sound(j)
  PROVE  Sound(j)'
<1>1. \A u \in Tasks \ {t} : tasks'[u] = tasks[u] BY Zenon DEF IInv, TaskTypes, WriteTask
<1>. QED BY <1>1, Zenon DEF Sound, criticalTasks, Finished

\* The versions of the job, and the loop, when a task that has not ended is written.
LEMMA WriteStream ==
  ASSUME IInv, JobStream, LoopInv, NEW t \in Tasks, NEW ph, WriteTask(t, ph), spec' = spec,
         tasks[t] \notin Finished, UNCHANGED <<op, base, next>>, todo' \subseteq todo
  PROVE  JobStream' /\ LoopInv' /\ (Unstopped' <=> Unstopped)
<1>1. \A j : Sound(j) => Sound(j)' BY WriteSound, Zenon
<1>2. jobCache' = jobCache /\ jobEvents' = jobEvents BY Zenon DEF WriteTask
<1>3. JobStream' BY <1>1, <1>2, Zenon DEF JobStream
<1>4. LoopInv' BY <1>1, <1>2, Zenon DEF LoopInv, unfinished
<1>. QED BY <1>2, <1>3, <1>4, Zenon DEF Unstopped

\* createTask, the task being new.
LEMMA CreateTrust ==
  ASSUME IInv, Trust, ~restarted, NEW t \in Tasks, createTask(t), tasks[t] = None
  PROVE  Trust'
<1>1. /\ op = "create" /\ t \in todo /\ WriteTask(t, "Pending") /\ spec' = spec
      /\ UNCHANGED <<op, base, next>> /\ todo' = todo \ {t} /\ todo \subseteq Tasks
  BY Zenon DEF createTask, InLoop, Reached, IInv, ControlTypes
<1>2. JobStream /\ LoopInv /\ ParallelismBounded /\ Undisturbed
  BY <1>1, Zenon DEF Trust, Unstopped
<1>3. tasks[t] \notin Finished BY Zenon DEF None, Finished
<1>4. JobStream' /\ LoopInv' BY <1>1, <1>2, <1>3, WriteStream, Zenon
<1>5. /\ TaskStream' /\ LastEvents' /\ ~Current(t)' /\ tasks'[t] = "Pending"
      /\ \A u \in Tasks \ {t} : (Current(u)' <=> Current(u)) /\ tasks'[u] = tasks[u]
  BY <1>1, <1>2, <1>3, TaskWritten, Zenon DEF Undisturbed, TaskPhases, None
<1>6. /\ \A u \in Tasks \ {t} : Busy(u)' <=> Busy(u)
      /\ \A u : (First(u)' <=> First(u)) /\ (Cleared(u)' <=> Cleared(u))
  BY <1>1, <1>5, Zenon DEF Busy, First, Cleared, readyTasksOf, WriteTask
<1>7. Turns'
  <2>1. Cleared(t) /\ next.phase = "Running" BY <1>1, <1>2, Zenon DEF Undisturbed, Turns
  <2>2. \A u \in Tasks : tasks'[u] # None => Cleared(u)
    BY <1>2, <1>5, <2>1, Zenon DEF Undisturbed, Turns
  <2>. QED BY <1>1, <1>2, <1>6, <2>1, <2>2, Zenon DEF Undisturbed, Turns
<1>8. ASSUME spec.maxParallelism = 1
      PROVE  OneBusy' /\ \A u \in Tasks : tasks'[u] \in Active => u = t
  <2>1. OneBusy BY <1>2, <1>8, Zenon DEF Undisturbed
  <2>2. First(t) /\ \A u \in Tasks : ~Busy(u) BY <1>1, <2>1, Zenon DEF OneBusy
  <2>3. \A u \in Tasks : Busy(u)' => u = t BY <1>6, <2>2, Zenon
  <2>4. \A u \in todo' : tasks'[u] # None
    <3>1. SUFFICES ASSUME NEW u \in todo', tasks'[u] = None PROVE FALSE BY Zenon
    <3>2. u \in todo /\ u # t /\ u \in Tasks /\ tasks[u] = None BY <1>1, <1>5, <3>1, Zenon
    <3>3. First(u) BY <1>1, <2>1, <3>2, Zenon DEF OneBusy
    <3>4. t \in readyTasksOf(taskCache) /\ u \in readyTasksOf(taskCache)
      BY <1>1, <1>2, <3>2, Zenon DEF Undisturbed, Turns, TaskStream, Cleared, readyTasksOf
    <3>. QED BY <2>2, <3>2, <3>3, <3>4, RanksDiffer, Zenon
  <2>5. OneBusy' BY <1>6, <2>2, <2>3, <2>4, Zenon DEF OneBusy
  <2>. QED BY <2>3, <2>5, Zenon DEF Busy
<1>9. ParallelismBounded' BY <1>1, <1>8, Zenon DEF ParallelismBounded, Active
<1>10. Undisturbed' BY <1>1, <1>5, <1>7, <1>8, Zenon DEF Undisturbed
<1>. QED BY <1>4, <1>9, <1>10, Zenon DEF Trust

\* taskRuns: the KusciaTask controller.
LEMMA TaskRunsTrust ==
  ASSUME IInv, Trust, ~restarted, NEW t \in Tasks, taskRuns(t)
  PROVE  Trust'
<1>0. tasks[t] \in Active /\ tasks[t] \notin Finished BY Zenon DEF taskRuns, Active, Finished
<1>1. PICK ph \in {"Running", "Failed", "Succeeded"} : WriteTask(t, ph)
  BY Zenon DEF taskRuns, Finished
<1>2. UNCHANGED <<spec, op, base, next, todo>> BY Zenon DEF taskRuns, Others, worker
<1>3. JobStream /\ LoopInv /\ ParallelismBounded BY Zenon DEF Trust
<1>4. JobStream' /\ LoopInv' /\ (Unstopped' <=> Unstopped)
  BY <1>0, <1>1, <1>2, <1>3, WriteStream, Zenon
<1>5. tasks'[t] = ph /\ \A u \in Tasks \ {t} : tasks'[u] = tasks[u]
  BY <1>1, Zenon DEF IInv, TaskTypes, WriteTask
<1>6. \A u \in Tasks : tasks'[u] \in Active => tasks[u] \in Active BY <1>0, <1>5, Zenon
<1>7. ParallelismBounded'
  BY <1>2, <1>3, <1>6, ~restarted DEF ParallelismBounded, Active
<1>8. ASSUME Unstopped PROVE Undisturbed'
  <2>1. Undisturbed BY <1>8, Zenon DEF Trust
  <2>2. ph \in TaskPhases \ {None} BY Zenon DEF TaskPhases, None
  <2>3. /\ TaskStream' /\ LastEvents' /\ ~Current(t)'
        /\ \A u \in Tasks \ {t} : Current(u)' <=> Current(u)
    BY <1>0, <1>1, <2>1, <2>2, TaskWritten, Zenon DEF Undisturbed
  <2>4. /\ \A u \in Tasks : Busy(u)' <=> Busy(u)
        /\ \A u : (First(u)' <=> First(u)) /\ (Cleared(u)' <=> Cleared(u))
    BY <1>0, <1>1, <1>2, <1>5, <2>3, Zenon DEF Busy, First, Cleared, readyTasksOf, WriteTask
  <2>5. \A u \in Tasks : tasks'[u] # None <=> tasks[u] # None
    BY <1>0, <1>5, <2>2, Zenon DEF Active, None
  <2>6. Turns'
    BY <1>0, <1>2, <2>1, <2>4, <2>5, Zenon DEF Undisturbed, Turns, isInterConnJob
  <2>7. spec.maxParallelism = 1 => OneBusy'
    <3>1. Busy(t) BY <1>0, Zenon DEF Busy
    <3>2. todo \subseteq Tasks /\ taskCache' = taskCache
      BY <1>1, Zenon DEF IInv, ControlTypes, WriteTask
    <3>. QED BY <1>2, <2>1, <2>4, <2>5, <3>1, <3>2, Zenon DEF Undisturbed, OneBusy
  <2>. QED BY <1>2, <2>3, <2>6, <2>7, Zenon DEF Undisturbed
<1>. QED BY <1>4, <1>7, <1>8, Zenon DEF Trust

\* stopTask: no version of the job will show this task Succeeded.
LEMMA StopTaskTrust ==
  ASSUME IInv, Trust, ~restarted, NEW t \in Tasks, stopTask(t), tasks[t] \notin {None, "Failed"}
  PROVE  Trust'
<1>1. /\ op = "stop" /\ t \in todo /\ WriteTask(t, "Failed") /\ spec' = spec
      /\ UNCHANGED <<op, base, next>> /\ todo' \subseteq todo
  BY Zenon DEF stopTask, InLoop, Reached
<1>2. JobStream /\ LoopInv /\ ParallelismBounded BY Zenon DEF Trust
<1>3. /\ Halting(base) /\ base.tasks[t] # "Succeeded" /\ Later(base, jobCache) /\ Later(base, next)
      /\ Sound(base) /\ Sound(next)
  BY <1>1, <1>2, Zenon DEF LoopInv, unfinished
<1>4. tasks'[t] = "Failed" /\ (\A u \in Tasks \ {t} : tasks'[u] = tasks[u])
      /\ jobCache' = jobCache /\ jobEvents' = jobEvents
  BY <1>1, Zenon DEF IInv, TaskTypes, WriteTask
<1>5. ASSUME NEW j, Sound(j), j.tasks[t] # "Succeeded" PROVE Sound(j)'
  BY <1>1, <1>4, <1>5, Zenon DEF Sound, criticalTasks, Finished
<1>6. Halting(jobCache) /\ jobCache.tasks[t] # "Succeeded" /\ next.tasks[t] # "Succeeded"
  BY <1>3, Zenon DEF Later
<1>7. JobStream'
  <2>1. \A i \in 1..Len(jobEvents) : jobEvents[i].tasks[t] # "Succeeded"
    BY <1>2, <1>6, Zenon DEF JobStream, Later
  <2>. QED BY <1>2, <1>4, <1>5, <1>6, <2>1, Zenon DEF JobStream
<1>8. LoopInv' BY <1>1, <1>2, <1>3, <1>4, <1>5, <1>6, Zenon DEF LoopInv, unfinished
<1>9. ParallelismBounded'
  BY <1>1, <1>2, <1>4, ~restarted DEF ParallelismBounded
<1>10. ~Unstopped' BY <1>1, <1>4, <1>6, Zenon DEF Unstopped
<1>. QED BY <1>7, <1>8, <1>9, <1>10, Zenon DEF Trust

\* handleTaskObject: the first event of the tasks' stream reaches the lister.
LEMMA TaskObjectTrust ==
  ASSUME IInv, Trust, ~restarted, handleTaskObject
  PROVE  Trust'
<1>. DEFINE n == Len(taskEvents)
<1>0. /\ taskEvents \in Seq(Tasks \X TaskPhases) /\ taskEvents # <<>>
      /\ taskCache \in [Tasks -> TaskPhases]
      /\ UNCHANGED <<spec, jobCache, jobEvents, tasks, op, base, next, todo>>
  BY Zenon DEF handleTaskObject, worker, IInv, TaskTypes
<1>1. /\ Head(taskEvents) = taskEvents[1] /\ taskEvents[1] \in Tasks \X TaskPhases
      /\ n \in Nat \ {0} /\ Len(Tail(taskEvents)) = n - 1
      /\ \A i \in 1..(n - 1) : Tail(taskEvents)[i] = taskEvents[i + 1]
  BY <1>0, HeadAndTail
<1>11. PICK t \in Tasks, ph \in TaskPhases : taskEvents[1] = <<t, ph>>
  BY <1>1
<1>2. /\ taskCache' = [taskCache EXCEPT ![t] = ph] /\ t \in Tasks
      /\ Len(taskEvents') = n - 1 /\ \A i \in 1..(n - 1) : taskEvents'[i] = taskEvents[i + 1]
  <2>1. Head(taskEvents)[1] = t /\ Head(taskEvents)[2] = ph BY <1>1, <1>11
  <2>2. taskCache' = [taskCache EXCEPT ![t] = ph] /\ taskEvents' = Tail(taskEvents)
    BY <2>1, Zenon DEF handleTaskObject
  <2>. QED BY <1>1, <2>2, Zenon
<1>3. taskCache'[t] = ph /\ \A u \in Tasks \ {t} : taskCache'[u] = taskCache[u] BY <1>0, <1>2, Zenon
<1>4. /\ 1 \in 1..n /\ \A i \in 1..(n - 1) : i + 1 \in 1..n /\ 1 < i + 1
      /\ \A i \in 1..n : i = 1 \/ (i - 1 \in 1..(n - 1) /\ (i - 1) + 1 = i)
      /\ \A i, k \in 1..(n - 1) : i < k <=> i + 1 < k + 1
  BY <1>1
<1>5. JobStream /\ LoopInv /\ ParallelismBounded BY Zenon DEF Trust
<1>6. \A j : Sound(j)' <=> Sound(j) BY <1>0, Zenon DEF Sound, criticalTasks
<1>7. JobStream' BY <1>0, <1>5, <1>6, Zenon DEF JobStream
<1>8. LoopInv' BY <1>0, <1>5, <1>6, Zenon DEF LoopInv, unfinished
<1>9. ParallelismBounded' BY <1>0, <1>5, ~restarted, Zenon DEF ParallelismBounded
<1>10. Unstopped' <=> Unstopped BY <1>0, Zenon DEF Unstopped
<1>13. n = Len(taskEvents) /\ t = taskEvents[1][1] /\ ph = taskEvents[1][2] BY <1>11
<1>. HIDE DEF n
<1>12. ASSUME Undisturbed PROVE Undisturbed'
  <2>1. TaskStream /\ LastEvents /\ Turns BY <1>12, Zenon DEF Undisturbed
  <2>2. ~Current(t) BY <1>4, <1>13, Zenon DEF Current
  <2>3. taskCache[t] \notin Finished /\ tasks[t] # None
    BY <1>2, <1>4, <1>13, <2>1, <2>2, Zenon DEF TaskStream
  <2>4. \A u \in Tasks : Current(u) => Current(u)' BY <1>2, <1>4, <1>13, SMTT(20) DEF Current
  <2>5. ASSUME NEW u \in Tasks, u # t PROVE Current(u)' => Current(u)
    <3>1. SUFFICES ASSUME Current(u)', NEW i \in 1..n PROVE taskEvents[i][1] # u
      BY <1>13, Zenon DEF Current
    <3>2. CASE i = 1 BY <1>13, <2>5, <3>2, Zenon
    <3>3. CASE i - 1 \in 1..(n - 1) /\ (i - 1) + 1 = i BY <1>2, <3>1, <3>3 DEF Current
    <3>. QED BY <1>4, <3>2, <3>3, Zenon
  <2>6. Current(t)' <=> \A k \in 1..n : 1 < k => taskEvents[k][1] # t
    <3>1. Current(t)' => \A k \in 1..n : 1 < k => taskEvents[k][1] # t
      <4>1. SUFFICES ASSUME Current(t)', NEW k \in 1..n, 1 < k PROVE taskEvents[k][1] # t BY Zenon
      <4>2. k - 1 \in 1..(n - 1) /\ (k - 1) + 1 = k BY <1>4, <4>1
      <4>. QED BY <1>2, <4>1, <4>2 DEF Current
    <3>2. (\A k \in 1..n : 1 < k => taskEvents[k][1] # t) => Current(t)'
      BY <1>2, <1>4, Zenon DEF Current
    <3>. QED BY <3>1, <3>2, Zenon
  <2>7. ph \in Active \/ (ph = tasks[t] /\ Current(t)')
    BY <1>4, <1>13, <2>1, <2>6, Zenon DEF TaskStream
  <2>8. TaskStream'
    <3>1. \A u \in Tasks : taskCache'[u] # None => tasks[u] # None
      BY <1>3, <2>1, <2>3, Zenon DEF TaskStream
    <3>2. \A u \in Tasks : taskCache'[u] \in Finished => Current(u)'
      BY <1>3, <2>1, <2>4, <2>7, Zenon DEF TaskStream, Active, Finished
    <3>3. \A u \in Tasks : Current(u)' => taskCache'[u] = tasks[u]
      <4>1. Current(t)' => ph = tasks[t] BY <1>4, <1>13, <2>1, <2>6, Zenon DEF LastEvents
      <4>. QED BY <1>3, <2>1, <2>5, <4>1, Zenon DEF TaskStream
    <3>4. ASSUME NEW i \in 1..(n - 1)
          PROVE  /\ tasks[taskEvents'[i][1]] # None
                 /\ \/ taskEvents'[i][2] \in Active
                    \/ /\ taskEvents'[i][2] = tasks[taskEvents'[i][1]]
                       /\ \A k \in 1..(n - 1) : i < k => taskEvents'[k][1] # taskEvents'[i][1]
      <4>1. i + 1 \in 1..n /\ taskEvents'[i] = taskEvents[i + 1] BY <1>2, <1>4, Zenon
      <4>2. /\ tasks[taskEvents[i + 1][1]] # None
            /\ \/ taskEvents[i + 1][2] \in Active
               \/ /\ taskEvents[i + 1][2] = tasks[taskEvents[i + 1][1]]
                  /\ \A k \in 1..n : i + 1 < k => taskEvents[k][1] # taskEvents[i + 1][1]
        BY <1>13, <2>1, <4>1, Zenon DEF TaskStream
      <4>. QED BY <1>2, <1>4, <4>1, <4>2
    <3>. QED BY <1>0, <1>2, <3>1, <3>2, <3>3, <3>4, Zenon DEF TaskStream
  <2>9. LastEvents'
    <3>1. ASSUME NEW i \in 1..(n - 1),
                 \A k \in 1..(n - 1) : i < k => taskEvents'[k][1] # taskEvents'[i][1]
          PROVE  taskEvents'[i][2] = tasks[taskEvents'[i][1]]
      <4>1. i + 1 \in 1..n /\ taskEvents'[i] = taskEvents[i + 1] BY <1>2, <1>4, Zenon
      <4>2. ASSUME NEW k \in 1..n, i + 1 < k PROVE taskEvents[k][1] # taskEvents[i + 1][1]
        <5>1. k - 1 \in 1..(n - 1) /\ (k - 1) + 1 = k /\ i < k - 1 BY <1>1, <4>2, n \in Nat
        <5>. QED BY <1>2, <3>1, <4>1, <5>1, Zenon
      <4>. QED BY <1>13, <2>1, <4>1, <4>2, Zenon DEF LastEvents
    <3>. QED BY <1>0, <1>2, <3>1, Zenon DEF LastEvents
  <2>10. \A u \in Tasks : Cleared(u) => Cleared(u)'
    <3>1. \A d : taskCache[d] = "Succeeded" /\ d \in Tasks => taskCache'[d] = "Succeeded"
      BY <1>3, <2>3, Zenon DEF Finished
    <3>2. \A u \in Tasks : spec.deps[u] \subseteq Tasks
      BY SpecsAssumption, Zenon DEF IInv, ControlTypes, JobSpec
    <3>. QED BY <1>0, <3>1, <3>2, Zenon DEF Cleared
  <2>11. Turns'
    <3>1. todo \subseteq Tasks BY Zenon DEF IInv, ControlTypes
    <3>2. readyTasksOf(tasks)' = readyTasksOf(tasks) /\ (isInterConnJob' <=> isInterConnJob)
      BY <1>0, Zenon DEF readyTasksOf, isInterConnJob
    <3>. QED BY <1>0, <2>1, <2>10, <3>1, <3>2, Zenon DEF Turns
  <2>12. ASSUME spec.maxParallelism = 1 PROVE OneBusy'
    <3>1. OneBusy /\ Busy(t) BY <1>12, <2>2, <2>12, Zenon DEF Undisturbed, Busy
    <3>2. \A u \in Tasks : Busy(u)' => Busy(u) BY <1>0, <2>4, Zenon DEF Busy
    <3>3. \A u \in Tasks : Busy(u) => u = t BY <1>2, <3>1, Zenon DEF OneBusy
    <3>4. taskCache'[t] # None BY <1>3, <2>3, <2>7, Zenon DEF Active, None
    <3>5. op = "create" => \A u \in todo : tasks[u] # None BY <1>2, <3>1, Zenon DEF OneBusy
    <3>. QED BY <1>0, <3>2, <3>3, <3>4, <3>5, Zenon DEF OneBusy
  <2>. QED BY <1>0, <2>8, <2>9, <2>11, <2>12, Zenon DEF Undisturbed
<1>. QED BY <1>7, <1>8, <1>9, <1>10, <1>12, Zenon DEF Trust

\* deliverJob: the lister's version is a later one.
LEMMA DeliverTrust ==
  ASSUME IInv, Trust, ~restarted, deliverJob
  PROVE  Trust'
<1>. DEFINE n == Len(jobEvents)
<1>0. /\ jobEvents \in Seq(Job) /\ jobEvents # <<>>
      /\ UNCHANGED <<spec, tasks, taskCache, taskEvents, op, base, next, todo>>
  BY Zenon DEF deliverJob, worker, IInv, JobTypes
<1>1. /\ Head(jobEvents) = jobEvents[1] /\ n \in Nat \ {0} /\ Len(Tail(jobEvents)) = n - 1
      /\ \A i \in 1..(n - 1) : Tail(jobEvents)[i] = jobEvents[i + 1]
  BY <1>0, HeadAndTail, Zenon
<1>2. /\ jobCache' = jobEvents[1] /\ Len(jobEvents') = n - 1
      /\ \A i \in 1..(n - 1) : jobEvents'[i] = jobEvents[i + 1]
  BY <1>1, Zenon DEF deliverJob
<1>3. /\ 1 \in 1..n /\ \A i \in 1..(n - 1) : i + 1 \in 1..n /\ 1 < i + 1
      /\ \A i, k \in 1..(n - 1) : i < k <=> i + 1 < k + 1
  BY <1>1
<1>4. JobStream /\ LoopInv /\ ParallelismBounded /\ (Unstopped => Undisturbed) BY Zenon DEF Trust
<1>5. \A j : Sound(j)' <=> Sound(j) BY <1>0, Zenon DEF Sound, criticalTasks
<1>6. JobStream'
  <2>1. Sound(jobEvents[1]) BY <1>3, <1>4, Zenon DEF JobStream
  <2>2. \A i \in 1..(n - 1) : Later(jobEvents[1], jobEvents[i + 1]) /\ Sound(jobEvents[i + 1])
    BY <1>3, <1>4, Zenon DEF JobStream
  <2>3. \A i, k \in 1..(n - 1) : i < k => Later(jobEvents[i + 1], jobEvents[k + 1])
    BY <1>3, <1>4, Zenon DEF JobStream
  <2>. QED BY <1>2, <1>5, <2>1, <2>2, <2>3, Zenon DEF JobStream
<1>7. Later(jobCache, jobEvents[1]) BY <1>3, <1>4, Zenon DEF JobStream
<1>8. LoopInv' BY <1>0, <1>2, <1>4, <1>5, <1>7, LaterTransitive DEF LoopInv, unfinished
<1>9. ParallelismBounded' BY <1>0, <1>4, ~restarted, Zenon DEF ParallelismBounded
<1>10. Unstopped' => Unstopped BY <1>0, <1>2, <1>7, Zenon DEF Unstopped, Later
<1>11. ASSUME Undisturbed PROVE Undisturbed'
  <2>1. \A t : (Current(t)' <=> Current(t)) /\ (Busy(t)' <=> Busy(t))
              /\ (First(t)' <=> First(t)) /\ (Cleared(t)' <=> Cleared(t))
    BY <1>0, Zenon DEF Current, Busy, First, Cleared, readyTasksOf
  <2>2. TaskStream' /\ LastEvents' BY <1>0, <1>11, <2>1 DEF Undisturbed, TaskStream, LastEvents
  <2>3. Turns' BY <1>0, <1>11, <2>1, Zenon DEF Undisturbed, Turns, readyTasksOf, isInterConnJob
  <2>4. spec.maxParallelism = 1 => OneBusy' BY <1>0, <1>11, <2>1, Zenon DEF Undisturbed, OneBusy
  <2>. QED BY <1>0, <2>2, <2>3, <2>4, Zenon DEF Undisturbed
<1>. QED BY <1>4, <1>6, <1>8, <1>9, <1>10, <1>11, Zenon DEF Trust

Restarting == handleStageCmdRestart \/ handleRestartWait \/ handleRestartComplete
Stopping ==
  handleStageCmdStop \/ handleStageCmdCancelled \/ handleStageCmdSuspend \/ handleFailed
Writing ==
  \E t \in Tasks : \/ createTask(t) /\ tasks[t] = None
                   \/ stopTask(t) /\ tasks[t] \notin {None, "Failed"}
                   \/ taskRuns(t)

\* Before a restart no task is deleted: the steps, by what they may disturb.
LEMMA StepKinds ==
  ASSUME IInv, IInv', Trust, ~restarted, Next
  PROVE  Quiet \/ Restarting \/ Stopping \/ handleRunning \/ Writing \/ handleTaskObject \/ deliverJob
<1>0. JobStream /\ LoopInv BY Zenon DEF Trust
<1>1. CASE syncHandler BY <1>0, <1>1, PhaseQuiet, Zenon DEF syncHandler, Restarting, Stopping
<1>2. CASE taskLoop
  <2>1. CASE endLoop BY <1>0, <2>1, EndQuiet, Zenon
  <2>2. ASSUME NEW t \in Tasks,
               \/ createTask(t) \/ createTaskError(t) \/ stopTask(t) \/ stopTaskError(t)
               \/ deleteTask(t) \/ deleteTaskError(t)
        PROVE  Quiet \/ Writing
    <3>1. ~deleteTask(t) /\ ~deleteTaskError(t)
      BY <1>0, Zenon DEF deleteTask, deleteTaskError, InLoop, LoopInv
    <3>. QED BY <1>0, <2>2, <3>1, LoopQuiet, Zenon DEF Writing
  <2>. QED BY <1>2, <2>1, <2>2, Zenon DEF taskLoop
<1>3. CASE resync \/ partnerActs
           \/ \E stage \in {"stop", "cancel", "suspend", "restart"} : setJobStage(stage)
  BY <1>0, <1>3, WritersQuiet, Zenon
<1>4. CASE \E t \in Tasks : taskRuns(t) BY <1>4, Zenon DEF Writing
<1>. QED BY <1>1, <1>2, <1>3, <1>4, Zenon DEF Next

LEMMA RestartNoted == ASSUME Restarting PROVE restarted' = TRUE
  BY Zenon DEF Restarting, handleStageCmdRestart, handleRestartWait, handleRestartComplete,
               Command, Dequeue

\* restarted stays.
LEMMA RestartedStays ==
  ASSUME [Next]_vars, restarted
  PROVE  restarted'
<1>1. CASE syncHandler
  <2>1. Dequeue
    BY <1>1, Zenon
    DEF syncHandler, SkipFinished, validateJob, annotateKusciaJob, handleInitialized,
        handleStageCmdStart, handleStageCmdStop, handleStageCmdCancelled, handleStageCmdSuspend,
        handleStageCmdRestart, handleRestartWait, handleRestartComplete, handleAwaitingApproval,
        handlePending, setJobTaskID, handleRunning, handleSuspended, handleFailed,
        handleFailedDone, Command, Uncommanded, Handles
  <2>. QED BY <2>1, Zenon DEF Dequeue
<1>2. CASE taskLoop
  BY <1>2, Zenon DEF taskLoop, createTask, createTaskError, stopTask, stopTaskError, deleteTask,
                     deleteTaskError, InLoop, endLoop
<1>3. CASE deliverJob \/ handleTaskObject \/ resync
  BY <1>3, Zenon DEF deliverJob, handleTaskObject, resync
<1>4. CASE \E stage \in {"stop", "cancel", "suspend", "restart"} : setJobStage(stage)
  BY <1>4, Zenon DEF setJobStage
<1>5. CASE (\E t \in Tasks : taskRuns(t)) \/ partnerActs
  BY <1>5, Zenon
  DEF taskRuns, partnerActs, partnerApproves, partnerReports, partnerFails, Reported, Others
<1>6. CASE UNCHANGED vars BY <1>6, Zenon DEF vars
<1>. QED BY <1>1, <1>2, <1>3, <1>4, <1>5, <1>6, Zenon DEF Next

LEMMA TrustInit == ASSUME Init PROVE Trust
<1>1. /\ jobCache = NewJob(spec) /\ jobEvents = <<>> /\ op = "idle" /\ taskEvents = <<>>
      /\ tasks = [t \in Tasks |-> None] /\ taskCache = tasks
  BY Zenon DEF Init
<1>2. Len(jobEvents) = 0 /\ Len(taskEvents) = 0 /\ 1..0 = {} BY <1>1
<1>3. \A t \in Tasks : /\ jobCache.tasks[t] = None /\ tasks[t] = None /\ taskCache[t] = None
                       /\ Current(t) /\ ~Busy(t)
  BY <1>1, <1>2, Zenon DEF NewJob, Current, Busy, None, Active
<1>4. JobStream BY <1>1, <1>2, <1>3, Zenon DEF JobStream, Sound, NewJob, None
<1>5. LoopInv /\ ParallelismBounded BY <1>1, <1>3, Zenon DEF LoopInv, ParallelismBounded, None
<1>6. TaskStream /\ LastEvents /\ Turns /\ OneBusy
  BY <1>1, <1>2, <1>3, Zenon DEF TaskStream, LastEvents, Turns, OneBusy, None, Finished
<1>. QED BY <1>4, <1>5, <1>6, Zenon DEF Trust, Undisturbed

\* createTask is the only step that makes a task.
LEMMA OnlyCreateMakes ==
  ASSUME IInv, IInv', Trust, ~restarted, Next, NEW t \in Tasks, tasks[t] = None, tasks'[t] # None
  PROVE  createTask(t)
<1>1. ASSUME tasks' = tasks PROVE FALSE BY <1>1, Zenon
<1>2. CASE Quiet BY <1>1, <1>2, Zenon DEF Quiet
<1>3. CASE Restarting
  <2>1. tasks' = tasks
    BY <1>3, Zenon
    DEF Restarting, handleStageCmdRestart, handleRestartWait, handleRestartComplete, Begin, Save,
        UpdateStatus, SyncError, WriteJob, KeepJob, objects
  <2>. QED BY <1>1, <2>1, Zenon
<1>4. CASE Stopping \/ handleRunning
  <2>1. tasks' = tasks
    BY <1>4, Zenon
    DEF Stopping, handleStageCmdStop, handleStageCmdCancelled, handleStageCmdSuspend, handleFailed,
        handleRunning, Begin, objects
  <2>. QED BY <1>1, <2>1, Zenon
<1>5. CASE handleTaskObject \/ deliverJob BY <1>1, <1>5, Zenon DEF handleTaskObject, deliverJob
<1>6. ASSUME NEW u \in Tasks,
             \/ createTask(u) /\ tasks[u] = None
             \/ stopTask(u) /\ tasks[u] \notin {None, "Failed"}
             \/ taskRuns(u)
      PROVE  createTask(t)
  <2>1. PICK ph : WriteTask(u, ph) BY <1>6, Zenon DEF createTask, stopTask, taskRuns
  <2>2. u = t BY <2>1, Zenon DEF WriteTask, IInv, TaskTypes
  <2>3. ~taskRuns(t) BY Zenon DEF taskRuns, None
  <2>. QED BY <1>6, <2>2, <2>3, Zenon
<1>. QED BY <1>2, <1>3, <1>4, <1>5, <1>6, StepKinds, Zenon DEF Writing

\* A step that does not fail a running job by itself: it writes no version, or one
\* that is not failed, or done, or from a partner.
Alone == Latest.phase = "Running" /\ Latest'.phase = "Failed" /\ ~Latest'.done

LEMMA KeptLatest ==
  ASSUME UNCHANGED <<jobCache, jobEvents>> PROVE ~Alone
<1>1. Latest' = Latest BY Zenon DEF Latest
<1>. QED BY <1>1, Zenon DEF Alone

LEMMA WrittenLatest ==
  ASSUME IInv, IInv', NEW v, WriteJob(v) PROVE Latest' = v
  BY WrittenJob, WriteJobEffect, Zenon DEF IInv

LEMMA StatusAlone ==
  ASSUME IInv, IInv', NEW v, NEW current \in BOOLEAN, NEW q, UpdateStatus(v, current, q), Alone
  PROVE  current /\ Latest' = v
<1>1. (current /\ WriteJob(v)) \/ KeepJob BY Zenon DEF UpdateStatus
<1>2. ~KeepJob BY KeptLatest, Zenon DEF KeepJob, objects
<1>. QED BY <1>1, <1>2, WrittenLatest, Zenon

LEMMA ErrorNotAlone ==
  ASSUME IInv, IInv', NEW v \in Job, NEW current \in BOOLEAN, NEW q, SyncError(v, current, q)
  PROVE  ~Alone
<1>1. (current /\ WriteJob(failKusciaJob(v))) \/ KeepJob BY Zenon DEF SyncError
<1>2. CASE KeepJob BY <1>2, KeptLatest, Zenon DEF KeepJob, objects
<1>3. CASE WriteJob(failKusciaJob(v))
  <2>1. failKusciaJob(v).done BY Zenon DEF failKusciaJob, Job
  <2>. QED BY <1>3, <2>1, WrittenLatest, Zenon DEF Alone
<1>. QED BY <1>1, <1>2, <1>3, Zenon

\* The handlers without a loop: the phase they move on from is not Running.
LEMMA PhaseNotAlone ==
  ASSUME IInv, IInv', syncHandler
  PROVE  ~Alone
<1>0. jobCache \in Job /\ Latest \in Job BY LatestType, Zenon DEF IInv, JobTypes
<1>1. ASSUME NEW v, Save(v), Alone PROVE Latest = jobCache /\ Latest' = v
  <2>1. (jobEvents = <<>>) /\ Latest' = v BY <1>1, StatusAlone, Zenon DEF Save
  <2>. QED BY <2>1, Zenon DEF Latest
<1>2. ASSUME NoUpdate PROVE ~Alone BY <1>2, KeptLatest, Zenon DEF NoUpdate, KeepJob, objects
<1>3. ASSUME NEW o, NEW ts, NEW v, Begin(o, ts, v) PROVE ~Alone
  BY <1>3, KeptLatest, Zenon DEF Begin, objects
<1>4. ASSUME NEW v, Save(v), jobCache.phase # "Running" PROVE ~Alone
  BY <1>1, <1>4, Zenon DEF Alone
<1>5. ASSUME NEW v, Save(v), v.phase = jobCache.phase PROVE ~Alone
  <2>1. SUFFICES ASSUME Alone PROVE FALSE BY Zenon
  <2>2. Latest = jobCache /\ Latest' = v BY <1>1, <1>5, <2>1, Zenon
  <2>. QED BY <1>5, <2>1, <2>2, Zenon DEF Alone
<1>6. CASE SkipFinished \/ handleFailedDone
  BY <1>2, <1>6, Zenon DEF SkipFinished, handleFailedDone
<1>7. CASE \/ handleStageCmdStop \/ handleStageCmdCancelled \/ handleStageCmdSuspend
           \/ handleStageCmdRestart \/ handleRunning \/ handleFailed
  BY <1>3, <1>7, Zenon
  DEF handleStageCmdStop, handleStageCmdCancelled, handleStageCmdSuspend, handleStageCmdRestart,
      handleRunning, handleFailed
<1>8. CASE validateJob \/ handleInitialized \/ handleAwaitingApproval \/ handlePending \/ handleSuspended
  <2>1. jobCache.phase \in {"Initialized", "AwaitingApproval", "Pending", "Suspended"}
        /\ (NoUpdate \/ \E v : Save(v))
    BY <1>8, Zenon DEF validateJob, handleInitialized, handleAwaitingApproval, handlePending,
                       handleSuspended, Uncommanded, Handles
  <2>2. jobCache.phase # "Running" BY <2>1, Zenon
  <2>. QED BY <1>2, <1>4, <2>1, <2>2, Zenon
<1>9. CASE annotateKusciaJob
  <2>. DEFINE v == [jobCache EXCEPT !.annotated = TRUE]
  <2>1. KeepJob \/ WriteJob(v) BY <1>9, Zenon DEF annotateKusciaJob
  <2>2. jobCache.phase = "Initialized" /\ v.phase = jobCache.phase
    BY <1>0, <1>9, Zenon DEF annotateKusciaJob, Handles, Job
  <2>. HIDE DEF v
  <2>. QED BY <2>1, <2>2, KeptLatest, WrittenLatest, Zenon DEF Alone, KeepJob, objects
<1>10. CASE handleStageCmdStart \/ handleRestartWait
  <2>1. [jobCache EXCEPT !.own = "started"].phase = jobCache.phase BY <1>0, Zenon DEF Job
  <2>. QED BY <1>5, <1>10, <2>1, Zenon DEF handleStageCmdStart, handleRestartWait
<1>11. CASE setJobTaskID \/ handleRestartComplete
  <2>1. [Latest EXCEPT !.stage = "start"].phase = Latest.phase
        /\ [Latest EXCEPT !.ids = TRUE].phase = Latest.phase
    BY <1>0, Zenon DEF Job
  <2>2. ASSUME NEW v, WriteJob(v), v.phase = Latest.phase PROVE ~Alone
    <3>1. Latest' = v BY <2>2, WrittenLatest, Zenon
    <3>. QED BY <2>2, <3>1, Zenon DEF Alone
  <2>3. ASSUME SyncError(jobCache, jobEvents = <<>>, FALSE) PROVE ~Alone
    BY <1>0, <2>3, ErrorNotAlone, Zenon
  <2>4. ASSUME KeepJob PROVE ~Alone BY <2>4, KeptLatest, Zenon DEF KeepJob, objects
  <2>. QED BY <1>11, <2>1, <2>2, <2>3, <2>4, Zenon DEF setJobTaskID, handleRestartComplete
<1>. QED BY <1>6, <1>7, <1>8, <1>9, <1>10, <1>11, Zenon DEF syncHandler

\* The loops: only endLoop of handleRunning writes what jobStatusPhaseFrom said.
LEMMA LoopAlone ==
  ASSUME IInv, IInv', LoopInv, taskLoop, Alone
  PROVE  op = "create" /\ next.phase = "Failed"
<1>0. base \in Job /\ next \in Job /\ fresh \in BOOLEAN BY Zenon DEF IInv, JobTypes, ControlTypes
<1>1. ASSUME NEW t \in Tasks,
             createTask(t) \/ stopTask(t) \/ deleteTask(t) \/ deleteTaskError(t)
      PROVE  FALSE
  <2>1. UNCHANGED <<jobCache, jobEvents>>
    BY <1>1, Zenon
    DEF createTask, stopTask, deleteTask, deleteTaskError, WriteTask, KeepJob, objects
  <2>. QED BY <2>1, KeptLatest, Zenon
<1>2. ASSUME NEW t \in Tasks, createTaskError(t) \/ stopTaskError(t) PROVE FALSE
  <2>1. [base EXCEPT !.tasks = next.tasks] \in Job BY <1>0, Zenon DEF Job
  <2>. QED BY <1>0, <1>2, <2>1, ErrorNotAlone, Zenon DEF createTaskError, stopTaskError
<1>3. CASE endLoop
  <2>1. op # "idle" /\ (KeepJob \/ UpdateStatus(next, fresh, queued)) BY <1>3, Zenon DEF endLoop
  <2>2. ~KeepJob BY KeptLatest, Zenon DEF KeepJob, objects
  <2>3. Latest' = next BY <1>0, <2>1, <2>2, StatusAlone, Zenon
  <2>4. next.phase = "Failed" /\ ~next.done BY <2>3, Zenon DEF Alone
  <2>. QED BY <2>1, <2>4, Zenon DEF LoopInv
<1>. QED BY <1>1, <1>2, <1>3, Zenon DEF taskLoop

\* The other actors: a partner's report is for a job that has partners.
LEMMA OthersNotAlone ==
  ASSUME IInv, IInv', ~isInterConnJob,
         \/ deliverJob \/ handleTaskObject \/ resync \/ partnerActs
         \/ \E stage \in {"stop", "cancel", "suspend", "restart"} : setJobStage(stage)
         \/ \E t \in Tasks : taskRuns(t)
  PROVE  ~Alone
<1>0. Latest \in Job BY LatestType, Zenon DEF IInv
<1>1. CASE deliverJob
  <2>1. jobEvents \in Seq(Job) /\ jobEvents # <<>> /\ jobCache' = Head(jobEvents)
        /\ jobEvents' = Tail(jobEvents)
    BY <1>1, Zenon DEF deliverJob, IInv, JobTypes
  <2>2. Latest' = Latest BY <2>1, HeadAndTail, Zenon DEF Latest
  <2>. QED BY <2>2, Zenon DEF Alone
<1>2. CASE handleTaskObject \/ resync \/ \E t \in Tasks : taskRuns(t)
  <2>1. UNCHANGED <<jobCache, jobEvents>>
    BY <1>2, Zenon DEF handleTaskObject, resync, taskRuns, WriteTask, objects
  <2>. QED BY <2>1, KeptLatest, Zenon
<1>3. ASSUME NEW stage, setJobStage(stage) PROVE ~Alone
  <2>1. WriteJob([Latest EXCEPT !.stage = stage]) BY <1>3, Zenon DEF setJobStage
  <2>2. Latest' = [Latest EXCEPT !.stage = stage] BY <2>1, WrittenLatest, Zenon
  <2>3. Latest'.phase = Latest.phase BY <1>0, <2>2, Zenon DEF Job
  <2>. QED BY <2>3, Zenon DEF Alone
<1>4. ~partnerActs
  <2>1. \A p : p \notin spec.partners BY Zenon DEF isInterConnJob
  <2>. QED BY <2>1, Zenon DEF partnerActs, partnerApproves, partnerReports, partnerFails, Reported
<1>. QED BY <1>1, <1>2, <1>3, <1>4, Zenon

(***************************************************************************)
(* handleRunning.  The library's facts about finite sets come in here, an  *)
(* instance of them, so that only the steps from here on carry them.       *)
(***************************************************************************)
FST == INSTANCE FiniteSetTheorems

LEMMA SameSets ==
  \A S : FST!Cardinality(S) = Cardinality(S) /\ (FST!IsFiniteSet(S) <=> IsFiniteSet(S))
  BY DEF FST!Cardinality, Cardinality, FST!IsFiniteSet, IsFiniteSet

LEMMA NoneOfEither ==
  ASSUME NEW S, NEW T, IsFiniteSet(S), IsFiniteSet(T), Cardinality(S) + Cardinality(T) < 1
  PROVE  S = {} /\ T = {}
<1>1. Cardinality(S) \in Nat /\ Cardinality(T) \in Nat
  BY SameSets, FST!FS_CardinalityType, Zenon
<1>2. Cardinality(S) = 0 /\ Cardinality(T) = 0 BY <1>1
<1>. QED BY <1>2, SameSets, FST!FS_EmptySet, Zenon

\* With maxParallelism 1 the task to start is the first of those that seem ready,
\* and the lister shows none under way.
LEMMA WillStartFirst ==
  ASSUME IInv, spec.maxParallelism = 1, NEW t \in willStartTasksOf(taskCache)
  PROVE  First(t) /\ \A u \in Tasks : taskCache[u] \notin Active
<1>. DEFINE active == {u \in Tasks : taskCache[u] \in {"Pending", "Running"}}
            ahead == {u \in readyTasksOf(taskCache) : spec.rank[u] < spec.rank[t]}
<1>1. Cardinality(active) + Cardinality(ahead) < 1 /\ t \in Tasks
  BY Zenon DEF willStartTasksOf, readyTasksOf
<1>2. IsFiniteSet(active) /\ IsFiniteSet(ahead)
  BY SetsAssumption, SameSets, FST!FS_Subset, Zenon DEF readyTasksOf
<1>3. active = {} /\ ahead = {}
  <2>. HIDE DEF active, ahead
  <2>. QED BY <1>1, <1>2, NoneOfEither, Zenon
<1>4. spec.rank \in [Tasks -> Nat] BY SpecsAssumption, Zenon DEF IInv, ControlTypes, JobSpec
<1>5. First(t) BY <1>1, <1>3, <1>4 DEF First, readyTasksOf
<1>. QED BY <1>3, <1>5, Zenon DEF Active

\* handleRunning: the loop that creates tasks begins.
LEMMA RunningTrust ==
  ASSUME IInv, Trust, ~restarted, ~restarted', handleRunning
  PROVE  Trust'
<1>. DEFINE ph == jobStatusPhaseFrom(taskCache)
            v == [jobCache EXCEPT !.phase = ph, !.done = @ \/ ph = "Succeeded", !.tasks = taskCache]
<1>0. jobCache \in Job /\ JobStream /\ ParallelismBounded
  BY Zenon DEF IInv, JobTypes, Trust
<1>1. Dequeue /\ jobCache.phase = "Running" /\ ~Commanded(jobCache)
      /\ Begin("create", IF ph = "Running" THEN willStartTasksOf(taskCache) ELSE {}, v)
  BY Zenon DEF handleRunning
<1>2. v.phase = ph /\ v.tasks = taskCache BY <1>0, Zenon DEF Job
<1>. HIDE DEF v, ph
<1>3. /\ op' = "create" /\ base' = jobCache /\ next' = v
      /\ todo' = IF ph = "Running" THEN willStartTasksOf(taskCache) ELSE {}
      /\ UNCHANGED <<spec, jobCache, jobEvents, tasks, taskCache, taskEvents>>
  BY <1>1, Zenon DEF Begin, Dequeue, objects
<1>4. ~Halting(jobCache) BY <1>1, Zenon DEF Commanded, Halting
<1>5. Undisturbed BY <1>4, Zenon DEF Trust, Unstopped
<1>6. \A j : Sound(j)' <=> Sound(j) BY <1>3, Zenon DEF Sound, criticalTasks
<1>7. \A t \in Tasks : taskCache[t] \in Finished => tasks[t] = taskCache[t]
  BY <1>5, ListerTruth, Zenon
<1>8. Sound(v) BY <1>2, <1>7, PhaseFrom, Zenon DEF Sound, Finished, ph
<1>9. JobStream' BY <1>0, <1>3, <1>6, Zenon DEF JobStream
<1>10. LoopInv'
  <2>1. Later(jobCache, jobCache) /\ Later(jobCache, v) /\ Sound(jobCache)
    BY <1>0, <1>4, Zenon DEF Later, JobStream
  <2>. QED BY <1>3, <1>4, <1>6, <1>8, <2>1, Zenon DEF LoopInv
<1>11. ParallelismBounded' BY <1>0, <1>3, ~restarted, Zenon DEF ParallelismBounded
<1>12. \A t : (Current(t)' <=> Current(t)) /\ (Busy(t)' <=> Busy(t))
             /\ (First(t)' <=> First(t)) /\ (Cleared(t)' <=> Cleared(t))
  BY <1>3, Zenon DEF Current, Busy, First, Cleared, readyTasksOf
<1>13. TaskStream' /\ LastEvents'
  BY <1>3, <1>5, <1>12, Zenon DEF Undisturbed, TaskStream, LastEvents
<1>14. todo' \subseteq readyTasksOf(taskCache) /\ (ph # "Running" => todo' = {})
  BY <1>3, Zenon DEF willStartTasksOf
<1>15. Turns'
  <2>1. \A t \in todo' : Cleared(t) BY <1>14, Zenon DEF readyTasksOf, Cleared
  <2>2. ASSUME ph = "Failed", spec.mode = "BestEffort", spec.givenIDs, ~isInterConnJob
        PROVE  (\A t \in Tasks : tasks[t] \notin Active) /\ readyTasksOf(tasks) = {}
    <3>1. readyTasksOf(taskCache) = {} /\ \A t \in Tasks : taskCache[t] \notin Active
      BY <2>2, PhaseFrom, Zenon DEF ph
    <3>2. ASSUME NEW t \in Tasks PROVE tasks[t] = taskCache[t]
      <4>1. taskCache[t] \in TaskPhases BY Zenon DEF IInv, TaskTypes
      <4>2. taskCache[t] = None => tasks[t] = None BY <1>5, <3>1, ListerTruth, Zenon
      <4>. QED BY <1>7, <3>1, <4>1, <4>2, Zenon DEF TaskPhases, Finished, Active
    <3>3. tasks = taskCache BY <3>2 DEF IInv, TaskTypes
    <3>. QED BY <3>1, <3>3, Zenon
  <2>3. \A t \in Tasks : tasks[t] # None => Cleared(t) BY <1>5, Zenon DEF Undisturbed, Turns
  <2>4. readyTasksOf(tasks)' = readyTasksOf(tasks) /\ (isInterConnJob' <=> isInterConnJob)
    BY <1>3, Zenon DEF readyTasksOf, isInterConnJob
  <2>. QED BY <1>2, <1>3, <1>12, <1>14, <2>1, <2>2, <2>3, <2>4 DEF Turns
<1>16. ASSUME spec.maxParallelism = 1 PROVE OneBusy'
  <2>1. OneBusy BY <1>5, <1>16, Zenon DEF Undisturbed
  <2>2. ASSUME NEW t \in todo', tasks[t] = None
        PROVE  First(t) /\ \A u \in Tasks : ~Busy(u)
    <3>1. t \in willStartTasksOf(taskCache) /\ t \in readyTasksOf(taskCache)
      BY <1>3, <1>14, <2>2, Zenon
    <3>2. First(t) /\ \A u \in Tasks : taskCache[u] \notin Active
      BY <1>16, <3>1, WillStartFirst, Zenon
    <3>3. ASSUME NEW u \in Tasks, Busy(u) PROVE FALSE
      <4>1. taskCache[u] \in TaskPhases BY Zenon DEF IInv, TaskTypes
      <4>2. taskCache[u] = None
        BY <1>5, <3>2, <3>3, <4>1, ListerTruth, Zenon DEF TaskPhases, Active, Finished
      <4>3. tasks[u] # None /\ u \in readyTasksOf(taskCache) BY <1>5, <3>3, <4>2, ListerTruth, Zenon
      <4>4. First(u) BY <2>1, <3>3, <4>2, Zenon DEF OneBusy
      <4>5. t = u BY <3>1, <3>2, <4>3, <4>4, RanksDiffer, Zenon
      <4>. QED BY <2>2, <4>3, <4>5, Zenon
    <3>. QED BY <3>2, <3>3, Zenon
  <2>. QED BY <1>3, <1>12, <2>1, <2>2, Zenon DEF OneBusy
<1>17. Undisturbed' BY <1>3, <1>13, <1>15, <1>16, Zenon DEF Undisturbed
<1>. QED BY <1>9, <1>10, <1>11, <1>17, Zenon DEF Trust

LEMMA TrustNext ==
  ASSUME IInv, Trust, [Next]_vars
  PROVE  Trust'
<1>1. SUFFICES ASSUME ~restarted' PROVE Trust' BY Zenon DEF Trust
<1>2. IInv' BY NextSafe, Zenon DEF Safe
<1>3. ~restarted BY <1>1, RestartedStays, Zenon
<1>4. CASE UNCHANGED vars
  <2>1. Quiet BY <1>4, Zenon DEF vars, objects, worker, Quiet
  <2>. QED BY <1>3, <2>1, QuietTrust, Zenon
<1>5. CASE Next
  <2>1. CASE Quiet BY <1>3, <2>1, QuietTrust, Zenon
  <2>2. CASE Restarting BY <1>1, <2>2, RestartNoted, Zenon
  <2>3. CASE Stopping BY <1>1, <1>3, <2>3, StopTrust, Zenon DEF Stopping
  <2>4. CASE handleRunning BY <1>1, <1>3, <2>4, RunningTrust, Zenon
  <2>5. CASE Writing
    BY <1>3, <2>5, CreateTrust, StopTaskTrust, TaskRunsTrust, Zenon DEF Writing
  <2>6. CASE handleTaskObject BY <1>3, <2>6, TaskObjectTrust, Zenon
  <2>7. CASE deliverJob BY <1>3, <2>7, DeliverTrust, Zenon
  <2>. QED BY <1>2, <1>3, <1>5, <2>1, <2>2, <2>3, <2>4, <2>5, <2>6, <2>7, StepKinds, Zenon
<1>. QED BY <1>4, <1>5, Zenon

LEMMA TrustInv == Spec => [](IInv /\ Trust)
<1>1. Init => IInv /\ Trust BY InitInv, TrustInit, Zenon
<1>2. IInv /\ Trust /\ [Next]_vars => (IInv /\ Trust)'
  BY NextSafe, TrustNext, Zenon DEF Safe
<1>. QED BY <1>1, <1>2, PTL DEF Spec

\* Whatever commands, faults, partners and stale listers come before a restart: a
\* job that jobStatusPhaseFrom called Succeeded has no task left to run, and its
\* critical tasks succeeded.
THEOREM SucceededIsDone == Spec => []SucceededAllDone
<1>1. IInv /\ Trust => SucceededAllDone
  BY LatestSound, Zenon DEF SucceededAllDone, Trust, Sound, IInv, criticalTasks
<1>. QED BY <1>1, TrustInv, PTL

\* What status.taskStatus, which restart, stop and suspend go by, shows Succeeded
\* has succeeded at the API server.
THEOREM SuccessIsKept == Spec => []SuccessKept
<1>1. IInv /\ Trust => SuccessKept BY LatestSound, Zenon DEF SuccessKept, Trust, Sound, IInv
<1>. QED BY <1>1, TrustInv, PTL

\* One task at a time with maxParallelism 1, although willStartTasksOf counts the
\* tasks of a lister that lags.
THEOREM OneAtATime == Spec => []ParallelismBounded
<1>1. Trust => ParallelismBounded BY Zenon DEF Trust, ParallelismBounded
<1>. QED BY <1>1, TrustInv, PTL

\* readyTasksOf, on a lister that lags: a task is created only when the tasks it
\* depends on have succeeded at the API server.
THEOREM CreatedInOrder == Spec => DependenciesFirst
<1>. DEFINE A == \A t \in Tasks : tasks[t] = None /\ tasks'[t] # None /\ ~restarted =>
                   \A d \in spec.deps[t] : tasks[d] = "Succeeded"
<1>1. IInv /\ Trust /\ [Next]_vars => [A]_vars
  <2>1. SUFFICES ASSUME IInv, Trust, Next, NEW t \in Tasks, tasks[t] = None, tasks'[t] # None,
                        ~restarted, NEW d \in spec.deps[t]
                 PROVE  tasks[d] = "Succeeded"
    BY Zenon
  <2>2. createTask(t) BY <2>1, NextSafe, OnlyCreateMakes, Zenon DEF Safe
  <2>3. op = "create" /\ t \in todo BY <2>2, Zenon DEF createTask, InLoop
  <2>4. Undisturbed BY <2>1, <2>3, Zenon DEF Trust, Unstopped
  <2>5. taskCache[d] = "Succeeded" BY <2>1, <2>3, <2>4, Zenon DEF Undisturbed, Turns, Cleared
  <2>6. d \in Tasks BY <2>1, SpecsAssumption, Zenon DEF IInv, ControlTypes, JobSpec
  <2>. QED BY <2>1, <2>4, <2>5, <2>6, ListerTruth, Zenon DEF Finished
<1>. QED BY <1>1, TrustInv, PTL DEF Spec, DependenciesFirst

\* BestEffort: a job fails by itself only when no task is ready, at the API server
\* and not only in the lister.
THEOREM BestEffortGoesOn == Spec => BestEffortContinues
<1>. DEFINE A == /\ Latest.phase = "Running" /\ Latest'.phase = "Failed" /\ ~Latest'.done
                 /\ spec.mode = "BestEffort" /\ spec.givenIDs /\ ~isInterConnJob /\ ~restarted
                 => readyTasksOf(tasks) = {}
<1>1. IInv /\ Trust /\ [Next]_vars => [A]_vars
  <2>1. SUFFICES ASSUME IInv, Trust, Next, Alone, spec.mode = "BestEffort", spec.givenIDs,
                        ~isInterConnJob, ~restarted
                 PROVE  readyTasksOf(tasks) = {}
    BY Zenon DEF Alone
  <2>2. IInv' /\ LoopInv BY <2>1, NextSafe, Zenon DEF Safe, Trust
  <2>3. taskLoop BY <2>1, <2>2, PhaseNotAlone, OthersNotAlone, Zenon DEF Next
  <2>4. op = "create" /\ next.phase = "Failed" BY <2>1, <2>2, <2>3, LoopAlone, Zenon
  <2>5. Turns BY <2>1, <2>4, Zenon DEF Trust, Unstopped, Undisturbed
  <2>. QED BY <2>1, <2>4, <2>5, Zenon DEF Turns
<1>. QED BY <1>1, TrustInv, PTL DEF Spec, BestEffortContinues
=============================================================================
