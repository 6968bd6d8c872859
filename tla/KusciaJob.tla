------------------------------ MODULE KusciaJob ------------------------------
(***************************************************************************)
(* The controller of pkg/controllers/kusciajob: it takes one KusciaJob     *)
(* through its phases, creates a KusciaTask for every task of the job's    *)
(* graph when its turn comes, and obeys the commands a user leaves in the  *)
(* job's stage label.                                                      *)
(*                                                                         *)
(* The controller sees the job and the tasks in listers fed by two watch   *)
(* streams.  The job is kept as the version its lister shows and the later *)
(* ones on their way; the tasks as the API server's phases, the lister's,  *)
(* and the events in between, in one stream, in order.  A handler reads    *)
(* the listers and ends in UpdateStatus, refused when the job has changed  *)
(* since; in between it may create, stop or delete tasks, one per step.    *)
(*                                                                         *)
(* The cluster is the initiator of the job; the other clusters are its     *)
(* Partners, over Kuscia's own protocol.  The parties of this cluster all  *)
(* have the same stage status.                                             *)
(***************************************************************************)
EXTENDS Integers, Sequences, FiniteSets

CONSTANTS Tasks,            \* aliases of the tasks
          Partners,         \* parties of other clusters
          Specs,            \* the job specs that may be submitted
          maxBackoffLimit,  \* failed syncs before the job is failed
          maxRetries,       \* requeues before the key is dropped
          MaxCommands,      \* bound on user commands
          MaxFaults,        \* bound on API errors
          JobLag, TaskLag   \* bounds on undelivered versions and events

Modes == {"Strict", "BestEffort"}

\* The spec of a job.  rank is the place of a task when ready tasks are sorted
\* by priority, ties in the order of spec.tasks; givenIDs: the submitter wrote
\* TaskIDs equal to the aliases.
JobSpec == [deps : [Tasks -> SUBSET Tasks], tolerable : SUBSET Tasks,
            rank : [Tasks -> Nat], mode : Modes, maxParallelism : Nat \ {0},
            partners : SUBSET Partners, givenIDs : BOOLEAN]

ASSUME SetsAssumption == IsFiniteSet(Tasks) /\ IsFiniteSet(Partners)
ASSUME SpecsAssumption ==
  /\ Specs \subseteq JobSpec
  /\ \A s \in Specs : \A t, u \in Tasks : s.rank[t] = s.rank[u] => t = u
ASSUME BoundsAssumption ==
  /\ maxBackoffLimit \in Nat /\ maxRetries \in Nat /\ maxBackoffLimit < maxRetries
  /\ MaxCommands \in Nat /\ MaxFaults \in Nat /\ JobLag \in Nat /\ TaskLag \in Nat

VARIABLES spec,       \* job.Spec
          jobCache,   \* the job in the lister
          jobEvents,  \* versions of the job the lister has not seen
          tasks,      \* per task, the phase of its KusciaTask, or none
          taskCache,  \* the same in the lister
          taskEvents, \* changes of tasks the lister has not seen
          queued,     \* the key is in the work queue
          requeues,   \* workqueue.NumRequeues(key)
          op,         \* the loop the worker is in, or idle
          todo,       \* the tasks the loop has not reached
          base,       \* the version of the job the worker read
          fresh,      \* that version is still the API server's
          next,       \* the version it will write
          restarted,  \* history: tasks were deleted for a restart
          commands,   \* user commands so far
          faults      \* API errors so far

objects == <<jobCache, jobEvents, tasks, taskCache, taskEvents>>
queue == <<queued, requeues>>
worker == <<op, todo, base, next>>
bounds == <<commands, faults>>
vars == <<spec, objects, queue, worker, fresh, restarted, bounds>>

None == "none"
JobPhases == {"Initialized", "AwaitingApproval", "Pending", "Running", "Suspended",
              "Succeeded", "Failed", "ApprovalReject", "Cancelled"}
TaskPhases == {None, "Pending", "Running", "Succeeded", "Failed"}
Finished == {"Succeeded", "Failed"}
Stages == {None, "start", "stop", "cancel", "restart", "suspend"}
PartyStages == {None, "created", "createFailed", "started", "stopped",
                "restarted", "restartFailed"}
Job == [phase : JobPhases,
        done : BOOLEAN,                                \* CompletionTime is set
        stage : Stages,                                \* the stage label
        annotated : BOOLEAN,                           \* interconn annotations
        ids : BOOLEAN,                                 \* every TaskID is set
        own : PartyStages,                             \* StageStatus, own parties
        partner : [Partners -> PartyStages],           \* StageStatus, partners
        approve : [Partners -> {None, "accepted", "rejected"}],
        tasks : [Tasks -> TaskPhases]]                 \* TaskStatus

Latest == IF jobEvents = <<>> THEN jobCache ELSE jobEvents[Len(jobEvents)]

WriteJob(v) ==
  /\ Len(jobEvents) < JobLag
  /\ jobEvents' = Append(jobEvents, v)
  /\ fresh' = FALSE
  /\ UNCHANGED <<jobCache, tasks, taskCache, taskEvents>>

KeepJob == UNCHANGED <<objects, fresh>>

WriteTask(t, phase) ==
  /\ Len(taskEvents) < TaskLag
  /\ tasks' = [tasks EXCEPT ![t] = phase]
  /\ taskEvents' = Append(taskEvents, <<t, phase>>)
  /\ UNCHANGED <<jobCache, jobEvents, taskCache, fresh>>

\* The lister's copy of t is the API server's.
Current(t) == \A i \in 1..Len(taskEvents) : taskEvents[i][1] # t

Fault == faults < MaxFaults /\ faults' = faults + 1

(***************************************************************************)
(* How a sync ends.  q says whether the key was added again meanwhile.     *)
(***************************************************************************)
Forget(q) == requeues' = 0 /\ queued' = q

\* HandleQueueItem, the handler having failed.
Requeue(q) ==
  IF requeues < maxRetries
  THEN requeues' = requeues + 1 /\ queued' = TRUE
  ELSE Forget(q)

\* Mutant: the status is written whatever the version.
UpdateStatusBlindly(v, current, q) ==
  WriteJob(v) /\ Forget(q) /\ UNCHANGED faults

\* UpdateKusciaJobStatus: a conflict is not an error.
UpdateStatus(v, current, q) ==
  \/ /\ IF current THEN WriteJob(v) ELSE KeepJob
     /\ Forget(q)
     /\ UNCHANGED faults
  \/ Fault /\ Requeue(q) /\ KeepJob

NoUpdate == Forget(FALSE) /\ KeepJob /\ UNCHANGED faults

\* The handler returned an error, the job as it left it being v.
failKusciaJob(v) == [v EXCEPT !.phase = "Failed", !.done = TRUE]

SyncError(v, current, q) ==
  IF requeues <= maxBackoffLimit
  THEN Requeue(q) /\ KeepJob
  ELSE /\ IF current THEN WriteJob(failKusciaJob(v)) ELSE KeepJob
       /\ Forget(q)

(***************************************************************************)
(* What the handlers compute from the spec and the phases cur of the tasks *)
(* in the lister.                                                          *)
(***************************************************************************)
\* Mutant: only a task that depends on itself is a cycle.
kusciaJobHasSelfCycle(s) == \E t \in Tasks : t \in s.deps[t]

\* Rounds of peeling the tasks all of whose dependencies are peeled.
kusciaJobHasTaskCycle(s) ==
  LET left[n \in Nat] ==
        IF n = 0 THEN Tasks
        ELSE {t \in left[n - 1] : s.deps[t] \cap left[n - 1] # {}}
  IN left[Cardinality(Tasks)] # {}

kusciaJobValidate == Tasks # {} /\ ~kusciaJobHasTaskCycle(spec)
isInterConnJob == spec.partners # {}

criticalTasks == Tasks \ spec.tolerable

\* readyTaskMap: dependencies are aliases, looked up among TaskIDs.
readyTaskMap(cur) ==
  {t \in Tasks : cur[t] = None /\ \A d \in spec.deps[t] : spec.givenIDs /\ cur[d] = "Succeeded"}

\* Mutant: tolerable tasks are not waited for.
jobPhaseNotWaiting(cur) ==
  IF \A t \in criticalTasks : cur[t] = "Succeeded" THEN "Succeeded"
  ELSE IF \E t \in criticalTasks : cur[t] = "Failed" THEN "Failed" ELSE "Running"

\* Mutant: BestEffort does not look at the ready tasks.
jobPhaseNotReady(cur) ==
  IF \A t \in Tasks : cur[t] = "Succeeded" THEN "Succeeded"
  ELSE IF /\ \A t \in Tasks : cur[t] \notin {"Running", "Pending"}
          /\ \E t \in criticalTasks : cur[t] = "Failed"
  THEN "Failed" ELSE "Running"

jobStatusPhaseFrom(cur) ==
  LET some(phase, ts) == \E t \in ts : cur[t] = phase
  IN CASE \A t \in Tasks : cur[t] = None -> "Running"
       [] /\ \A t \in Tasks : cur[t] \in Finished
          /\ \A t \in criticalTasks : cur[t] = "Succeeded" -> "Succeeded"
       [] OTHER ->
            IF \/ spec.mode = "Strict" /\ some("Failed", criticalTasks)
               \/ spec.mode = "BestEffort" /\ isInterConnJob /\ some("Failed", Tasks)
               \/ /\ spec.mode = "BestEffort" /\ ~isInterConnJob
                  /\ readyTaskMap(cur) = {}
                  /\ ~some("Running", Tasks) /\ ~some("Pending", Tasks)
                  /\ some("Failed", criticalTasks)
            THEN "Failed" ELSE "Running"

\* Mutant: a dependency only has to be under way.
readyWhenCreated(cur) ==
  {t \in Tasks : cur[t] = None /\ \A d \in spec.deps[t] : cur[d] # None}

readyTasksOf(cur) ==
  {t \in Tasks : cur[t] = None /\ \A d \in spec.deps[t] : cur[d] = "Succeeded"}

\* Mutant: Pending tasks are not counted.
willStartCountingRunning(cur) ==
  LET ahead(t) == {u \in readyTasksOf(cur) : spec.rank[u] < spec.rank[t]}
  IN {t \in readyTasksOf(cur) :
        Cardinality({u \in Tasks : cur[u] = "Running"}) + Cardinality(ahead(t))
          < spec.maxParallelism}

willStartTasksOf(cur) ==
  LET active == {t \in Tasks : cur[t] \in {"Pending", "Running"}}
      ahead(t) == {u \in readyTasksOf(cur) : spec.rank[u] < spec.rank[t]}
  IN {t \in readyTasksOf(cur) :
        Cardinality(active) + Cardinality(ahead(t)) < spec.maxParallelism}

setRunningTaskStatusToFailed(status) ==
  [t \in Tasks |-> IF status[t] \in {"Pending", "Running"} THEN "Failed" ELSE status[t]]

\* Mutant: tasks that succeeded are stopped too.
notFailed(j) == {t \in Tasks : j.tasks[t] \notin {None, "Failed"}}

unfinished(j) == {t \in Tasks : j.tasks[t] \in {"Pending", "Running"}}

NewJob(s) ==
  [phase |-> "Initialized", done |-> FALSE, stage |-> None, annotated |-> FALSE,
   ids |-> s.givenIDs, own |-> None, partner |-> [p \in Partners |-> None],
   approve |-> [p \in Partners |-> None], tasks |-> [t \in Tasks |-> None]]

(***************************************************************************)
(* syncHandler: one action per handler, or per way out of a handler.       *)
(***************************************************************************)
ShouldReconcile(j) == ~(j.phase \in {"ApprovalReject", "Cancelled", "Succeeded"} /\ j.done)

Dequeue ==
  /\ queued /\ op = "idle"
  /\ restarted' = (restarted \/ jobCache.stage = "restart") /\ UNCHANGED <<spec, commands>>

SkipFinished ==
  /\ Dequeue /\ ~ShouldReconcile(jobCache)
  /\ NoUpdate /\ UNCHANGED worker

\* A handler that makes no loop over the tasks.
Handles(phase) ==
  /\ Dequeue /\ jobCache.phase = phase /\ UNCHANGED worker

Save(v) == UpdateStatus(v, jobEvents = <<>>, FALSE)

\* A handler that goes through the tasks ts and then writes v.
Begin(o, ts, v) ==
  /\ op' = o /\ todo' = ts /\ base' = jobCache /\ next' = v
  /\ fresh' = (jobEvents = <<>>)
  /\ queued' = FALSE
  /\ UNCHANGED <<objects, requeues, faults>>

Return ==
  /\ op' = "idle" /\ todo' = {} /\ base' = NewJob(spec) /\ next' = NewJob(spec)

validateJob ==
  /\ Handles("Initialized") /\ ~kusciaJobValidate
  /\ Save([jobCache EXCEPT !.phase = "Failed"])

\* Nothing is retried: hasUpdated looks at the copy that was just annotated.
annotateKusciaJob ==
  /\ Handles("Initialized") /\ kusciaJobValidate /\ ~jobCache.annotated
  /\ Forget(FALSE)
  /\ \/ /\ IF jobEvents = <<>> THEN WriteJob([jobCache EXCEPT !.annotated = TRUE]) ELSE KeepJob
        /\ UNCHANGED faults
     \/ Fault /\ KeepJob

handleInitialized ==
  /\ Handles("Initialized") /\ kusciaJobValidate /\ jobCache.annotated
  /\ Save([jobCache EXCEPT !.own = "created",
                           !.phase = IF isInterConnJob THEN "AwaitingApproval" ELSE "Pending"])

(***************************************************************************)
(* handleStageCommand.  Commanded(j): it ends the sync.                    *)
(***************************************************************************)
Obeys(j) == j.phase \in {"AwaitingApproval", "Pending", "Running", "Suspended", "Failed"}

Commanded(j) ==
  \/ j.stage = "start" /\ j.own # "started"
  \/ j.stage = "stop" /\ ~(j.phase = "Failed" /\ j.done)
  \/ j.stage = "cancel"
  \/ j.stage = "restart" /\ kusciaJobValidate /\ j.phase \in {"Failed", "Suspended", "Running"}
  \/ j.stage = "suspend" /\ j.phase = "Running"

Command(stage) == Dequeue /\ Obeys(jobCache) /\ jobCache.stage = stage /\ Commanded(jobCache)

handleStageCmdStart ==
  /\ Command("start") /\ UNCHANGED worker
  /\ Save([jobCache EXCEPT !.own = "started"])

handleStageCmdStop ==
  /\ Command("stop")
  /\ Begin("stop", unfinished(jobCache),
           [jobCache EXCEPT !.own = "stopped", !.phase = "Failed", !.done = TRUE,
                            !.tasks = setRunningTaskStatusToFailed(@)])

handleStageCmdCancelled ==
  /\ Command("cancel")
  /\ Begin("stop", unfinished(jobCache),
           [jobCache EXCEPT !.own = "stopped", !.phase = "Cancelled", !.done = TRUE,
                            !.tasks = setRunningTaskStatusToFailed(@)])

handleStageCmdSuspend ==
  /\ Command("suspend")
  /\ Begin("stop", unfinished(jobCache),
           [jobCache EXCEPT !.own = "stopped", !.phase = "Suspended"])

\* Failed or Suspended: run again, without the tasks that did not succeed.
handleStageCmdRestart ==
  /\ Command("restart") /\ jobCache.phase # "Running"
  /\ Begin("delete", {t \in Tasks : jobCache.tasks[t] \notin {None, "Succeeded"}},
           [jobCache EXCEPT !.own = "restarted", !.phase = "Running", !.done = FALSE,
                            !.tasks = [t \in Tasks |-> IF @[t] = "Succeeded" THEN @[t] ELSE None]])

isAllPartyRestartComplete(j) ==
  /\ j.own \in {"restarted", "restartFailed"}
  /\ \A p \in spec.partners : j.partner[p] \in {"restarted", "restartFailed"}

handleRestartWait ==
  /\ Command("restart") /\ jobCache.phase = "Running" /\ UNCHANGED worker
  /\ ~isAllPartyRestartComplete(jobCache)
  /\ Save(jobCache)

\* setJobStage reads the job again, so the status write that follows conflicts.
handleRestartComplete ==
  /\ Command("restart") /\ jobCache.phase = "Running" /\ UNCHANGED worker
  /\ isAllPartyRestartComplete(jobCache)
  /\ \/ WriteJob([Latest EXCEPT !.stage = "start"]) /\ Forget(FALSE) /\ UNCHANGED faults
     \/ Fault /\ SyncError(jobCache, jobEvents = <<>>, FALSE)

Uncommanded(phase) == Handles(phase) /\ ~Commanded(jobCache)

allApprovalAccept(j) == \A p \in spec.partners : j.approve[p] = "accepted"
someApprovalReject(j) == \E p \in spec.partners : j.approve[p] = "rejected"

handleAwaitingApproval ==
  /\ Uncommanded("AwaitingApproval")
  /\ IF someApprovalReject(jobCache)
     THEN Save([jobCache EXCEPT !.phase = "ApprovalReject", !.done = TRUE])
     ELSE IF allApprovalAccept(jobCache) THEN Save([jobCache EXCEPT !.phase = "Pending"])
     ELSE NoUpdate

partyStages(j) == {j.own} \cup {j.partner[p] : p \in spec.partners}
allPartyCreateSuccess(j) == partyStages(j) \subseteq {"created", "started"}
somePartyCreateFailed(j) == "createFailed" \in partyStages(j)

handlePending ==
  /\ Uncommanded("Pending")
  /\ IF allPartyCreateSuccess(jobCache) THEN Save([jobCache EXCEPT !.phase = "Running"])
     ELSE IF somePartyCreateFailed(jobCache) THEN Save([jobCache EXCEPT !.phase = "Failed"])
     ELSE NoUpdate

\* UpdateKusciaJob reads the job again after a conflict.
setJobTaskID ==
  /\ Uncommanded("Running") /\ ~jobCache.ids
  /\ \/ /\ IF Latest.ids THEN KeepJob ELSE WriteJob([Latest EXCEPT !.ids = TRUE])
        /\ Forget(FALSE) /\ UNCHANGED faults
     \/ Fault /\ SyncError(jobCache, jobEvents = <<>>, FALSE)

\* TaskStatus is rebuilt from the lister; then the tasks whose turn it is are
\* created, unless the job is over.
handleRunning ==
  /\ Dequeue /\ jobCache.phase = "Running" /\ ~Commanded(jobCache) /\ jobCache.ids
  /\ LET phase == jobStatusPhaseFrom(taskCache)
     IN Begin("create", IF phase = "Running" THEN willStartTasksOf(taskCache) ELSE {},
              [jobCache EXCEPT !.phase = phase, !.done = @ \/ phase = "Succeeded",
                               !.tasks = taskCache])

handleSuspended ==
  /\ Uncommanded("Suspended")
  /\ IF unfinished(jobCache) = {} THEN NoUpdate
     ELSE Save([jobCache EXCEPT !.tasks = setRunningTaskStatusToFailed(@)])

handleFailedDone == Uncommanded("Failed") /\ jobCache.done /\ NoUpdate

handleFailed ==
  /\ Dequeue /\ jobCache.phase = "Failed" /\ ~Commanded(jobCache) /\ ~jobCache.done
  /\ Begin("stop", unfinished(jobCache),
           [jobCache EXCEPT !.done = TRUE, !.tasks = setRunningTaskStatusToFailed(@)])

(***************************************************************************)
(* The loops over the tasks.                                               *)
(***************************************************************************)
Reached(t) == todo' = todo \ {t} /\ UNCHANGED <<op, base, next>>
InLoop(o, t) == op = o /\ t \in todo /\ UNCHANGED <<spec, restarted, commands>>

\* A task that exists already belongs to this job: TaskIDs are its own.
createTask(t) ==
  /\ InLoop("create", t)
  /\ \A u \in todo : spec.rank[t] <= spec.rank[u]
  /\ IF tasks[t] = None THEN WriteTask(t, "Pending") ELSE KeepJob
  /\ Reached(t) /\ UNCHANGED <<queue, faults>>

createTaskError(t) ==
  /\ InLoop("create", t)
  /\ Fault /\ SyncError([base EXCEPT !.tasks = next.tasks], fresh, queued)
  /\ Return

\* stopTasks: the task as the lister shows it or, when it shows none, as the
\* API server has it, is written with phase Failed.
stopTask(t) ==
  /\ InLoop("stop", t)
  /\ taskCache[t] = None \/ Current(t)
  /\ IF tasks[t] \in {None, "Failed"} THEN KeepJob ELSE WriteTask(t, "Failed")
  /\ Reached(t) /\ UNCHANGED <<queue, faults>>

stopTaskError(t) ==
  /\ InLoop("stop", t)
  /\ \/ taskCache[t] # None /\ ~Current(t) /\ UNCHANGED faults
     \/ Fault
  /\ SyncError(base, fresh, queued)
  /\ Return

\* deleteNotSuccessTasks: only what the lister shows is deleted.
deleteTask(t) ==
  /\ InLoop("delete", t)
  /\ IF taskCache[t] = None \/ tasks[t] = None THEN KeepJob ELSE WriteTask(t, None)
  /\ Reached(t) /\ UNCHANGED <<queue, faults>>

\* The job is restarted all the same, with its TaskStatus as it was.
deleteTaskError(t) ==
  /\ InLoop("delete", t) /\ taskCache[t] # None
  /\ Fault
  /\ todo' = {} /\ next' = [next EXCEPT !.own = "restartFailed", !.tasks = base.tasks]
  /\ UNCHANGED <<op, base, queue, objects, fresh>>

endLoop ==
  /\ op # "idle" /\ todo = {} /\ UNCHANGED <<spec, restarted, commands>>
  /\ IF next = base THEN Forget(queued) /\ KeepJob /\ UNCHANGED faults
     ELSE UpdateStatus(next, fresh, queued)
  /\ Return

(***************************************************************************)
(* The watch streams, the resync of the informers, the users, the KusciaTask *)
(* controller and the partners.                                            *)
(***************************************************************************)
deliverJob ==
  /\ jobEvents # <<>>
  /\ jobCache' = Head(jobEvents) /\ jobEvents' = Tail(jobEvents)
  /\ queued' = TRUE
  /\ UNCHANGED <<spec, tasks, taskCache, taskEvents, requeues, worker, fresh, restarted, bounds>>

handleTaskObject ==
  /\ taskEvents # <<>>
  /\ taskCache' = [taskCache EXCEPT ![Head(taskEvents)[1]] = Head(taskEvents)[2]]
  /\ taskEvents' = Tail(taskEvents)
  /\ queued' = TRUE
  /\ UNCHANGED <<spec, jobCache, jobEvents, tasks, requeues, worker, fresh, restarted, bounds>>

resync ==
  /\ ~queued /\ queued' = TRUE
  /\ UNCHANGED <<spec, objects, requeues, worker, fresh, restarted, bounds>>

Others == UNCHANGED <<spec, queue, worker, restarted, bounds>>

\* StopJob, CancelJob, SuspendJob and RestartJob of kusciaapi.
setJobStage(stage) ==
  /\ commands < MaxCommands /\ commands' = commands + 1
  /\ stage = "stop" => Latest.stage # "stop"
  /\ stage = "suspend" => Latest.phase = "Running"
  /\ stage = "restart" => Latest.phase \in {"Failed", "Suspended"} /\ Latest.stage # "restart"
  /\ WriteJob([Latest EXCEPT !.stage = stage])
  /\ UNCHANGED <<spec, queue, worker, restarted, faults>>

taskRuns(t) ==
  /\ \/ tasks[t] = "Pending" /\ \E phase \in {"Running", "Failed"} : WriteTask(t, phase)
     \/ tasks[t] = "Running" /\ \E phase \in Finished : WriteTask(t, phase)
  /\ Others

\* updateJob of interconn: what a partner's job summary says is copied into the
\* status, unless the job is over.
Reported(p, v) ==
  /\ p \in spec.partners /\ Latest.annotated /\ ~Latest.done
  /\ WriteJob(v) /\ Others

partnerApproves(p, answer) ==
  /\ Latest.approve[p] = None
  /\ Reported(p, [Latest EXCEPT !.approve[p] = answer])

partnerReports(p, stage) ==
  /\ Latest.partner[p] # stage
  /\ \/ Latest.partner[p] = None /\ stage \in {"created", "createFailed"}
     \/ Latest.stage = "restart" /\ stage = "restarted"  \* or failed to
     \/ Latest.stage = "start" /\ stage = "started"
  /\ Reported(p, [Latest EXCEPT !.partner[p] = stage])

\* The partner could not accept its copy of the job; its summary says so for good.
partnerFails(p) ==
  /\ Latest.phase # "Failed" /\ Latest.partner[p] = None
  /\ Reported(p, [Latest EXCEPT !.phase = "Failed"])

(***************************************************************************)
Init ==
  /\ spec \in Specs
  /\ jobCache = NewJob(spec) /\ jobEvents = <<>>
  /\ tasks = [t \in Tasks |-> None] /\ taskCache = tasks /\ taskEvents = <<>>
  /\ queued = TRUE /\ requeues = 0
  /\ op = "idle" /\ todo = {} /\ base = NewJob(spec) /\ next = NewJob(spec) /\ fresh = FALSE
  /\ restarted = FALSE /\ commands = 0 /\ faults = 0

syncHandler ==
  \/ SkipFinished \/ validateJob \/ annotateKusciaJob \/ handleInitialized
  \/ handleStageCmdStart \/ handleStageCmdStop \/ handleStageCmdCancelled
  \/ handleStageCmdSuspend \/ handleStageCmdRestart
  \/ handleRestartWait \/ handleRestartComplete
  \/ handleAwaitingApproval \/ handlePending
  \/ setJobTaskID \/ handleRunning
  \/ handleSuspended \/ handleFailed \/ handleFailedDone

taskLoop ==
  \/ \E t \in Tasks :
       \/ createTask(t) \/ createTaskError(t)
       \/ stopTask(t) \/ stopTaskError(t)
       \/ deleteTask(t) \/ deleteTaskError(t)
  \/ endLoop

partnerActs ==
  \E p \in Partners :
    \/ \E answer \in {"accepted", "rejected"} : partnerApproves(p, answer)
    \/ \E stage \in PartyStages : partnerReports(p, stage)
    \/ partnerFails(p)

Next ==
  \/ syncHandler \/ taskLoop
  \/ deliverJob \/ handleTaskObject \/ resync
  \/ \E stage \in {"stop", "cancel", "suspend", "restart"} : setJobStage(stage)
  \/ \E t \in Tasks : taskRuns(t)
  \/ partnerActs

Spec == Init /\ [][Next]_vars

\* The worker, the watch streams and the informers' resync keep running; a
\* task that runs comes to an end; partners answer, although a controller that
\* rewrites the job again and again may keep its stream at JobLag half the time.
Fairness ==
  /\ WF_vars(syncHandler) /\ WF_vars(taskLoop)
  /\ WF_vars(deliverJob) /\ WF_vars(handleTaskObject) /\ WF_vars(resync)
  /\ \A t \in Tasks : WF_vars(taskRuns(t))
  /\ SF_vars(partnerActs)

FairSpec == Spec /\ Fairness

(***************************************************************************)
(* Properties.                                                             *)
(***************************************************************************)
\* The variables keep their types and the bounds hold.
TypeOK ==
  /\ spec \in Specs
  /\ jobCache \in Job /\ jobEvents \in Seq(Job) /\ Len(jobEvents) <= JobLag
  /\ tasks \in [Tasks -> TaskPhases] /\ taskCache \in [Tasks -> TaskPhases]
  /\ taskEvents \in Seq(Tasks \X TaskPhases) /\ Len(taskEvents) <= TaskLag
  /\ queued \in BOOLEAN /\ requeues \in 0..maxRetries
  /\ op \in {"idle", "create", "stop", "delete"} /\ todo \in SUBSET Tasks
  /\ base \in Job /\ next \in Job /\ fresh \in BOOLEAN
  /\ restarted \in BOOLEAN /\ commands \in 0..MaxCommands /\ faults \in 0..MaxFaults

\* readyTasksOf reads the lister: until a restart deletes tasks, a KusciaTask is
\* created only when the tasks it depends on have succeeded at the API server.
DependenciesFirst ==
  [][\A t \in Tasks : tasks[t] = None /\ tasks'[t] # None /\ ~restarted =>
       \A d \in spec.deps[t] : tasks[d] = "Succeeded"]_vars

\* jobStatusPhaseFrom: a job that has succeeded has no task left to run and
\* none of its critical tasks failed.
SucceededAllDone ==
  Latest.phase = "Succeeded" /\ ~restarted =>
    /\ \A t \in Tasks : tasks[t] \in Finished
    /\ \A t \in criticalTasks : tasks[t] = "Succeeded"

\* Succeeded, Cancelled and ApprovalReject are final, whatever commands come.
FinalPhase == [][~ShouldReconcile(Latest) => Latest'.phase = Latest.phase]_vars

\* willStartTasksOf counts the tasks that the lister shows: a job whose
\* maxParallelism is 1, the default, has one task under way at a time although
\* the lister may not show the task that the last sync created.
ParallelismBounded ==
  spec.maxParallelism = 1 /\ ~restarted =>
    \A t, u \in Tasks : {tasks[t], tasks[u]} \subseteq {"Pending", "Running"} => t = u

\* Restart, stop and suspend trust status.taskStatus: a task it shows Succeeded
\* has succeeded and is never stopped, deleted or run again.
SuccessKept ==
  \A t \in Tasks : Latest.tasks[t] = "Succeeded" /\ ~restarted => tasks[t] = "Succeeded"

\* BestEffort: a job whose TaskIDs are the submitter's does not fail by itself
\* while a task is ready to run.
BestEffortContinues ==
  [][/\ Latest.phase = "Running" /\ Latest'.phase = "Failed" /\ ~Latest'.done
     /\ spec.mode = "BestEffort" /\ spec.givenIDs /\ ~isInterConnJob /\ ~restarted
     => readyTasksOf(tasks) = {}]_vars

\* Every job ends or is suspended, for good; only a job restarted although a
\* partner never created its copy may go on being failed and restarted.
Ends ==
  <>[]\/ Latest.done \/ Latest.phase = "Suspended"
      \/ Latest.stage = "restart" /\ \E p \in spec.partners : Latest.partner[p] = None
=============================================================================
