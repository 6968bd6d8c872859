----------------------------- MODULE KusciaTask -----------------------------
(***************************************************************************)
(* The controller of pkg/controllers/kusciatask: it creates the pods and   *)
(* the TaskResourceGroup of one KusciaTask, derives the phase of the task  *)
(* from its pods and from what other clusters report of their parties, and *)
(* deletes what it created when the task is finished or deleted.           *)
(*                                                                         *)
(* The controller sees three watch streams in its listers, each in order   *)
(* and each as late as it likes: the versions of the task, the changes of  *)
(* all pods, the TaskResourceGroup.  One worker syncs the task and one     *)
(* cleans up after it; each of their API calls is a step.                  *)
(*                                                                         *)
(* The cluster is the task's initiator and runs some of its parties.  A    *)
(* task is not created again under the same name.  A write that changes    *)
(* only a timestamp is left out.                                           *)
(***************************************************************************)
EXTENDS Integers, Sequences, FiniteSets

CONSTANTS Parties,             \* parties this cluster runs
          Outer,               \* parties other clusters run
          Pods,                \* pods of the parties
          Owner,               \* the party of a pod
          MinReservedPods,     \* per party, pods that must succeed
          MinReservedMembers,  \* parties that must succeed
          maxBackoffLimit,     \* failed syncs before the task is failed
          MaxFaults,           \* bound on API errors
          TaskLag, PodLag      \* bounds on undelivered versions and changes

ASSUME SetsAssumption ==
  /\ IsFiniteSet(Parties) /\ IsFiniteSet(Outer) /\ IsFiniteSet(Pods)
  /\ Parties # {} /\ Parties \cap Outer = {}
  /\ Owner \in [Pods -> Parties]
ASSUME QuorumAssumption ==
  /\ MinReservedMembers \in 1..Cardinality(Parties \cup Outer)
  /\ MinReservedPods \in [Parties -> Nat \ {0}]
  /\ \A q \in Parties : MinReservedPods[q] <= Cardinality({p \in Pods : Owner[p] = q})
ASSUME BoundsAssumption ==
  /\ maxBackoffLimit \in Nat /\ MaxFaults \in Nat
  /\ TaskLag \in Nat /\ PodLag \in Nat

VARIABLES taskCache,   \* the task in the lister
          taskEvents,  \* versions of it the lister has not seen
          pods,        \* phase of each pod, or none
          podCache,    \* the same in the lister
          podEvents,   \* changes of pods the lister has not seen
          trg,         \* phase of the TaskResourceGroup, or none
          trgCache,    \* the same in the lister
          queued,      \* the key is in taskQueue
          requeues,    \* taskQueue.NumRequeues(key)
          op,          \* what the worker is doing
          todo,        \* the pods it has not reached
          base, fresh, \* the version it read; it is still the latest
          next,        \* the version it will write
          deleted,     \* the key is in taskDeleteQueue
          sweeping,    \* its worker is at it
          doomed,      \* the pods that worker still has to delete
          faults       \* API errors so far

taskObject == <<taskCache, taskEvents, fresh>>
podObjects == <<pods, podCache, podEvents>>
group == <<trg, trgCache>>
queue == <<queued, requeues>>
worker == <<op, todo, base, next>>
sweeper == <<deleted, sweeping, doomed>>
vars == <<taskObject, podObjects, group, queue, worker, sweeper, faults>>

None == "none"
Gone == "gone"
AllParties == Parties \cup Outer
Finished == {"Succeeded", "Failed"}
PartyPhases == {None, "Pending", "Running", "Succeeded", "Failed"}
\* Stuck: PodRunning, with a container waiting for a reason isPodFailed counts.
PodPhases == {None, "Pending", "Stuck", "Running", "Succeeded", "Failed"}
\* Reserving: any phase before the group is granted.
GroupPhases == {None, "Reserving", "Reserved", "Failed"}
Task == [phase : {"Pending", "Running", "Succeeded", "Failed", Gone},
         done : BOOLEAN,     \* CompletionTime is set
         ports : BOOLEAN,    \* condition PortsAllocated
         created : BOOLEAN,  \* condition ResourceCreated
         party : [AllParties -> PartyPhases]]

NewTask ==
  [phase |-> "Pending", done |-> FALSE, ports |-> FALSE, created |-> FALSE,
   party |-> [q \in AllParties |-> None]]

Latest == IF taskEvents = <<>> THEN taskCache ELSE taskEvents[Len(taskEvents)]

WriteTask(v) ==
  /\ Len(taskEvents) < TaskLag
  /\ taskEvents' = Append(taskEvents, v)
  /\ fresh' = FALSE
  /\ UNCHANGED taskCache

WritePod(p, phase) ==
  /\ Len(podEvents) < PodLag
  /\ pods' = [pods EXCEPT ![p] = phase]
  /\ podEvents' = Append(podEvents, <<p, phase>>)
  /\ UNCHANGED podCache

Fault == faults < MaxFaults /\ faults' = faults + 1
NoFault == UNCHANGED faults

(***************************************************************************)
(* How a sync ends; q: the key was added again meanwhile.                  *)
(***************************************************************************)
Forget(q) == requeues' = 0 /\ queued' = q

AddRateLimited == requeues' = requeues + 1 /\ queued' = TRUE

\* Mutant: the status is written whatever the version.
updateTaskStatusBlindly(v, current, q) == NoFault /\ Forget(q) /\ WriteTask(v)

\* updateTaskStatus: a conflict is not an error.
updateTaskStatus(v, current, q) ==
  \/ /\ NoFault /\ Forget(q)
     /\ IF current /\ v # Latest THEN WriteTask(v) ELSE UNCHANGED taskObject
  \/ Fault /\ AddRateLimited /\ UNCHANGED taskObject

failKusciaTask(v) == [v EXCEPT !.phase = "Failed"]

\* The handler returned an error, the task as it left it being v.  A fault that
\* made it fail may make the last write fail, too.
SyncError(v, current, q) ==
  IF requeues <= maxBackoffLimit
  THEN AddRateLimited /\ UNCHANGED taskObject
  ELSE \/ /\ Forget(q)
          /\ IF current THEN WriteTask(failKusciaTask(v)) ELSE UNCHANGED taskObject
       \/ faults' > faults /\ AddRateLimited /\ UNCHANGED taskObject

(***************************************************************************)
(* What the handlers compute.                                              *)
(***************************************************************************)
Count(party, phase) == Cardinality({q \in AllParties : party[q] = phase})

initPartyTaskStatus(party) ==
  [q \in AllParties |-> IF party[q] = None THEN "Pending" ELSE party[q]]

taskFailed(party) == MinReservedMembers > Cardinality(AllParties) - Count(party, "Failed")

taskRunning == taskCache.created /\ \E p \in Pods : podCache[p] \notin {None, "Pending"}

getTaskResourceGroup == IF trgCache # None THEN trgCache ELSE trg

\* A pod as the lister shows it or, when it shows none, as the API server has it.
PodSeen(p) == IF podCache[p] # None THEN podCache[p] ELSE pods[p]

PodsIn(q, phases) == Cardinality({p \in Pods : Owner[p] = q /\ PodSeen(p) \in phases})

\* Mutant: a party that has ended is judged again.
partyStatusAnew(party, q) ==
  IF MinReservedPods[q] > PodsIn(q, PodPhases \ {None, "Failed", "Stuck"}) THEN "Failed"
  ELSE IF PodsIn(q, {"Succeeded"}) >= MinReservedPods[q] THEN "Succeeded"
  ELSE IF PodsIn(q, {"Running"}) > 0 THEN "Running" ELSE "Pending"

getPartyTaskStatus(party, q) ==
  IF party[q] \in Finished THEN party[q]
  ELSE IF MinReservedPods[q] > PodsIn(q, PodPhases \ {None, "Failed", "Stuck"}) THEN "Failed"
  ELSE IF PodsIn(q, {"Succeeded"}) >= MinReservedPods[q] THEN "Succeeded"
  ELSE IF PodsIn(q, {"Running"}) > 0 THEN "Running" ELSE "Pending"

buildPartyTaskStatus(party) ==
  [q \in AllParties |-> IF q \in Parties THEN getPartyTaskStatus(party, q)
                        ELSE IF party[q] = None THEN "Pending" ELSE party[q]]

\* Mutant: one party short of the threshold is enough.
reconcileOneShort(party) ==
  IF taskFailed(party) THEN "Failed"
  ELSE IF Count(party, "Succeeded") >= MinReservedMembers - 1 THEN "Succeeded"
  ELSE "Running"

\* setTaskStatusPhase has made the phase Running.
reconcileTaskStatus(party) ==
  IF taskFailed(party) THEN "Failed"
  ELSE IF Count(party, "Succeeded") >= MinReservedMembers THEN "Succeeded"
  ELSE "Running"

setPartyTaskStatusFailed(party) ==
  LET empty == \A q \in AllParties : party[q] = None
  IN [q \in AllParties |-> IF empty \/ party[q] \in {"Pending", "Running"}
                           THEN "Failed" ELSE party[q]]

\* Mutant: pods that run are left alone.
podsEnded == {p \in Pods : podCache[p] = "Succeeded"}

\* The pods DeleteTaskResources deletes.
podsToDelete == {p \in Pods : podCache[p] \notin {None, "Failed"}}

(***************************************************************************)
(* syncHandler: one action per handler, or per way out of a handler.       *)
(***************************************************************************)
Dequeue == queued /\ op = "idle" /\ UNCHANGED sweeper

\* A handler whose only API call is the last.
Handles(phase) ==
  /\ Dequeue /\ taskCache.phase = phase /\ ~taskCache.done
  /\ UNCHANGED <<podObjects, group, worker>>

Current == taskEvents = <<>>
Save(v) == updateTaskStatus(v, Current, FALSE)

Begin(o, ps, v) ==
  /\ op' = o /\ todo' = ps /\ base' = taskCache /\ next' = v
  /\ fresh' = Current /\ queued' = FALSE
  /\ UNCHANGED <<taskCache, taskEvents, podObjects, requeues>>

Return == op' = "idle" /\ todo' = {} /\ base' = NewTask /\ next' = NewTask

SkipFinished ==
  /\ Dequeue /\ (taskCache.phase = Gone \/ taskCache.done)
  /\ Forget(FALSE) /\ NoFault
  /\ UNCHANGED <<taskObject, podObjects, group, worker>>

allocatePorts ==
  /\ Handles("Pending") /\ ~taskCache.ports
  /\ \/ Save([taskCache EXCEPT !.ports = TRUE])
     \/ Fault /\ SyncError(taskCache, Current, FALSE)

\* The latest version tells whether a sync before this one created everything.
createTaskResources ==
  /\ Dequeue /\ taskCache.phase = "Pending" /\ ~taskCache.done
  /\ taskCache.ports /\ ~taskCache.created
  /\ Latest.phase # Gone /\ ~Latest.created
  /\ Begin("create", Pods, [taskCache EXCEPT !.created = TRUE])
  /\ NoFault /\ UNCHANGED group

getLatestError ==
  /\ Handles("Pending") /\ taskCache.ports /\ ~taskCache.created
  /\ (Latest.phase = Gone /\ NoFault) \/ Fault
  /\ SyncError(taskCache, Current, FALSE)

\* taskFailed, taskRunning and taskExpired, in this order.
handlePending ==
  /\ Handles("Pending") /\ taskCache.ports
  /\ taskCache.created \/ (Latest.phase # Gone /\ Latest.created)
  /\ LET v == [taskCache EXCEPT !.party = initPartyTaskStatus(@)]
     IN \/ taskFailed(v.party) /\ Save([v EXCEPT !.phase = "Failed"])
        \/ ~taskFailed(v.party) /\ taskRunning /\ Save([v EXCEPT !.phase = "Running"])
        \/ /\ ~taskFailed(v.party) /\ ~taskRunning
           /\ \/ getTaskResourceGroup = "Failed" /\ Save([v EXCEPT !.phase = "Failed"])
              \/ getTaskResourceGroup \in {"Reserving", "Reserved"} /\ Save(v)
              \/ getTaskResourceGroup = None /\ NoFault /\ SyncError(v, Current, FALSE)
              \/ trgCache = None /\ Fault /\ SyncError(v, Current, FALSE)

handleRunning ==
  /\ Handles("Running")
  /\ LET party == buildPartyTaskStatus(taskCache.party)
     IN \/ getTaskResourceGroup = "Failed" /\ Save([taskCache EXCEPT !.phase = "Failed"])
        \/ getTaskResourceGroup = "Reserving" /\ Save(taskCache)
        \/ /\ getTaskResourceGroup = "Reserved"
           /\ Save([taskCache EXCEPT !.party = party, !.phase = reconcileTaskStatus(party)])
        \/ getTaskResourceGroup = None /\ NoFault /\ SyncError(taskCache, Current, FALSE)
        \/ trgCache = None /\ Fault /\ SyncError(taskCache, Current, FALSE)

\* An error of the patch is only logged.
setTaskResourceGroupFailed ==
  /\ UNCHANGED trgCache
  /\ IF trgCache \in {None, "Failed", "Reserved"} THEN UNCHANGED trg /\ NoFault
     ELSE \/ trg' = (IF trg = None THEN None ELSE "Failed") /\ NoFault
          \/ Fault /\ UNCHANGED trg

handleFailed ==
  /\ Dequeue /\ taskCache.phase = "Failed" /\ ~taskCache.done
  /\ setTaskResourceGroupFailed
  /\ Begin("delete", podsToDelete,
           [taskCache EXCEPT !.done = TRUE, !.party = setPartyTaskStatusFailed(@)])

handleSucceeded ==
  /\ Dequeue /\ taskCache.phase = "Succeeded" /\ ~taskCache.done
  /\ Begin("delete", podsToDelete, [taskCache EXCEPT !.done = TRUE])
  /\ NoFault /\ UNCHANGED group

(***************************************************************************)
(* The steps of a sync that makes several API calls.                       *)
(***************************************************************************)
Works(o) == op = o /\ UNCHANGED sweeper
Reached(p) == todo' = todo \ {p} /\ UNCHANGED <<op, base, next, queue, taskObject>>
FailSync ==
  SyncError([next EXCEPT !.done = FALSE, !.created = base.created], fresh, queued) /\ Return

\* A pod that exists already is taken for the task's.
submitPod(p) ==
  /\ Works("create") /\ p \in todo
  /\ \/ /\ IF pods[p] = None /\ podCache[p] = None THEN WritePod(p, "Pending") ELSE UNCHANGED podObjects
        /\ Reached(p) /\ NoFault
     \/ podCache[p] = None /\ Fault /\ FailSync /\ UNCHANGED podObjects
  /\ UNCHANGED group

\* Here a group that exists but is not in the lister is an error.
submitTaskResourceGroup ==
  /\ Works("create") /\ todo = {}
  /\ \/ /\ trgCache # None \/ trg = None
        /\ trg' = (IF trgCache = None THEN "Reserving" ELSE trg)
        /\ op' = "created" /\ NoFault
        /\ UNCHANGED <<todo, base, next, queue, taskObject>>
     \/ /\ trgCache = None /\ ((trg # None /\ NoFault) \/ Fault)
        /\ FailSync /\ UNCHANGED trg
  /\ UNCHANGED <<podObjects, trgCache>>

\* Failed and Succeeded differ in what an error does: a sync that fails is tried
\* again, SucceededHandler drops the error and leaves the task for the resync.
DeleteError ==
  IF base.phase = "Failed" THEN FailSync
  ELSE Forget(queued) /\ Return /\ UNCHANGED taskObject

deletePod(p) ==
  /\ Works("delete") /\ p \in todo
  /\ \/ /\ IF pods[p] = None THEN UNCHANGED podObjects ELSE WritePod(p, None)
        /\ Reached(p) /\ NoFault
     \/ Fault /\ DeleteError /\ UNCHANGED podObjects
  /\ UNCHANGED group

deleteTaskResourceGroup ==
  /\ Works("delete") /\ todo = {} /\ base.phase = "Succeeded"
  /\ \/ /\ trg' = None /\ op' = "deleted" /\ NoFault
        /\ UNCHANGED <<todo, base, next, queue, taskObject>>
     \/ Fault /\ DeleteError /\ UNCHANGED trg
  /\ UNCHANGED <<podObjects, trgCache>>

endSync ==
  /\ \/ Works("created") \/ Works("deleted")
     \/ Works("delete") /\ todo = {} /\ base.phase = "Failed"
  /\ updateTaskStatus(next, fresh, queued) /\ Return
  /\ UNCHANGED <<podObjects, group>>

(***************************************************************************)
(* syncDeletedTaskHandler, run by a worker of its own.                     *)
(***************************************************************************)
syncDeletedTaskHandler ==
  /\ deleted /\ ~sweeping
  /\ deleted' = FALSE /\ sweeping' = TRUE
  /\ doomed' = {p \in Pods : podCache[p] # None}
  /\ UNCHANGED <<taskObject, podObjects, group, queue, worker, faults>>

Sweeps == sweeping /\ UNCHANGED <<taskObject, queue, worker, trgCache>>
SweepError == Fault /\ deleted' = TRUE /\ sweeping' = FALSE /\ doomed' = {}

sweepPod(p) ==
  /\ Sweeps /\ p \in doomed
  /\ \/ /\ IF pods[p] = None THEN UNCHANGED podObjects ELSE WritePod(p, None)
        /\ doomed' = doomed \ {p}
        /\ NoFault /\ UNCHANGED <<deleted, sweeping>>
     \/ SweepError /\ UNCHANGED podObjects
  /\ UNCHANGED trg

sweepTaskResourceGroup ==
  /\ Sweeps /\ doomed = {}
  /\ \/ /\ trg' = (IF trgCache = None THEN trg ELSE None)
        /\ sweeping' = FALSE /\ NoFault /\ UNCHANGED <<deleted, doomed>>
     \/ trgCache # None /\ SweepError /\ UNCHANGED trg
  /\ UNCHANGED podObjects

(***************************************************************************)
(* The watch streams and the periodic resync of the informers.             *)
(***************************************************************************)
\* Mutant: the objects of a task that is not in the lister are ignored.
enqueueKnown ==
  /\ queued' = (queued \/ taskCache.phase # Gone)
  /\ UNCHANGED deleted

\* handlePodObject, handleTaskResourceGroupObject: the task the object belongs
\* to is synced or, when it is gone, cleaned up after.
enqueueOwner ==
  /\ queued' = (queued \/ taskCache.phase # Gone)
  /\ deleted' = (deleted \/ taskCache.phase = Gone)

Watch == UNCHANGED <<fresh, pods, trg, requeues, worker, sweeping, doomed, faults>>

deliverTask ==
  /\ taskEvents # <<>>
  /\ taskCache' = Head(taskEvents) /\ taskEvents' = Tail(taskEvents)
  /\ queued' = (queued \/ Head(taskEvents).phase # Gone)
  /\ deleted' = (deleted \/ Head(taskEvents).phase = Gone)
  /\ Watch /\ UNCHANGED <<podCache, podEvents, trgCache>>

handlePodObject ==
  /\ podEvents # <<>>
  /\ podCache' = [podCache EXCEPT ![Head(podEvents)[1]] = Head(podEvents)[2]]
  /\ podEvents' = Tail(podEvents)
  /\ enqueueOwner
  /\ Watch /\ UNCHANGED <<taskCache, taskEvents, trgCache>>

handleTaskResourceGroupObject ==
  /\ trgCache # trg /\ trgCache' = trg
  /\ enqueueOwner
  /\ Watch /\ UNCHANGED <<taskCache, taskEvents, podCache, podEvents>>

\* Resyncs of the task and of the group are not filtered by version.
resync ==
  /\ taskCache.phase # Gone \/ trgCache # None
  /\ ~queued /\ ~deleted
  /\ enqueueOwner
  /\ Watch /\ UNCHANGED <<taskCache, taskEvents, podCache, podEvents, trgCache>>

(***************************************************************************)
(* The job controller, users, the co-scheduling controller, the agents and *)
(* the other clusters.                                                     *)
(***************************************************************************)
Elsewhere == UNCHANGED <<queue, worker, sweeper, faults>>

\* stopTasks of the job controller, which may not have seen the task succeed.
stopTasks ==
  LET v == [Latest EXCEPT !.phase = "Failed",
                          !.party = [q \in AllParties |-> IF q \in Parties THEN "Failed" ELSE @[q]]]
  IN /\ Latest.phase # Gone /\ v # Latest /\ WriteTask(v)
     /\ Elsewhere /\ UNCHANGED <<podObjects, group>>

deleteTask ==
  /\ Latest.phase # Gone
  /\ WriteTask([NewTask EXCEPT !.phase = Gone])
  /\ Elsewhere /\ UNCHANGED <<podObjects, group>>

groupRuns ==
  /\ trg = "Reserving" /\ trg' \in {"Reserved", "Failed"}
  /\ Elsewhere /\ UNCHANGED <<taskObject, podObjects, trgCache>>

\* The scheduler holds a pod back until the group is granted.  The agent reports
\* the phases getPhase finds, and may miss some; a pod that is stuck may recover.
podRuns(p) ==
  /\ \/ /\ pods[p] = "Pending" /\ trg = "Reserved"
        /\ \E phase \in {"Running", "Stuck"} \cup Finished : WritePod(p, phase)
     \/ pods[p] = "Running" /\ \E phase \in {"Stuck"} \cup Finished : WritePod(p, phase)
     \/ pods[p] = "Stuck" /\ \E phase \in Finished : WritePod(p, phase)
  /\ Elsewhere /\ UNCHANGED <<taskObject, group>>

\* updateTask of interconn: what became of a party of another cluster.  That it
\* runs meanwhile makes no difference here.
updateTaskPartyStatus(q) ==
  /\ Latest.phase # Gone /\ Latest.party[q] \in {None, "Pending"}
  /\ \E phase \in Finished : WriteTask([Latest EXCEPT !.party[q] = phase])
  /\ Elsewhere /\ UNCHANGED <<podObjects, group>>

(***************************************************************************)
Init ==
  /\ taskCache = NewTask /\ taskEvents = <<>>
  /\ pods = [p \in Pods |-> None] /\ podCache = pods /\ podEvents = <<>>
  /\ trg = None /\ trgCache = None
  /\ queued = TRUE /\ requeues = 0
  /\ op = "idle" /\ todo = {} /\ base = NewTask /\ next = NewTask /\ fresh = FALSE
  /\ deleted = FALSE /\ sweeping = FALSE /\ doomed = {}
  /\ faults = 0

syncHandler ==
  \/ SkipFinished \/ allocatePorts \/ createTaskResources \/ getLatestError
  \/ handlePending \/ handleRunning \/ handleFailed \/ handleSucceeded
  \/ \E p \in Pods : submitPod(p) \/ deletePod(p)
  \/ submitTaskResourceGroup \/ deleteTaskResourceGroup \/ endSync

cleanUp ==
  \/ syncDeletedTaskHandler
  \/ \E p \in Pods : sweepPod(p)
  \/ sweepTaskResourceGroup

delivery == deliverTask \/ handlePodObject \/ handleTaskResourceGroupObject

environment ==
  \/ groupRuns
  \/ \E p \in Pods : podRuns(p)
  \/ \E q \in Outer : updateTaskPartyStatus(q)

Next ==
  \/ syncHandler \/ cleanUp
  \/ delivery \/ resync
  \/ environment \/ stopTasks \/ deleteTask

Spec == Init /\ [][Next]_vars

\* The workers, the watch streams and the resync keep running; the group is
\* granted or failed, what runs comes to an end, and reports arrive.
Fairness ==
  /\ WF_vars(syncHandler) /\ WF_vars(cleanUp)
  /\ WF_vars(delivery) /\ WF_vars(resync)
  /\ WF_vars(environment)

FairSpec == Spec /\ Fairness

(***************************************************************************)
(* Properties.                                                             *)
(***************************************************************************)
\* The variables keep their types and the bounds hold; a sync that fails is not
\* retried beyond maxBackoffLimit.
TypeOK ==
  /\ taskCache \in Task /\ taskEvents \in Seq(Task) /\ Len(taskEvents) <= TaskLag
  /\ pods \in [Pods -> PodPhases] /\ podCache \in [Pods -> PodPhases]
  /\ podEvents \in Seq(Pods \X PodPhases) /\ Len(podEvents) <= PodLag
  /\ trg \in GroupPhases /\ trgCache \in GroupPhases
  /\ queued \in BOOLEAN /\ requeues \in 0..maxBackoffLimit + 1 + MaxFaults
  /\ op \in {"idle", "create", "created", "delete", "deleted"} /\ todo \in SUBSET Pods
  /\ base \in Task /\ next \in Task /\ fresh \in BOOLEAN
  /\ deleted \in BOOLEAN /\ sweeping \in BOOLEAN /\ doomed \in SUBSET Pods
  /\ faults \in 0..MaxFaults

\* What the job controller relies on: the task lives as TaskLife says, whoever else
\* writes it.  It starts before it succeeds and is finished before it is completed;
\* no status computed before revives it, takes its completion time away or brings
\* it back when it is deleted.
LifePhase == IF Latest.phase = Gone THEN None ELSE Latest.phase
Life == INSTANCE TaskLife WITH phase <- LifePhase, done <- Latest.done
ImplementsTaskLife == Life!Spec

\* reconcileTaskStatus counts parties from listers and reports: when a task
\* becomes Succeeded, MinReservedMembers parties have really succeeded.
SucceededForReal ==
  [][Latest.phase # "Succeeded" /\ Latest'.phase = "Succeeded" =>
       MinReservedMembers <=
         Cardinality({q \in Outer : Latest.party[q] = "Succeeded"}
           \cup {q \in Parties : MinReservedPods[q] <=
                    Cardinality({p \in Pods : Owner[p] = q /\ pods[p] = "Succeeded"})})]_vars

\* getPartyTaskStatus: the verdict on a party of this cluster is final, although
\* its pods may recover or be deleted afterwards.  Only a stop of the job turns
\* a success into a failure.
PartyVerdictKept ==
  [][\A q \in Parties : Latest.party[q] \in Finished /\ Latest'.phase # Gone =>
       Latest'.party[q] = Latest.party[q] \/ stopTasks]_vars

\* DeleteTaskResources works from a lister: still, when a Succeeded task is
\* completed, none of its pods runs and its group is gone, and stay so.
SucceededLeavesNothing ==
  Latest.phase = "Succeeded" /\ Latest.done =>
    trg = None /\ \A p \in Pods : pods[p] \in {None, "Failed"}

\* Every task is completed for good, or deleted together with all it owned,
\* also with what a sync created while the task was being deleted.
Settles ==
  <>[]\/ Latest.phase # Gone /\ Latest.done
      \/ Latest.phase = Gone /\ trg = None /\ \A p \in Pods : pods[p] = None
=============================================================================
