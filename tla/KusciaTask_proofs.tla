-------------------------- MODULE KusciaTask_proofs --------------------------
(***************************************************************************)
(* Whatever the parties, the pods and the lateness of the listers, the     *)
(* types hold, failed syncs stay within their limit, and the task lives as *)
(* TaskLife says.  The verdict on a party is kept, a success is earned by  *)
(* pods that have succeeded, and leaves nothing behind.                    *)
(***************************************************************************)
EXTENDS KusciaTask, TLAPS

\* A nonempty queue of versions: its head, and what is left when it is taken.
LEMMA HeadAndTail ==
  ASSUME NEW S, NEW s \in Seq(S), s # <<>>
  PROVE  /\ Head(s) \in S /\ Head(s) = s[1] /\ Tail(s) \in Seq(S)
         /\ Len(s) \in Nat \ {0} /\ Len(Tail(s)) = Len(s) - 1
         /\ \A i \in 1..Len(Tail(s)) : Tail(s)[i] = s[i + 1]
         /\ (IF Tail(s) = <<>> THEN Head(s) ELSE Tail(s)[Len(Tail(s))]) = s[Len(s)]
<1>1. /\ Head(s) \in S /\ Head(s) = s[1] /\ Tail(s) \in Seq(S)
      /\ Len(s) \in Nat \ {0} /\ Len(Tail(s)) = Len(s) - 1
      /\ \A i \in 1..Len(Tail(s)) : Tail(s)[i] = s[i + 1]
  OBVIOUS
<1> DEFINE t == Tail(s)
<1>2. t \in Seq(S)
  BY <1>1, Zenon
<1>. HIDE DEF t
<1>3. t = <<>> <=> Len(t) = 0
  BY <1>2
<1>. QED BY <1>1, <1>3 DEF t

ObjectTypes ==
  /\ taskCache \in Task /\ taskEvents \in Seq(Task) /\ Len(taskEvents) <= TaskLag
  /\ base \in Task /\ next \in Task
PodTypes ==
  /\ pods \in [Pods -> PodPhases] /\ podCache \in [Pods -> PodPhases]
  /\ podEvents \in Seq(Pods \X PodPhases) /\ Len(podEvents) <= PodLag
  /\ todo \in SUBSET Pods /\ doomed \in SUBSET Pods
GroupTypes == trg \in GroupPhases /\ trgCache \in GroupPhases
FlagTypes ==
  /\ op \in {"idle", "create", "created", "delete", "deleted"}
  /\ queued \in BOOLEAN /\ fresh \in BOOLEAN /\ deleted \in BOOLEAN /\ sweeping \in BOOLEAN

\* Beyond maxBackoffLimit + 1 a key is requeued only for a fault.
CountInv ==
  /\ faults \in 0..MaxFaults /\ requeues \in Nat
  /\ requeues <= maxBackoffLimit + 1 + faults

\* A worker in a loop read a task that was not completed and will not change its
\* phase; while fresh says so that version is still the API server's.
BaseInv ==
  op # "idle" =>
    /\ ~base.done /\ base.phase # Gone
    /\ next.phase = base.phase /\ (next.done => next.phase \in Finished)
    /\ fresh => taskEvents = <<>> /\ taskCache = base

IInv == ObjectTypes /\ PodTypes /\ GroupTypes /\ FlagTypes /\ CountInv /\ BaseInv

LEMMA InvTypes == IInv => TypeOK
<1>. SUFFICES ASSUME IInv PROVE TypeOK BY Zenon
<1>1. requeues \in 0..maxBackoffLimit + 1 + MaxFaults
  BY BoundsAssumption DEF IInv, CountInv
<1>. QED BY <1>1, Zenon DEF IInv, TypeOK, ObjectTypes, PodTypes, GroupTypes, FlagTypes, CountInv

LEMMA LatestType == ASSUME ObjectTypes PROVE Latest \in Task
  BY DEF ObjectTypes, Latest

LEMMA NewTaskType ==
  NewTask \in Task /\ NewTask.phase = "Pending" /\ ~NewTask.done
  BY Zenon DEF NewTask, Task, PartyPhases

LEMMA WriteTaskEffect ==
  ASSUME ObjectTypes, NEW v \in Task, WriteTask(v)
  PROVE  /\ taskCache' \in Task /\ taskEvents' \in Seq(Task) /\ Len(taskEvents') <= TaskLag
         /\ Latest' = v /\ fresh' = FALSE
<1>1. /\ taskEvents' = Append(taskEvents, v) /\ Len(taskEvents) < TaskLag /\ fresh' = FALSE
      /\ taskCache' = taskCache
  BY Zenon DEF WriteTask
<1>2. /\ taskEvents' \in Seq(Task) /\ Len(taskEvents') = Len(taskEvents) + 1
      /\ taskEvents'[Len(taskEvents')] = v /\ taskEvents' # <<>>
  BY <1>1 DEF ObjectTypes
<1>. QED BY <1>1, <1>2, BoundsAssumption DEF ObjectTypes, Latest

LEMMA WritePodEffect ==
  ASSUME PodTypes, NEW p \in Pods, NEW ph \in PodPhases, WritePod(p, ph)
  PROVE  /\ pods' \in [Pods -> PodPhases] /\ podCache' \in [Pods -> PodPhases]
         /\ podEvents' \in Seq(Pods \X PodPhases) /\ Len(podEvents') <= PodLag
<1>1. /\ podEvents' = Append(podEvents, <<p, ph>>) /\ Len(podEvents) < PodLag
      /\ pods' = [pods EXCEPT ![p] = ph] /\ podCache' = podCache
  BY Zenon DEF WritePod
<1>2. podEvents' \in Seq(Pods \X PodPhases) /\ Len(podEvents') = Len(podEvents) + 1
  BY <1>1 DEF PodTypes
<1>. QED BY <1>1, <1>2, BoundsAssumption DEF PodTypes

\* The last version stays the last when the lister takes the first.
LEMMA DeliverLatest ==
  ASSUME ObjectTypes, taskEvents # <<>>,
         taskCache' = Head(taskEvents), taskEvents' = Tail(taskEvents)
  PROVE  /\ taskCache' \in Task /\ taskEvents' \in Seq(Task) /\ Len(taskEvents') <= TaskLag
         /\ Latest' = Latest
<1>1. taskEvents \in Seq(Task) BY Zenon DEF ObjectTypes
<1>2. /\ Head(taskEvents) \in Task /\ Tail(taskEvents) \in Seq(Task)
      /\ Len(Tail(taskEvents)) <= TaskLag
  BY <1>1, HeadAndTail, BoundsAssumption DEF ObjectTypes
<1>3. Latest' = Latest
  BY <1>1, HeadAndTail, Zenon DEF Latest
<1>. QED BY <1>2, <1>3, Zenon

(***************************************************************************)
(* What every step does to the task, by the way it writes it.              *)
(***************************************************************************)
LifeStep == Life!Next \/ UNCHANGED <<LifePhase, Latest.done>>
Safe == IInv' /\ LifeStep

\* A version that may follow the latest one.
Follows(v) ==
  \/ v.phase = Gone /\ ~v.done
  \/ /\ Latest.phase # Gone /\ v.done = Latest.done
     /\ \/ v.phase \in {Latest.phase, "Failed"}
        \/ Latest.phase = "Pending" /\ v.phase = "Running"
        \/ Latest.phase = "Running" /\ v.phase = "Succeeded"
  \/ v.phase = Latest.phase /\ v.phase \in Finished /\ v.done

\* The worker goes on with what it does, or returns.
Goes ==
  \/ Return
  \/ /\ base' = base /\ next' = next
     /\ \/ op' = op
        \/ op = "create" /\ op' = "created"
        \/ op = "delete" /\ op' = "deleted"

\* What a step may do besides writing the task and queueing its key.
Aside ==
  /\ PodTypes' /\ GroupTypes' /\ Goes
  /\ deleted' \in BOOLEAN /\ sweeping' \in BOOLEAN

LEMMA GoesTyped ==
  ASSUME IInv, Goes
  PROVE  /\ base' \in Task /\ next' \in Task
         /\ op' \in {"idle", "create", "created", "delete", "deleted"}
         /\ (op' # "idle" /\ (fresh' => taskEvents' = <<>> /\ taskCache' = base') => BaseInv')
<1>1. CASE Return BY <1>1, NewTaskType, Zenon DEF Return, BaseInv
<1>2. CASE ~Return
  <2>1. base' \in Task /\ next' \in Task
        /\ op' \in {"idle", "create", "created", "delete", "deleted"}
    BY <1>2, Zenon DEF Goes, IInv, ObjectTypes, FlagTypes
  <2>2. ASSUME op' # "idle", fresh' => taskEvents' = <<>> /\ taskCache' = base'
        PROVE  BaseInv'
    BY <1>2, <2>2, Zenon DEF Goes, IInv, BaseInv
  <2>. QED BY <2>1, <2>2, Zenon
<1>. QED BY <1>1, <1>2, Zenon

LEMMA Written ==
  ASSUME IInv, Aside, CountInv', queued' \in BOOLEAN,
         NEW v \in Task, WriteTask(v), Follows(v)
  PROVE  Safe
<1>1. /\ taskCache' \in Task /\ taskEvents' \in Seq(Task) /\ Len(taskEvents') <= TaskLag
      /\ Latest' = v /\ fresh' = FALSE
  BY WriteTaskEffect, Zenon DEF IInv
<1>2. ObjectTypes' /\ FlagTypes'
  BY <1>1, GoesTyped, Zenon DEF Aside, ObjectTypes, FlagTypes
<1>3. BaseInv'
  <2>1. CASE op' = "idle" BY <2>1, Zenon DEF BaseInv
  <2>2. CASE op' # "idle" BY <1>1, <2>2, GoesTyped, Zenon DEF Aside
  <2>. QED BY <2>1, <2>2, Zenon
<1>4. LifeStep
  <2>1. Latest.phase # None /\ v.phase # None BY LatestType, Zenon DEF IInv, Task, None, Gone
  <2>2. v.done \in BOOLEAN /\ Latest.done \in BOOLEAN BY LatestType, Zenon DEF IInv, Task
  <2>3. /\ LifePhase' = IF v.phase = Gone THEN None ELSE v.phase
        /\ Latest'.done = v.done
    BY <1>1, Zenon DEF LifePhase
  <2>4. LifePhase = IF Latest.phase = Gone THEN None ELSE Latest.phase BY Zenon DEF LifePhase
  <2>. QED
    BY <2>1, <2>2, <2>3, <2>4, Zenon DEF LifeStep, Follows, None, Gone, Finished, Life!Next,
       Life!Create, Life!Stop, Life!Delete, Life!Start, Life!End, Life!Complete,
       Life!Finished, Life!None
<1>. QED BY <1>2, <1>3, <1>4, Zenon DEF Safe, IInv, Aside

LEMMA Kept ==
  ASSUME IInv, Aside, CountInv', queued' \in BOOLEAN, UNCHANGED taskObject
  PROVE  Safe
<1>1. UNCHANGED <<taskCache, taskEvents, fresh>> BY Zenon DEF taskObject
<1>2. Latest' = Latest /\ LifePhase' = LifePhase BY <1>1, Zenon DEF Latest, LifePhase
<1>3. ObjectTypes' /\ FlagTypes'
  BY <1>1, GoesTyped, Zenon DEF Aside, ObjectTypes, FlagTypes, IInv
<1>4. BaseInv'
  <2>1. CASE op' = "idle" BY <2>1, Zenon DEF BaseInv
  <2>2. CASE op' # "idle"
    <3>1. base' = base /\ op # "idle" BY <2>2, Zenon DEF Aside, Goes, Return
    <3>2. fresh' => taskEvents' = <<>> /\ taskCache' = base'
      BY <1>1, <3>1, Zenon DEF IInv, BaseInv
    <3>. QED BY <2>2, <3>2, GoesTyped, Zenon DEF Aside
  <2>. QED BY <2>1, <2>2, Zenon
<1>. QED BY <1>2, <1>3, <1>4, Zenon DEF Safe, IInv, Aside, LifeStep

LEMMA StatusSafe ==
  ASSUME IInv, Aside, NEW v \in Task, NEW current \in BOOLEAN, NEW q \in BOOLEAN,
         updateTaskStatus(v, current, q), current => Follows(v)
  PROVE  Safe
<1>1. CASE NoFault /\ Forget(q)
  <2>1. CountInv' /\ queued' = q
    BY <1>1, BoundsAssumption DEF IInv, CountInv, NoFault, Forget
  <2>2. (WriteTask(v) /\ current) \/ UNCHANGED taskObject
    BY <1>1, <2>1, Zenon DEF updateTaskStatus
  <2>. QED BY <2>1, <2>2, Written, Kept, Zenon
<1>2. CASE Fault /\ AddRateLimited /\ UNCHANGED taskObject
  <2>1. CountInv' BY <1>2, BoundsAssumption DEF IInv, CountInv, Fault, AddRateLimited
  <2>. QED BY <1>2, <2>1, Kept, Zenon DEF AddRateLimited
<1>. QED BY <1>1, <1>2, Zenon DEF updateTaskStatus

LEMMA CountKept ==
  ASSUME IInv, Fault \/ NoFault,
         \/ requeues' = 0
         \/ requeues' = requeues + 1 /\ (requeues <= maxBackoffLimit \/ faults' > faults)
  PROVE  CountInv'
<1>1. /\ faults' \in 0..MaxFaults /\ faults \in Nat /\ faults' >= faults
      /\ requeues \in Nat /\ requeues <= maxBackoffLimit + 1 + faults
  BY BoundsAssumption DEF IInv, CountInv, Fault, NoFault
<1>. QED BY <1>1, BoundsAssumption DEF CountInv

LEMMA ErrorSafe ==
  ASSUME IInv, Aside, NEW v \in Task, NEW current \in BOOLEAN, NEW q \in BOOLEAN,
         SyncError(v, current, q), Fault \/ NoFault,
         current => ~Latest.done /\ Latest.phase # Gone, ~v.done
  PROVE  Safe
<1>1. CASE /\ AddRateLimited /\ UNCHANGED taskObject
           /\ requeues <= maxBackoffLimit \/ faults' > faults
  <2>1. CountInv' BY <1>1, CountKept, Zenon DEF AddRateLimited
  <2>. QED BY <1>1, <2>1, Kept, Zenon DEF AddRateLimited
<1>2. CASE Forget(q) /\ ((WriteTask(failKusciaTask(v)) /\ current) \/ UNCHANGED taskObject)
  <2>1. CountInv' BY <1>2, CountKept, Zenon DEF Forget
  <2>2. /\ failKusciaTask(v) \in Task /\ failKusciaTask(v).phase = "Failed"
        /\ failKusciaTask(v).done = v.done
    BY Zenon DEF failKusciaTask, Task
  <2>3. v.done \in BOOLEAN /\ Latest.done \in BOOLEAN BY LatestType, Zenon DEF IInv, Task
  <2>4. current => Follows(failKusciaTask(v)) BY <2>2, <2>3, Zenon DEF Follows
  <2>. QED BY <1>2, <2>1, <2>2, <2>4, Written, Kept, Zenon DEF Forget
<1>. QED BY <1>1, <1>2, Zenon DEF SyncError

(***************************************************************************)
(* The handlers.                                                           *)
(***************************************************************************)
LEMMA PartyTypes ==
  ASSUME NEW party \in [AllParties -> PartyPhases]
  PROVE  /\ initPartyTaskStatus(party) \in [AllParties -> PartyPhases]
         /\ buildPartyTaskStatus(party) \in [AllParties -> PartyPhases]
         /\ setPartyTaskStatusFailed(party) \in [AllParties -> PartyPhases]
<1>1. initPartyTaskStatus(party) \in [AllParties -> PartyPhases]
  BY Zenon DEF initPartyTaskStatus, PartyPhases
<1>2. \A q \in AllParties : getPartyTaskStatus(party, q) \in PartyPhases
  BY Zenon DEF getPartyTaskStatus, PartyPhases
<1>3. buildPartyTaskStatus(party) \in [AllParties -> PartyPhases]
  <2>1. "Pending" \in PartyPhases BY Zenon DEF PartyPhases
  <2>. QED BY <1>2, <2>1, Zenon DEF buildPartyTaskStatus
<1>4. setPartyTaskStatusFailed(party) \in [AllParties -> PartyPhases]
  BY Zenon DEF setPartyTaskStatusFailed, PartyPhases
<1>. QED BY <1>1, <1>3, <1>4, Zenon

LEMMA PhaseType ==
  ASSUME NEW party
  PROVE  reconcileTaskStatus(party) \in {"Running", "Succeeded", "Failed"}
  BY Zenon DEF reconcileTaskStatus

\* A step that leaves pods, group, worker and clean-up alone.
LEMMA QuietAside ==
  ASSUME IInv, UNCHANGED <<podObjects, group, worker, sweeper>>
  PROVE  Aside
<1>1. UNCHANGED <<pods, podCache, podEvents, trg, trgCache, op, todo, base, next>>
      /\ UNCHANGED <<deleted, sweeping, doomed>>
  BY Zenon DEF podObjects, group, worker, sweeper
<1>2. PodTypes' /\ GroupTypes' BY <1>1, Zenon DEF IInv, PodTypes, GroupTypes
<1>3. deleted' \in BOOLEAN /\ sweeping' \in BOOLEAN BY <1>1, Zenon DEF IInv, FlagTypes
<1>. QED BY <1>1, <1>2, <1>3, Zenon DEF Aside, Goes

LEMMA SaveSafe ==
  ASSUME IInv, Aside, NEW v \in Task, Save(v), taskCache.phase # Gone, ~taskCache.done,
         v.done = taskCache.done,
         \/ v.phase \in {taskCache.phase, "Failed"}
         \/ taskCache.phase = "Pending" /\ v.phase = "Running"
         \/ taskCache.phase = "Running" /\ v.phase = "Succeeded"
  PROVE  Safe
<1>1. updateTaskStatus(v, Current, FALSE) /\ Current \in BOOLEAN BY Zenon DEF Save, Current
<1>2. Current => Follows(v) BY Zenon DEF Current, Follows, Latest
<1>. QED BY <1>1, <1>2, StatusSafe, Zenon

LEMMA FailSafe ==
  ASSUME IInv, Aside, NEW v \in Task, SyncError(v, Current, FALSE), Fault \/ NoFault,
         ~taskCache.done, taskCache.phase # Gone, v.done = taskCache.done
  PROVE  Safe
<1>1. Current \in BOOLEAN /\ (Current => ~Latest.done /\ Latest.phase # Gone)
  BY Zenon DEF Current, Latest
<1>. QED BY <1>1, ErrorSafe, Zenon

LEMMA SkipSafe ==
  ASSUME IInv, SkipFinished
  PROVE  Safe
<1>1. Aside BY QuietAside, Zenon DEF SkipFinished, Dequeue
<1>2. requeues' = 0 /\ queued' = FALSE /\ NoFault /\ UNCHANGED taskObject
  BY Zenon DEF SkipFinished, Forget
<1>3. CountInv' BY <1>2, CountKept, Zenon
<1>. QED BY <1>1, <1>2, <1>3, Kept, Zenon

LEMMA PortsSafe ==
  ASSUME IInv, allocatePorts \/ getLatestError
  PROVE  Safe
<1>0. /\ taskCache \in Task /\ [taskCache EXCEPT !.ports = TRUE] \in Task
      /\ [taskCache EXCEPT !.ports = TRUE].phase = taskCache.phase
      /\ [taskCache EXCEPT !.ports = TRUE].done = taskCache.done
  BY Zenon DEF IInv, ObjectTypes, Task
<1>1. Handles("Pending") BY Zenon DEF allocatePorts, getLatestError
<1>2. Aside /\ taskCache.phase # Gone /\ ~taskCache.done
  BY <1>1, QuietAside, Zenon DEF Handles, Dequeue, Gone
<1>3. CASE allocatePorts BY <1>0, <1>2, <1>3, SaveSafe, FailSafe, Zenon DEF allocatePorts
<1>4. CASE getLatestError BY <1>0, <1>2, <1>4, FailSafe, Zenon DEF getLatestError
<1>. QED BY <1>3, <1>4, Zenon

LEMMA PendingSafe ==
  ASSUME IInv, handlePending
  PROVE  Safe
<1>. DEFINE v == [taskCache EXCEPT !.party = initPartyTaskStatus(@)]
<1>0. taskCache \in Task /\ taskCache.party \in [AllParties -> PartyPhases]
  BY Zenon DEF IInv, ObjectTypes, Task
<1>1. v \in Task /\ v.phase = taskCache.phase /\ v.done = taskCache.done
  BY <1>0, PartyTypes, Zenon DEF Task
<1>2. /\ [v EXCEPT !.phase = "Failed"] \in Task /\ [v EXCEPT !.phase = "Failed"].phase = "Failed"
      /\ [v EXCEPT !.phase = "Running"] \in Task /\ [v EXCEPT !.phase = "Running"].phase = "Running"
      /\ [v EXCEPT !.phase = "Failed"].done = v.done /\ [v EXCEPT !.phase = "Running"].done = v.done
  <2>. HIDE DEF v
  <2>. QED BY <1>1, Zenon DEF Task
<1>3. Aside /\ taskCache.phase = "Pending" /\ taskCache.phase # Gone /\ ~taskCache.done
  BY QuietAside, Zenon DEF handlePending, Handles, Dequeue, Gone
<1>4. \/ Save([v EXCEPT !.phase = "Failed"]) \/ Save([v EXCEPT !.phase = "Running"]) \/ Save(v)
      \/ (Fault \/ NoFault) /\ SyncError(v, Current, FALSE)
  BY Zenon DEF handlePending
<1>. HIDE DEF v
<1>. QED BY <1>1, <1>2, <1>3, <1>4, SaveSafe, FailSafe, Zenon

LEMMA RunningSafe ==
  ASSUME IInv, handleRunning
  PROVE  Safe
<1>. DEFINE party == buildPartyTaskStatus(taskCache.party)
            v == [taskCache EXCEPT !.party = party, !.phase = reconcileTaskStatus(party)]
<1>0. taskCache \in Task /\ taskCache.party \in [AllParties -> PartyPhases]
      /\ [taskCache EXCEPT !.phase = "Failed"] \in Task
      /\ [taskCache EXCEPT !.phase = "Failed"].phase = "Failed"
      /\ [taskCache EXCEPT !.phase = "Failed"].done = taskCache.done
  BY Zenon DEF IInv, ObjectTypes, Task
<1>1. v \in Task /\ v.phase \in {"Running", "Succeeded", "Failed"} /\ v.done = taskCache.done
  <2>1. party \in [AllParties -> PartyPhases] BY <1>0, PartyTypes, Zenon
  <2>2. reconcileTaskStatus(party) \in {"Running", "Succeeded", "Failed"} BY PhaseType, Zenon
  <2>. HIDE DEF party
  <2>. QED BY <1>0, <2>1, <2>2, Zenon DEF Task
<1>2. Aside /\ taskCache.phase = "Running" /\ taskCache.phase # Gone /\ ~taskCache.done
  BY QuietAside, Zenon DEF handleRunning, Handles, Dequeue, Gone
<1>3. \/ Save([taskCache EXCEPT !.phase = "Failed"]) \/ Save(taskCache) \/ Save(v)
      \/ (Fault \/ NoFault) /\ SyncError(taskCache, Current, FALSE)
  BY Zenon DEF handleRunning
<1>. HIDE DEF v
<1>. QED BY <1>0, <1>1, <1>2, <1>3, SaveSafe, FailSafe, Zenon

\* A handler that begins a loop over the pods ps.
LEMMA BeginSafe ==
  ASSUME IInv, Dequeue, GroupTypes', Fault \/ NoFault,
         NEW o \in {"create", "delete"}, NEW ps \in SUBSET Pods, NEW v \in Task,
         Begin(o, ps, v), ~taskCache.done,
         taskCache.phase # Gone, v.phase = taskCache.phase,
         v.done => v.phase \in Finished
  PROVE  Safe
<1>1. /\ op' = o /\ todo' = ps /\ base' = taskCache /\ next' = v
      /\ fresh' = Current /\ queued' = FALSE
      /\ UNCHANGED <<taskCache, taskEvents, pods, podCache, podEvents, requeues>>
      /\ UNCHANGED <<deleted, sweeping, doomed>>
  BY Zenon DEF Begin, Dequeue, podObjects, sweeper
<1>2. Latest' = Latest /\ LifePhase' = LifePhase BY <1>1, Zenon DEF Latest, LifePhase
<1>3. ObjectTypes' /\ PodTypes' BY <1>1, Zenon DEF IInv, ObjectTypes, PodTypes
<1>4. FlagTypes' BY <1>1, Zenon DEF IInv, FlagTypes, Current
<1>5. CountInv'
  <2>1. requeues' = requeues BY <1>1, Zenon
  <2>. QED BY <2>1, BoundsAssumption DEF IInv, CountInv, Fault, NoFault
<1>6. BaseInv' BY <1>1, Zenon DEF BaseInv, Current
<1>. QED BY <1>2, <1>3, <1>4, <1>5, <1>6, Zenon DEF Safe, IInv, LifeStep

LEMMA LoopBeginsSafe ==
  ASSUME IInv, createTaskResources \/ handleFailed \/ handleSucceeded
  PROVE  Safe
<1>0. /\ taskCache \in Task /\ taskCache.party \in [AllParties -> PartyPhases]
      /\ podsToDelete \in SUBSET Pods /\ Pods \in SUBSET Pods
      /\ trg \in GroupPhases /\ trgCache \in GroupPhases
  BY Zenon DEF IInv, ObjectTypes, Task, podsToDelete, GroupTypes
<1>1. CASE createTaskResources
  <2>1. /\ [taskCache EXCEPT !.created = TRUE] \in Task
        /\ [taskCache EXCEPT !.created = TRUE].phase = taskCache.phase
        /\ [taskCache EXCEPT !.created = TRUE].done = taskCache.done
    BY <1>0, Zenon DEF Task
  <2>2. GroupTypes' BY <1>0, <1>1, Zenon DEF createTaskResources, group, GroupTypes
  <2>3. taskCache.phase # Gone BY <1>1, Zenon DEF createTaskResources, Gone
  <2>. QED BY <1>0, <1>1, <2>1, <2>2, <2>3, BeginSafe, Zenon DEF createTaskResources
<1>2. CASE handleSucceeded
  <2>1. /\ [taskCache EXCEPT !.done = TRUE] \in Task
        /\ [taskCache EXCEPT !.done = TRUE].phase = taskCache.phase
    BY <1>0, Zenon DEF Task
  <2>2. GroupTypes' BY <1>0, <1>2, Zenon DEF handleSucceeded, group, GroupTypes
  <2>3. taskCache.phase # Gone /\ taskCache.phase \in Finished
    BY <1>2, Zenon DEF handleSucceeded, Gone, Finished
  <2>. QED BY <1>0, <1>2, <2>1, <2>2, <2>3, BeginSafe, Zenon DEF handleSucceeded
<1>3. CASE handleFailed
  <2>. DEFINE v == [taskCache EXCEPT !.done = TRUE, !.party = setPartyTaskStatusFailed(@)]
  <2>1. v \in Task /\ v.phase = taskCache.phase BY <1>0, PartyTypes, Zenon DEF Task
  <2>2. GroupTypes' /\ (Fault \/ NoFault)
    BY <1>0, <1>3, Zenon DEF handleFailed, setTaskResourceGroupFailed, GroupTypes, GroupPhases
  <2>3. taskCache.phase # Gone /\ taskCache.phase \in Finished /\ ~taskCache.done
    BY <1>3, Zenon DEF handleFailed, Gone, Finished
  <2>4. Dequeue /\ Begin("delete", podsToDelete, v) BY <1>3, Zenon DEF handleFailed
  <2>. HIDE DEF v
  <2>. QED BY <1>0, <2>1, <2>2, <2>3, <2>4, BeginSafe, Zenon
<1>. QED BY <1>1, <1>2, <1>3, Zenon
(***************************************************************************)
(* The loops.                                                              *)
(***************************************************************************)
\* While fresh, the version the worker read is the latest.
LEMMA FreshBase ==
  ASSUME IInv, op # "idle", fresh
  PROVE  Latest = base /\ ~Latest.done /\ Latest.phase # Gone
  BY Zenon DEF IInv, BaseInv, Latest

LEMMA FailSyncSafe ==
  ASSUME IInv, Aside, op # "idle", FailSync, Fault \/ NoFault
  PROVE  Safe
<1>. DEFINE v == [next EXCEPT !.done = FALSE, !.created = base.created]
<1>1. v \in Task /\ ~v.done BY Zenon DEF IInv, ObjectTypes, Task
<1>2. fresh \in BOOLEAN /\ queued \in BOOLEAN BY Zenon DEF IInv, FlagTypes
<1>3. SyncError(v, fresh, queued) BY Zenon DEF FailSync
<1>4. fresh => ~Latest.done /\ Latest.phase # Gone BY FreshBase, Zenon
<1>. HIDE DEF v
<1>. QED BY <1>1, <1>2, <1>3, <1>4, ErrorSafe, Zenon

LEMMA DeleteErrorSafe ==
  ASSUME IInv, Aside, op # "idle", DeleteError, Fault
  PROVE  Safe
<1>1. CASE FailSync BY <1>1, FailSyncSafe, Zenon
<1>2. CASE Forget(queued) /\ UNCHANGED taskObject
  <2>1. CountInv' BY <1>2, CountKept, Zenon DEF Forget
  <2>2. queued' \in BOOLEAN BY <1>2, Zenon DEF Forget, IInv, FlagTypes
  <2>. QED BY <1>2, <2>1, <2>2, Kept, Zenon
<1>. QED BY <1>1, <1>2, Zenon DEF DeleteError

LEMMA DeleteErrorReturns ==
  ASSUME DeleteError PROVE Return
  BY Zenon DEF DeleteError, FailSync

\* A step of a loop that writes neither the task nor the queue.
LEMMA GoesOnSafe ==
  ASSUME IInv, Aside, NoFault, UNCHANGED <<queue, taskObject>>
  PROVE  Safe
<1>1. requeues' = requeues /\ queued' = queued BY Zenon DEF queue
<1>2. CountInv' BY <1>1, Zenon DEF IInv, CountInv, NoFault
<1>. QED BY <1>1, <1>2, Kept, Zenon DEF IInv, FlagTypes

LEMMA PodLoopSafe ==
  ASSUME IInv, NEW p \in Pods, submitPod(p) \/ deletePod(p)
  PROVE  Safe
<1>1. op # "idle" /\ op \in {"create", "delete"} /\ UNCHANGED <<deleted, sweeping, doomed>>
      /\ UNCHANGED <<trg, trgCache>>
  BY Zenon DEF submitPod, deletePod, Works, sweeper, group
<1>2. GroupTypes' /\ deleted' \in BOOLEAN /\ sweeping' \in BOOLEAN
  BY <1>1, Zenon DEF IInv, GroupTypes, FlagTypes
<1>3. CASE Reached(p) /\ NoFault
           /\ (UNCHANGED podObjects \/ \E ph \in {"Pending", None} : WritePod(p, ph))
  <2>1. todo' = todo \ {p} /\ UNCHANGED <<op, base, next, queue, taskObject>>
    BY <1>3, Zenon DEF Reached
  <2>2. todo' \in SUBSET Pods /\ doomed' \in SUBSET Pods BY <1>1, <2>1, Zenon DEF IInv, PodTypes
  <2>3. PodTypes'
    <3>1. CASE UNCHANGED podObjects BY <2>2, <3>1, Zenon DEF IInv, PodTypes, podObjects
    <3>2. CASE \E ph \in {"Pending", None} : WritePod(p, ph)
      <4>1. PICK ph \in {"Pending", None} : WritePod(p, ph) BY <3>2, Zenon
      <4>2. ph \in PodPhases BY Zenon DEF PodPhases
      <4>. QED BY <2>2, <4>1, <4>2, WritePodEffect, Zenon DEF IInv, PodTypes
    <3>. QED BY <1>3, <3>1, <3>2, Zenon
  <2>4. Aside BY <1>2, <2>1, <2>3, Zenon DEF Aside, Goes
  <2>. QED BY <1>3, <2>1, <2>4, GoesOnSafe, Zenon
<1>4. CASE Fault /\ (FailSync \/ DeleteError) /\ UNCHANGED podObjects
  <2>1. Return BY <1>4, DeleteErrorReturns, Zenon DEF FailSync
  <2>2. todo' \in SUBSET Pods BY <2>1, Zenon DEF Return
  <2>3. PodTypes' BY <1>1, <1>4, <2>2, Zenon DEF IInv, PodTypes, podObjects
  <2>4. Aside BY <1>2, <2>1, <2>3, Zenon DEF Aside, Goes
  <2>. QED BY <1>1, <1>4, <2>4, FailSyncSafe, DeleteErrorSafe, Zenon
<1>5. submitPod(p) =>
        \/ Reached(p) /\ NoFault /\ (UNCHANGED podObjects \/ WritePod(p, "Pending"))
        \/ Fault /\ FailSync /\ UNCHANGED podObjects
  BY Zenon DEF submitPod
<1>6. deletePod(p) =>
        \/ Reached(p) /\ NoFault /\ (UNCHANGED podObjects \/ WritePod(p, None))
        \/ Fault /\ DeleteError /\ UNCHANGED podObjects
  BY Zenon DEF deletePod
<1>. QED BY <1>3, <1>4, <1>5, <1>6, Zenon

LEMMA GroupLoopSafe ==
  ASSUME IInv, submitTaskResourceGroup \/ deleteTaskResourceGroup
  PROVE  Safe
<1>1. /\ op # "idle" /\ UNCHANGED <<deleted, sweeping, doomed>>
      /\ UNCHANGED <<pods, podCache, podEvents, trgCache>>
  BY Zenon DEF submitTaskResourceGroup, deleteTaskResourceGroup, Works, sweeper, podObjects
<1>2. GroupTypes'
  <2>1. trg' \in {trg, "Reserving", None}
    BY Zenon DEF submitTaskResourceGroup, deleteTaskResourceGroup
  <2>. QED BY <1>1, <2>1, Zenon DEF IInv, GroupTypes, GroupPhases
<1>3. deleted' \in BOOLEAN /\ sweeping' \in BOOLEAN BY <1>1, Zenon DEF IInv, FlagTypes
<1>4. CASE /\ NoFault /\ UNCHANGED <<todo, base, next, queue, taskObject>>
           /\ (op = "create" /\ op' = "created") \/ (op = "delete" /\ op' = "deleted")
  <2>1. PodTypes' BY <1>1, <1>4, Zenon DEF IInv, PodTypes
  <2>2. Aside BY <1>2, <1>3, <1>4, <2>1, Zenon DEF Aside, Goes
  <2>. QED BY <1>4, <2>2, GoesOnSafe, Zenon
<1>5. CASE (FailSync /\ (Fault \/ NoFault)) \/ (DeleteError /\ Fault)
  <2>1. Return BY <1>5, DeleteErrorReturns, Zenon DEF FailSync
  <2>2. todo' \in SUBSET Pods BY <2>1, Zenon DEF Return
  <2>3. PodTypes' BY <1>1, <2>2, Zenon DEF IInv, PodTypes
  <2>4. Aside BY <1>2, <1>3, <2>1, <2>3, Zenon DEF Aside, Goes
  <2>. QED BY <1>1, <1>5, <2>4, FailSyncSafe, DeleteErrorSafe, Zenon
<1>. QED BY <1>4, <1>5, Zenon DEF submitTaskResourceGroup, deleteTaskResourceGroup, Works

LEMMA EndSyncSafe ==
  ASSUME IInv, endSync
  PROVE  Safe
<1>1. /\ op \in {"created", "deleted", "delete"} /\ UNCHANGED <<deleted, sweeping, doomed>>
      /\ updateTaskStatus(next, fresh, queued) /\ Return
      /\ UNCHANGED <<pods, podCache, podEvents, trg, trgCache>>
  BY Zenon DEF endSync, Works, sweeper, podObjects, group
<1>2. todo' \in SUBSET Pods BY <1>1, Zenon DEF Return
<1>3. PodTypes' /\ GroupTypes' BY <1>1, <1>2, Zenon DEF IInv, PodTypes, GroupTypes
<1>4. deleted' \in BOOLEAN /\ sweeping' \in BOOLEAN BY <1>1, Zenon DEF IInv, FlagTypes
<1>5. Aside BY <1>1, <1>3, <1>4, Zenon DEF Aside, Goes
<1>6. ASSUME fresh PROVE Follows(next)
  <2>1. Latest = base /\ ~Latest.done /\ Latest.phase # Gone BY <1>1, <1>6, FreshBase, Zenon
  <2>2. next.phase = base.phase /\ (next.done => next.phase \in Finished)
    BY <1>1, Zenon DEF IInv, BaseInv
  <2>3. next.done \in BOOLEAN /\ base.done \in BOOLEAN BY Zenon DEF IInv, ObjectTypes, Task
  <2>. QED BY <2>1, <2>2, <2>3, Zenon DEF Follows
<1>7. next \in Task /\ fresh \in BOOLEAN /\ queued \in BOOLEAN
  BY Zenon DEF IInv, ObjectTypes, FlagTypes
<1>. QED BY <1>1, <1>5, <1>6, <1>7, StatusSafe, Zenon
(***************************************************************************)
(* The clean-up, the watch streams and the environment.                    *)
(***************************************************************************)
LEMMA CleanUpSafe ==
  ASSUME IInv, cleanUp
  PROVE  Safe
<1>1. UNCHANGED <<taskObject, queue, trgCache>> /\ UNCHANGED <<op, todo, base, next>>
  BY Zenon DEF cleanUp, syncDeletedTaskHandler, sweepPod, sweepTaskResourceGroup, Sweeps, worker, group
<1>2. queued' = queued /\ requeues' = requeues BY <1>1, Zenon DEF queue
<1>3. GroupTypes'
  <2>1. trg' \in {trg, None}
    BY Zenon DEF cleanUp, syncDeletedTaskHandler, sweepPod, sweepTaskResourceGroup, group
  <2>. QED BY <1>1, <2>1, Zenon DEF IInv, GroupTypes, GroupPhases
<1>4. deleted' \in BOOLEAN /\ sweeping' \in BOOLEAN
  BY Zenon DEF cleanUp, syncDeletedTaskHandler, sweepPod, sweepTaskResourceGroup, SweepError,
         IInv, FlagTypes
<1>5. doomed' \in SUBSET Pods
  BY Zenon DEF cleanUp, syncDeletedTaskHandler, sweepPod, sweepTaskResourceGroup, SweepError,
         IInv, PodTypes
<1>6. PodTypes'
  <2>1. CASE UNCHANGED podObjects BY <1>1, <1>5, <2>1, Zenon DEF IInv, PodTypes, podObjects
  <2>2. CASE \E p \in Pods : WritePod(p, None)
    <3>1. PICK p \in Pods : WritePod(p, None) BY <2>2, Zenon
    <3>2. None \in PodPhases BY Zenon DEF PodPhases
    <3>. QED BY <1>1, <1>5, <3>1, <3>2, WritePodEffect, Zenon DEF IInv, PodTypes
  <2>. QED
    BY <2>1, <2>2, Zenon DEF cleanUp, syncDeletedTaskHandler, sweepPod, sweepTaskResourceGroup
<1>7. Aside BY <1>1, <1>3, <1>4, <1>6, Zenon DEF Aside, Goes
<1>8. CountInv'
  <2>1. Fault \/ NoFault
    BY Zenon DEF cleanUp, syncDeletedTaskHandler, sweepPod, sweepTaskResourceGroup, SweepError, NoFault
  <2>. QED BY <1>2, <2>1, BoundsAssumption DEF IInv, CountInv, Fault, NoFault
<1>. QED BY <1>1, <1>2, <1>7, <1>8, Kept, Zenon DEF IInv, FlagTypes

\* A delivery: keys are added, and the worker does not move.
LEMMA WatchAside ==
  ASSUME IInv, Watch, deleted' \in BOOLEAN, GroupTypes',
         podCache' \in [Pods -> PodPhases], podEvents' \in Seq(Pods \X PodPhases),
         Len(podEvents') <= PodLag
  PROVE  Aside /\ CountInv'
<1>1. /\ UNCHANGED <<fresh, pods, trg, requeues, sweeping, doomed, faults>>
      /\ UNCHANGED <<op, todo, base, next>>
  BY Zenon DEF Watch, worker
<1>2. PodTypes' BY <1>1, Zenon DEF IInv, PodTypes
<1>3. CountInv' BY <1>1, Zenon DEF IInv, CountInv
<1>. QED BY <1>1, <1>2, <1>3, Zenon DEF Aside, Goes, IInv, FlagTypes

LEMMA deliverTaskSafe ==
  ASSUME IInv, deliverTask
  PROVE  Safe
<1>1. /\ queued' \in BOOLEAN /\ deleted' \in BOOLEAN /\ fresh' = fresh
      /\ UNCHANGED <<podCache, podEvents, trg, trgCache>>
      /\ UNCHANGED <<op, base, next>>
  BY Zenon DEF deliverTask, Watch, worker
<1>2. Aside /\ CountInv'
  BY <1>1, WatchAside, Zenon DEF deliverTask, IInv, GroupTypes, PodTypes
<1>3. /\ taskCache' \in Task /\ taskEvents' \in Seq(Task) /\ Len(taskEvents') <= TaskLag
      /\ Latest' = Latest
  BY DeliverLatest, Zenon DEF deliverTask, IInv
<1>4. ObjectTypes' BY <1>1, <1>3, Zenon DEF ObjectTypes, IInv
<1>5. FlagTypes' BY <1>1, <1>2, Zenon DEF Aside, FlagTypes, IInv
<1>6. BaseInv' BY <1>1, Zenon DEF deliverTask, IInv, BaseInv
<1>7. LifePhase' = LifePhase BY <1>3, Zenon DEF LifePhase
<1>. QED BY <1>2, <1>3, <1>4, <1>5, <1>6, <1>7, Zenon DEF Safe, IInv, Aside, LifeStep

LEMMA OtherWatchSafe ==
  ASSUME IInv, handlePodObject \/ handleTaskResourceGroupObject \/ resync
  PROVE  Safe
<1>1. Watch /\ enqueueOwner /\ UNCHANGED <<taskCache, taskEvents>>
  BY Zenon DEF handlePodObject, handleTaskResourceGroupObject, resync
<1>2. queued' \in BOOLEAN /\ deleted' \in BOOLEAN BY <1>1, Zenon DEF enqueueOwner
<1>3. GroupTypes'
  BY Zenon DEF handlePodObject, handleTaskResourceGroupObject, resync, Watch, IInv, GroupTypes
<1>4. /\ podCache' \in [Pods -> PodPhases] /\ podEvents' \in Seq(Pods \X PodPhases)
      /\ Len(podEvents') <= PodLag
  <2>1. CASE handlePodObject
    <3>1. podEvents \in Seq(Pods \X PodPhases) /\ podEvents # <<>>
      BY <2>1, Zenon DEF handlePodObject, IInv, PodTypes
    <3>2. /\ Head(podEvents) \in Pods \X PodPhases /\ Tail(podEvents) \in Seq(Pods \X PodPhases)
          /\ Len(Tail(podEvents)) = Len(podEvents) - 1
      BY <3>1, HeadAndTail, Zenon
    <3>3. Len(podEvents) \in Nat BY <3>1
    <3>4. Len(podEvents') <= PodLag
      BY <2>1, <3>2, <3>3, BoundsAssumption DEF handlePodObject, IInv, PodTypes
    <3>. QED BY <2>1, <3>2, <3>4, Zenon DEF handlePodObject, IInv, PodTypes
  <2>2. CASE UNCHANGED <<podCache, podEvents>> BY <2>2, Zenon DEF IInv, PodTypes
  <2>. QED BY <2>1, <2>2, Zenon DEF handleTaskResourceGroupObject, resync
<1>5. Aside /\ CountInv' BY <1>1, <1>2, <1>3, <1>4, WatchAside, Zenon
<1>. QED BY <1>1, <1>2, <1>5, Kept, Zenon DEF Watch, taskObject

LEMMA ElsewhereKeeps ==
  ASSUME IInv, Elsewhere
  PROVE  CountInv' /\ queued' \in BOOLEAN
         /\ (GroupTypes' /\ pods' \in [Pods -> PodPhases] /\ podCache' \in [Pods -> PodPhases]
             /\ podEvents' \in Seq(Pods \X PodPhases) /\ Len(podEvents') <= PodLag => Aside)
<1>1. /\ UNCHANGED <<queued, requeues, faults>> /\ UNCHANGED <<op, todo, base, next>>
      /\ UNCHANGED <<deleted, sweeping, doomed>>
  BY Zenon DEF Elsewhere, queue, worker, sweeper
<1>2. CountInv' /\ queued' \in BOOLEAN BY <1>1, Zenon DEF IInv, CountInv, FlagTypes
<1>3. deleted' \in BOOLEAN /\ sweeping' \in BOOLEAN BY <1>1, Zenon DEF IInv, FlagTypes
<1>4. todo' \in SUBSET Pods /\ doomed' \in SUBSET Pods BY <1>1, Zenon DEF IInv, PodTypes
<1>. QED BY <1>1, <1>2, <1>3, <1>4, Zenon DEF Aside, Goes, PodTypes

LEMMA TaskWritersSafe ==
  ASSUME IInv, \/ stopTasks \/ deleteTask \/ \E q \in Outer : updateTaskPartyStatus(q)
  PROVE  Safe
<1>1. Elsewhere /\ UNCHANGED <<podObjects, group>>
  BY Zenon DEF stopTasks, deleteTask, updateTaskPartyStatus
<1>2. Aside /\ CountInv' /\ queued' \in BOOLEAN
  BY <1>1, ElsewhereKeeps, Zenon DEF podObjects, group, IInv, PodTypes, GroupTypes
<1>3. Latest \in Task BY LatestType, Zenon DEF IInv
<1>4. CASE stopTasks
  <2>. DEFINE v == [Latest EXCEPT !.phase = "Failed",
                    !.party = [q \in AllParties |-> IF q \in Parties THEN "Failed" ELSE @[q]]]
  <2>1. v \in Task /\ v.phase = "Failed" /\ v.done = Latest.done
    BY <1>3, Zenon DEF Task, PartyPhases
  <2>2. WriteTask(v) BY <1>4, Zenon DEF stopTasks
  <2>. HIDE DEF v
  <2>3. Follows(v) BY <1>4, <2>1, Zenon DEF Follows, stopTasks
  <2>. QED BY <1>2, <2>1, <2>2, <2>3, Written, Zenon
<1>5. CASE deleteTask
  <2>. DEFINE v == [NewTask EXCEPT !.phase = Gone]
  <2>1. v \in Task /\ v.phase = Gone /\ ~v.done BY NewTaskType, Zenon DEF Task
  <2>2. WriteTask(v) BY <1>5, Zenon DEF deleteTask
  <2>. HIDE DEF v
  <2>3. Follows(v) BY <2>1, Zenon DEF Follows
  <2>. QED BY <1>2, <2>1, <2>2, <2>3, Written, Zenon
<1>6. ASSUME NEW q \in Outer, updateTaskPartyStatus(q) PROVE Safe
  <2>1. PICK ph \in Finished : WriteTask([Latest EXCEPT !.party[q] = ph])
    BY <1>6, Zenon DEF updateTaskPartyStatus
  <2>. DEFINE v == [Latest EXCEPT !.party[q] = ph]
  <2>2. ph \in PartyPhases /\ q \in AllParties BY Zenon DEF Finished, PartyPhases, AllParties
  <2>3. v \in Task /\ v.phase = Latest.phase /\ v.done = Latest.done
    BY <1>3, <2>2, Zenon DEF Task
  <2>4. WriteTask(v) BY <2>1, Zenon
  <2>. HIDE DEF v
  <2>5. Follows(v) BY <1>6, <2>3, Zenon DEF Follows, updateTaskPartyStatus
  <2>. QED BY <1>2, <2>3, <2>4, <2>5, Written, Zenon
<1>. QED BY <1>4, <1>5, <1>6, Zenon

LEMMA AgentsSafe ==
  ASSUME IInv, groupRuns \/ \E p \in Pods : podRuns(p)
  PROVE  Safe
<1>1. Elsewhere /\ UNCHANGED taskObject BY Zenon DEF groupRuns, podRuns
<1>2. CASE groupRuns
  <2>1. GroupTypes' BY <1>2, Zenon DEF groupRuns, IInv, GroupTypes, GroupPhases
  <2>2. Aside /\ CountInv' /\ queued' \in BOOLEAN
    BY <1>1, <1>2, <2>1, ElsewhereKeeps, Zenon DEF groupRuns, podObjects, IInv, PodTypes
  <2>. QED BY <1>1, <2>2, Kept, Zenon
<1>3. ASSUME NEW p \in Pods, podRuns(p) PROVE Safe
  <2>1. PICK ph \in PodPhases : WritePod(p, ph)
    BY <1>3, Zenon DEF podRuns, PodPhases, Finished
  <2>2. GroupTypes' BY <1>3, Zenon DEF podRuns, group, IInv, GroupTypes
  <2>3. Aside /\ CountInv' /\ queued' \in BOOLEAN
    BY <1>1, <2>1, <2>2, ElsewhereKeeps, WritePodEffect, Zenon DEF IInv
  <2>. QED BY <1>1, <2>3, Kept, Zenon
<1>. QED BY <1>2, <1>3, Zenon

LEMMA NextSafe == ASSUME IInv, [Next]_vars PROVE Safe
<1>1. CASE syncHandler
  BY Zenon, <1>1, SkipSafe, PortsSafe, PendingSafe, RunningSafe, LoopBeginsSafe, PodLoopSafe,
     GroupLoopSafe, EndSyncSafe DEF syncHandler
<1>2. CASE delivery \/ resync
  BY <1>2, deliverTaskSafe, OtherWatchSafe, Zenon DEF delivery
<1>3. CASE environment \/ stopTasks \/ deleteTask
  BY <1>3, TaskWritersSafe, AgentsSafe, Zenon DEF environment
<1>4. CASE UNCHANGED vars
  <2>1. UNCHANGED <<taskObject, queue, faults>> /\ UNCHANGED <<podObjects, group, worker, sweeper>>
    BY <1>4, Zenon DEF vars
  <2>2. Aside BY <2>1, QuietAside, Zenon
  <2>. QED BY <2>1, <2>2, GoesOnSafe, Zenon DEF NoFault
<1>. QED BY <1>1, <1>2, <1>3, <1>4, CleanUpSafe, Zenon DEF Next

LEMMA InitInv == ASSUME Init PROVE IInv
<1>1. ObjectTypes BY NewTaskType, BoundsAssumption DEF Init, ObjectTypes
<1>2. PodTypes BY BoundsAssumption DEF Init, PodTypes, PodPhases
<1>3. GroupTypes BY Zenon DEF Init, GroupTypes, GroupPhases
<1>4. FlagTypes BY Zenon DEF Init, FlagTypes
<1>5. CountInv BY BoundsAssumption DEF Init, CountInv
<1>6. BaseInv BY Zenon DEF Init, BaseInv
<1>. QED BY <1>1, <1>2, <1>3, <1>4, <1>5, <1>6, Zenon DEF IInv

\* The types hold, and with them the bounds: syncs that fail are retried until
\* maxBackoffLimit and, beyond it, only when the write that gives up fails.
THEOREM TypeCorrect == Spec => []TypeOK
<1>1. IInv /\ [Next]_vars => IInv' BY NextSafe, Zenon DEF Safe
<1>. QED BY <1>1, InitInv, InvTypes, PTL DEF Spec

\* The task controller keeps what the job controller relies on: every step of it, of
\* the job controller and of the partners is a step of TaskLife or leaves phase and completion.
THEOREM TaskLifeImplemented == Spec => ImplementsTaskLife
<1>1. Init => Life!Init
  BY NewTaskType DEF Init, Latest, LifePhase, Life!Init, Gone, NewTask
<1>2. IInv /\ [Next]_vars => IInv' BY NextSafe, Zenon DEF Safe
<1>3. IInv /\ [Next]_vars => [Life!Next]_<<LifePhase, Latest.done>>
  BY NextSafe, Zenon DEF Safe, LifeStep
<1>. QED BY <1>1, <1>2, <1>3, InitInv, PTL DEF Spec, ImplementsTaskLife, Life!Spec

(***************************************************************************)
(* What a success rests on and leaves behind.  The task moves forward in   *)
(* the order of its versions; its pods and its group are created before it *)
(* runs and not afterwards, and deleted once it has ended.                 *)
(***************************************************************************)
Alive == {"Pending", "Running"}

\* No version the lister shows, or is still to see, is ahead of the API server's.
Old(v) ==
  /\ Latest.phase = "Pending" => v.phase = "Pending"
  /\ Latest.phase \in Alive => v.phase \in Alive
  /\ v.phase = Gone => Latest.phase = Gone

\* What a worker has read, and what it is about to write, given the task as it is.
LifeInv ==
  /\ Old(taskCache) /\ \A i \in DOMAIN taskEvents : Old(taskEvents[i])
  /\ deleted \/ sweeping => Latest.phase = Gone
  /\ op \in {"delete", "deleted"} => Latest.phase \notin Alive
  /\ op \in {"create", "created"} => ~next.done
  /\ op # "idle" /\ base.created => next.created
  /\ op # "idle" => \A q \in Parties :
       /\ next.party[q] = "Succeeded" => base.party[q] = "Succeeded"
       /\ base.party[q] \in Finished => next.party[q] = base.party[q]
  /\ op = "create" => ~Latest.created
  /\ Latest.phase \in {"Running", "Succeeded"} => Latest.created

Waiting == {None, "Pending"}

\* PendingHandler makes the task Running when the lister shows a pod that has begun.
Starts == /\ Latest.phase = "Pending" /\ \E p \in Pods : podCache[p] \notin Waiting
          /\ UNCHANGED podEvents

\* RunningHandler makes it Succeeded for enough parties that have succeeded.
Ends(v) ==
  /\ Latest.phase = "Running" /\ ~v.done
  /\ MinReservedMembers <= Count(v.party, "Succeeded")
  /\ \A q \in Outer : v.party[q] = "Succeeded" => Latest.party[q] = "Succeeded"

\* A party of this cluster has succeeded when its pods, as the lister shows them, have; a
\* verdict is not taken back.
SeenSucceeded(q) == MinReservedPods[q] <= PodsIn(q, {"Succeeded"})
Honest(v) ==
  \A q \in Parties : v.party[q] = "Succeeded" => Latest.party[q] = "Succeeded" \/ SeenSucceeded(q)
Steady(v) ==
  \A q \in Parties : Latest.party[q] \in Finished => v.party[q] = Latest.party[q]

\* A version that a step may write.
Good(v) ==
  /\ Latest.phase # Gone
  /\ v.phase = "Pending" => Latest.phase = "Pending"
  /\ v.phase = "Running" => Latest.phase = "Running" \/ Starts
  /\ v.phase = "Succeeded" => Latest.phase = "Succeeded" \/ Ends(v)
  /\ v.phase \in {"Running", "Succeeded"} => v.created
  /\ v.created /\ op' = "create" => Latest.created
  /\ Honest(v) /\ (Steady(v) \/ v.phase = Gone \/ stopTasks)
  /\ v.phase = "Succeeded" /\ v.done =>
       /\ Latest.phase = "Succeeded"
       /\ Latest.done \/ (op = "deleted" /\ fresh /\ base.phase = "Succeeded")

TaskMoves ==
  \/ UNCHANGED <<taskCache, taskEvents>>
  \/ deliverTask
  \/ \E v \in Task : WriteTask(v) /\ Good(v)

LEMMA StatusMoves ==
  ASSUME NEW v \in Task, NEW current, NEW q, updateTaskStatus(v, current, q), current => Good(v)
  PROVE  TaskMoves
  BY Zenon DEF updateTaskStatus, TaskMoves, taskObject

LEMMA ErrorMoves ==
  ASSUME NEW v \in Task, NEW current, NEW q, SyncError(v, current, q),
         current => Latest.phase # Gone /\ Honest(v) /\ Steady(v), op' # "create"
  PROVE  TaskMoves
<1>1. /\ failKusciaTask(v) \in Task /\ failKusciaTask(v).phase = "Failed"
      /\ failKusciaTask(v).party = v.party
  BY Zenon DEF failKusciaTask, Task
<1>2. current => Honest(failKusciaTask(v)) /\ Steady(failKusciaTask(v))
  BY <1>1, Zenon DEF Honest, Steady
<1>3. current => Good(failKusciaTask(v)) BY <1>1, <1>2, Zenon DEF Good
<1>. QED BY <1>1, <1>3, Zenon DEF SyncError, TaskMoves, taskObject

LEMMA HandlersMove ==
  ASSUME IInv, LifeInv, \/ SkipFinished \/ allocatePorts \/ getLatestError
                        \/ handlePending \/ handleRunning
  PROVE  TaskMoves
<1>0. /\ taskCache \in Task /\ taskCache.party \in [AllParties -> PartyPhases]
  BY Zenon DEF IInv, ObjectTypes, Task
<1>1. CASE SkipFinished BY <1>1, Zenon DEF SkipFinished, TaskMoves, taskObject
<1>2. ASSUME NEW ph, Handles(ph), ph # Gone
      PROVE  /\ op' = "idle" /\ ~taskCache.done /\ taskCache.phase = ph
             /\ UNCHANGED podEvents
             /\ (Current => Latest = taskCache /\ Latest.phase # Gone)
  BY <1>2, Zenon DEF Handles, Dequeue, worker, Current, Latest, podObjects
<1>3. ASSUME NEW v \in Task, SyncError(v, Current, FALSE), Handles("Pending") \/ Handles("Running"),
             Current => Honest(v) /\ Steady(v)
      PROVE  TaskMoves
  <2>1. op' # "create" /\ (Current => Latest.phase # Gone) BY <1>2, <1>3, Zenon DEF Gone
  <2>. QED BY <1>3, <2>1, ErrorMoves, Zenon
<1>4. ASSUME NEW v \in Task, Save(v), Current => Good(v) PROVE TaskMoves
  BY <1>4, StatusMoves, Zenon DEF Save
<1>5. ASSUME NEW v \in Task, v.party = taskCache.party PROVE Current => Honest(v) /\ Steady(v)
  BY <1>5, Zenon DEF Current, Latest, Honest, Steady
<1>6. ASSUME NEW v \in Task, Handles("Pending"), v.phase \in {taskCache.phase, "Failed"},
             Current => Honest(v) /\ Steady(v)
      PROVE  Current => Good(v)
  <2>1. /\ op' = "idle" /\ taskCache.phase = "Pending"
        /\ (Current => Latest = taskCache /\ Latest.phase # Gone)
    BY <1>2, <1>6, Zenon DEF Gone
  <2>. QED BY <1>6, <2>1, Zenon DEF Good
<1>7. CASE allocatePorts
  <2>. DEFINE v == [taskCache EXCEPT !.ports = TRUE]
  <2>1. v \in Task /\ v.phase = taskCache.phase /\ v.party = taskCache.party
    BY <1>0, Zenon DEF Task
  <2>2. Handles("Pending") /\ (Save(v) \/ SyncError(taskCache, Current, FALSE))
    BY <1>7, Zenon DEF allocatePorts
  <2>. HIDE DEF v
  <2>3. Current => Good(v) BY <1>5, <1>6, <2>1, <2>2, Zenon
  <2>. QED BY <1>0, <1>3, <1>4, <1>5, <2>1, <2>2, <2>3, Zenon
<1>8. CASE getLatestError BY <1>0, <1>3, <1>5, <1>8, Zenon DEF getLatestError
<1>9. CASE handlePending
  <2>. DEFINE v == [taskCache EXCEPT !.party = initPartyTaskStatus(@)]
              f == [v EXCEPT !.phase = "Failed"]
              r == [v EXCEPT !.phase = "Running"]
  <2>1. v \in Task /\ v.phase = taskCache.phase /\ v.created = taskCache.created
        /\ v.party = initPartyTaskStatus(taskCache.party)
    BY <1>0, PartyTypes, Zenon DEF Task
  <2>2. /\ Handles("Pending")
        /\ Save(f) \/ (taskRunning /\ Save(r)) \/ Save(v) \/ SyncError(v, Current, FALSE)
    BY <1>9, Zenon DEF handlePending
  <2>3. /\ f \in Task /\ f.phase = "Failed" /\ f.party = v.party
        /\ r \in Task /\ r.phase = "Running" /\ r.party = v.party /\ r.created = v.created
    <3>. HIDE DEF v
    <3>. QED BY <2>1, Zenon DEF Task
  <2>. HIDE DEF v, f, r
  <2>4. ASSUME NEW q \in Parties, Current
        PROVE  /\ v.party[q] = "Succeeded" => Latest.party[q] = "Succeeded"
               /\ Latest.party[q] \in Finished => v.party[q] = Latest.party[q]
    <3>1. v.party[q] = IF Latest.party[q] = None THEN "Pending" ELSE Latest.party[q]
      BY <2>1, <2>4, Zenon DEF initPartyTaskStatus, Current, Latest, AllParties
    <3>. QED BY <3>1, Zenon DEF Finished, None
  <2>5. Current => /\ Honest(v) /\ Steady(v) /\ Honest(f) /\ Steady(f) /\ Honest(r) /\ Steady(r)
    BY <2>3, <2>4, Zenon DEF Honest, Steady
  <2>6. Current => Good(v) /\ Good(f)
    BY <1>6, <2>1, <2>2, <2>3, <2>5, Zenon
  <2>7. ASSUME Current, taskRunning PROVE Good(r)
    <3>1. Starts BY <1>2, <2>2, <2>7, Zenon DEF Starts, taskRunning, Waiting, Gone
    <3>2. r.created BY <2>1, <2>3, <2>7, Zenon DEF taskRunning
    <3>3. op' = "idle" /\ Latest.phase # Gone BY <1>2, <2>2, <2>7, Zenon DEF Gone
    <3>. QED BY <2>3, <2>5, <2>7, <3>1, <3>2, <3>3, Zenon DEF Good
  <2>. QED BY <1>3, <1>4, <2>1, <2>2, <2>3, <2>5, <2>6, <2>7, Zenon
<1>10. CASE handleRunning
  <2>. DEFINE party == buildPartyTaskStatus(taskCache.party)
              v == [taskCache EXCEPT !.party = party, !.phase = reconcileTaskStatus(party)]
              f == [taskCache EXCEPT !.phase = "Failed"]
  <2>1. f \in Task /\ f.phase = "Failed" /\ f.party = taskCache.party BY <1>0, Zenon DEF Task
  <2>2. v \in Task /\ v.phase \in {"Running", "Succeeded", "Failed"} /\ v.done = taskCache.done
        /\ v.created = taskCache.created /\ v.party = party
        /\ v.phase = reconcileTaskStatus(v.party)
    <3>1. party \in [AllParties -> PartyPhases] BY <1>0, PartyTypes, Zenon
    <3>2. reconcileTaskStatus(party) \in {"Running", "Succeeded", "Failed"} BY PhaseType, Zenon
    <3>. HIDE DEF party
    <3>. QED BY <1>0, <3>1, <3>2, Zenon DEF Task
  <2>3. Handles("Running") /\ (Save(f) \/ Save(taskCache) \/ Save(v) \/ SyncError(taskCache, Current, FALSE))
    BY <1>10, Zenon DEF handleRunning
  <2>4. \A q \in AllParties :
          v.party[q] = IF q \in Parties THEN getPartyTaskStatus(taskCache.party, q)
                       ELSE IF taskCache.party[q] = None THEN "Pending" ELSE taskCache.party[q]
    BY <2>2, Zenon DEF buildPartyTaskStatus
  <2>. HIDE DEF v, f, party
  <2>5. Current => Latest = taskCache /\ taskCache.created /\ taskCache.phase = "Running"
                   /\ ~taskCache.done /\ op' = "idle"
    BY <1>2, <2>3, Zenon DEF LifeInv, Gone
  <2>6. ASSUME NEW q \in Parties
        PROVE  /\ v.party[q] = "Succeeded" => taskCache.party[q] = "Succeeded" \/ SeenSucceeded(q)
               /\ taskCache.party[q] \in Finished => v.party[q] = taskCache.party[q]
    <3>1. v.party[q] = getPartyTaskStatus(taskCache.party, q) BY <2>4, Zenon DEF AllParties
    <3>2. getPartyTaskStatus(taskCache.party, q) = "Succeeded" =>
            taskCache.party[q] = "Succeeded" \/ PodsIn(q, {"Succeeded"}) >= MinReservedPods[q]
      BY Zenon DEF getPartyTaskStatus
    <3>3. PodsIn(q, {"Succeeded"}) >= MinReservedPods[q] <=> SeenSucceeded(q)
      BY Zenon DEF SeenSucceeded
    <3>. QED BY <3>1, <3>2, <3>3, Zenon DEF getPartyTaskStatus
  <2>7. Current => Honest(v) /\ Steady(v) BY <2>5, <2>6, Zenon DEF Honest, Steady
  <2>8. ASSUME Current, v.phase = "Succeeded" PROVE Ends(v)
    <3>1. MinReservedMembers <= Count(v.party, "Succeeded")
      BY <2>2, <2>8, Zenon DEF reconcileTaskStatus
    <3>2. ASSUME NEW q \in Outer, v.party[q] = "Succeeded" PROVE Latest.party[q] = "Succeeded"
      <4>1. q \in AllParties /\ q \notin Parties BY SetsAssumption, Zenon DEF AllParties
      <4>. QED BY <2>4, <2>5, <2>8, <3>2, <4>1, Zenon
    <3>. QED BY <2>2, <2>5, <2>8, <3>1, <3>2, Zenon DEF Ends
  <2>9. Current => Good(f) /\ Good(taskCache)
    <3>1. Current => Honest(f) /\ Steady(f) /\ Honest(taskCache) /\ Steady(taskCache)
      BY <1>0, <1>5, <2>1, Zenon
    <3>. QED BY <2>1, <2>5, <3>1, Zenon DEF Good, Gone
  <2>10. Current => Good(v) BY <2>2, <2>5, <2>7, <2>8, Zenon DEF Good, Gone
  <2>. QED BY <1>0, <1>3, <1>4, <1>5, <2>1, <2>2, <2>3, <2>9, <2>10, Zenon
<1>. QED BY <1>1, <1>7, <1>8, <1>9, <1>10, Zenon

LEMMA LoopsMove ==
  ASSUME IInv, LifeInv, \/ createTaskResources \/ handleFailed \/ handleSucceeded
                        \/ \E p \in Pods : submitPod(p) \/ deletePod(p)
                        \/ submitTaskResourceGroup \/ deleteTaskResourceGroup
  PROVE  TaskMoves
<1>1. ASSUME FailSync, op # "idle" PROVE TaskMoves
  <2>. DEFINE v == [next EXCEPT !.done = FALSE, !.created = base.created]
  <2>1. v \in Task /\ v.party = next.party BY Zenon DEF IInv, ObjectTypes, Task
  <2>2. SyncError(v, fresh, queued) /\ op' = "idle" BY <1>1, Zenon DEF FailSync, Return
  <2>. HIDE DEF v
  <2>3. fresh => Latest.phase # Gone /\ Honest(v) /\ Steady(v)
    BY <1>1, <2>1, FreshBase, Zenon DEF LifeInv, Honest, Steady
  <2>. QED BY <2>1, <2>2, <2>3, ErrorMoves, Zenon
<1>2. CASE UNCHANGED <<taskCache, taskEvents>> BY <1>2, Zenon DEF TaskMoves
<1>3. CASE createTaskResources \/ handleFailed \/ handleSucceeded
  BY <1>2, <1>3, Zenon DEF createTaskResources, handleFailed, handleSucceeded, Begin
<1>4. ASSUME NEW p \in Pods, submitPod(p) \/ deletePod(p) PROVE TaskMoves
  <2>1. op # "idle" /\ (FailSync \/ UNCHANGED taskObject)
    BY <1>4, Zenon DEF submitPod, deletePod, Works, Reached, DeleteError
  <2>. QED BY <1>1, <1>2, <2>1, Zenon DEF taskObject
<1>5. CASE submitTaskResourceGroup \/ deleteTaskResourceGroup
  <2>1. op # "idle" /\ (FailSync \/ UNCHANGED taskObject)
    BY <1>5, Zenon DEF submitTaskResourceGroup, deleteTaskResourceGroup, Works, DeleteError
  <2>. QED BY <1>1, <1>2, <2>1, Zenon DEF taskObject
<1>. QED BY <1>3, <1>4, <1>5, Zenon

LEMMA EndMoves == ASSUME IInv, LifeInv, endSync PROVE TaskMoves
<1>1. /\ updateTaskStatus(next, fresh, queued) /\ op' = "idle" /\ op # "idle"
      /\ op \in {"created", "deleted"} \/ (op = "delete" /\ base.phase = "Failed")
  BY Zenon DEF endSync, Works, Return
<1>2. next \in Task /\ next.phase = base.phase /\ next.done \in BOOLEAN
  BY <1>1, Zenon DEF IInv, ObjectTypes, BaseInv, Task
<1>3. ASSUME fresh PROVE Good(next)
  <2>1. Latest = base /\ Latest.phase # Gone BY <1>1, <1>3, FreshBase, Zenon
  <2>2. next.phase \in {"Running", "Succeeded"} => next.created
    BY <1>1, <1>2, <2>1, Zenon DEF LifeInv
  <2>3. next.phase = "Succeeded" /\ next.done => op = "deleted"
    <3>1. op = "created" => ~next.done BY Zenon DEF LifeInv
    <3>2. op = "delete" => base.phase = "Failed" BY <1>1, Zenon
    <3>. QED BY <1>1, <1>2, <3>1, <3>2, Zenon
  <2>4. Honest(next) /\ Steady(next) BY <1>1, <2>1, Zenon DEF LifeInv, Honest, Steady
  <2>. QED BY <1>1, <1>2, <1>3, <2>1, <2>2, <2>3, <2>4, Zenon DEF Good
<1>. QED BY <1>1, <1>2, <1>3, StatusMoves, Zenon

LEMMA OthersMove ==
  ASSUME IInv, LifeInv,
         cleanUp \/ delivery \/ resync \/ environment \/ stopTasks \/ deleteTask \/ UNCHANGED vars
  PROVE  TaskMoves
<1>0. Latest \in Task BY LatestType, Zenon DEF IInv
<1>1. CASE cleanUp
  BY <1>1, Zenon DEF cleanUp, syncDeletedTaskHandler, sweepPod, sweepTaskResourceGroup, Sweeps,
     taskObject, TaskMoves
<1>2. CASE delivery \/ resync
  BY <1>2, Zenon DEF delivery, handlePodObject, handleTaskResourceGroupObject, resync, TaskMoves
<1>3. CASE groupRuns \/ \E p \in Pods : podRuns(p)
  BY <1>3, Zenon DEF groupRuns, podRuns, taskObject, TaskMoves
<1>4. CASE stopTasks
  <2>. DEFINE v == [Latest EXCEPT !.phase = "Failed",
                    !.party = [q \in AllParties |-> IF q \in Parties THEN "Failed" ELSE @[q]]]
  <2>1. v \in Task /\ v.phase = "Failed" /\ v.created = Latest.created
        /\ \A q \in Parties : v.party[q] = "Failed"
    BY <1>0, Zenon DEF Task, PartyPhases, AllParties
  <2>2. WriteTask(v) /\ Latest.phase # Gone BY <1>4, Zenon DEF stopTasks
  <2>. HIDE DEF v
  <2>3. Honest(v) BY <2>1, Zenon DEF Honest
  <2>4. Good(v) BY <1>4, <2>1, <2>2, <2>3, Zenon DEF Good
  <2>. QED BY <2>1, <2>2, <2>4, Zenon DEF TaskMoves
<1>5. CASE deleteTask
  <2>. DEFINE v == [NewTask EXCEPT !.phase = Gone]
  <2>1. v \in Task /\ v.phase = Gone /\ ~v.created /\ \A q \in Parties : v.party[q] = None
    BY NewTaskType, Zenon DEF Task, NewTask, AllParties
  <2>2. WriteTask(v) /\ Latest.phase # Gone BY <1>5, Zenon DEF deleteTask
  <2>. HIDE DEF v
  <2>3. Honest(v) BY <2>1, Zenon DEF Honest, None
  <2>4. Good(v) BY <2>1, <2>2, <2>3, Zenon DEF Good, Gone
  <2>. QED BY <2>1, <2>2, <2>4, Zenon DEF TaskMoves
<1>6. ASSUME NEW q \in Outer, updateTaskPartyStatus(q) PROVE TaskMoves
  <2>1. PICK ph \in Finished : WriteTask([Latest EXCEPT !.party[q] = ph])
    BY <1>6, Zenon DEF updateTaskPartyStatus
  <2>. DEFINE v == [Latest EXCEPT !.party[q] = ph]
  <2>2. ph \in PartyPhases /\ q \in AllParties BY Zenon DEF Finished, PartyPhases, AllParties
  <2>3. v \in Task /\ v.phase = Latest.phase /\ v.done = Latest.done /\ v.created = Latest.created
        /\ \A r \in Parties : r # q => v.party[r] = Latest.party[r]
    BY <1>0, <2>2, Zenon DEF Task, AllParties
  <2>4. WriteTask(v) /\ Latest.phase # Gone BY <1>6, <2>1, Zenon DEF updateTaskPartyStatus
  <2>. HIDE DEF v
  <2>5. Honest(v) /\ Steady(v)
    <3>1. \A r \in Parties : r # q BY SetsAssumption, Zenon
    <3>. QED BY <2>3, <3>1, Zenon DEF Honest, Steady
  <2>6. Good(v) BY <2>3, <2>4, <2>5, Zenon DEF Good, LifeInv
  <2>. QED BY <2>3, <2>4, <2>6, Zenon DEF TaskMoves
<1>7. CASE UNCHANGED vars BY <1>7, Zenon DEF vars, taskObject, TaskMoves
<1>. QED BY <1>1, <1>2, <1>3, <1>4, <1>5, <1>6, <1>7, Zenon DEF environment

LEMMA NextMoves == ASSUME IInv, LifeInv, [Next]_vars PROVE TaskMoves
  BY HandlersMove, LoopsMove, EndMoves, OthersMove, Zenon DEF Next, syncHandler

LEMMA LatestMoves ==
  ASSUME IInv, TaskMoves
  PROVE  Latest' = Latest \/ (Latest' \in Task /\ Good(Latest') /\ fresh' = FALSE)
<1>1. CASE UNCHANGED <<taskCache, taskEvents>> BY <1>1, Zenon DEF Latest
<1>2. CASE deliverTask
  <2>1. Latest' = Latest BY <1>2, DeliverLatest, Zenon DEF deliverTask, IInv
  <2>. QED BY <2>1, Zenon
<1>3. ASSUME NEW v \in Task, WriteTask(v), Good(v)
      PROVE  Latest' \in Task /\ Good(Latest') /\ fresh' = FALSE
  <2>1. Latest' = v /\ fresh' = FALSE BY <1>3, WriteTaskEffect, Zenon DEF IInv
  <2>. QED BY <1>3, <2>1, Zenon
<1>. QED BY <1>1, <1>2, <1>3, Zenon DEF TaskMoves

LEMMA GoodAlive == ASSUME NEW v, Good(v), v.phase \in Alive PROVE Latest.phase \in Alive
BY Zenon DEF Good, Alive, Starts

\* No version is ahead of the latest.
LEMMA OldKept ==
  ASSUME IInv, LifeInv, TaskMoves
  PROVE  Old(taskCache)' /\ \A i \in DOMAIN taskEvents' : Old(taskEvents[i])'
<1>0. taskEvents \in Seq(Task) BY Zenon DEF IInv, ObjectTypes
<1>1. CASE UNCHANGED <<taskCache, taskEvents>> BY <1>1, Zenon DEF Latest, Old, LifeInv
<1>2. CASE deliverTask
  <2>1. /\ taskEvents # <<>> /\ taskCache' = Head(taskEvents) /\ taskEvents' = Tail(taskEvents)
    BY <1>2, Zenon DEF deliverTask
  <2>2. Latest' = Latest BY <2>1, DeliverLatest, Zenon DEF IInv
  <2>3. /\ taskCache' = taskEvents[1] /\ 1 \in DOMAIN taskEvents
        /\ \A i \in DOMAIN taskEvents' : /\ i + 1 \in DOMAIN taskEvents
                                         /\ taskEvents'[i] = taskEvents[i + 1]
    BY <1>0, <2>1
  <2>. QED BY <2>2, <2>3, ZenonT(30) DEF Old, LifeInv
<1>3. ASSUME NEW v \in Task, WriteTask(v), Good(v)
      PROVE  Old(taskCache)' /\ \A i \in DOMAIN taskEvents' : Old(taskEvents[i])'
  <2>1. Latest' = v /\ taskEvents' = Append(taskEvents, v) /\ taskCache' = taskCache
    BY <1>3, WriteTaskEffect, Zenon DEF IInv, WriteTask
  <2>2. \A i \in DOMAIN taskEvents' :
          taskEvents'[i] = v \/ (i \in DOMAIN taskEvents /\ taskEvents'[i] = taskEvents[i])
    BY <1>0, <2>1
  <2>3. ASSUME NEW x, Old(x)
        PROVE  /\ v.phase = "Pending" => x.phase = "Pending"
               /\ v.phase \in Alive => x.phase \in Alive
               /\ x.phase # Gone
    BY <1>3, <2>3, GoodAlive, Zenon DEF Old, Good
  <2>4. Old(taskCache)' BY <2>1, <2>3, Zenon DEF Old, LifeInv
  <2>5. ASSUME NEW i \in DOMAIN taskEvents' PROVE Old(taskEvents[i])'
    <3>1. CASE taskEvents'[i] = v BY <1>3, <2>1, <3>1, Zenon DEF Old, Good
    <3>2. CASE i \in DOMAIN taskEvents /\ taskEvents'[i] = taskEvents[i]
      <4>1. Old(taskEvents[i]) BY <3>2, Zenon DEF LifeInv
      <4>. QED BY <2>1, <2>3, <3>2, <4>1, Zenon DEF Old
    <3>. QED BY <2>2, <3>1, <3>2, Zenon
  <2>. QED BY <2>4, <2>5, Zenon
<1>. QED BY <1>1, <1>2, <1>3, Zenon DEF TaskMoves

\* What the workers do.
OpMoves ==
  \/ op' = "idle"
  \/ UNCHANGED <<op, base, next>>
  \/ UNCHANGED <<base, next>> /\ op = "create" /\ op' = "created"
  \/ UNCHANGED <<base, next>> /\ op = "delete" /\ op' = "deleted" /\ todo = {} /\ trg' = None
  \/ createTaskResources \/ handleFailed \/ handleSucceeded

LEMMA NextOp == ASSUME [Next]_vars PROVE OpMoves
<1>1. CASE UNCHANGED <<op, base, next>> BY <1>1, Zenon DEF OpMoves
<1>2. CASE SkipFinished \/ allocatePorts \/ getLatestError \/ handlePending \/ handleRunning
  BY <1>1, <1>2, Zenon DEF SkipFinished, allocatePorts, getLatestError, handlePending,
     handleRunning, Handles, worker
<1>3. ASSUME NEW p \in Pods, submitPod(p) \/ deletePod(p) PROVE OpMoves
  BY <1>1, <1>3, DeleteErrorReturns, Zenon DEF submitPod, deletePod, Reached, FailSync, Return, OpMoves
<1>4. CASE submitTaskResourceGroup \/ deleteTaskResourceGroup \/ endSync
  BY <1>1, <1>4, DeleteErrorReturns, Zenon DEF submitTaskResourceGroup, deleteTaskResourceGroup,
     endSync, Works, FailSync, Return, OpMoves
<1>5. CASE cleanUp
  BY <1>1, <1>5, Zenon DEF cleanUp, syncDeletedTaskHandler, sweepPod, sweepTaskResourceGroup, Sweeps, worker
<1>6. CASE delivery \/ resync
  BY <1>1, <1>6, Zenon DEF delivery, deliverTask, handlePodObject, handleTaskResourceGroupObject,
     resync, Watch, worker
<1>7. CASE environment \/ stopTasks \/ deleteTask
  BY <1>1, <1>7, Zenon DEF environment, groupRuns, podRuns, updateTaskPartyStatus, stopTasks,
     deleteTask, Elsewhere, worker
<1>8. CASE UNCHANGED vars BY <1>1, <1>8, Zenon DEF vars, worker
<1>. QED BY <1>2, <1>3, <1>4, <1>5, <1>6, <1>7, <1>8, Zenon DEF Next, syncHandler, OpMoves

\* The clean-up begins when the task is gone for the lister.
LEMMA SweepsGone ==
  ASSUME IInv, LifeInv, [Next]_vars, Latest' = Latest \/ Good(Latest')
  PROVE  deleted' \/ sweeping' => Latest'.phase = Gone
<1>1. Latest.phase = Gone => Latest' = Latest BY Zenon DEF Good
<1>2. CASE UNCHANGED <<deleted, sweeping>> BY <1>1, <1>2, Zenon DEF LifeInv
<1>3. CASE cleanUp
  <2>1. deleted \/ sweeping
    BY <1>3, Zenon DEF cleanUp, syncDeletedTaskHandler, sweepPod, sweepTaskResourceGroup, Sweeps
  <2>. QED BY <1>1, <2>1, Zenon DEF LifeInv
<1>4. CASE handlePodObject \/ handleTaskResourceGroupObject \/ resync
  <2>1. sweeping' = sweeping /\ (deleted' => deleted \/ taskCache.phase = Gone)
    BY <1>4, Zenon DEF handlePodObject, handleTaskResourceGroupObject, resync, Watch, enqueueOwner
  <2>. QED BY <1>1, <2>1, Zenon DEF LifeInv, Old
<1>5. CASE deliverTask
  <2>1. /\ sweeping' = sweeping /\ (deleted' => deleted \/ Head(taskEvents).phase = Gone)
        /\ taskEvents # <<>> /\ taskEvents \in Seq(Task)
    BY <1>5, Zenon DEF deliverTask, Watch, IInv, ObjectTypes
  <2>2. Head(taskEvents) = taskEvents[1] /\ 1 \in DOMAIN taskEvents BY <2>1
  <2>. QED BY <1>1, <2>1, <2>2, Zenon DEF LifeInv, Old
<1>6. CASE syncHandler
  BY <1>2, <1>6, Zenon DEF syncHandler, SkipFinished, allocatePorts, createTaskResources,
     getLatestError, handlePending, handleRunning, handleFailed, handleSucceeded, Handles, Dequeue,
     submitPod, deletePod, submitTaskResourceGroup, deleteTaskResourceGroup, endSync, Works, sweeper
<1>7. CASE environment \/ stopTasks \/ deleteTask
  BY <1>2, <1>7, Zenon DEF environment, groupRuns, podRuns, updateTaskPartyStatus, stopTasks,
     deleteTask, Elsewhere, sweeper
<1>8. CASE UNCHANGED vars BY <1>2, <1>8, Zenon DEF vars, sweeper
<1>. QED BY <1>3, <1>4, <1>5, <1>6, <1>7, <1>8, Zenon DEF Next, delivery

LEMMA LifeNext ==
  ASSUME IInv, LifeInv, [Next]_vars
  PROVE  LifeInv' /\ (Latest' = Latest \/ (Latest' \in Task /\ Good(Latest') /\ fresh' = FALSE))
<1>1. TaskMoves /\ OpMoves BY NextMoves, NextOp, Zenon
<1>2. Latest' = Latest \/ (Latest' \in Task /\ Good(Latest') /\ fresh' = FALSE)
  BY <1>1, LatestMoves, Zenon
<1>3. Old(taskCache)' /\ \A i \in DOMAIN taskEvents' : Old(taskEvents[i])' BY <1>1, OldKept, Zenon
<1>4. deleted' \/ sweeping' => Latest'.phase = Gone BY <1>2, SweepsGone, Zenon
<1>5. Latest'.phase = "Pending" => Latest.phase = "Pending" BY <1>2, Zenon DEF Good
<1>9. Latest'.phase \in Alive => Latest.phase \in Alive BY <1>2, GoodAlive, Zenon
<1>6. Latest'.phase \in {"Running", "Succeeded"} => Latest'.created BY <1>2, Zenon DEF Good, LifeInv
<1>7. op' = "create" /\ Latest'.created => Latest.created BY <1>2, Zenon DEF Good
<1>8. /\ op' \in {"delete", "deleted"} => Latest'.phase \notin Alive
      /\ op' \in {"create", "created"} => ~next'.done
      /\ op' # "idle" /\ base'.created => next'.created
      /\ op' = "create" => ~Latest'.created
      /\ op' # "idle" => \A q \in Parties :
           /\ next'.party[q] = "Succeeded" => base'.party[q] = "Succeeded"
           /\ base'.party[q] \in Finished => next'.party[q] = base'.party[q]
  <2>0. taskCache \in Task BY Zenon DEF IInv, ObjectTypes
  <2>1. CASE op' = "idle" BY <2>1, Zenon
  <2>2. CASE UNCHANGED <<op, base, next>> BY <1>9, <1>7, <2>2, Zenon DEF LifeInv
  <2>3. CASE /\ UNCHANGED <<base, next>>
             /\ (op = "create" /\ op' = "created") \/ (op = "delete" /\ op' = "deleted")
    BY <1>9, <1>7, <2>3, Zenon DEF LifeInv
  <2>4. CASE createTaskResources
    <3>1. /\ op' = "create" /\ next' = [taskCache EXCEPT !.created = TRUE] /\ ~taskCache.done
          /\ ~Latest.created /\ base' = taskCache
      BY <2>4, Zenon DEF createTaskResources, Begin
    <3>2. next'.created /\ ~next'.done /\ next'.party = base'.party BY <2>0, <3>1, Zenon DEF Task
    <3>. QED BY <1>7, <3>1, <3>2, Zenon
  <2>5. CASE handleFailed \/ handleSucceeded
    <3>1. /\ op' = "delete" /\ taskCache.phase \notin Alive /\ base' = taskCache
          /\ \/ next' = [taskCache EXCEPT !.done = TRUE]
             \/ next' = [taskCache EXCEPT !.done = TRUE, !.party = setPartyTaskStatusFailed(@)]
      BY <2>5, Zenon DEF handleFailed, handleSucceeded, Begin, Alive
    <3>2. /\ next'.created = base'.created
          /\ \/ next'.party = base'.party
             \/ next'.party = setPartyTaskStatusFailed(base'.party)
      BY <2>0, <3>1, Zenon DEF Task
    <3>3. Latest'.phase \notin Alive BY <1>9, <3>1, Zenon DEF LifeInv, Old
    <3>4. ASSUME NEW q \in Parties
          PROVE  /\ next'.party[q] = "Succeeded" => base'.party[q] = "Succeeded"
                 /\ base'.party[q] \in Finished => next'.party[q] = base'.party[q]
      <4>1. q \in AllParties BY Zenon DEF AllParties
      <4>2. CASE next'.party = setPartyTaskStatusFailed(base'.party)
        BY <4>1, <4>2, Zenon DEF setPartyTaskStatusFailed, Finished, None
      <4>. QED BY <3>2, <4>2, Zenon
    <3>. QED BY <3>1, <3>2, <3>3, <3>4, Zenon
  <2>. QED BY <1>1, <2>1, <2>2, <2>3, <2>4, <2>5, Zenon DEF OpMoves
<1>. QED BY <1>2, <1>3, <1>4, <1>6, <1>8, Zenon DEF LifeInv

LEMMA LifeInit == ASSUME Init PROVE LifeInv
<1>1. taskCache = NewTask /\ taskEvents = <<>> /\ ~deleted /\ ~sweeping /\ op = "idle"
  BY Zenon DEF Init
<1>2. Latest = NewTask /\ DOMAIN taskEvents = {} BY <1>1 DEF Latest
<1>3. NewTask.phase = "Pending" BY NewTaskType, Zenon
<1>. QED BY <1>1, <1>2, <1>3, Zenon DEF LifeInv, Old, Gone

(***************************************************************************)
(* The pods and what the lister is still to see of them.                   *)
(***************************************************************************)
Ended == {None, "Failed"}

Creation(e) == e[2] = "Pending"
CreationOf(e, p) == e = <<p, "Pending">>

\* A pod that the lister does not have, or has as failed, is so indeed, unless the lister
\* is still to see it created.
PodInv ==
  \A p \in Pods :
    /\ podCache[p] \in Ended =>
         pods[p] \in Ended \/ \E j \in DOMAIN podEvents : CreationOf(podEvents[j], p)
    /\ \A i \in DOMAIN podEvents : podEvents[i][1] = p /\ podEvents[i][2] \in Ended =>
         pods[p] \in Ended \/ \E j \in DOMAIN podEvents : j > i /\ CreationOf(podEvents[j], p)

NoneComes == \A i \in DOMAIN podEvents : ~Creation(podEvents[i])

\* As long as the task is Pending no pod is deleted, and none runs before all exist.
StartInv ==
  /\ \A p \in Pods : /\ podCache[p] # None => pods[p] # None
                     /\ podCache[p] \notin Waiting => pods[p] \notin Waiting
  /\ \A i \in DOMAIN podEvents :
       /\ pods[podEvents[i][1]] # None
       /\ ~Creation(podEvents[i]) => pods[podEvents[i][1]] \notin Waiting
  /\ trg # None \/ (\E p \in Pods : pods[p] \notin Waiting) => \A p \in Pods : pods[p] # None
  /\ op = "create" => \A p \in Pods \ todo : pods[p] # None
  /\ (\E p \in Pods : podCache[p] \notin Waiting) => NoneComes
  /\ \A i, j \in DOMAIN podEvents : i < j /\ Creation(podEvents[j]) => Creation(podEvents[i])

\* What a step does to the pods.
Creates(p) == op = "create" /\ p \in todo /\ pods[p] = None /\ podCache[p] = None
              /\ WritePod(p, "Pending")
Runs(p, phase) ==
  /\ pods[p] \in {"Pending", "Running", "Stuck"} /\ phase \in PodPhases \ Waiting
  /\ pods[p] \notin Waiting \/ trg # None
  /\ WritePod(p, phase)
Deletes(p) == Latest.phase \notin Alive /\ WritePod(p, None)

PodMoves ==
  \/ UNCHANGED podObjects
  \/ handlePodObject
  \/ \E p \in Pods : Creates(p) \/ Deletes(p) \/ \E phase \in PodPhases : Runs(p, phase)

LEMMA NextPods == ASSUME IInv, LifeInv, [Next]_vars PROVE PodMoves
<1>1. CASE UNCHANGED podObjects BY <1>1, Zenon DEF PodMoves
<1>2. CASE \/ SkipFinished \/ allocatePorts \/ createTaskResources \/ getLatestError
           \/ handlePending \/ handleRunning \/ handleFailed \/ handleSucceeded
           \/ submitTaskResourceGroup \/ deleteTaskResourceGroup \/ endSync
  BY <1>1, <1>2, Zenon DEF SkipFinished, allocatePorts, createTaskResources, getLatestError,
     handlePending, handleRunning, handleFailed, handleSucceeded, Handles, Begin,
     submitTaskResourceGroup, deleteTaskResourceGroup, endSync
<1>3. ASSUME NEW p \in Pods, submitPod(p) PROVE PodMoves
  BY <1>1, <1>3, Zenon DEF submitPod, Works, Creates, PodMoves
<1>4. ASSUME NEW p \in Pods, deletePod(p) PROVE PodMoves
  <2>1. op = "delete" /\ (UNCHANGED podObjects \/ WritePod(p, None))
    BY <1>4, Zenon DEF deletePod, Works
  <2>2. Latest.phase \notin Alive BY <2>1, Zenon DEF LifeInv
  <2>. QED BY <1>1, <2>1, <2>2, Zenon DEF Deletes, PodMoves
<1>5. CASE cleanUp
  <2>1. UNCHANGED podObjects \/ (sweeping /\ \E p \in Pods : WritePod(p, None))
    BY <1>5, Zenon DEF cleanUp, syncDeletedTaskHandler, sweepPod, sweepTaskResourceGroup, Sweeps
  <2>2. sweeping => Latest.phase \notin Alive BY Zenon DEF LifeInv, Gone, Alive
  <2>. QED BY <1>1, <2>1, <2>2, Zenon DEF Deletes, PodMoves
<1>6. CASE delivery \/ resync
  <2>1. handlePodObject \/ UNCHANGED podObjects
    BY <1>6, Zenon DEF delivery, deliverTask, handleTaskResourceGroupObject, resync, Watch, podObjects
  <2>. QED BY <2>1, Zenon DEF PodMoves
<1>7. ASSUME NEW p \in Pods, podRuns(p) PROVE PodMoves
  <2>1. \E phase \in {"Running", "Stuck", "Succeeded", "Failed"} :
          /\ pods[p] \in {"Pending", "Running", "Stuck"} /\ WritePod(p, phase)
          /\ pods[p] = "Pending" => trg = "Reserved"
    BY <1>7, Zenon DEF podRuns, Finished
  <2>2. \A phase \in {"Running", "Stuck", "Succeeded", "Failed"} : phase \in PodPhases \ Waiting
    BY Zenon DEF PodPhases, Waiting, None
  <2>3. pods[p] \in {"Pending", "Running", "Stuck"} /\ (pods[p] = "Pending" => trg = "Reserved")
        => pods[p] \notin Waiting \/ trg # None
    BY Zenon DEF Waiting, None
  <2>. QED BY <2>1, <2>2, <2>3, Zenon DEF Runs, PodMoves
<1>8. CASE groupRuns \/ stopTasks \/ deleteTask \/ \E q \in Outer : updateTaskPartyStatus(q)
  BY <1>1, <1>8, Zenon DEF groupRuns, stopTasks, deleteTask, updateTaskPartyStatus
<1>9. CASE UNCHANGED vars BY <1>1, <1>9, Zenon DEF vars
<1>. QED BY <1>2, <1>3, <1>4, <1>5, <1>6, <1>7, <1>8, <1>9, Zenon DEF Next, syncHandler, environment

\* The stream when a change is added, and when one is delivered.
LEMMA Added ==
  ASSUME IInv, NEW p \in Pods, NEW ph, WritePod(p, ph)
  PROVE  \E n \in Nat :
           /\ DOMAIN podEvents = 1..n /\ DOMAIN podEvents' = 1..(n + 1)
           /\ \A i \in 1..n : podEvents'[i] = podEvents[i]
           /\ podEvents'[n + 1] = <<p, ph>>
           /\ podCache' = podCache /\ DOMAIN pods' = Pods /\ pods'[p] = ph
           /\ \A q \in Pods \ {p} : pods'[q] = pods[q]
<1>1. /\ podEvents' = Append(podEvents, <<p, ph>>) /\ pods' = [pods EXCEPT ![p] = ph]
      /\ podCache' = podCache
  BY Zenon DEF WritePod
<1>2. podEvents \in Seq(Pods \X PodPhases) /\ pods \in [Pods -> PodPhases]
  BY Zenon DEF IInv, PodTypes
<1>3. Len(podEvents) \in Nat /\ DOMAIN podEvents = 1..Len(podEvents) BY <1>2
<1>4. /\ DOMAIN podEvents' = 1..(Len(podEvents) + 1)
      /\ \A i \in 1..Len(podEvents) : podEvents'[i] = podEvents[i]
      /\ podEvents'[Len(podEvents) + 1] = <<p, ph>>
  BY <1>1, <1>2
<1>5. DOMAIN pods' = Pods /\ pods'[p] = ph /\ \A q \in Pods \ {p} : pods'[q] = pods[q]
  BY <1>1, <1>2, Zenon
<1>. QED BY <1>1, <1>3, <1>4, <1>5, Zenon

LEMMA Shifted ==
  ASSUME IInv, handlePodObject
  PROVE  /\ 1 \in DOMAIN podEvents /\ podEvents[1][1] \in Pods
         /\ \A i \in DOMAIN podEvents' : /\ i \in Nat /\ i + 1 \in DOMAIN podEvents
                                         /\ i + 1 > 1 /\ podEvents'[i] = podEvents[i + 1]
         /\ \A i \in DOMAIN podEvents : i > 1 => i - 1 \in DOMAIN podEvents' /\ podEvents'[i - 1] = podEvents[i]
         /\ \A i \in DOMAIN podEvents : i \in Nat /\ (i = 1 \/ i > 1)
         /\ podCache'[podEvents[1][1]] = podEvents[1][2]
         /\ \A q \in Pods : q # podEvents[1][1] => podCache'[q] = podCache[q]
         /\ pods' = pods /\ trg' = trg /\ op' = op /\ todo' = todo
<1>1. /\ podEvents # <<>> /\ podEvents' = Tail(podEvents)
      /\ podCache' = [podCache EXCEPT ![Head(podEvents)[1]] = Head(podEvents)[2]]
      /\ pods' = pods /\ trg' = trg /\ op' = op /\ todo' = todo
  BY Zenon DEF handlePodObject, Watch, worker
<1>2. podEvents \in Seq(Pods \X PodPhases) /\ podCache \in [Pods -> PodPhases]
  BY Zenon DEF IInv, PodTypes
<1>3. /\ Head(podEvents) = podEvents[1] /\ 1 \in DOMAIN podEvents /\ podEvents[1] \in Pods \X PodPhases
      /\ \A i \in DOMAIN podEvents' : /\ i \in Nat /\ i + 1 \in DOMAIN podEvents
                                      /\ i + 1 > 1 /\ podEvents'[i] = podEvents[i + 1]
  BY <1>1, <1>2
<1>4. \A i \in DOMAIN podEvents : /\ i \in Nat /\ (i = 1 \/ i > 1)
         /\ (i > 1 => i - 1 \in DOMAIN podEvents' /\ podEvents'[i - 1] = podEvents[i])
  BY <1>1, <1>2
<1>5. podEvents[1][1] \in Pods BY <1>3, Zenon
<1>6. podCache'[podEvents[1][1]] = podEvents[1][2]
      /\ \A q \in Pods : q # podEvents[1][1] => podCache'[q] = podCache[q]
  BY <1>1, <1>2, <1>3, <1>5, Zenon
<1>. QED BY <1>1, <1>3, <1>4, <1>5, <1>6, Zenon

LEMMA PodInvNext ==
  ASSUME IInv, PodInv, PodMoves
  PROVE  PodInv'
<1>0. "Pending" \notin Ended /\ Waiting \ {"Pending"} \subseteq Ended
  BY Zenon DEF Ended, Waiting, None
<1>1. CASE UNCHANGED podObjects BY <1>1, Zenon DEF podObjects, PodInv
<1>2. CASE handlePodObject
  <2>. DEFINE p == podEvents[1][1]
  <2>1. ASSUME NEW q \in Pods, podCache'[q] \in Ended, pods'[q] \notin Ended
        PROVE  \E j \in DOMAIN podEvents' : CreationOf(podEvents'[j], q)
    <3>1. \E j \in DOMAIN podEvents : j > 1 /\ CreationOf(podEvents[j], q)
      <4>1. CASE q = p
        <5>1. podEvents[1][1] = q /\ podEvents[1][2] \in Ended /\ pods[q] \notin Ended
          BY <1>2, <2>1, <4>1, Shifted, Zenon
        <5>. QED BY <1>2, <5>1, Shifted, Zenon DEF PodInv
      <4>2. CASE q # p
        <5>1. podCache[q] \in Ended /\ pods[q] \notin Ended BY <1>2, <2>1, <4>2, Shifted, Zenon
        <5>2. PICK j \in DOMAIN podEvents : CreationOf(podEvents[j], q) BY <5>1, Zenon DEF PodInv
        <5>3. j # 1 BY <4>2, <5>2 DEF CreationOf
        <5>. QED BY <1>2, <5>2, <5>3, Shifted, Zenon
      <4>. QED BY <4>1, <4>2, Zenon
    <3>. QED BY <1>2, <3>1, Shifted, Zenon
  <2>2. ASSUME NEW q \in Pods, NEW i \in DOMAIN podEvents', podEvents'[i][1] = q,
               podEvents'[i][2] \in Ended, pods'[q] \notin Ended
        PROVE  \E j \in DOMAIN podEvents' : j > i /\ CreationOf(podEvents'[j], q)
    <3>1. i + 1 \in DOMAIN podEvents /\ podEvents'[i] = podEvents[i + 1] /\ i \in Nat /\ pods' = pods
      BY <1>2, Shifted, Zenon
    <3>2. PICK j \in DOMAIN podEvents : j > i + 1 /\ CreationOf(podEvents[j], q)
      BY <2>2, <3>1, Zenon DEF PodInv
    <3>3. j \in Nat /\ (j > 1 => j - 1 \in DOMAIN podEvents' /\ podEvents'[j - 1] = podEvents[j])
      BY <1>2, Shifted, Zenon
    <3>4. j > 1 /\ j - 1 > i BY <3>1, <3>2, <3>3
    <3>. QED BY <3>2, <3>3, <3>4, Zenon
  <2>. QED BY <2>1, <2>2, Zenon DEF PodInv
<1>3. ASSUME NEW p \in Pods, NEW ph, WritePod(p, ph), ph \in Ended \/ ph = "Pending" \/ pods[p] \notin Ended
      PROVE  PodInv'
  <2>1. PICK n \in Nat :
           /\ DOMAIN podEvents = 1..n /\ DOMAIN podEvents' = 1..(n + 1)
           /\ \A i \in 1..n : podEvents'[i] = podEvents[i]
           /\ podEvents'[n + 1] = <<p, ph>>
           /\ podCache' = podCache /\ DOMAIN pods' = Pods /\ pods'[p] = ph
           /\ \A q \in Pods \ {p} : pods'[q] = pods[q]
    BY <1>3, Added, Zenon
  <2>2. /\ n + 1 \in DOMAIN podEvents' /\ \A i \in 1..n : i \in DOMAIN podEvents' /\ n + 1 > i
        /\ \A i \in DOMAIN podEvents' : i \in 1..n \/ i = n + 1
        /\ podEvents'[n + 1][1] = p /\ podEvents'[n + 1][2] = ph
    BY <2>1
  <2>3. CreationOf(podEvents'[n + 1], p) <=> ph = "Pending" BY <2>1 DEF CreationOf
  <2>4. ASSUME NEW q \in Pods, pods'[q] \notin Ended
        PROVE  (q = p /\ ph = "Pending") \/ pods[q] \notin Ended
    BY <1>3, <2>1, <2>4, Zenon
  <2>5. ASSUME NEW q \in Pods, podCache'[q] \in Ended, pods'[q] \notin Ended
        PROVE  \E j \in DOMAIN podEvents' : CreationOf(podEvents'[j], q)
    <3>1. CASE q = p /\ ph = "Pending" BY <2>2, <2>3, <3>1, Zenon
    <3>2. CASE pods[q] \notin Ended
      <4>1. PICK j \in DOMAIN podEvents : CreationOf(podEvents[j], q)
        BY <2>1, <2>5, <3>2, Zenon DEF PodInv
      <4>. QED BY <2>1, <2>2, <4>1, Zenon
    <3>. QED BY <2>4, <2>5, <3>1, <3>2, Zenon
  <2>6. ASSUME NEW q \in Pods, NEW i \in DOMAIN podEvents', podEvents'[i][1] = q,
               podEvents'[i][2] \in Ended, pods'[q] \notin Ended
        PROVE  \E j \in DOMAIN podEvents' : j > i /\ CreationOf(podEvents'[j], q)
    <3>1. i # n + 1 BY <2>1, <2>2, <2>6, Zenon
    <3>2. i \in 1..n /\ podEvents'[i] = podEvents[i] BY <2>1, <2>2, <3>1, Zenon
    <3>3. CASE q = p /\ ph = "Pending" BY <2>2, <2>3, <3>2, <3>3, Zenon
    <3>4. CASE pods[q] \notin Ended
      <4>1. PICK j \in DOMAIN podEvents : j > i /\ CreationOf(podEvents[j], q)
        BY <2>1, <2>6, <3>2, <3>4, Zenon DEF PodInv
      <4>. QED BY <2>1, <2>2, <4>1, Zenon
    <3>. QED BY <2>4, <2>6, <3>3, <3>4, Zenon
  <2>. QED BY <2>5, <2>6, Zenon DEF PodInv
<1>5. None \in Ended BY Zenon DEF Ended
<1>6. ASSUME NEW p \in Pods, Creates(p) \/ Deletes(p) PROVE PodInv'
  <2>1. WritePod(p, "Pending") \/ WritePod(p, None) BY <1>6, Zenon DEF Creates, Deletes
  <2>. QED BY <1>3, <1>5, <2>1, Zenon
<1>7. ASSUME NEW p \in Pods, NEW ph, Runs(p, ph) PROVE PodInv'
  <2>1. WritePod(p, ph) /\ pods[p] \notin Ended BY <1>7, Zenon DEF Runs, Ended, None
  <2>. QED BY <1>3, <2>1, Zenon
<1>. QED BY <1>1, <1>2, <1>6, <1>7, Zenon DEF PodMoves

LEMMA NextGroup ==
  ASSUME [Next]_vars
  PROVE  \/ trg' = trg \/ trg' = None \/ trg # None
         \/ op = "create" /\ todo = {} /\ UNCHANGED podObjects
<1>1. CASE trg' = trg BY <1>1, Zenon
<1>2. CASE \/ SkipFinished \/ allocatePorts \/ createTaskResources \/ getLatestError
           \/ handlePending \/ handleRunning \/ handleSucceeded \/ endSync
           \/ \E p \in Pods : submitPod(p) \/ deletePod(p)
  BY <1>1, <1>2, Zenon DEF SkipFinished, allocatePorts, createTaskResources, getLatestError,
     handlePending, handleRunning, handleSucceeded, Handles, submitPod, deletePod, endSync, group
<1>3. CASE handleFailed BY <1>1, <1>3, Zenon DEF handleFailed, setTaskResourceGroupFailed
<1>4. CASE submitTaskResourceGroup BY <1>1, <1>4, Zenon DEF submitTaskResourceGroup, Works
<1>5. CASE deleteTaskResourceGroup BY <1>1, <1>5, Zenon DEF deleteTaskResourceGroup
<1>6. CASE cleanUp
  BY <1>1, <1>6, Zenon DEF cleanUp, syncDeletedTaskHandler, sweepPod, sweepTaskResourceGroup, group
<1>7. CASE delivery \/ resync
  BY <1>1, <1>7, Zenon DEF delivery, deliverTask, handlePodObject, handleTaskResourceGroupObject,
     resync, Watch
<1>8. CASE groupRuns
  <2>1. trg # None BY <1>8, Zenon DEF groupRuns, None
  <2>. QED BY <2>1, Zenon
<1>9. CASE \/ stopTasks \/ deleteTask \/ UNCHANGED vars \/ \E q \in Outer : updateTaskPartyStatus(q)
           \/ \E p \in Pods : podRuns(p)
  BY <1>1, <1>9, Zenon DEF stopTasks, deleteTask, updateTaskPartyStatus, podRuns, vars, group
<1>. QED BY <1>2, <1>3, <1>4, <1>5, <1>6, <1>7, <1>8, <1>9, Zenon DEF Next, syncHandler, environment

LEMMA NextTodo ==
  ASSUME IInv, [Next]_vars, op' \in {"create", "delete"}
  PROVE  \/ op' = "create" /\ todo' = Pods
         \/ op' = "delete" /\ (handleFailed \/ handleSucceeded)
         \/ op' = op /\ UNCHANGED <<todo, base>>
         \/ /\ op' = op /\ UNCHANGED base
            /\ \E p \in Pods : /\ todo' = todo \ {p}
                               /\ op = "create" => (pods'[p] # None \/ (podCache[p] # None /\ UNCHANGED podObjects))
                               /\ op = "delete" => pods'[p] = None
<1>1. CASE UNCHANGED <<op, todo, base>> BY <1>1, Zenon
<1>2. CASE SkipFinished \/ allocatePorts \/ getLatestError \/ handlePending \/ handleRunning
  BY <1>1, <1>2, Zenon DEF SkipFinished, allocatePorts, getLatestError, handlePending,
     handleRunning, Handles, worker
<1>3. CASE createTaskResources BY <1>3, Zenon DEF createTaskResources, Begin
<1>4. CASE handleFailed \/ handleSucceeded BY <1>4, Zenon DEF handleFailed, handleSucceeded, Begin
<1>5. pods \in [Pods -> PodPhases] BY Zenon DEF IInv, PodTypes
<1>6. ASSUME NEW p \in Pods, NEW ph, WritePod(p, ph) PROVE pods'[p] = ph
  BY <1>5, <1>6, Zenon DEF WritePod
<1>7. ASSUME NEW p \in Pods, submitPod(p) PROVE
         /\ op' = op /\ UNCHANGED base
         /\ \E q \in Pods : /\ todo' = todo \ {q}
                            /\ op = "create" => (pods'[q] # None \/ (podCache[q] # None /\ UNCHANGED podObjects))
                            /\ op = "delete" => pods'[q] = None
  <2>1. op = "create" /\ Reached(p)
        /\ IF pods[p] = None /\ podCache[p] = None THEN WritePod(p, "Pending") ELSE UNCHANGED podObjects
    BY <1>7, Zenon DEF submitPod, Works, FailSync, Return
  <2>2. op' = op /\ base' = base /\ todo' = todo \ {p} BY <2>1, Zenon DEF Reached
  <2>3. pods'[p] # None \/ (podCache[p] # None /\ UNCHANGED podObjects)
    <3>1. "Pending" # None BY Zenon DEF None
    <3>. QED BY <1>6, <2>1, <3>1, Zenon DEF podObjects
  <2>. QED BY <2>1, <2>2, <2>3, Zenon
<1>8. ASSUME NEW p \in Pods, deletePod(p) PROVE
         /\ op' = op /\ UNCHANGED base
         /\ \E q \in Pods : /\ todo' = todo \ {q}
                            /\ op = "create" => (pods'[q] # None \/ (podCache[q] # None /\ UNCHANGED podObjects))
                            /\ op = "delete" => pods'[q] = None
  <2>1. op = "delete" /\ Reached(p)
        /\ IF pods[p] = None THEN UNCHANGED podObjects ELSE WritePod(p, None)
    <3>1. ~Return BY Zenon DEF Return
    <3>2. ~DeleteError BY <3>1, DeleteErrorReturns, Zenon
    <3>. QED BY <1>8, <3>2, Zenon DEF deletePod, Works
  <2>2. op' = op /\ base' = base /\ todo' = todo \ {p} BY <2>1, Zenon DEF Reached
  <2>3. pods'[p] = None BY <1>6, <2>1, Zenon DEF podObjects
  <2>. QED BY <2>1, <2>2, <2>3, Zenon
<1>9. CASE submitTaskResourceGroup \/ deleteTaskResourceGroup \/ endSync
  <2>1. op' \in {"created", "deleted", "idle"}
    BY <1>9, DeleteErrorReturns, Zenon DEF submitTaskResourceGroup, deleteTaskResourceGroup,
       endSync, FailSync, Return
  <2>. QED BY <2>1, Zenon
<1>10. CASE cleanUp
  BY <1>1, <1>10, Zenon DEF cleanUp, syncDeletedTaskHandler, sweepPod, sweepTaskResourceGroup, Sweeps, worker
<1>11. CASE delivery \/ resync
  BY <1>1, <1>11, Zenon DEF delivery, deliverTask, handlePodObject, handleTaskResourceGroupObject,
     resync, Watch, worker
<1>12. CASE environment \/ stopTasks \/ deleteTask
  BY <1>1, <1>12, Zenon DEF environment, groupRuns, podRuns, updateTaskPartyStatus, stopTasks,
     deleteTask, Elsewhere, worker
<1>13. CASE UNCHANGED vars BY <1>1, <1>13, Zenon DEF vars, worker
<1>. QED
  BY <1>2, <1>3, <1>4, <1>7, <1>8, <1>9, <1>10, <1>11, <1>12, <1>13, Zenon DEF Next, syncHandler

\* While the task is Pending, what exists goes on existing, what runs does not go back, and
\* the first to run runs after the group was created.
Grows ==
  \A q \in Pods : /\ pods[q] # None => pods'[q] # None
                  /\ pods[q] \notin Waiting => pods'[q] \notin Waiting
                  /\ pods'[q] \notin Waiting => pods[q] \notin Waiting \/ trg # None

LEMMA PodsGrow ==
  ASSUME IInv, PodMoves, Latest.phase = "Pending"
  PROVE  Grows
<1>0. None \in Waiting BY Zenon DEF Waiting
<1>1. CASE UNCHANGED podObjects \/ handlePodObject
  <2>1. pods' = pods BY <1>1, Zenon DEF podObjects, handlePodObject, Watch
  <2>. QED BY <2>1, Zenon DEF Grows
<1>2. ASSUME NEW p \in Pods, Creates(p)
      PROVE  Grows
  <2>1. pods[p] = None /\ pods'[p] = "Pending" /\ \A q \in Pods \ {p} : pods'[q] = pods[q]
    BY <1>2, Added, Zenon DEF Creates
  <2>2. "Pending" \in Waiting BY Zenon DEF Waiting
  <2>. QED BY <1>0, <2>1, <2>2, Zenon DEF Grows
<1>3. ASSUME NEW p \in Pods, NEW ph, Runs(p, ph)
      PROVE  Grows
  <2>1. pods'[p] = ph /\ \A q \in Pods \ {p} : pods'[q] = pods[q]
    BY <1>3, Added, Zenon DEF Runs
  <2>2. ph \notin Waiting /\ (pods[p] \notin Waiting \/ trg # None) BY <1>3, Zenon DEF Runs
  <2>. QED BY <1>0, <2>1, <2>2, Zenon DEF Grows
<1>. QED BY <1>1, <1>2, <1>3, Zenon DEF PodMoves, Deletes, Alive

LEMMA StartNext ==
  ASSUME IInv, StartInv, [Next]_vars, PodMoves, Latest.phase = "Pending"
  PROVE  StartInv'
<1>0. /\ \A q \in Pods : /\ pods[q] # None => pods'[q] # None
                         /\ pods[q] \notin Waiting => pods'[q] \notin Waiting
                         /\ pods'[q] \notin Waiting => pods[q] \notin Waiting \/ trg # None
      /\ None \in Waiting /\ "Pending" \in Waiting
  BY PodsGrow, Zenon DEF Grows, Waiting
<1>1. trg' # None \/ (\E p \in Pods : pods'[p] \notin Waiting) => \A p \in Pods : pods'[p] # None
  <2>1. SUFFICES ASSUME trg' # None \/ \E p \in Pods : pods'[p] \notin Waiting
                 PROVE  \A p \in Pods : pods[p] # None
    BY <1>0, Zenon
  <2>2. CASE trg # None \/ \E p \in Pods : pods[p] \notin Waiting BY <2>2, Zenon DEF StartInv
  <2>3. CASE trg = None /\ ~\E p \in Pods : pods[p] \notin Waiting
    <3>1. trg' # None BY <1>0, <2>1, <2>3, Zenon
    <3>2. op = "create" /\ todo = {} BY <2>3, <3>1, NextGroup, Zenon
    <3>. QED BY <3>2, Zenon DEF StartInv
  <2>. QED BY <2>2, <2>3, Zenon
<1>2. op' = "create" => \A p \in Pods \ todo' : pods'[p] # None
  <2>1. SUFFICES ASSUME op' = "create" PROVE \A p \in Pods \ todo' : pods'[p] # None BY Zenon
  <2>2. CASE todo' = Pods BY <2>2, Zenon
  <2>3. CASE op = "create" /\ todo' = todo BY <1>0, <2>3, Zenon DEF StartInv
  <2>4. ASSUME op = "create", NEW p \in Pods, todo' = todo \ {p},
               pods'[p] # None \/ (podCache[p] # None /\ UNCHANGED podObjects)
        PROVE  \A q \in Pods \ todo' : pods'[q] # None
    <3>1. pods'[p] # None BY <1>0, <2>4, Zenon DEF StartInv
    <3>. QED BY <1>0, <2>4, <3>1, Zenon DEF StartInv
  <2>. QED BY <2>1, <2>2, <2>3, <2>4, NextTodo, Zenon
<1>3. CASE UNCHANGED podObjects
  <2>1. UNCHANGED <<pods, podCache, podEvents>> BY <1>3, Zenon DEF podObjects
  <2>. QED BY <1>1, <1>2, <2>1, Zenon DEF StartInv, NoneComes
<1>4. CASE handlePodObject
  <2>. DEFINE p == podEvents[1][1]
  <2>1. /\ pods[p] # None /\ (~Creation(podEvents[1]) => pods[p] \notin Waiting)
        /\ p \in Pods /\ pods' = pods /\ podCache'[p] = podEvents[1][2]
        /\ \A q \in Pods : q # p => podCache'[q] = podCache[q]
    BY <1>4, Shifted, Zenon DEF StartInv
  <2>2. podEvents[1][2] \notin Waiting => ~Creation(podEvents[1]) BY <1>0, Zenon DEF Creation
  <2>3. \A q \in Pods : /\ podCache'[q] # None => pods'[q] # None
                        /\ podCache'[q] \notin Waiting => pods'[q] \notin Waiting
    BY <2>1, <2>2, Zenon DEF StartInv
  <2>4. \A i \in DOMAIN podEvents' :
          /\ pods'[podEvents'[i][1]] # None
          /\ ~Creation(podEvents'[i]) => pods'[podEvents'[i][1]] \notin Waiting
    <3>1. ASSUME NEW i \in DOMAIN podEvents'
          PROVE  i + 1 \in DOMAIN podEvents /\ podEvents'[i] = podEvents[i + 1]
      BY <1>4, Shifted, Zenon
    <3>2. \A j \in DOMAIN podEvents :
            /\ pods'[podEvents[j][1]] # None
            /\ ~Creation(podEvents[j]) => pods'[podEvents[j][1]] \notin Waiting
      BY <2>1, Zenon DEF StartInv
    <3>. QED BY <3>1, <3>2, Zenon
  <2>5. ASSUME NEW q \in Pods, podCache'[q] \notin Waiting PROVE NoneComes'
    <3>1. NoneComes \/ ~Creation(podEvents[1]) BY <2>1, <2>2, <2>5, Zenon DEF StartInv
    <3>2. CASE NoneComes BY <1>4, <3>2, Shifted, Zenon DEF NoneComes
    <3>3. CASE ~Creation(podEvents[1])
      <4>1. \A i \in DOMAIN podEvents : i > 1 => ~Creation(podEvents[i])
        <5>1. \A i \in DOMAIN podEvents : i \in Nat BY <1>4, Shifted, Zenon
        <5>2. \A i \in DOMAIN podEvents : i > 1 => 1 < i BY <5>1, Zenon
        <5>. QED BY <1>4, <3>3, <5>2, Shifted, Zenon DEF StartInv
      <4>. QED BY <1>4, <4>1, Shifted, Zenon DEF NoneComes
    <3>. QED BY <3>1, <3>2, <3>3, Zenon
  <2>6. ASSUME NEW i \in DOMAIN podEvents', NEW j \in DOMAIN podEvents', i < j, Creation(podEvents'[j])
        PROVE  Creation(podEvents'[i])
    <3>1. /\ i \in Nat /\ j \in Nat /\ i + 1 \in DOMAIN podEvents /\ j + 1 \in DOMAIN podEvents
          /\ podEvents'[i] = podEvents[i + 1] /\ podEvents'[j] = podEvents[j + 1]
      BY <1>4, Shifted, Zenon
    <3>2. i + 1 < j + 1 BY <2>6, <3>1
    <3>. QED BY <2>6, <3>1, <3>2, Zenon DEF StartInv
  <2>. QED BY <1>1, <1>2, <2>3, <2>4, <2>5, <2>6, Zenon DEF StartInv
\* A change of p is added; a creation only when no pod has begun.
<1>5. ASSUME NEW p \in Pods, NEW ph, WritePod(p, ph), ph # None,
             ph = "Pending" => pods[p] = None /\ podCache[p] = None,
             ph # "Pending" => ph \notin Waiting
      PROVE  StartInv'
  <2>1. PICK n \in Nat :
           /\ DOMAIN podEvents = 1..n /\ DOMAIN podEvents' = 1..(n + 1)
           /\ \A i \in 1..n : podEvents'[i] = podEvents[i]
           /\ podEvents'[n + 1] = <<p, ph>>
           /\ podCache' = podCache /\ DOMAIN pods' = Pods /\ pods'[p] = ph
           /\ \A q \in Pods \ {p} : pods'[q] = pods[q]
    BY <1>5, Added, Zenon
  <2>2. /\ \A i \in DOMAIN podEvents' : i \in 1..n \/ i = n + 1
        /\ \A i \in DOMAIN podEvents' : ~(n + 1 < i)
        /\ podEvents'[n + 1][1] = p /\ podEvents'[n + 1][2] = ph
    BY <2>1
  <2>3. \A q \in Pods : /\ podCache'[q] # None => pods'[q] # None
                        /\ podCache'[q] \notin Waiting => pods'[q] \notin Waiting
    BY <1>0, <2>1, Zenon DEF StartInv
  <2>4. ASSUME NEW i \in DOMAIN podEvents'
        PROVE  /\ pods'[podEvents'[i][1]] # None
               /\ ~Creation(podEvents'[i]) => pods'[podEvents'[i][1]] \notin Waiting
    <3>1. CASE i = n + 1
      <4>1. podEvents'[i][1] = p /\ (Creation(podEvents'[i]) <=> ph = "Pending")
        BY <2>2, <3>1, Zenon DEF Creation
      <4>. QED BY <1>5, <2>1, <4>1, Zenon
    <3>2. CASE i \in 1..n
      <4>1. podEvents'[i] = podEvents[i] /\ i \in DOMAIN podEvents BY <2>1, <3>2, Zenon
      <4>2. podEvents[i][1] \in Pods
        <5>1. podEvents \in Seq(Pods \X PodPhases) BY Zenon DEF IInv, PodTypes
        <5>2. podEvents[i] \in Pods \X PodPhases BY <4>1, <5>1
        <5>. QED BY <5>2, Zenon
      <4>. QED BY <1>0, <4>1, <4>2, Zenon DEF StartInv
    <3>. QED BY <2>2, <3>1, <3>2, Zenon
  \* Before a creation: no pod has begun, for the API server or the lister.
  <2>5. ASSUME ph = "Pending"
        PROVE  /\ \A q \in Pods : podCache[q] \in Waiting
               /\ \A i \in DOMAIN podEvents : Creation(podEvents[i])
    <3>1. \A q \in Pods : pods[q] \in Waiting BY <1>5, <2>5, Zenon DEF StartInv
    <3>2. ASSUME NEW i \in DOMAIN podEvents PROVE podEvents[i][1] \in Pods
      <4>1. podEvents \in Seq(Pods \X PodPhases) BY Zenon DEF IInv, PodTypes
      <4>2. podEvents[i] \in Pods \X PodPhases BY <4>1
      <4>. QED BY <4>2, Zenon
    <3>. QED BY <3>1, <3>2, Zenon DEF StartInv
  <2>6. Creation(podEvents'[n + 1]) <=> ph = "Pending" BY <2>2, Zenon DEF Creation
  <2>7. ASSUME NEW q \in Pods, podCache'[q] \notin Waiting PROVE NoneComes'
    <3>1. ph # "Pending" /\ NoneComes BY <2>1, <2>5, <2>7, Zenon DEF StartInv
    <3>. QED BY <2>1, <2>2, <2>6, <3>1, Zenon DEF NoneComes
  <2>8. ASSUME NEW i \in DOMAIN podEvents', NEW j \in DOMAIN podEvents', i < j, Creation(podEvents'[j])
        PROVE  Creation(podEvents'[i])
    <3>1. i \in 1..n /\ podEvents'[i] = podEvents[i] /\ i \in DOMAIN podEvents
      BY <2>1, <2>2, <2>8, Zenon
    <3>2. CASE j = n + 1 BY <2>5, <2>6, <2>8, <3>1, <3>2, Zenon
    <3>3. CASE j \in 1..n BY <2>1, <2>8, <3>1, <3>3, Zenon DEF StartInv
    <3>. QED BY <2>2, <3>2, <3>3, Zenon
  <2>. QED BY <1>1, <1>2, <2>3, <2>4, <2>7, <2>8, Zenon DEF StartInv
<1>6. ASSUME NEW p \in Pods, Creates(p) PROVE StartInv'
  <2>1. "Pending" # None BY Zenon DEF None
  <2>. QED BY <1>5, <1>6, <2>1, Zenon DEF Creates
<1>7. ASSUME NEW p \in Pods, NEW ph, Runs(p, ph) PROVE StartInv'
  <2>1. WritePod(p, ph) /\ ph \notin Waiting BY <1>7, Zenon DEF Runs
  <2>. QED BY <1>0, <1>5, <2>1, Zenon
<1>. QED BY <1>3, <1>4, <1>6, <1>7, Zenon DEF PodMoves, Deletes, Alive

\* When the task runs, the lister has seen all creations, so that the pods it shows are the
\* ones there are; SucceededHandler deletes them, then the group.
Begun == Latest.phase \in {"Running", "Succeeded"}

Clean ==
  Begun => /\ NoneComes
           /\ base.phase = "Succeeded" =>
                /\ op = "delete" => \A p \in Pods \ todo : pods[p] \in Ended
                /\ op = "deleted" => trg = None /\ \A p \in Pods : pods[p] \in Ended

SInv ==
  /\ IInv /\ LifeInv /\ PodInv /\ (Latest.phase = "Pending" => StartInv) /\ Clean
  /\ SucceededLeavesNothing

\* A task that has begun has no pods created.
LEMMA BegunKeeps ==
  ASSUME IInv, LifeInv, PodMoves, Begun
  PROVE  /\ \A p \in Pods : pods[p] \in Ended => pods'[p] \in Ended
         /\ NoneComes => NoneComes'
<1>1. op # "create" BY Zenon DEF LifeInv, Begun
<1>2. CASE UNCHANGED podObjects BY <1>2, Zenon DEF podObjects, NoneComes
<1>3. CASE handlePodObject BY <1>3, Shifted, Zenon DEF NoneComes
<1>4. ASSUME NEW p \in Pods, NEW ph, WritePod(p, ph), ph # "Pending", ph \in Ended \/ pods[p] \notin Ended
      PROVE  /\ \A q \in Pods : pods[q] \in Ended => pods'[q] \in Ended
             /\ NoneComes => NoneComes'
  <2>1. PICK n \in Nat :
           /\ DOMAIN podEvents = 1..n /\ DOMAIN podEvents' = 1..(n + 1)
           /\ \A i \in 1..n : podEvents'[i] = podEvents[i]
           /\ podEvents'[n + 1] = <<p, ph>>
           /\ podCache' = podCache /\ DOMAIN pods' = Pods /\ pods'[p] = ph
           /\ \A q \in Pods \ {p} : pods'[q] = pods[q]
    BY <1>4, Added, Zenon
  <2>2. /\ \A i \in DOMAIN podEvents' : i \in 1..n \/ i = n + 1
        /\ podEvents'[n + 1][2] = ph
    BY <2>1
  <2>3. ~Creation(podEvents'[n + 1]) BY <1>4, <2>2, Zenon DEF Creation
  <2>4. NoneComes => NoneComes' BY <2>1, <2>2, <2>3, Zenon DEF NoneComes
  <2>. QED BY <1>4, <2>1, <2>4, Zenon
<1>5. ASSUME NEW p \in Pods, Deletes(p)
      PROVE  /\ \A q \in Pods : pods[q] \in Ended => pods'[q] \in Ended
             /\ NoneComes => NoneComes'
  <2>1. WritePod(p, None) /\ None # "Pending" /\ None \in Ended
    BY <1>5, Zenon DEF Deletes, Ended, None
  <2>. QED BY <1>4, <2>1, Zenon
<1>6. ASSUME NEW p \in Pods, NEW ph, Runs(p, ph)
      PROVE  /\ \A q \in Pods : pods[q] \in Ended => pods'[q] \in Ended
             /\ NoneComes => NoneComes'
  <2>1. WritePod(p, ph) /\ ph # "Pending" /\ pods[p] \notin Ended
    BY <1>6, Zenon DEF Runs, Ended, None, Waiting
  <2>. QED BY <1>4, <2>1, Zenon
<1>. QED BY <1>1, <1>2, <1>3, <1>5, <1>6, Zenon DEF PodMoves, Creates

\* At the time of SucceededHandler the lister misses no pod.
LEMMA ListerComplete ==
  ASSUME IInv, PodInv, NoneComes
  PROVE  \A p \in Pods \ podsToDelete : pods[p] \in Ended
<1>1. ASSUME NEW p \in Pods, podCache[p] \in Ended PROVE pods[p] \in Ended
  <2>1. ASSUME NEW j \in DOMAIN podEvents PROVE ~CreationOf(podEvents[j], p)
    <3>1. ~Creation(podEvents[j]) BY Zenon DEF NoneComes
    <3>2. <<p, "Pending">>[2] = "Pending" BY Zenon
    <3>. QED BY <3>1, <3>2, Zenon DEF CreationOf, Creation
  <2>. QED BY <1>1, <2>1, Zenon DEF PodInv
<1>. QED BY <1>1, Zenon DEF podsToDelete, Ended

LEMMA CleanNext ==
  ASSUME SInv, [Next]_vars
  PROVE  Clean' /\ SucceededLeavesNothing'
<1>0. IInv /\ LifeInv /\ PodInv /\ (Latest.phase = "Pending" => StartInv) /\ Clean
      /\ SucceededLeavesNothing
  BY Zenon DEF SInv
<1>1. /\ PodMoves /\ OpMoves
      /\ Latest' = Latest \/ (Latest' \in Task /\ Good(Latest') /\ fresh' = FALSE)
  BY <1>0, NextPods, NextOp, LifeNext, Zenon
<1>2. Begun' => Begun \/ Starts BY <1>1, Zenon DEF Begun, Good, Ends
<1>3. ASSUME Begun
      PROVE  /\ op # "create" /\ NoneComes /\ NoneComes'
             /\ \A p \in Pods : pods[p] \in Ended => pods'[p] \in Ended
             /\ trg = None => trg' = None
  <2>1. op # "create" BY <1>0, <1>3, Zenon DEF LifeInv, Begun
  <2>2. trg = None => trg' = None BY <2>1, NextGroup, Zenon
  <2>3. NoneComes BY <1>0, <1>3, Zenon DEF Clean
  <2>. QED BY <1>0, <1>1, <1>3, <2>1, <2>2, <2>3, BegunKeeps, Zenon
<1>4. Begun' => NoneComes'
  <2>1. ASSUME Starts PROVE NoneComes'
    <3>1. StartInv /\ (\E p \in Pods : podCache[p] \notin Waiting) /\ podEvents' = podEvents
      BY <1>0, <2>1, Zenon DEF Starts
    <3>. QED BY <3>1, Zenon DEF StartInv, NoneComes
  <2>. QED BY <1>2, <1>3, <2>1, Zenon
<1>5. Latest.phase = "Pending" => op \notin {"delete", "deleted"} BY <1>0, Zenon DEF LifeInv, Alive
<1>6. ASSUME Begun', base'.phase = "Succeeded", op' = "delete"
      PROVE  \A p \in Pods \ todo' : pods'[p] \in Ended
  <2>1. CASE handleFailed
    <3>1. base' = taskCache /\ taskCache.phase = "Failed" BY <2>1, Zenon DEF handleFailed, Begin
    <3>. QED BY <1>6, <3>1, Zenon
  <2>2. CASE handleSucceeded
    <3>1. todo' = podsToDelete /\ pods' = pods /\ taskCache.phase = "Succeeded"
      BY <2>2, Zenon DEF handleSucceeded, Begin, podObjects
    <3>2. Latest.phase # "Pending"
      <4>1. taskCache.phase # "Pending" BY <3>1, Zenon
      <4>. QED BY <1>0, <4>1, Zenon DEF LifeInv, Old
    <3>3. Begun BY <1>2, <1>6, <3>2, Zenon DEF Starts
    <3>. QED BY <1>0, <1>3, <3>1, <3>3, ListerComplete, Zenon
  <2>3. CASE op = "delete" /\ base' = base
    <3>1. Begun BY <1>2, <1>5, <1>6, <2>3, Zenon DEF Starts
    <3>2. \A p \in Pods \ todo : pods[p] \in Ended BY <1>0, <1>6, <2>3, <3>1, Zenon DEF Clean
    <3>3. \A p \in Pods \ todo : pods'[p] \in Ended BY <1>3, <3>1, <3>2, Zenon
    <3>4. CASE todo' = todo BY <3>3, <3>4, Zenon
    <3>5. ASSUME NEW p \in Pods, todo' = todo \ {p}, pods'[p] = None
          PROVE  \A q \in Pods \ todo' : pods'[q] \in Ended
      <4>1. None \in Ended BY Zenon DEF Ended
      <4>. QED BY <3>3, <3>5, <4>1, Zenon
    <3>. QED BY <1>0, <1>6, <2>1, <2>2, <2>3, <3>4, <3>5, NextTodo, Zenon
  <2>. QED BY <1>0, <1>6, <2>1, <2>2, <2>3, NextTodo, Zenon
<1>7. ASSUME Begun', base'.phase = "Succeeded", op' = "deleted"
      PROVE  trg' = None /\ \A p \in Pods : pods'[p] \in Ended
  <2>1. \/ op = "deleted" /\ base' = base
        \/ op = "delete" /\ base' = base /\ todo = {} /\ trg' = None
    <3>1. op' \notin {"idle", "created", "create", "delete"} BY <1>7, Zenon
    <3>. QED
      BY <1>1, <1>7, <3>1, Zenon DEF OpMoves, createTaskResources, handleFailed, handleSucceeded, Begin
  <2>2. Begun BY <1>2, <1>5, <1>7, <2>1, Zenon DEF Starts
  <2>3. CASE op = "deleted" /\ base' = base BY <1>0, <1>3, <1>7, <2>2, <2>3, Zenon DEF Clean
  <2>4. CASE op = "delete" /\ base' = base /\ todo = {} /\ trg' = None
    <3>1. \A p \in Pods : pods[p] \in Ended BY <1>0, <1>7, <2>2, <2>4, Zenon DEF Clean
    <3>. QED BY <1>3, <2>2, <2>4, <3>1, Zenon
  <2>. QED BY <2>1, <2>3, <2>4, Zenon
<1>8. Clean' BY <1>4, <1>6, <1>7, Zenon DEF Clean
<1>9. SucceededLeavesNothing'
  <2>1. SUFFICES ASSUME Latest'.phase = "Succeeded", Latest'.done
                 PROVE  trg' = None /\ \A p \in Pods : pods'[p] \in Ended
    BY Zenon DEF SucceededLeavesNothing, Ended
  <2>2. /\ Latest.phase = "Succeeded"
        /\ Latest.done \/ (op = "deleted" /\ base.phase = "Succeeded")
    BY <1>1, <2>1, Zenon DEF Good
  <2>3. Begun BY <2>2, Zenon DEF Begun
  <2>4. trg = None /\ \A p \in Pods : pods[p] \in Ended
    BY <1>0, <2>2, <2>3, Zenon DEF SucceededLeavesNothing, Clean, Ended
  <2>. QED BY <1>3, <2>3, <2>4, Zenon
<1>. QED BY <1>8, <1>9, Zenon

LEMMA SInvNext == ASSUME SInv, [Next]_vars PROVE SInv'
<1>0. IInv /\ LifeInv /\ PodInv /\ (Latest.phase = "Pending" => StartInv)
  BY Zenon DEF SInv
<1>1. IInv' BY <1>0, NextSafe, Zenon DEF Safe
<1>2. /\ LifeInv' /\ PodMoves /\ (Latest'.phase = "Pending" => Latest.phase = "Pending")
  BY <1>0, LifeNext, NextPods, Zenon DEF Good
<1>3. PodInv' BY <1>0, <1>2, PodInvNext, Zenon
<1>4. Latest'.phase = "Pending" => StartInv' BY <1>0, <1>2, StartNext, Zenon
<1>. QED BY <1>1, <1>2, <1>3, <1>4, CleanNext, Zenon DEF SInv

LEMMA SInvInit == ASSUME Init PROVE SInv
<1>1. /\ pods = [p \in Pods |-> None] /\ podCache = pods /\ podEvents = <<>> /\ trg = None
      /\ op = "idle" /\ taskCache = NewTask /\ taskEvents = <<>>
  BY Zenon DEF Init
<1>2. Latest = NewTask /\ NewTask.phase = "Pending" /\ DOMAIN podEvents = {}
  BY <1>1, NewTaskType DEF Latest
<1>3. \A p \in Pods : pods[p] = None /\ podCache[p] = None BY <1>1, Zenon
<1>4. PodInv BY <1>2, <1>3, Zenon DEF PodInv, Ended
<1>5. StartInv BY <1>1, <1>2, <1>3, Zenon DEF StartInv, Waiting
<1>6. Clean /\ SucceededLeavesNothing BY <1>2, Zenon DEF Clean, Begun, SucceededLeavesNothing
<1>. QED BY <1>4, <1>5, <1>6, InitInv, LifeInit, Zenon DEF SInv

\* SucceededHandler deletes what a lister shows it: still, a Succeeded task that is
\* completed has left no pod that runs and no group, and nothing brings one back, however
\* late the listers, the watch streams and the writes of others are.
THEOREM NothingIsLeft == Spec => []SucceededLeavesNothing
<1>1. Init => SInv BY SInvInit, Zenon
<1>2. SInv /\ [Next]_vars => SInv' BY SInvNext, Zenon
<1>3. SInv => SucceededLeavesNothing BY Zenon DEF SInv
<1>. QED BY <1>1, <1>2, <1>3, PTL DEF Spec

\* getPartyTaskStatus judges a party once: its verdict stays, whatever versions and pods the
\* listers show, until the job is stopped.
THEOREM VerdictIsKept == Spec => PartyVerdictKept
<1>. DEFINE Keeps == \A q \in Parties : Latest.party[q] \in Finished /\ Latest'.phase # Gone =>
                       Latest'.party[q] = Latest.party[q] \/ stopTasks
<1>1. Init => SInv BY SInvInit, Zenon
<1>2. SInv /\ [Next]_vars => SInv' BY SInvNext, Zenon
<1>3. ASSUME SInv, [Next]_vars PROVE Keeps
  <2>1. Latest' = Latest \/ Good(Latest') BY <1>3, LifeNext, Zenon DEF SInv
  <2>. QED BY <2>1, Zenon DEF Good, Steady
<1>4. SInv /\ [Next]_vars => [Keeps]_vars BY <1>3, Zenon
<1>. QED BY <1>1, <1>2, <1>4, PTL DEF Spec, PartyVerdictKept

FST == INSTANCE FiniteSetTheorems

LEMMA SameSets ==
  \A S : FST!Cardinality(S) = Cardinality(S) /\ (FST!IsFiniteSet(S) <=> IsFiniteSet(S))
  BY Zenon DEF FST!Cardinality, Cardinality, FST!IsFiniteSet, IsFiniteSet

\* What has enough members has enough in every larger set.
LEMMA Enough ==
  ASSUME NEW n \in Nat, NEW S, NEW T, S \subseteq T, IsFiniteSet(T), n <= Cardinality(S)
  PROVE  n <= Cardinality(T)
<1>1. S \in SUBSET T /\ IsFiniteSet(S) BY SameSets, FST!FS_Subset, Zenon
<1>2. Cardinality(S) <= Cardinality(T) BY <1>1, SameSets, FST!FS_Subset, Zenon
<1>3. Cardinality(S) \in Nat /\ Cardinality(T) \in Nat
  BY <1>1, SameSets, FST!FS_CardinalityType, Zenon
<1>. QED BY <1>2, <1>3

\* Until the task ends no pod is deleted, so that what the lister shows as succeeded, or a
\* recorded verdict says, is still so.
SucceededPods(q) == {p \in Pods : Owner[p] = q /\ pods[p] = "Succeeded"}
EnoughPods(q) == MinReservedPods[q] <= Cardinality(SucceededPods(q))
RealPods ==
  /\ \A p \in Pods : podCache[p] = "Succeeded" => pods[p] = "Succeeded"
  /\ \A i \in DOMAIN podEvents : podEvents[i][2] = "Succeeded" => pods[podEvents[i][1]] = "Succeeded"
RealParties == \A q \in Parties : Latest.party[q] = "Succeeded" => EnoughPods(q)
RInv == SInv /\ (Latest.phase \in Alive => RealPods /\ RealParties)

LEMMA SeenIsReal == ASSUME RealPods, NEW q \in Parties, SeenSucceeded(q) PROVE EnoughPods(q)
<1>. DEFINE S == {p \in Pods : Owner[p] = q /\ PodSeen(p) \in {"Succeeded"}}
<1>1. MinReservedPods[q] <= Cardinality(S) BY Zenon DEF SeenSucceeded, PodsIn
<1>2. S \subseteq SucceededPods(q) BY Zenon DEF PodSeen, RealPods, SucceededPods
<1>3. IsFiniteSet(SucceededPods(q))
  <2>1. SucceededPods(q) \in SUBSET Pods BY Zenon DEF SucceededPods
  <2>. QED BY <2>1, SetsAssumption, SameSets, FST!FS_Subset, Zenon
<1>4. MinReservedPods[q] \in Nat BY QuorumAssumption, Zenon
<1>. HIDE DEF S
<1>. QED BY <1>1, <1>2, <1>3, <1>4, Enough, Zenon DEF EnoughPods

LEMMA RealPodsNext ==
  ASSUME IInv, PodMoves, Latest.phase \in Alive, RealPods
  PROVE  RealPods' /\ \A p \in Pods : pods[p] = "Succeeded" => pods'[p] = "Succeeded"
<1>1. CASE UNCHANGED podObjects BY <1>1, Zenon DEF podObjects, RealPods
<1>2. CASE handlePodObject
  <2>1. pods' = pods BY <1>2, Shifted, Zenon
  <2>2. ASSUME NEW p \in Pods, podCache'[p] = "Succeeded" PROVE pods'[p] = "Succeeded"
    BY <1>2, <2>1, <2>2, Shifted, Zenon DEF RealPods
  <2>3. ASSUME NEW i \in DOMAIN podEvents', podEvents'[i][2] = "Succeeded"
        PROVE  pods'[podEvents'[i][1]] = "Succeeded"
    <3>1. i + 1 \in DOMAIN podEvents /\ podEvents'[i] = podEvents[i + 1] BY <1>2, Shifted, Zenon
    <3>. QED BY <2>1, <2>3, <3>1, Zenon DEF RealPods
  <2>. QED BY <2>1, <2>2, <2>3, Zenon DEF RealPods
<1>3. ASSUME NEW p \in Pods, NEW ph, WritePod(p, ph), pods[p] # "Succeeded"
      PROVE  RealPods' /\ \A q \in Pods : pods[q] = "Succeeded" => pods'[q] = "Succeeded"
  <2>1. PICK n \in Nat :
           /\ DOMAIN podEvents = 1..n /\ DOMAIN podEvents' = 1..(n + 1)
           /\ \A i \in 1..n : podEvents'[i] = podEvents[i]
           /\ podEvents'[n + 1] = <<p, ph>>
           /\ podCache' = podCache /\ DOMAIN pods' = Pods /\ pods'[p] = ph
           /\ \A q \in Pods \ {p} : pods'[q] = pods[q]
    BY <1>3, Added, Zenon
  <2>2. \A q \in Pods : pods[q] = "Succeeded" => pods'[q] = "Succeeded" BY <1>3, <2>1, Zenon
  <2>3. /\ \A i \in DOMAIN podEvents' : i \in 1..n \/ i = n + 1
        /\ podEvents'[n + 1][1] = p /\ podEvents'[n + 1][2] = ph
    BY <2>1
  <2>4. ASSUME NEW i \in DOMAIN podEvents', podEvents'[i][2] = "Succeeded"
        PROVE  pods'[podEvents'[i][1]] = "Succeeded"
    <3>1. CASE i = n + 1 BY <2>1, <2>3, <2>4, <3>1, Zenon
    <3>2. CASE i \in 1..n
      <4>1. podEvents'[i] = podEvents[i] /\ i \in DOMAIN podEvents BY <2>1, <3>2, Zenon
      <4>2. podEvents[i][1] \in Pods
        <5>1. podEvents \in Seq(Pods \X PodPhases) BY Zenon DEF IInv, PodTypes
        <5>2. podEvents[i] \in Pods \X PodPhases BY <4>1, <5>1
        <5>. QED BY <5>2, Zenon
      <4>. QED BY <2>2, <2>4, <4>1, <4>2, Zenon DEF RealPods
    <3>. QED BY <2>3, <3>1, <3>2, Zenon
  <2>. QED BY <2>1, <2>2, <2>4, Zenon DEF RealPods
<1>4. ASSUME NEW p \in Pods, Creates(p) \/ \E ph \in PodPhases : Runs(p, ph)
      PROVE  (\E ph : WritePod(p, ph)) /\ pods[p] # "Succeeded"
  <2>1. pods[p] \in {None, "Pending", "Running", "Stuck"} BY <1>4, Zenon DEF Creates, Runs
  <2>2. pods[p] # "Succeeded" BY <2>1, Zenon DEF None
  <2>. QED BY <1>4, <2>2, Zenon DEF Creates, Runs
<1>. QED BY <1>1, <1>2, <1>3, <1>4, Zenon DEF PodMoves, Deletes

LEMMA RInvNext == ASSUME RInv, [Next]_vars PROVE RInv'
<1>0. SInv /\ SInv' BY SInvNext, Zenon DEF RInv
<1>1. PodMoves /\ (Latest' = Latest \/ Good(Latest')) BY <1>0, LifeNext, NextPods, Zenon DEF SInv
<1>2. SUFFICES ASSUME Latest'.phase \in Alive PROVE RealPods' /\ RealParties'
  BY <1>0, Zenon DEF RInv
<1>3. Latest.phase \in Alive BY <1>1, <1>2, GoodAlive, Zenon
<1>4. RealPods /\ RealParties BY <1>3, Zenon DEF RInv
<1>5. RealPods' /\ \A p \in Pods : pods[p] = "Succeeded" => pods'[p] = "Succeeded"
  BY <1>0, <1>1, <1>3, <1>4, RealPodsNext, Zenon DEF SInv
<1>6. ASSUME NEW q \in Parties, EnoughPods(q) PROVE EnoughPods(q)'
  <2>1. SucceededPods(q) \subseteq SucceededPods(q)' BY <1>5, Zenon DEF SucceededPods
  <2>2. IsFiniteSet(SucceededPods(q)')
    <3>1. SucceededPods(q)' \in SUBSET Pods BY Zenon DEF SucceededPods
    <3>. QED BY <3>1, SetsAssumption, SameSets, FST!FS_Subset, Zenon
  <2>3. MinReservedPods[q] \in Nat BY QuorumAssumption, Zenon
  <2>4. MinReservedPods[q] <= Cardinality(SucceededPods(q)) BY <1>6, Zenon DEF EnoughPods
  <2>5. MinReservedPods[q] <= Cardinality(SucceededPods(q)')
    BY <2>1, <2>2, <2>3, <2>4, Enough, Zenon
  <2>. QED BY <2>5, Zenon DEF EnoughPods
<1>7. ASSUME NEW q \in Parties, Latest'.party[q] = "Succeeded" PROVE EnoughPods(q)
  <2>1. Latest.party[q] = "Succeeded" \/ SeenSucceeded(q)
    BY <1>1, <1>7, Zenon DEF Good, Honest
  <2>. QED BY <1>4, <2>1, SeenIsReal, Zenon DEF RealParties
<1>8. RealParties' BY <1>6, <1>7, Zenon DEF RealParties
<1>. QED BY <1>5, <1>8, Zenon

LEMMA RInvInit == ASSUME Init PROVE RInv
<1>1. /\ pods = [p \in Pods |-> None] /\ podCache = pods /\ podEvents = <<>>
      /\ taskCache = NewTask /\ taskEvents = <<>>
  BY Zenon DEF Init
<1>2. Latest = NewTask /\ DOMAIN podEvents = {} BY <1>1 DEF Latest
<1>3. \A q \in Parties : NewTask.party[q] = None BY Zenon DEF NewTask, AllParties
<1>4. None # "Succeeded" BY Zenon DEF None
<1>5. RealParties BY <1>2, <1>3, <1>4, Zenon DEF RealParties
<1>6. RealPods BY <1>1, <1>2, <1>4, Zenon DEF RealPods
<1>. QED BY <1>5, <1>6, SInvInit, Zenon DEF RInv

\* reconcileTaskStatus counts the parties that a lister and the task's own record say have
\* succeeded: when it makes the task Succeeded, that many have, by their pods as they are.
THEOREM SuccessIsReal == Spec => SucceededForReal
<1>. DEFINE Reported == {q \in Outer : Latest.party[q] = "Succeeded"}
            Real == {q \in Parties : MinReservedPods[q] <=
                       Cardinality({p \in Pods : Owner[p] = q /\ pods[p] = "Succeeded"})}
            Earned == Latest.phase # "Succeeded" /\ Latest'.phase = "Succeeded" =>
                        MinReservedMembers <= Cardinality(Reported \cup Real)
<1>1. Init => RInv BY RInvInit, Zenon
<1>2. RInv /\ [Next]_vars => RInv' BY RInvNext, Zenon
<1>3. ASSUME RInv, [Next]_vars, Latest.phase # "Succeeded", Latest'.phase = "Succeeded"
      PROVE  MinReservedMembers <= Cardinality(Reported \cup Real)
  <2>0. SInv BY <1>3, Zenon DEF RInv
  <2>1. Good(Latest') /\ Ends(Latest')
    <3>1. Latest' = Latest \/ Good(Latest') BY <1>3, <2>0, LifeNext, Zenon DEF SInv
    <3>. QED BY <1>3, <3>1, Zenon DEF Good
  <2>2. RealPods /\ RealParties
    <3>1. Latest.phase \in Alive BY <2>1, Zenon DEF Ends, Alive
    <3>. QED BY <1>3, <3>1, Zenon DEF RInv
  <2>3. ASSUME NEW q \in AllParties, Latest'.party[q] = "Succeeded" PROVE q \in Reported \cup Real
    <3>1. CASE q \in Outer BY <2>1, <2>3, <3>1, Zenon DEF Ends
    <3>2. CASE q \in Parties
      <4>1. Latest.party[q] = "Succeeded" \/ SeenSucceeded(q)
        BY <2>1, <2>3, <3>2, Zenon DEF Good, Honest
      <4>2. EnoughPods(q) BY <2>2, <3>2, <4>1, SeenIsReal, Zenon DEF RealParties
      <4>. QED BY <3>2, <4>2, Zenon DEF EnoughPods, SucceededPods
    <3>. QED BY <3>1, <3>2, Zenon DEF AllParties
  <2>. DEFINE S == {q \in AllParties : Latest'.party[q] = "Succeeded"}
  <2>4. S \subseteq Reported \cup Real BY <2>3, Zenon
  <2>5. MinReservedMembers <= Cardinality(S) BY <2>1, Zenon DEF Ends, Count
  <2>6. IsFiniteSet(Reported \cup Real)
    <3>1. IsFiniteSet(Outer \cup Parties) BY SetsAssumption, SameSets, FST!FS_Union, Zenon
    <3>2. Reported \cup Real \in SUBSET (Outer \cup Parties) BY Zenon
    <3>. HIDE DEF Reported, Real
    <3>. QED BY <3>1, <3>2, SameSets, FST!FS_Subset, Zenon
  <2>7. MinReservedMembers \in Nat
    <3>1. \A n : MinReservedMembers \in 1..n => MinReservedMembers \in Nat OBVIOUS
    <3>. QED BY <3>1, QuorumAssumption, Zenon
  <2>. HIDE DEF S, Reported, Real
  <2>. QED BY <2>4, <2>5, <2>6, <2>7, Enough, Zenon
<1>4. RInv /\ [Next]_vars => [Earned]_vars BY <1>3, Zenon
<1>. QED BY <1>1, <1>2, <1>4, PTL DEF Spec, SucceededForReal
==============================================================================
