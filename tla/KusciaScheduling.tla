-------------------------- MODULE KusciaScheduling --------------------------
(***************************************************************************)
(* One party's side of co-scheduling: the plugin of                        *)
(* pkg/scheduler/kusciascheduling for the pods of one TaskResource.        *)
(*                                                                         *)
(* kube-scheduler runs one scheduling cycle at a time (snapshot, PreFilter,*)
(* Filter, assume, Reserve, Permit) and one binding cycle per pod beside   *)
(* it (wait on Permit, PreBind, Bind, PostBind; Unreserve when one fails). *)
(* The cycles share taskResourceInfos and patchTaskResourceInfos, and read *)
(* the TaskResource from a lister that may be behind the API server.  The  *)
(* group controller changes the TaskResource meanwhile.                    *)
(*                                                                         *)
(* Every wait of the code has a timer, which may fire at any moment.       *)
(***************************************************************************)
EXTENDS Integers, Sequences, FiniteSets, FiniteSetsExt

CONSTANTS Pods,             \* the pods of the TaskResource
          Nodes,
          Capacity,         \* pods of this TaskResource a node has room for
          PatchMayTimeOut,  \* the API server may be away for patchTimeout
          MinReservedPods,  \* spec.minReservedPods
          Lag               \* bound on versions the lister has not seen

ASSUME PodsAssumption == IsFiniteSet(Pods) /\ Pods # {}
ASSUME BoundsAssumption == {Capacity, MinReservedPods, Lag} \subseteq Nat
ASSUME PatchAssumption == PatchMayTimeOut \in BOOLEAN

VARIABLES seen,      \* phase of the TaskResource in the lister
          ahead,     \* phases the lister has not seen; the last is the API server's
          granted,   \* the group controller has made it Schedulable
          reserved,  \* it was Reserved at some time
          at,        \* per pod, where it is in its cycle
          read,      \* per pod, the phase its binding cycle read
          node,      \* per assumed or bound pod, its node
          snapshot,  \* node at the start of the scheduling cycle
          infos,     \* taskResourceInfos: pod -> node
          loaded,    \* what Reserve loaded from it
          listed,    \* bound pods that podLister shows with their node
          patch,     \* the patchTaskResourceInfo in patchTaskResourceInfos
          owner,     \* per patchTaskResourceInfo, podName
          failed,    \* patchTaskResourceInfos whose err is set
          held,      \* per pod, the patchTaskResourceInfo it holds
          failing    \* goroutines of Unreserve that patch the phase Failed

tr == <<seen, ahead, granted, reserved>>
scheduling == <<snapshot, loaded>>
patches == <<patch, owner, failed, held>>
pluginVars == <<tr, at, read, node, infos, listed, scheduling, patches, failing>>

None == "none"
Info == 1..(Cardinality(Pods) + 1)
NoInfo == 0
MaxFailing == Cardinality(Pods)    \* bound on goroutines of Unreserve at a time
Phases == {"Reserving", "Reserved", "Failed", "Schedulable"}
Phase == IF ahead = <<>> THEN seen ELSE ahead[Len(ahead)]

Cycle == {"filter", "load", "store", "permit"}
Goto(p, step) == at' = [at EXCEPT ![p] = step]
Idle == \A p \in Pods : at[p] \notin Cycle

Write(phase) ==
  /\ Len(ahead) < Lag
  /\ ahead' = Append(ahead, phase)
  /\ reserved' = (reserved \/ phase = "Reserved")
  /\ UNCHANGED seen

(***************************************************************************)
(* The scheduling cycle.                                                   *)
(***************************************************************************)
Listed == {p \in Pods : at[p] # "absent"}

\* A pod gets its annotations and enters the scheduling queue.
AddPod(p) ==
  /\ at[p] = "absent"
  /\ Goto(p, "pending")
  /\ UNCHANGED <<tr, read, node, infos, listed, scheduling, patches, failing>>

\* getSnapshotReservedPodsCount: every pod of the TaskResource on the node of every
\* recorded pod.
SnapshotReserved(p) ==
  LET On(n) == {q \in DOMAIN snapshot \ {p} : snapshot[q] = n}
  IN MapThenSumSet(LAMBDA q : Cardinality(On(infos[q])), DOMAIN infos \ {p})

\* getScheduledPodsCount: pods podLister shows on a node and that are not recorded there.
Scheduled == Cardinality({q \in listed : ~(q \in DOMAIN infos /\ infos[q] = node[q])})

CalculateAssignedPods(p) == SnapshotReserved(p) + Scheduled

\* The waiting pods of the TaskResource, allowed or rejected all at once.
Resolve(step, next) == [q \in Pods |-> IF step[q] = "waiting" THEN next ELSE step[q]]

\* PostFilter, when no node is found or PreFilter failed.
PostFilter(p, assigned) ==
  at' = IF assigned >= MinReservedPods THEN [at EXCEPT ![p] = "pending"]
        ELSE Resolve([at EXCEPT ![p] = "pending"], "unreserve")

\* Snapshot, PreFilter, Filter: the pod is assumed on a node, or PostFilter runs.
\* Other workloads may have taken the room, so Filter may always fail.
PreFilter == seen # "Failed" /\ Cardinality(Listed) >= MinReservedPods

Filter(p) ==
  /\ at[p] = "pending" /\ Idle
  /\ snapshot' = node
  /\ Goto(p, "filter")
  /\ UNCHANGED <<tr, read, node, infos, listed, loaded, patches, failing>>

Assume(p, n) ==
  /\ at[p] = "filter" /\ PreFilter
  /\ Cardinality({q \in DOMAIN node : node[q] = n}) < Capacity
  /\ node' = [q \in DOMAIN node \cup {p} |-> IF q = p THEN n ELSE node[q]]
  /\ Goto(p, "load")
  /\ UNCHANGED <<tr, read, infos, listed, scheduling, patches, failing>>

NotScheduled(p) ==
  /\ at[p] = "filter"
  /\ PostFilter(p, CalculateAssignedPods(p))
  /\ snapshot' = <<>>
  /\ UNCHANGED <<tr, read, node, infos, listed, loaded, patches, failing>>

\* Reserve loads the recorded pods and stores the new list in two steps.
ReserveLoad(p) ==
  /\ at[p] = "load"
  /\ loaded' = infos
  /\ Goto(p, "store")
  /\ UNCHANGED <<tr, read, node, infos, listed, snapshot, patches, failing>>

ReserveStore(p) ==
  /\ at[p] = "store"
  /\ infos' = [q \in DOMAIN loaded \cup {p} |-> IF q = p THEN node[p] ELSE loaded[q]]
  /\ loaded' = <<>>
  /\ Goto(p, "permit")
  /\ UNCHANGED <<tr, read, node, listed, snapshot, patches, failing>>

\* Mutant: the pods that exist are counted, not the assigned ones.
PermitCountsSiblings(p) ==
  /\ at[p] = "permit"
  /\ at' = IF Cardinality(Listed) >= MinReservedPods
           THEN Resolve([at EXCEPT ![p] = "prebind"], "prebind")
           ELSE [at EXCEPT ![p] = "waiting"]
  /\ snapshot' = <<>>
  /\ UNCHANGED <<tr, read, node, infos, listed, loaded, patches, failing>>

Permit(p) ==
  /\ at[p] = "permit"
  /\ at' = IF CalculateAssignedPods(p) + 1 >= MinReservedPods
           THEN Resolve([at EXCEPT ![p] = "prebind"], "prebind")
           ELSE [at EXCEPT ![p] = "waiting"]
  /\ snapshot' = <<>>
  /\ UNCHANGED <<tr, read, node, infos, listed, loaded, patches, failing>>

(***************************************************************************)
(* The binding cycle.                                                      *)
(***************************************************************************)
PermitTimeout(p) ==
  /\ at[p] = "waiting"
  /\ Goto(p, "unreserve")
  /\ UNCHANGED <<tr, read, node, infos, listed, scheduling, patches, failing>>

\* getPatchTaskResourceInfos: LoadOrStore.
FreeInfo == CHOOSE i \in Info : i # patch /\ \A p \in Pods : held[p] # i

GetInfo(p) ==
  LET i == IF patch = NoInfo THEN FreeInfo ELSE patch
  IN /\ patch' = i
     /\ held' = [held EXCEPT ![p] = i]
     /\ owner' = IF patch = NoInfo THEN [owner EXCEPT ![i] = None] ELSE owner
     /\ failed' = IF patch = NoInfo THEN failed \ {i} ELSE failed

\* patchInfo.mu is held from the lock to the end of the poll.
Locked(i) == \E p \in Pods : at[p] = "patch" /\ held[p] = i

PreBind(p) ==
  /\ at[p] = "prebind"
  /\ read' = [read EXCEPT ![p] = seen]
  /\ GetInfo(p)
  /\ Goto(p, "lock")
  /\ UNCHANGED <<tr, node, infos, listed, scheduling, failing>>

\* Mutant: every pod patches.
PreBindLockIgnoresOwner(p) ==
  /\ at[p] = "lock"
  /\ Goto(p, "patch")
  /\ owner' = [owner EXCEPT ![held[p]] = p]
  /\ UNCHANGED <<tr, read, node, infos, listed, scheduling, patch, held, failed, failing>>

\* The first pod patches for all; the others take over the error of its patch.
PreBindLock(p) ==
  LET i == held[p]
  IN /\ at[p] = "lock" /\ ~Locked(i)
     /\ IF owner[i] \in {None, p}
        THEN /\ owner' = [owner EXCEPT ![i] = p]
             /\ Goto(p, "patch")
             /\ UNCHANGED held
        ELSE /\ Goto(p, IF i \in failed THEN "unreserve" ELSE "check")
             /\ held' = [held EXCEPT ![p] = NoInfo]
             /\ UNCHANGED owner
     /\ read' = IF owner[i] \in {None, p} THEN read ELSE [read EXCEPT ![p] = None]
     /\ UNCHANGED <<tr, node, infos, listed, scheduling, patch, failed, failing>>

\* The end of patchTaskResourceWithPollImmediate; the owner goes on whatever err is.
EndPatch(p, ok) ==
  LET i == held[p]
  IN /\ failed' = IF ok THEN failed \ {i} ELSE failed \cup {i}
     /\ patch' = i
     /\ held' = [held EXCEPT ![p] = NoInfo]
     /\ read' = [read EXCEPT ![p] = None]
     /\ Goto(p, "check")
     /\ UNCHANGED <<node, infos, listed, scheduling, owner, failing>>

PatchReserved(p) ==
  /\ at[p] = "patch" /\ read[p] = "Reserving"
  /\ Write("Reserved")
  /\ EndPatch(p, TRUE)
  /\ UNCHANGED granted

SkipPatch(p) ==
  /\ at[p] = "patch"
  /\ \/ read[p] \in {"Reserved", "Schedulable"} /\ EndPatch(p, TRUE)
     \/ read[p] = "Failed" /\ EndPatch(p, FALSE)
     \/ read[p] = "Reserving" /\ PatchMayTimeOut /\ EndPatch(p, FALSE)
  /\ UNCHANGED tr

\* Mutant: a pod does not wait for the group.
SchedulableOnceReserved(p) ==
  /\ at[p] = "check" /\ seen \in {"Reserved", "Schedulable"}
  /\ Goto(p, "bind")
  /\ UNCHANGED <<tr, read, node, infos, listed, scheduling, patches, failing>>

\* isSchedulable.
Schedulable(p) ==
  /\ at[p] = "check" /\ seen = "Schedulable"
  /\ Goto(p, "bind")
  /\ UNCHANGED <<tr, read, node, infos, listed, scheduling, patches, failing>>

NotSchedulable(p) ==
  /\ at[p] = "check" /\ seen # "Schedulable"
  /\ Goto(p, "unreserve")
  /\ UNCHANGED <<tr, read, node, infos, listed, scheduling, patches, failing>>

Bind(p) ==
  /\ at[p] = "bind"
  /\ Goto(p, "postbind") \/ Goto(p, "unreserve")
  /\ UNCHANGED <<tr, read, node, infos, listed, scheduling, patches, failing>>

DeletePermittedTaskResource == infos' = <<>> /\ patch' = NoInfo

PostBind(p) ==
  /\ at[p] = "postbind"
  /\ DeletePermittedTaskResource
  /\ Goto(p, "bound")
  /\ UNCHANGED <<tr, read, node, listed, scheduling, owner, failed, held, failing>>

\* Unreserve rejects the pods that wait on Permit, then wants to patch the phase.
Unreserve(p) ==
  /\ at[p] = "unreserve"
  /\ read' = [read EXCEPT ![p] = seen]
  /\ GetInfo(p)
  /\ at' = Resolve([at EXCEPT ![p] = "unlock"], "unreserve")
  /\ UNCHANGED <<tr, node, infos, listed, scheduling, failing>>

\* Only the pod that owns the patch starts the goroutine that patches Failed.
UnreserveLock(p) ==
  LET i == held[p]
      mine == owner[i] \in {None, p}
  IN /\ at[p] = "unlock" /\ ~Locked(i)
     /\ owner' = IF mine THEN [owner EXCEPT ![i] = p] ELSE owner
     /\ failing' = IF mine /\ read[p] # "Failed" THEN failing + 1 ELSE failing
     /\ failing' <= MaxFailing
     /\ held' = [held EXCEPT ![p] = NoInfo]
     /\ read' = [read EXCEPT ![p] = None]
     /\ Goto(p, "delete")
     /\ UNCHANGED <<tr, node, infos, listed, scheduling, patch, failed>>

UnreserveDelete(p) ==
  /\ at[p] = "delete"
  /\ DeletePermittedTaskResource
  /\ Goto(p, "forget")
  /\ UNCHANGED <<tr, read, node, listed, scheduling, owner, failed, held, failing>>

\* The framework forgets the assumed pod and puts it back into the queue.
Forget(p) ==
  /\ at[p] = "forget"
  /\ node' = [q \in DOMAIN node \ {p} |-> node[q]]
  /\ Goto(p, "pending")
  /\ UNCHANGED <<tr, read, infos, listed, scheduling, patches, failing>>

\* A goroutine of Unreserve patches the phase, or gives up after patchTimeout.
PatchFailed ==
  /\ failing > 0
  /\ failing' = failing - 1
  /\ Write("Failed") \/ (PatchMayTimeOut /\ UNCHANGED <<seen, ahead, reserved>>)
  /\ UNCHANGED <<granted, at, read, node, infos, listed, scheduling, patches>>

(***************************************************************************)
(* Listers, and the group controller (TaskResourceGroup.tla): it retries   *)
(* or fails a round, and grants one that this party has reserved.          *)
(***************************************************************************)
DeliverTaskResource ==
  /\ ahead # <<>>
  /\ seen' = Head(ahead) /\ ahead' = Tail(ahead)
  /\ UNCHANGED <<granted, reserved, at, read, node, infos, listed, scheduling, patches, failing>>

DeliverPod(p) ==
  /\ at[p] \in {"postbind", "bound"} /\ p \notin listed
  /\ listed' = listed \cup {p}
  /\ UNCHANGED <<tr, at, read, node, infos, scheduling, patches, failing>>

Group ==
  /\ \/ Phase \in {"Failed", "Reserved"} /\ ~granted /\ Write("Reserving") /\ UNCHANGED granted
     \/ Phase # "Failed" /\ Write("Failed") /\ UNCHANGED granted
     \/ reserved /\ ~granted /\ Write("Schedulable") /\ granted' = TRUE
  /\ UNCHANGED <<at, read, node, infos, listed, scheduling, patches, failing>>

PluginInit ==
  /\ seen = "Reserving" /\ ahead = <<>> /\ granted = FALSE /\ reserved = FALSE
  /\ at = [p \in Pods |-> "absent"] /\ read = [p \in Pods |-> None]
  /\ node = <<>> /\ snapshot = <<>> /\ infos = <<>> /\ loaded = <<>> /\ listed = {}
  /\ patch = NoInfo /\ owner = [i \in Info |-> None] /\ failed = {}
  /\ held = [p \in Pods |-> NoInfo] /\ failing = 0

SchedulingCycle(p) ==
  \/ AddPod(p) \/ Filter(p) \/ NotScheduled(p) \/ \E n \in Nodes : Assume(p, n)
  \/ ReserveLoad(p) \/ ReserveStore(p) \/ Permit(p)

BindingCycle(p) ==
  \/ PermitTimeout(p) \/ PreBind(p) \/ PreBindLock(p) \/ PatchReserved(p) \/ SkipPatch(p)
  \/ Schedulable(p) \/ NotSchedulable(p) \/ Bind(p) \/ PostBind(p)
  \/ Unreserve(p) \/ UnreserveLock(p) \/ UnreserveDelete(p) \/ Forget(p)

PluginNext ==
  \/ \E p \in Pods : SchedulingCycle(p) \/ BindingCycle(p) \/ DeliverPod(p)
  \/ PatchFailed \/ DeliverTaskResource \/ Group

PluginSpec == PluginInit /\ [][PluginNext]_pluginVars

(***************************************************************************)
(* Properties.                                                             *)
(***************************************************************************)
Steps == Cycle \cup {"absent", "pending", "waiting", "prebind", "lock", "patch", "check", "bind",
                     "postbind", "bound", "unreserve", "unlock", "delete", "forget"}

\* A pod passes Permit only when, itself included, as many pods as minReservedPods
\* held a node in the snapshot or were bound.
PermitNeedsMinReserved ==
  [][\A p \in Pods : (at[p] = "permit" /\ at'[p] = "prebind") =>
       Cardinality(DOMAIN snapshot \cup listed \cup {p}) >= MinReservedPods]_pluginVars

\* No pod is bound before the group controller granted the round.
BoundOnlyGranted == \A p \in Pods : at[p] \in {"bind", "postbind", "bound"} => granted

\* Two pods that share a patchTaskResourceInfo never patch the phase at the same time:
\* the first to lock it patches for all, and an entry that Unreserve and PostBind delete
\* and that is made anew never takes the place of one a pod still patches through.
OnePatcher ==
  \A p, q \in Pods :
    (at[p] = "patch" /\ at[q] = "patch" /\ held[p] = held[q]) => p = q
=============================================================================
