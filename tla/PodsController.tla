--------------------------- MODULE PodsController ---------------------------
(***************************************************************************)
(* The agent of one node: the pod workers together with the configuration  *)
(* sources that feed them (pkg/agent/source), the handlers, sync functions *)
(* and housekeeping of the pods controller (pods_controller.go, pod.go)    *)
(* and the status manager that reports to the API server and removes pods  *)
(* from it (pkg/agent/status).                                             *)
(*                                                                         *)
(* A pod of the API server reaches the agent as a sequence of versions;    *)
(* static pods are files, read as a whole.  The agent may restart, which   *)
(* loses everything but the containers.                                    *)
(***************************************************************************)
EXTENDS PodWorkers

CONSTANTS
  Hosted,       \* the sets of pods this node's sources may hold
  WatchLag,     \* bound on the undelivered versions of a pod
  MaxWrites,    \* bound on the changes to the files of static pods
  MaxRestarts,  \* bound on the agent's restarts
  MaxErrors,    \* bound on the errors of the container runtime
  MaxRemovals   \* bound on the pods removed from the API server by others

ASSUME BoundsAssumption ==
  /\ Hosted \subseteq SUBSET Pods
  /\ WatchLag \in Nat \ {0}
  /\ {MaxWrites, MaxRestarts, MaxErrors, MaxRemovals} \subseteq Nat

VARIABLES
  hosted,    \* the pods of this node's sources that are still to appear
  api,       \* api[u]: the pod in the API server
  watch,     \* watch[u]: its versions not yet merged by the pod storage
  file,      \* the static pods whose file exists (at most one)
  cfg,       \* cfg[u]: the pod in the pod manager and the pod storage
  cache,     \* cache[u]: the status manager's status of the pod
  event,     \* the pods whose containers changed since the last provider event
  writes, restarts, errors, removals

sourceVars == <<hosted, api, watch, file>>
bounds == <<writes, restarts, errors, removals>>
vars == <<wk, started, waiting, synced, run, hosted, api, watch, file, cfg,
          cache, event, writes, restarts, errors, removals>>

\* A version of a pod; bad: an image the addition hook rejects.
Version == [ex : BOOLEAN, del : BOOLEAN, ph : Phases, bad : BOOLEAN]
Absent == [ex |-> FALSE, del |-> FALSE, ph |-> "Pending", bad |-> FALSE]
Present == [Absent EXCEPT !.ex = TRUE]

\* up: the status has a running container; dirty: not yet sent.
Status == [ex : BOOLEAN, ph : Phases, up : BOOLEAN, dirty : BOOLEAN]
NoStatus == [ex |-> FALSE, ph |-> "Pending", up |-> FALSE, dirty |-> FALSE]

Init ==
  /\ WorkersInit
  /\ run = [u \in Pods |-> "none"]
  /\ hosted \in Hosted
  /\ api = [u \in Pods |-> Absent]
  /\ watch = [u \in Pods |-> <<>>]
  /\ file = {}
  /\ cfg = [u \in Pods |-> Absent]
  /\ cache = [u \in Pods |-> NoStatus]
  /\ event = {}
  /\ writes = 0 /\ restarts = 0 /\ errors = 0 /\ removals = 0

-----------------------------------------------------------------------------
(* The status manager. *)

\* SetPodStatus, updateStatusInternal: a status that changed, or that of a pod
\* being deleted, is to be sent.  (That of a static pod goes to its mirror pod,
\* which is not modelled.)
SetPodStatus(u, ph, up, del) ==
  LET old == cache[u]
      same == old.ex /\ old.ph = ph /\ old.up = up IN
  cache' = [cache EXCEPT ![u] =
    [ex |-> TRUE, ph |-> ph, up |-> up,
     dirty |-> u \in ApiPods /\ (old.dirty \/ ~same \/ del)]]

\* Mutant: only the reported status is looked at.
PodResourcesAreReclaimed_status(u) == ~cache[u].up

\* A pod whose worker is not done, or whose reported status still has a
\* running container, stays in the API server.
PodResourcesAreReclaimed(u) ==
  ~CouldHaveRunningContainers(u) /\ ~cache[u].up

\* A terminal phase is held back while containers could be running.
mergePodStatus(u) ==
  IF /\ ~Terminal(api[u].ph)
     /\ Terminal(cache[u].ph)
     /\ CouldHaveRunningContainers(u)
  THEN api[u].ph ELSE cache[u].ph

\* The pod, as the pod manager has it, can be deleted.
canBeDeleted(u) == cfg[u].ex /\ cfg[u].del /\ PodResourcesAreReclaimed(u)

needsReconcile(u) == cfg[u].ex /\ cfg[u].ph # cache[u].ph

\* syncPod of the status manager, from its channel or from syncBatch.
syncStatus(u) ==
  LET sent == [api[u] EXCEPT !.ph = mergePodStatus(u)]
      gone == api[u].del /\ PodResourcesAreReclaimed(u)
      new == IF gone THEN Absent ELSE sent IN
  /\ u \in ApiPods
  /\ cache[u].ex
  /\ ~cache[u].dirty => canBeDeleted(u) \/ needsReconcile(u)
  /\ api[u].ex
  /\ Len(watch[u]) < WatchLag
  /\ api' = [api EXCEPT ![u] = new]
  /\ watch' = IF new = api[u] THEN watch
              ELSE [watch EXCEPT ![u] = Append(@, new)]
  /\ cache' = [cache EXCEPT ![u] = IF gone THEN NoStatus
                                   ELSE [@ EXCEPT !.dirty = FALSE]]
  /\ UNCHANGED <<workerVars, run, hosted, file, cfg, event, bounds>>

-----------------------------------------------------------------------------
(* The sync functions, run by a pod's managePodLoop. *)

\* The phase of a pod with one container.
getPhase(u) ==
  IF run[u] = "none" THEN "Pending"
  ELSE IF run[u] = "up" \/ u \in AlwaysRestart THEN "Running"
  ELSE IF run[u] = "ok" THEN "Succeeded" ELSE "Failed"

\* Mutant: the phase follows the containers.
generateAPIPodStatus_containers(u, ph) == getPhase(u)

\* The phase that is reported: a pod does not leave a terminal phase.
generateAPIPodStatus(u, ph) ==
  LET old == IF cache[u].ex THEN cache[u].ph ELSE ph IN
  IF Terminal(ph) THEN ph
  ELSE IF Terminal(getPhase(u)) THEN getPhase(u)
  ELSE IF Terminal(old) THEN old ELSE getPhase(u)

\* managePodLoop takes a work, and the sync function it calls for a pod with a
\* configuration generates and sets the pod's status.
managePodLoop(u) ==
  LET work == wk[u].chan
      ph == generateAPIPodStatus(u, work.ph) IN
  /\ allowPodStart(u)
  /\ wk' = [wk EXCEPT ![u] =
       [Takes(@) EXCEPT !.isTerminal = work.type = "sync" /\ Terminal(ph)]]
  /\ IF work.runtime THEN UNCHANGED cache
     ELSE SetPodStatus(u, ph, run[u] = "up", work.del)
  /\ UNCHANGED <<run, sourceVars, cfg, event, bounds>>

\* The containers of u become c; the provider notices any change.
SetRun(u, c) ==
  /\ run' = [run EXCEPT ![u] = c]
  /\ event' = IF run[u] = c THEN event ELSE event \cup {u}

\* What provider.SyncPod makes of the containers.
Synced(u) ==
  IF run[u] = "none" \/ (run[u] \in {"ok", "bad"} /\ u \in AlwaysRestart)
  THEN "up" ELSE run[u]

\* What provider.KillPod makes of them.
Killed(u) == IF run[u] = "up" THEN {"ok", "bad"} ELSE {run[u]}

Running(u, type) == wk[u].pc = "run" /\ wk[u].cur.type = type

syncPodTerminal(u) ==
  /\ Running(u, "sync")
  /\ wk[u].isTerminal
  /\ wk' = [wk EXCEPT ![u] = completeSync(@)]
  /\ UNCHANGED <<started, waiting, synced, run, sourceVars, cfg, cache, event,
                 bounds>>

syncPod(u) ==
  /\ Running(u, "sync")
  /\ ~wk[u].isTerminal
  /\ wk' = [wk EXCEPT ![u] = Returned(@)]
  /\ SetRun(u, Synced(u))
  /\ UNCHANGED <<started, waiting, synced, sourceVars, cfg, cache, bounds>>

\* The sync is cancelled before the container was started.
syncPodCanceled(u) ==
  /\ Running(u, "sync")
  /\ ~wk[u].isTerminal
  /\ wk[u].cancelled
  /\ wk' = [wk EXCEPT ![u] = Returned(@)]
  /\ UNCHANGED <<started, waiting, synced, run, sourceVars, cfg, cache, event,
                 bounds>>

\* Mutant: the error of KillPod is logged and not returned.
syncTerminatingPod_ignoresError(u) ==
  /\ Running(u, "terminating")
  /\ \E c \in Killed(u) \cup {run[u]} : SetRun(u, c)
  /\ IF wk[u].cur.runtime
     THEN completeTerminated(u)
     ELSE /\ wk' = [wk EXCEPT ![u] = completeTerminating(@)]
          /\ UNCHANGED <<started, waiting, synced>>
  /\ UNCHANGED <<sourceVars, cfg, cache, bounds>>

\* Every container is stopped; a pod without configuration needs no more.
syncTerminatingPod(u) ==
  /\ Running(u, "terminating")
  /\ \E c \in Killed(u) : SetRun(u, c)
  /\ IF wk[u].cur.runtime
     THEN completeTerminated(u)
     ELSE /\ wk' = [wk EXCEPT ![u] = completeTerminating(@)]
          /\ UNCHANGED <<started, waiting, synced>>
  /\ UNCHANGED <<sourceVars, cfg, cache, bounds>>

\* The containers are removed and the final status is set.
syncTerminatedPod(u) ==
  /\ Running(u, "terminated")
  /\ SetRun(u, "none")
  /\ SetPodStatus(u, IF cache[u].ex THEN cache[u].ph ELSE wk[u].cur.ph, FALSE, TRUE)
  /\ completeTerminated(u)
  /\ UNCHANGED <<sourceVars, cfg, bounds>>

\* The runtime fails: the work ends with an error, having stopped or started
\* the container or not.  An error of DeletePod is only logged.
RuntimeError(u) ==
  /\ errors < MaxErrors
  /\ errors' = errors + 1
  /\ wk[u].pc = "run"
  /\ ~wk[u].isTerminal
  /\ wk[u].cur.type # "terminated"
  /\ \E c \in {run[u]} \cup (IF wk[u].cur.type = "sync" THEN {Synced(u)}
                             ELSE Killed(u)) : SetRun(u, c)
  /\ wk' = [wk EXCEPT ![u] = Returned(@)]
  /\ UNCHANGED <<started, waiting, synced, sourceVars, cfg, cache, writes,
                 restarts, removals>>

Completes(u) ==
  /\ completeWork(u)
  /\ UNCHANGED <<run, sourceVars, cfg, cache, event, bounds>>

Unstarted(u) ==
  /\ completeUnstartedTerminated(u) \/ CannotStartYet(u)
  /\ UNCHANGED <<run, sourceVars, cfg, cache, event, bounds>>

-----------------------------------------------------------------------------
(* The handlers of the sync loop, and the provider's events. *)

Opt(kind, v) == [kind |-> kind, runtime |-> FALSE, del |-> v.del, ph |-> v.ph]

\* A version of the pod enters the pod manager.  Unless its worker is already
\* asked to terminate, a pod the hook rejects only gets the status Failed.
HandlePodAdditions(u, v) ==
  /\ cfg' = [cfg EXCEPT ![u] = v]
  /\ IF v.bad /\ ~wk[u].terminating
     THEN SetPodStatus(u, "Failed", FALSE, v.del) /\ UNCHANGED workerVars
     ELSE CallUpdatePod(u, Opt("create", v)) /\ UNCHANGED cache

\* UPDATE, and DELETE, which is a graceful deletion.
HandlePodUpdates(u, v) ==
  /\ cfg' = [cfg EXCEPT ![u] = v]
  /\ CallUpdatePod(u, Opt("update", v))
  /\ UNCHANGED cache

HandlePodReconcile(u, v) ==
  /\ cfg' = [cfg EXCEPT ![u] = v]
  /\ UNCHANGED <<workerVars, cache>>

\* The pod left its source.
HandlePodRemoves(u) ==
  /\ cfg' = [cfg EXCEPT ![u] = Absent]
  /\ CallUpdatePod(u, Opt("kill", cfg[u]))
  /\ UNCHANGED cache

\* Merge: what the next version of an API pod is to the pod storage.
Merge(u) ==
  LET v == Head(watch[u]) IN
  /\ watch[u] # <<>>
  /\ watch' = [watch EXCEPT ![u] = Tail(@)]
  /\ \/ v.ex /\ ~cfg[u].ex /\ HandlePodAdditions(u, v)
     \/ ~v.ex /\ cfg[u].ex /\ HandlePodRemoves(u)
     \/ v.ex /\ cfg[u].ex /\ v.del # cfg[u].del /\ HandlePodUpdates(u, v)
     \/ /\ v.ex = cfg[u].ex
        /\ v.del = cfg[u].del
        /\ HandlePodReconcile(u, v)
  /\ UNCHANGED <<run, hosted, api, file, event, bounds>>

\* Merge of the files' pods, sent as a whole: the pods that are gone are
\* removed before the new ones are added.
MergeFiles ==
  LET gone == {u \in StaticPods : cfg[u].ex /\ u \notin file} IN
  /\ IF gone # {}
     THEN \E u \in gone : HandlePodRemoves(u)
     ELSE \E u \in file : ~cfg[u].ex /\ HandlePodAdditions(u, Present)
  /\ UNCHANGED <<run, sourceVars, event, bounds>>

\* A provider event: the pod's containers changed.
HandlePodSyncByUID(u) ==
  /\ u \in event
  /\ event' = event \ {u}
  /\ IF cfg[u].ex THEN CallUpdatePod(u, Opt("sync", cfg[u]))
     ELSE UNCHANGED workerVars
  /\ UNCHANGED <<run, sourceVars, cfg, cache, bounds>>

-----------------------------------------------------------------------------
\* A pod is restartable: its worker has terminated and is to start again.
Restartable(u) == /\ cfg[u].ex
                  /\ wk[u].terminated /\ wk[u].restart
                  /\ ~Terminal(cfg[u].ph)
                  /\ ~(cache[u].ex /\ Terminal(cache[u].ph))

\* Housekeeping: SyncKnownPods forgets finished workers; a running pod without
\* a worker and without configuration is killed; the statuses of pods without
\* configuration are dropped; restartable pods are created again.
HandlePodCleanups ==
  LET known == [u \in Pods |-> IF Forgotten(wk[u], cfg[u].ex)
                               THEN Unknown ELSE wk[u]]
      inCharge(u) == wk[u].known /\ ~wk[u].terminated
      orphan(u) == run[u] = "up" /\ ~cfg[u].ex /\ ~inCharge(u)
      kill == [kind |-> "kill", runtime |-> TRUE, del |-> FALSE, ph |-> "Pending"]
      create(u) == Opt("create", cfg[u]) IN
  /\ synced' = TRUE
  /\ wk' = [u \in Pods |->
              IF orphan(u) THEN UpdatePod(u, known[u], kill)
              ELSE IF Restartable(u) THEN UpdatePod(u, known[u], create(u))
              ELSE known[u]]
  /\ waiting' = LET joins == {u \in Pods : Restartable(u)
                                 /\ JoinsQueue(u, known[u], create(u))} IN
                IF joins = {} THEN waiting
                ELSE Append(waiting, CHOOSE u \in joins : TRUE)
  /\ started' = {u \in started : known[u].known}
  /\ cache' = [u \in Pods |-> IF cfg[u].ex THEN cache[u] ELSE NoStatus]
  /\ UNCHANGED <<run, sourceVars, cfg, event, bounds>>

-----------------------------------------------------------------------------
(* The rest of the world. *)

SetApi(u, v) ==
  /\ Len(watch[u]) < WatchLag
  /\ api' = [api EXCEPT ![u] = v]
  /\ watch' = [watch EXCEPT ![u] = Append(@, v)]
  /\ UNCHANGED <<workerVars, run, file, cfg, cache, event, writes, restarts,
                 errors>>

\* A pod is bound to the node once; its UID is never used again.
CreatePod(u) ==
  /\ u \in ApiPods \cap hosted
  /\ hosted' = hosted \ {u}
  /\ \E bad \in BOOLEAN : SetApi(u, [Present EXCEPT !.bad = bad])
  /\ UNCHANGED removals

DeletePod(u) ==
  /\ api[u].ex /\ ~api[u].del
  /\ SetApi(u, [api[u] EXCEPT !.del = TRUE])
  /\ UNCHANGED <<hosted, removals>>

\* Someone else removes the pod without waiting for the agent.
RemovePod(u) ==
  /\ api[u].ex
  /\ removals < MaxRemovals
  /\ removals' = removals + 1
  /\ SetApi(u, Absent)
  /\ UNCHANGED hosted

WriteFiles ==
  /\ writes < MaxWrites
  /\ writes' = writes + 1
  /\ \E f \in {{}} \cup {{u} : u \in StaticPods \cap hosted} :
       f # file /\ file' = f
  /\ UNCHANGED <<workerVars, run, hosted, api, watch, cfg, cache, event,
                 restarts, errors, removals>>

\* The containers end by themselves; those that are then started again are
\* taken to run on.
Exit(u) ==
  /\ run[u] = "up" /\ u \notin AlwaysRestart
  /\ \E c \in {"ok", "bad"} : SetRun(u, c)
  /\ UNCHANGED <<workerVars, sourceVars, cfg, cache, bounds>>

\* The agent restarts; its sources are read anew.
Restart ==
  /\ restarts < MaxRestarts
  /\ restarts' = restarts + 1
  /\ wk' = [u \in Pods |-> Unknown]
  /\ started' = {} /\ waiting' = <<>> /\ synced' = FALSE
  /\ cfg' = [u \in Pods |-> Absent]
  /\ cache' = [u \in Pods |-> NoStatus]
  /\ watch' = [u \in Pods |-> IF api[u].ex THEN <<api[u]>> ELSE <<>>]
  /\ event' = {u \in Pods : run[u] # "none"}
  /\ UNCHANGED <<run, hosted, api, file, writes, errors, removals>>

-----------------------------------------------------------------------------
WorkerStep(u) ==
  \/ managePodLoop(u)
  \/ Unstarted(u)
  \/ syncPodTerminal(u)
  \/ syncPod(u)
  \/ syncPodCanceled(u)
  \/ syncTerminatingPod(u)
  \/ syncTerminatedPod(u)
  \/ Completes(u)

Next ==
  \/ \E u \in Pods : \/ WorkerStep(u)
                      \/ RuntimeError(u)
                      \/ syncStatus(u)
                      \/ Merge(u)
                      \/ HandlePodSyncByUID(u)
                      \/ CreatePod(u)
                      \/ DeletePod(u)
                      \/ RemovePod(u)
                      \/ Exit(u)
  \/ MergeFiles
  \/ HandlePodCleanups
  \/ WriteFiles
  \/ Restart

Spec == Init /\ [][Next]_vars

\* Goroutines that can run do, the informer and the file reader deliver, the
\* status manager's and the housekeeping's timers fire, and the provider
\* notices changed containers.  Nothing is assumed of the other actions.
Fairness ==
  /\ \A u \in Pods : /\ WF_vars(WorkerStep(u))
                      /\ WF_vars(syncStatus(u))
                      /\ WF_vars(Merge(u))
                      /\ WF_vars(HandlePodSyncByUID(u))
  /\ WF_vars(MergeFiles)
  /\ WF_vars(HandlePodCleanups)

FairSpec == Spec /\ Fairness

-----------------------------------------------------------------------------
\* The variables have their types (waiting, a sequence of static pods, apart).
TypeOK ==
  /\ wk \in [Pods -> Worker]
  /\ started \subseteq StaticPods
  /\ synced \in BOOLEAN
  /\ run \in [Pods -> {"none", "up", "ok", "bad"}]
  /\ hosted \subseteq Pods /\ file \subseteq StaticPods
  /\ api \in [Pods -> Version] /\ cfg \in [Pods -> Version]
  /\ watch \in [Pods -> Seq(Version)]
  /\ cache \in [Pods -> Status]
  /\ event \subseteq Pods
  /\ writes \in Nat /\ restarts \in Nat /\ errors \in Nat /\ removals \in Nat

\* A send to a worker's channel, which is made holding podLock, finds its one
\* slot empty: "it is guaranteed that in such case the channel is empty, so
\* buffer of size 1 is enough" (UpdatePod).  A full slot would block every
\* pod of the node.
SendNeverBlocks ==
  \A u \in Pods :
    /\ wk[u].chan # NoWork => wk[u].working /\ wk[u].pc = "idle"
    /\ wk[u].pc \in {"run", "complete"} => wk[u].working /\ wk[u].known

\* A pod of which CouldHaveRunningContainers says no has no running container:
\* on this answer the status manager reports a terminal phase and removes the
\* pod.  For the API server's pods it holds across restarts of the agent and
\* orphaned containers; a static pod that the restarted agent has not started
\* is taken to have never run (completeUnstartedTerminated).
StoppedMeansStopped ==
  \A u \in Pods : (u \in ApiPods \/ restarts = 0) /\ ~CouldHaveRunningContainers(u)
                    => run[u] # "up"

\* A pod whose phase in the API server is terminal has no running container
\* (mergePodStatus: "The Kubelet should never transition a pod to terminal
\* status that could have running containers").
TerminalMeansStopped ==
  \A u \in ApiPods : Terminal(api[u].ph) => run[u] # "up"

\* Of two static pods with one full name at most one runs, as long as the
\* agent has not restarted: the started pod's name is only known in memory.
OneStaticPodRuns ==
  restarts = 0 => \A u, v \in StaticPods :
                    run[u] = "up" /\ run[v] = "up" => u = v

\* A terminal phase in the API server is final, whatever the agent sees,
\* forgets or restarts (generateAPIPodStatus: "pods are not allowed to
\* transition out of terminal phases").
PhaseIsFinal ==
  [][\A u \in ApiPods : api[u].ex /\ Terminal(api[u].ph) /\ api'[u].ex
                          => api'[u].ph = api[u].ph]_vars

\* The agent removes a pod from the API server only when it has no running
\* container (PodResourcesAreReclaimed: "We shouldn't delete pods that still
\* have running containers").
RemovedOnceStopped ==
  [][\A u \in ApiPods : api[u].ex /\ ~api'[u].ex /\ removals' = removals
                          => run[u] # "up"]_vars

\* A pod that is deleted, or is no longer in the API server, ends up with no
\* running container and gone from the API server.  The exceptions are a
\* failure of the runtime, which nothing retries, and an agent that restarts
\* when the pod is already over: UpdatePod records such a pod as finished, no
\* status is set, and the status manager deletes only pods it has a status of.
DeletedPodGoes ==
  \A u \in ApiPods :
    api[u].del \/ (run[u] = "up" /\ ~api[u].ex)
      ~> \/ run[u] # "up" /\ ~api[u].ex
         \/ errors > 0
         \/ restarts > 0 /\ Terminal(api[u].ph)

\* A pod that is deleted ends up with no running container even if the runtime
\* fails once: "we will queue a retry" (managePodLoop, on an error of a sync
\* function), "Requeue the last update if the last sync returned error"
\* (completeWork).
FailedWorkIsRetried ==
  \A u \in ApiPods : api[u].del ~> run[u] # "up"
=============================================================================
