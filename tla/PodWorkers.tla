----------------------------- MODULE PodWorkers -----------------------------
(***************************************************************************)
(* The agent's pod workers (pkg/agent/framework/pod_workers.go): one       *)
(* goroutine per pod UID, fed through a channel of one slot, that syncs a  *)
(* pod, terminates it and cleans it up.  Everything UpdatePod and the      *)
(* complete functions do under podLock is one step; between such steps the *)
(* goroutine talks to the container runtime.                               *)
(*                                                                         *)
(* A pod's containers are one: none, up, or exited well (ok) or badly      *)
(* (bad).  The work queue in which completeWork and allowPodStart ask for  *)
(* a later retry has no variable: no code takes anything out of it.  Grace *)
(* periods, evictions and the channels that killPodNow waits on (it has no *)
(* caller) are left out.                                                   *)
(***************************************************************************)
EXTENDS Naturals, Sequences, FiniteSets

CONSTANTS
  ApiPods,       \* UIDs of pods whose source is the API server
  StaticPods,    \* UIDs of static pods; they all have one full name
  AlwaysRestart  \* pods whose restart policy is Always; the others' is Never

Pods == ApiPods \cup StaticPods

ASSUME PodsAssumption ==
  /\ ApiPods \cap StaticPods = {}
  /\ AlwaysRestart \subseteq Pods

VARIABLES
  wk,       \* wk[u]: podSyncStatuses[u], podUpdates[u], lastUndelivered..[u]
            \* and the locals of u's managePodLoop
  started,  \* startedStaticPodsByFullname: the started UIDs (at most one)
  waiting,  \* waitingToStartStaticPodsByFullname
  synced,   \* podsSynced
  run       \* run[u]: u's containers in the runtime

workerVars == <<wk, started, waiting, synced>>

Phases == {"Pending", "Running", "Succeeded", "Failed"}
Terminal(ph) == ph \in {"Succeeded", "Failed"}

(***************************************************************************)
(* An update asked of a pod's worker, and the work UpdatePod makes of it.  *)
(* del and ph are the pod's DeletionTimestamp and phase in the version of  *)
(* the pod it carries; runtime: it has a RunningPod and no configuration.  *)
(***************************************************************************)
Options == [kind : {"create", "update", "sync", "kill"}, runtime : BOOLEAN,
            del : BOOLEAN, ph : Phases]

PodWork == [type : {"none", "sync", "terminating", "terminated"},
            runtime : BOOLEAN, del : BOOLEAN, ph : Phases]

NoWork == [type |-> "none", runtime |-> FALSE, del |-> FALSE, ph |-> "Pending"]

\* pc: the goroutine does not exist, waits for work, runs one of the sync
\* functions on cur, or is about to call completeWork.
Worker == [known : BOOLEAN, working : BOOLEAN, terminating : BOOLEAN,
           terminated : BOOLEAN, finished : BOOLEAN, restart : BOOLEAN,
           pc : {"none", "idle", "run", "complete"}, podStarted : BOOLEAN,
           chan : PodWork, next : PodWork, cur : PodWork,
           cancelled : BOOLEAN, isTerminal : BOOLEAN]

Unknown == [known |-> FALSE, working |-> FALSE, terminating |-> FALSE,
            terminated |-> FALSE, finished |-> FALSE, restart |-> FALSE,
            pc |-> "none", podStarted |-> FALSE,
            chan |-> NoWork, next |-> NoWork, cur |-> NoWork,
            cancelled |-> FALSE, isTerminal |-> FALSE]

WorkersInit ==
  /\ wk = [u \in Pods |-> Unknown]
  /\ started = {}
  /\ waiting = <<>>
  /\ synced = FALSE

CouldHaveRunningContainers(u) ==
  IF wk[u].known THEN ~wk[u].terminated ELSE ~synced

-----------------------------------------------------------------------------
\* A pod seen for the first time; one that is over and has no containers
\* running is recorded as finished.
FirstSeen(u, o) ==
  LET over == ~o.runtime /\ Terminal(o.ph) /\ run[u] # "up" IN
  [Unknown EXCEPT !.known = TRUE, !.terminating = over,
                  !.terminated = over, !.finished = over]

\* Mutant: the work is sent whether or not the worker is working.
Dispatch_always(w, work, becameTerminating) ==
  [w EXCEPT !.pc = IF @ = "none" THEN "idle" ELSE @,
            !.working = TRUE, !.chan = work]

\* Delivers work to worker w: through the channel when the worker has nothing
\* to do, else as the last undelivered work, cancelling the running sync when
\* the pod has just become terminating.
Dispatch(w, work, becameTerminating) ==
  LET v == [w EXCEPT !.pc = IF @ = "none" THEN "idle" ELSE @] IN
  IF ~v.working
  THEN [v EXCEPT !.working = TRUE, !.chan = work]
  ELSE [v EXCEPT !.next = work,
                 !.cancelled = @ \/ (becameTerminating /\ v.pc = "run")]

\* The worker of u once UpdatePod has been called on worker w with options o.
UpdatePod(u, w, o) ==
  LET w0 == IF w.known THEN w ELSE FirstSeen(u, o)
      becameTerminating == /\ ~w0.terminating
                           /\ \/ o.runtime
                              \/ o.del
                              \/ Terminal(o.ph)
                              \/ o.kind = "kill"
      w1 == [w0 EXCEPT !.terminating = @ \/ becameTerminating]
      type == IF w1.terminated THEN "terminated"
              ELSE IF w1.terminating THEN "terminating" ELSE "sync"
      work == [type |-> type, runtime |-> o.runtime, del |-> o.del, ph |-> o.ph]
  IN IF w0.terminating /\ o.kind = "create"
     THEN [w0 EXCEPT !.restart = TRUE]
     ELSE IF w0.finished \/ (w0.terminated /\ o.runtime)
     THEN w0
     ELSE Dispatch(w1, work, becameTerminating)

\* Whether that call started the goroutine of a static pod, which then waits
\* for its full name in the order of the calls.
JoinsQueue(u, w, o) ==
  /\ u \in StaticPods
  /\ ~o.runtime
  /\ w.pc = "none"
  /\ UpdatePod(u, w, o).pc # "none"

\* The step of one caller of UpdatePod.
CallUpdatePod(u, o) ==
  /\ wk' = [wk EXCEPT ![u] = UpdatePod(u, @, o)]
  /\ waiting' = IF JoinsQueue(u, wk[u], o) THEN Append(waiting, u) ELSE waiting
  /\ UNCHANGED <<started, synced>>

-----------------------------------------------------------------------------
\* The pods of the waiting list that may still start.
CanStart(u) == wk[u].known /\ ~wk[u].terminating /\ ~wk[u].terminated

\* The waiting list from its first pod that may still start.
FromFirst(q) ==
  LET able == {i \in DOMAIN q : CanStart(q[i])} IN
  IF able = {} THEN <<>>
  ELSE SubSeq(q, CHOOSE i \in able : \A j \in able : i <= j, Len(q))

\* Mutant: only the order is looked at, not whether another pod is started.
allowStaticPodStart_order(u) ==
  FromFirst(waiting) # <<>> => Head(FromFirst(waiting)) = u

\* No static pod of the name is started, or u is; and u is next in line.
allowStaticPodStart(u) ==
  IF started # {} THEN started = {u}
  ELSE FromFirst(waiting) # <<>> => Head(FromFirst(waiting)) = u

\* The worker leaves the channel's work for the sync functions to run; a sync
\* context that was cancelled is replaced by a new one.
Takes(w) ==
  [w EXCEPT !.pc = "run", !.cur = w.chan, !.chan = NoWork,
            !.podStarted = TRUE, !.cancelled = FALSE, !.isTerminal = FALSE]

\* cleanupPodUpdates and the end of the goroutine; the pod is finished.
Finished(w) ==
  [w EXCEPT !.terminated = TRUE, !.finished = TRUE, !.working = FALSE,
            !.pc = "none", !.podStarted = FALSE, !.chan = NoWork,
            !.next = NoWork, !.cur = NoWork, !.cancelled = FALSE]

Static(u, work) == u \in StaticPods /\ ~work.runtime

\* allowPodStart: the work may be run now.
Allowed(u) ==
  ~wk[u].podStarted /\ Static(u, wk[u].chan)
    => ~wk[u].terminating /\ allowStaticPodStart(u)

\* managePodLoop receives a work whose pod is started or may start now.
allowPodStart(u) ==
  /\ wk[u].chan # NoWork
  /\ Allowed(u)
  /\ IF ~wk[u].podStarted /\ Static(u, wk[u].chan) /\ started = {}
     THEN /\ started' = {u}
          /\ waiting' = IF FromFirst(waiting) = <<>> THEN waiting
                        ELSE Tail(FromFirst(waiting))
     ELSE UNCHANGED <<started, waiting>>
  /\ UNCHANGED synced

\* ... of a static pod that was terminated before it could start.
completeUnstartedTerminated(u) ==
  /\ wk[u].chan # NoWork
  /\ ~wk[u].podStarted
  /\ Static(u, wk[u].chan)
  /\ wk[u].terminating
  /\ wk' = [wk EXCEPT ![u] = Finished(@)]
  /\ started' = started \ {u}
  /\ UNCHANGED <<waiting, synced>>

\* ... of a static pod that has to wait: it is put in the work queue and the
\* worker stops working.
CannotStartYet(u) ==
  /\ wk[u].chan # NoWork
  /\ ~wk[u].podStarted
  /\ Static(u, wk[u].chan)
  /\ ~wk[u].terminating
  /\ ~allowStaticPodStart(u)
  /\ wk' = [wk EXCEPT ![u].chan = NoWork, ![u].working = FALSE]
  /\ waiting' = IF started = {} THEN FromFirst(waiting) ELSE waiting
  /\ UNCHANGED <<started, synced>>

-----------------------------------------------------------------------------
\* syncPod found the pod to be over.
completeSync(w) ==
  [w EXCEPT !.pc = "complete", !.terminating = TRUE, !.cur = NoWork,
            !.isTerminal = FALSE,
            !.next = [w.cur EXCEPT !.type = "terminating"]]

\* syncTerminatingPod stopped the containers.
completeTerminating(w) ==
  [w EXCEPT !.pc = "complete", !.terminated = TRUE, !.cur = NoWork,
            !.next = [w.cur EXCEPT !.type = "terminated"]]

\* A sync function returned, with or without an error, and no transition.
Returned(w) ==
  [w EXCEPT !.pc = "complete", !.cur = NoWork, !.cancelled = FALSE]

\* completeTerminated and completeTerminatingRuntimePod: the worker stops.
completeTerminated(u) ==
  /\ wk' = [wk EXCEPT ![u] = Finished(@)]
  /\ started' = started \ {u}
  /\ UNCHANGED <<waiting, synced>>

\* Mutant: the undelivered work is forgotten.
completeWorkQueueNext_forgets(w) ==
  [w EXCEPT !.pc = "idle", !.next = NoWork, !.working = FALSE]

\* The undelivered work, if any, goes into the channel; without it the worker
\* is no longer working.
completeWorkQueueNext(w) ==
  [w EXCEPT !.pc = "idle", !.chan = w.next, !.next = NoWork,
            !.working = w.next # NoWork]

completeWork(u) ==
  /\ wk[u].pc = "complete"
  /\ wk' = [wk EXCEPT ![u] = completeWorkQueueNext(@)]
  /\ UNCHANGED <<started, waiting, synced>>

-----------------------------------------------------------------------------

\* removeTerminatedWorker, called by SyncKnownPods for a pod that is no longer
\* configured or is to be restarted.
Forgotten(w, configured) ==
  w.known /\ (~configured \/ w.restart) /\ w.finished
=============================================================================
