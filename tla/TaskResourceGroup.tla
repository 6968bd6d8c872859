------------------------- MODULE TaskResourceGroup -------------------------
(***************************************************************************)
(* Co-scheduling of one task: the controller of                            *)
(* pkg/controllers/taskresourcegroup, which drives a TaskResourceGroup and *)
(* the TaskResource of every party, beside the schedulers of the parties,  *)
(* which report in the TaskResources whether a party's pods hold nodes.    *)
(*                                                                         *)
(* Every object is kept as the version the controller's lister shows and   *)
(* the later versions still on their way to it; the API server's version   *)
(* is the last of these.  The controller decides on what the lister shows. *)
(* It writes the group by UpdateStatus, refused when the version it read   *)
(* is no longer the last, or by Patch, never refused.  A Patch carries the *)
(* difference between the lister's copy and the wanted one: the phase is   *)
(* left alone when the lister already shows the wanted phase.              *)
(*                                                                         *)
(* The cluster is the task's initiator and the protocol is Kuscia's own.   *)
(***************************************************************************)
EXTENDS Integers, Sequences, FiniteSets

CONSTANTS Parties,             \* spec.parties and spec.outOfControlledParties
          MinReservedMembers,  \* spec.minReservedMembers
          maxRetries,          \* requeues of a key before the group is failed
          MaxFaults,           \* bound on API errors and restarts
          GroupLag,            \* bound on undelivered versions of the group
          ResourceLag          \* and of each TaskResource

ASSUME PartiesAssumption == IsFiniteSet(Parties)
ASSUME MinAssumption == MinReservedMembers \in Nat \ {0}
ASSUME BoundsAssumption == 
  maxRetries \in Nat /\ MaxFaults \in Nat /\ GroupLag \in Nat /\ ResourceLag \in Nat

VARIABLES trgCache,    \* the group in the lister
          trgEvents,   \* versions of the group the lister has not seen
          trCache,     \* per party, the phase of its TaskResource in the lister
          trEvents,    \* per party, phases the lister has not seen
          queued,      \* the key is in trgQueue
          requeues,    \* trgQueue.NumRequeues(key)
          lifeTimer,   \* the key is in trgLifecycleQueue
          retryTimer,  \* the key is in trgReserveFailedQueue
          expired,     \* the clock is past creation + lifecycleSeconds
          due,         \* the clock is past lastTransition + retryIntervalSeconds
          busy,        \* a worker is inside a handler
          base,        \* the version that worker read
          fresh,       \* that version is still the API server's
          todo,        \* parties whose TaskResource the handler has not reached
          target,      \* the phase it writes into the TaskResources
          next,        \* the status it will write into the group
          toReserved,  \* parties whose scheduler is about to patch Reserved
          toFailed,    \* parties whose scheduler is about to patch Failed
          reservedOnce,\* history: parties whose TaskResource was ever Reserved
          faults       \* API errors and restarts so far

objects == <<trgCache, trgEvents, trCache, trEvents>>
queues == <<queued, requeues, lifeTimer, retryTimer>>
clock == <<expired, due>>
worker == <<busy, base, fresh, todo, target, next>>
schedulers == <<toReserved, toFailed, reservedOnce>>
vars == <<objects, queues, clock, worker, schedulers, faults>>

(***************************************************************************)
(* A version of the group: its phase, whether the parties' resource names  *)
(* are set, the reason of its TaskResourcesReserved condition (the number  *)
(* of parties that had not failed, when it is about that) and whether it   *)
(* has a completion time.  A TaskResource is its phase.                    *)
(***************************************************************************)
Unset == -1
AllReserved == -2
TooFew == -3
Reasons == TooFew..Cardinality(Parties)
GroupPhases == {"Pending", "Creating", "Reserving", "ReserveFailed", "Reserved", "Failed"}
Group == [phase : GroupPhases, named : BOOLEAN, reason : Reasons, done : BOOLEAN]
NewGroup == [phase |-> "Pending", named |-> FALSE, reason |-> Unset, done |-> FALSE]
NoTR == "none"
TRPhases == {NoTR, "Reserving", "Reserved", "Failed", "Schedulable"}

Latest(cached, events) == IF events = <<>> THEN cached ELSE events[Len(events)]
Trg == Latest(trgCache, trgEvents)
Tr(p) == Latest(trCache[p], trEvents[p])

WriteTrg(v) ==
  /\ Len(trgEvents) < GroupLag
  /\ trgEvents' = Append(trgEvents, v)
  /\ UNCHANGED <<trgCache, trCache, trEvents>>

WriteTr(p, phase) ==
  /\ Len(trEvents[p]) < ResourceLag
  /\ trEvents' = [trEvents EXCEPT ![p] = Append(@, phase)]
  /\ UNCHANGED <<trgCache, trgEvents, trCache>>

(***************************************************************************)
(* syncHandler.  A handler either ends in its first step or starts a loop  *)
(* over the TaskResources (Begin) that ends in UpdateStatus.               *)
(***************************************************************************)
Dequeue == queued /\ ~busy /\ queued' = FALSE

needHandleExpiredTrg(t) == expired /\ t.phase \notin {"Reserved", "Failed"}

Handles(phase) ==
  /\ Dequeue
  /\ ~trgCache.done /\ ~needHandleExpiredTrg(trgCache)
  /\ trgCache.phase = phase
  /\ UNCHANGED <<clock, schedulers>>

Forget == requeues' = 0

Enter(parties, phase, status) ==
  /\ busy' = TRUE /\ base' = trgCache /\ fresh' = (trgEvents = <<>>)
  /\ todo' = parties /\ target' = phase /\ next' = status

Begin(parties, phase, status) ==
  /\ Enter(parties, phase, status)
  /\ UNCHANGED <<objects, requeues, lifeTimer, retryTimer, faults>>

\* The worker leaves the handler; what it held is gone.
Finish ==
  /\ busy' = FALSE /\ base' = NewGroup /\ fresh' = FALSE
  /\ todo' = {} /\ target' = NoTR /\ next' = NewGroup

SkipCompleted ==
  /\ Dequeue
  /\ trgCache.done
  /\ Forget
  /\ UNCHANGED <<objects, lifeTimer, retryTimer, clock, worker, schedulers, faults>>

\* The patch carries phase and conditions, whatever the API server holds by now.
HandleExpired ==
  /\ Dequeue
  /\ ~trgCache.done /\ needHandleExpiredTrg(trgCache)
  /\ WriteTrg([Trg EXCEPT !.phase = "Failed", !.reason = trgCache.reason])
  /\ Forget
  /\ UNCHANGED <<lifeTimer, retryTimer, clock, worker, schedulers, faults>>

\* needHandleReserveFailedTrg: too early, the key waits in the delaying queue.
DelayReserveFailed ==
  /\ Handles("ReserveFailed")
  /\ ~due
  /\ retryTimer' = TRUE
  /\ Forget
  /\ UNCHANGED <<objects, lifeTimer, worker, faults>>

validate == MinReservedMembers <= Cardinality(Parties)

\* setTaskResourceName replaces the object, so the status update that follows in
\* the same sync is refused and the phase moves on in the next one.
PendingHandler ==
  /\ Handles("Pending")
  /\ IF validate /\ ~trgCache.named
     THEN /\ WriteTrg([Trg EXCEPT !.named = TRUE])
          /\ Forget
          /\ UNCHANGED <<lifeTimer, retryTimer, worker, faults>>
     ELSE Begin({}, NoTR,
                [trgCache EXCEPT !.phase = IF validate THEN "Creating" ELSE "Failed"])

CreatingHandler ==
  /\ Handles("Creating")
  /\ Begin(Parties, NoTR, [trgCache EXCEPT !.phase = "Reserving"])

Listed(phases) == {p \in Parties : trCache[p] \in phases}

trsCount == Cardinality(Listed(TRPhases \ {NoTR}))
\* Mutant: every TaskResource counts as reserved, whatever its phase.
reservedCountOfAny == Cardinality(Listed(TRPhases \ {NoTR}))

reservedCount == Cardinality(Listed({"Reserved"}))
failedCount == Cardinality(Listed({"Failed"}))

\* summarizeTaskResourcesInfo: the lister does not show enough TaskResources.
TooFewListed ==
  /\ Handles("Reserving")
  /\ ~validate \/ MinReservedMembers > trsCount
  /\ Begin({}, NoTR, [trgCache EXCEPT !.phase = "Failed", !.reason = TooFew])

\* summarizeTaskResourcesInfo: enough parties have reserved.
GroupReserved ==
  /\ Handles("Reserving")
  /\ validate /\ MinReservedMembers <= trsCount
  /\ reservedCount >= MinReservedMembers
  /\ Begin({}, NoTR, [trgCache EXCEPT !.phase = "Reserved", !.reason = AllReserved])

\* summarizeTaskResourcesInfo: too many parties failed.  When the condition already
\* has this reason no update is needed and the group stays as it is.
GroupReserveFailed ==
  LET remaining == Cardinality(Parties) - failedCount
  IN /\ Handles("Reserving")
     /\ validate /\ MinReservedMembers <= trsCount
     /\ reservedCount < MinReservedMembers /\ MinReservedMembers > remaining
     /\ Begin(Parties, "Failed",
              IF trgCache.reason = remaining THEN trgCache
              ELSE [trgCache EXCEPT !.phase = "ReserveFailed", !.reason = remaining])

\* summarizeTaskResourcesInfo: still open.
KeepReserving ==
  /\ Handles("Reserving")
  /\ validate /\ MinReservedMembers <= trsCount
  /\ reservedCount < MinReservedMembers
  /\ MinReservedMembers <= Cardinality(Parties) - failedCount
  /\ Forget
  /\ UNCHANGED <<objects, lifeTimer, retryTimer, worker, faults>>

ReserveFailedHandler ==
  /\ Handles("ReserveFailed")
  /\ due
  /\ Begin(Parties, "Reserving", [trgCache EXCEPT !.phase = "Reserving"])

ReservedHandler ==
  /\ Handles("Reserved")
  /\ Begin(Parties, "Schedulable", [trgCache EXCEPT !.done = TRUE])

\* Mutant: the completion time is not set.
FailedHandlerLeavesOpen ==
  /\ Handles("Failed")
  /\ Begin(Parties, "Failed", trgCache)

FailedHandler ==
  /\ Handles("Failed")
  /\ Begin(Parties, "Failed", [trgCache EXCEPT !.done = TRUE])

(***************************************************************************)
(* The loops over the TaskResources and the status update.                 *)
(***************************************************************************)
\* createTaskResources for one party; AlreadyExists is no error.
CreateTaskResource(p) ==
  /\ busy /\ target = NoTR /\ p \in todo
  /\ todo' = todo \ {p}
  /\ IF Tr(p) = NoTR THEN WriteTr(p, "Reserving") ELSE UNCHANGED objects
  /\ UNCHANGED <<queues, clock, busy, base, fresh, target, next, schedulers, faults>>

\* patchTaskResourceStatus and ReserveFailedHandler for one party.  A patch that
\* leaves the phase alone may still carry new times, whose event requeues the key.
PatchTaskResource(p) ==
  /\ busy /\ target # NoTR /\ p \in todo
  /\ todo' = todo \ {p}
  /\ \/ /\ trCache[p] \notin {NoTR, target}
        /\ WriteTr(p, target)
        /\ UNCHANGED queued
     \/ /\ trCache[p] \in {NoTR, target}
        /\ queued' \in {queued, TRUE}
        /\ UNCHANGED objects
  /\ UNCHANGED <<requeues, lifeTimer, retryTimer, clock, busy, base, fresh, target, next,
                 schedulers, faults>>

\* Mutant: the status is written whether or not the version read is the last one.
UpdateStatusUnconditional ==
  /\ busy /\ todo = {}
  /\ Finish
  /\ Forget
  /\ IF next # base THEN WriteTrg(next) ELSE UNCHANGED objects
  /\ due' = (due /\ next.phase # "ReserveFailed")
  /\ UNCHANGED <<queued, lifeTimer, retryTimer, expired, schedulers, faults>>

\* updateTaskResourceGroupStatus; a conflict ends the sync without an error.
UpdateStatus ==
  /\ busy /\ todo = {}
  /\ Finish
  /\ Forget
  /\ IF fresh /\ next # base THEN WriteTrg(next) ELSE UNCHANGED objects
  /\ due' = (due /\ ~(fresh /\ next.phase = "ReserveFailed"))
  /\ UNCHANGED <<queued, lifeTimer, retryTimer, expired, schedulers, faults>>

Fault == faults < MaxFaults /\ faults' = faults + 1

\* updateTaskResourceGroupStatus after an error that is no conflict: it gets the
\* group again and writes its status over what it finds.
UpdateStatusAgain ==
  /\ busy /\ todo = {} /\ next # base
  /\ Fault
  /\ Finish
  /\ Forget
  /\ WriteTrg([next EXCEPT !.named = Trg.named])
  /\ due' = (due /\ next.phase # "ReserveFailed")
  /\ UNCHANGED <<queued, lifeTimer, retryTimer, expired, schedulers>>

Requeue == requeues < maxRetries /\ requeues' = requeues + 1 /\ queued' = TRUE

\* updateTaskResourceGroupStatus gives up; beyond maxRetries the key is dropped.
UpdateStatusFails ==
  /\ busy /\ todo = {} /\ next # base
  /\ Fault
  /\ Finish
  /\ Requeue \/ (requeues >= maxRetries /\ Forget /\ UNCHANGED queued)
  /\ UNCHANGED <<objects, lifeTimer, retryTimer, clock, schedulers>>

failTaskResourceGroup(t) == [t EXCEPT !.phase = "Failed", !.done = TRUE]

\* A handler's API call fails: the key is tried again, or the group is failed.
HandlerFails ==
  /\ busy /\ todo # {}
  /\ Fault
  /\ \/ Requeue /\ Finish
     \/ /\ requeues >= maxRetries
        /\ todo' = {}
        /\ next' = failTaskResourceGroup(next)
        /\ UNCHANGED <<queued, requeues, busy, base, fresh, target>>
  /\ UNCHANGED <<objects, lifeTimer, retryTimer, clock, schedulers>>

\* The same, before the handler has written anything: a lister, setTaskResourceName
\* or updatePodAnnotations fails.
HandlerFailsAtOnce ==
  /\ trgCache.phase \in {"Pending", "Reserving"}
  /\ ~trgCache.done /\ ~needHandleExpiredTrg(trgCache)
  /\ queued /\ ~busy
  /\ Fault
  /\ \/ Requeue /\ UNCHANGED worker
     \/ /\ requeues >= maxRetries
        /\ queued' = FALSE
        /\ Enter({}, NoTR, failTaskResourceGroup(trgCache))
        /\ UNCHANGED requeues
  /\ UNCHANGED <<objects, lifeTimer, retryTimer, clock, schedulers>>

\* needHandleExpiredTrg when its patch fails: the key is added again.
HandleExpiredFails ==
  /\ queued /\ ~busy
  /\ ~trgCache.done /\ needHandleExpiredTrg(trgCache)
  /\ Fault
  /\ Forget
  /\ UNCHANGED <<objects, queued, lifeTimer, retryTimer, clock, worker, schedulers>>

(***************************************************************************)
(* Informers, delaying queues, restart.                                    *)
(***************************************************************************)
DeliverGroup ==
  /\ trgEvents # <<>>
  /\ trgCache' = Head(trgEvents)
  /\ trgEvents' = Tail(trgEvents)
  /\ queued' = TRUE
  /\ UNCHANGED <<trCache, trEvents, requeues, lifeTimer, retryTimer, clock, worker,
                 schedulers, faults>>

DeliverTaskResource(p) ==
  /\ trEvents[p] # <<>>
  /\ trCache' = [trCache EXCEPT ![p] = Head(trEvents[p])]
  /\ trEvents' = [trEvents EXCEPT ![p] = Tail(@)]
  /\ queued' = TRUE
  /\ UNCHANGED <<trgCache, trgEvents, requeues, lifeTimer, retryTimer, clock, worker,
                 schedulers, faults>>

Expire ==
  /\ ~expired
  /\ expired' = TRUE
  /\ UNCHANGED <<objects, queues, due, worker, schedulers, faults>>

RetryIntervalPasses ==
  /\ ~due /\ Trg.phase = "ReserveFailed"
  /\ due' = TRUE
  /\ UNCHANGED <<objects, queues, expired, worker, schedulers, faults>>

handleExpiredTrg ==
  /\ lifeTimer /\ expired
  /\ lifeTimer' = FALSE
  /\ queued' = TRUE
  /\ UNCHANGED <<objects, requeues, retryTimer, clock, worker, schedulers, faults>>

handleReserveFailedTrg ==
  /\ retryTimer /\ due
  /\ retryTimer' = FALSE
  /\ queued' = TRUE
  /\ UNCHANGED <<objects, requeues, lifeTimer, clock, worker, schedulers, faults>>

\* A new process lists everything again; handleAddedTaskResourceGroup.
Restart ==
  /\ Fault
  /\ trgCache' = Trg /\ trgEvents' = <<>>
  /\ trCache' = [p \in Parties |-> Tr(p)]
  /\ trEvents' = [p \in Parties |-> <<>>]
  /\ queued' = TRUE /\ requeues' = 0 /\ retryTimer' = FALSE
  /\ lifeTimer' = (Trg.phase \notin {"Reserved", "Failed"})
  /\ Finish
  /\ UNCHANGED <<clock, schedulers>>

(***************************************************************************)
(* The task controller (setTaskResourceGroupFailed) and the schedulers     *)
(* (PreBind and Unreserve of the KusciaScheduling plugin).  Both act on a  *)
(* version they read earlier and patch without a precondition.             *)
(***************************************************************************)
TaskFails ==
  /\ \E t \in {trgCache} \cup {trgEvents[i] : i \in DOMAIN trgEvents} :
       t.phase \notin {"Reserved", "Failed"}
  /\ Trg.phase # "Failed"
  /\ WriteTrg([Trg EXCEPT !.phase = "Failed"])
  /\ fresh' = FALSE
  /\ UNCHANGED <<queues, clock, busy, base, todo, target, next, schedulers, faults>>

ReadReserving(p) ==
  /\ Tr(p) = "Reserving" /\ p \notin toReserved
  /\ toReserved' = toReserved \cup {p}
  /\ UNCHANGED <<objects, queues, clock, worker, toFailed, reservedOnce, faults>>

PatchReserved(p) ==
  /\ p \in toReserved
  /\ WriteTr(p, "Reserved")
  /\ toReserved' = toReserved \ {p}
  /\ reservedOnce' = reservedOnce \cup {p}
  /\ UNCHANGED <<queues, clock, worker, toFailed, faults>>

Unreserve(p) ==
  /\ Tr(p) \notin {NoTR, "Failed"} /\ p \notin toFailed
  /\ toFailed' = toFailed \cup {p}
  /\ UNCHANGED <<objects, queues, clock, worker, toReserved, reservedOnce, faults>>

PatchFailed(p) ==
  /\ p \in toFailed
  /\ WriteTr(p, "Failed")
  /\ toFailed' = toFailed \ {p}
  /\ UNCHANGED <<queues, clock, worker, toReserved, reservedOnce, faults>>

Init ==
  /\ trgCache = NewGroup
  /\ trgEvents = <<>>
  /\ trCache = [p \in Parties |-> NoTR]
  /\ trEvents = [p \in Parties |-> <<>>]
  /\ queued = TRUE /\ requeues = 0 /\ lifeTimer = TRUE /\ retryTimer = FALSE
  /\ expired = FALSE /\ due = FALSE
  /\ busy = FALSE /\ base = NewGroup /\ fresh = FALSE
  /\ todo = {} /\ target = NoTR /\ next = NewGroup
  /\ toReserved = {} /\ toFailed = {} /\ reservedOnce = {}
  /\ faults = 0

Sync ==
  \/ SkipCompleted \/ HandleExpired \/ DelayReserveFailed
  \/ PendingHandler \/ CreatingHandler \/ ReserveFailedHandler \/ ReservedHandler
  \/ FailedHandler
  \/ TooFewListed \/ GroupReserved \/ GroupReserveFailed \/ KeepReserving

Work == UpdateStatus \/ \E p \in Parties : CreateTaskResource(p) \/ PatchTaskResource(p)

Faulty ==
  \/ UpdateStatusAgain \/ UpdateStatusFails \/ HandlerFails \/ HandlerFailsAtOnce
  \/ HandleExpiredFails \/ Restart

Deliver == DeliverGroup \/ \E p \in Parties : DeliverTaskResource(p)

Time == Expire \/ RetryIntervalPasses \/ handleExpiredTrg \/ handleReserveFailedTrg

Scheduler(p) == ReadReserving(p) \/ PatchReserved(p) \/ Unreserve(p) \/ PatchFailed(p)

Next ==
  \/ Sync \/ Work \/ Faulty \/ Deliver \/ Time \/ TaskFails
  \/ \E p \in Parties : Scheduler(p)

Spec == Init /\ [][Next]_vars

(***************************************************************************)
(* Fairness: workers, informers and timers run.  A patch that could not be *)
(* written only because the model bounds the versions on their way (the    *)
(* lags) is not held up forever.                                           *)
(***************************************************************************)
FairSpec ==
  /\ Spec
  /\ WF_vars(Sync) /\ WF_vars(UpdateStatus) /\ WF_vars(DeliverGroup)
  /\ WF_vars(Expire) /\ WF_vars(handleExpiredTrg)
  /\ WF_vars(RetryIntervalPasses) /\ WF_vars(handleReserveFailedTrg)
  /\ \A p \in Parties : /\ WF_vars(DeliverTaskResource(p))
                        /\ SF_vars(CreateTaskResource(p) \/ PatchTaskResource(p))

(***************************************************************************)
(* Properties.                                                             *)
(***************************************************************************)
ObjectTypes ==
  /\ trgCache \in Group /\ trgEvents \in Seq(Group)
  /\ trCache \in [Parties -> TRPhases] /\ trEvents \in [Parties -> Seq(TRPhases)]

FlagTypes ==
  /\ queued \in BOOLEAN /\ lifeTimer \in BOOLEAN /\ retryTimer \in BOOLEAN
  /\ expired \in BOOLEAN /\ due \in BOOLEAN /\ busy \in BOOLEAN /\ fresh \in BOOLEAN

CounterTypes == requeues \in 0..maxRetries /\ faults \in 0..MaxFaults

WorkerTypes ==
  /\ base \in Group /\ next \in Group
  /\ todo \subseteq Parties /\ target \in TRPhases

SchedulerTypes ==
  toReserved \subseteq Parties /\ toFailed \subseteq Parties /\ reservedOnce \subseteq Parties

\* Type invariant of the objects, the queues and the worker.
TypeOK == ObjectTypes /\ FlagTypes /\ CounterTypes /\ WorkerTypes /\ SchedulerTypes

\* No TaskResource is Schedulable before as many parties as minReservedMembers asks
\* for have each been reported Reserved by their scheduler.
SchedulableNeedsQuorum ==
  (\E p \in Parties : Tr(p) = "Schedulable")
    => Cardinality(reservedOnce) >= MinReservedMembers

\* Once the group is Reserved no TaskResource is sent back to Reserving: the retry
\* of ReserveFailedHandler never undoes a reservation that was granted.
NoResetAfterGrant ==
  [][\A p \in Parties : (Tr(p) # "Reserving" /\ Tr(p)' = "Reserving") => Trg.phase # "Reserved"]_vars

\* The task controller takes a group for Reserving until it is granted or failed, and
\* relies on nothing else: no status computed before takes that back.
Life == INSTANCE GroupLife WITH
  phase <- IF Trg.phase \in {"Reserved", "Failed"} THEN Trg.phase ELSE "Reserving"
ImplementsGroupLife == Life!Spec

\* Every group is completed: it gets its completion time, scheduled or failed, unless more
\* API calls fail than a key is requeued for (the key is then dropped).
Completes == <>(Trg.done \/ faults > maxRetries)
=============================================================================
