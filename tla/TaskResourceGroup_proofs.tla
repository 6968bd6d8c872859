---------------------- MODULE TaskResourceGroup_proofs ----------------------
(***************************************************************************)
(* TaskResourceGroup for every set of parties, every quorum and every      *)
(* bound on lag, retries and faults: its type invariant, that no           *)
(* TaskResource becomes Schedulable before a quorum has reserved, and that *)
(* a grant stands and the group lives the life GroupLife describes.        *)
(***************************************************************************)
EXTENDS TaskResourceGroup, FiniteSetTheorems, TLAPS

LEMMA CountFacts ==
  /\ Cardinality(Parties) \in Nat
  /\ \A S \in SUBSET Parties : Cardinality(S) \in 0..Cardinality(Parties)
BY PartiesAssumption, FS_Subset, FS_CardinalityType

LEMMA LatestType ==
  ASSUME NEW S, NEW c \in S, NEW e \in Seq(S)
  PROVE  Latest(c, e) \in S
BY DEF Latest

LEMMA GroupUpdate ==
  ASSUME NEW t \in Group, NEW ph \in GroupPhases, NEW r \in Reasons, NEW d \in BOOLEAN
  PROVE  /\ [t EXCEPT !.phase = ph] \in Group
         /\ [t EXCEPT !.phase = ph, !.reason = r] \in Group
         /\ [t EXCEPT !.phase = ph, !.done = d] \in Group
         /\ [t EXCEPT !.done = d] \in Group
         /\ [t EXCEPT !.named = d] \in Group
BY Zenon DEF Group

LEMMA ReasonFacts ==
  /\ Unset \in Reasons /\ AllReserved \in Reasons /\ TooFew \in Reasons
  /\ \A S \in SUBSET Parties : Cardinality(Parties) - Cardinality(S) \in Reasons
BY CountFacts DEF Unset, AllReserved, TooFew, Reasons

LEMMA NewGroupType == NewGroup \in Group
BY ReasonFacts, Zenon DEF NewGroup, Group, GroupPhases

LEMMA TypeInit == Init => TypeOK
<1> SUFFICES ASSUME Init PROVE TypeOK
  BY Zenon
<1>1. ObjectTypes
  BY NewGroupType DEF Init, ObjectTypes, TRPhases, NoTR
<1>2. FlagTypes
  BY Zenon DEF Init, FlagTypes
<1>3. CounterTypes
  BY BoundsAssumption DEF Init, CounterTypes
<1>4. WorkerTypes
  BY NewGroupType, Zenon DEF Init, WorkerTypes, TRPhases, NoTR
<1>5. SchedulerTypes
  BY Zenon DEF Init, SchedulerTypes
<1> QED BY <1>1, <1>2, <1>3, <1>4, <1>5, Zenon DEF TypeOK

(***************************************************************************)
(* The type invariant is preserved: the objects first, then the worker.    *)
(***************************************************************************)
LEMMA WriteTrgType ==
  ASSUME ObjectTypes, NEW v \in Group, WriteTrg(v)
  PROVE  ObjectTypes'
BY DEF ObjectTypes, WriteTrg

LEMMA WriteTrType ==
  ASSUME ObjectTypes, NEW p \in Parties, NEW ph \in TRPhases, WriteTr(p, ph)
  PROVE  ObjectTypes'
BY DEF ObjectTypes, WriteTr

LEMMA LatestTypes ==
  ASSUME ObjectTypes
  PROVE  Trg \in Group /\ \A p \in Parties : Tr(p) \in TRPhases
<1>1. Trg \in Group
  BY LatestType, Zenon DEF ObjectTypes, Trg
<1>2. ASSUME NEW p \in Parties PROVE Tr(p) \in TRPhases
  <2>1. trCache[p] \in TRPhases /\ trEvents[p] \in Seq(TRPhases)
    BY Zenon DEF ObjectTypes
  <2> QED BY <2>1, LatestType, Zenon DEF Tr
<1> QED BY <1>1, <1>2, Zenon

LEMMA EnterTypes ==
  ASSUME TypeOK, NEW parties \in SUBSET Parties, NEW ph \in TRPhases, NEW status \in Group,
         Enter(parties, ph, status)
  PROVE  WorkerTypes' /\ busy' \in BOOLEAN /\ fresh' \in BOOLEAN
BY Zenon DEF TypeOK, ObjectTypes, WorkerTypes, Enter

LEMMA FinishTypes ==
  ASSUME Finish
  PROVE  WorkerTypes' /\ busy' \in BOOLEAN /\ fresh' \in BOOLEAN
BY NewGroupType, Zenon DEF Finish, WorkerTypes, TRPhases, NoTR

LEMMA BeginTypes ==
  ASSUME TypeOK, NEW phase, Handles(phase), NEW parties \in SUBSET Parties,
         NEW ph \in TRPhases, NEW status \in Group, Begin(parties, ph, status)
  PROVE  TypeOK'
<1>1. WorkerTypes' /\ busy' \in BOOLEAN /\ fresh' \in BOOLEAN
  BY EnterTypes, Zenon DEF Begin
<1>2. ObjectTypes' /\ CounterTypes' /\ SchedulerTypes'
  BY Zenon DEF Handles, Begin, TypeOK, ObjectTypes, CounterTypes, SchedulerTypes, objects, schedulers
<1>3. FlagTypes'
  BY <1>1, Zenon DEF Handles, Dequeue, Begin, TypeOK, FlagTypes, clock
<1> QED BY <1>1, <1>2, <1>3, Zenon DEF TypeOK

LEMMA SyncTypes == ASSUME TypeOK, Sync PROVE TypeOK'
<1> USE DEF objects, queues, clock, worker, schedulers
<1>a. /\ NoTR \in TRPhases /\ "Failed" \in TRPhases /\ "Reserving" \in TRPhases
      /\ "Schedulable" \in TRPhases /\ {} \in SUBSET Parties /\ Parties \in SUBSET Parties
  BY Zenon DEF TRPhases, NoTR
<1>b. trgCache \in Group /\ Trg \in Group /\ trgCache.reason \in Reasons
  BY LatestTypes, Zenon DEF TypeOK, ObjectTypes, Group
<1>c. Forget => requeues' \in 0..maxRetries
  BY BoundsAssumption DEF Forget
<1>1. CASE SkipCompleted
  BY <1>1, <1>c, Zenon DEF SkipCompleted, Dequeue, TypeOK, ObjectTypes, FlagTypes, CounterTypes,
                    WorkerTypes, SchedulerTypes
<1>2. CASE HandleExpired
  <2>1. [Trg EXCEPT !.phase = "Failed", !.reason = trgCache.reason] \in Group
    BY <1>b, GroupUpdate, Zenon DEF GroupPhases
  <2>2. ObjectTypes'
    BY <1>2, <2>1, WriteTrgType, Zenon DEF HandleExpired, TypeOK
  <2> QED BY <1>2, <1>c, <2>2, Zenon DEF HandleExpired, Dequeue, TypeOK, FlagTypes, CounterTypes,
                                  WorkerTypes, SchedulerTypes
<1>3. CASE DelayReserveFailed
  BY <1>3, <1>c, Zenon DEF DelayReserveFailed, Handles, Dequeue, TypeOK, ObjectTypes, FlagTypes,
                    CounterTypes, WorkerTypes, SchedulerTypes
<1>4. CASE PendingHandler
  <2>1. CASE validate /\ ~trgCache.named
    <3>1. [Trg EXCEPT !.named = TRUE] \in Group
      BY <1>b, Zenon DEF Group
    <3>2. ObjectTypes'
      BY <1>4, <2>1, <3>1, WriteTrgType, Zenon DEF PendingHandler, TypeOK
    <3> QED
      BY <1>4, <1>c, <2>1, <3>2, Zenon DEF PendingHandler, Handles, Dequeue, TypeOK, FlagTypes,
                                          CounterTypes, WorkerTypes, SchedulerTypes
  <2>2. CASE ~(validate /\ ~trgCache.named)
    <3>1. [trgCache EXCEPT !.phase = IF validate THEN "Creating" ELSE "Failed"] \in Group
      BY <1>b, GroupUpdate, Zenon DEF GroupPhases
    <3> QED BY <1>4, <1>a, <2>2, <3>1, BeginTypes, Zenon DEF PendingHandler
  <2> QED BY <2>1, <2>2, Zenon
<1>5. CASE CreatingHandler
  <2>1. [trgCache EXCEPT !.phase = "Reserving"] \in Group
    BY <1>b, GroupUpdate, Zenon DEF GroupPhases
  <2> QED BY <1>5, <1>a, <2>1, BeginTypes, Zenon DEF CreatingHandler
<1>6. CASE ReserveFailedHandler
  <2>1. [trgCache EXCEPT !.phase = "Reserving"] \in Group
    BY <1>b, GroupUpdate, Zenon DEF GroupPhases
  <2> QED BY <1>6, <1>a, <2>1, BeginTypes, Zenon DEF ReserveFailedHandler
<1>7. CASE ReservedHandler
  <2>1. [trgCache EXCEPT !.done = TRUE] \in Group
    BY <1>b, Zenon DEF Group
  <2> QED BY <1>7, <1>a, <2>1, BeginTypes, Zenon DEF ReservedHandler
<1>8. CASE FailedHandler
  <2>1. [trgCache EXCEPT !.done = TRUE] \in Group
    BY <1>b, Zenon DEF Group
  <2> QED BY <1>8, <1>a, <2>1, BeginTypes, Zenon DEF FailedHandler
<1>9. CASE TooFewListed
  <2>1. [trgCache EXCEPT !.phase = "Failed", !.reason = TooFew] \in Group
    BY <1>b, GroupUpdate, ReasonFacts, Zenon DEF GroupPhases
  <2> QED BY <1>9, <1>a, <2>1, BeginTypes, Zenon DEF TooFewListed
<1>10. CASE GroupReserved
  <2>1. [trgCache EXCEPT !.phase = "Reserved", !.reason = AllReserved] \in Group
    BY <1>b, GroupUpdate, ReasonFacts, Zenon DEF GroupPhases
  <2> QED BY <1>10, <1>a, <2>1, BeginTypes, Zenon DEF GroupReserved
<1>11. CASE GroupReserveFailed
  <2> DEFINE remaining == Cardinality(Parties) - failedCount
             status == IF trgCache.reason = remaining THEN trgCache
                       ELSE [trgCache EXCEPT !.phase = "ReserveFailed", !.reason = remaining]
  <2>1. remaining \in Reasons
    BY ReasonFacts, Zenon DEF failedCount, Listed
  <2> HIDE DEF remaining
  <2>2. status \in Group
    BY <1>b, <2>1, GroupUpdate, Zenon DEF GroupPhases
  <2>3. Begin(Parties, "Failed", status) /\ Handles("Reserving")
    BY <1>11, Zenon DEF GroupReserveFailed, remaining
  <2> HIDE DEF status
  <2> QED BY <1>a, <2>2, <2>3, BeginTypes, Zenon
<1>12. CASE KeepReserving
  BY <1>12, <1>c, Zenon DEF KeepReserving, Handles, Dequeue, TypeOK, ObjectTypes, FlagTypes,
                     CounterTypes, WorkerTypes, SchedulerTypes
<1> QED BY <1>1, <1>2, <1>3, <1>4, <1>5, <1>6, <1>7, <1>8, <1>9, <1>10, <1>11, <1>12, Zenon DEF Sync

LEMMA WorkTypes == ASSUME TypeOK, Work PROVE TypeOK'
<1> USE DEF objects, queues, clock, worker, schedulers
<1>1. CASE UpdateStatus
  <2>1. ObjectTypes'
    BY <1>1, WriteTrgType, Zenon DEF UpdateStatus, TypeOK, ObjectTypes, WorkerTypes
  <2>2. WorkerTypes' /\ busy' \in BOOLEAN /\ fresh' \in BOOLEAN
    BY <1>1, FinishTypes, Zenon DEF UpdateStatus
  <2>3. CounterTypes' /\ SchedulerTypes'
    BY <1>1, BoundsAssumption DEF UpdateStatus, Forget, TypeOK, CounterTypes, SchedulerTypes
  <2>4. FlagTypes'
    BY <1>1, <2>2, Zenon DEF UpdateStatus, TypeOK, FlagTypes
  <2> QED BY <2>1, <2>2, <2>3, <2>4, Zenon DEF TypeOK
<1>2. ASSUME NEW p \in Parties, CreateTaskResource(p) PROVE TypeOK'
  <2>1. ObjectTypes'
    BY <1>2, WriteTrType, Zenon DEF CreateTaskResource, TypeOK, ObjectTypes, TRPhases
  <2> QED BY <1>2, <2>1, Zenon DEF CreateTaskResource, TypeOK, FlagTypes, CounterTypes, WorkerTypes,
                            SchedulerTypes
<1>3. ASSUME NEW p \in Parties, PatchTaskResource(p) PROVE TypeOK'
  <2>1. ObjectTypes'
    BY <1>3, WriteTrType, Zenon DEF PatchTaskResource, TypeOK, ObjectTypes, WorkerTypes
  <2>2. FlagTypes'
    BY <1>3, Zenon DEF PatchTaskResource, TypeOK, FlagTypes
  <2> QED BY <1>3, <2>1, <2>2, Zenon DEF PatchTaskResource, TypeOK, CounterTypes, WorkerTypes,
                                  SchedulerTypes
<1> QED BY <1>1, <1>2, <1>3, Zenon DEF Work

LEMMA FaultyTypes == ASSUME TypeOK, Faulty PROVE TypeOK'
<1> USE DEF objects, queues, clock, worker, schedulers
<1>a. Fault => faults' \in 0..MaxFaults
  BY BoundsAssumption DEF Fault, TypeOK, CounterTypes
<1>b. /\ Forget => requeues' \in 0..maxRetries
      /\ Requeue => requeues' \in 0..maxRetries /\ queued' \in BOOLEAN
  <2>1. Forget => requeues' \in 0..maxRetries
    BY BoundsAssumption DEF Forget
  <2>2. Requeue => requeues' \in 0..maxRetries
    BY BoundsAssumption DEF Requeue, TypeOK, CounterTypes
  <2>3. Requeue => queued' \in BOOLEAN
    BY Zenon DEF Requeue
  <2> QED BY <2>1, <2>2, <2>3, Zenon
<1>c. \A t \in Group : failTaskResourceGroup(t) \in Group
  BY Zenon DEF failTaskResourceGroup, Group, GroupPhases
<1>1. CASE UpdateStatusAgain
  <2>2. [next EXCEPT !.named = Trg.named] \in Group
    BY LatestTypes, Zenon DEF TypeOK, WorkerTypes, Group
  <2>3. ObjectTypes'
    BY <1>1, <2>2, WriteTrgType, Zenon DEF UpdateStatusAgain, TypeOK
  <2>4. WorkerTypes' /\ busy' \in BOOLEAN /\ fresh' \in BOOLEAN
    BY <1>1, FinishTypes, Zenon DEF UpdateStatusAgain
  <2>5. FlagTypes'
    BY <1>1, <2>4, Zenon DEF UpdateStatusAgain, TypeOK, FlagTypes
  <2>6. CounterTypes' /\ SchedulerTypes'
    BY <1>1, <1>a, <1>b, Zenon DEF UpdateStatusAgain, TypeOK, CounterTypes, SchedulerTypes
  <2> QED BY <2>3, <2>4, <2>5, <2>6, Zenon DEF TypeOK
<1>2. CASE UpdateStatusFails
  <2>1. WorkerTypes' /\ busy' \in BOOLEAN /\ fresh' \in BOOLEAN
    BY <1>2, FinishTypes, Zenon DEF UpdateStatusFails
  <2>2. FlagTypes'
    BY <1>2, <1>b, <2>1, Zenon DEF UpdateStatusFails, TypeOK, FlagTypes
  <2> QED BY <1>2, <1>a, <1>b, <2>1, <2>2, Zenon DEF UpdateStatusFails, TypeOK, ObjectTypes,
                                              CounterTypes, SchedulerTypes
<1>3. CASE HandlerFails
  <2>1. WorkerTypes' /\ busy' \in BOOLEAN /\ fresh' \in BOOLEAN
    BY <1>3, <1>c, FinishTypes, Zenon DEF HandlerFails, TypeOK, WorkerTypes, FlagTypes
  <2>2. FlagTypes'
    BY <1>3, <1>b, <2>1, Zenon DEF HandlerFails, TypeOK, FlagTypes
  <2> QED BY <1>3, <1>a, <1>b, <2>1, <2>2, Zenon DEF HandlerFails, TypeOK, ObjectTypes,
                                              CounterTypes, SchedulerTypes
<1>4. CASE HandlerFailsAtOnce
  <2>1. WorkerTypes' /\ busy' \in BOOLEAN /\ fresh' \in BOOLEAN
    <3>1. {} \in SUBSET Parties /\ NoTR \in TRPhases
      BY Zenon DEF TRPhases
    <3>2. failTaskResourceGroup(trgCache) \in Group
      BY <1>c, Zenon DEF TypeOK, ObjectTypes
    <3>3. CASE UNCHANGED worker
      BY <3>3, Zenon DEF TypeOK, WorkerTypes, FlagTypes
    <3> QED BY <1>4, <3>1, <3>2, <3>3, EnterTypes, Zenon DEF HandlerFailsAtOnce
  <2>2. FlagTypes'
    BY <1>4, <1>b, <2>1, Zenon DEF HandlerFailsAtOnce, TypeOK, FlagTypes
  <2> QED BY <1>4, <1>a, <1>b, <2>1, <2>2, Zenon DEF HandlerFailsAtOnce, TypeOK, ObjectTypes,
                                              CounterTypes, SchedulerTypes
<1>5. CASE HandleExpiredFails
  BY <1>5, <1>a, <1>b, Zenon DEF HandleExpiredFails, TypeOK, ObjectTypes, FlagTypes, CounterTypes,
                          WorkerTypes, SchedulerTypes
<1>6. CASE Restart
  <2>1. ObjectTypes'
    BY <1>6, LatestTypes DEF Restart, TypeOK, ObjectTypes
  <2>2. WorkerTypes' /\ busy' \in BOOLEAN /\ fresh' \in BOOLEAN
    BY <1>6, FinishTypes, Zenon DEF Restart
  <2>3. FlagTypes'
    BY <1>6, <2>2, Zenon DEF Restart, TypeOK, FlagTypes
  <2> QED BY <1>6, <1>a, <2>1, <2>2, <2>3, BoundsAssumption DEF Restart, TypeOK, CounterTypes,
                                                               SchedulerTypes
<1> QED BY <1>1, <1>2, <1>3, <1>4, <1>5, <1>6, Zenon DEF Faulty

LEMMA OtherTypes ==
  ASSUME TypeOK, Deliver \/ Time \/ TaskFails \/ \E p \in Parties : Scheduler(p)
  PROVE  TypeOK'
<1> USE DEF objects, queues, clock, worker, schedulers
<1>1. CASE DeliverGroup
  BY <1>1 DEF DeliverGroup, TypeOK, ObjectTypes, FlagTypes, CounterTypes, WorkerTypes,
              SchedulerTypes
<1>2. ASSUME NEW p \in Parties, DeliverTaskResource(p) PROVE TypeOK'
  <2>1. Head(trEvents[p]) \in TRPhases /\ Tail(trEvents[p]) \in Seq(TRPhases)
    BY <1>2 DEF DeliverTaskResource, TypeOK, ObjectTypes
  <2> QED
    BY <1>2, <2>1, Zenon DEF DeliverTaskResource, TypeOK, ObjectTypes, FlagTypes, CounterTypes,
                            WorkerTypes, SchedulerTypes
<1>3. CASE Time
  BY <1>3, Zenon DEF Time, Expire, RetryIntervalPasses, handleExpiredTrg, handleReserveFailedTrg,
              TypeOK, ObjectTypes, FlagTypes, CounterTypes, WorkerTypes, SchedulerTypes
<1>4. CASE TaskFails
  <2>1. [Trg EXCEPT !.phase = "Failed"] \in Group
    BY LatestTypes, ReasonFacts, GroupUpdate, Zenon DEF TypeOK, GroupPhases
  <2>2. ObjectTypes'
    BY <1>4, <2>1, WriteTrgType, Zenon DEF TaskFails, TypeOK
  <2> QED BY <1>4, <2>2, Zenon DEF TaskFails, TypeOK, FlagTypes, CounterTypes, WorkerTypes,
                            SchedulerTypes
<1>5. ASSUME NEW p \in Parties, ReadReserving(p) \/ Unreserve(p) PROVE TypeOK'
  BY <1>5, Zenon DEF ReadReserving, Unreserve, TypeOK, ObjectTypes, FlagTypes, CounterTypes,
              WorkerTypes, SchedulerTypes
<1>6. ASSUME NEW p \in Parties, PatchReserved(p) \/ PatchFailed(p) PROVE TypeOK'
  <2>1. ObjectTypes'
    BY <1>6, WriteTrType, Zenon DEF PatchReserved, PatchFailed, TypeOK, TRPhases
  <2> QED BY <1>6, <2>1, Zenon DEF PatchReserved, PatchFailed, TypeOK, FlagTypes, CounterTypes,
                            WorkerTypes, SchedulerTypes
<1> QED BY <1>1, <1>2, <1>3, <1>4, <1>5, <1>6, Zenon DEF Deliver, Scheduler

LEMMA TypeStep == TypeOK /\ [Next]_vars => TypeOK'
<1>1. TypeOK /\ Next => TypeOK'
  BY SyncTypes, WorkTypes, FaultyTypes, OtherTypes, Zenon DEF Next
<1>2. TypeOK /\ UNCHANGED vars => TypeOK'
  BY Zenon DEF vars, objects, queues, clock, worker, schedulers, TypeOK, ObjectTypes, FlagTypes,
         CounterTypes, WorkerTypes, SchedulerTypes
<1> QED BY <1>1, <1>2, Zenon

\* Theorem: the type invariant holds for every set of parties and every bound.
THEOREM TypeCorrect == Spec => []TypeOK
BY TypeInit, TypeStep, PTL DEF Spec

(***************************************************************************)
(* The quorum.  SchedulableNeedsQuorum is not inductive: the phase         *)
(* Schedulable comes from a worker that read a Reserved group, possibly in *)
(* an old version, which another pass wrote after counting Reserved        *)
(* TaskResources, possibly in old versions too.  So the invariant speaks   *)
(* of every version of an object the lister shows or will be shown.        *)
(***************************************************************************)
Seen(cached, events) == {cached} \cup {events[i] : i \in DOMAIN events}

Quorum == Cardinality(reservedOnce) >= MinReservedMembers

ReservedRecorded ==
  \A p \in Parties : "Reserved" \in Seen(trCache[p], trEvents[p]) => p \in reservedOnce

GroupBacked == \A t \in Seen(trgCache, trgEvents) : t.phase = "Reserved" => Quorum

WorkerBacked ==
  /\ next.phase = "Reserved" \/ target = "Schedulable" => Quorum
  /\ target # "Reserved"

SchedulableBacked ==
  \A p \in Parties : "Schedulable" \in Seen(trCache[p], trEvents[p]) => Quorum

QuorumInv == ReservedRecorded /\ GroupBacked /\ WorkerBacked /\ SchedulableBacked

LEMMA SeenFacts ==
  ASSUME NEW S, NEW c \in S, NEW e \in Seq(S)
  PROVE  /\ Latest(c, e) \in Seen(c, e)
         /\ Seen(Latest(c, e), <<>>) \subseteq Seen(c, e)
         /\ \A v \in S : Seen(c, Append(e, v)) = Seen(c, e) \cup {v}
         /\ e # <<>> => Seen(Head(e), Tail(e)) \subseteq Seen(c, e)
<1>1. Latest(c, e) \in Seen(c, e)
  BY DEF Latest, Seen
<1>2. Seen(Latest(c, e), <<>>) \subseteq Seen(c, e)
  BY <1>1 DEF Seen
<1>3. ASSUME NEW v \in S PROVE Seen(c, Append(e, v)) = Seen(c, e) \cup {v}
  <2>1. DOMAIN Append(e, v) = 1..(Len(e) + 1) /\ DOMAIN e = 1..Len(e) /\ Len(e) \in Nat
    OBVIOUS
  <2>2. \A i \in 1..Len(e) : Append(e, v)[i] = e[i]
    OBVIOUS
  <2>3. Append(e, v)[Len(e) + 1] = v
    OBVIOUS
  <2>4. ASSUME NEW x \in Seen(c, Append(e, v)) PROVE x \in Seen(c, e) \cup {v}
    BY <2>1, <2>2, <2>3, <2>4 DEF Seen
  <2>5. ASSUME NEW x \in Seen(c, e) \cup {v} PROVE x \in Seen(c, Append(e, v))
    BY <2>1, <2>2, <2>3, <2>5 DEF Seen
  <2> QED BY <2>4, <2>5, Zenon
<1>4. ASSUME e # <<>> PROVE Seen(Head(e), Tail(e)) \subseteq Seen(c, e)
  <2>1. /\ Len(e) \in Nat \ {0} /\ DOMAIN e = 1..Len(e) /\ Head(e) = e[1]
        /\ DOMAIN Tail(e) = 1..(Len(e) - 1)
        /\ \A i \in 1..(Len(e) - 1) : Tail(e)[i] = e[i + 1]
    BY <1>4
  <2> QED BY <2>1 DEF Seen
<1> QED BY <1>1, <1>2, <1>3, <1>4, Zenon

LEMMA QuorumGrows ==
  ASSUME TypeOK', reservedOnce \subseteq reservedOnce', TypeOK, Quorum
  PROVE  Quorum'
<1>1. IsFiniteSet(reservedOnce') /\ IsFiniteSet(reservedOnce)
  BY PartiesAssumption, FS_Subset, Zenon DEF TypeOK, SchedulerTypes
<1>2. Cardinality(reservedOnce) <= Cardinality(reservedOnce')
  BY <1>1, FS_Subset, Zenon
<1> QED BY <1>1, <1>2, FS_CardinalityType, MinAssumption DEF Quorum

\* What a step may add to the versions in circulation without breaking QuorumInv.
ObjectStep ==
  /\ \A t \in Seen(trgCache', trgEvents') :
        t \in Seen(trgCache, trgEvents) \/ (t.phase = "Reserved" => Quorum)
  /\ \A p \in Parties : \A ph \in Seen(trCache'[p], trEvents'[p]) :
        \/ ph \in Seen(trCache[p], trEvents[p])
        \/ /\ ph = "Reserved" => p \in reservedOnce'
           /\ ph = "Schedulable" => Quorum

WorkerStep ==
  /\ next'.phase = "Reserved" \/ target' = "Schedulable" => Quorum
  /\ target' # "Reserved"

QuorumStep == reservedOnce \subseteq reservedOnce' /\ ObjectStep /\ WorkerStep

LEMMA QuorumStepSuffices ==
  ASSUME TypeOK, TypeOK', QuorumInv, QuorumStep
  PROVE  QuorumInv'
<1>1. Quorum => Quorum'
  BY QuorumGrows, Zenon DEF QuorumStep
<1>2. ReservedRecorded'
  BY Zenon DEF QuorumStep, ObjectStep, QuorumInv, ReservedRecorded
<1>3. GroupBacked'
  BY <1>1, Zenon DEF QuorumStep, ObjectStep, QuorumInv, GroupBacked
<1>4. WorkerBacked'
  BY <1>1, Zenon DEF QuorumStep, WorkerStep, WorkerBacked
<1>5. SchedulableBacked'
  BY <1>1, Zenon DEF QuorumStep, ObjectStep, QuorumInv, SchedulableBacked
<1> QED BY <1>2, <1>3, <1>4, <1>5, Zenon DEF QuorumInv

LEMMA ObjectsUnchanged == ASSUME UNCHANGED objects PROVE ObjectStep
BY Zenon DEF objects, ObjectStep

LEMMA WriteTrgStep ==
  ASSUME TypeOK, NEW v \in Group, WriteTrg(v), v.phase = "Reserved" => Quorum
  PROVE  ObjectStep
<1>1. Seen(trgCache', trgEvents') = Seen(trgCache, trgEvents) \cup {v}
  BY SeenFacts DEF WriteTrg, TypeOK, ObjectTypes
<1> QED BY <1>1, Zenon DEF WriteTrg, ObjectStep

LEMMA WriteTrStep ==
  ASSUME TypeOK, NEW p \in Parties, NEW ph \in TRPhases, WriteTr(p, ph),
         ph = "Reserved" => p \in reservedOnce', ph = "Schedulable" => Quorum
  PROVE  ObjectStep
<1>1. trCache[p] \in TRPhases /\ trEvents[p] \in Seq(TRPhases)
  BY Zenon DEF TypeOK, ObjectTypes
<1>2. trEvents'[p] = Append(trEvents[p], ph) /\ \A q \in Parties \ {p} : trEvents'[q] = trEvents[q]
  BY Zenon DEF WriteTr, TypeOK, ObjectTypes
<1>3. Seen(trCache'[p], trEvents'[p]) = Seen(trCache[p], trEvents[p]) \cup {ph}
  BY <1>1, <1>2, SeenFacts DEF WriteTr
<1> QED BY <1>2, <1>3, Zenon DEF WriteTr, ObjectStep

LEMMA WorkerUnchanged ==
  ASSUME QuorumInv, UNCHANGED <<next, target>>
  PROVE  WorkerStep
BY Zenon DEF QuorumInv, WorkerBacked, WorkerStep

LEMMA FinishStep == ASSUME Finish PROVE WorkerStep
BY Zenon DEF Finish, WorkerStep, NewGroup, NoTR

\* Reserved TaskResources in the lister are counted towards a quorum that was there.
LEMMA CountedQuorum ==
  ASSUME TypeOK, QuorumInv, reservedCount >= MinReservedMembers
  PROVE  Quorum
<1>1. Listed({"Reserved"}) \subseteq reservedOnce
  BY Zenon DEF Listed, Seen, QuorumInv, ReservedRecorded
<1>2. IsFiniteSet(reservedOnce) /\ IsFiniteSet(Listed({"Reserved"}))
  BY <1>1, PartiesAssumption, FS_Subset, Zenon DEF TypeOK, SchedulerTypes, Listed
<1>3. Cardinality(Listed({"Reserved"})) <= Cardinality(reservedOnce)
  BY <1>1, <1>2, FS_Subset, Zenon
<1> QED BY <1>2, <1>3, FS_CardinalityType, MinAssumption DEF reservedCount, Quorum

LEMMA SyncQuorum == ASSUME TypeOK, QuorumInv, Sync PROVE QuorumStep
<1> USE DEF objects, queues, clock, worker, schedulers, QuorumStep
<1>a. trgCache.phase = "Reserved" => Quorum
  BY Zenon DEF QuorumInv, GroupBacked, Seen
<1>b. trgCache \in Group /\ Trg \in Group /\ trgCache.reason \in Reasons
  BY LatestTypes, Zenon DEF TypeOK, ObjectTypes, Group
<1>c. Trg.phase = "Reserved" => Quorum
  BY SeenFacts, Zenon DEF QuorumInv, GroupBacked, Trg, TypeOK, ObjectTypes
<1>1. CASE SkipCompleted
  BY <1>1, ObjectsUnchanged, WorkerUnchanged, Zenon DEF SkipCompleted
<1>2. CASE HandleExpired
  <2>1. [Trg EXCEPT !.phase = "Failed", !.reason = trgCache.reason] \in Group
    BY <1>b, GroupUpdate, Zenon DEF GroupPhases
  <2>2. [Trg EXCEPT !.phase = "Failed", !.reason = trgCache.reason].phase = "Failed"
    BY <1>b, Zenon DEF Group
  <2> QED BY <1>2, <2>1, <2>2, WriteTrgStep, WorkerUnchanged, Zenon DEF HandleExpired
<1>3. CASE DelayReserveFailed
  BY <1>3, ObjectsUnchanged, WorkerUnchanged, Zenon DEF DelayReserveFailed, Handles
<1>4. CASE PendingHandler
  <2>1. CASE validate /\ ~trgCache.named
    <3>1. [Trg EXCEPT !.named = TRUE] \in Group
      BY <1>b, Zenon DEF Group
    <3>2. [Trg EXCEPT !.named = TRUE].phase = Trg.phase
      BY <1>b, Zenon DEF Group
    <3> QED BY <1>4, <1>c, <2>1, <3>1, <3>2, WriteTrgStep, WorkerUnchanged, Zenon
            DEF PendingHandler, Handles
  <2>2. CASE ~(validate /\ ~trgCache.named)
    BY <1>4, <1>b, <2>2, ObjectsUnchanged, Zenon
    DEF PendingHandler, Handles, Begin, Enter, WorkerStep, Group, NoTR
  <2> QED BY <2>1, <2>2, Zenon
<1>5. CASE CreatingHandler \/ ReserveFailedHandler \/ FailedHandler \/ TooFewListed
  BY <1>5, <1>b, ObjectsUnchanged, Zenon
  DEF CreatingHandler, ReserveFailedHandler, FailedHandler, TooFewListed, Handles, Begin,
      Enter, WorkerStep, Group, NoTR
<1>6. CASE ReservedHandler
  BY <1>6, <1>a, ObjectsUnchanged, Zenon DEF ReservedHandler, Handles, Begin, Enter, WorkerStep
<1>7. CASE GroupReserved
  BY <1>7, CountedQuorum, ObjectsUnchanged, Zenon
  DEF GroupReserved, Handles, Begin, Enter, WorkerStep, NoTR
<1>8. CASE GroupReserveFailed
  <2>1. QuorumStep
    <3> DEFINE remaining == Cardinality(Parties) - failedCount
    <3>1. /\ trgCache.phase = "Reserving"
          /\ next' = IF trgCache.reason = remaining THEN trgCache
                     ELSE [trgCache EXCEPT !.phase = "ReserveFailed", !.reason = remaining]
          /\ target' = "Failed" /\ UNCHANGED <<objects, schedulers>>
      BY <1>8, Zenon DEF GroupReserveFailed, Handles, Begin, Enter
    <3> HIDE DEF remaining
    <3> QED BY <3>1, <1>b, ObjectsUnchanged, Zenon DEF WorkerStep, Group
  <2> QED BY <2>1, Zenon
<1>9. CASE KeepReserving
  BY <1>9, ObjectsUnchanged, WorkerUnchanged, Zenon DEF KeepReserving, Handles
<1> QED BY <1>1, <1>2, <1>3, <1>4, <1>5, <1>6, <1>7, <1>8, <1>9, Zenon DEF Sync

LEMMA WorkQuorum == ASSUME TypeOK, QuorumInv, Work PROVE QuorumStep
<1> USE DEF objects, queues, clock, worker, schedulers, QuorumStep
<1>1. CASE UpdateStatus
  <2>1. ObjectStep
    BY <1>1, WriteTrgStep, ObjectsUnchanged, Zenon
    DEF UpdateStatus, TypeOK, WorkerTypes, QuorumInv, WorkerBacked
  <2> QED BY <1>1, <2>1, FinishStep, Zenon DEF UpdateStatus
<1>2. ASSUME NEW p \in Parties, CreateTaskResource(p) PROVE QuorumStep
  <2>1. ObjectStep
    BY <1>2, WriteTrStep, ObjectsUnchanged, Zenon DEF CreateTaskResource, TRPhases
  <2> QED BY <1>2, <2>1, WorkerUnchanged, Zenon DEF CreateTaskResource
<1>3. ASSUME NEW p \in Parties, PatchTaskResource(p) PROVE QuorumStep
  <2>1. ObjectStep
    BY <1>3, WriteTrStep, ObjectsUnchanged, Zenon
    DEF PatchTaskResource, TypeOK, WorkerTypes, QuorumInv, WorkerBacked
  <2> QED BY <1>3, <2>1, WorkerUnchanged, Zenon DEF PatchTaskResource
<1> QED BY <1>1, <1>2, <1>3, Zenon DEF Work

LEMMA FaultyQuorum == ASSUME TypeOK, QuorumInv, Faulty PROVE QuorumStep
<1> USE DEF objects, queues, clock, worker, schedulers, QuorumStep
<1>a. next \in Group /\ Trg \in Group /\ trgCache \in Group
  BY LatestTypes, Zenon DEF TypeOK, WorkerTypes, ObjectTypes
<1>b. \A t \in Group : failTaskResourceGroup(t).phase = "Failed"
  BY Zenon DEF failTaskResourceGroup, Group
<1>1. CASE UpdateStatusAgain
  <2>1. /\ [next EXCEPT !.named = Trg.named] \in Group
        /\ [next EXCEPT !.named = Trg.named].phase = next.phase
    BY <1>a, Zenon DEF Group
  <2>2. ObjectStep
    BY <1>1, <2>1, WriteTrgStep, Zenon DEF UpdateStatusAgain, QuorumInv, WorkerBacked
  <2> QED BY <1>1, <2>2, FinishStep, Zenon DEF UpdateStatusAgain
<1>2. CASE UpdateStatusFails
  BY <1>2, FinishStep, ObjectsUnchanged, Zenon DEF UpdateStatusFails
<1>3. CASE HandlerFails
  <2>1. WorkerStep
    BY <1>3, <1>a, <1>b, FinishStep, Zenon DEF HandlerFails, QuorumInv, WorkerBacked, WorkerStep
  <2> QED BY <1>3, <2>1, ObjectsUnchanged, Zenon DEF HandlerFails
<1>4. CASE HandlerFailsAtOnce
  <2>1. WorkerStep
    BY <1>4, <1>a, <1>b, WorkerUnchanged, Zenon DEF HandlerFailsAtOnce, Enter, WorkerStep, NoTR
  <2> QED BY <1>4, <2>1, ObjectsUnchanged, Zenon DEF HandlerFailsAtOnce
<1>5. CASE HandleExpiredFails
  BY <1>5, WorkerUnchanged, ObjectsUnchanged, Zenon DEF HandleExpiredFails
<1>6. CASE Restart
  <2>1. Seen(trgCache', trgEvents') \subseteq Seen(trgCache, trgEvents)
    BY <1>6, SeenFacts, Zenon DEF Restart, Trg, TypeOK, ObjectTypes
  <2>2. ASSUME NEW p \in Parties
        PROVE  Seen(trCache'[p], trEvents'[p]) \subseteq Seen(trCache[p], trEvents[p])
    <3>1. trCache[p] \in TRPhases /\ trEvents[p] \in Seq(TRPhases)
      BY Zenon DEF TypeOK, ObjectTypes
    <3>2. trCache'[p] = Tr(p) /\ trEvents'[p] = <<>>
      BY <1>6, Zenon DEF Restart
    <3> QED BY <3>1, <3>2, SeenFacts, Zenon DEF Tr
  <2>3. ObjectStep
    BY <2>1, <2>2, Zenon DEF ObjectStep
  <2> QED BY <1>6, <2>3, FinishStep, Zenon DEF Restart
<1> QED BY <1>1, <1>2, <1>3, <1>4, <1>5, <1>6, Zenon DEF Faulty

LEMMA OtherQuorum ==
  ASSUME TypeOK, QuorumInv,
         Deliver \/ Time \/ TaskFails \/ \E p \in Parties : Scheduler(p)
  PROVE  QuorumStep
<1> USE DEF objects, queues, clock, worker, schedulers, QuorumStep
<1>1. CASE DeliverGroup
  <2>1. Seen(trgCache', trgEvents') \subseteq Seen(trgCache, trgEvents)
    BY <1>1, SeenFacts, Zenon DEF DeliverGroup, TypeOK, ObjectTypes
  <2>2. ObjectStep
    BY <1>1, <2>1, Zenon DEF DeliverGroup, ObjectStep
  <2> QED BY <1>1, <2>2, WorkerUnchanged, Zenon DEF DeliverGroup
<1>2. ASSUME NEW p \in Parties, DeliverTaskResource(p) PROVE QuorumStep
  <2>1. trCache[p] \in TRPhases /\ trEvents[p] \in Seq(TRPhases) /\ trEvents[p] # <<>>
    BY <1>2, Zenon DEF DeliverTaskResource, TypeOK, ObjectTypes
  <2>2. /\ trCache'[p] = Head(trEvents[p]) /\ trEvents'[p] = Tail(trEvents[p])
        /\ \A q \in Parties \ {p} : trCache'[q] = trCache[q] /\ trEvents'[q] = trEvents[q]
    BY <1>2, Zenon DEF DeliverTaskResource, TypeOK, ObjectTypes
  <2>3. Seen(trCache'[p], trEvents'[p]) \subseteq Seen(trCache[p], trEvents[p])
    BY <2>1, <2>2, SeenFacts, Zenon
  <2>4. ObjectStep
    BY <1>2, <2>2, <2>3, Zenon DEF DeliverTaskResource, ObjectStep
  <2> QED BY <1>2, <2>4, WorkerUnchanged, Zenon DEF DeliverTaskResource
<1>3. CASE Time
  BY <1>3, WorkerUnchanged, ObjectsUnchanged, Zenon
  DEF Time, Expire, RetryIntervalPasses, handleExpiredTrg, handleReserveFailedTrg
<1>4. CASE TaskFails
  <2>1. Trg \in Group
    BY LatestTypes, Zenon DEF TypeOK
  <2>2. /\ [Trg EXCEPT !.phase = "Failed"] \in Group
        /\ [Trg EXCEPT !.phase = "Failed"].phase = "Failed"
    BY <2>1, Zenon DEF Group, GroupPhases
  <2> QED BY <1>4, <2>2, WriteTrgStep, WorkerUnchanged, Zenon DEF TaskFails
<1>5. ASSUME NEW p \in Parties, ReadReserving(p) \/ Unreserve(p) PROVE QuorumStep
  BY <1>5, WorkerUnchanged, ObjectsUnchanged, Zenon DEF ReadReserving, Unreserve
<1>6. ASSUME NEW p \in Parties, PatchReserved(p) \/ PatchFailed(p) PROVE QuorumStep
  <2>1. ObjectStep
    BY <1>6, WriteTrStep, Zenon DEF PatchReserved, PatchFailed, TRPhases
  <2> QED BY <1>6, <2>1, WorkerUnchanged, Zenon DEF PatchReserved, PatchFailed
<1> QED BY <1>1, <1>2, <1>3, <1>4, <1>5, <1>6, Zenon DEF Deliver, Scheduler

LEMMA QuorumInit == Init => QuorumInv
BY DEF Init, QuorumInv, ReservedRecorded, GroupBacked, WorkerBacked, SchedulableBacked, Seen,
       NewGroup, NoTR

\* QuorumInv is inductive relative to the type invariant.
LEMMA QuorumPreserved == TypeOK /\ TypeOK' /\ QuorumInv /\ [Next]_vars => QuorumInv'
<1> SUFFICES ASSUME TypeOK, TypeOK', QuorumInv, [Next]_vars PROVE QuorumStep
  BY QuorumStepSuffices, Zenon
<1>1. CASE Next
  BY <1>1, SyncQuorum, WorkQuorum, FaultyQuorum, OtherQuorum, Zenon DEF Next
<1>2. CASE UNCHANGED vars
  BY <1>2, WorkerUnchanged, ObjectsUnchanged, Zenon DEF vars, worker, schedulers, QuorumStep
<1> QED BY <1>1, <1>2, Zenon

LEMMA QuorumGives == TypeOK /\ QuorumInv => SchedulableNeedsQuorum
<1> SUFFICES ASSUME TypeOK, QuorumInv, NEW p \in Parties, Tr(p) = "Schedulable" PROVE Quorum
  BY Zenon DEF SchedulableNeedsQuorum, Quorum
<1>1. trCache[p] \in TRPhases /\ trEvents[p] \in Seq(TRPhases)
  BY Zenon DEF TypeOK, ObjectTypes
<1>2. "Schedulable" \in Seen(trCache[p], trEvents[p])
  BY <1>1, SeenFacts DEF Tr
<1> QED BY <1>2, Zenon DEF QuorumInv, SchedulableBacked

\* Theorem: whatever the number of parties, the quorum, the lag of the informers and
\* the API errors, restarts, retries and expiries on the way, ReservedHandler makes a
\* TaskResource Schedulable only after minReservedMembers parties were Reserved.
THEOREM QuorumBeforeSchedulable == Spec => []SchedulableNeedsQuorum
<1>1. Init => TypeOK /\ QuorumInv
  BY TypeInit, QuorumInit, Zenon
<1>2. TypeOK /\ QuorumInv /\ [Next]_vars => (TypeOK /\ QuorumInv)'
  BY TypeStep, QuorumPreserved, Zenon
<1> QED BY <1>1, <1>2, QuorumGives, PTL DEF Spec

(***************************************************************************)
(* What the task controller is promised.  UpdateStatus writes over the     *)
(* version the handler read and no other, so a handler that began on a     *)
(* version before Reserved cannot take a grant back, nor reset the         *)
(* TaskResources once there is one.  UpdateStatusAgain, which writes over  *)
(* whatever it finds, is the exception.                                    *)
(***************************************************************************)
ReadLast == busy /\ fresh => trgEvents = <<>> /\ trgCache = base

\* What a handler is after, by the phase it read.
WorkerAims ==
  busy =>
    /\ base.phase = "Failed" => next.phase = "Failed"
    /\ base.phase = "Reserved" => next.phase \in {"Reserved", "Failed"}
    /\ next.phase = "Reserved" => base.phase \in {"Reserving", "Reserved"}
    /\ target = "Reserving" => base.phase = "ReserveFailed"
    /\ target = NoTR /\ todo # {} => base.phase = "Creating"

GrantPhases == {"Reserving", "Reserved"}
Granted ==
  Trg.phase = "Reserved" =>
    /\ \A t \in Seen(trgCache, trgEvents) : t.phase \in GrantPhases
    /\ busy => base.phase \in GrantPhases

GrantInv == ReadLast /\ WorkerAims /\ Granted

LEMMA LatestAppend ==
  ASSUME NEW S, NEW c, NEW e \in Seq(S), NEW v \in S
  PROVE  Latest(c, Append(e, v)) = v
BY DEF Latest

LEMMA EmptySeq == \A S : \A s \in Seq(S) : Len(s) = 0 => s = <<>>
OBVIOUS

LEMMA LatestTail ==
  ASSUME NEW S, NEW c, NEW e \in Seq(S), e # <<>>
  PROVE  Latest(Head(e), Tail(e)) = Latest(c, e)
<1>1. CASE Len(e) = 1
  <2>1. Tail(e) \in Seq(S) /\ Len(Tail(e)) = 0 BY <1>1
  <2>2. Tail(e) = <<>> BY <2>1, EmptySeq, Zenon
  <2>3. e[Len(e)] = Head(e) BY <1>1
  <2>. QED BY <2>2, <2>3, Zenon DEF Latest
<1>2. CASE Len(e) # 1
  <2>1. Len(e) \in Nat /\ Len(e) > 1 BY <1>2
  <2>2. Tail(e) # <<>> /\ Len(Tail(e)) = Len(e) - 1 BY <2>1
  <2>3. Tail(e)[Len(e) - 1] = e[Len(e)] BY <2>1
  <2>. QED BY <2>2, <2>3, Zenon DEF Latest
<1>. QED BY <1>1, <1>2, Zenon

\* A written version is the last one.
LEMMA TrgWritten ==
  ASSUME TypeOK, NEW v \in Group, WriteTrg(v)
  PROVE  Trg' = v /\ Seen(trgCache, trgEvents)' = Seen(trgCache, trgEvents) \cup {v}
<1>1. trgEvents \in Seq(Group) /\ trgCache \in Group BY Zenon DEF TypeOK, ObjectTypes
<1>2. trgEvents' = Append(trgEvents, v) /\ trgCache' = trgCache BY Zenon DEF WriteTrg
<1>3. Trg' = Latest(trgCache, Append(trgEvents, v)) BY <1>2, Zenon DEF Trg
<1>4. Latest(trgCache, Append(trgEvents, v)) = v BY <1>1, LatestAppend, Zenon
<1>5. Seen(trgCache, Append(trgEvents, v)) = Seen(trgCache, trgEvents) \cup {v}
  BY <1>1, SeenFacts
<1>. QED BY <1>2, <1>3, <1>4, <1>5, Zenon

LEMMA TrWritten ==
  ASSUME TypeOK, NEW p \in Parties, NEW ph \in TRPhases, WriteTr(p, ph)
  PROVE  Trg' = Trg /\ Tr(p)' = ph /\ \A q \in Parties : q # p => Tr(q)' = Tr(q)
<1>1. trEvents \in [Parties -> Seq(TRPhases)] BY Zenon DEF TypeOK, ObjectTypes
<1>2. /\ trEvents'[p] = Append(trEvents[p], ph) /\ UNCHANGED <<trgCache, trgEvents, trCache>>
      /\ \A q \in Parties : q # p => trEvents'[q] = trEvents[q]
  BY <1>1, Zenon DEF WriteTr
<1>3. trEvents[p] \in Seq(TRPhases) BY <1>1, Zenon
<1>4. Latest(trCache[p], Append(trEvents[p], ph)) = ph BY <1>3, LatestAppend, Zenon
<1>. QED BY <1>2, <1>4, Zenon DEF Trg, Tr

\* The phases the task controller tells apart, and what one step may do to them.
Moves(new) ==
  \/ new = Trg.phase
  \/ new = "Failed"
  \/ Trg.phase \notin {"Reserved", "Failed"}

GrantStep ==
  /\ GrantInv'
  /\ Moves(Trg'.phase)
  /\ \A p \in Parties : Tr(p) # "Reserving" /\ Tr(p)' = "Reserving" => Trg.phase # "Reserved"

\* The group and the TaskResources stay as they are.
LEMMA SameObjects ==
  ASSUME GrantInv, UNCHANGED objects
  PROVE  /\ Trg' = Trg /\ Moves(Trg'.phase) /\ \A p \in Parties : Tr(p)' = Tr(p)
         /\ Seen(trgCache, trgEvents)' = Seen(trgCache, trgEvents)
BY Zenon DEF objects, Trg, Tr, Moves

LEMMA SameObjectsStep ==
  ASSUME GrantInv, UNCHANGED objects, GrantInv'
  PROVE  GrantStep
BY SameObjects, Zenon DEF GrantStep

LEMMA SameWorkerStep ==
  ASSUME GrantInv, UNCHANGED <<objects, worker>>
  PROVE  GrantStep
<1>1. GrantInv'
  BY SameObjects, Zenon DEF GrantInv, ReadLast, WorkerAims, Granted, objects, worker
<1>. QED BY <1>1, SameObjectsStep, Zenon

\* A handler begins on the version the lister shows.
LEMMA EnterGrant ==
  ASSUME TypeOK, GrantInv, ~busy, UNCHANGED objects, NEW S, NEW ph, NEW v, Enter(S, ph, v),
         trgCache.phase = "Failed" => v.phase = "Failed",
         trgCache.phase = "Reserved" => v.phase \in {"Reserved", "Failed"},
         v.phase = "Reserved" => trgCache.phase \in GrantPhases,
         ph = "Reserving" => trgCache.phase = "ReserveFailed",
         ph = NoTR /\ S # {} => trgCache.phase = "Creating"
  PROVE  GrantStep
<1>1. /\ base' = trgCache /\ next' = v /\ todo' = S /\ target' = ph /\ fresh' = (trgEvents = <<>>)
      /\ UNCHANGED <<trgCache, trgEvents>>
  BY Zenon DEF Enter, objects
<1>2. ReadLast' /\ WorkerAims' BY <1>1, Zenon DEF ReadLast, WorkerAims, GrantPhases
<1>3. trgCache \in Seen(trgCache, trgEvents) BY Zenon DEF Seen
<1>4. Granted' BY <1>1, <1>3, SameObjects, Zenon DEF GrantInv, Granted
<1>. QED BY <1>2, <1>4, SameObjectsStep, Zenon DEF GrantInv

LEMMA FinishGrant ==
  ASSUME GrantInv, UNCHANGED objects, Finish
  PROVE  GrantStep
<1>1. ReadLast' /\ WorkerAims' BY Zenon DEF ReadLast, WorkerAims, Finish
<1>2. Granted' BY SameObjects, Zenon DEF GrantInv, Granted, Finish
<1>. QED BY <1>1, <1>2, SameObjectsStep, Zenon DEF GrantInv

\* A write of the group, outside of a handler or at its end.
LEMMA WriteGrant ==
  ASSUME TypeOK, GrantInv, NEW v \in Group, WriteTrg(v), Moves(v.phase),
         busy' => fresh' = FALSE /\ UNCHANGED <<base, todo, target, next>> /\ busy,
         v.phase = "Reserved" =>
           /\ \A t \in Seen(trgCache, trgEvents) : t.phase \in GrantPhases
           /\ busy' => base'.phase \in GrantPhases
  PROVE  GrantStep
<1>1. Trg' = v /\ Seen(trgCache, trgEvents)' = Seen(trgCache, trgEvents) \cup {v}
  BY TrgWritten, Zenon
<1>2. ReadLast' BY Zenon DEF ReadLast
<1>3. WorkerAims' BY Zenon DEF GrantInv, WorkerAims
<1>4. Granted' BY <1>1, Zenon DEF Granted, GrantPhases
<1>5. \A p \in Parties : Tr(p)' = Tr(p) BY Zenon DEF WriteTrg, Tr
<1>. QED BY <1>1, <1>2, <1>3, <1>4, <1>5, Zenon DEF GrantStep, GrantInv

LEMMA SyncGrant == ASSUME TypeOK, GrantInv, Sync PROVE GrantStep
<1>a. trgCache \in Group /\ Trg \in Group /\ trgCache.reason \in Reasons
  BY LatestTypes, Zenon DEF TypeOK, ObjectTypes, Group
<1>b. ~busy BY Zenon DEF Sync, SkipCompleted, HandleExpired, DelayReserveFailed, PendingHandler,
      CreatingHandler, ReserveFailedHandler, ReservedHandler, FailedHandler, TooFewListed,
      GroupReserved, GroupReserveFailed, KeepReserving, Handles, Dequeue
<1>c. \A ph \in GroupPhases : \A r, d :
                              /\ [trgCache EXCEPT !.phase = ph].phase = ph
                              /\ [trgCache EXCEPT !.phase = ph, !.reason = r].phase = ph
                              /\ [trgCache EXCEPT !.done = d].phase = trgCache.phase
                              /\ [Trg EXCEPT !.named = d].phase = Trg.phase
                              /\ [Trg EXCEPT !.phase = ph, !.reason = r].phase = ph
  BY <1>a, Zenon DEF Group
<1>d. trgCache \in Seen(trgCache, trgEvents) BY Zenon DEF Seen
<1>e. {"Pending", "Creating", "Reserving", "ReserveFailed", "Reserved", "Failed"}
        \subseteq GroupPhases
  BY Zenon DEF GroupPhases
<1>1. CASE SkipCompleted
  BY <1>1, SameWorkerStep, Zenon DEF SkipCompleted
<1>2. CASE HandleExpired
  <2> DEFINE v == [Trg EXCEPT !.phase = "Failed", !.reason = trgCache.reason]
  <2>1. v \in Group /\ v.phase = "Failed"
    BY <1>a, <1>c, <1>e, GroupUpdate, Zenon
  <2>2. WriteTrg(v) /\ ~busy' BY <1>2, <1>b, Zenon DEF HandleExpired, worker
  <2> HIDE DEF v
  <2>3. Moves(v.phase) /\ v.phase # "Reserved" BY <2>1, Zenon DEF Moves
  <2> QED BY <2>1, <2>2, <2>3, WriteGrant, Zenon
<1>3. CASE DelayReserveFailed
  BY <1>3, SameWorkerStep, Zenon DEF DelayReserveFailed
<1>4. CASE PendingHandler
  <2>a. trgCache.phase = "Pending" BY <1>4, Zenon DEF PendingHandler, Handles
  <2>1. CASE validate /\ ~trgCache.named
    <3> DEFINE v == [Trg EXCEPT !.named = TRUE]
    <3>1. v \in Group /\ v.phase = Trg.phase
      BY <1>a, <1>c, <1>e, GroupUpdate, Zenon
    <3>2. WriteTrg(v) /\ ~busy' BY <1>4, <2>1, <1>b, Zenon DEF PendingHandler, worker
    <3> HIDE DEF v
    <3>3. Trg.phase # "Reserved" BY <2>a, <1>d, Zenon DEF GrantInv, Granted, GrantPhases
    <3> QED BY <3>1, <3>2, <3>3, WriteGrant, Zenon DEF Moves
  <2>2. CASE ~(validate /\ ~trgCache.named)
    <3> DEFINE v == [trgCache EXCEPT !.phase = IF validate THEN "Creating" ELSE "Failed"]
    <3>1. v.phase \in {"Creating", "Failed"}
      <4>1. (IF validate THEN "Creating" ELSE "Failed") \in {"Creating", "Failed"}
        BY Zenon
      <4> QED BY <1>a, <4>1, Zenon DEF Group
    <3>2. Enter({}, NoTR, v) /\ UNCHANGED objects
      BY <1>4, <2>2, Zenon DEF PendingHandler, Begin
    <3> HIDE DEF v
    <3>3. v.phase # "Reserved" BY <3>1, Zenon
    <3>4. NoTR # "Reserving" /\ trgCache.phase \notin {"Failed", "Reserved"} BY <2>a, Zenon DEF NoTR
    <3> QED BY <1>b, <3>3, <3>4, <3>2, EnterGrant, Zenon
  <2> QED BY <2>1, <2>2, Zenon
<1>5. CASE CreatingHandler
  <2> DEFINE v == [trgCache EXCEPT !.phase = "Reserving"]
  <2>1. v.phase = "Reserving" BY <1>c, <1>e, Zenon
  <2>2. Enter(Parties, NoTR, v) /\ UNCHANGED objects /\ trgCache.phase = "Creating"
    BY <1>5, Zenon DEF CreatingHandler, Begin, Handles
  <2> HIDE DEF v
  <2> QED BY <1>b, <2>1, <2>2, EnterGrant, Zenon DEF NoTR
<1>6. CASE ReserveFailedHandler
  <2> DEFINE v == [trgCache EXCEPT !.phase = "Reserving"]
  <2>1. v.phase = "Reserving" BY <1>c, <1>e, Zenon
  <2>2. Enter(Parties, "Reserving", v) /\ UNCHANGED objects /\ trgCache.phase = "ReserveFailed"
    BY <1>6, Zenon DEF ReserveFailedHandler, Begin, Handles
  <2> HIDE DEF v
  <2> QED BY <1>b, <2>1, <2>2, EnterGrant, Zenon DEF NoTR
<1>7. CASE ReservedHandler
  <2> DEFINE v == [trgCache EXCEPT !.done = TRUE]
  <2>1. v.phase = trgCache.phase BY <1>c, <1>e, Zenon
  <2>2. Enter(Parties, "Schedulable", v) /\ UNCHANGED objects /\ trgCache.phase = "Reserved"
    BY <1>7, Zenon DEF ReservedHandler, Begin, Handles
  <2> HIDE DEF v
  <2> QED BY <1>b, <2>1, <2>2, EnterGrant, Zenon DEF NoTR, GrantPhases
<1>8. CASE FailedHandler
  <2> DEFINE v == [trgCache EXCEPT !.done = TRUE]
  <2>1. v.phase = trgCache.phase BY <1>c, <1>e, Zenon
  <2>2. Enter(Parties, "Failed", v) /\ UNCHANGED objects /\ trgCache.phase = "Failed"
    BY <1>8, Zenon DEF FailedHandler, Begin, Handles
  <2> HIDE DEF v
  <2> QED BY <1>b, <2>1, <2>2, EnterGrant, Zenon DEF NoTR
<1>9. CASE TooFewListed
  <2> DEFINE v == [trgCache EXCEPT !.phase = "Failed", !.reason = TooFew]
  <2>1. v.phase = "Failed" BY <1>c, <1>e, Zenon
  <2>2. Enter({}, NoTR, v) /\ UNCHANGED objects /\ trgCache.phase = "Reserving"
    BY <1>9, Zenon DEF TooFewListed, Begin, Handles
  <2> HIDE DEF v
  <2> QED BY <1>b, <2>1, <2>2, EnterGrant, Zenon DEF NoTR
<1>10. CASE GroupReserved
  <2> DEFINE v == [trgCache EXCEPT !.phase = "Reserved", !.reason = AllReserved]
  <2>1. v.phase = "Reserved" BY <1>c, <1>e, Zenon
  <2>2. Enter({}, NoTR, v) /\ UNCHANGED objects /\ trgCache.phase = "Reserving"
    BY <1>10, Zenon DEF GroupReserved, Begin, Handles
  <2> HIDE DEF v
  <2> QED BY <1>b, <2>1, <2>2, EnterGrant, Zenon DEF NoTR, GrantPhases
<1>11. CASE GroupReserveFailed
  <2> DEFINE remaining == Cardinality(Parties) - failedCount
             v == IF trgCache.reason = remaining THEN trgCache
                  ELSE [trgCache EXCEPT !.phase = "ReserveFailed", !.reason = remaining]
  <2>2. Enter(Parties, "Failed", v) /\ UNCHANGED objects /\ trgCache.phase = "Reserving"
    BY <1>11, Zenon DEF GroupReserveFailed, Begin, Handles
  <2> HIDE DEF remaining
  <2>1. v.phase \in {"Reserving", "ReserveFailed"}
    <3>1. CASE trgCache.reason = remaining BY <2>2, <3>1, Zenon
    <3>2. CASE trgCache.reason # remaining
      <4>1. v = [trgCache EXCEPT !.phase = "ReserveFailed", !.reason = remaining] BY <3>2, Zenon
      <4> HIDE DEF v
      <4> QED BY <1>c, <1>e, <4>1, Zenon
    <3> QED BY <3>1, <3>2, Zenon
  <2> HIDE DEF v
  <2>3. v.phase # "Reserved" BY <2>1, Zenon
  <2>4. "Failed" \notin {"Reserving", NoTR} /\ trgCache.phase \notin {"Failed", "Reserved"}
    BY <2>2, Zenon DEF NoTR
  <2> QED BY <1>b, <2>2, <2>3, <2>4, EnterGrant, Zenon
<1>12. CASE KeepReserving
  BY <1>12, SameWorkerStep, Zenon DEF KeepReserving
<1> QED BY <1>1, <1>2, <1>3, <1>4, <1>5, <1>6, <1>7, <1>8, <1>9, <1>10, <1>11, <1>12, Zenon DEF Sync

LEMMA WorkGrant == ASSUME TypeOK, GrantInv, Work PROVE GrantStep
<1>1. CASE UpdateStatus
  <2>1. CASE fresh /\ next # base
    <3>1. WriteTrg(next) /\ ~busy' /\ busy /\ next \in Group
      BY <1>1, <2>1, Zenon DEF UpdateStatus, Finish, TypeOK, WorkerTypes
    <3>2. trgEvents = <<>> /\ trgCache = base /\ Trg = base
      BY <2>1, <3>1, Zenon DEF GrantInv, ReadLast, Trg, Latest
    <3>3. Seen(trgCache, trgEvents) = {base}
      BY <3>2 DEF Seen
    <3>4. Moves(next.phase) BY <3>1, <3>2, Zenon DEF GrantInv, WorkerAims, Moves
    <3>5. next.phase = "Reserved" => base.phase \in GrantPhases
      BY <3>1, Zenon DEF GrantInv, WorkerAims, GrantPhases
    <3> QED BY <3>1, <3>3, <3>4, <3>5, WriteGrant, Zenon
  <2>2. CASE ~(fresh /\ next # base)
    BY <1>1, <2>2, FinishGrant, Zenon DEF UpdateStatus
  <2> QED BY <2>1, <2>2, Zenon
<1>2. ASSUME NEW p \in Parties, NEW ph \in TRPhases, busy, p \in todo, WriteTr(p, ph),
             todo' = todo \ {p}, UNCHANGED <<busy, base, fresh, target, next>>,
             ph = "Reserving" => base.phase \in {"Creating", "ReserveFailed"}
      PROVE  GrantStep
  <2>1. Trg' = Trg /\ Tr(p)' = ph /\ \A q \in Parties : q # p => Tr(q)' = Tr(q)
    BY <1>2, TrWritten, Zenon
  <2>2. UNCHANGED <<trgCache, trgEvents>> BY <1>2, Zenon DEF WriteTr
  <2>3. GrantInv' BY <1>2, <2>1, <2>2, Zenon DEF GrantInv, ReadLast, WorkerAims, Granted
  <2>4. ph = "Reserving" => Trg.phase # "Reserved"
    BY <1>2, Zenon DEF GrantInv, Granted, GrantPhases
  <2> QED BY <2>1, <2>3, <2>4, Zenon DEF GrantStep, Moves
<1>3. ASSUME NEW p, busy, UNCHANGED objects, todo' = todo \ {p},
             UNCHANGED <<busy, base, fresh, target, next>>
      PROVE  GrantStep
  <2>1. GrantInv'
    BY <1>3, SameObjects, Zenon DEF GrantInv, ReadLast, WorkerAims, Granted, objects
  <2> QED BY <1>3, <2>1, SameObjectsStep, Zenon
<1>4. ASSUME NEW p \in Parties, CreateTaskResource(p) PROVE GrantStep
  <2>1. CASE Tr(p) = NoTR
    <3>1. base.phase = "Creating" BY <1>4, Zenon DEF CreateTaskResource, GrantInv, WorkerAims
    <3>2. "Reserving" \in TRPhases BY Zenon DEF TRPhases
    <3> QED BY <1>2, <1>4, <2>1, <3>1, <3>2, Zenon DEF CreateTaskResource
  <2>2. CASE Tr(p) # NoTR BY <1>3, <1>4, <2>2, Zenon DEF CreateTaskResource
  <2> QED BY <2>1, <2>2, Zenon
<1>5. ASSUME NEW p \in Parties, PatchTaskResource(p) PROVE GrantStep
  <2>1. CASE WriteTr(p, target)
    <3>1. target = "Reserving" => base.phase = "ReserveFailed"
      BY <1>5, Zenon DEF PatchTaskResource, GrantInv, WorkerAims
    <3>2. target \in TRPhases BY Zenon DEF TypeOK, WorkerTypes
    <3> QED BY <1>2, <1>5, <2>1, <3>1, <3>2, Zenon DEF PatchTaskResource
  <2>2. CASE UNCHANGED objects BY <1>3, <1>5, <2>2, Zenon DEF PatchTaskResource
  <2> QED BY <1>5, <2>1, <2>2, Zenon DEF PatchTaskResource
<1> QED BY <1>1, <1>4, <1>5, Zenon DEF Work

\* UpdateStatusAgain left out, an API error or a restart takes no grant back.
LEMMA FaultyGrant == ASSUME TypeOK, GrantInv, Faulty, ~UpdateStatusAgain PROVE GrantStep
<1>1. CASE UpdateStatusFails BY <1>1, FinishGrant, Zenon DEF UpdateStatusFails
<1>2. CASE HandlerFails
  <2>1. CASE Finish BY <1>2, <2>1, FinishGrant, Zenon DEF HandlerFails
  <2>2. CASE ~Finish
    <3>1. /\ todo' = {} /\ next' = failTaskResourceGroup(next)
          /\ UNCHANGED <<objects, busy, base, fresh, target>>
      BY <1>2, <2>2, Zenon DEF HandlerFails
    <3>2. next \in Group BY Zenon DEF TypeOK, WorkerTypes
    <3>3. next'.phase = "Failed" BY <3>1, <3>2, Zenon DEF failTaskResourceGroup, Group
    <3>4. ReadLast' /\ Granted'
      BY <3>1, SameObjects, Zenon DEF GrantInv, ReadLast, Granted, objects
    <3>5. WorkerAims' BY <3>1, <3>3, Zenon DEF GrantInv, WorkerAims
    <3> QED BY <3>1, <3>4, <3>5, SameObjectsStep, Zenon DEF GrantInv
  <2> QED BY <2>1, <2>2, Zenon
<1>3. CASE HandlerFailsAtOnce
  <2>1. CASE UNCHANGED worker BY <1>3, <2>1, SameWorkerStep, Zenon DEF HandlerFailsAtOnce
  <2>2. CASE ~UNCHANGED worker
    <3> DEFINE v == failTaskResourceGroup(trgCache)
    <3>1. /\ Enter({}, NoTR, v) /\ UNCHANGED objects /\ ~busy
          /\ trgCache.phase \in {"Pending", "Reserving"}
      BY <1>3, <2>2, Zenon DEF HandlerFailsAtOnce
    <3>2. v.phase = "Failed" BY Zenon DEF failTaskResourceGroup, Group, TypeOK, ObjectTypes
    <3> HIDE DEF v
    <3>3. v.phase # "Reserved" BY <3>2, Zenon
    <3>4. NoTR # "Reserving" /\ trgCache.phase \notin {"Failed", "Reserved"} BY <3>1, Zenon DEF NoTR
    <3> QED BY <3>1, <3>3, <3>4, EnterGrant, Zenon
  <2> QED BY <2>1, <2>2, Zenon
<1>4. CASE HandleExpiredFails BY <1>4, SameWorkerStep, Zenon DEF HandleExpiredFails
<1>5. CASE Restart
  <2>1. /\ trgCache' = Trg /\ trgEvents' = <<>> /\ ~busy'
        /\ \A p \in Parties : trCache'[p] = Tr(p) /\ trEvents'[p] = <<>>
    BY <1>5, Zenon DEF Restart, Finish
  <2>2. Trg' = Trg /\ \A p \in Parties : Tr(p)' = Tr(p)
    <3>1. Trg' = Trg BY <2>1, Zenon DEF Trg, Latest
    <3>2. ASSUME NEW p \in Parties PROVE Latest(trCache'[p], trEvents'[p]) = Tr(p)
      BY <2>1, Zenon DEF Latest
    <3>. QED BY <3>1, <3>2, Zenon DEF Tr
  <2>3. Seen(trgCache, trgEvents)' = {Trg} BY <2>1 DEF Seen
  <2>4. GrantInv'
    BY <2>1, <2>2, <2>3, Zenon DEF GrantInv, ReadLast, WorkerAims, Granted, GrantPhases
  <2> QED BY <2>2, <2>4, Zenon DEF GrantStep, Moves
<1> QED BY <1>1, <1>2, <1>3, <1>4, <1>5, Zenon DEF Faulty

LEMMA DeliverGrant == ASSUME TypeOK, GrantInv, Deliver PROVE GrantStep
<1>1. CASE DeliverGroup
  <2>1. trgCache \in Group /\ trgEvents \in Seq(Group) /\ trgEvents # <<>>
    BY <1>1, Zenon DEF DeliverGroup, TypeOK, ObjectTypes
  <2>2. /\ trgCache' = Head(trgEvents) /\ trgEvents' = Tail(trgEvents)
        /\ UNCHANGED <<trCache, trEvents, worker>>
    BY <1>1, Zenon DEF DeliverGroup
  <2>3. Latest(Head(trgEvents), Tail(trgEvents)) = Latest(trgCache, trgEvents)
    BY <2>1, LatestTail, Zenon
  <2>4. Trg' = Trg BY <2>2, <2>3, Zenon DEF Trg
  <2>5. Seen(Head(trgEvents), Tail(trgEvents)) \subseteq Seen(trgCache, trgEvents)
    BY <2>1, SeenFacts, Zenon
  <2>6. Seen(trgCache, trgEvents)' \subseteq Seen(trgCache, trgEvents) BY <2>2, <2>5, Zenon
  <2>7. ReadLast' BY <2>1, <2>2, Zenon DEF GrantInv, ReadLast, worker
  <2>8. WorkerAims' /\ Granted' BY <2>2, <2>4, <2>6, Zenon DEF GrantInv, WorkerAims, Granted, worker
  <2>9. \A p \in Parties : Tr(p)' = Tr(p) BY <2>2, Zenon DEF Tr
  <2> QED BY <2>4, <2>7, <2>8, <2>9, Zenon DEF GrantStep, GrantInv, Moves
<1>2. ASSUME NEW p \in Parties, DeliverTaskResource(p) PROVE GrantStep
  <2>1. trCache[p] \in TRPhases /\ trEvents[p] \in Seq(TRPhases) /\ trEvents[p] # <<>>
    BY <1>2, Zenon DEF DeliverTaskResource, TypeOK, ObjectTypes
  <2>2. /\ trCache'[p] = Head(trEvents[p]) /\ trEvents'[p] = Tail(trEvents[p])
        /\ \A q \in Parties : q # p => trCache'[q] = trCache[q] /\ trEvents'[q] = trEvents[q]
        /\ UNCHANGED <<trgCache, trgEvents, worker>>
    BY <1>2, Zenon DEF DeliverTaskResource, TypeOK, ObjectTypes
  <2>3. Latest(Head(trEvents[p]), Tail(trEvents[p])) = Latest(trCache[p], trEvents[p])
    BY <2>1, LatestTail, Zenon
  <2>4. \A q \in Parties : Tr(q)' = Tr(q) BY <2>2, <2>3, Zenon DEF Tr
  <2>5. Trg' = Trg BY <2>2, Zenon DEF Trg
  <2>6. GrantInv' BY <2>2, <2>5, Zenon DEF GrantInv, ReadLast, WorkerAims, Granted, worker
  <2> QED BY <2>4, <2>5, <2>6, Zenon DEF GrantStep, Moves
<1> QED BY <1>1, <1>2, Zenon DEF Deliver

LEMMA OtherGrant ==
  ASSUME TypeOK, GrantInv, Time \/ TaskFails \/ \E p \in Parties : Scheduler(p)
  PROVE  GrantStep
<1>1. CASE Time
  BY <1>1, SameWorkerStep, Zenon DEF Time, Expire, RetryIntervalPasses, handleExpiredTrg,
                                handleReserveFailedTrg
<1>2. CASE TaskFails
  <2> DEFINE v == [Trg EXCEPT !.phase = "Failed"]
  <2>1. v \in Group /\ v.phase = "Failed"
    BY LatestTypes, Zenon DEF TypeOK, Group, GroupPhases
  <2>2. WriteTrg(v) /\ fresh' = FALSE /\ UNCHANGED <<busy, base, todo, target, next>>
    BY <1>2, Zenon DEF TaskFails
  <2> HIDE DEF v
  <2>3. Moves(v.phase) /\ v.phase # "Reserved" BY <2>1, Zenon DEF Moves
  <2> QED BY <2>1, <2>2, <2>3, WriteGrant, Zenon
<1>3. ASSUME NEW p \in Parties, NEW ph \in TRPhases, WriteTr(p, ph), ph # "Reserving",
             UNCHANGED worker
      PROVE  GrantStep
  <2>1. Trg' = Trg /\ Tr(p)' = ph /\ \A q \in Parties : q # p => Tr(q)' = Tr(q)
    BY <1>3, TrWritten, Zenon
  <2>2. UNCHANGED <<trgCache, trgEvents>> BY <1>3, Zenon DEF WriteTr
  <2>3. GrantInv' BY <1>3, <2>1, <2>2, Zenon DEF GrantInv, ReadLast, WorkerAims, Granted, worker
  <2> QED BY <1>3, <2>1, <2>3, Zenon DEF GrantStep, Moves
<1>4. ASSUME NEW p \in Parties, Scheduler(p) PROVE GrantStep
  <2>1. CASE ReadReserving(p) \/ Unreserve(p)
    BY <2>1, SameWorkerStep, Zenon DEF ReadReserving, Unreserve
  <2>2. "Reserved" \in TRPhases /\ "Failed" \in TRPhases BY Zenon DEF TRPhases
  <2>3. "Reserved" # "Reserving" /\ "Failed" # "Reserving" BY Zenon
  <2>4. CASE PatchReserved(p) BY <1>3, <2>2, <2>3, <2>4, Zenon DEF PatchReserved
  <2>5. CASE PatchFailed(p) BY <1>3, <2>2, <2>3, <2>5, Zenon DEF PatchFailed
  <2> QED BY <1>4, <2>1, <2>4, <2>5, Zenon DEF Scheduler
<1> QED BY <1>1, <1>2, <1>4, Zenon

LEMMA GrantKept ==
  ASSUME TypeOK, GrantInv, [Next]_vars, [~UpdateStatusAgain]_vars
  PROVE  GrantStep
<1>1. CASE Next /\ ~UpdateStatusAgain
  BY <1>1, SyncGrant, WorkGrant, FaultyGrant, DeliverGrant, OtherGrant, Zenon DEF Next
<1>2. CASE UNCHANGED vars
  BY <1>2, SameWorkerStep, Zenon DEF vars
<1> QED BY <1>1, <1>2, Zenon

LEMMA GrantInit == Init => GrantInv
<1> SUFFICES ASSUME Init PROVE GrantInv BY Zenon
<1>1. ~busy /\ Trg = NewGroup /\ NewGroup.phase = "Pending"
  BY Zenon DEF Init, Trg, Latest, NewGroup
<1> QED BY <1>1, Zenon DEF GrantInv, ReadLast, WorkerAims, Granted

\* The grant stands: as long as UpdateStatusAgain does not write over a version the
\* handler never read, no TaskResource goes back to Reserving while the group is
\* Reserved, whatever else fails and however often the controller restarts.
THEOREM GrantStands == Spec /\ [][~UpdateStatusAgain]_vars => NoResetAfterGrant
<1>1. TypeOK /\ GrantInv /\ [Next]_vars /\ [~UpdateStatusAgain]_vars
        => [\A p \in Parties : (Tr(p) # "Reserving" /\ Tr(p)' = "Reserving")
                                => Trg.phase # "Reserved"]_vars
  BY GrantKept, Zenon DEF GrantStep
<1>2. TypeOK /\ GrantInv /\ [Next]_vars /\ [~UpdateStatusAgain]_vars => GrantInv'
  BY GrantKept, Zenon DEF GrantStep
<1> QED BY <1>1, <1>2, GrantInit, TypeCorrect, PTL DEF Spec, NoResetAfterGrant

\* Under the same condition the controller implements the life of a group that the
\* task controller relies on: Reserving, then granted once or failed, and never back.
THEOREM GroupLifeRefined == Spec /\ [][~UpdateStatusAgain]_vars => ImplementsGroupLife
<1> DEFINE ph == IF Trg.phase \in {"Reserved", "Failed"} THEN Trg.phase ELSE "Reserving"
<1>1. Init => Life!Init
  <2> SUFFICES ASSUME Init PROVE ph \in {Life!None, "Reserving"}
    BY Zenon DEF Life!Init
  <2>1. Trg = NewGroup /\ NewGroup.phase = "Pending"
    BY Zenon DEF Init, Trg, Latest, NewGroup
  <2> QED BY <2>1, Zenon
<1>2. TypeOK /\ GrantInv /\ [Next]_vars /\ [~UpdateStatusAgain]_vars => GrantInv'
  BY GrantKept, Zenon DEF GrantStep
<1>3. TypeOK /\ GrantInv /\ [Next]_vars /\ [~UpdateStatusAgain]_vars => [Life!Next]_ph
  <2> SUFFICES ASSUME TypeOK, GrantInv, [Next]_vars, [~UpdateStatusAgain]_vars
               PROVE  Life!Next \/ ph' = ph
    BY Zenon
  <2>1. Moves(Trg'.phase) BY GrantKept, Zenon DEF GrantStep
  <2>2. \/ ph' = ph
        \/ ph # "none" /\ ph' = "Failed"
        \/ ph = "Reserving" /\ ph' = "Reserved"
    BY <2>1, Zenon DEF Moves
  <2> QED BY <2>2, Zenon DEF Life!Next, Life!Fail, Life!Grant, Life!None
<1> QED BY <1>1, <1>2, <1>3, GrantInit, TypeCorrect, PTL DEF Spec, ImplementsGroupLife, Life!Spec
=============================================================================
