---------------------------- MODULE PortProvider ----------------------------
(***************************************************************************)
(* The ports of one namespace: the Provider of                             *)
(* pkg/controllers/portflake/port, the informer handlers of                *)
(* pkg/controllers/portflake that tell it which pods exist, and the        *)
(* controllers that ask it for ports (allocatePorts of kusciatask and      *)
(* kusciadeployment).                                                      *)
(*                                                                         *)
(* A task asks once for the ports of all its parties in the namespace,     *)
(* records them in its status and creates the pods later.  The provider    *)
(* forgets a port that no pod has taken up after MaxNotVerifiedPortAge,    *)
(* and knows of a pod only when the informer has delivered its event.      *)
(* Time is kept as ages, in ticks.                                         *)
(***************************************************************************)
EXTENDS Integers, Sequences, FiniteSets

CONSTANTS Segments,               \* sequence of [min, max): the provider's ports
          Owners,                 \* pods and deployments of the namespace
          Tasks,                  \* the owners by the task they belong to
          Count,                  \* ports of one owner
          MaxNotVerifiedPortAge,
          Delay,                  \* bound on the age of ports no pod event took up
          MayRestart              \* the controller process may restart

Ports == UNION {Segments[i].min..(Segments[i].max - 1) : i \in DOMAIN Segments}

ASSUME SegmentsAssumption ==
  /\ Segments \in Seq([min : Nat, max : Nat]) /\ Segments # <<>>
  /\ \A i \in DOMAIN Segments : Segments[i].min < Segments[i].max
ASSUME TasksAssumption ==
  /\ IsFiniteSet(Owners) /\ "" \notin Owners
  /\ \A t \in Tasks : t \subseteq Owners
  /\ \A t, u \in Tasks : t = u \/ t \cap u = {}
ASSUME NumbersAssumption ==
  /\ Count \in Nat \ {0} /\ MaxNotVerifiedPortAge \in Nat /\ Delay \in Nat
  /\ MayRestart \in BOOLEAN

VARIABLES ports,          \* Provider.ports: port -> owner, "" until a pod takes it up
          portsToVerify,  \* Provider.portsToVerify: port -> age
          status,         \* per owner, the ports in its task's status
          age,            \* per owner, ticks since these were allocated
          pod,            \* per owner, the ports of its pod at the API server
          events,         \* per owner, events the informer has not delivered
          restarted       \* history: the process restarted while ports were in use

vars == <<ports, portsToVerify, status, age, pod, events, restarted>>

Free == Ports \ DOMAIN ports
Held(o) == status[o] \cup pod[o]
Without(f, S) == [x \in DOMAIN f \ S |-> f[x]]

(***************************************************************************)
(* port_choose.go.                                                         *)
(***************************************************************************)
SegmentOf(p) == CHOOSE i \in DOMAIN Segments : p \in Segments[i].min..(Segments[i].max - 1)

\* Mutant: the walk stays in the segment it began in.
AfterInSegment(p) ==
  LET i == SegmentOf(p)
  IN IF p + 1 < Segments[i].max THEN p + 1 ELSE Segments[i].min

After(p) ==
  LET i == SegmentOf(p)
  IN IF p + 1 < Segments[i].max THEN p + 1
     ELSE Segments[(i % Len(Segments)) + 1].min

\* The ports a walk of ChoosePortByIteration passes, from base on.
Walk(base) ==
  LET walk[i \in 0..Cardinality(Ports)] == IF i = 0 THEN base ELSE After(walk[i - 1])
  IN walk

\* ChoosePortByIteration stops at the first port that is base again or is valid.
Stops(base, valid) ==
  {i \in 1..Cardinality(Ports) : Walk(base)[i] \in valid \cup {base}}

ChoosePortByIteration(base, valid) ==
  Walk(base)[CHOOSE i \in Stops(base, valid) : \A j \in Stops(base, valid) : i <= j]

\* Allocate: the first port is any free one (ChoosePortByRandom, or a walk from where it
\* gave up), the others follow by iteration.
Chosen(s, n) ==
  /\ Len(s) = n
  /\ s[1] \in Free
  /\ \A i \in 2..n :
       LET valid == Free \ {s[j] : j \in 1..(i - 1)}
       IN s[i] = ChoosePortByIteration(s[i - 1], valid) /\ s[i] \in valid

\* The choices that the walk of Allocate can return.
PortChoices(n) == {s \in [1..n -> Free] : Chosen(s, n)}

Allocate(chosen) ==
  /\ ports' = [p \in DOMAIN ports \cup chosen |-> IF p \in chosen THEN "" ELSE ports[p]]
  /\ portsToVerify' =
       [p \in DOMAIN portsToVerify \cup chosen |-> IF p \in chosen THEN 0 ELSE portsToVerify[p]]

(***************************************************************************)
(* The controllers that use the provider.                                  *)
(***************************************************************************)
\* allocatePorts: one request for the task; every party takes its ports from the start
\* of the returned list, which is in no particular order.  (An owner's name is used
\* again only after the events of its last pod.)
allocatePorts(t) ==
  /\ \A o \in t : status[o] = {} /\ pod[o] = {} /\ events[o] = <<>>
  /\ \E s \in PortChoices(Count * Cardinality(t)) :
       LET chosen == {s[i] : i \in DOMAIN s}
       IN /\ Allocate(chosen)
          /\ \E first \in SUBSET chosen :
               /\ Cardinality(first) = Count
               /\ status' = [o \in Owners |-> IF o \in t THEN first ELSE status[o]]
  /\ age' = [o \in Owners |-> IF o \in t THEN 0 ELSE age[o]]
  /\ UNCHANGED <<pod, events, restarted>>

\* The status was not written, or the task failed before it had its pods.
GiveUp(o) ==
  /\ status[o] # {} /\ pod[o] = {} /\ events[o] = <<>>
  /\ status' = [status EXCEPT ![o] = {}]
  /\ age' = [age EXCEPT ![o] = 0]
  /\ UNCHANGED <<ports, portsToVerify, pod, events, restarted>>

CreatePod(o) ==
  /\ status[o] # {} /\ pod[o] = {} /\ events[o] = <<>>
  /\ pod' = [pod EXCEPT ![o] = status[o]]
  /\ events' = [events EXCEPT ![o] = Append(@, [type |-> "add", ports |-> status[o]])]
  /\ UNCHANGED <<ports, portsToVerify, status, age, restarted>>

\* The task is deleted with its pod.
DeletePod(o) ==
  /\ pod[o] # {}
  /\ events' = [events EXCEPT ![o] = Append(@, [type |-> "delete", ports |-> pod[o]])]
  /\ pod' = [pod EXCEPT ![o] = {}]
  /\ status' = [status EXCEPT ![o] = {}]
  /\ UNCHANGED <<ports, portsToVerify, age, restarted>>

(***************************************************************************)
(* The informer handlers of PortController, and its scan.                  *)
(***************************************************************************)
AddIndeed(o, added) ==
  LET mine == {p \in added : p \notin DOMAIN ports \/ ports[p] \in {"", o}}
  IN /\ ports' = [p \in DOMAIN ports \cup mine |-> IF p \in mine THEN o ELSE ports[p]]
     /\ portsToVerify' = Without(portsToVerify, mine)

\* Mutant: the owner is not recognised.
DeleteIndeedNotFound(o, deleted) == UNCHANGED <<ports, portsToVerify>>

DeleteIndeed(o, deleted) ==
  /\ ports' = Without(ports, {p \in deleted \cap DOMAIN ports : ports[p] = o})
  /\ UNCHANGED portsToVerify

handlePodEvent(o) ==
  /\ events[o] # <<>>
  /\ \/ Head(events[o]).type = "add" /\ AddIndeed(o, Head(events[o]).ports)
     \/ Head(events[o]).type = "delete" /\ DeleteIndeed(o, Head(events[o]).ports)
  /\ events' = [events EXCEPT ![o] = Tail(@)]
  /\ age' = [age EXCEPT ![o] = 0]
  /\ UNCHANGED <<status, pod, restarted>>

\* Mutant: unverified ports are dropped whatever their age.
CheckNotVerifiedForgetsAge ==
  /\ ports' = Without(ports, DOMAIN portsToVerify)
  /\ portsToVerify' = Without(portsToVerify, DOMAIN portsToVerify)
  /\ UNCHANGED <<status, age, pod, events, restarted>>

\* Mutant: unverified ports are never dropped.
CheckNotVerifiedNothing == UNCHANGED vars

CheckNotVerified ==
  LET old == {p \in DOMAIN portsToVerify : portsToVerify[p] >= MaxNotVerifiedPortAge}
  IN /\ ports' = Without(ports, old)
     /\ portsToVerify' = Without(portsToVerify, old)
     /\ UNCHANGED <<status, age, pod, events, restarted>>

\* An owner whose ports no event has taken up yet.
Pending(o) ==
  \/ status[o] # {} /\ pod[o] = {}
  \/ \E i \in DOMAIN events[o] : events[o][i].type = "add"

Tick ==
  /\ \A o \in Owners : Pending(o) => age[o] < Delay
  /\ age' = [o \in Owners |-> IF Pending(o) THEN age[o] + 1 ELSE age[o]]
  /\ portsToVerify' = [p \in DOMAIN portsToVerify |->
       IF portsToVerify[p] < MaxNotVerifiedPortAge THEN portsToVerify[p] + 1 ELSE portsToVerify[p]]
  /\ UNCHANGED <<ports, status, pod, events, restarted>>

\* A new process starts with an empty provider and lists the pods; the controllers that
\* allocate do not wait for it.
Restart ==
  /\ MayRestart
  /\ ports' = <<>> /\ portsToVerify' = <<>>
  /\ events' = [o \in Owners |->
       IF pod[o] = {} THEN <<>> ELSE << [type |-> "add", ports |-> pod[o]] >>]
  /\ age' = [o \in Owners |-> 0]
  /\ restarted' = (restarted \/ \E o \in Owners : Held(o) # {})
  /\ UNCHANGED <<status, pod>>

Init ==
  /\ ports = <<>> /\ portsToVerify = <<>>
  /\ status = [o \in Owners |-> {}] /\ age = [o \in Owners |-> 0]
  /\ pod = [o \in Owners |-> {}] /\ events = [o \in Owners |-> <<>>]
  /\ restarted = FALSE

Next ==
  \/ \E t \in Tasks : allocatePorts(t)
  \/ \E o \in Owners : GiveUp(o) \/ CreatePod(o) \/ DeletePod(o) \/ handlePodEvent(o)
  \/ CheckNotVerified \/ Tick \/ Restart

Spec == Init /\ [][Next]_vars

\* The informer delivers, the ticker scans and time passes.
FairSpec ==
  /\ Spec
  /\ \A o \in Owners : WF_vars(handlePodEvent(o)) /\ WF_vars(GiveUp(o) \/ CreatePod(o))
  /\ WF_vars(Tick) /\ WF_vars(CheckNotVerified)

(***************************************************************************)
(* Properties.                                                             *)
(***************************************************************************)
\* Two pods of a namespace never get the same port, whether the pod exists already or the
\* port is only recorded in the task's status, as long as the provider has not started
\* again, without knowing them, while ports were in use.
NoPortConflict == ~restarted => \A o, q \in Owners : Held(o) \cap Held(q) # {} => o = q

\* The provider's two tables stay true: a port waits for verification exactly as long as
\* no pod has taken it up, so the scan never takes a port from a pod the informer has
\* shown, and no port is kept for a pod that is gone once the informer said so.
TablesAccurate ==
  /\ DOMAIN portsToVerify = {p \in DOMAIN ports : ports[p] = ""}
  /\ \A p \in DOMAIN ports : ports[p] # "" =>
       \/ p \in pod[ports[p]]
       \/ \E i \in DOMAIN events[ports[p]] :
            events[ports[p]][i].type = "delete" /\ p \in events[ports[p]][i].ports

\* Allocate finds n ports whenever n are free, wherever the first choice falls: the walk
\* goes through every segment and comes back to where it began.
AllocateFindsFree ==
  \A first \in Free : \A n \in 1..Cardinality(Free) : \E s \in PortChoices(n) : s[1] = first

\* A port that no task has use for is handed out again in the end.
PortsComeBack ==
  \A p \in Ports : []<>(p \in Free \/ \E o \in Owners : p \in Held(o))
=============================================================================
