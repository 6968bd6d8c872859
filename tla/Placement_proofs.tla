-------------------------- MODULE Placement_proofs --------------------------
(***************************************************************************)
(* What a pod is given before it runs.  Its ports, for every set of port   *)
(* segments, owners, tasks and number of ports: the two tables of the      *)
(* provider stay accurate, and no two owners hold the same port when every *)
(* task has one party in the namespace and its pods are seen before        *)
(* MaxNotVerifiedPortAge.  Its node, for every number of pods and nodes    *)
(* and however far the lister is behind: a pod is bound only in a round    *)
(* the group controller granted, and two pods never patch the TaskResource *)
(* through one entry at the same time.                                     *)
(***************************************************************************)
EXTENDS PortProvider, KusciaScheduling, FiniteSetTheorems, TLAPS

(***************************************************************************)
(* The events of an owner that are still to be delivered: none; that its   *)
(* pod was added; that it was deleted; or both.                            *)
(***************************************************************************)
Add(S) == [type |-> "add", ports |-> S]
Del(S) == [type |-> "delete", ports |-> S]

Adds(e) == \E i \in DOMAIN e : e[i].type = "add"
Deletes(e, p) == \E i \in DOMAIN e : e[i].type = "delete" /\ p \in e[i].ports
Mentions(e, p) == \E i \in DOMAIN e : p \in e[i].ports

LEMMA NoEvent == DOMAIN <<>> = {} /\ ~Adds(<<>>) /\ \A p : ~Deletes(<<>>, p) /\ ~Mentions(<<>>, p)
  BY DEF Adds, Deletes, Mentions

LEMMA OneEvent ==
  ASSUME NEW S
  PROVE  /\ Adds(<<Add(S)>>) /\ ~Adds(<<Del(S)>>)
         /\ \A p : /\ ~Deletes(<<Add(S)>>, p) /\ (Mentions(<<Add(S)>>, p) <=> p \in S)
                   /\ (Deletes(<<Del(S)>>, p) <=> p \in S) /\ (Mentions(<<Del(S)>>, p) <=> p \in S)
<1>1. /\ Add(S).type = "add" /\ Add(S).ports = S
      /\ Del(S).type = "delete" /\ Del(S).ports = S
  BY Zenon DEF Add, Del
<1>2. \A x : DOMAIN <<x>> = {1} /\ <<x>>[1] = x OBVIOUS
<1>. QED BY <1>1, <1>2 DEF Adds, Deletes, Mentions

LEMMA TwoEvents ==
  ASSUME NEW S
  PROVE  /\ Adds(<<Add(S), Del(S)>>)
         /\ \A p : /\ Deletes(<<Add(S), Del(S)>>, p) <=> p \in S
                   /\ Mentions(<<Add(S), Del(S)>>, p) <=> p \in S
<1>1. /\ Add(S).type = "add" /\ Add(S).ports = S
      /\ Del(S).type = "delete" /\ Del(S).ports = S
  BY Zenon DEF Add, Del
<1>2. \A x, y : DOMAIN <<x, y>> = {1, 2} /\ <<x, y>>[1] = x /\ <<x, y>>[2] = y OBVIOUS
<1>. QED BY <1>1, <1>2 DEF Adds, Deletes, Mentions

LEMMA Appended ==
  ASSUME NEW T, NEW s \in Seq(T), NEW x \in T
  PROVE  /\ Append(s, x) \in Seq(T) /\ Len(Append(s, x)) = Len(s) + 1
         /\ \A i \in 1..Len(s) : Append(s, x)[i] = s[i]
         /\ Append(s, x)[Len(s) + 1] = x
  OBVIOUS

\* The deliveries.
LEMMA Delivered ==
  ASSUME NEW S
  PROVE  /\ <<Add(S)>> # <<>> /\ Head(<<Add(S)>>) = Add(S) /\ Tail(<<Add(S)>>) = <<>>
         /\ <<Del(S)>> # <<>> /\ Head(<<Del(S)>>) = Del(S) /\ Tail(<<Del(S)>>) = <<>>
         /\ <<Add(S), Del(S)>> # <<>> /\ Head(<<Add(S), Del(S)>>) = Add(S)
         /\ Tail(<<Add(S), Del(S)>>) = <<Del(S)>>
         /\ Append(<<>>, Add(S)) = <<Add(S)>> /\ Append(<<>>, Del(S)) = <<Del(S)>>
         /\ Append(<<Add(S)>>, Del(S)) = <<Add(S), Del(S)>>
         /\ Add(S).type = "add" /\ Del(S).type = "delete"
         /\ Add(S).ports = S /\ Del(S).ports = S
<1>1. /\ Add(S).type = "add" /\ Del(S).type = "delete" /\ Add(S).ports = S /\ Del(S).ports = S
  BY Zenon DEF Add, Del
<1>2. \A x : <<x>> # <<>> /\ Head(<<x>>) = x /\ Tail(<<x>>) = <<>> OBVIOUS
<1>3. \A x : Append(<<>>, x) = <<x>> OBVIOUS
<1>4. \A x, y : <<x, y>> # <<>> /\ Head(<<x, y>>) = x /\ Tail(<<x, y>>) = <<y>> OBVIOUS
<1>5. ASSUME NEW x, NEW y PROVE Append(<<x>>, y) = <<x, y>>
  <2>1. <<x>> \in Seq({x, y}) /\ <<x, y>> \in Seq({x, y}) /\ Len(<<x>>) = 1 /\ <<x>>[1] = x
        /\ Len(<<x, y>>) = 2 /\ <<x, y>>[1] = x /\ <<x, y>>[2] = y
    OBVIOUS
  <2>. DEFINE s == <<x>>
              r == <<x, y>>
  <2>. HIDE DEF s, r
  <2>2. s \in Seq({x, y}) /\ r \in Seq({x, y}) /\ Len(s) = 1 /\ s[1] = x
        /\ Len(r) = 2 /\ r[1] = x /\ r[2] = y
    BY <2>1, Zenon DEF s, r
  <2>3. /\ Append(s, y) \in Seq({x, y}) /\ Len(Append(s, y)) = 2
        /\ Append(s, y)[1] = x /\ Append(s, y)[2] = y
    BY <2>2, Appended
  <2>4. Append(s, y) = r BY <2>2, <2>3
  <2>. QED BY <2>4, Zenon DEF s, r
<1>. QED BY <1>1, <1>2, <1>3, <1>4, <1>5, Zenon

Shape(o) ==
  \/ events[o] = <<>>
  \/ pod[o] # {} /\ events[o] = <<Add(pod[o])>>
  \/ /\ pod[o] = {} /\ status[o] = {}
     /\ \E S \in SUBSET Ports : events[o] \in {<<Del(S)>>, <<Add(S), Del(S)>>}

Types ==
  /\ status \in [Owners -> SUBSET Ports] /\ pod \in [Owners -> SUBSET Ports]
  /\ age \in [Owners -> Nat] /\ DOMAIN events = Owners /\ events = [o \in Owners |-> events[o]]
  /\ restarted \in BOOLEAN
  /\ \A p \in DOMAIN portsToVerify : portsToVerify[p] \in Nat
  /\ \A p \in DOMAIN ports : ports[p] \in Owners \cup {""}

\* An owner's pod has the ports of its task's status.
PodInv == \A o \in Owners : pod[o] # {} => pod[o] = status[o]

Accurate ==
  /\ DOMAIN portsToVerify = {p \in DOMAIN ports : ports[p] = ""}
  /\ \A p \in DOMAIN ports : ports[p] # "" =>
       p \in pod[ports[p]] \/ Deletes(events[ports[p]], p)

IInv == Types /\ (\A o \in Owners : Shape(o)) /\ PodInv /\ Accurate

LEMMA InitInv == ASSUME Init PROVE IInv
<1>1. /\ ports = <<>> /\ portsToVerify = <<>> /\ restarted = FALSE
      /\ status = [o \in Owners |-> {}] /\ age = [o \in Owners |-> 0]
      /\ pod = [o \in Owners |-> {}] /\ events = [o \in Owners |-> <<>>]
  BY Zenon DEF Init
<1>2. DOMAIN ports = {} /\ DOMAIN portsToVerify = {} BY <1>1, NoEvent, Zenon
<1>3. Types BY <1>1, <1>2, Zenon DEF Types
<1>4. Accurate BY <1>2, Zenon DEF Accurate
<1>. QED BY <1>1, <1>3, <1>4, Zenon DEF IInv, Shape, PodInv

LEMMA AccurateIs == Accurate <=> TablesAccurate
  BY Zenon DEF Accurate, TablesAccurate, Deletes

LEMMA Removed ==
  \A f, S : /\ DOMAIN Without(f, S) = DOMAIN f \ S
            /\ \A x \in DOMAIN f \ S : Without(f, S)[x] = f[x]
  BY Zenon DEF Without

\* What a delivery does, by what was to be delivered.
LEMMA Delivery ==
  ASSUME IInv, NEW o \in Owners, handlePodEvent(o)
  PROVE  /\ UNCHANGED <<status, pod, restarted>> /\ age' = [age EXCEPT ![o] = 0]
         /\ DOMAIN events' = Owners /\ \A q \in Owners \ {o} : events'[q] = events[q]
         /\ events' = [q \in Owners |-> events'[q]]
         /\ \/ /\ pod[o] # {} /\ events[o] = <<Add(pod[o])>>
               /\ events'[o] = <<>> /\ AddIndeed(o, pod[o])
            \/ /\ pod[o] = {} /\ status[o] = {}
               /\ \E S \in SUBSET Ports :
                    \/ events[o] = <<Add(S), Del(S)>> /\ events'[o] = <<Del(S)>> /\ AddIndeed(o, S)
                    \/ events[o] = <<Del(S)>> /\ events'[o] = <<>> /\ DeleteIndeed(o, S)
<1>1. /\ DOMAIN events = Owners /\ events = [q \in Owners |-> events[q]] /\ Shape(o)
  BY Zenon DEF IInv, Types
<1>2. /\ UNCHANGED <<status, pod, restarted>> /\ age' = [age EXCEPT ![o] = 0]
      /\ events[o] # <<>> /\ events' = [events EXCEPT ![o] = Tail(@)]
      /\ \/ Head(events[o]).type = "add" /\ AddIndeed(o, Head(events[o]).ports)
         \/ Head(events[o]).type = "delete" /\ DeleteIndeed(o, Head(events[o]).ports)
  BY Zenon DEF handlePodEvent
<1>3. /\ DOMAIN events' = Owners /\ \A q \in Owners \ {o} : events'[q] = events[q]
      /\ events' = [q \in Owners |-> events'[q]] /\ events'[o] = Tail(events[o])
  BY <1>1, <1>2, Zenon
<1>4. ASSUME NEW S, events[o] = <<Add(S)>> \/ events[o] = <<Add(S), Del(S)>>
      PROVE  AddIndeed(o, S)
  <2>1. Head(events[o]) = Add(S) BY <1>4, Delivered, Zenon
  <2>2. Head(events[o]).type = "add" /\ Head(events[o]).ports = S BY <2>1, Delivered, Zenon
  <2>3. Head(events[o]).type # "delete" BY <2>2, Zenon
  <2>. QED BY <1>2, <2>2, <2>3, Zenon
<1>5. ASSUME NEW S, events[o] = <<Del(S)>> PROVE DeleteIndeed(o, S)
  <2>1. Head(events[o]) = Del(S) BY <1>5, Delivered, Zenon
  <2>2. Head(events[o]).type = "delete" /\ Head(events[o]).ports = S BY <2>1, Delivered, Zenon
  <2>3. Head(events[o]).type # "add" BY <2>2, Zenon
  <2>. QED BY <1>2, <2>2, <2>3, Zenon
<1>6. CASE pod[o] # {} /\ events[o] = <<Add(pod[o])>>
  <2>1. AddIndeed(o, pod[o]) /\ events'[o] = Tail(<<Add(pod[o])>>) BY <1>3, <1>4, <1>6, Zenon
  <2>2. events'[o] = <<>> BY <2>1, Delivered, Zenon
  <2>. QED BY <1>2, <1>3, <1>6, <2>1, <2>2, Zenon
<1>7. ASSUME pod[o] = {}, status[o] = {}, NEW S \in SUBSET Ports,
             events[o] \in {<<Del(S)>>, <<Add(S), Del(S)>>}
      PROVE  \/ events[o] = <<Add(S), Del(S)>> /\ events'[o] = <<Del(S)>> /\ AddIndeed(o, S)
             \/ events[o] = <<Del(S)>> /\ events'[o] = <<>> /\ DeleteIndeed(o, S)
  <2>1. CASE events[o] = <<Del(S)>>
    <3>1. events'[o] = <<>> BY <1>3, <2>1, Delivered, Zenon
    <3>. QED BY <1>5, <2>1, <3>1, Zenon
  <2>2. CASE events[o] = <<Add(S), Del(S)>>
    <3>1. events'[o] = <<Del(S)>> BY <1>3, <2>2, Delivered, Zenon
    <3>. QED BY <1>4, <2>2, <3>1, Zenon
  <2>. QED BY <1>7, <2>1, <2>2, Zenon
<1>. QED BY <1>1, <1>2, <1>3, <1>6, <1>7, Zenon DEF Shape

\* allocatePorts: the ports were free, and those of a task whose owners have none.
LEMMA Allocated ==
  ASSUME IInv, NEW t \in Tasks, allocatePorts(t)
  PROVE  /\ t \subseteq Owners
         /\ \A o \in t : status[o] = {} /\ pod[o] = {} /\ events[o] = <<>>
         /\ UNCHANGED <<pod, events, restarted>>
         /\ age' = [o \in Owners |-> IF o \in t THEN 0 ELSE age[o]]
         /\ \E chosen \in SUBSET Free :
              /\ Allocate(chosen)
              /\ \E first \in SUBSET chosen :
                   status' = [o \in Owners |-> IF o \in t THEN first ELSE status[o]]
<1>1. t \subseteq Owners BY TasksAssumption, Zenon
<1>2. PICK s \in PortChoices(Count * Cardinality(t)) :
        LET chosen == {s[i] : i \in DOMAIN s}
        IN /\ Allocate(chosen)
           /\ \E first \in SUBSET chosen :
                /\ Cardinality(first) = Count
                /\ status' = [o \in Owners |-> IF o \in t THEN first ELSE status[o]]
  BY Zenon DEF allocatePorts
<1>3. s \in [1..(Count * Cardinality(t)) -> Free] BY Zenon DEF PortChoices
<1>4. {s[i] : i \in DOMAIN s} \in SUBSET Free BY <1>3, Zenon
<1>5. /\ \A o \in t : status[o] = {} /\ pod[o] = {} /\ events[o] = <<>>
      /\ UNCHANGED <<pod, events, restarted>>
      /\ age' = [o \in Owners |-> IF o \in t THEN 0 ELSE age[o]]
  BY Zenon DEF allocatePorts
<1>. QED BY <1>1, <1>2, <1>4, <1>5, Zenon

\* Allocate, in the tables.
LEMMA AllocateTables ==
  ASSUME NEW chosen, Allocate(chosen)
  PROVE  /\ DOMAIN ports' = DOMAIN ports \cup chosen
         /\ DOMAIN portsToVerify' = DOMAIN portsToVerify \cup chosen
         /\ \A p \in chosen : ports'[p] = "" /\ portsToVerify'[p] = 0
         /\ \A p \in DOMAIN ports \ chosen : ports'[p] = ports[p]
         /\ \A p \in DOMAIN portsToVerify \ chosen : portsToVerify'[p] = portsToVerify[p]
  BY Zenon DEF Allocate

LEMMA AllocateSafe ==
  ASSUME IInv, NEW t \in Tasks, allocatePorts(t)
  PROVE  IInv'
<1>1. PICK chosen \in SUBSET Free : /\ Allocate(chosen)
              /\ \E first \in SUBSET chosen :
                   status' = [o \in Owners |-> IF o \in t THEN first ELSE status[o]]
  BY Allocated, Zenon
<1>2. PICK first \in SUBSET chosen :
        status' = [o \in Owners |-> IF o \in t THEN first ELSE status[o]]
  BY <1>1, Zenon
<1>3. /\ t \subseteq Owners /\ UNCHANGED <<pod, events, restarted>>
      /\ \A o \in t : status[o] = {} /\ pod[o] = {} /\ events[o] = <<>>
      /\ age' = [o \in Owners |-> IF o \in t THEN 0 ELSE age[o]]
  BY Allocated, Zenon
<1>4. first \subseteq Ports /\ chosen \cap DOMAIN ports = {} BY Zenon DEF Free
<1>9. /\ DOMAIN ports' = DOMAIN ports \cup chosen
      /\ DOMAIN portsToVerify' = DOMAIN portsToVerify \cup chosen
      /\ \A p \in chosen : ports'[p] = "" /\ portsToVerify'[p] = 0
      /\ \A p \in DOMAIN ports \ chosen : ports'[p] = ports[p]
      /\ \A p \in DOMAIN portsToVerify \ chosen : portsToVerify'[p] = portsToVerify[p]
  BY <1>1, AllocateTables, Zenon
<1>5. Types'
  <2>1. status' \in [Owners -> SUBSET Ports] /\ age' \in [Owners -> Nat]
    BY <1>2, <1>3, <1>4, Zenon DEF IInv, Types
  <2>2. /\ \A p \in DOMAIN portsToVerify : portsToVerify[p] \in Nat
        /\ \A p \in DOMAIN ports : ports[p] \in Owners \cup {""}
    BY Zenon DEF IInv, Types
  <2>3. \A p \in DOMAIN portsToVerify' : portsToVerify'[p] \in Nat
    <3>0. 0 \in Nat BY Zenon
    <3>1. \A p \in chosen : portsToVerify'[p] \in Nat BY <1>9, <3>0, Zenon
    <3>2. \A p \in DOMAIN portsToVerify \ chosen : portsToVerify'[p] \in Nat BY <1>9, <2>2, Zenon
    <3>. QED BY <1>9, <3>1, <3>2, Zenon
  <2>4. \A p \in DOMAIN ports' : ports'[p] \in Owners \cup {""} BY <1>9, <2>2, Zenon
  <2>. QED BY <1>3, <2>1, <2>3, <2>4, Zenon DEF IInv, Types
<1>6. \A o \in Owners : Shape(o)' BY <1>2, <1>3, Zenon DEF IInv, Shape
<1>7. PodInv' BY <1>2, <1>3, Zenon DEF IInv, PodInv
<1>8. Accurate'
  <2>1. DOMAIN portsToVerify' = {p \in DOMAIN ports' : ports'[p] = ""}
    BY <1>4, <1>9, Zenon DEF IInv, Accurate
  <2>2. \A p \in DOMAIN ports' : ports'[p] # "" => p \in DOMAIN ports /\ ports'[p] = ports[p]
    BY <1>9, Zenon
  <2>. QED BY <1>3, <2>1, <2>2, Zenon DEF IInv, Accurate
<1>. QED BY <1>5, <1>6, <1>7, <1>8, Zenon DEF IInv

\* AddIndeed: the ports that are recorded as o's.
Mine(o, S) == {p \in S : p \notin DOMAIN ports \/ ports[p] \in {"", o}}

LEMMA AddTables ==
  ASSUME NEW o, NEW S, AddIndeed(o, S)
  PROVE  /\ DOMAIN ports' = DOMAIN ports \cup Mine(o, S)
         /\ \A p \in Mine(o, S) : ports'[p] = o
         /\ \A p \in DOMAIN ports \ Mine(o, S) : ports'[p] = ports[p]
         /\ DOMAIN portsToVerify' = DOMAIN portsToVerify \ Mine(o, S)
         /\ \A p \in DOMAIN portsToVerify \ Mine(o, S) : portsToVerify'[p] = portsToVerify[p]
<1>1. /\ ports' = [p \in DOMAIN ports \cup Mine(o, S) |-> IF p \in Mine(o, S) THEN o ELSE ports[p]]
      /\ portsToVerify' = Without(portsToVerify, Mine(o, S))
  BY Zenon DEF AddIndeed, Mine
<1>. QED BY <1>1, Removed, Zenon

LEMMA DeleteTables ==
  ASSUME NEW o, NEW S, DeleteIndeed(o, S)
  PROVE  /\ DOMAIN ports' = DOMAIN ports \ {p \in S \cap DOMAIN ports : ports[p] = o}
         /\ \A p \in DOMAIN ports' : ports'[p] = ports[p]
         /\ portsToVerify' = portsToVerify
  BY Removed DEF DeleteIndeed

LEMMA DeliverySafe ==
  ASSUME IInv, NEW o \in Owners, handlePodEvent(o)
  PROVE  IInv'
<1>1. /\ UNCHANGED <<status, pod, restarted>> /\ age' = [age EXCEPT ![o] = 0]
      /\ DOMAIN events' = Owners /\ \A q \in Owners \ {o} : events'[q] = events[q]
      /\ events' = [q \in Owners |-> events'[q]]
  BY Delivery, Zenon
<1>2. o # "" BY TasksAssumption, Zenon
<1>3. ASSUME NEW S \in SUBSET Ports, AddIndeed(o, S), Shape(o)',
             \A p \in S : p \in pod[o] \/ Deletes(events'[o], p),
             \A p : Deletes(events[o], p) => Deletes(events'[o], p)
      PROVE  IInv'
  <2>. DEFINE mine == Mine(o, S)
  <2>1. /\ DOMAIN ports' = DOMAIN ports \cup mine
        /\ \A p \in mine : ports'[p] = o
        /\ \A p \in DOMAIN ports \ mine : ports'[p] = ports[p]
        /\ DOMAIN portsToVerify' = DOMAIN portsToVerify \ mine
        /\ \A p \in DOMAIN portsToVerify \ mine : portsToVerify'[p] = portsToVerify[p]
    BY <1>3, AddTables, Zenon
  <2>2. mine \subseteq S /\ \A p \in mine : p \notin DOMAIN ports \/ ports[p] \in {"", o}
    BY Zenon DEF Mine
  <2>. HIDE DEF mine
  <2>3. Types' BY <1>1, <2>1, Zenon DEF IInv, Types
  <2>4. \A q \in Owners : Shape(q)' BY <1>1, <1>3, Zenon DEF IInv, Shape
  <2>5. PodInv' BY <1>1, Zenon DEF IInv, PodInv
  <2>6. DOMAIN portsToVerify' = {p \in DOMAIN ports' : ports'[p] = ""}
    BY <1>2, <2>1, <2>2, Zenon DEF IInv, Accurate
  <2>7. ASSUME NEW p \in DOMAIN ports', ports'[p] # ""
        PROVE  p \in pod[ports'[p]] \/ Deletes(events'[ports'[p]], p)
    <3>1. CASE p \in mine BY <1>3, <2>1, <2>2, <3>1, Zenon
    <3>2. CASE p \notin mine
      <4>1. p \in DOMAIN ports /\ ports'[p] = ports[p] /\ ports[p] \in Owners
        BY <2>1, <2>7, <3>2, Zenon DEF IInv, Types
      <4>2. p \in pod[ports[p]] \/ Deletes(events[ports[p]], p)
        BY <2>7, <4>1, Zenon DEF IInv, Accurate
      <4>. QED BY <1>1, <1>3, <4>1, <4>2, Zenon
    <3>. QED BY <3>1, <3>2, Zenon
  <2>8. Accurate' BY <1>1, <2>6, <2>7, Zenon DEF Accurate
  <2>. QED BY <2>3, <2>4, <2>5, <2>8, Zenon DEF IInv
<1>4. CASE events[o] = <<Add(pod[o])>> /\ events'[o] = <<>> /\ AddIndeed(o, pod[o])
  <2>1. Shape(o)' BY <1>4, Zenon DEF Shape
  <2>2. \A p : ~Deletes(events[o], p)
    <3>1. \A p : ~Deletes(<<Add(pod[o])>>, p) BY OneEvent, Zenon
    <3>. QED BY <1>4, <3>1, Zenon
  <2>3. pod[o] \in SUBSET Ports BY Zenon DEF IInv, Types
  <2>. QED BY <1>3, <1>4, <2>1, <2>2, <2>3, Zenon
<1>5. ASSUME pod[o] = {}, status[o] = {}, NEW S \in SUBSET Ports,
             events[o] = <<Add(S), Del(S)>>, events'[o] = <<Del(S)>>, AddIndeed(o, S)
      PROVE  IInv'
  <2>1. Shape(o)' BY <1>1, <1>5, Zenon DEF Shape
  <2>2. \A p : (Deletes(events[o], p) <=> p \in S) /\ (Deletes(events'[o], p) <=> p \in S)
    <3>1. \A p : /\ (Deletes(<<Add(S), Del(S)>>, p) <=> p \in S)
                 /\ (Deletes(<<Del(S)>>, p) <=> p \in S)
      BY OneEvent, TwoEvents, Zenon
    <3>. QED BY <1>5, <3>1, Zenon
  <2>. QED BY <1>3, <1>5, <2>1, <2>2, Zenon
<1>6. ASSUME pod[o] = {}, status[o] = {}, NEW S \in SUBSET Ports,
             events[o] = <<Del(S)>>, events'[o] = <<>>, DeleteIndeed(o, S)
      PROVE  IInv'
  <2>1. /\ DOMAIN ports' = DOMAIN ports \ {p \in S \cap DOMAIN ports : ports[p] = o}
        /\ \A p \in DOMAIN ports' : ports'[p] = ports[p]
        /\ portsToVerify' = portsToVerify
    BY <1>6, DeleteTables, Zenon
  <2>2. Types' BY <1>1, <2>1, Zenon DEF IInv, Types
  <2>3. \A q \in Owners : Shape(q)' BY <1>1, <1>6, Zenon DEF IInv, Shape
  <2>4. PodInv' BY <1>1, Zenon DEF IInv, PodInv
  <2>5. DOMAIN portsToVerify' = {p \in DOMAIN ports' : ports'[p] = ""}
    BY <1>2, <2>1, Zenon DEF IInv, Accurate
  <2>6. ASSUME NEW p \in DOMAIN ports', ports'[p] # ""
        PROVE  p \in pod[ports'[p]] \/ Deletes(events'[ports'[p]], p)
    <3>1. p \in DOMAIN ports /\ ports'[p] = ports[p] /\ ports[p] \in Owners
      BY <2>1, <2>6, Zenon DEF IInv, Types
    <3>2. p \in pod[ports[p]] \/ Deletes(events[ports[p]], p)
      BY <2>6, <3>1, Zenon DEF IInv, Accurate
    <3>3. ports[p] # o
      <4>1. SUFFICES ASSUME ports[p] = o PROVE FALSE BY Zenon
      <4>2. p \in S BY <1>6, <3>2, <4>1, OneEvent
      <4>. QED BY <2>1, <3>1, <4>1, <4>2, Zenon
    <3>. QED BY <1>1, <3>1, <3>2, <3>3, Zenon
  <2>7. Accurate' BY <1>1, <2>5, <2>6, Zenon DEF Accurate
  <2>. QED BY <2>2, <2>3, <2>4, <2>7, Zenon DEF IInv
<1>. QED BY <1>4, <1>5, <1>6, Delivery, Zenon

\* The pods come and go; the tables stay.
LEMMA PodsSafe ==
  ASSUME IInv, NEW o \in Owners, GiveUp(o) \/ CreatePod(o) \/ DeletePod(o)
  PROVE  IInv'
<1>0. /\ Types /\ PodInv /\ Accurate /\ Shape(o) /\ \A q \in Owners : Shape(q)
      /\ status \in [Owners -> SUBSET Ports] /\ pod \in [Owners -> SUBSET Ports]
      /\ age \in [Owners -> Nat] /\ DOMAIN events = Owners /\ events = [q \in Owners |-> events[q]]
  BY Zenon DEF IInv, Types
<1>1. UNCHANGED <<ports, portsToVerify, restarted>>
  BY Zenon DEF GiveUp, CreatePod, DeletePod
<1>2. CASE GiveUp(o)
  <2>1. /\ pod[o] = {} /\ events[o] = <<>> /\ status' = [status EXCEPT ![o] = {}]
        /\ age' = [age EXCEPT ![o] = 0] /\ UNCHANGED <<pod, events>>
    BY <1>2, Zenon DEF GiveUp
  <2>2. Types' BY <1>0, <1>1, <2>1, Zenon DEF Types
  <2>3. \A q \in Owners : Shape(q)' BY <1>0, <2>1, Zenon DEF Shape
  <2>4. PodInv' BY <1>0, <2>1, Zenon DEF PodInv
  <2>5. Accurate' BY <1>0, <1>1, <2>1, Zenon DEF Accurate
  <2>. QED BY <2>2, <2>3, <2>4, <2>5, Zenon DEF IInv
<1>3. CASE CreatePod(o)
  <2>1. /\ pod[o] = {} /\ events[o] = <<>> /\ pod' = [pod EXCEPT ![o] = status[o]]
        /\ events' = [events EXCEPT ![o] = Append(@, Add(status[o]))]
        /\ UNCHANGED <<status, age>>
    BY <1>3, Zenon DEF CreatePod, Add
  <2>2. /\ DOMAIN events' = Owners /\ events' = [q \in Owners |-> events'[q]]
        /\ \A q \in Owners \ {o} : events'[q] = events[q] /\ pod'[q] = pod[q]
        /\ events'[o] = Append(<<>>, Add(status[o])) /\ pod'[o] = status[o]
    BY <1>0, <2>1, Zenon
  <2>3. events'[o] = <<Add(pod'[o])>> BY <2>2, Delivered, Zenon
  <2>4. Types' BY <1>0, <1>1, <2>1, <2>2, Zenon DEF Types
  <2>5. \A q \in Owners : Shape(q)'
    <3>1. pod'[o] # {} BY <1>3, <2>2, Zenon DEF CreatePod
    <3>3. Shape(o)' BY <2>3, <3>1, Zenon DEF Shape
    <3>2. ASSUME NEW q \in Owners \ {o} PROVE Shape(q)'
      BY <1>0, <2>1, <2>2, Zenon DEF Shape
    <3>. QED BY <3>2, <3>3, Zenon
  <2>6. PodInv' BY <1>0, <2>1, <2>2, Zenon DEF PodInv
  <2>7. Accurate'
    <3>1. ASSUME NEW p \in DOMAIN ports, ports[p] # ""
          PROVE  p \in pod'[ports[p]] \/ Deletes(events'[ports[p]], p)
      <4>1. ports[p] \in Owners /\ (p \in pod[ports[p]] \/ Deletes(events[ports[p]], p))
        BY <1>0, <3>1, Zenon DEF Types, Accurate
      <4>2. ports[p] # o BY <2>1, <4>1, NoEvent, Zenon
      <4>. QED BY <2>2, <4>1, <4>2, Zenon
    <3>. QED BY <1>0, <1>1, <3>1, Zenon DEF Accurate
  <2>. QED BY <2>4, <2>5, <2>6, <2>7, Zenon DEF IInv
<1>4. CASE DeletePod(o)
  <2>1. /\ pod[o] # {} /\ pod' = [pod EXCEPT ![o] = {}] /\ status' = [status EXCEPT ![o] = {}]
        /\ events' = [events EXCEPT ![o] = Append(@, Del(pod[o]))]
        /\ UNCHANGED age
    BY <1>4, Zenon DEF DeletePod, Del
  <2>2. /\ DOMAIN events' = Owners /\ events' = [q \in Owners |-> events'[q]]
        /\ \A q \in Owners \ {o} : /\ events'[q] = events[q] /\ pod'[q] = pod[q]
                                   /\ status'[q] = status[q]
        /\ events'[o] = Append(events[o], Del(pod[o])) /\ pod'[o] = {} /\ status'[o] = {}
    BY <1>0, <2>1, Zenon
  <2>3. pod[o] \in SUBSET Ports
        /\ events'[o] \in {<<Del(pod[o])>>, <<Add(pod[o]), Del(pod[o])>>}
    <3>1. events[o] = <<>> \/ events[o] = <<Add(pod[o])>> BY <1>0, <2>1, Zenon DEF Shape
    <3>2. Append(<<>>, Del(pod[o])) = <<Del(pod[o])>>
          /\ Append(<<Add(pod[o])>>, Del(pod[o])) = <<Add(pod[o]), Del(pod[o])>>
      BY Delivered, Zenon
    <3>. QED BY <1>0, <2>2, <3>1, <3>2, Zenon
  <2>4. Types' BY <1>0, <1>1, <2>1, <2>2, Zenon DEF Types
  <2>5. \A q \in Owners : Shape(q)'
    <3>1. Shape(o)' BY <2>2, <2>3, Zenon DEF Shape
    <3>2. ASSUME NEW q \in Owners \ {o} PROVE Shape(q)'
      BY <1>0, <2>2, Zenon DEF Shape
    <3>. QED BY <3>1, <3>2, Zenon
  <2>6. PodInv' BY <1>0, <2>1, <2>2, Zenon DEF PodInv
  <2>7. Accurate'
    <3>1. ASSUME NEW p \in DOMAIN ports, ports[p] # ""
          PROVE  p \in pod'[ports[p]] \/ Deletes(events'[ports[p]], p)
      <4>1. ports[p] \in Owners /\ (p \in pod[ports[p]] \/ Deletes(events[ports[p]], p))
        BY <1>0, <3>1, Zenon DEF Types, Accurate
      <4>2. CASE ports[p] = o
        <5>1. \A S : /\ Deletes(<<Del(S)>>, p) <=> p \in S
                     /\ Deletes(<<Add(S), Del(S)>>, p) <=> p \in S
          BY OneEvent, TwoEvents, Zenon
        <5>2. Deletes(events'[o], p) <=> p \in pod[o] BY <2>3, <5>1, Zenon
        <5>3. ~Deletes(events[o], p)
          <6>1. events[o] = <<>> \/ events[o] = <<Add(pod[o])>> BY <1>0, <2>1, Zenon DEF Shape
          <6>2. ~Deletes(<<>>, p) /\ ~Deletes(<<Add(pod[o])>>, p) BY NoEvent, OneEvent, Zenon
          <6>. QED BY <6>1, <6>2, Zenon
        <5>. QED BY <4>1, <4>2, <5>2, <5>3, Zenon
      <4>3. CASE ports[p] # o BY <2>2, <4>1, <4>3, Zenon
      <4>. QED BY <4>2, <4>3, Zenon
    <3>. QED BY <1>0, <1>1, <3>1, Zenon DEF Accurate
  <2>. QED BY <2>4, <2>5, <2>6, <2>7, Zenon DEF IInv
<1>. QED BY <1>2, <1>3, <1>4, Zenon

\* The scan, time, and a new process.
LEMMA OthersSafe ==
  ASSUME IInv, CheckNotVerified \/ Tick \/ Restart \/ UNCHANGED vars
  PROVE  IInv'
<1>0. /\ Types /\ PodInv /\ Accurate /\ \A q \in Owners : Shape(q)
      /\ age \in [Owners -> Nat]
  BY Zenon DEF IInv, Types
<1>1. CASE CheckNotVerified
  <2>. DEFINE old == {p \in DOMAIN portsToVerify : portsToVerify[p] >= MaxNotVerifiedPortAge}
  <2>1. /\ ports' = Without(ports, old) /\ portsToVerify' = Without(portsToVerify, old)
        /\ UNCHANGED <<status, age, pod, events, restarted>>
    BY <1>1, Zenon DEF CheckNotVerified
  <2>. HIDE DEF old
  <2>2. /\ DOMAIN ports' = DOMAIN ports \ old /\ DOMAIN portsToVerify' = DOMAIN portsToVerify \ old
        /\ \A p \in DOMAIN ports' : ports'[p] = ports[p]
        /\ \A p \in DOMAIN portsToVerify' : portsToVerify'[p] = portsToVerify[p]
    <3>1. /\ DOMAIN ports' = DOMAIN ports \ old
          /\ \A p \in DOMAIN ports \ old : ports'[p] = ports[p]
      BY <2>1, Zenon DEF Without
    <3>2. /\ DOMAIN portsToVerify' = DOMAIN portsToVerify \ old
          /\ \A p \in DOMAIN portsToVerify \ old : portsToVerify'[p] = portsToVerify[p]
      BY <2>1, Zenon DEF Without
    <3>. QED BY <3>1, <3>2, Zenon
  <2>3. Types' BY <1>0, <2>1, <2>2, Zenon DEF Types
  <2>4. Accurate' BY <1>0, <2>1, <2>2, Zenon DEF Accurate
  <2>. QED BY <1>0, <2>1, <2>3, <2>4, Zenon DEF IInv, Shape, PodInv
<1>2. CASE Tick
  <2>1. /\ age' = [o \in Owners |-> IF Pending(o) THEN age[o] + 1 ELSE age[o]]
        /\ DOMAIN portsToVerify' = DOMAIN portsToVerify
        /\ \A p \in DOMAIN portsToVerify :
             portsToVerify'[p] \in {portsToVerify[p], portsToVerify[p] + 1}
        /\ UNCHANGED <<ports, status, pod, events, restarted>>
    BY <1>2, Zenon DEF Tick
  <2>2. age' \in [Owners -> Nat] BY <1>0, <2>1
  <2>5. \A p \in DOMAIN portsToVerify' : portsToVerify'[p] \in Nat
    <3>1. ASSUME NEW p \in DOMAIN portsToVerify PROVE portsToVerify'[p] \in Nat
      <4>1. portsToVerify[p] \in Nat BY <1>0, Zenon DEF Types
      <4>2. portsToVerify[p] + 1 \in Nat BY <4>1
      <4>. QED BY <2>1, <4>1, <4>2, Zenon
    <3>. QED BY <2>1, <3>1, Zenon
  <2>3. Types' BY <1>0, <2>1, <2>2, <2>5, Zenon DEF Types
  <2>4. Accurate' BY <1>0, <2>1, Zenon DEF Accurate
  <2>. QED BY <1>0, <2>1, <2>3, <2>4, Zenon DEF IInv, Shape, PodInv
<1>3. CASE Restart
  <2>1. /\ ports' = <<>> /\ portsToVerify' = <<>>
        /\ events' = [o \in Owners |-> IF pod[o] = {} THEN <<>> ELSE << Add(pod[o]) >>]
        /\ age' = [o \in Owners |-> 0]
        /\ restarted' = (restarted \/ \E o \in Owners : Held(o) # {})
        /\ UNCHANGED <<status, pod>>
    BY <1>3, Zenon DEF Restart, Add
  <2>2. DOMAIN ports' = {} /\ DOMAIN portsToVerify' = {} BY <2>1, NoEvent, Zenon
  <2>3. Types'
    <3>1. restarted' \in BOOLEAN BY <2>1, Zenon
    <3>2. DOMAIN events' = Owners /\ events' = [o \in Owners |-> events'[o]]
          /\ age' \in [Owners -> Nat]
      BY <2>1, Zenon
    <3>. QED BY <1>0, <2>1, <2>2, <3>1, <3>2, Zenon DEF Types
  <2>4. Accurate' BY <2>2, Zenon DEF Accurate
  <2>5. ASSUME NEW o \in Owners PROVE Shape(o)' BY <2>1, Zenon DEF Shape
  <2>. QED BY <1>0, <2>1, <2>3, <2>4, <2>5, Zenon DEF IInv, PodInv
<1>4. CASE UNCHANGED vars BY <1>0, <1>4, Zenon DEF vars, IInv, Types, Accurate, Shape, PodInv
<1>. QED BY <1>1, <1>2, <1>3, <1>4, Zenon

LEMMA NextInv == ASSUME IInv, [Next]_vars PROVE IInv'
  BY AllocateSafe, DeliverySafe, PodsSafe, OthersSafe, Zenon DEF Next

\* AddIndeed, DeleteIndeed and CheckNotVerified keep the two tables in step with each
\* other and with the pods that the informer has shown, across restarts too.
THEOREM TablesStayAccurate == Spec => []TablesAccurate
<1>1. Init => IInv BY InitInv, Zenon
<1>2. IInv /\ [Next]_vars => IInv' BY NextInv, Zenon
<1>3. IInv => TablesAccurate BY AccurateIs, Zenon DEF IInv
<1>. QED BY <1>1, <1>2, <1>3, PTL DEF Spec

(***************************************************************************)
(* A port is claimed by an owner when its task's status, its pod or an     *)
(* event that is still to be delivered names it.  Until the process has    *)
(* lost its tables, the provider knows of every claim: it has recorded the *)
(* owner, or still waits for its pod, and then no longer than the owner    *)
(* itself.  No port has two claims.                                        *)
(***************************************************************************)
Claimed(o, p) == p \in status[o] \/ p \in pod[o] \/ Mentions(events[o], p)

Known(o, p) ==
  /\ p \in DOMAIN ports
  /\ ports[p] = o \/ (ports[p] = "" /\ Pending(o) /\ portsToVerify[p] <= age[o])

Claims ==
  /\ \A o \in Owners : Pending(o) => age[o] <= Delay
  /\ \A o \in Owners : \A p : Claimed(o, p) => Known(o, p)
  /\ \A o, q \in Owners : \A p : Claimed(o, p) /\ Claimed(q, p) => o = q

PInv == IInv /\ (~restarted => Claims)

LEMMA NoConflict == ASSUME PInv PROVE NoPortConflict
  BY Zenon DEF PInv, Claims, Claimed, NoPortConflict, Held

LEMMA PendingIs ==
  ASSUME NEW o
  PROVE  /\ Pending(o) <=> ((status[o] # {} /\ pod[o] = {}) \/ Adds(events[o]))
         /\ Pending(o)' <=> ((status'[o] # {} /\ pod'[o] = {}) \/ Adds(events'[o]))
  BY Zenon DEF Pending, Adds

\* A step that leaves the tables alone and makes no claim.
LEMMA Narrower ==
  ASSUME Claims, UNCHANGED <<ports, portsToVerify>>,
         \A q \in Owners : \A p : Claimed(q, p)' => Claimed(q, p) /\ (Pending(q) => Pending(q)'),
         \A q \in Owners : Pending(q)' => Pending(q) /\ age'[q] = age[q]
  PROVE  Claims'
<1>1. \A q \in Owners : Pending(q)' => age'[q] <= Delay BY Zenon DEF Claims
<1>2. ASSUME NEW q \in Owners, NEW p, Claimed(q, p)' PROVE Known(q, p)'
  <2>1. Claimed(q, p) /\ Known(q, p) /\ (Pending(q) => Pending(q)') BY <1>2, Zenon DEF Claims
  <2>. QED BY <2>1, Zenon DEF Known
<1>. QED BY <1>1, <1>2, Zenon DEF Claims

LEMMA PodsClaims ==
  ASSUME IInv, Claims, NEW o \in Owners, GiveUp(o) \/ CreatePod(o) \/ DeletePod(o)
  PROVE  Claims'
<1>0. /\ status \in [Owners -> SUBSET Ports] /\ pod \in [Owners -> SUBSET Ports]
      /\ age \in [Owners -> Nat] /\ DOMAIN events = Owners /\ events = [q \in Owners |-> events[q]]
      /\ Shape(o)
  BY Zenon DEF IInv, Types
<1>1. UNCHANGED <<ports, portsToVerify>>
  BY Zenon DEF GiveUp, CreatePod, DeletePod
<1>2. \A q \in Owners \ {o} : /\ status'[q] = status[q] /\ pod'[q] = pod[q]
                              /\ events'[q] = events[q] /\ age'[q] = age[q]
  BY <1>0, Zenon DEF GiveUp, CreatePod, DeletePod
<1>3. ASSUME NEW q \in Owners, q # o
      PROVE  /\ \A p : Claimed(q, p)' => Claimed(q, p)
             /\ Pending(q) => Pending(q)'
             /\ Pending(q)' => Pending(q) /\ age'[q] = age[q]
  <2>1. Pending(q) <=> Pending(q)' BY <1>2, <1>3, PendingIs, Zenon
  <2>. QED BY <1>2, <1>3, <2>1, Zenon DEF Claimed
<1>4. /\ \A p : Claimed(o, p)' => Claimed(o, p) /\ (Pending(o) => Pending(o)')
      /\ Pending(o)' => Pending(o) /\ age'[o] = age[o]
  <2>1. CASE GiveUp(o)
    <3>1. pod'[o] = {} /\ events'[o] = <<>> /\ status'[o] = {}
      BY <1>0, <2>1, Zenon DEF GiveUp
    <3>2. ~Pending(o)' BY <3>1, PendingIs, NoEvent, Zenon
    <3>3. \A p : ~Claimed(o, p)' BY <3>1, NoEvent, Zenon DEF Claimed
    <3>. QED BY <3>2, <3>3, Zenon
  <2>2. CASE CreatePod(o)
    <3>1. /\ status[o] # {} /\ pod[o] = {} /\ status'[o] = status[o] /\ pod'[o] = status[o]
          /\ events'[o] = Append(<<>>, Add(status[o])) /\ age'[o] = age[o]
      BY <1>0, <2>2, Zenon DEF CreatePod, Add
    <3>2. events'[o] = <<Add(status[o])>> BY <3>1, Delivered, Zenon
    <3>3. Pending(o) BY <3>1, PendingIs, Zenon
    <3>4. Pending(o)' BY <3>2, PendingIs, OneEvent, Zenon
    <3>5. \A p : Mentions(events'[o], p) => p \in status[o] BY <3>2, OneEvent, Zenon
    <3>6. \A p : Claimed(o, p)' => Claimed(o, p) BY <3>1, <3>5, Zenon DEF Claimed
    <3>. QED BY <3>1, <3>3, <3>4, <3>6, Zenon
  <2>3. CASE DeletePod(o)
    <3>1. /\ pod[o] # {} /\ status'[o] = {} /\ pod'[o] = {} /\ age'[o] = age[o]
          /\ events'[o] = Append(events[o], Del(pod[o]))
      BY <1>0, <2>3, Zenon DEF DeletePod, Del
    <3>2. CASE events[o] = <<>>
      <4>1. events'[o] = <<Del(pod[o])>> BY <3>1, <3>2, Delivered, Zenon
      <4>2. ~Pending(o)' /\ ~Pending(o)
        <5>1. ~Adds(events'[o]) /\ ~Adds(events[o]) BY <3>2, <4>1, NoEvent, OneEvent, Zenon
        <5>. QED BY <3>1, <5>1, PendingIs, Zenon
      <4>3. \A p : Mentions(events'[o], p) => p \in pod[o] BY <4>1, OneEvent, Zenon
      <4>. QED BY <3>1, <4>2, <4>3, Zenon DEF Claimed
    <3>3. CASE events[o] = <<Add(pod[o])>>
      <4>1. events'[o] = <<Add(pod[o]), Del(pod[o])>> BY <3>1, <3>3, Delivered, Zenon
      <4>2. Pending(o)' /\ Pending(o)
        <5>1. Adds(events'[o]) /\ Adds(events[o]) BY <3>3, <4>1, TwoEvents, OneEvent, Zenon
        <5>. QED BY <5>1, PendingIs, Zenon
      <4>3. \A p : Mentions(events'[o], p) => p \in pod[o] BY <4>1, TwoEvents, Zenon
      <4>. QED BY <3>1, <4>2, <4>3, Zenon DEF Claimed
    <3>. QED BY <1>0, <3>1, <3>2, <3>3, Zenon DEF Shape
  <2>. QED BY <2>1, <2>2, <2>3, Zenon
<1>. QED BY <1>1, <1>3, <1>4, Narrower, Zenon

\* The hypotheses: a task has one party in the namespace, and the event of its pod comes
\* before the scan may give the ports away.
OneParty == \A t \in Tasks : \A o, q \in t : o = q
SeenInTime == Delay < MaxNotVerifiedPortAge

LEMMA AllocateClaims ==
  ASSUME OneParty, IInv, Claims, NEW t \in Tasks, allocatePorts(t)
  PROVE  Claims'
<1>1. PICK chosen \in SUBSET Free : /\ Allocate(chosen)
              /\ \E first \in SUBSET chosen :
                   status' = [o \in Owners |-> IF o \in t THEN first ELSE status[o]]
  BY Allocated, Zenon
<1>2. PICK first \in SUBSET chosen :
        status' = [o \in Owners |-> IF o \in t THEN first ELSE status[o]]
  BY <1>1, Zenon
<1>3. /\ t \subseteq Owners /\ UNCHANGED <<pod, events, restarted>>
      /\ \A o \in t : status[o] = {} /\ pod[o] = {} /\ events[o] = <<>>
      /\ age' = [o \in Owners |-> IF o \in t THEN 0 ELSE age[o]]
  BY Allocated, Zenon
<1>4. chosen \cap DOMAIN ports = {} BY Zenon DEF Free
<1>5. /\ DOMAIN ports' = DOMAIN ports \cup chosen
      /\ DOMAIN portsToVerify' = DOMAIN portsToVerify \cup chosen
      /\ \A p \in chosen : ports'[p] = "" /\ portsToVerify'[p] = 0
      /\ \A p \in DOMAIN ports \ chosen : ports'[p] = ports[p]
      /\ \A p \in DOMAIN portsToVerify \ chosen : portsToVerify'[p] = portsToVerify[p]
  BY <1>1, AllocateTables, Zenon
<1>6. ASSUME NEW q \in Owners, q \notin t
      PROVE  /\ Pending(q)' <=> Pending(q)
             /\ \A p : Claimed(q, p)' <=> Claimed(q, p)
             /\ age'[q] = age[q]
  <2>1. status'[q] = status[q] /\ pod'[q] = pod[q] /\ events'[q] = events[q] /\ age'[q] = age[q]
    BY <1>2, <1>3, <1>6, Zenon
  <2>. QED BY <2>1, PendingIs, Zenon DEF Claimed
<1>7. ASSUME NEW q \in t
      PROVE  /\ \A p : Claimed(q, p)' <=> p \in first
             /\ age'[q] = 0
             /\ \A p \in first : Pending(q)'
  <2>1. /\ status'[q] = first /\ pod'[q] = {} /\ events'[q] = <<>> /\ age'[q] = 0
    BY <1>2, <1>3, Zenon
  <2>2. \A p : Claimed(q, p)' <=> p \in first BY <2>1, NoEvent, Zenon DEF Claimed
  <2>3. \A p \in first : Pending(q)' BY <2>1, PendingIs, Zenon
  <2>. QED BY <2>1, <2>2, <2>3, Zenon
<1>8. \A q \in Owners \ t : \A p : Claimed(q, p) => p \in DOMAIN ports /\ p \notin chosen
  BY <1>4, Zenon DEF Claims, Known
<1>9. ASSUME NEW q \in Owners, Pending(q)' PROVE age'[q] <= Delay
  BY <1>6, <1>7, <1>9, NumbersAssumption DEF Claims
<1>10. ASSUME NEW q \in Owners, NEW p, Claimed(q, p)' PROVE Known(q, p)'
  <2>1. CASE q \in t
    <3>1. p \in chosen /\ Pending(q)' /\ age'[q] = 0 BY <1>7, <1>10, <2>1, Zenon
    <3>2. 0 <= 0 OBVIOUS
    <3>3. ports'[p] = "" /\ p \in DOMAIN ports' /\ portsToVerify'[p] <= age'[q]
      BY <1>5, <3>1, <3>2, Zenon
    <3>. QED BY <3>1, <3>3, Zenon DEF Known
  <2>2. CASE q \notin t
    <3>1. Claimed(q, p) /\ Known(q, p) /\ p \notin chosen
      BY <1>6, <1>8, <1>10, <2>2, Zenon DEF Claims
    <3>2. ports[p] = "" => p \in DOMAIN portsToVerify BY <3>1, Zenon DEF Known, IInv, Accurate
    <3>3. ports'[p] = ports[p] /\ p \in DOMAIN ports'
          /\ (ports[p] = "" => portsToVerify'[p] = portsToVerify[p])
      BY <1>5, <3>1, <3>2, Zenon DEF Known
    <3>. QED BY <1>6, <2>2, <3>1, <3>3, Zenon DEF Known
  <2>. QED BY <2>1, <2>2, Zenon
<1>11. ASSUME NEW o \in Owners, NEW q \in Owners, NEW p, Claimed(o, p)', Claimed(q, p)'
       PROVE  o = q
  <2>1. CASE o \in t /\ q \in t BY <2>1, Zenon DEF OneParty
  <2>2. CASE o \notin t /\ q \notin t BY <1>6, <1>11, <2>2, Zenon DEF Claims
  <2>3. CASE o \in t /\ q \notin t BY <1>6, <1>7, <1>8, <1>11, <2>3, Zenon
  <2>4. CASE o \notin t /\ q \in t BY <1>6, <1>7, <1>8, <1>11, <2>4, Zenon
  <2>. QED BY <2>1, <2>2, <2>3, <2>4, Zenon
<1>. QED BY <1>9, <1>10, <1>11, Zenon DEF Claims

\* The ports of a pod that the informer shows are its owner's alone, so AddIndeed takes
\* all of them.
LEMMA DeliveryClaims ==
  ASSUME IInv, Claims, NEW o \in Owners, handlePodEvent(o)
  PROVE  Claims'
<1>1. /\ UNCHANGED <<status, pod, restarted>> /\ age' = [age EXCEPT ![o] = 0]
      /\ \A q \in Owners \ {o} : events'[q] = events[q]
  BY Delivery, Zenon
<1>2. o # "" /\ age \in [Owners -> Nat] /\ pod[o] \in SUBSET Ports
  BY TasksAssumption, Zenon DEF IInv, Types
<1>3. ASSUME NEW q \in Owners, q # o
      PROVE  /\ Pending(q)' <=> Pending(q)
             /\ \A p : Claimed(q, p)' <=> Claimed(q, p)
             /\ age'[q] = age[q]
  <2>1. status'[q] = status[q] /\ pod'[q] = pod[q] /\ events'[q] = events[q] /\ age'[q] = age[q]
    BY <1>1, <1>2, <1>3, Zenon
  <2>. QED BY <2>1, PendingIs, Zenon DEF Claimed
<1>4. \A q \in Owners : Pending(q)' => age'[q] <= Delay
  <2>0. age'[o] = 0 BY <1>1, <1>2, Zenon
  <2>1. age'[o] <= Delay
    <3>1. 0 <= Delay BY NumbersAssumption
    <3>. QED BY <2>0, <3>1, Zenon
  <2>. QED BY <1>3, <2>1, Zenon DEF Claims
\* What remains of the claims, once the tables are known.
<1>5. ASSUME \A p : Claimed(o, p)' => Claimed(o, p),
             \A p : Claimed(o, p)' => Known(o, p)',
             \A q \in Owners : \A p : q # o /\ Claimed(q, p) =>
               /\ p \in DOMAIN ports' /\ ports'[p] = ports[p]
               /\ ports[p] = "" => portsToVerify'[p] = portsToVerify[p]
      PROVE  Claims'
  <2>1. ASSUME NEW q \in Owners, NEW p, Claimed(q, p)' PROVE Known(q, p)'
    <3>1. CASE q = o BY <1>5, <2>1, <3>1, Zenon
    <3>2. CASE q # o
      <4>1. Claimed(q, p) /\ Known(q, p) BY <1>3, <2>1, <3>2, Zenon DEF Claims
      <4>. QED BY <1>3, <1>5, <3>2, <4>1, Zenon DEF Known
    <3>. QED BY <3>1, <3>2, Zenon
  <2>2. ASSUME NEW q \in Owners, NEW r \in Owners, NEW p, Claimed(q, p)', Claimed(r, p)'
        PROVE  q = r
    <3>1. Claimed(q, p) /\ Claimed(r, p) BY <1>3, <1>5, <2>2, Zenon
    <3>. QED BY <3>1, Zenon DEF Claims
  <2>. QED BY <1>4, <2>1, <2>2, Zenon DEF Claims
<1>6. ASSUME NEW S \in SUBSET Ports, AddIndeed(o, S), \A p : Claimed(o, p)' <=> p \in S,
             \A p : Claimed(o, p) <=> p \in S
      PROVE  Claims'
  <2>1. Mine(o, S) = S BY <1>6, Zenon DEF Mine, Claims, Known
  <2>2. /\ DOMAIN ports' = DOMAIN ports \cup S
        /\ \A p \in S : ports'[p] = o
        /\ \A p \in DOMAIN ports \ S : ports'[p] = ports[p]
        /\ DOMAIN portsToVerify' = DOMAIN portsToVerify \ S
        /\ \A p \in DOMAIN portsToVerify \ S : portsToVerify'[p] = portsToVerify[p]
    BY <1>6, <2>1, AddTables
  <2>3. \A p : Claimed(o, p)' => Known(o, p)' BY <1>6, <2>2, Zenon DEF Known
  <2>4. ASSUME NEW q \in Owners, NEW p, q # o, Claimed(q, p)
        PROVE  /\ p \in DOMAIN ports' /\ ports'[p] = ports[p]
               /\ ports[p] = "" => portsToVerify'[p] = portsToVerify[p]
    <3>1. p \notin S BY <1>6, <2>4, Zenon DEF Claims
    <3>2. p \in DOMAIN ports BY <2>4, Zenon DEF Claims, Known
    <3>3. ports[p] = "" => p \in DOMAIN portsToVerify BY <3>2, Zenon DEF IInv, Accurate
    <3>. QED BY <2>2, <3>1, <3>2, <3>3, Zenon
  <2>. QED BY <1>5, <1>6, <2>3, <2>4, Zenon
<1>7. CASE pod[o] # {} /\ events[o] = <<Add(pod[o])>> /\ events'[o] = <<>> /\ AddIndeed(o, pod[o])
  <2>1. \A p : Mentions(events[o], p) <=> p \in pod[o]
    <3>1. \A p : Mentions(<<Add(pod[o])>>, p) <=> p \in pod[o] BY OneEvent, Zenon
    <3>. QED BY <1>7, <3>1, Zenon
  <2>2. \A p : ~Mentions(events'[o], p) BY <1>7, NoEvent, Zenon
  <2>3. status[o] = pod[o] BY <1>7, Zenon DEF IInv, PodInv
  <2>4. \A p : Claimed(o, p)' <=> p \in pod[o] BY <1>1, <2>2, <2>3, Zenon DEF Claimed
  <2>5. \A p : Claimed(o, p) <=> p \in pod[o] BY <2>1, <2>3, Zenon DEF Claimed
  <2>. QED BY <1>2, <1>6, <1>7, <2>4, <2>5, Zenon
<1>8. ASSUME pod[o] = {}, status[o] = {}, NEW S \in SUBSET Ports,
             events[o] = <<Add(S), Del(S)>>, events'[o] = <<Del(S)>>, AddIndeed(o, S)
      PROVE  Claims'
  <2>1. \A p : (Mentions(events[o], p) <=> p \in S) /\ (Mentions(events'[o], p) <=> p \in S)
    <3>1. \A p : /\ (Mentions(<<Add(S), Del(S)>>, p) <=> p \in S)
                 /\ (Mentions(<<Del(S)>>, p) <=> p \in S)
      BY OneEvent, TwoEvents, Zenon
    <3>. QED BY <1>8, <3>1, Zenon
  <2>2. \A p : (Claimed(o, p)' <=> p \in S) /\ (Claimed(o, p) <=> p \in S)
    BY <1>1, <1>8, <2>1, Zenon DEF Claimed
  <2>. QED BY <1>6, <1>8, <2>2, Zenon
<1>9. ASSUME pod[o] = {}, status[o] = {}, NEW S \in SUBSET Ports,
             events[o] = <<Del(S)>>, events'[o] = <<>>, DeleteIndeed(o, S)
      PROVE  Claims'
  <2>1. /\ DOMAIN ports' = DOMAIN ports \ {p \in S \cap DOMAIN ports : ports[p] = o}
        /\ \A p \in DOMAIN ports' : ports'[p] = ports[p]
        /\ portsToVerify' = portsToVerify
    BY <1>9, DeleteTables, Zenon
  <2>2. \A p : ~Mentions(events'[o], p) BY <1>9, NoEvent, Zenon
  <2>3. \A p : ~Claimed(o, p)' BY <1>1, <1>9, <2>2, Zenon DEF Claimed
  <2>4. ASSUME NEW q \in Owners, NEW p, q # o, Claimed(q, p)
        PROVE  p \in DOMAIN ports' /\ ports'[p] = ports[p]
    <3>1. p \in DOMAIN ports /\ ports[p] # o BY <1>2, <2>4, Zenon DEF Claims, Known
    <3>. QED BY <2>1, <3>1, Zenon
  <2>. QED BY <1>5, <2>1, <2>3, <2>4, Zenon
<1>. QED BY <1>7, <1>8, <1>9, Delivery, Zenon

\* The scan gives away no port that is claimed, because its claim is younger.
LEMMA OthersClaims ==
  ASSUME SeenInTime, IInv, ~restarted => Claims, ~restarted',
         CheckNotVerified \/ Tick \/ Restart \/ UNCHANGED vars
  PROVE  Claims'
<1>0. age \in [Owners -> Nat] /\ (\A p \in DOMAIN portsToVerify : portsToVerify[p] \in Nat)
      /\ DOMAIN portsToVerify = {p \in DOMAIN ports : ports[p] = ""}
  BY Zenon DEF IInv, Types, Accurate
<1>6. Delay \in Nat /\ MaxNotVerifiedPortAge \in Nat BY NumbersAssumption, Zenon
<1>1. ASSUME UNCHANGED <<status, pod, events>>
      PROVE  \A o \in Owners : /\ Pending(o)' <=> Pending(o)
                               /\ \A p : Claimed(o, p)' <=> Claimed(o, p)
  BY <1>1, Zenon DEF Pending, Claimed
<1>2. CASE CheckNotVerified
  <2>. DEFINE old == {p \in DOMAIN portsToVerify : portsToVerify[p] >= MaxNotVerifiedPortAge}
  <2>1. /\ ports' = Without(ports, old) /\ portsToVerify' = Without(portsToVerify, old)
        /\ UNCHANGED <<status, age, pod, events, restarted>>
    BY <1>2, Zenon DEF CheckNotVerified
  <2>2. Claims BY <2>1, Zenon
  <2>3. ASSUME NEW o \in Owners, NEW p, Claimed(o, p) PROVE p \notin old
    <3>1. Known(o, p) BY <2>2, <2>3, Zenon DEF Claims
    <3>2. CASE ports[p] = o
      <4>1. p \notin DOMAIN portsToVerify BY <1>0, <3>2, TasksAssumption, Zenon
      <4>. QED BY <4>1, Zenon
    <3>3. CASE ports[p] = "" /\ Pending(o) /\ portsToVerify[p] <= age[o]
      <4>1. age[o] <= Delay BY <2>2, <3>3, Zenon DEF Claims
      <4>2. SUFFICES ASSUME p \in old PROVE FALSE BY Zenon
      <4>3. portsToVerify[p] \in Nat /\ age[o] \in Nat /\ portsToVerify[p] >= MaxNotVerifiedPortAge
        BY <1>0, <4>2, Zenon
      <4>4. \A a, b \in Nat : ~(a <= b /\ b <= Delay /\ a >= MaxNotVerifiedPortAge)
        BY <1>6 DEF SeenInTime
      <4>. QED BY <3>3, <4>1, <4>3, <4>4, Zenon
    <3>. QED BY <3>1, <3>2, <3>3, Zenon DEF Known
  <2>. HIDE DEF old
  <2>4. /\ DOMAIN ports' = DOMAIN ports \ old
        /\ \A p \in DOMAIN ports \ old : ports'[p] = ports[p]
    BY <2>1, Zenon DEF Without
  <2>5. /\ DOMAIN portsToVerify' = DOMAIN portsToVerify \ old
        /\ \A p \in DOMAIN portsToVerify \ old : portsToVerify'[p] = portsToVerify[p]
    BY <2>1, Zenon DEF Without
  <2>6. ASSUME NEW o \in Owners, NEW p, Claimed(o, p)' PROVE Known(o, p)'
    <3>1. Claimed(o, p) BY <1>1, <2>1, <2>6, Zenon
    <3>2. Known(o, p) /\ p \notin old BY <2>2, <2>3, <3>1, Zenon DEF Claims
    <3>3. p \in DOMAIN ports' /\ ports'[p] = ports[p]
          /\ (ports[p] = "" => portsToVerify'[p] = portsToVerify[p])
      BY <1>0, <2>4, <2>5, <3>2, Zenon DEF Known
    <3>. QED BY <1>1, <2>1, <3>2, <3>3, Zenon DEF Known
  <2>. QED BY <1>1, <2>1, <2>2, <2>6, Zenon DEF Claims
<1>3. CASE Tick
  <2>1. /\ \A o \in Owners : Pending(o) => age[o] < Delay
        /\ age' = [o \in Owners |-> IF Pending(o) THEN age[o] + 1 ELSE age[o]]
        /\ \A p \in DOMAIN portsToVerify :
             portsToVerify'[p] \in {portsToVerify[p], portsToVerify[p] + 1}
        /\ UNCHANGED <<ports, status, pod, events, restarted>>
    BY <1>3, Zenon DEF Tick
  <2>2. Claims BY <2>1, Zenon
  <2>3. ASSUME NEW o \in Owners, Pending(o) PROVE age'[o] = age[o] + 1 /\ age'[o] <= Delay
    <3>1. age[o] \in Nat /\ age[o] < Delay /\ age'[o] = age[o] + 1 BY <1>0, <2>1, <2>3, Zenon
    <3>2. \A a \in Nat : a < Delay => a + 1 <= Delay BY <1>6
    <3>. QED BY <3>1, <3>2, Zenon
  <2>4. ASSUME NEW o \in Owners, NEW p, Claimed(o, p)' PROVE Known(o, p)'
    <3>1. Known(o, p) BY <1>1, <2>1, <2>2, <2>4, Zenon DEF Claims
    <3>2. ASSUME ports[p] = "", Pending(o), portsToVerify[p] <= age[o]
          PROVE  portsToVerify'[p] <= age'[o]
      <4>1. p \in DOMAIN portsToVerify /\ portsToVerify[p] \in Nat /\ age[o] \in Nat
        BY <1>0, <3>1, <3>2, Zenon DEF Known
      <4>2. portsToVerify'[p] = portsToVerify[p] \/ portsToVerify'[p] = portsToVerify[p] + 1
        BY <2>1, <4>1, Zenon
      <4>3. age'[o] = age[o] + 1 BY <2>3, <3>2, Zenon
      <4>4. \A a, b \in Nat : a <= b => a <= b + 1 /\ a + 1 <= b + 1 OBVIOUS
      <4>. QED BY <3>2, <4>1, <4>2, <4>3, <4>4, Zenon
    <3>. QED BY <1>1, <2>1, <3>1, <3>2, Zenon DEF Known
  <2>. QED BY <1>1, <2>1, <2>2, <2>3, <2>4, Zenon DEF Claims
<1>4. CASE Restart
  <2>1. /\ events' = [o \in Owners |-> IF pod[o] = {} THEN <<>> ELSE << Add(pod[o]) >>]
        /\ restarted' = (restarted \/ \E o \in Owners : Held(o) # {})
        /\ UNCHANGED <<status, pod>>
    BY <1>4, Zenon DEF Restart, Add
  <2>2. ASSUME NEW o \in Owners PROVE ~Pending(o)' /\ \A p : ~Claimed(o, p)'
    <3>1. status[o] = {} /\ pod[o] = {} BY <2>1, Zenon DEF Held
    <3>2. status'[o] = {} /\ pod'[o] = {} /\ events'[o] = <<>> BY <2>1, <3>1, Zenon
    <3>3. ~Pending(o)' BY <3>2, PendingIs, NoEvent, Zenon
    <3>. QED BY <3>2, <3>3, NoEvent, Zenon DEF Claimed
  <2>. QED BY <2>2, Zenon DEF Claims
<1>5. CASE UNCHANGED vars
  <2>1. /\ UNCHANGED <<ports, portsToVerify, status, age, pod, events, restarted>> /\ Claims
    BY <1>5, Zenon DEF vars
  <2>2. \A o \in Owners : \A p : Known(o, p) => Known(o, p)' BY <1>1, <2>1, Zenon DEF Known
  <2>. QED BY <1>1, <2>1, <2>2, Zenon DEF Claims
<1>. QED BY <1>2, <1>3, <1>4, <1>5, Zenon

LEMMA ClaimsNext == ASSUME OneParty, SeenInTime, PInv, [Next]_vars PROVE PInv'
<1>1. IInv /\ IInv' BY NextInv, Zenon DEF PInv
<1>2. ASSUME ~restarted' PROVE Claims'
  <2>1. ASSUME NEW t \in Tasks, allocatePorts(t) PROVE Claims'
    <3>1. restarted' = restarted BY <1>1, <2>1, Allocated, Zenon
    <3>. QED BY <1>1, <1>2, <2>1, <3>1, AllocateClaims, Zenon DEF PInv
  <2>2. ASSUME NEW o \in Owners, GiveUp(o) \/ CreatePod(o) \/ DeletePod(o) PROVE Claims'
    <3>1. restarted' = restarted BY <2>2, Zenon DEF GiveUp, CreatePod, DeletePod
    <3>. QED BY <1>1, <1>2, <2>2, <3>1, PodsClaims, Zenon DEF PInv
  <2>3. ASSUME NEW o \in Owners, handlePodEvent(o) PROVE Claims'
    <3>1. restarted' = restarted BY <1>1, <2>3, Delivery, Zenon
    <3>. QED BY <1>1, <1>2, <2>3, <3>1, DeliveryClaims, Zenon DEF PInv
  <2>4. ASSUME CheckNotVerified \/ Tick \/ Restart \/ UNCHANGED vars PROVE Claims'
    BY <1>1, <1>2, <2>4, OthersClaims, Zenon DEF PInv
  <2>. QED BY <2>1, <2>2, <2>3, <2>4, Zenon DEF Next
<1>. QED BY <1>1, <1>2, Zenon DEF PInv

LEMMA ClaimsInit == ASSUME Init PROVE PInv
<1>1. \A o \in Owners : status[o] = {} /\ pod[o] = {} /\ events[o] = <<>> BY Zenon DEF Init
<1>2. \A o \in Owners : ~Pending(o) /\ \A p : ~Claimed(o, p)
  BY <1>1, PendingIs, NoEvent, Zenon DEF Claimed
<1>. QED BY <1>2, InitInv, Zenon DEF Claims, PInv

\* Allocate, AddIndeed, DeleteIndeed and CheckNotVerified never let two pods of a namespace
\* have a port in common, for any segments, pods and numbers of ports, when every task has
\* one party in the namespace, its pods are seen within MaxNotVerifiedPortAge, and the
\* process has not lost its tables while ports were in use.
THEOREM PortsNotShared == OneParty /\ SeenInTime /\ Spec => []NoPortConflict
<1>1. Init => PInv BY ClaimsInit, Zenon
<1>2. OneParty /\ SeenInTime /\ PInv /\ [Next]_vars => PInv' BY ClaimsNext, Zenon
<1>3. PInv => NoPortConflict BY NoConflict, Zenon
<1>4. SUFFICES ASSUME OneParty, SeenInTime PROVE Spec => []NoPortConflict BY Zenon
<1>5. PInv /\ [Next]_vars => PInv' BY <1>2, <1>4, Zenon
<1>. QED BY <1>1, <1>3, <1>5, PTL DEF Spec

(***************************************************************************)
(* The node: the KusciaScheduling plugin.                                  *)
(***************************************************************************)
TypesInv ==
  /\ seen \in Phases /\ ahead \in Seq(Phases)
  /\ at \in [Pods -> Steps]

\* Until the group controller grants the round no version of the TaskResource, seen or
\* on its way to the lister, is Schedulable, and no pod is past isSchedulable.
Ungranted ==
  /\ seen # "Schedulable"
  /\ \A i \in 1..Len(ahead) : ahead[i] # "Schedulable"
  /\ BoundOnlyGranted

GrantInv == TypesInv /\ (granted \/ Ungranted)

\* A write of a phase other than Schedulable keeps the lister's versions ungranted.
LEMMA WriteKeeps ==
  ASSUME NEW ph \in Phases, TypesInv, Write(ph), ph # "Schedulable"
  PROVE  /\ seen' \in Phases /\ ahead' \in Seq(Phases)
         /\ (seen # "Schedulable" /\ \A i \in 1..Len(ahead) : ahead[i] # "Schedulable")
            => (seen' # "Schedulable" /\ \A i \in 1..Len(ahead') : ahead'[i] # "Schedulable")
  BY DEF Write, TypesInv

\* A step that leaves the TaskResource alone, and moves pods only along the cycle without
\* passing isSchedulable, keeps the invariant.
LEMMA MoveKeeps ==
  ASSUME GrantInv, UNCHANGED tr, at' \in [Pods -> Steps],
         \A q \in Pods : at'[q] \in {"bind", "postbind", "bound"} =>
                           at[q] \in {"bind", "postbind", "bound"}
  PROVE  GrantInv'
  BY Zenon DEF GrantInv, TypesInv, Ungranted, BoundOnlyGranted, tr

\* The scheduling cycle does not touch the TaskResource.
LEMMA SchedulingKeeps ==
  ASSUME GrantInv, NEW p \in Pods, SchedulingCycle(p)
  PROVE  GrantInv'
<1>1. /\ UNCHANGED tr /\ at' \in [Pods -> Steps]
      /\ \A q \in Pods : at'[q] \in {"bind", "postbind", "bound"} =>
                           at[q] \in {"bind", "postbind", "bound"}
  <2>0. at \in [Pods -> Steps] BY Zenon DEF GrantInv, TypesInv
  <2>1. CASE AddPod(p) BY <2>0, <2>1, Zenon DEF AddPod, Goto, Steps
  <2>2. CASE Filter(p) BY <2>0, <2>2, Zenon DEF Filter, Goto, Steps, Cycle
  <2>3. CASE NotScheduled(p)
    BY <2>0, <2>3, Zenon DEF NotScheduled, PostFilter, Resolve, Steps
  <2>4. CASE \E n \in Nodes : Assume(p, n) BY <2>0, <2>4, Zenon DEF Assume, Goto, Steps, Cycle
  <2>5. CASE ReserveLoad(p) BY <2>0, <2>5, Zenon DEF ReserveLoad, Goto, Steps, Cycle
  <2>6. CASE ReserveStore(p) BY <2>0, <2>6, Zenon DEF ReserveStore, Goto, Steps, Cycle
  <2>7. CASE Permit(p) BY <2>0, <2>7, Zenon DEF Permit, Resolve, Steps
  <2>. QED BY <2>1, <2>2, <2>3, <2>4, <2>5, <2>6, <2>7, Zenon DEF SchedulingCycle
<1>. QED BY <1>1, MoveKeeps, Zenon

\* The binding cycle: only Schedulable moves a pod past isSchedulable, and it has then
\* seen a Schedulable version.
LEMMA BindingKeeps ==
  ASSUME GrantInv, NEW p \in Pods, BindingCycle(p)
  PROVE  GrantInv'
<1>0. at \in [Pods -> Steps] /\ TypesInv BY Zenon DEF GrantInv, TypesInv
<1>1. CASE PatchReserved(p)
  <2>1. Write("Reserved") /\ UNCHANGED granted /\ Goto(p, "check")
    BY <1>1, Zenon DEF PatchReserved, EndPatch
  <2>2. at' \in [Pods -> Steps] /\ (BoundOnlyGranted => BoundOnlyGranted')
    BY <1>0, <2>1, Zenon DEF Goto, Steps, BoundOnlyGranted
  <2>3. "Reserved" \in Phases /\ "Reserved" # "Schedulable" BY Zenon DEF Phases
  <2>4. /\ seen' \in Phases /\ ahead' \in Seq(Phases)
        /\ (seen # "Schedulable" /\ \A i \in 1..Len(ahead) : ahead[i] # "Schedulable")
           => (seen' # "Schedulable" /\ \A i \in 1..Len(ahead') : ahead'[i] # "Schedulable")
    BY <1>0, <2>1, <2>3, WriteKeeps, Zenon
  <2>. QED BY <2>1, <2>2, <2>4, Zenon DEF GrantInv, TypesInv, Ungranted
<1>2. CASE Schedulable(p)
  <2>1. seen = "Schedulable" /\ UNCHANGED tr /\ at' \in [Pods -> Steps]
    BY <1>0, <1>2, Zenon DEF Schedulable, Goto, Steps
  <2>2. granted BY <2>1, Zenon DEF GrantInv, Ungranted
  <2>. QED BY <1>0, <2>1, <2>2, Zenon DEF GrantInv, TypesInv, tr
<1>3. CASE ~PatchReserved(p) /\ ~Schedulable(p)
  <2>1. /\ UNCHANGED tr /\ at' \in [Pods -> Steps]
        /\ \A q \in Pods : at'[q] \in {"bind", "postbind", "bound"} =>
                             at[q] \in {"bind", "postbind", "bound"}
    <3>1. CASE PermitTimeout(p) BY <1>0, <3>1, Zenon DEF PermitTimeout, Goto, Steps
    <3>2. CASE PreBind(p) BY <1>0, <3>2, Zenon DEF PreBind, Goto, Steps
    <3>3. CASE PreBindLock(p) BY <1>0, <3>3, Zenon DEF PreBindLock, Goto, Steps
    <3>4. CASE SkipPatch(p) BY <1>0, <3>4, Zenon DEF SkipPatch, EndPatch, Goto, Steps
    <3>5. CASE NotSchedulable(p) BY <1>0, <3>5, Zenon DEF NotSchedulable, Goto, Steps
    <3>6. CASE Bind(p) BY <1>0, <3>6, Zenon DEF Bind, Goto, Steps
    <3>7. CASE PostBind(p) BY <1>0, <3>7, Zenon DEF PostBind, Goto, Steps
    <3>8. CASE Unreserve(p) BY <1>0, <3>8, Zenon DEF Unreserve, Resolve, Steps
    <3>9. CASE UnreserveLock(p) BY <1>0, <3>9, Zenon DEF UnreserveLock, Goto, Steps
    <3>10. CASE UnreserveDelete(p) BY <1>0, <3>10, Zenon DEF UnreserveDelete, Goto, Steps
    <3>11. CASE Forget(p) BY <1>0, <3>11, Zenon DEF Forget, Goto, Steps
    <3>. QED BY <1>3, <3>1, <3>2, <3>3, <3>4, <3>5, <3>6, <3>7, <3>8, <3>9, <3>10, <3>11, Zenon
             DEF BindingCycle
  <2>. QED BY <2>1, MoveKeeps, Zenon
<1>. QED BY <1>1, <1>2, <1>3, Zenon

\* The writers outside the cycles: a grant sets granted, the others write no grant.
LEMMA OutsideKeeps ==
  ASSUME GrantInv, PatchFailed \/ DeliverTaskResource \/ Group
  PROVE  GrantInv'
<1>0. TypesInv BY Zenon DEF GrantInv
<1>1. UNCHANGED at BY Zenon DEF PatchFailed, DeliverTaskResource, Group
<1>2. CASE \E ph \in {"Reserving", "Failed"} : Write(ph) /\ UNCHANGED granted
  <2>1. PICK ph \in {"Reserving", "Failed"} : Write(ph) /\ UNCHANGED granted BY <1>2, Zenon
  <2>2. ph \in Phases /\ ph # "Schedulable" BY <2>1, Zenon DEF Phases
  <2>3. /\ seen' \in Phases /\ ahead' \in Seq(Phases)
        /\ (seen # "Schedulable" /\ \A i \in 1..Len(ahead) : ahead[i] # "Schedulable")
           => (seen' # "Schedulable" /\ \A i \in 1..Len(ahead') : ahead'[i] # "Schedulable")
    BY <1>0, <2>1, <2>2, WriteKeeps, Zenon
  <2>. QED BY <1>1, <2>1, <2>3, Zenon DEF GrantInv, TypesInv, Ungranted, BoundOnlyGranted
<1>3. CASE Write("Schedulable") /\ granted'
  <2>1. seen' \in Phases /\ ahead' \in Seq(Phases) BY <1>0, <1>3 DEF Write, TypesInv, Phases
  <2>. QED BY <1>0, <1>1, <1>3, <2>1, Zenon DEF GrantInv, TypesInv
<1>4. CASE DeliverTaskResource
  <2>1. ahead # <<>> /\ seen' = Head(ahead) /\ ahead' = Tail(ahead) /\ UNCHANGED granted
    BY <1>4, Zenon DEF DeliverTaskResource
  <2>2. seen' = ahead[1] /\ seen' \in Phases /\ ahead' \in Seq(Phases)
    BY <1>0, <2>1 DEF TypesInv
  <2>3. Len(ahead') = Len(ahead) - 1 /\ \A i \in 1..Len(ahead') : ahead'[i] = ahead[i + 1]
    BY <1>0, <2>1 DEF TypesInv
  <2>4. Len(ahead) \in Nat /\ 1 \in 1..Len(ahead) BY <1>0, <2>1 DEF TypesInv
  <2>. QED BY <1>0, <1>1, <2>1, <2>2, <2>3, <2>4 DEF GrantInv, TypesInv, Ungranted, BoundOnlyGranted
<1>5. CASE UNCHANGED <<seen, ahead, granted>>
  BY <1>0, <1>1, <1>5, Zenon DEF GrantInv, TypesInv, Ungranted, BoundOnlyGranted
<1>. QED BY <1>2, <1>3, <1>4, <1>5, Zenon DEF PatchFailed, Group

\* No pod is bound before the group controller granted the round: isSchedulable reads
\* Schedulable only from a version the controller wrote.
THEOREM BoundWhenGranted == PluginSpec => []BoundOnlyGranted
<1>1. PluginInit => GrantInv
  BY DEF PluginInit, GrantInv, TypesInv, Ungranted, BoundOnlyGranted, Phases, Steps
<1>2. GrantInv /\ [PluginNext]_pluginVars => GrantInv'
  <2>. SUFFICES ASSUME GrantInv, [PluginNext]_pluginVars PROVE GrantInv' BY Zenon
  <2>1. CASE UNCHANGED pluginVars
    BY <2>1, Zenon DEF pluginVars, tr, GrantInv, TypesInv, Ungranted, BoundOnlyGranted
  <2>2. ASSUME NEW p \in Pods, DeliverPod(p) PROVE GrantInv'
    BY <2>2, Zenon DEF DeliverPod, tr, GrantInv, TypesInv, Ungranted, BoundOnlyGranted
  <2>. QED BY <2>1, <2>2, SchedulingKeeps, BindingKeeps, OutsideKeeps, Zenon DEF PluginNext
<1>3. GrantInv => BoundOnlyGranted BY Zenon DEF GrantInv, Ungranted, BoundOnlyGranted
<1>. QED BY <1>1, <1>2, <1>3, PTL DEF PluginSpec

-----------------------------------------------------------------------------
(***************************************************************************)
(* patchTaskResourceInfos.  A pod that patches is the one its entry names, *)
(* because the lock is free when a name is entered and a new entry is one  *)
(* nobody holds.                                                           *)
(***************************************************************************)
Entries ==
  /\ at \in [Pods -> Steps]
  /\ held \in [Pods -> Info \cup {NoInfo}]
  /\ DOMAIN owner = Info
  /\ patch \in Info \cup {NoInfo}
  /\ \A p \in Pods : at[p] \in {"lock", "unlock", "patch"} => held[p] \in Info

Patcher(p) == at[p] = "patch" => owner[held[p]] = p
PatchInv == Entries /\ \A p \in Pods : Patcher(p)

\* There is one entry more than there are pods, so LoadOrStore finds one nobody holds.
LEMMA FreeInfoIsFree ==
  ASSUME Entries, patch = NoInfo
  PROVE  FreeInfo \in Info /\ \A p \in Pods : held[p] # FreeInfo
<1>1. \E i \in Info : \A p \in Pods : held[p] # i
  <2>1. SUFFICES ASSUME \A i \in Info : \E p \in Pods : held[p] = i PROVE FALSE
    BY Zenon
  <2> DEFINE P == {p \in Pods : held[p] \in Info}
             f == [p \in P |-> held[p]]
  <2>2. f \in Surjection(P, Info) BY <2>1, Zenon DEF Surjection
  <2>3. /\ IsFiniteSet(P) /\ Cardinality(P) <= Cardinality(Pods)
        /\ Cardinality(P) \in Nat /\ Cardinality(Pods) \in Nat
    BY PodsAssumption, FS_Subset, FS_CardinalityType, Zenon
  <2>4. Cardinality(Info) <= Cardinality(P) /\ Cardinality(Info) \in Nat
    BY <2>2, <2>3, FS_Surjection, FS_CardinalityType, Zenon
  <2>5. Cardinality(Info) = Cardinality(Pods) + 1
    BY <2>3, FS_Interval DEF Info
  <2>. QED BY <2>3, <2>4, <2>5
<1>2. NoInfo \notin Info BY DEF Info, NoInfo
<1>. QED BY <1>1, <1>2, Zenon DEF FreeInfo

\* A pod that takes an entry from patchTaskResourceInfos disturbs no pod that patches.
LEMMA GetInfoKeeps ==
  ASSUME PatchInv, NEW p \in Pods, at[p] # "patch", GetInfo(p), at' \in [Pods -> Steps],
         \A q \in Pods \ {p} : at'[q] \in {"lock", "unlock", "patch"} => at'[q] = at[q],
         at'[p] # "patch"
  PROVE  PatchInv'
<1> DEFINE i == IF patch = NoInfo THEN FreeInfo ELSE patch
<1>1. i \in Info /\ (patch = NoInfo => \A q \in Pods : held[q] # i)
  BY FreeInfoIsFree, Zenon DEF PatchInv, Entries
<1>2. /\ patch' = i /\ held' = [held EXCEPT ![p] = i]
      /\ owner' = IF patch = NoInfo THEN [owner EXCEPT ![i] = None] ELSE owner
  BY Zenon DEF GetInfo
<1>. HIDE DEF i
<1>3. Entries' BY <1>1, <1>2, Zenon DEF PatchInv, Entries
<1>4. \A q \in Pods : Patcher(q)'
  <2>. SUFFICES ASSUME NEW q \in Pods, at'[q] = "patch" PROVE owner'[held'[q]] = q
    BY Zenon DEF Patcher
  <2>1. q # p /\ at[q] = "patch" /\ held'[q] = held[q] BY <1>2, Zenon DEF PatchInv, Entries
  <2>2. held[q] \in Info /\ owner[held[q]] = q BY <2>1, Zenon DEF PatchInv, Entries, Patcher
  <2>. QED BY <1>1, <1>2, <2>1, <2>2, Zenon DEF PatchInv, Entries
<1>. QED BY <1>3, <1>4, Zenon DEF PatchInv

\* A pod that finds the lock free may enter its name and go on to patch.
LEMMA LockKeeps ==
  ASSUME PatchInv, NEW p \in Pods, at[p] \in {"lock", "unlock"}, ~Locked(held[p]),
         NEW step \in Steps, Goto(p, step), UNCHANGED patch,
         owner' = [owner EXCEPT ![held[p]] = p] \/ owner' = owner,
         \/ step = "patch" /\ UNCHANGED held /\ owner' = [owner EXCEPT ![held[p]] = p]
         \/ step \notin {"lock", "unlock", "patch"} /\ held' = [held EXCEPT ![p] = NoInfo]
  PROVE  PatchInv'
<1>1. held[p] \in Info BY Zenon DEF PatchInv, Entries
<1>2. Entries' BY <1>1, Zenon DEF PatchInv, Entries, Goto
<1>3. ASSUME NEW q \in Pods, at'[q] = "patch" PROVE owner'[held'[q]] = q
  <2>1. CASE q = p BY <1>1, <1>3, <2>1, Zenon DEF PatchInv, Entries, Goto
  <2>2. CASE q # p
    <3>1. at[q] = "patch" /\ held'[q] = held[q] BY <1>3, <2>2, Zenon DEF PatchInv, Entries, Goto
    <3>2. held[q] \in Info /\ owner[held[q]] = q BY <3>1, Zenon DEF PatchInv, Entries, Patcher
    <3>3. held[q] # held[p] BY <3>1, Zenon DEF Locked
    <3>. QED BY <1>1, <3>1, <3>2, <3>3, Zenon DEF PatchInv, Entries
  <2>. QED BY <2>1, <2>2, Zenon
<1>. QED BY <1>2, <1>3, Zenon DEF PatchInv, Patcher

\* The end of the patch gives the entry back.
LEMMA EndPatchKeeps ==
  ASSUME PatchInv, NEW p \in Pods, at[p] = "patch", NEW ok, EndPatch(p, ok)
  PROVE  PatchInv'
<1>1. /\ patch' = held[p] /\ held' = [held EXCEPT ![p] = NoInfo] /\ owner' = owner
      /\ at' = [at EXCEPT ![p] = "check"]
  BY Zenon DEF EndPatch, Goto
<1>2. Entries' BY <1>1, Zenon DEF PatchInv, Entries, Steps
<1>. QED BY <1>1, <1>2, Zenon DEF PatchInv, Entries, Patcher

\* Nothing else touches the entries, or moves a pod to where it uses one.
LEMMA OthersKeep ==
  ASSUME PatchInv, UNCHANGED <<owner, held>>, patch' \in {patch, NoInfo},
         at' \in [Pods -> Steps],
         \A q \in Pods : at'[q] \in {"lock", "unlock", "patch"} => at'[q] = at[q]
  PROVE  PatchInv'
  BY Zenon DEF PatchInv, Entries, Patcher

LEMMA SchedulingPatch ==
  ASSUME PatchInv, NEW p \in Pods, SchedulingCycle(p)
  PROVE  PatchInv'
<1>1. /\ UNCHANGED patches /\ at' \in [Pods -> Steps]
      /\ \A q \in Pods : at'[q] \in {"lock", "unlock", "patch"} => at'[q] = at[q]
  <2>0. at \in [Pods -> Steps] BY Zenon DEF PatchInv, Entries
  <2>1. CASE AddPod(p) BY <2>0, <2>1, Zenon DEF AddPod, Goto, Steps
  <2>2. CASE Filter(p) BY <2>0, <2>2, Zenon DEF Filter, Goto, Steps, Cycle
  <2>3. CASE NotScheduled(p)
    BY <2>0, <2>3, Zenon DEF NotScheduled, PostFilter, Resolve, Steps
  <2>4. CASE \E n \in Nodes : Assume(p, n) BY <2>0, <2>4, Zenon DEF Assume, Goto, Steps, Cycle
  <2>5. CASE ReserveLoad(p) BY <2>0, <2>5, Zenon DEF ReserveLoad, Goto, Steps, Cycle
  <2>6. CASE ReserveStore(p) BY <2>0, <2>6, Zenon DEF ReserveStore, Goto, Steps, Cycle
  <2>7. CASE Permit(p) BY <2>0, <2>7, Zenon DEF Permit, Resolve, Steps
  <2>. QED BY <2>1, <2>2, <2>3, <2>4, <2>5, <2>6, <2>7, Zenon DEF SchedulingCycle
<1>. QED BY <1>1, OthersKeep, Zenon DEF patches

LEMMA BindingPatch ==
  ASSUME PatchInv, NEW p \in Pods, BindingCycle(p)
  PROVE  PatchInv'
<1>0. at \in [Pods -> Steps] BY Zenon DEF PatchInv, Entries
<1>1. CASE PreBind(p)
  <2>1. at' = [at EXCEPT ![p] = "lock"] /\ GetInfo(p) /\ at[p] = "prebind"
    BY <1>1, Zenon DEF PreBind, Goto
  <2>2. at' \in [Pods -> Steps] BY <1>0, <2>1, Zenon DEF Steps
  <2>. QED BY <1>0, <2>1, <2>2, GetInfoKeeps, Zenon
<1>2. CASE Unreserve(p)
  <2>1. /\ at' = Resolve([at EXCEPT ![p] = "unlock"], "unreserve")
        /\ GetInfo(p) /\ at[p] = "unreserve"
    BY <1>2, Zenon DEF Unreserve
  <2>2. /\ at' \in [Pods -> Steps] /\ at'[p] = "unlock"
        /\ \A q \in Pods \ {p} : at'[q] \in {"lock", "unlock", "patch"} => at'[q] = at[q]
    BY <1>0, <2>1, Zenon DEF Steps, Resolve
  <2>. QED BY Zenon, <2>1, <2>2, GetInfoKeeps
<1>3. CASE PreBindLock(p)
  <2>1. at[p] = "lock" /\ ~Locked(held[p]) /\ UNCHANGED patch
    BY <1>3, Zenon DEF PreBindLock
  <2>2. CASE owner[held[p]] \in {None, p}
    <3>1. Goto(p, "patch") /\ UNCHANGED held /\ owner' = [owner EXCEPT ![held[p]] = p]
      BY <1>3, <2>2, Zenon DEF PreBindLock
    <3>2. "patch" \in Steps BY Zenon DEF Steps
    <3>. QED BY Zenon, <2>1, <3>1, <3>2, LockKeeps
  <2>3. CASE owner[held[p]] \notin {None, p}
    <3>1. PICK step \in {"unreserve", "check"} :
            Goto(p, step) /\ held' = [held EXCEPT ![p] = NoInfo] /\ UNCHANGED owner
      BY <1>3, <2>3, Zenon DEF PreBindLock
    <3>2. step \in Steps /\ step \notin {"lock", "unlock", "patch"} BY <3>1, Zenon DEF Steps
    <3>. QED BY Zenon, <2>1, <3>1, <3>2, LockKeeps
  <2>. QED BY <2>2, <2>3, Zenon
<1>4. CASE UnreserveLock(p)
  <2>1. /\ at[p] = "unlock" /\ ~Locked(held[p]) /\ UNCHANGED patch /\ Goto(p, "delete")
        /\ held' = [held EXCEPT ![p] = NoInfo]
        /\ owner' = [owner EXCEPT ![held[p]] = p] \/ owner' = owner
    BY <1>4, Zenon DEF UnreserveLock
  <2>2. "delete" \in Steps /\ "delete" \notin {"lock", "unlock", "patch"} BY Zenon DEF Steps
  <2>. QED BY Zenon, <2>1, <2>2, LockKeeps
<1>5. CASE PatchReserved(p) \/ SkipPatch(p)
  BY Zenon, <1>5, EndPatchKeeps DEF PatchReserved, SkipPatch
<1>6. CASE ~(PreBind(p) \/ Unreserve(p) \/ PreBindLock(p) \/ UnreserveLock(p)
             \/ PatchReserved(p) \/ SkipPatch(p))
  <2>1. /\ UNCHANGED <<owner, held>> /\ patch' \in {patch, NoInfo} /\ at' \in [Pods -> Steps]
        /\ \A q \in Pods : at'[q] \in {"lock", "unlock", "patch"} => at'[q] = at[q]
    <3>1. CASE PermitTimeout(p) BY <1>0, <3>1, Zenon DEF PermitTimeout, Goto, Steps, patches
    <3>2. CASE Schedulable(p) BY <1>0, <3>2, Zenon DEF Schedulable, Goto, Steps, patches
    <3>3. CASE NotSchedulable(p) BY <1>0, <3>3, Zenon DEF NotSchedulable, Goto, Steps, patches
    <3>4. CASE Bind(p) BY <1>0, <3>4, Zenon DEF Bind, Goto, Steps, patches
    <3>5. CASE PostBind(p)
      BY <1>0, <3>5, Zenon DEF PostBind, DeletePermittedTaskResource, Goto, Steps
    <3>6. CASE UnreserveDelete(p)
      BY <1>0, <3>6, Zenon DEF UnreserveDelete, DeletePermittedTaskResource, Goto, Steps
    <3>7. CASE Forget(p) BY <1>0, <3>7, Zenon DEF Forget, Goto, Steps, patches
    <3>. QED BY <1>6, <3>1, <3>2, <3>3, <3>4, <3>5, <3>6, <3>7, Zenon DEF BindingCycle
  <2>. QED BY <2>1, OthersKeep, Zenon
<1>. QED BY <1>1, <1>2, <1>3, <1>4, <1>5, <1>6, Zenon

\* Two pods never patch through one patchTaskResourceInfo at a time, whatever the number
\* of pods: PreBind patches under the lock, and only once its pod is the entry's podName.
THEOREM PatchersTakeTurns == PluginSpec => []OnePatcher
<1>1. PluginInit => PatchInv
  BY Zenon DEF PluginInit, PatchInv, Entries, Patcher, Steps
<1>2. PatchInv /\ [PluginNext]_pluginVars => PatchInv'
  <2>. SUFFICES ASSUME PatchInv, [PluginNext]_pluginVars PROVE PatchInv' BY Zenon
  <2>1. CASE UNCHANGED <<at, patches>>
    BY <2>1, OthersKeep, Zenon DEF patches, PatchInv, Entries
  <2>. QED BY <2>1, SchedulingPatch, BindingPatch, Zenon
           DEF PluginNext, pluginVars, DeliverPod, PatchFailed, DeliverTaskResource, Group
<1>3. PatchInv => OnePatcher BY Zenon DEF PatchInv, Patcher, OnePatcher
<1>. QED BY <1>1, <1>2, <1>3, PTL DEF PluginSpec
=============================================================================
