------------------------- MODULE SessionQueue_proofs -------------------------
(***************************************************************************)
(* The queue of a session, for every number of goroutines and every limit: *)
(* its topics deliver in order, its byte counters count what it holds, and *)
(* no pop sleeps beside a message that nothing will wake it for.           *)
(* The facts about sums serve SessionManager_proofs as well, whose memory  *)
(* account rests on them.                                                  *)
(***************************************************************************)
EXTENDS MCSessionQueue, TLAPS

(***************************************************************************)
(* The queue of one session (SessionQueue), for every set of topics, every *)
(* message length, an empty one included, and every buffer size.           *)
(***************************************************************************)
\* What the order argument needs to know of the shape of the state.
Msg == [id : Nat, size : Lengths]
Shape ==
  /\ pushed \in Nat
  /\ delivered \in [Topics -> Nat]
  /\ DOMAIN topics \subseteq Topics
  /\ topics \in [DOMAIN topics -> [bytes : Int, queue : Seq(Msg)]]
  /\ call \in [Goroutines -> Calls]

\* No queued or delivered message is newer than the last accepted push.
Older ==
  /\ \A t \in Topics : delivered[t] <= pushed
  /\ \A t \in DOMAIN topics : \A i \in DOMAIN topics[t].queue : topics[t].queue[i].id <= pushed

OrderInv == Shape /\ Older /\ DeliveredInOrder

\* A goroutine that changes neither the queues nor the counters keeps the order.
LEMMA UnchangedOrder ==
  ASSUME OrderInv, call' \in [Goroutines -> Calls],
         UNCHANGED <<topics, pushed, delivered>>
  PROVE  OrderInv'
BY Zenon DEF OrderInv, Shape, Older, DeliveredInOrder

\* Appending the newest message keeps a topic's order.
LEMMA PushOrder ==
  ASSUME OrderInv, call' \in [Goroutines -> Calls],
         NEW t \in Topics, NEW n \in Lengths, innerPush(t, n)
  PROVE  OrderInv'
<1> DEFINE m == [id |-> pushed + 1, size |-> n]
           q == getTopic(t).queue
<1>1. m \in Msg
  BY DEF OrderInv, Shape, Msg
<1>2. q \in Seq(Msg) /\ getTopic(t).bytes \in Int
  BY DEF OrderInv, Shape, getTopic, NewTopicQueue
<1>3. n \in Int
  BY LengthsAssumption
<1>4. /\ \A i \in DOMAIN q : q[i].id <= pushed /\ delivered[t] < q[i].id
      /\ \A i, j \in DOMAIN q : i < j => q[i].id < q[j].id
  BY DEF OrderInv, Shape, Older, DeliveredInOrder, getTopic, NewTopicQueue
<1> DEFINE q2 == Append(q, m)
<1>5. /\ q2 \in Seq(Msg) /\ DOMAIN q2 = 1..(Len(q) + 1) /\ DOMAIN q = 1..Len(q)
      /\ q2[Len(q) + 1] = m /\ \A i \in DOMAIN q : q2[i] = q[i]
  BY <1>1, <1>2
<1>6. delivered[t] < m.id /\ m.id = pushed + 1 /\ pushed \in Nat
  BY DEF OrderInv, Shape, Older
<1>7. Len(q) \in Nat /\ \A i \in DOMAIN q : q[i].id \in Nat
  <2> HIDE DEF q
  <2>1. Len(q) \in Nat /\ \A i \in DOMAIN q : q[i] \in Msg
    BY <1>2
  <2> QED BY <2>1, Zenon DEF Msg
<1>8. /\ \A i \in DOMAIN q2 : q2[i].id <= pushed + 1 /\ delivered[t] < q2[i].id
      /\ \A i, j \in DOMAIN q2 : i < j => q2[i].id < q2[j].id
  <2> HIDE DEF q2, m, q
  <2>1. ASSUME NEW i \in DOMAIN q2
        PROVE  i \in DOMAIN q \/ i = Len(q) + 1
    BY <1>5, <1>7
  <2>2. ASSUME NEW i \in DOMAIN q2
        PROVE  q2[i].id <= pushed + 1 /\ delivered[t] < q2[i].id
    BY <2>1, <1>4, <1>5, <1>6, <1>7
  <2>3. ASSUME NEW i \in DOMAIN q2, NEW j \in DOMAIN q2, i < j
        PROVE  q2[i].id < q2[j].id
    <3>1. CASE j \in DOMAIN q
      <4>1. i \in DOMAIN q
        BY <2>1, <2>3, <3>1, <1>5, <1>7
      <4> QED BY <4>1, <3>1, <2>3, <1>4, <1>5, Zenon
    <3>2. CASE j = Len(q) + 1
      <4>1. i \in DOMAIN q
        BY <2>1, <2>3, <3>2, <1>7
      <4> QED BY <4>1, <3>2, <1>4, <1>5, <1>6, <1>7
    <3> QED BY <2>1, <3>1, <3>2, Zenon
  <2> QED BY <2>2, <2>3, Zenon
<1>9. /\ DOMAIN topics' = DOMAIN topics \cup {t}
      /\ topics'[t] = [bytes |-> getTopic(t).bytes + n, queue |-> q2]
      /\ \A u \in DOMAIN topics : u # t => topics'[u] = topics[u]
      /\ topics' = [u \in DOMAIN topics' |-> topics'[u]]
      /\ pushed' = pushed + 1 /\ delivered' = delivered
  BY Zenon DEF innerPush
<1> HIDE DEF q2, m, q
<1>10. Shape'
  BY <1>2, <1>3, <1>5, <1>9 DEF OrderInv, Shape
<1>11. Older'
  <2>1. ASSUME NEW u \in Topics PROVE delivered'[u] <= pushed'
    BY <1>6, <1>9 DEF OrderInv, Shape, Older
  <2>2. ASSUME NEW u \in DOMAIN topics', NEW i \in DOMAIN topics'[u].queue
        PROVE  topics'[u].queue[i].id <= pushed'
    <3>1. CASE u = t
      BY <2>2, <3>1, <1>8, <1>9
    <3>2. CASE u # t
      <4>1. u \in DOMAIN topics /\ topics'[u] = topics[u]
        BY <2>2, <3>2, <1>9, Zenon
      <4>2. topics[u].queue \in Seq(Msg)
        BY <4>1, Zenon DEF OrderInv, Shape
      <4>3. topics[u].queue[i] \in Msg
        BY <2>2, <4>1, <4>2
      <4>4. topics[u].queue[i].id \in Nat
        BY <4>3, Zenon DEF Msg
      <4>5. topics[u].queue[i].id <= pushed
        BY <2>2, <4>1, Zenon DEF OrderInv, Older
      <4> QED BY <4>1, <4>4, <4>5, <1>6, <1>9
    <3> QED BY <3>1, <3>2, Zenon
  <2> QED BY <2>1, <2>2, Zenon DEF Older
<1>12. DeliveredInOrder'
  BY <1>8, <1>9 DEF OrderInv, DeliveredInOrder
<1> QED BY <1>10, <1>11, <1>12, Zenon DEF OrderInv

\* Taking the oldest message of a topic keeps its order.
LEMMA PopOrder ==
  ASSUME OrderInv, call' \in [Goroutines -> Calls],
         NEW t, availableToPop(t), innerPop(t)
  PROVE  OrderInv'
<1> DEFINE q == topics[t].queue
           m == Head(q)
           q2 == Tail(q)
<1>1. t \in DOMAIN topics /\ t \in Topics /\ q \in Seq(Msg) /\ q # <<>>
  BY Zenon DEF OrderInv, Shape, availableToPop
<1>2. /\ m = q[1] /\ m \in Msg /\ 1 \in DOMAIN q /\ Len(q) \in Nat
      /\ q2 \in Seq(Msg) /\ DOMAIN q2 = 1..(Len(q) - 1) /\ DOMAIN q = 1..Len(q)
      /\ \A i \in DOMAIN q2 : q2[i] = q[i + 1] /\ i + 1 \in DOMAIN q
  BY <1>1
<1>3. /\ \A i \in DOMAIN q : q[i].id <= pushed /\ delivered[t] < q[i].id
      /\ \A i, j \in DOMAIN q : i < j => q[i].id < q[j].id
  BY <1>1, Zenon DEF OrderInv, Shape, Older, DeliveredInOrder
<1>4. m.size \in Int /\ m.id \in Nat /\ topics[t].bytes \in Int
  BY LengthsAssumption, <1>1, <1>2 DEF Msg, OrderInv, Shape
<1>5. /\ DOMAIN topics' = DOMAIN topics
      /\ topics'[t] = [bytes |-> topics[t].bytes - m.size, queue |-> q2]
      /\ \A u \in DOMAIN topics : u # t => topics'[u] = topics[u]
      /\ topics' = [u \in DOMAIN topics' |-> topics'[u]]
      /\ pushed' = pushed /\ delivered' = [delivered EXCEPT ![t] = m.id]
  BY <1>1, Zenon DEF innerPop, OrderInv, Shape
<1>6. /\ \A i \in DOMAIN q2 : q2[i].id <= pushed /\ m.id < q2[i].id
      /\ \A i, j \in DOMAIN q2 : i < j => q2[i].id < q2[j].id
      /\ m.id <= pushed
  <2> HIDE DEF q2, m, q
  <2>1. m.id <= pushed /\ \A i \in DOMAIN q2 : q2[i].id <= pushed
    BY <1>2, <1>3, Zenon
  <2>2. ASSUME NEW i \in DOMAIN q2 PROVE m.id < q2[i].id
    <3>1. i + 1 \in DOMAIN q /\ 1 < i + 1
      BY <1>2
    <3> QED BY <1>2, <1>3, <3>1, Zenon
  <2>3. ASSUME NEW i \in DOMAIN q2, NEW j \in DOMAIN q2, i < j
        PROVE  q2[i].id < q2[j].id
    <3>1. i + 1 \in DOMAIN q /\ j + 1 \in DOMAIN q /\ i + 1 < j + 1
      BY <1>2, <2>3
    <3> QED BY <1>2, <1>3, <3>1, Zenon
  <2> QED BY <2>1, <2>2, <2>3, Zenon
<1> HIDE DEF q2, m, q
<1>7. Shape'
  <2>1. topics[t].bytes - m.size \in Int
    BY <1>4
  <2>2. topics' \in [DOMAIN topics' -> [bytes : Int, queue : Seq(Msg)]]
    <3>1. ASSUME NEW u \in DOMAIN topics'
          PROVE  topics'[u] \in [bytes : Int, queue : Seq(Msg)]
      <4>1. CASE u = t
        BY <4>1, <1>2, <1>5, <2>1
      <4>2. CASE u # t
        BY <4>2, <1>5, Zenon DEF OrderInv, Shape
      <4> QED BY <4>1, <4>2, Zenon
    <3> QED BY <3>1, <1>5, Zenon
  <2>3. delivered' \in [Topics -> Nat]
    BY <1>4, <1>5, Zenon DEF OrderInv, Shape
  <2> QED BY <1>5, <2>2, <2>3, Zenon DEF OrderInv, Shape
<1>8. Older'
  <2>1. ASSUME NEW u \in Topics PROVE delivered'[u] <= pushed'
    BY <1>5, <1>6, Zenon DEF OrderInv, Shape, Older
  <2>2. ASSUME NEW u \in DOMAIN topics', NEW i \in DOMAIN topics'[u].queue
        PROVE  topics'[u].queue[i].id <= pushed'
    BY <2>2, <1>5, <1>6 DEF OrderInv, Older
  <2> QED BY <2>1, <2>2, Zenon DEF Older
<1>9. DeliveredInOrder'
  BY <1>1, <1>5, <1>6 DEF OrderInv, Shape, DeliveredInOrder
<1> QED BY <1>7, <1>8, <1>9, Zenon DEF OrderInv

LEMMA AttemptOrder ==
  ASSUME OrderInv, NEW g \in Goroutines, NEW c \in Calls,
         c # NoCall, Attempt(g, c)
  PROVE  OrderInv'
<1>1. call' \in [Goroutines -> Calls]
  BY Zenon DEF OrderInv, Shape, Attempt, Leave, Calls
<1>2. CASE Unchanged
  BY <1>1, <1>2, UnchangedOrder, Zenon DEF Unchanged
<1>3. CASE c.op = "push" /\ innerPush(c.topic, c.size)
  <2>1. c.topic \in Topics /\ c.size \in Lengths
    BY <1>3, Zenon DEF Calls, NoCall
  <2> QED BY <1>1, <1>3, <2>1, PushOrder, Zenon
<1>4. CASE c.op = "pop" /\ availableToPop(c.topic) /\ innerPop(c.topic)
  BY <1>1, <1>4, PopOrder, Zenon
<1> QED BY <1>2, <1>3, <1>4, Zenon DEF Attempt

LEMMA OrderInit == QueueInit => OrderInv
BY DEF QueueInit, OrderInv, Shape, Older, DeliveredInOrder, Calls

LEMMA OrderNext == OrderInv /\ [QueueNext]_queueVars => OrderInv'
<1> SUFFICES ASSUME OrderInv, [QueueNext]_queueVars PROVE OrderInv'
  BY Zenon
<1>1. ASSUME NEW g \in Goroutines, NEW t \in Topics, CallPop(g, t) PROVE OrderInv'
  <2>1. [op |-> "pop", topic |-> t] \in Calls /\ [op |-> "pop", topic |-> t] # NoCall
    BY Zenon DEF Calls, NoCall
  <2> QED BY <1>1, <2>1, AttemptOrder, Zenon DEF CallPop
<1>2. ASSUME NEW g \in Goroutines, NEW t \in Topics, NEW n \in Lengths, CallPush(g, t, n)
      PROVE OrderInv'
  <2>1. /\ [op |-> "push", topic |-> t, size |-> n] \in Calls
        /\ [op |-> "push", topic |-> t, size |-> n] # NoCall
    BY Zenon DEF Calls, NoCall
  <2>2. CASE Leave(g) /\ Unchanged
    BY <2>2, UnchangedOrder, Zenon DEF Leave, Unchanged, OrderInv, Shape, Calls
  <2> QED BY <1>2, <2>1, <2>2, AttemptOrder, Zenon DEF CallPush
<1>3. ASSUME NEW g \in Goroutines, Wake(g) PROVE OrderInv'
  <2>1. CASE call[g] = NoCall
    BY <1>3, <2>1, UnchangedOrder
    DEF Wake, Attempt, Leave, Unchanged, OrderInv, Shape, Calls, NoCall
  <2>2. CASE call[g] # NoCall
    BY <1>3, <2>2, AttemptOrder, Zenon DEF Wake, OrderInv, Shape
  <2> QED BY <2>1, <2>2, Zenon
<1>4. ASSUME NEW g \in Goroutines, Timeout(g) \/ SignalOther(g) PROVE OrderInv'
  BY <1>4, UnchangedOrder, Zenon DEF Timeout, SignalOther, Leave, Unchanged, OrderInv, Shape, Calls
<1>5. ASSUME NEW t \in Topics, Peek(t) PROVE OrderInv'
  BY <1>5, PopOrder, Zenon DEF Peek, OrderInv, Shape
<1>6. ASSUME NEW t \in Topics, CallReleaseTopic(t) PROVE OrderInv'
  BY <1>6 DEF CallReleaseTopic, OrderInv, Shape, Older, DeliveredInOrder
<1>7. CASE CallReleaseSession
  BY <1>7, Zenon DEF CallReleaseSession, OrderInv, Shape, Older, DeliveredInOrder, NewTopicQueue
<1>8. CASE UNCHANGED queueVars
  BY <1>8, UnchangedOrder, Zenon DEF queueVars, OrderInv, Shape
<1> QED BY <1>1, <1>2, <1>3, <1>4, <1>5, <1>6, <1>7, <1>8, Zenon DEF QueueNext

\* Theorem: every topic of a session delivers its messages in the order their
\* pushes were accepted, each at most once (the lock protocol of session_queue.go).
THEOREM InOrder == QueueSpec => []DeliveredInOrder
<1>1. OrderInv => DeliveredInOrder
  BY Zenon DEF OrderInv
<1> QED BY OrderInit, OrderNext, <1>1, PTL DEF QueueSpec

(***************************************************************************)
(* Sums over finite sets.  MapThenSumSet folds a set element by element in *)
(* an order it chooses; h gives the numbers that are added.  FoldSums says *)
(* that the order does not matter, and the lemmas after it what a change   *)
(* of h or of the set does to the sum.  Induction is over sets (the set of *)
(* the instances that hold), not over predicates.                          *)
(***************************************************************************)
INSTANCE WellFoundedInduction

LEMMA SetInduction ==
  ASSUME NEW T, 0 \in T, \A n \in Nat : n \in T => n + 1 \in T
  PROVE  Nat \subseteq T
<1> DEFINE B == {n \in Nat : n \notin T}
<1>. SUFFICES ASSUME NEW n \in B PROVE FALSE BY Zenon
<1>1. PICK m \in B : \A k \in B : m <= k
  <2>1. B \subseteq Nat /\ B # {} BY Zenon
  <2>. HIDE DEF B
  <2>2. PICK m \in B : \A k \in B : ~(<<k, m>> \in OpToRel(<, Nat))
    BY <2>1, NatLessThanWellFounded, WFMin, Zenon
  <2>3. \A k \in B : ~(k < m) BY <2>1, <2>2 DEF OpToRel
  <2>4. ASSUME NEW k \in B PROVE m <= k
    <3>1. k \in Nat /\ m \in Nat /\ ~(k < m) BY <2>1, <2>2, <2>3, Zenon
    <3>. QED BY <3>1
  <2>. QED BY <2>4, Zenon
<1>2. m \in Nat /\ m # 0 /\ m - 1 \in Nat BY <1>1
<1>3. m - 1 \notin B BY <1>1, <1>2
<1>4. m - 1 \in T BY <1>2, <1>3, Zenon
<1>5. (m - 1) + 1 \in T BY <1>2, <1>4, Zenon
<1>6. (m - 1) + 1 = m BY <1>2
<1>. QED BY <1>1, <1>5, <1>6, Zenon

\* The first n values of e cover s.
Covers(e, n, s) == \A x \in s : \E i \in 1..n : e[i] = x

LEMMA FiniteCovers ==
  ASSUME NEW S, IsFiniteSet(S)
  PROVE  \E n \in Nat : \E e : Covers(e, n, S)
<1>1. PICK e \in Seq(S) : \A x \in S : \E i \in 1..Len(e) : e[i] = x BY Zenon DEF IsFiniteSet
<1>2. Len(e) \in Nat BY <1>1
<1>. QED BY <1>1, <1>2, Zenon DEF Covers

\* A function on the first n numbers is a sequence.
LEMMA ListOf ==
  ASSUME NEW R, NEW n \in Nat, NEW d \in [1..n -> R]
  PROVE  d \in Seq(R) /\ Len(d) = n
<1>1. d \in Seq(R) OBVIOUS
<1>2. DOMAIN d = 1..n BY Zenon
<1>3. Len(d) = n BY <1>1, <1>2
<1>. QED BY <1>1, <1>3, Zenon

LEMMA FiniteSubset ==
  ASSUME NEW S, IsFiniteSet(S), NEW R, R \subseteq S
  PROVE  IsFiniteSet(R)
<1>1. PICK e \in Seq(S) : \A x \in S : \E i \in 1..Len(e) : e[i] = x BY Zenon DEF IsFiniteSet
<1>2. CASE R = {}
  <2>1. <<>> \in Seq(R) OBVIOUS
  <2>. QED BY <1>2, <2>1, Zenon DEF IsFiniteSet
<1>3. ASSUME NEW r \in R PROVE IsFiniteSet(R)
  <2> DEFINE n == Len(e)
             d == [i \in 1..n |-> IF e[i] \in R THEN e[i] ELSE r]
  <2>0. n \in Nat BY <1>1
  <2>. HIDE DEF n
  <2>1. d \in Seq(R) /\ Len(d) = n
    <3>1. d \in [1..n -> R] BY Zenon
    <3>. HIDE DEF d
    <3>. QED BY <2>0, <3>1, ListOf, Zenon
  <2>2. ASSUME NEW x \in R PROVE \E i \in 1..n : d[i] = x
    <3>1. PICK i \in 1..n : e[i] = x BY <1>1, Zenon DEF n
    <3>2. d[i] = x BY <3>1, Zenon
    <3>. QED BY <3>2, Zenon
  <2>. HIDE DEF d
  <2>. QED BY <2>1, <2>2, Zenon DEF IsFiniteSet
<1>. QED BY <1>2, <1>3, Zenon

LEMMA FiniteInterval ==
  ASSUME NEW n \in Nat
  PROVE  IsFiniteSet(1..n)
<1> DEFINE d == [i \in 1..n |-> i]
<1>1. d \in Seq(1..n) /\ Len(d) = n OBVIOUS
<1>2. \A x \in 1..n : d[x] = x BY Zenon
<1>. HIDE DEF d
<1>. QED BY <1>1, <1>2, Zenon DEF IsFiniteSet

LEMMA FiniteAdd ==
  ASSUME NEW S, IsFiniteSet(S), NEW x
  PROVE  IsFiniteSet(S \cup {x})
<1>1. PICK e \in Seq(S) : \A y \in S : \E i \in 1..Len(e) : e[i] = y BY Zenon DEF IsFiniteSet
<1> DEFINE d == Append(e, x)
           Q == S \cup {x}
<1>2. e \in Seq(Q) BY <1>1
<1>3. d \in Seq(Q)
  <2>1. x \in Q BY Zenon
  <2>. HIDE DEF Q
  <2>. QED BY <1>2, <2>1
<1>4. /\ Len(d) = Len(e) + 1 /\ Len(e) \in Nat /\ d[Len(e) + 1] = x
      /\ \A i \in 1..Len(e) : d[i] = e[i]
  BY <1>1
<1>5. Len(e) + 1 \in 1..Len(d) /\ 1..Len(e) \subseteq 1..Len(d) BY <1>4
<1>. HIDE DEF d
<1>6. ASSUME NEW y \in Q PROVE \E i \in 1..Len(d) : d[i] = y
  <2>1. CASE y = x BY <1>4, <1>5, <2>1, Zenon
  <2>2. CASE y \in S
    <3>1. PICK i \in 1..Len(e) : e[i] = y BY <1>1, <2>2, Zenon
    <3>. QED BY <1>4, <1>5, <3>1, Zenon
  <2>. QED BY <2>1, <2>2, Zenon
<1>. QED BY <1>3, <1>6, Zenon DEF IsFiniteSet

\* Without one of its elements a set is covered by one value less.
LEMMA CoversLess ==
  ASSUME NEW n \in Nat, NEW e, NEW s, Covers(e, n + 1, s), NEW x \in s
  PROVE  \E d : Covers(d, n, s \ {x})
<1>1. PICK k \in 1..(n + 1) : e[k] = x BY Zenon DEF Covers
<1> DEFINE d == [i \in 1..n |-> IF i = k THEN e[n + 1] ELSE e[i]]
<1>2. ASSUME NEW y \in s \ {x} PROVE \E i \in 1..n : d[i] = y
  <2>1. PICK j \in 1..(n + 1) : e[j] = y BY Zenon DEF Covers
  <2>2. j # k BY <1>1, <2>1, Zenon
  <2>3. CASE j = n + 1
    <3>1. k \in 1..n BY <2>2, <2>3
    <3>2. d[k] = y BY <2>1, <2>3, <3>1, Zenon
    <3>. QED BY <3>1, <3>2, Zenon
  <2>4. CASE j # n + 1
    <3>1. j \in 1..n BY <2>4
    <3>2. d[j] = y BY <2>1, <2>2, <3>1, Zenon
    <3>. QED BY <3>1, <3>2, Zenon
  <2>. QED BY <2>3, <2>4, Zenon
<1>. HIDE DEF d
<1>3. Covers(d, n, s \ {x}) BY <1>2, Zenon DEF Covers
<1>. QED BY <1>3, Zenon

LEMMA CoversNone == ASSUME NEW e, NEW s, Covers(e, 0, s) PROVE s = {}
<1>1. \A i \in 1..0 : FALSE OBVIOUS
<1>. QED BY <1>1, Zenon DEF Covers

LEMMA SubsetInduction ==
  ASSUME NEW S, IsFiniteSet(S), NEW T,
         \A s \in SUBSET S : (\A x \in s : s \ {x} \in T) => s \in T
  PROVE  SUBSET S \subseteq T
<1> DEFINE G == {n \in Nat : \A s \in SUBSET S : \A e : Covers(e, n, s) => s \in T}
<1>1. 0 \in G
  <2>1. ASSUME NEW s \in SUBSET S, NEW e, Covers(e, 0, s) PROVE s \in T
    <3>1. s = {} BY <2>1, CoversNone, Zenon
    <3>. QED BY <3>1, Zenon
  <2>. QED BY <2>1
<1>2. ASSUME NEW n \in Nat, n \in G PROVE n + 1 \in G
  <2>1. ASSUME NEW s \in SUBSET S, NEW e, Covers(e, n + 1, s) PROVE s \in T
    <3>1. ASSUME NEW x \in s PROVE s \ {x} \in T
      <4>1. PICK d : Covers(d, n, s \ {x}) BY <2>1, CoversLess, Zenon
      <4>2. s \ {x} \in SUBSET S BY Zenon
      <4>. QED BY <1>2, <4>1, <4>2, Zenon
    <3>. QED BY <3>1, Zenon
  <2>. QED BY <2>1
<1>3. Nat \subseteq G
  <2>. HIDE DEF G
  <2>. QED BY <1>1, <1>2, SetInduction, Zenon
<1>4. PICK n \in Nat : \E e : Covers(e, n, S) BY FiniteCovers, Zenon
<1>5. ASSUME NEW s \in SUBSET S PROVE s \in T
  <2>1. PICK e : Covers(e, n, s) BY <1>4, Zenon DEF Covers
  <2>. QED BY <1>3, <2>1, Zenon
<1>. QED BY <1>5, Zenon

Chosen(s) == CHOOSE x \in s : TRUE
Fold(f, h, D) ==
  f = [s \in D |-> IF s = {} THEN 0 ELSE h[Chosen(s)] + f[s \ {Chosen(s)}]]

LEMMA FoldExists ==
  ASSUME NEW S, IsFiniteSet(S), NEW h
  PROVE  \E f : Fold(f, h, SUBSET S)
<1> DEFINE D(n) == {s \in SUBSET S : \E e : Covers(e, n, s)}
           G == {n \in Nat : \E f : Fold(f, h, D(n))}
<1>1. 0 \in G
  <2>1. \A s \in D(0) : s = {} BY CoversNone, Zenon
  <2>2. Fold([s \in D(0) |-> 0], h, D(0)) BY <2>1, Zenon DEF Fold
  <2>. QED BY <2>2
<1>2. ASSUME NEW n \in Nat, n \in G PROVE n + 1 \in G
  <2>1. PICK f : Fold(f, h, D(n)) BY <1>2, Zenon
  <2> DEFINE g == [s \in D(n + 1) |-> IF s = {} THEN 0
                                      ELSE h[Chosen(s)] + f[s \ {Chosen(s)}]]
  <2>2. ASSUME NEW s \in D(n) PROVE s \in D(n + 1) /\ f[s] = g[s]
    <3>1. s \in D(n + 1)
      <4>1. 1..n \subseteq 1..(n + 1) OBVIOUS
      <4>. QED BY <4>1, Zenon DEF Covers
    <3>2. f[s] = IF s = {} THEN 0 ELSE h[Chosen(s)] + f[s \ {Chosen(s)}]
      <4>. HIDE DEF D
      <4>. QED BY <2>1, <2>2, Zenon DEF Fold
    <3>. HIDE DEF D
    <3>. QED BY <3>1, <3>2, Zenon
  <2>3. ASSUME NEW s \in D(n + 1), s # {} PROVE s \ {Chosen(s)} \in D(n)
    <3>1. Chosen(s) \in s BY <2>3, Zenon DEF Chosen
    <3>2. PICK e : Covers(e, n + 1, s) BY Zenon
    <3>3. \E d : Covers(d, n, s \ {Chosen(s)}) BY <3>1, <3>2, CoversLess, Zenon
    <3>. QED BY <3>3, Zenon
  <2>4. Fold(g, h, D(n + 1))
    <3>1. \A s \in D(n + 1) : s # {} => f[s \ {Chosen(s)}] = g[s \ {Chosen(s)}]
      BY <2>2, <2>3, Zenon
    <3>2. \A s \in D(n + 1) :
            (IF s = {} THEN 0 ELSE h[Chosen(s)] + f[s \ {Chosen(s)}])
              = (IF s = {} THEN 0 ELSE h[Chosen(s)] + g[s \ {Chosen(s)}])
      <4>. HIDE DEF g, D
      <4>. QED BY <3>1, Zenon
    <3>3. g = [s \in D(n + 1) |-> IF s = {} THEN 0 ELSE h[Chosen(s)] + f[s \ {Chosen(s)}]]
      BY Zenon
    <3>. HIDE DEF g, D
    <3>. QED BY <3>2, <3>3, Zenon DEF Fold
  <2>. QED BY <2>4
<1>3. Nat \subseteq G
  <2>. HIDE DEF G
  <2>. QED BY <1>1, <1>2, SetInduction, Zenon
<1>4. PICK n \in Nat : \E e : Covers(e, n, S) BY FiniteCovers, Zenon
<1>5. D(n) = SUBSET S BY <1>4, Zenon DEF Covers
<1>6. \E f : Fold(f, h, D(n)) BY <1>3, Zenon
<1>. QED BY <1>5, <1>6, Zenon

\* What a fold computes: the sum over each subset of S.
Sums(f, h, S) ==
  /\ f \in [SUBSET S -> Nat] /\ f[{}] = 0
  /\ \A s \in SUBSET S : \A x \in s : f[s] = f[s \ {x}] + h[x]

LEMMA FoldSums ==
  ASSUME NEW S, IsFiniteSet(S), NEW h, \A x \in S : h[x] \in Nat, NEW f, Fold(f, h, SUBSET S)
  PROVE  Sums(f, h, S)
<1>1. \A s \in SUBSET S : f[s] = IF s = {} THEN 0 ELSE h[Chosen(s)] + f[s \ {Chosen(s)}]
  BY Zenon DEF Fold
<1>2. \A s \in SUBSET S : s # {} => Chosen(s) \in s BY Zenon DEF Chosen
<1>3. \A s \in SUBSET S : f[s] \in Nat
  <2> DEFINE T == {s \in SUBSET S : f[s] \in Nat}
  <2>1. ASSUME NEW s \in SUBSET S, \A x \in s : s \ {x} \in T PROVE s \in T
    <3>1. CASE s = {}
      <4>1. f[s] = 0 BY <1>1, <3>1, Zenon
      <4>2. 0 \in Nat OBVIOUS
      <4>. QED BY <4>1, <4>2, Zenon
    <3>2. CASE s # {}
      <4>1. f[s] = h[Chosen(s)] + f[s \ {Chosen(s)}] BY <1>1, <3>2, Zenon
      <4>2. h[Chosen(s)] \in Nat /\ f[s \ {Chosen(s)}] \in Nat BY <1>2, <2>1, <3>2, Zenon
      <4>3. f[s] \in Nat BY <4>1, <4>2
      <4>. QED BY <4>3, Zenon
    <3>. QED BY <3>1, <3>2, Zenon
  <2>. HIDE DEF T
  <2>2. SUBSET S \subseteq T BY <2>1, SubsetInduction, Zenon
  <2>. QED BY <2>2, Zenon DEF T
<1>4. \A s \in SUBSET S : \A x \in s : f[s] = f[s \ {x}] + h[x]
  <2> DEFINE T == {s \in SUBSET S : \A x \in s : f[s] = f[s \ {x}] + h[x]}
  <2>1. ASSUME NEW s \in SUBSET S, \A x \in s : s \ {x} \in T PROVE s \in T
    <3>1. ASSUME NEW x \in s PROVE f[s] = f[s \ {x}] + h[x]
      <4> DEFINE p == Chosen(s)
      <4>1. p \in s /\ f[s] = h[p] + f[s \ {p}] BY <1>1, <1>2, Zenon
      <4>. HIDE DEF p
      <4>2. /\ s \ {p} \in SUBSET S /\ s \ {x} \in SUBSET S
            /\ f[s \ {p}] \in Nat /\ f[s \ {x}] \in Nat /\ h[p] \in Nat /\ h[x] \in Nat
        BY <1>3, <4>1, Zenon
      <4>3. CASE x = p
        <5>1. f[s] = h[x] + f[s \ {x}] BY <4>1, <4>3, Zenon
        <5>. QED BY <4>2, <5>1
      <4>4. CASE x # p
        <5> DEFINE r == (s \ {p}) \ {x}
        <5>1. f[s \ {p}] = f[r] + h[x] BY <2>1, <4>1, <4>4, Zenon
        <5>2. f[s \ {x}] = f[(s \ {x}) \ {p}] + h[p] BY <2>1, <4>1, <4>4, Zenon
        <5>3. (s \ {x}) \ {p} = r BY Zenon
        <5>4. f[r] \in Nat
          <6>1. r \in SUBSET S BY Zenon
          <6>. QED BY <1>3, <6>1, Zenon
        <5>5. f[s \ {x}] = f[r] + h[p] BY <5>2, <5>3, Zenon
        <5>. HIDE DEF r
        <5>. QED BY <4>1, <4>2, <5>1, <5>4, <5>5
      <4>. QED BY <4>3, <4>4, Zenon
    <3>. QED BY <3>1, Zenon
  <2>. HIDE DEF T
  <2>2. SUBSET S \subseteq T BY <2>1, SubsetInduction, Zenon
  <2>. QED BY <2>2, Zenon DEF T
<1>5. f \in [SUBSET S -> Nat]
  <2>1. f = [s \in SUBSET S |-> f[s]] BY Zenon DEF Fold
  <2>. QED BY <1>3, <2>1, Zenon
<1>6. f[{}] = 0 BY <1>1, Zenon
<1>. QED BY <1>4, <1>5, <1>6, Zenon DEF Sums

LEMMA ChosenIn ==
  ASSUME NEW S, NEW s \in SUBSET S, s # {}
  PROVE  Chosen(s) \in S
BY Zenon DEF Chosen

LEMMA SumsAgree ==
  ASSUME NEW R, IsFiniteSet(R), NEW f, NEW h, NEW S, Sums(f, h, S), NEW g, NEW k, NEW Q,
         Sums(g, k, Q), R \subseteq S, R \subseteq Q, \A x \in R : h[x] = k[x]
  PROVE  f[R] = g[R]
<1> DEFINE T == {s \in SUBSET R : f[s] = g[s]}
<1>1. ASSUME NEW s \in SUBSET R, \A x \in s : s \ {x} \in T PROVE s \in T
  <2>1. CASE s = {} BY <2>1, Zenon DEF Sums
  <2>2. ASSUME NEW x \in s PROVE f[s] = g[s]
    <3>1. f[s] = f[s \ {x}] + h[x] /\ g[s] = g[s \ {x}] + k[x] BY Zenon DEF Sums
    <3>2. f[s \ {x}] = g[s \ {x}] BY <1>1, Zenon
    <3>. QED BY <3>1, <3>2, Zenon
  <2>. QED BY <2>1, <2>2, Zenon
<1>. HIDE DEF T
<1>2. SUBSET R \subseteq T BY <1>1, SubsetInduction, Zenon
<1>. QED BY <1>2, Zenon DEF T

LEMMA SumsSupport ==
  ASSUME NEW S, IsFiniteSet(S), NEW f, NEW h, Sums(f, h, S), NEW R, R \subseteq S,
         \A x \in S \ R : h[x] = 0
  PROVE  f[S] = f[R]
<1> DEFINE T == {s \in SUBSET (S \ R) : f[R \cup s] = f[R]}
<1>1. ASSUME NEW s \in SUBSET (S \ R), \A x \in s : s \ {x} \in T PROVE s \in T
  <2>1. CASE s = {} 
    <3>1. R \cup s = R BY <2>1, Zenon
    <3>. QED BY <3>1, Zenon
  <2>2. ASSUME NEW x \in s PROVE f[R \cup s] = f[R]
    <3>1. /\ R \cup s \in SUBSET S /\ x \in R \cup s /\ (R \cup s) \ {x} = R \cup (s \ {x})
          /\ R \in SUBSET S
      BY Zenon
    <3>2. f[R \cup s] = f[(R \cup s) \ {x}] + h[x] BY <3>1, Zenon DEF Sums
    <3>3. h[x] = 0 BY Zenon
    <3>4. f[R \cup (s \ {x})] = f[R] BY <1>1, Zenon
    <3>5. f[R \cup s] = f[R] + 0 BY <3>1, <3>2, <3>3, <3>4, Zenon
    <3>6. f[R] \in Nat BY <3>1, Zenon DEF Sums
    <3>. QED BY <3>5, <3>6
  <2>. QED BY <2>1, <2>2, Zenon
<1>. HIDE DEF T
<1>2. IsFiniteSet(S \ R)
  <2>1. S \ R \in SUBSET S BY Zenon
  <2>. QED BY <2>1, FiniteSubset, Zenon
<1> DEFINE Q == S \ R
<1>3. SUBSET Q \subseteq T
  <2>1. \A s \in SUBSET Q : (\A x \in s : s \ {x} \in T) => s \in T BY <1>1, Zenon
  <2>2. IsFiniteSet(Q) BY <1>2, Zenon
  <2>. HIDE DEF Q
  <2>. QED BY <2>1, <2>2, SubsetInduction, Zenon
<1>4. f[R \cup (S \ R)] = f[R] BY <1>3, Zenon DEF T
<1>5. R \cup (S \ R) = S BY Zenon
<1>. QED BY <1>4, <1>5, Zenon

\* v is the sum of h over S.
IsSum(v, h, S) == \E f : Sums(f, h, S) /\ v = f[S]

LEMMA SumType ==
  ASSUME NEW v, NEW h, NEW S, IsSum(v, h, S)
  PROVE  v \in Nat /\ (S = {} => v = 0)
BY Zenon DEF IsSum, Sums

\* k has one more number than h, at x.
Extended(h, S, k, Q, x) ==
  IsFiniteSet(S) /\ x \notin S /\ Q = S \cup {x} /\ \A y \in S : h[y] = k[y]

LEMMA SumAdd ==
  ASSUME NEW v, NEW w, NEW h, NEW k, NEW S, NEW Q, NEW x, Extended(h, S, k, Q, x),
         IsSum(v, h, S), IsSum(w, k, Q)
  PROVE  w = v + k[x]
<1>0. IsFiniteSet(S) /\ x \notin S /\ Q = S \cup {x} /\ \A y \in S : h[y] = k[y]
  BY Zenon DEF Extended
<1>1. PICK f : Sums(f, h, S) /\ v = f[S] BY Zenon DEF IsSum
<1>2. PICK g : Sums(g, k, Q) /\ w = g[Q] BY Zenon DEF IsSum
<1>3. Q \ {x} = S /\ Q \in SUBSET Q /\ x \in Q BY <1>0, Zenon
<1>4. w = g[S] + k[x]
  <2>1. g[Q] = g[Q \ {x}] + k[x] BY <1>2, <1>3, Zenon DEF Sums
  <2>. QED BY <1>2, <1>3, <2>1, Zenon
<1>5. f[S] = g[S]
  <2>1. S \subseteq S /\ S \subseteq Q /\ \A y \in S : h[y] = k[y] BY <1>0, Zenon
  <2>. QED BY <1>0, <1>1, <1>2, <2>1, SumsAgree, SMT
<1>. QED BY <1>1, <1>4, <1>5, Zenon

LEMMA SumChange ==
  ASSUME NEW v, NEW w, NEW h, NEW k, NEW S, IsFiniteSet(S), NEW x \in S, IsSum(v, h, S),
         IsSum(w, k, S), \A y \in S \ {x} : h[y] = k[y], h[x] \in Nat, k[x] \in Nat
  PROVE  w + h[x] = v + k[x] /\ h[x] <= v
<1>1. PICK f : Sums(f, h, S) /\ v = f[S] BY Zenon DEF IsSum
<1>2. PICK g : Sums(g, k, S) /\ w = g[S] BY Zenon DEF IsSum
<1> DEFINE R == S \ {x}
<1>3. IsFiniteSet(R) BY FiniteSubset, Zenon
<1>4. f[R] = g[R]
  <2>1. R \subseteq S BY Zenon
  <2>2. \A y \in R : h[y] = k[y] BY Zenon
  <2>. HIDE DEF R
  <2>. QED BY <1>1, <1>2, <1>3, <2>1, <2>2, SumsAgree, SMT
<1>5. v = f[R] + h[x] /\ w = g[R] + k[x] BY <1>1, <1>2, Zenon DEF Sums
<1>6. f[R] \in Nat
  <2>1. R \in SUBSET S BY Zenon
  <2>. QED BY <1>1, <2>1, Zenon DEF Sums
<1>. HIDE DEF R
<1>. QED BY <1>4, <1>5, <1>6

\* Elements that add nothing may be left out.
LEMMA SumSupport ==
  ASSUME NEW v, NEW w, NEW h, NEW k, NEW S, IsFiniteSet(S), NEW R, R \subseteq S,
         IsSum(v, h, S), IsSum(w, k, R), \A x \in S \ R : h[x] = 0, \A x \in R : h[x] = k[x]
  PROVE  v = w
<1>1. PICK f : Sums(f, h, S) /\ v = f[S] BY Zenon DEF IsSum
<1>2. PICK g : Sums(g, k, R) /\ w = g[R] BY Zenon DEF IsSum
<1>3. f[S] = f[R] BY <1>1, SumsSupport, SMT
<1>4. IsFiniteSet(R) BY FiniteSubset, Zenon
<1>5. f[R] = g[R] 
  <2>1. R \subseteq R BY Zenon
  <2>. QED BY <1>1, <1>2, <1>4, <2>1, SumsAgree, SMT
<1>. QED BY <1>1, <1>2, <1>3, <1>5, Zenon

\* k is the list h without its first number.
Shifted(h, D, k, E) ==
  \E n \in Nat : /\ D = 1..(n + 1) /\ E = 1..n
                 /\ \A i \in D : h[i] \in Nat
                 /\ \A i \in E : k[i] = h[i + 1]

LEMMA SumShift ==
  ASSUME NEW v, NEW w, NEW h, NEW k, NEW D, NEW E, Shifted(h, D, k, E),
         IsSum(v, h, D), IsSum(w, k, E)
  PROVE  v = h[1] + w
<1>a. PICK n \in Nat : /\ D = 1..(n + 1) /\ E = 1..n
                       /\ \A i \in D : h[i] \in Nat
                       /\ \A i \in E : k[i] = h[i + 1]
  BY Zenon DEF Shifted
<1>0. /\ D = 1..(n + 1) /\ E = 1..n
      /\ \A i \in 1..(n + 1) : h[i] \in Nat
      /\ \A i \in 1..n : k[i] = h[i + 1]
  BY <1>a, Zenon
<1>1. PICK f : Sums(f, h, 1..(n + 1)) /\ v = f[1..(n + 1)] BY <1>0, Zenon DEF IsSum
<1>2. PICK g : Sums(g, k, 1..n) /\ w = g[1..n] BY <1>0, Zenon DEF IsSum
<1> DEFINE T == {m \in Nat : m <= n => f[1..(m + 1)] = h[1] + g[1..m]}
<1>3. 0 \in T
  <2>1. 1..1 = {1} /\ 1..0 = {} /\ 0 + 1 = 1 OBVIOUS
  <2>2. {1} \in SUBSET (1..(n + 1)) /\ {1} \ {1} = {} OBVIOUS
  <2>3. f[{1}] = f[{}] + h[1] /\ f[{}] = 0 /\ g[{}] = 0
    <3>1. f[{1}] = f[{1} \ {1}] + h[1] BY <1>1, <2>2, Zenon DEF Sums
    <3>. QED BY <1>1, <1>2, <2>2, <3>1, Zenon DEF Sums
  <2>4. h[1] \in Nat BY <1>0, <2>2, Zenon
  <2>5. f[{1}] = h[1] + g[{}] BY <2>3, <2>4
  <2>6. f[1..(0 + 1)] = h[1] + g[1..0] BY <2>1, <2>5, Zenon
  <2>7. 0 \in Nat OBVIOUS
  <2>. QED BY <2>6, <2>7, Zenon
<1>4. ASSUME NEW m \in Nat, m \in T PROVE m + 1 \in T
  <2>1. ASSUME m + 1 <= n PROVE f[1..((m + 1) + 1)] = h[1] + g[1..(m + 1)]
    <3> DEFINE A == 1..((m + 1) + 1)
               B == 1..(m + 1)
               C == 1..m
    <3>1. /\ A \in SUBSET (1..(n + 1)) /\ (m + 1) + 1 \in A /\ A \ {(m + 1) + 1} = B
          /\ B \in SUBSET (1..n) /\ m + 1 \in B /\ B \ {m + 1} = C /\ m <= n
          /\ C \in SUBSET (1..n) /\ m + 1 \in 1..n
          /\ B \in SUBSET (1..(n + 1)) /\ 1 \in 1..(n + 1) /\ (m + 1) + 1 \in 1..(n + 1)
      BY <2>1
    <3>2. f[A] = f[B] + h[(m + 1) + 1]
      <4>1. f[A] = f[A \ {(m + 1) + 1}] + h[(m + 1) + 1]
        <5>1. A \in SUBSET (1..(n + 1)) /\ (m + 1) + 1 \in A BY <3>1, Zenon
        <5>2. \A s \in SUBSET (1..(n + 1)) : \A x \in s : f[s] = f[s \ {x}] + h[x]
          BY <1>1, Zenon DEF Sums
        <5>. HIDE DEF A
        <5>. QED BY <5>1, <5>2, Zenon
      <4>. HIDE DEF A, B
      <4>. QED BY <3>1, <4>1, Zenon
    <3>3. g[B] = g[C] + k[m + 1]
      <4>1. g[B] = g[B \ {m + 1}] + k[m + 1]
        <5>1. B \in SUBSET (1..n) /\ m + 1 \in B BY <3>1, Zenon
        <5>2. \A s \in SUBSET (1..n) : \A x \in s : g[s] = g[s \ {x}] + k[x]
          BY <1>2, Zenon DEF Sums
        <5>. HIDE DEF B
        <5>. QED BY <5>1, <5>2, Zenon
      <4>. HIDE DEF B, C
      <4>. QED BY <3>1, <4>1, Zenon
    <3>4. f[B] = h[1] + g[C] BY <1>4, <3>1, Zenon
    <3>5. k[m + 1] = h[(m + 1) + 1] BY <1>0, <3>1, Zenon
    <3>6. f[B] \in Nat /\ g[C] \in Nat /\ h[1] \in Nat /\ h[(m + 1) + 1] \in Nat
      <4>. HIDE DEF A, B, C
      <4>. QED BY <1>0, <1>1, <1>2, <3>1, Zenon DEF Sums
    <3>. HIDE DEF A, B, C
    <3>7. f[A] = h[1] + g[B] BY <3>2, <3>3, <3>4, <3>5, <3>6
    <3>. QED BY <3>7 DEF A, B
  <2>. QED BY <2>1
<1>5. Nat \subseteq T
  <2>. HIDE DEF T
  <2>. QED BY <1>3, <1>4, SetInduction, Zenon
<1>6. n <= n OBVIOUS
<1>7. f[1..(n + 1)] = h[1] + g[1..n] BY <1>5, <1>6, Zenon
<1>. QED BY <1>1, <1>2, <1>7, Zenon

LEMMA SumExists ==
  ASSUME NEW S, IsFiniteSet(S), NEW h, \A x \in S : h[x] \in Nat
  PROVE  \E v : IsSum(v, h, S)
<1>1. PICK f : Fold(f, h, SUBSET S) BY FoldExists, Zenon
<1>2. Sums(f, h, S) BY <1>1, FoldSums, Zenon
<1>. QED BY <1>2, Zenon DEF IsSum

\* k differs from h at x only.
Differs(h, k, S, x) ==
  /\ IsFiniteSet(S) /\ x \in S /\ \A y \in S : h[y] \in Nat /\ k[y] \in Nat
  /\ \A y \in S \ {x} : h[y] = k[y]

LEMMA SumMoves ==
  ASSUME NEW S, NEW h, NEW k, NEW x, Differs(h, k, S, x), NEW v, IsSum(v, h, S)
  PROVE  \E w : /\ IsSum(w, k, S) /\ w \in Nat /\ v \in Nat
                /\ w + h[x] = v + k[x] /\ h[x] <= v
<1>0. /\ IsFiniteSet(S) /\ x \in S /\ \A y \in S : h[y] \in Nat /\ k[y] \in Nat
      /\ \A y \in S \ {x} : h[y] = k[y]
  BY Zenon DEF Differs
<1>1. PICK w : IsSum(w, k, S) BY <1>0, SumExists, Zenon
<1>2. w \in Nat /\ v \in Nat BY <1>1, SumType, Zenon
<1>3. w + h[x] = v + k[x] /\ h[x] <= v BY <1>0, <1>1, SumChange, SMT
<1>. QED BY <1>1, <1>2, <1>3, Zenon

(***************************************************************************)
(* The bytes of a session.  QueueBytes and the sum over the topics are     *)
(* what the sums say, so a push, a pop or a dropped topic moves them by    *)
(* the message or the topic that comes or goes.                            *)
(***************************************************************************)
Size(q) == [i \in DOMAIN q |-> q[i].size]
TopicBytes(tt) == MapThenSumSet(LAMBDA t : QueueBytes(tt[t].queue), DOMAIN tt)
PerTopic(tt) == [t \in DOMAIN tt |-> QueueBytes(tt[t].queue)]

\* QueueBytes adds up the lengths of the messages.
LEMMA QueueSum ==
  ASSUME NEW q, q \in Seq(Msg)
  PROVE  IsSum(QueueBytes(q), Size(q), DOMAIN q)
<1> DEFINE S == DOMAIN q
           R(f) == f = [s \in SUBSET S |-> IF s = {} THEN 0
                                           ELSE q[Chosen(s)].size + f[s \ {Chosen(s)}]]
<1>1. QueueBytes(q) = (CHOOSE f : R(f))[S]
  BY DEF QueueBytes, MapThenSumSet, MapThenFoldSet, Chosen
<1>2. \A s \in SUBSET S : s # {} => Size(q)[Chosen(s)] = q[Chosen(s)].size
  BY ChosenIn, Zenon DEF Size
<1>3. \A f : R(f) <=> Fold(f, Size(q), SUBSET S)
  BY <1>2, Zenon DEF Fold
<1>4. IsFiniteSet(S) /\ \A i \in S : Size(q)[i] \in Nat
  <2>0. S = 1..Len(q) /\ Len(q) \in Nat /\ \A i \in S : q[i] \in Msg OBVIOUS
  <2>1. S = 1..Len(q) /\ Len(q) \in Nat /\ \A i \in S : q[i].size \in Nat
    BY LengthsAssumption, <2>0, Zenon DEF Msg
  <2>3. IsFiniteSet(1..Len(q)) BY <2>1, FiniteInterval, Zenon
  <2>. QED BY <2>1, <2>3, Zenon DEF Size
<1>5. Fold(CHOOSE f : R(f), Size(q), SUBSET S)
  <2>1. \E f : R(f) BY <1>3, <1>4, FoldExists, Zenon
  <2>. HIDE DEF R
  <2>2. R(CHOOSE f : R(f)) BY <2>1, Zenon
  <2>. QED BY <1>3, <2>2, Zenon
<1>. HIDE DEF R, S
<1>6. Sums(CHOOSE f : R(f), Size(q), S) BY <1>4, <1>5, FoldSums, Zenon
<1>7. IsSum(QueueBytes(q), Size(q), S) BY <1>1, <1>6, Zenon DEF IsSum
<1>. QED BY <1>7, Zenon DEF S

LEMMA TopicSum ==
  ASSUME NEW tt, IsFiniteSet(DOMAIN tt), \A t \in DOMAIN tt : QueueBytes(tt[t].queue) \in Nat
  PROVE  IsSum(TopicBytes(tt), PerTopic(tt), DOMAIN tt)
<1> DEFINE S == DOMAIN tt
           R(f) == f = [s \in SUBSET S |-> IF s = {} THEN 0
                                           ELSE QueueBytes(tt[Chosen(s)].queue) + f[s \ {Chosen(s)}]]
<1>1. TopicBytes(tt) = (CHOOSE f : R(f))[S]
  BY DEF TopicBytes, MapThenSumSet, MapThenFoldSet, Chosen
<1>2. \A s \in SUBSET S : s # {} => PerTopic(tt)[Chosen(s)] = QueueBytes(tt[Chosen(s)].queue)
  BY ChosenIn, Zenon DEF PerTopic
<1>3. \A f : R(f) <=> Fold(f, PerTopic(tt), SUBSET S)
  BY <1>2, Zenon DEF Fold
<1>4. IsFiniteSet(S) /\ \A i \in S : PerTopic(tt)[i] \in Nat
  BY Zenon DEF PerTopic
<1>5. Fold(CHOOSE f : R(f), PerTopic(tt), SUBSET S)
  <2>1. \E f : R(f) BY <1>3, <1>4, FoldExists, Zenon
  <2>. HIDE DEF R
  <2>2. R(CHOOSE f : R(f)) BY <2>1, Zenon
  <2>. QED BY <1>3, <2>2, Zenon
<1>. HIDE DEF R, S
<1>6. Sums(CHOOSE f : R(f), PerTopic(tt), S) BY <1>4, <1>5, FoldSums, Zenon
<1>7. IsSum(TopicBytes(tt), PerTopic(tt), S) BY <1>1, <1>6, Zenon DEF IsSum
<1>. QED BY <1>7, Zenon DEF S

LEMMA BytesMeaning ==
  BytesAccounted <=> /\ \A t \in DOMAIN topics : topics[t].bytes = QueueBytes(topics[t].queue)
                     /\ byteSize = TopicBytes(topics)
                     /\ byteSize <= ByteSizeLimit
BY DEF BytesAccounted, TopicBytes, MapThenSumSet, MapThenFoldSet
LEMMA BytesMeaningNext ==
  BytesAccounted' <=> /\ \A t \in DOMAIN topics' : topics'[t].bytes = QueueBytes(topics'[t].queue)
                     /\ byteSize' = TopicBytes(topics')
                     /\ byteSize' <= ByteSizeLimit
BY DEF BytesAccounted, TopicBytes, MapThenSumSet, MapThenFoldSet

\* Appending and taking a message.
LEMMA AppendBytes ==
  ASSUME NEW q, q \in Seq(Msg), NEW m \in Msg
  PROVE  QueueBytes(Append(q, m)) = QueueBytes(q) + m.size
<1> DEFINE r == Append(q, m)
           S == DOMAIN q
<1>1. /\ r \in Seq(Msg) /\ DOMAIN r = S \cup {Len(q) + 1} /\ Len(q) + 1 \notin S
      /\ \A i \in S : r[i] = q[i] /\ r[Len(q) + 1] = m
  OBVIOUS
<1>2. r[Len(q) + 1] = m OBVIOUS
<1>. HIDE DEF r
<1>3. IsSum(QueueBytes(q), Size(q), S) BY QueueSum, Zenon
<1>4. IsSum(QueueBytes(r), Size(r), DOMAIN r) BY <1>1, QueueSum, Zenon
<1>5. Size(r)[Len(q) + 1] = m.size /\ \A i \in S : Size(q)[i] = Size(r)[i]
  BY <1>1, <1>2, Zenon DEF Size
<1>6. IsFiniteSet(S)
  <2>1. S = 1..Len(q) /\ Len(q) \in Nat OBVIOUS
  <2>. QED BY <2>1, FiniteInterval, Zenon
<1>7. IsSum(QueueBytes(q), Size(q), DOMAIN q) /\ IsFiniteSet(DOMAIN q) BY <1>3, <1>6, Zenon
<1>8. Extended(Size(q), DOMAIN q, Size(r), DOMAIN r, Len(q) + 1)
  BY <1>1, <1>5, <1>7, Zenon DEF Extended
<1>9. QueueBytes(r) = QueueBytes(q) + Size(r)[Len(q) + 1]
  BY <1>4, <1>7, <1>8, SumAdd, SMT
<1>. QED BY <1>5, <1>9, Zenon DEF r

LEMMA TailBytes ==
  ASSUME NEW q, q \in Seq(Msg), q # <<>>
  PROVE  QueueBytes(q) = Head(q).size + QueueBytes(Tail(q))
<1> DEFINE r == Tail(q)
           n == Len(q) - 1
<1>1. /\ r \in Seq(Msg) /\ n \in Nat /\ DOMAIN r = 1..n /\ DOMAIN q = 1..(n + 1)
      /\ \A i \in 1..n : r[i] = q[i + 1] /\ i + 1 \in 1..(n + 1)
  OBVIOUS
<1>2. Head(q) = q[1] /\ \A i \in 1..(n + 1) : q[i].size \in Nat
  <2>1. Head(q) = q[1] /\ \A i \in 1..(n + 1) : q[i] \in Msg OBVIOUS
  <2>. QED BY LengthsAssumption, <2>1, Zenon DEF Msg
<1>3. 1 \in 1..(n + 1) BY <1>1
<1>. HIDE DEF r, n
<1>4. IsSum(QueueBytes(q), Size(q), DOMAIN q) BY QueueSum, Zenon
<1>5. IsSum(QueueBytes(r), Size(r), DOMAIN r) BY <1>1, QueueSum, Zenon
<1>6. /\ \A i \in DOMAIN q : Size(q)[i] \in Nat
      /\ \A i \in DOMAIN r : Size(r)[i] = Size(q)[i + 1]
      /\ Size(q)[1] = Head(q).size
  BY <1>1, <1>2, <1>3, Zenon DEF Size
<1>7. Shifted(Size(q), DOMAIN q, Size(r), DOMAIN r) BY <1>1, <1>6, Zenon DEF Shifted
<1>8. QueueBytes(q) = Size(q)[1] + QueueBytes(r) BY <1>4, <1>5, <1>7, SumShift, Zenon
<1>. QED BY <1>6, <1>8, Zenon DEF r

LEMMA QueueNat == \A q \in Seq(Msg) : QueueBytes(q) \in Nat
BY QueueSum, SumType, Zenon

LEMMA EmptyBytes == QueueBytes(<<>>) = 0
<1>1. <<>> \in Seq(Msg) /\ DOMAIN <<>> = {} OBVIOUS
<1>2. IsSum(QueueBytes(<<>>), Size(<<>>), DOMAIN <<>>) BY <1>1, QueueSum, Zenon
<1>. QED BY <1>1, <1>2, SumType, Zenon

LEMMA TopicChange ==
  ASSUME NEW tt, NEW uu, NEW x \in DOMAIN tt, IsFiniteSet(DOMAIN tt), DOMAIN uu = DOMAIN tt,
         \A y \in DOMAIN tt : QueueBytes(tt[y].queue) \in Nat /\ QueueBytes(uu[y].queue) \in Nat,
         \A y \in DOMAIN tt \ {x} : uu[y].queue = tt[y].queue
  PROVE  /\ TopicBytes(uu) + QueueBytes(tt[x].queue) = TopicBytes(tt) + QueueBytes(uu[x].queue)
         /\ TopicBytes(uu) \in Nat /\ TopicBytes(tt) \in Nat
<1>1. IsSum(TopicBytes(tt), PerTopic(tt), DOMAIN tt) BY TopicSum, Zenon
<1>2. IsSum(TopicBytes(uu), PerTopic(uu), DOMAIN tt)
  <2>1. IsFiniteSet(DOMAIN uu) /\ \A y \in DOMAIN uu : QueueBytes(uu[y].queue) \in Nat BY Zenon
  <2>2. IsSum(TopicBytes(uu), PerTopic(uu), DOMAIN uu) BY <2>1, TopicSum, Zenon
  <2>. QED BY <2>2, Zenon
<1>3. /\ \A y \in DOMAIN tt \ {x} : PerTopic(tt)[y] = PerTopic(uu)[y]
      /\ PerTopic(tt)[x] = QueueBytes(tt[x].queue) /\ PerTopic(uu)[x] = QueueBytes(uu[x].queue)
  BY Zenon DEF PerTopic
<1>4. PerTopic(tt)[x] \in Nat /\ PerTopic(uu)[x] \in Nat BY <1>3, Zenon
<1>5. TopicBytes(uu) + PerTopic(tt)[x] = TopicBytes(tt) + PerTopic(uu)[x]
  BY <1>1, <1>2, <1>3, <1>4, SumChange
<1>6. TopicBytes(uu) \in Nat /\ TopicBytes(tt) \in Nat BY <1>1, <1>2, SumType, Zenon
<1>. QED BY <1>3, <1>5, <1>6, Zenon

LEMMA TopicAdd ==
  ASSUME NEW tt, NEW uu, NEW x, x \notin DOMAIN tt, IsFiniteSet(DOMAIN tt),
         DOMAIN uu = DOMAIN tt \cup {x},
         \A y \in DOMAIN uu : QueueBytes(uu[y].queue) \in Nat,
         \A y \in DOMAIN tt : uu[y].queue = tt[y].queue
  PROVE  /\ TopicBytes(uu) = TopicBytes(tt) + QueueBytes(uu[x].queue)
         /\ TopicBytes(tt) \in Nat
<1>0. \A y \in DOMAIN tt : QueueBytes(tt[y].queue) \in Nat BY Zenon
<1>1. IsSum(TopicBytes(tt), PerTopic(tt), DOMAIN tt) BY <1>0, TopicSum, Zenon
<1>2. IsSum(TopicBytes(uu), PerTopic(uu), DOMAIN uu)
  <2>1. IsFiniteSet(DOMAIN uu) BY FiniteAdd, Zenon
  <2>. QED BY <2>1, TopicSum, Zenon
<1>3. /\ \A y \in DOMAIN tt : PerTopic(tt)[y] = PerTopic(uu)[y]
      /\ PerTopic(uu)[x] = QueueBytes(uu[x].queue)
  BY Zenon DEF PerTopic
<1>5. TopicBytes(uu) = TopicBytes(tt) + PerTopic(uu)[x]
  <2>1. Extended(PerTopic(tt), DOMAIN tt, PerTopic(uu), DOMAIN uu, x) BY <1>3, Zenon DEF Extended
  <2>. QED BY <1>1, <1>2, <2>1, SumAdd, SMT
<1>6. TopicBytes(tt) \in Nat BY <1>1, SumType, Zenon
<1>. QED BY <1>3, <1>5, <1>6, Zenon

(***************************************************************************)
(* The bytes of a session, level by level.                                 *)
(***************************************************************************)
BytesInv == IsFiniteSet(DOMAIN topics) /\ BytesAccounted

LEMMA BytesTypes ==
  ASSUME OrderInv, BytesInv
  PROVE  /\ byteSize \in Nat
         /\ \A u \in DOMAIN topics : topics[u].queue \in Seq(Msg) /\ QueueBytes(topics[u].queue) \in Nat
<1>1. \A u \in DOMAIN topics : topics[u].queue \in Seq(Msg)
  BY Zenon DEF OrderInv, Shape
<1>2. \A u \in DOMAIN topics : QueueBytes(topics[u].queue) \in Nat BY <1>1, QueueNat, Zenon
<1>3. IsSum(TopicBytes(topics), PerTopic(topics), DOMAIN topics)
  BY <1>2, TopicSum, Zenon DEF BytesInv
<1>4. TopicBytes(topics) \in Nat BY <1>3, SumType, Zenon
<1>. QED BY <1>1, <1>2, <1>4, BytesMeaning, Zenon DEF BytesInv

\* A push adds its length on both levels.
LEMMA PushBytes ==
  ASSUME OrderInv, BytesInv, NEW t \in Topics, NEW n \in Lengths, availableToPush(n),
         innerPush(t, n)
  PROVE  BytesInv'
<1> DEFINE m == [id |-> pushed + 1, size |-> n]
           q == getTopic(t).queue
<1>1. q \in Seq(Msg) /\ getTopic(t).bytes = QueueBytes(q)
  <2>1. CASE t \in DOMAIN topics
    BY <2>1, BytesTypes, BytesMeaning, Zenon DEF getTopic, BytesInv
  <2>2. CASE t \notin DOMAIN topics
    <3>1. getTopic(t).queue = <<>> /\ getTopic(t).bytes = 0
      BY <2>2, Zenon DEF getTopic, NewTopicQueue
    <3>2. <<>> \in Seq(Msg) OBVIOUS
    <3>. QED BY <3>1, <3>2, EmptyBytes, Zenon
  <2>. QED BY <2>1, <2>2, Zenon
<1>2. m \in Msg /\ m.size = n BY DEF OrderInv, Shape, Msg
<1>3. /\ DOMAIN topics' = DOMAIN topics \cup {t}
      /\ topics'[t] = [bytes |-> getTopic(t).bytes + n, queue |-> Append(q, m)]
      /\ \A u \in DOMAIN topics : u # t => topics'[u] = topics[u]
      /\ byteSize' = byteSize + n
  BY Zenon DEF innerPush
<1>. HIDE DEF q, m
<1>4. QueueBytes(Append(q, m)) = QueueBytes(q) + n
  <2>1. QueueBytes(Append(q, m)) = QueueBytes(q) + m.size BY <1>1, <1>2, AppendBytes, Zenon
  <2>. QED BY <1>2, <2>1, Zenon
<1>5. n \in Nat /\ QueueBytes(q) \in Nat BY LengthsAssumption, <1>1, QueueNat, Zenon
<1>6. /\ topics'[t].bytes = QueueBytes(topics'[t].queue)
      /\ QueueBytes(topics'[t].queue) = QueueBytes(q) + n
      /\ QueueBytes(topics'[t].queue) \in Nat
  <2>1. QueueBytes(q) + n \in Nat BY <1>5
  <2> DEFINE a == getTopic(t).bytes + n
             b == Append(q, m)
  <2>2. topics'[t].bytes = a /\ topics'[t].queue = b
    <3>1. topics'[t] = [bytes |-> a, queue |-> b] BY <1>3, Zenon
    <3>. HIDE DEF a, b
    <3>. QED BY <3>1
  <2>. QED BY <1>1, <1>4, <2>1, <2>2, Zenon
<1>7. \A u \in DOMAIN topics' : /\ topics'[u].bytes = QueueBytes(topics'[u].queue)
                                /\ QueueBytes(topics'[u].queue) \in Nat
  BY <1>3, <1>6, BytesTypes, BytesMeaning, Zenon DEF BytesInv
<1>8. IsFiniteSet(DOMAIN topics) /\ IsFiniteSet(DOMAIN topics')
  BY <1>3, FiniteAdd, Zenon DEF BytesInv
<1>9. TopicBytes(topics') = TopicBytes(topics) + n
  <2>1. CASE t \in DOMAIN topics
    <3>1. DOMAIN topics' = DOMAIN topics BY <1>3, <2>1, Zenon
    <3>2. q = topics[t].queue BY <2>1, Zenon DEF q, getTopic
    <3>3. /\ TopicBytes(topics') + QueueBytes(topics[t].queue)
             = TopicBytes(topics) + QueueBytes(topics'[t].queue)
          /\ TopicBytes(topics') \in Nat /\ TopicBytes(topics) \in Nat
      <4>1. \A y \in DOMAIN topics \ {t} : topics'[y].queue = topics[y].queue BY <1>3, Zenon
      <4>2. \A y \in DOMAIN topics : /\ QueueBytes(topics[y].queue) \in Nat
                                     /\ QueueBytes(topics'[y].queue) \in Nat
        BY <1>7, <3>1, BytesTypes, Zenon
      <4>. QED BY <1>8, <2>1, <3>1, <4>1, <4>2, TopicChange, Zenon
    <3>. QED BY <1>5, <1>6, <3>2, <3>3
  <2>2. CASE t \notin DOMAIN topics
    <3>1. q = <<>> BY <2>2, Zenon DEF q, getTopic, NewTopicQueue
    <3>2. /\ TopicBytes(topics') = TopicBytes(topics) + QueueBytes(topics'[t].queue)
          /\ TopicBytes(topics) \in Nat
      <4>1. \A y \in DOMAIN topics : topics'[y].queue = topics[y].queue BY <1>3, <2>2, Zenon
      <4>. QED BY <1>3, <1>7, <1>8, <2>2, <4>1, TopicAdd, Zenon
    <3>3. QueueBytes(q) = 0 BY <3>1, EmptyBytes, Zenon
    <3>. QED BY <1>5, <1>6, <3>2, <3>3
  <2>. QED BY <2>1, <2>2, Zenon
<1>10. byteSize' = TopicBytes(topics') BY <1>3, <1>9, BytesMeaning, Zenon DEF BytesInv
<1>11. byteSize' <= ByteSizeLimit BY <1>3, Zenon DEF availableToPush
<1>. QED BY <1>7, <1>8, <1>10, <1>11, BytesMeaningNext, Zenon DEF BytesInv

\* A pop takes the length of the message it takes off both levels.
LEMMA PopBytes ==
  ASSUME OrderInv, BytesInv, NEW t, availableToPop(t), innerPop(t)
  PROVE  BytesInv'
<1> DEFINE q == topics[t].queue
           m == Head(q)
<1>1. /\ t \in DOMAIN topics /\ q \in Seq(Msg) /\ q # <<>> /\ topics[t].bytes = QueueBytes(q)
      /\ QueueBytes(q) \in Nat /\ byteSize \in Nat
  BY BytesTypes, BytesMeaning, Zenon DEF availableToPop, BytesInv
<1>2. m \in Msg /\ Tail(q) \in Seq(Msg) BY <1>1
<1>3. QueueBytes(q) = m.size + QueueBytes(Tail(q))
  <2>. HIDE DEF q
  <2>. QED BY <1>1, TailBytes, Zenon
<1>4. m.size \in Nat /\ QueueBytes(Tail(q)) \in Nat
  BY LengthsAssumption, <1>2, QueueNat, Zenon DEF Msg
<1>5. /\ DOMAIN topics' = DOMAIN topics
      /\ topics'[t] = [bytes |-> topics[t].bytes - m.size, queue |-> Tail(q)]
      /\ \A u \in DOMAIN topics : u # t => topics'[u] = topics[u]
      /\ byteSize' = byteSize - m.size
  BY <1>1, Zenon DEF innerPop, OrderInv, Shape
<1>. HIDE DEF m
<1>6. /\ topics'[t].bytes = QueueBytes(topics'[t].queue)
      /\ topics'[t].queue = Tail(q)
  <2> DEFINE a == QueueBytes(q) - m.size
             b == Tail(q)
  <2>1. topics'[t].bytes = a /\ topics'[t].queue = b
    <3>1. topics'[t] = [bytes |-> a, queue |-> b] BY <1>1, <1>5, Zenon
    <3>. HIDE DEF a, b
    <3>. QED BY <3>1
  <2>. HIDE DEF q
  <2>2. QueueBytes(q) - m.size = QueueBytes(Tail(q)) BY <1>3, <1>4
  <2>. QED BY <2>1, <2>2, Zenon
<1>7. \A u \in DOMAIN topics' : /\ topics'[u].bytes = QueueBytes(topics'[u].queue)
                                /\ QueueBytes(topics'[u].queue) \in Nat
  BY <1>4, <1>5, <1>6, BytesTypes, BytesMeaning, Zenon DEF BytesInv
<1>8. /\ TopicBytes(topics') + QueueBytes(q) = TopicBytes(topics) + QueueBytes(topics'[t].queue)
      /\ TopicBytes(topics') \in Nat /\ TopicBytes(topics) \in Nat
  <2>1. \A y \in DOMAIN topics \ {t} : topics'[y].queue = topics[y].queue BY <1>5, Zenon
  <2>2. \A y \in DOMAIN topics : /\ QueueBytes(topics[y].queue) \in Nat
                                 /\ QueueBytes(topics'[y].queue) \in Nat
    BY <1>5, <1>7, BytesTypes, Zenon
  <2>. QED BY <1>1, <1>5, <2>1, <2>2, TopicChange, Zenon DEF BytesInv
<1>9. byteSize = TopicBytes(topics) /\ byteSize <= ByteSizeLimit
  BY BytesMeaning, Zenon DEF BytesInv
<1>. HIDE DEF q
<1>10. TopicBytes(topics') = byteSize - m.size
  <2>1. QueueBytes(topics'[t].queue) = QueueBytes(Tail(q)) BY <1>6, Zenon
  <2>. QED BY <1>3, <1>4, <1>8, <1>9, <2>1
<1>11. byteSize' <= ByteSizeLimit BY <1>1, <1>4, <1>5, <1>9, LimitAssumption
<1>. QED BY <1>5, <1>7, <1>10, <1>11, BytesMeaningNext, Zenon DEF BytesInv

LEMMA DropBytes ==
  ASSUME OrderInv, BytesInv, NEW t \in Topics, CallReleaseTopic(t)
  PROVE  BytesInv'
<1>1. /\ t \in DOMAIN topics /\ byteSize' = byteSize - topics[t].bytes
      /\ DOMAIN topics' = DOMAIN topics \ {t} /\ \A u \in DOMAIN topics' : topics'[u] = topics[u]
  BY Zenon DEF CallReleaseTopic
<1>2. IsFiniteSet(DOMAIN topics') BY <1>1, FiniteSubset, Zenon DEF BytesInv
<1>3. /\ TopicBytes(topics) = TopicBytes(topics') + QueueBytes(topics[t].queue)
      /\ TopicBytes(topics') \in Nat
  <2>1. t \notin DOMAIN topics' /\ DOMAIN topics = DOMAIN topics' \cup {t} BY <1>1, Zenon
  <2>2. \A y \in DOMAIN topics' : topics[y].queue = topics'[y].queue BY <1>1, Zenon
  <2>. QED BY <1>2, <2>1, <2>2, BytesTypes, TopicAdd, Zenon
<1>4. /\ byteSize = TopicBytes(topics) /\ byteSize <= ByteSizeLimit
      /\ topics[t].bytes = QueueBytes(topics[t].queue) /\ QueueBytes(topics[t].queue) \in Nat
  BY <1>1, BytesMeaning, BytesTypes, Zenon DEF BytesInv
<1>5. byteSize' = TopicBytes(topics') BY <1>1, <1>3, <1>4
<1>6. byteSize' <= ByteSizeLimit BY <1>3, <1>4, <1>5, LimitAssumption
<1>7. \A u \in DOMAIN topics' : topics'[u].bytes = QueueBytes(topics'[u].queue)
  BY <1>1, BytesMeaning, Zenon DEF BytesInv
<1>. QED BY <1>2, <1>5, <1>6, <1>7, BytesMeaningNext, Zenon DEF BytesInv

LEMMA NoTopicBytes ==
  ASSUME NEW tt, DOMAIN tt = {}
  PROVE  TopicBytes(tt) = 0 /\ IsFiniteSet(DOMAIN tt)
<1>1. IsFiniteSet(DOMAIN tt)
  <2>1. <<>> \in Seq(DOMAIN tt) OBVIOUS
  <2>. QED BY <2>1, Zenon DEF IsFiniteSet
<1>2. IsSum(TopicBytes(tt), PerTopic(tt), DOMAIN tt) BY <1>1, TopicSum, Zenon
<1>. QED BY <1>1, <1>2, SumType, Zenon

LEMMA ClearBytes ==
  ASSUME CallReleaseSession
  PROVE  BytesInv'
<1>1. DOMAIN topics' = {} /\ byteSize' = 0 BY Zenon DEF CallReleaseSession
<1>2. 0 <= ByteSizeLimit BY LimitAssumption
<1>. QED BY <1>1, <1>2, NoTopicBytes, BytesMeaningNext, Zenon DEF BytesInv

LEMMA SameBytes ==
  ASSUME BytesInv, UNCHANGED <<topics, byteSize>>
  PROVE  BytesInv'
BY BytesMeaning, BytesMeaningNext, Zenon DEF BytesInv

LEMMA AttemptBytes ==
  ASSUME OrderInv, BytesInv, NEW g \in Goroutines, NEW c \in Calls, Attempt(g, c)
  PROVE  BytesInv'
<1>1. CASE Unchanged
  BY <1>1, SameBytes, Zenon DEF Unchanged
<1>2. CASE c.op = "push" /\ availableToPush(c.size) /\ innerPush(c.topic, c.size)
  <2>1. c.topic \in Topics /\ c.size \in Lengths
    BY <1>2 DEF Calls, NoCall
  <2> QED BY <1>2, <2>1, PushBytes, Zenon
<1>3. CASE c.op = "pop" /\ availableToPop(c.topic) /\ innerPop(c.topic)
  BY <1>3, PopBytes, Zenon
<1> QED BY <1>1, <1>2, <1>3, Zenon DEF Attempt

\* Theorem: after every push, pop, release and clearing of topics, the byte counter of a
\* topic is the length of the messages queued in it, that of the session is the length of
\* all its messages, and it keeps to the limit (topic_queue.go and session_queue.go).
THEOREM BytesCounted == QueueSpec => []BytesAccounted
<1>1. ASSUME QueueInit PROVE BytesInv
  <2>1. DOMAIN topics = {} /\ byteSize = 0 BY <1>1, Zenon DEF QueueInit
  <2>2. 0 <= ByteSizeLimit BY LimitAssumption
  <2>. QED BY <2>1, <2>2, NoTopicBytes, BytesMeaning, Zenon DEF BytesInv
<1>2. ASSUME OrderInv, BytesInv, [QueueNext]_queueVars PROVE BytesInv'
  <2>1. ASSUME NEW g \in Goroutines, NEW t \in Topics, CallPop(g, t) PROVE BytesInv'
    <3>1. [op |-> "pop", topic |-> t] \in Calls BY Zenon DEF Calls
    <3> QED BY <1>2, <2>1, <3>1, AttemptBytes, Zenon DEF CallPop
  <2>2. ASSUME NEW g \in Goroutines, NEW t \in Topics, NEW n \in Lengths, CallPush(g, t, n)
        PROVE BytesInv'
    <3>1. [op |-> "push", topic |-> t, size |-> n] \in Calls BY Zenon DEF Calls
    <3>2. CASE Leave(g) /\ Unchanged BY <1>2, <3>2, SameBytes, Zenon DEF Unchanged
    <3> QED BY <1>2, <2>2, <3>1, <3>2, AttemptBytes, Zenon DEF CallPush
  <2>3. ASSUME NEW g \in Goroutines, Wake(g) PROVE BytesInv'
    BY <1>2, <2>3, AttemptBytes, Zenon DEF Wake, OrderInv, Shape
  <2>4. ASSUME NEW g \in Goroutines, Timeout(g) \/ SignalOther(g) PROVE BytesInv'
    BY <1>2, <2>4, SameBytes, Zenon DEF Timeout, SignalOther, Unchanged
  <2>5. ASSUME NEW t \in Topics, Peek(t) PROVE BytesInv'
    BY <1>2, <2>5, PopBytes, Zenon DEF Peek
  <2>6. ASSUME NEW t \in Topics, CallReleaseTopic(t) PROVE BytesInv'
    BY <1>2, <2>6, DropBytes, Zenon
  <2>7. CASE CallReleaseSession BY <2>7, ClearBytes, Zenon
  <2>8. CASE UNCHANGED queueVars BY <1>2, <2>8, SameBytes, Zenon DEF queueVars
  <2> QED BY <1>2, <2>1, <2>2, <2>3, <2>4, <2>5, <2>6, <2>7, <2>8, Zenon DEF QueueNext
<1>3. BytesInv => BytesAccounted BY Zenon DEF BytesInv
<1>. QED BY OrderInit, OrderNext, <1>1, <1>2, <1>3, PTL DEF QueueSpec

(***************************************************************************)
(* No pop is stranded.  The wake-ups on their way to pops are counted: as  *)
(* long as pops of one topic only wait, there are at least as many as that *)
(* topic has messages.  A push adds a message and the signal it owes, its  *)
(* Signal hands that on to a waiting pop, and a woken pop that takes a     *)
(* message gives its own up; a pop goes to sleep only beside no message.   *)
(***************************************************************************)
LEMMA FiniteImage ==
  ASSUME NEW S, IsFiniteSet(S), NEW f
  PROVE  IsFiniteSet({f[x] : x \in S})
<1> DEFINE R == {f[x] : x \in S}
<1>1. PICK e \in Seq(S) : \A x \in S : \E i \in 1..Len(e) : e[i] = x BY Zenon DEF IsFiniteSet
<1> DEFINE n == Len(e)
           d == [i \in 1..n |-> f[e[i]]]
<1>2. n \in Nat /\ \A i \in 1..n : e[i] \in S BY <1>1
<1>. HIDE DEF n
<1>3. d \in [1..n -> R] BY <1>2, Zenon
<1>4. ASSUME NEW x \in S PROVE \E i \in 1..n : d[i] = f[x]
  <2>1. PICK i \in 1..n : e[i] = x BY <1>1, Zenon DEF n
  <2>2. d[i] = f[x] BY <2>1, Zenon
  <2>. QED BY <2>2, Zenon
<1>. HIDE DEF d
<1>5. \A y \in R : \E i \in 1..n : d[i] = y BY <1>4, Zenon
<1>. HIDE DEF R
<1>6. d \in Seq(R) /\ Len(d) = n BY <1>2, <1>3, ListOf, Zenon
<1>7. IsFiniteSet(R) BY <1>5, <1>6, Zenon DEF IsFiniteSet
<1>. QED BY <1>7, Zenon DEF R

\* A set with two elements has a cardinality above 1: Cardinality is a sum of ones.
LEMMA TwoElements ==
  ASSUME NEW S, IsFiniteSet(S), NEW x \in S, NEW y \in S, x # y
  PROVE  Cardinality(S) > 1
<1> DEFINE one == [s \in S |-> 1]
           C(f) == f = [s \in SUBSET S |-> IF s = {} THEN 0 ELSE 1 + f[s \ {CHOOSE z : z \in s}]]
<1>1. Cardinality(S) = (CHOOSE f : C(f))[S] BY DEF Cardinality
<1>2. \A s \in SUBSET S : (CHOOSE z : z \in s) = Chosen(s)
  BY Zenon DEF Chosen
<1>3. \A s \in SUBSET S : s # {} => one[Chosen(s)] = 1 BY ChosenIn, Zenon
<1>4. \A f : C(f) <=> Fold(f, one, SUBSET S)
  <2>. HIDE DEF one
  <2>. QED BY <1>2, <1>3, Zenon DEF Fold
<1>5. \A z \in S : one[z] = 1 BY Zenon
<1>. HIDE DEF C, one
<1>6. C(CHOOSE f : C(f)) BY <1>4, FoldExists, Zenon
<1> DEFINE c == CHOOSE f : C(f)
<1>. HIDE DEF c
<1>7. Sums(c, one, S)
  <2>1. \A z \in S : one[z] \in Nat BY <1>5
  <2>2. Fold(c, one, SUBSET S) BY <1>4, <1>6, Zenon DEF c
  <2>. QED BY <2>1, <2>2, FoldSums, Zenon
<1>8. /\ S \in SUBSET S /\ S \ {x} \in SUBSET S /\ (S \ {x}) \ {y} \in SUBSET S /\ y \in S \ {x}
  BY Zenon
<1>9. /\ c[S] = c[S \ {x}] + one[x] /\ c[S \ {x}] = c[(S \ {x}) \ {y}] + one[y]
      /\ c[(S \ {x}) \ {y}] \in Nat
  BY <1>7, <1>8, Zenon DEF Sums
<1>10. c[S] > 1 BY <1>5, <1>9
<1>. QED BY <1>1, <1>10, Zenon DEF c

\* The wake-ups on their way to a pop: pops woken and pushes that have still to signal.
Sent(pp, cc) ==
  [g \in Goroutines |-> IF (pp[g] = "woken" /\ cc[g].op = "pop")
                           \/ (pp[g] = "signal" /\ cc[g].op = "push") THEN 1 ELSE 0]
TopicIn(tt, t) == IF t \in DOMAIN tt THEN tt[t] ELSE NewTopicQueue
Depth(tt, t) == Len(TopicIn(tt, t).queue)
OneTopic == ~mixed => \A g, h \in InWait : call[g].topic = call[h].topic
Enough ==
  \E v : /\ IsSum(v, Sent(pc, call), Goroutines)
         /\ ~mixed => \A g \in Waiting("pop") : Depth(topics, call[g].topic) <= v
WakeInv ==
  /\ DOMAIN pc = Goroutines
  /\ isReleased => DOMAIN topics = {}
  /\ OneTopic
  /\ Enough

LEMMA SentTypes ==
  /\ \A pp, cc : \A g \in Goroutines : Sent(pp, cc)[g] \in {0, 1}
  /\ \A pp, cc : \A g \in Goroutines : Sent(pp, cc)[g] \in Nat
<1>1. \A pp, cc : \A g \in Goroutines : Sent(pp, cc)[g] \in {0, 1} BY Zenon DEF Sent
<1>2. {0, 1} \subseteq Nat OBVIOUS
<1>. QED BY <1>1, <1>2, Zenon

LEMMA DepthTypes ==
  /\ OrderInv => \A t : Depth(topics, t) \in Nat
  /\ OrderInv' => \A t : Depth(topics', t) \in Nat
<1>1. <<>> \in Seq(Msg) OBVIOUS
<1>2. \A q \in Seq(Msg) : Len(q) \in Nat OBVIOUS
<1>3. ASSUME OrderInv, NEW t PROVE TopicIn(topics, t).queue \in Seq(Msg)
  BY <1>1, <1>3, Zenon DEF OrderInv, Shape, TopicIn, NewTopicQueue
<1>4. ASSUME OrderInv', NEW t PROVE TopicIn(topics', t).queue \in Seq(Msg)
  BY <1>1, <1>4, Zenon DEF OrderInv, Shape, TopicIn, getTopic, NewTopicQueue
<1>. QED BY <1>2, <1>3, <1>4, Zenon DEF Depth

LEMMA PushDepth ==
  ASSUME OrderInv, NEW t \in Topics, NEW n \in Lengths, innerPush(t, n), NEW u
  PROVE  Depth(topics', u) <= Depth(topics, u) + 1
<1> DEFINE m == [id |-> pushed + 1, size |-> n]
           q == getTopic(t).queue
<1>1. /\ DOMAIN topics' = DOMAIN topics \cup {t}
      /\ topics'[t] = [bytes |-> getTopic(t).bytes + n, queue |-> Append(q, m)]
      /\ \A x \in DOMAIN topics : x # t => topics'[x] = topics[x]
  BY Zenon DEF innerPush
<1>2. q \in Seq(Msg)
  <2>1. <<>> \in Seq(Msg) OBVIOUS
  <2>. QED BY <2>1, Zenon DEF OrderInv, Shape, TopicIn, getTopic, NewTopicQueue
<1>3. m \in Msg BY DEF OrderInv, Shape, Msg
<1>4. Depth(topics, t) = Len(q) BY Zenon DEF Depth, TopicIn, getTopic
<1>. HIDE DEF q, m
<1>5. Len(Append(q, m)) = Len(q) + 1 /\ Len(q) \in Nat BY <1>2, <1>3
<1>6. CASE u = t
  <2>1. TopicIn(topics', u) = topics'[t] BY <1>1, <1>6, Zenon DEF TopicIn, getTopic
  <2> DEFINE b == getTopic(t).bytes + n
             r == Append(q, m)
  <2>2. TopicIn(topics', u) = [bytes |-> b, queue |-> r] BY <1>1, <2>1, Zenon
  <2>. HIDE DEF b, r
  <2>3. TopicIn(topics', u).queue = r BY <2>2, SMT
  <2>4. Depth(topics', u) = Len(r) BY <2>3, Zenon DEF Depth
  <2>5. Depth(topics', u) = Len(q) + 1 /\ Depth(topics, u) = Len(q)
    BY <1>4, <1>5, <1>6, <2>4, Zenon DEF r
  <2>. QED BY <1>5, <2>5
<1>7. CASE u # t
  <2>1. TopicIn(topics', u) = TopicIn(topics, u)
    BY <1>1, <1>7, Zenon DEF TopicIn, getTopic, NewTopicQueue
  <2>2. Depth(topics', u) = Depth(topics, u) /\ Depth(topics, u) \in Nat
    BY <2>1, DepthTypes, Zenon DEF Depth
  <2>. QED BY <2>2
<1>. QED BY <1>6, <1>7, Zenon

LEMMA PopDepth ==
  ASSUME OrderInv, NEW t, availableToPop(t), innerPop(t)
  PROVE  /\ \A u : Depth(topics', u) <= Depth(topics, u)
         /\ Depth(topics', t) + 1 <= Depth(topics, t)
<1> DEFINE q == topics[t].queue
<1>1. /\ DOMAIN topics' = DOMAIN topics /\ t \in DOMAIN topics /\ q # <<>>
      /\ topics'[t] = [bytes |-> topics[t].bytes - Head(q).size, queue |-> Tail(q)]
      /\ \A x \in DOMAIN topics : x # t => topics'[x] = topics[x]
  BY Zenon DEF innerPop, availableToPop, OrderInv, Shape
<1>2. q \in Seq(Msg) BY <1>1, Zenon DEF OrderInv, Shape
<1>3. Depth(topics, t) = Len(q) BY <1>1, Zenon DEF Depth, TopicIn, getTopic
<1>. HIDE DEF q
<1>4. Len(Tail(q)) + 1 = Len(q) /\ Len(Tail(q)) \in Nat /\ Len(q) \in Nat BY <1>1, <1>2
<1>5. Depth(topics', t) = Len(Tail(q))
  <2> DEFINE b == topics[t].bytes - Head(q).size
             r == Tail(q)
  <2>1. TopicIn(topics', t) = [bytes |-> b, queue |-> r] BY <1>1, Zenon DEF TopicIn, getTopic
  <2>. HIDE DEF b, r
  <2>2. TopicIn(topics', t).queue = r BY <2>1, SMT
  <2>. QED BY <2>2, Zenon DEF Depth, r
<1>6. Depth(topics', t) + 1 <= Depth(topics, t) /\ Depth(topics', t) <= Depth(topics, t)
  <2> DEFINE a == Depth(topics', t)
             b == Depth(topics, t)
             c == Len(Tail(q))
  <2>1. a = c /\ b = Len(q) BY <1>3, <1>5, Zenon
  <2>. HIDE DEF a, b
  <2>2. a + 1 <= b /\ a <= b BY <1>4, <2>1
  <2>. QED BY <2>2, Zenon DEF a, b
<1>7. ASSUME NEW u, u # t PROVE Depth(topics', u) <= Depth(topics, u)
  <2>1. TopicIn(topics', u) = TopicIn(topics, u)
    BY <1>1, <1>7, Zenon DEF TopicIn, getTopic, NewTopicQueue
  <2>2. Depth(topics', u) = Depth(topics, u) /\ Depth(topics, u) \in Nat
    BY <2>1, DepthTypes, Zenon DEF Depth
  <2>. QED BY <2>2
<1>. QED BY <1>6, <1>7, Zenon

LEMMA SameDepth ==
  ASSUME OrderInv, UNCHANGED topics
  PROVE  \A u : Depth(topics', u) <= Depth(topics, u)
<1>1. \A u : Depth(topics', u) = Depth(topics, u) /\ Depth(topics, u) \in Nat
  BY DepthTypes, Zenon DEF Depth, TopicIn, getTopic, NewTopicQueue
<1>2. \A d \in Nat : d <= d OBVIOUS
<1>. QED BY <1>1, <1>2, Zenon

LEMMA NoDepth ==
  ASSUME NEW t, (~availableToPop(t) /\ UNCHANGED topics) \/ DOMAIN topics' = {}
  PROVE  Depth(topics', t) = 0
<1>1. Len(<<>>) = 0 OBVIOUS
<1>2. TopicIn(topics', t).queue = <<>> BY Zenon DEF TopicIn, getTopic, availableToPop, NewTopicQueue
<1>. QED BY <1>1, <1>2, Zenon DEF Depth

\* What a step of MCSessionQueue says of mixed.
Mixes == mixed' = (WaitedFor' # {} /\ (mixed \/ Cardinality(WaitedFor') > 1))

\* mixed forgets only when no pop waits: otherwise pops of one topic wait.
LEMMA NotMixed ==
  ASSUME IsFiniteSet(Goroutines), Mixes, ~mixed'
  PROVE  /\ \A g, h \in InWait' : call'[g].topic = call'[h].topic
         /\ \A g \in InWait' : ~mixed
<1> DEFINE f == [g \in Goroutines |-> call'[g].topic]
<1>1. InWait' \subseteq Goroutines BY Zenon DEF InWait
<1>2. IsFiniteSet(InWait') BY <1>1, FiniteSubset, Zenon
<1>3. WaitedFor' = {f[g] : g \in InWait'} BY <1>1, Zenon DEF WaitedFor
<1>. HIDE DEF f
<1>4. IsFiniteSet(WaitedFor') BY <1>2, <1>3, FiniteImage, Zenon
<1>5. \A g \in InWait' : call'[g].topic \in WaitedFor' BY Zenon DEF WaitedFor
<1>6. ASSUME NEW g \in InWait' PROVE ~mixed /\ ~(Cardinality(WaitedFor') > 1)
  BY <1>5, <1>6, Zenon DEF Mixes
<1>7. ASSUME NEW g \in InWait', NEW h \in InWait' PROVE call'[g].topic = call'[h].topic
  BY <1>4, <1>5, <1>6, TwoElements, Zenon
<1>. QED BY <1>6, <1>7, Zenon

\* After the step the pop h sleeps beside nothing, or slept before, and the wake-ups at g
\* make up for what the queue of its topic gained.
Covered(g, h) ==
  \/ Depth(topics', call'[h].topic) = 0
  \/ /\ h \in Waiting("pop") /\ ~mixed /\ call'[h].topic = call[h].topic
     /\ Depth(topics', call[h].topic) + Sent(pc, call)[g]
          <= Depth(topics, call[h].topic) + Sent(pc', call')[g]

LEMMA EnoughMoves ==
  ASSUME IsFiniteSet(Goroutines), OrderInv, OrderInv', Enough, NEW g \in Goroutines,
         \A h \in Goroutines \ {g} : Sent(pc', call')[h] = Sent(pc, call)[h],
         ~mixed' => \A h \in Waiting("pop")' : Covered(g, h)
  PROVE  Enough'
<1>1. PICK v : /\ IsSum(v, Sent(pc, call), Goroutines)
               /\ ~mixed => \A h \in Waiting("pop") : Depth(topics, call[h].topic) <= v
  BY Zenon DEF Enough
<1>2. Differs(Sent(pc, call), Sent(pc', call'), Goroutines, g)
  BY SentTypes, Zenon DEF Differs
<1>3. PICK w : /\ IsSum(w, Sent(pc', call'), Goroutines) /\ w \in Nat /\ v \in Nat
               /\ w + Sent(pc, call)[g] = v + Sent(pc', call')[g]
  <2> DEFINE x == Sent(pc, call)
             y == Sent(pc', call')
  <2>1. Differs(x, y, Goroutines, g) /\ IsSum(v, x, Goroutines) BY <1>1, <1>2, Zenon
  <2>. HIDE DEF x, y
  <2>2. PICK w : /\ IsSum(w, y, Goroutines) /\ w \in Nat /\ v \in Nat
                 /\ w + x[g] = v + y[g] /\ x[g] <= v
    BY <2>1, SumMoves, Zenon
  <2>. QED BY <2>2, Zenon DEF x, y
<1>4. ASSUME ~mixed', NEW h \in Waiting("pop")' PROVE Depth(topics', call'[h].topic) <= w
  <2>1. CASE Depth(topics', call'[h].topic) = 0 BY <1>3, <2>1
  <2>2. CASE /\ h \in Waiting("pop") /\ ~mixed /\ call'[h].topic = call[h].topic
             /\ Depth(topics', call[h].topic) + Sent(pc, call)[g]
                  <= Depth(topics, call[h].topic) + Sent(pc', call')[g]
    <3> DEFINE a == Depth(topics', call[h].topic)
               b == Depth(topics, call[h].topic)
               x == Sent(pc, call)[g]
               y == Sent(pc', call')[g]
    <3>1. b <= v BY <1>1, <2>2, Zenon
    <3>2. a + x <= b + y BY <2>2, Zenon
    <3>3. x \in Nat /\ y \in Nat BY SentTypes, Zenon
    <3>4. b \in Nat BY DepthTypes, Zenon
    <3>5. a \in Nat
      <4> DEFINE t == call[h].topic
      <4>. HIDE DEF t
      <4>1. \A u : Depth(topics', u) \in Nat BY DepthTypes, Zenon
      <4>2. ASSUME NEW u, u = t PROVE Depth(topics', u) \in Nat BY <4>1, Zenon
      <4>3. Depth(topics', call'[h].topic) \in Nat BY <4>1, Zenon
      <4>. QED BY <2>2, <4>1, Zenon DEF t
    <3>6. w + x = v + y BY <1>3, Zenon
    <3>7. Depth(topics', call'[h].topic) = a BY <2>2, Zenon
    <3>. HIDE DEF a, b, x, y
    <3>8. a <= w BY <1>3, <3>1, <3>2, <3>3, <3>4, <3>5, <3>6
    <3>. QED BY <3>7, <3>8, Zenon
  <2>. QED BY <1>4, <2>1, <2>2, Zenon DEF Covered
<1>. QED BY <1>3, <1>4, Zenon DEF Enough

\* A step of g leaves the other goroutines alone.
OthersStay(g) == \A h \in Goroutines \ {g} : pc'[h] = pc[h] /\ call'[h] = call[h]

LEMMA OthersSend ==
  ASSUME NEW g, OthersStay(g)
  PROVE  \A h \in Goroutines \ {g} : Sent(pc', call')[h] = Sent(pc, call)[h]
BY Zenon DEF Sent, OthersStay

\* A pop that waits after a step which left it alone waited before.
LEMMA StillWaits ==
  ASSUME IsFiniteSet(Goroutines), Mixes, ~mixed', NEW h \in Waiting("pop")',
         pc'[h] = pc[h], call'[h] = call[h]
  PROVE  h \in Waiting("pop") /\ ~mixed /\ call'[h].topic = call[h].topic
<1>1. h \in InWait' BY Zenon DEF Waiting, InWait
<1>2. ~mixed BY <1>1, NotMixed, Zenon DEF Mixes
<1>3. h \in Waiting("pop") BY Zenon DEF Waiting
<1>. QED BY <1>2, <1>3, Zenon

LEMMA AttemptWakes ==
  ASSUME IsFiniteSet(Goroutines), OrderInv, OrderInv', WakeInv, Mixes,
         NEW g \in Goroutines, NEW c \in Calls, Attempt(g, c),
         pc[g] = "idle" \/ (pc[g] = "woken" /\ c = call[g])
  PROVE  Enough'
<1> DEFINE s == Sent(pc, call)[g]
           r == Sent(pc', call')[g]
<1>1. DOMAIN pc = Goroutines /\ DOMAIN call = Goroutines BY Zenon DEF WakeInv, OrderInv, Shape
<1>2. OthersStay(g) BY <1>1, Zenon DEF Attempt, Leave, OthersStay
<1>3. c.op # "pop" => s = 0 BY Zenon DEF Sent
<1>4. pc[g] = "idle" => s = 0 BY Zenon DEF Sent
<1>5. s \in Nat /\ r \in Nat /\ (s = 0 \/ s = 1) BY SentTypes, Zenon
<1>6. ASSUME ~mixed', NEW h \in Waiting("pop")', h # g
      PROVE  h \in Waiting("pop") /\ ~mixed /\ call'[h].topic = call[h].topic
  <2>1. h \in Goroutines BY Zenon DEF Waiting
  <2>. QED BY <1>2, <1>6, <2>1, StillWaits, Zenon DEF OthersStay
<1>7. (~mixed' => \A h \in Waiting("pop")' : Covered(g, h)) => Enough'
  BY <1>2, OthersSend, EnoughMoves, Zenon DEF WakeInv
<1>8. CASE isReleased /\ Leave(g) /\ Unchanged
  <2>1. DOMAIN topics' = {} BY <1>8, Zenon DEF Unchanged, WakeInv
  <2>2. \A t : Depth(topics', t) = 0 BY <2>1, NoDepth, Zenon
  <2>. QED BY <1>7, <2>2, Zenon DEF Covered
<1>9. CASE /\ c.op = "push" /\ innerPush(c.topic, c.size)
           /\ pc' = [pc EXCEPT ![g] = "signal"] /\ call' = [call EXCEPT ![g] = c]
  <2>0. c.op = "push" BY <1>9, Zenon
  <2>1. c.topic \in Topics /\ c.size \in Lengths BY <2>0 DEF Calls, NoCall
  <2>2. pc'[g] = "signal" /\ call'[g] = c BY <1>1, <1>9, Zenon
  <2>3. r = 1 BY <1>9, <2>2, Zenon DEF Sent
  <2>4. ASSUME ~mixed', NEW h \in Waiting("pop")' PROVE Covered(g, h)
    <3>1. h # g BY <2>2, Zenon DEF Waiting
    <3> DEFINE a == Depth(topics', call[h].topic)
               b == Depth(topics, call[h].topic)
    <3>2. a <= b + 1 BY <1>9, <2>1, PushDepth, Zenon
    <3>3. a \in Nat /\ b \in Nat BY <1>6, <2>4, <3>1, DepthTypes, Zenon
    <3>4. s = 0 BY <1>3, <1>9, Zenon
    <3>. HIDE DEF a, b, s, r
    <3>5. a + s <= b + r BY <2>3, <3>2, <3>3, <3>4
    <3>. QED BY <1>6, <2>4, <3>1, <3>5, Zenon DEF Covered, a, b, s, r
  <2>. QED BY <1>7, <2>4, Zenon
<1>10. CASE /\ c.op = "pop" /\ availableToPop(c.topic) /\ innerPop(c.topic)
            /\ pc' = [pc EXCEPT ![g] = "signal"] /\ call' = [call EXCEPT ![g] = c]
  <2>1. pc'[g] = "signal" /\ call'[g] = c BY <1>1, <1>10, Zenon
  <2>2. ASSUME ~mixed', NEW h \in Waiting("pop")' PROVE Covered(g, h)
    <3>1. h # g BY <2>1, Zenon DEF Waiting
    <3>2. h \in Waiting("pop") /\ ~mixed /\ call'[h].topic = call[h].topic
      BY <1>6, <2>2, <3>1, Zenon
    <3> DEFINE a == Depth(topics', call[h].topic)
               b == Depth(topics, call[h].topic)
    <3>3. a <= b BY <1>10, PopDepth, Zenon
    <3>4. a \in Nat /\ b \in Nat BY <3>2, DepthTypes, Zenon
    <3>5. s = 1 => a + 1 <= b
      <4>1. SUFFICES ASSUME s = 1 PROVE a + 1 <= b BY Zenon
      <4>2. pc[g] = "woken" /\ c = call[g] BY <1>4, <4>1
      <4>3. g \in InWait /\ h \in InWait BY <1>10, <3>2, <4>2, Zenon DEF InWait, Waiting
      <4>4. call[h].topic = c.topic BY <3>2, <4>2, <4>3, Zenon DEF WakeInv, OneTopic
      <4>. QED BY <1>10, <4>4, PopDepth, Zenon
    <3>. HIDE DEF a, b, s, r
    <3>6. a + s <= b + r BY <1>5, <3>3, <3>4, <3>5
    <3>. QED BY <3>2, <3>6, Zenon DEF Covered, a, b, s, r
  <2>. QED BY <1>7, <2>2, Zenon
<1>11. CASE /\ c.op = "pop" => ~availableToPop(c.topic)
            /\ pc' = [pc EXCEPT ![g] = "waiting"] /\ call' = [call EXCEPT ![g] = c] /\ Unchanged
  <2>1. pc'[g] = "waiting" /\ call'[g] = c /\ UNCHANGED topics BY <1>1, <1>11, Zenon DEF Unchanged
  <2>2. CASE c.op = "pop"
    <3>1. Depth(topics', c.topic) = 0 BY <1>11, <2>1, <2>2, NoDepth, Zenon
    <3>2. g \in InWait' BY <2>1, <2>2, Zenon DEF InWait
    <3>3. Waiting("pop")' \subseteq InWait' BY Zenon DEF InWait, Waiting
    <3>4. ASSUME ~mixed', NEW h \in Waiting("pop")' PROVE Covered(g, h)
      <4>1. call'[h].topic = c.topic BY <2>1, <3>2, <3>3, <3>4, NotMixed, Zenon DEF Mixes
      <4>. QED BY <3>1, <4>1, Zenon DEF Covered
    <3>. QED BY <1>7, <3>4, Zenon
  <2>3. CASE c.op # "pop"
    <3>1. ASSUME ~mixed', NEW h \in Waiting("pop")' PROVE Covered(g, h)
      <4>1. h # g BY <2>1, <2>3, Zenon DEF Waiting
      <4>2. h \in Waiting("pop") /\ ~mixed /\ call'[h].topic = call[h].topic
        BY <1>6, <3>1, <4>1, Zenon
      <4> DEFINE a == Depth(topics', call[h].topic)
                 b == Depth(topics, call[h].topic)
      <4>3. a <= b BY <2>1, SameDepth, Zenon
      <4>4. a \in Nat /\ b \in Nat BY <4>2, DepthTypes, Zenon
      <4>5. s = 0 BY <1>3, <2>3, Zenon
      <4>. HIDE DEF a, b, s, r
      <4>6. a + s <= b + r BY <1>5, <4>3, <4>4, <4>5
      <4>. QED BY <4>2, <4>6, Zenon DEF Covered, a, b, s, r
    <3>. QED BY <1>7, <3>1, Zenon
  <2>. QED BY <2>2, <2>3, Zenon
<1>. QED BY <1>8, <1>9, <1>10, <1>11, Zenon DEF Attempt

\* After a step that moves no wake-up, or hands one on, no queue that a pop waits for is longer.
LEMMA EnoughKept ==
  ASSUME IsFiniteSet(Goroutines), OrderInv, OrderInv', Enough, Mixes,
         \A v : IsSum(v, Sent(pc, call), Goroutines) => IsSum(v, Sent(pc', call'), Goroutines),
         \A h \in Waiting("pop")' : pc'[h] = pc[h] /\ call'[h] = call[h],
         \A u : Depth(topics', u) <= Depth(topics, u)
  PROVE  Enough'
<1>1. PICK v : /\ IsSum(v, Sent(pc, call), Goroutines)
               /\ ~mixed => \A h \in Waiting("pop") : Depth(topics, call[h].topic) <= v
  BY Zenon DEF Enough
<1>2. v \in Nat BY <1>1, SumType, Zenon
<1>3. ASSUME ~mixed', NEW h \in Waiting("pop")' PROVE Depth(topics', call'[h].topic) <= v
  <2>1. h \in Waiting("pop") /\ ~mixed /\ call'[h].topic = call[h].topic
    BY <1>3, StillWaits, Zenon
  <2> DEFINE a == Depth(topics', call[h].topic)
             b == Depth(topics, call[h].topic)
  <2>2. a <= b /\ b <= v BY <1>1, <2>1, Zenon
  <2>3. a \in Nat /\ b \in Nat BY <2>1, DepthTypes, Zenon
  <2>. HIDE DEF a, b
  <2>4. a <= v BY <1>2, <2>2, <2>3
  <2>. QED BY <2>1, <2>4, Zenon DEF a
<1>. QED BY <1>1, <1>3, Zenon DEF Enough

LEMMA SameSum ==
  ASSUME \A g \in Goroutines : Sent(pc', call')[g] = Sent(pc, call)[g]
  PROVE  \A v : IsSum(v, Sent(pc, call), Goroutines) => IsSum(v, Sent(pc', call'), Goroutines)
<1>1. Sent(pc', call') = Sent(pc, call) BY Zenon DEF Sent
<1>. QED BY <1>1, Zenon

\* A wake-up that goes from one goroutine to another stays in the sum.
LEMMA SwapSum ==
  ASSUME NEW S, IsFiniteSet(S), NEW g \in S, NEW h \in S, g # h, NEW x, NEW y,
         \A z \in S : x[z] \in Nat /\ y[z] \in Nat,
         \A z \in S : z # g /\ z # h => y[z] = x[z],
         x[g] = 1, y[g] = 0, x[h] = 0, y[h] = 1, NEW v, IsSum(v, x, S)
  PROVE  IsSum(v, y, S)
<1> DEFINE m == [z \in S |-> IF z = g THEN 0 ELSE x[z]]
<1>1. m[g] = 0 /\ m[h] = 0 /\ \A z \in S : z # g => m[z] = x[z] BY Zenon
<1>2. 0 \in Nat /\ 1 \in Nat OBVIOUS
<1>3. \A z \in S : m[z] \in Nat BY <1>2, Zenon
<1>. HIDE DEF m
<1>4. Differs(x, m, S, g) BY <1>1, <1>3, Zenon DEF Differs
<1>5. Differs(m, y, S, h) BY <1>1, <1>3, Zenon DEF Differs
<1>6. PICK w : /\ IsSum(w, m, S) /\ w \in Nat /\ v \in Nat
               /\ w + x[g] = v + m[g] /\ x[g] <= v
  BY <1>4, SumMoves, Zenon
<1>7. PICK u : /\ IsSum(u, y, S) /\ u \in Nat /\ w \in Nat
               /\ u + m[h] = w + y[h] /\ m[h] <= w
  BY <1>5, <1>6, SumMoves, Zenon
<1>8. w + 1 = v + 0 /\ u + 0 = w + 1 BY <1>1, <1>6, <1>7, Zenon
<1>9. u = v BY <1>6, <1>7, <1>8
<1>. QED BY <1>7, <1>9, Zenon

\* A signal on notFull wakes at most one push.
WokePush(p, next) ==
  /\ DOMAIN p = Goroutines
  /\ \A g \in Goroutines :
       p[g] = next[g] \/ (pc[g] = "waiting" /\ call[g].op = "push" /\ p[g] = "woken")

LEMMA NotFullWakes ==
  ASSUME DOMAIN pc = Goroutines, NEW next, DOMAIN next = Goroutines, NEW p,
         p \in SignalNotFull(next)
  PROVE  WokePush(p, next)
<1>1. CASE p = next BY <1>1, Zenon DEF WokePush
<1>2. CASE \E g \in Waiting("push") : p = [next EXCEPT ![g] = "woken"]
  <2>1. PICK g \in Waiting("push") : p = [next EXCEPT ![g] = "woken"] BY <1>2, Zenon
  <2>2. g \in Goroutines /\ pc[g] = "waiting" /\ call[g].op = "push" BY Zenon DEF Waiting
  <2>. QED BY <2>1, <2>2, Zenon DEF WokePush
<1>. QED BY <1>1, <1>2, Zenon DEF SignalNotFull, Signal

LEMMA NotEmptyWakes ==
  ASSUME DOMAIN pc = Goroutines, NEW next, DOMAIN next = Goroutines, NEW p,
         p \in SignalNotEmpty(next)
  PROVE  /\ DOMAIN p = Goroutines
         /\ \/ p = next /\ Waiting("pop") = {}
            \/ \E h \in Waiting("pop") : p = [next EXCEPT ![h] = "woken"]
<1>1. \/ p = next /\ Waiting("pop") = {}
      \/ \E h \in Waiting("pop") : p = [next EXCEPT ![h] = "woken"]
  BY Zenon DEF SignalNotEmpty, Signal
<1>. QED BY <1>1, Zenon

\* A step that only wakes pushes: Peek, CallReleaseTopic.
LEMMA WakesPush ==
  ASSUME IsFiniteSet(Goroutines), OrderInv, OrderInv', WakeInv, Mixes,
         pc' \in SignalNotFull(pc), UNCHANGED call,
         \A u : Depth(topics', u) <= Depth(topics, u)
  PROVE  Enough'
<1>1. DOMAIN pc = Goroutines BY Zenon DEF WakeInv
<1>2. \A g \in Goroutines :
        pc'[g] = pc[g] \/ (pc[g] = "waiting" /\ call[g].op = "push" /\ pc'[g] = "woken")
  <2>1. WokePush(pc', pc) BY <1>1, NotFullWakes, Zenon
  <2>. QED BY <2>1, Zenon DEF WokePush
<1>3. \A g \in Goroutines : Sent(pc', call')[g] = Sent(pc, call)[g] BY <1>2, Zenon DEF Sent
<1>4. \A h \in Waiting("pop")' : pc'[h] = pc[h] /\ call'[h] = call[h] BY <1>2, Zenon DEF Waiting
<1>. QED BY <1>3, <1>4, SameSum, EnoughKept, Zenon DEF WakeInv

\* Push hands its wake-up to a waiting pop, if one waits; Pop wakes a push.
LEMMA SignalWakes ==
  ASSUME IsFiniteSet(Goroutines), OrderInv, OrderInv', WakeInv, Mixes,
         NEW g \in Goroutines, SignalOther(g)
  PROVE  Enough'
<1> DEFINE next == [pc EXCEPT ![g] = "idle"]
<1>1. /\ DOMAIN pc = Goroutines /\ DOMAIN call = Goroutines /\ pc[g] = "signal"
      /\ call' = [call EXCEPT ![g] = NoCall] /\ UNCHANGED topics
  BY Zenon DEF WakeInv, OrderInv, Shape, SignalOther, Unchanged
<1>2. /\ DOMAIN next = Goroutines /\ next[g] = "idle"
      /\ \A h \in Goroutines : h # g => next[h] = pc[h]
  BY <1>1, Zenon
<1>3. IF call[g].op = "push" THEN pc' \in SignalNotEmpty(next) ELSE pc' \in SignalNotFull(next)
  BY Zenon DEF SignalOther
<1>. HIDE DEF next
<1>4. \A u : Depth(topics', u) <= Depth(topics, u) BY <1>1, SameDepth, Zenon
<1>5. /\ call'[g] = NoCall /\ NoCall.op = "none"
      /\ \A h \in Goroutines : h # g => call'[h] = call[h]
  BY <1>1, Zenon DEF NoCall
<1>6. CASE call[g].op # "push"
  <2>1. \A h \in Goroutines :
          pc'[h] = next[h] \/ (pc[h] = "waiting" /\ call[h].op = "push" /\ pc'[h] = "woken")
    <3>1. WokePush(pc', next) BY <1>1, <1>2, <1>3, <1>6, NotFullWakes, Zenon
    <3>. QED BY <3>1, Zenon DEF WokePush
  <2>2. \A h \in Goroutines : Sent(pc', call')[h] = Sent(pc, call)[h]
    <3>1. Sent(pc', call')[g] = 0 /\ Sent(pc, call)[g] = 0
      BY <1>1, <1>5, <1>6, Zenon DEF Sent
    <3>2. ASSUME NEW h \in Goroutines, h # g PROVE Sent(pc', call')[h] = Sent(pc, call)[h]
      <4>1. pc'[h] = pc[h] \/ (pc[h] = "waiting" /\ call[h].op = "push" /\ pc'[h] = "woken")
        BY <1>2, <2>1, <3>2, Zenon
      <4>2. call'[h] = call[h] BY <1>5, <3>2, Zenon
      <4>. QED BY <4>1, <4>2, Zenon DEF Sent
    <3>. QED BY <3>1, <3>2, Zenon
  <2>3. \A h \in Waiting("pop")' : pc'[h] = pc[h] /\ call'[h] = call[h]
    BY <1>1, <1>2, <1>5, <2>1, Zenon DEF Waiting
  <2>. QED BY <1>4, <2>2, <2>3, SameSum, EnoughKept, Zenon DEF WakeInv
<1>7. CASE call[g].op = "push" /\ pc' = next /\ Waiting("pop") = {}
  <2>1. OthersStay(g) BY <1>2, <1>5, <1>7, Zenon DEF OthersStay
  <2>2. Waiting("pop")' = {} BY <1>2, <1>5, <1>7, Zenon DEF Waiting
  <2>. QED BY <2>1, <2>2, OthersSend, EnoughMoves, Zenon DEF WakeInv
<1>8. CASE call[g].op = "push" /\ \E h \in Waiting("pop") : pc' = [next EXCEPT ![h] = "woken"]
  <2>1. PICK h \in Waiting("pop") : pc' = [next EXCEPT ![h] = "woken"] BY <1>8, Zenon
  <2>2. h \in Goroutines /\ pc[h] = "waiting" /\ call[h].op = "pop" BY Zenon DEF Waiting
  <2>3. h # g BY <1>1, <2>2, Zenon
  <2>4. /\ pc'[h] = "woken" /\ pc'[g] = "idle" /\ call'[h] = call[h]
        /\ \A z \in Goroutines : z # g /\ z # h => pc'[z] = pc[z] /\ call'[z] = call[z]
    BY <1>2, <1>5, <2>1, <2>2, <2>3, Zenon
  <2> DEFINE x == Sent(pc, call)
             y == Sent(pc', call')
  <2>5. x[g] = 1 /\ y[g] = 0 /\ x[h] = 0 /\ y[h] = 1
    BY <1>1, <1>5, <1>8, <2>2, <2>4, Zenon DEF Sent
  <2>6. \A z \in Goroutines : z # g /\ z # h => y[z] = x[z] BY <2>4, Zenon DEF Sent
  <2>7. \A z \in Goroutines : x[z] \in Nat /\ y[z] \in Nat BY SentTypes, Zenon
  <2>8. \A v : IsSum(v, x, Goroutines) => IsSum(v, y, Goroutines)
    <3>. HIDE DEF x, y
    <3>. SUFFICES ASSUME NEW v, IsSum(v, x, Goroutines) PROVE IsSum(v, y, Goroutines) OBVIOUS
    <3>. QED BY <2>2, <2>3, <2>5, <2>6, <2>7, SwapSum, ZenonT(40)
  <2>9. \A z \in Waiting("pop")' : pc'[z] = pc[z] /\ call'[z] = call[z]
    BY <2>4, Zenon DEF Waiting
  <2>. QED BY <1>4, <2>8, <2>9, EnoughKept, Zenon DEF WakeInv
<1>9. call[g].op = "push" => \/ pc' = next /\ Waiting("pop") = {}
                             \/ \E h \in Waiting("pop") : pc' = [next EXCEPT ![h] = "woken"]
  BY <1>1, <1>2, <1>3, NotEmptyWakes, Zenon
<1>. QED BY <1>6, <1>7, <1>8, <1>9, Zenon

\* A released session has no topics and gets none.
LEMMA AttemptReleased ==
  ASSUME WakeInv, NEW g \in Goroutines, NEW c, Attempt(g, c)
  PROVE  DOMAIN pc' = Goroutines /\ (isReleased' => DOMAIN topics' = {})
<1>1. DOMAIN pc' = Goroutines BY Zenon DEF WakeInv, Attempt, Leave
<1>2. isReleased' => DOMAIN topics' = {} BY Zenon DEF WakeInv, Attempt, Unchanged
<1>. QED BY <1>1, <1>2, Zenon

LEMMA DropDepth ==
  ASSUME OrderInv, NEW t, CallReleaseTopic(t)
  PROVE  \A u : Depth(topics', u) <= Depth(topics, u)
<1>1. /\ DOMAIN topics' = DOMAIN topics \ {t}
      /\ \A x \in DOMAIN topics : x # t => topics'[x] = topics[x]
  BY Zenon DEF CallReleaseTopic
<1>2. ASSUME NEW u, u # t PROVE Depth(topics', u) = Depth(topics, u)
  BY <1>1, <1>2, Zenon DEF Depth, TopicIn, NewTopicQueue
<1>3. Depth(topics', t) = 0
  <2>1. Len(<<>>) = 0 OBVIOUS
  <2>2. TopicIn(topics', t).queue = <<>> BY <1>1, Zenon DEF TopicIn, NewTopicQueue
  <2>. QED BY <2>1, <2>2, Zenon DEF Depth
<1>4. \A u : Depth(topics, u) \in Nat BY DepthTypes, Zenon
<1>5. \A d \in Nat : d <= d /\ 0 <= d OBVIOUS
<1>. QED BY <1>2, <1>3, <1>4, <1>5, Zenon

\* CallReleaseSession leaves no message that a pop could wait beside.
LEMMA ReleaseWakes ==
  ASSUME IsFiniteSet(Goroutines), OrderInv', DOMAIN topics' = {}
  PROVE  Enough'
<1>1. \A t : Depth(topics', t) = 0 BY NoDepth, Zenon
<1>2. PICK v : IsSum(v, Sent(pc', call'), Goroutines) BY SentTypes, SumExists, Zenon
<1>3. v \in Nat BY <1>2, SumType, Zenon
<1>4. 0 <= v BY <1>3
<1>5. \A h \in Waiting("pop")' : Depth(topics', call'[h].topic) <= v
  <2>1. ASSUME NEW h \in Waiting("pop")' PROVE Depth(topics', call'[h].topic) <= v
    <3>1. Depth(topics', call'[h].topic) = 0 BY <1>1, Zenon
    <3>. QED BY <1>4, <3>1, Zenon
  <2>. QED BY <2>1, Zenon
<1>. QED BY <1>2, <1>5, Zenon DEF Enough

LEMMA LeaveWakes ==
  ASSUME IsFiniteSet(Goroutines), OrderInv, OrderInv', WakeInv, Mixes,
         NEW g \in Goroutines, pc[g] = "idle" \/ pc[g] = "waiting", Leave(g), UNCHANGED topics
  PROVE  Enough'
<1>1. DOMAIN pc = Goroutines /\ DOMAIN call = Goroutines BY Zenon DEF WakeInv, OrderInv, Shape
<1>2. /\ pc'[g] = "idle"
      /\ \A h \in Goroutines : h # g => pc'[h] = pc[h] /\ call'[h] = call[h]
  BY <1>1, Zenon DEF Leave
<1>3. \A h \in Goroutines : Sent(pc', call')[h] = Sent(pc, call)[h]
  <2>1. Sent(pc', call')[g] = 0 /\ Sent(pc, call)[g] = 0 BY <1>2, Zenon DEF Sent
  <2>2. \A h \in Goroutines : h # g => Sent(pc', call')[h] = Sent(pc, call)[h]
    BY <1>2, Zenon DEF Sent
  <2>. QED BY <2>1, <2>2, Zenon
<1>4. \A h \in Waiting("pop")' : pc'[h] = pc[h] /\ call'[h] = call[h]
  BY <1>2, Zenon DEF Waiting
<1>5. \A u : Depth(topics', u) <= Depth(topics, u) BY SameDepth, Zenon
<1>. QED BY <1>3, <1>4, <1>5, SameSum, EnoughKept, Zenon DEF WakeInv

\* What WakeInv says beside Enough and OneTopic.
Settled == DOMAIN pc = Goroutines /\ (isReleased => DOMAIN topics = {})

LEMMA WakeStep ==
  ASSUME IsFiniteSet(Goroutines), OrderInv, OrderInv', WakeInv, QueueNext, Mixes
  PROVE  WakeInv'
<1>1. OneTopic' BY NotMixed, Zenon DEF OneTopic, Mixes
<1>2. Settled' /\ Enough' => WakeInv' BY <1>1, Zenon DEF WakeInv, Settled
<1>3. ASSUME NEW g \in Goroutines, NEW t \in Topics, CallPop(g, t) PROVE Settled' /\ Enough'
  <2>1. [op |-> "pop", topic |-> t] \in Calls BY Zenon DEF Calls
  <2>. QED BY <1>3, <2>1, AttemptWakes, AttemptReleased, Zenon DEF CallPop, Settled
<1>4. ASSUME NEW g \in Goroutines, NEW t \in Topics, NEW n \in Lengths, CallPush(g, t, n)
      PROVE  Settled' /\ Enough'
  <2>1. [op |-> "push", topic |-> t, size |-> n] \in Calls BY Zenon DEF Calls
  <2>2. pc[g] = "idle" BY <1>4, Zenon DEF CallPush
  <2>3. CASE Leave(g) /\ Unchanged
    <3>1. Enough' BY <2>2, <2>3, LeaveWakes, Zenon DEF Unchanged
    <3>2. Settled' BY <2>3, Zenon DEF Leave, Unchanged, Settled, WakeInv
    <3>. QED BY <3>1, <3>2, Zenon
  <2>4. CASE Attempt(g, [op |-> "push", topic |-> t, size |-> n])
    BY <2>1, <2>2, <2>4, AttemptWakes, AttemptReleased, Zenon DEF Settled
  <2>. QED BY <1>4, <2>3, <2>4, Zenon DEF CallPush
<1>5. ASSUME NEW g \in Goroutines, Wake(g) PROVE Settled' /\ Enough'
  <2>1. call[g] \in Calls BY Zenon DEF OrderInv, Shape
  <2>. QED BY <1>5, <2>1, AttemptWakes, AttemptReleased, Zenon DEF Wake, Settled
<1>6. ASSUME NEW g \in Goroutines, Timeout(g) PROVE Settled' /\ Enough'
  <2>1. Enough' BY <1>6, LeaveWakes, Zenon DEF Timeout, Unchanged
  <2>2. Settled' BY <1>6, Zenon DEF Timeout, Leave, Unchanged, Settled, WakeInv
  <2>. QED BY <2>1, <2>2, Zenon
<1>7. ASSUME NEW g \in Goroutines, SignalOther(g) PROVE Settled' /\ Enough'
  <2>1. Enough' BY <1>7, SignalWakes, Zenon
  <2>2. DOMAIN pc' = Goroutines
    <3> DEFINE next == [pc EXCEPT ![g] = "idle"]
    <3>1. DOMAIN pc = Goroutines /\ DOMAIN next = Goroutines BY Zenon DEF WakeInv
    <3>2. pc' \in SignalNotEmpty(next) \/ pc' \in SignalNotFull(next) BY <1>7, Zenon DEF SignalOther
    <3>. HIDE DEF next
    <3>. QED BY <3>1, <3>2, Zenon DEF SignalNotEmpty, SignalNotFull, Signal
  <2>3. isReleased' => DOMAIN topics' = {} BY <1>7, Zenon DEF SignalOther, Unchanged, WakeInv
  <2>. QED BY <2>1, <2>2, <2>3, Zenon DEF Settled
<1>8. ASSUME NEW t \in Topics, Peek(t) PROVE Settled' /\ Enough'
  <2>1. \A u : Depth(topics', u) <= Depth(topics, u) BY <1>8, PopDepth, Zenon DEF Peek
  <2>2. Enough' BY <1>8, <2>1, WakesPush, Zenon DEF Peek
  <2>3. DOMAIN pc' = Goroutines BY <1>8, Zenon DEF Peek, SignalNotFull, Signal, WakeInv
  <2>4. ~isReleased' BY <1>8, Zenon DEF Peek
  <2>. QED BY <2>2, <2>3, <2>4, Zenon DEF Settled
<1>9. ASSUME NEW t \in Topics, CallReleaseTopic(t) PROVE Settled' /\ Enough'
  <2>1. \A u : Depth(topics', u) <= Depth(topics, u) BY <1>9, DropDepth, Zenon
  <2>2. Enough' BY <1>9, <2>1, WakesPush, Zenon DEF CallReleaseTopic
  <2>3. DOMAIN pc' = Goroutines BY <1>9, Zenon DEF CallReleaseTopic, SignalNotFull, Signal, WakeInv
  <2>4. ~isReleased' BY <1>9, Zenon DEF CallReleaseTopic
  <2>. QED BY <2>2, <2>3, <2>4, Zenon DEF Settled
<1>10. CASE CallReleaseSession
  <2>1. DOMAIN topics' = {} BY <1>10, Zenon DEF CallReleaseSession
  <2>2. Enough' BY <2>1, ReleaseWakes, Zenon
  <2>3. DOMAIN pc' = Goroutines
    <3>1. PICK next \in SignalNotFull(pc) : pc' \in SignalNotEmpty(next)
      BY <1>10, Zenon DEF CallReleaseSession
    <3>2. DOMAIN next = Goroutines BY <3>1, Zenon DEF SignalNotFull, Signal, WakeInv
    <3>. QED BY <3>1, <3>2, Zenon DEF SignalNotEmpty, Signal
  <2>4. Settled' BY <2>1, <2>3 DEF Settled
  <2>. QED BY <1>2, <2>2, <2>4, Zenon
<1>. QED BY <1>2, <1>3, <1>4, <1>5, <1>6, <1>7, <1>8, <1>9, <1>10, Zenon DEF QueueNext

LEMMA WakeNext ==
  ASSUME IsFiniteSet(Goroutines)
  PROVE  OrderInv /\ WakeInv /\ [MCNext]_mcvars => OrderInv' /\ WakeInv'
<1>. SUFFICES ASSUME OrderInv, WakeInv, [MCNext]_mcvars PROVE OrderInv' /\ WakeInv' BY Zenon
<1>1. CASE MCNext
  <2>1. QueueNext /\ Mixes BY <1>1, Zenon DEF MCNext, Mixes
  <2>2. OrderInv' BY <2>1, OrderNext, Zenon
  <2>. QED BY <2>1, <2>2, WakeStep, Zenon
<1>2. CASE UNCHANGED mcvars
  <2>1. UNCHANGED queueVars /\ UNCHANGED mixed BY <1>2, Zenon DEF mcvars
  <2>2. OrderInv' BY <2>1, OrderNext, Zenon
  <2>3. UNCHANGED <<pc, call, topics, isReleased, mixed>> BY <2>1, Zenon DEF queueVars
  <2>4. InWait' = InWait /\ Waiting("pop")' = Waiting("pop") BY <2>3, Zenon DEF InWait, Waiting
  <2>5. OneTopic' BY <2>3, <2>4, Zenon DEF WakeInv, OneTopic
  <2>6. Enough'
    <3>1. PICK v : /\ IsSum(v, Sent(pc, call), Goroutines)
                   /\ ~mixed => \A h \in Waiting("pop") : Depth(topics, call[h].topic) <= v
      BY Zenon DEF WakeInv, Enough
    <3>2. IsSum(v, Sent(pc', call'), Goroutines) BY <2>3, <3>1, Zenon
    <3>3. ~mixed' => \A h \in Waiting("pop")' : Depth(topics', call'[h].topic) <= v
      BY <2>3, <2>4, <3>1, Zenon
    <3>. QED BY <3>2, <3>3, Zenon DEF Enough
  <2>7. WakeInv' BY <2>3, <2>5, <2>6, Zenon DEF WakeInv
  <2>. QED BY <2>2, <2>7, Zenon
<1>. QED BY <1>1, <1>2, Zenon

LEMMA WakeInit ==
  ASSUME IsFiniteSet(Goroutines)
  PROVE  MCInit => WakeInv
<1>. SUFFICES ASSUME MCInit PROVE WakeInv BY Zenon
<1>1. DOMAIN pc = Goroutines /\ ~isReleased /\ \A g \in Goroutines : pc[g] = "idle"
  BY Zenon DEF MCInit, QueueInit
<1>2. InWait = {} /\ Waiting("pop") = {} BY <1>1, Zenon DEF InWait, Waiting
<1>3. PICK v : IsSum(v, Sent(pc, call), Goroutines) BY SentTypes, SumExists, Zenon
<1>4. Enough BY <1>2, <1>3, Zenon DEF Enough
<1>. QED BY <1>1, <1>2, <1>4, Zenon DEF WakeInv, OneTopic

\* When nothing is on its way the sum is 0, so no pop waits beside a message.
LEMMA WakeMeaning ==
  ASSUME IsFiniteSet(Goroutines), OrderInv, WakeInv
  PROVE  PopNotStranded
<1>1. PICK v : /\ IsSum(v, Sent(pc, call), Goroutines)
               /\ ~mixed => \A h \in Waiting("pop") : Depth(topics, call[h].topic) <= v
  BY Zenon DEF WakeInv, Enough
<1> DEFINE P(h) == \/ pc[h] = "woken" /\ call[h].op = "pop"
                   \/ pc[h] = "signal" /\ call[h].op = "push"
<1>2. ASSUME NEW g \in Waiting("pop"), availableToPop(call[g].topic), ~mixed,
             \A h \in Goroutines : ~P(h)
      PROVE  FALSE
  <2> DEFINE x == Sent(pc, call)
             t == call[g].topic
  <2>1. \A h \in Goroutines : x[h] = 0 BY <1>2, Zenon DEF Sent
  <2>2. Depth(topics, t) <= v BY <1>1, <1>2, Zenon
  <2>3. t \in DOMAIN topics /\ topics[t].queue \in Seq(Msg) /\ topics[t].queue # <<>>
    BY <1>2, Zenon DEF availableToPop, OrderInv, Shape
  <2>4. Depth(topics, t) = Len(topics[t].queue) BY <2>3, Zenon DEF Depth, TopicIn
  <2>5. \A q \in Seq(Msg) : q # <<>> => Len(q) \in Nat /\ Len(q) >= 1 OBVIOUS
  <2>6. IsSum(v, x, Goroutines) BY <1>1, Zenon
  <2> DEFINE d == Depth(topics, t)
  <2>7. d \in Nat /\ d >= 1 /\ d <= v BY <2>2, <2>3, <2>4, <2>5, Zenon
  <2>. HIDE DEF d, x
  <2>8. v = 0
    <3>1. PICK f : Sums(f, x, Goroutines) /\ v = f[Goroutines] BY <2>6, Zenon DEF IsSum
    <3>2. f[Goroutines] = f[{}]
      <4> DEFINE R == {}
      <4>1. R \subseteq Goroutines /\ \A h \in Goroutines \ R : x[h] = 0 BY <2>1, Zenon
      <4>. HIDE DEF R
      <4>2. f[Goroutines] = f[R] BY <3>1, <4>1, SumsSupport, SMT
      <4>. QED BY <4>2, Zenon DEF R
    <3>3. f[{}] = 0 BY <3>1, Zenon DEF Sums
    <3>. QED BY <3>1, <3>2, <3>3, Zenon
  <2>. QED BY <2>7, <2>8
<1>3. ASSUME NEW g \in Waiting("pop"), availableToPop(call[g].topic), ~mixed
      PROVE  \E h \in Goroutines : P(h)
  BY <1>2, <1>3, Zenon
<1>. QED BY <1>3, Zenon DEF PopNotStranded

\* Theorem: with any number of goroutines no pop sleeps beside a message of its topic unless a
\* wake-up is on its way to some pop, or pops of another topic waited with it: the one Signal that
\* Push sends for each message it queued, after it gave up the mutex (session_queue.go), is enough.
THEOREM NoPopStranded ==
  ASSUME IsFiniteSet(Goroutines)
  PROVE  MCSpec => []PopNotStranded
<1> DEFINE I == OrderInv /\ WakeInv
<1>1. MCInit => I BY OrderInit, WakeInit, Zenon DEF MCInit
<1>2. I /\ [MCNext]_mcvars => I' BY WakeNext, Zenon
<1>3. I => PopNotStranded BY WakeMeaning, Zenon
<1>. HIDE DEF I
<1>. QED BY <1>1, <1>2, <1>3, PTL DEF MCSpec
==============================================================================
