---------------------------- MODULE SessionQueue ----------------------------
(***************************************************************************)
(* One message session of the transport broker: the topic queues of        *)
(* pkg/transport/msq/session_queue.go and topic_queue.go, shared by the    *)
(* goroutines that serve push, pop, peek and release requests.             *)
(*                                                                         *)
(* Every critical section (the code between mtx.Lock and mtx.Unlock, or    *)
(* the Select that gives the mutex up) is one action.  A condition         *)
(* variable hands each Signal to at most one goroutine that waits on it.   *)
(* A message is its place in the order of accepted pushes and its length.  *)
(***************************************************************************)
EXTENDS Integers, Sequences, FiniteSets, FiniteSetsExt

CONSTANTS Goroutines,     \* goroutines that call the queue
          Topics,         \* topic names
          Lengths,        \* lengths a message may have
          ByteSizeLimit,  \* config.PerSessionByteSizeLimit
          MaxPush         \* bound on the number of accepted pushes

ASSUME LengthsAssumption == Lengths \subseteq Nat
ASSUME LimitAssumption == ByteSizeLimit \in Nat
ASSUME MaxPushAssumption == MaxPush \in Nat

VARIABLES isReleased, \* SessionQueue.released
          byteSize,   \* SessionQueue.ByteSize
          topics,     \* SessionQueue.topics: topic name -> Topic
          pc,         \* per goroutine: where it is in Push or Pop
          call,       \* per goroutine: the call it is serving
          pushed,     \* pushes accepted so far; numbers the messages
          delivered   \* per topic, the number of the last message handed out

queueVars == <<isReleased, byteSize, topics, pc, call, pushed, delivered>>

Message == [id : 1..MaxPush, size : Lengths]
Topic == [bytes : Nat, queue : Seq(Message)]

NoCall == [op |-> "none"]
Calls == [op : {"push"}, topic : Topics, size : Lengths]
           \cup [op : {"pop"}, topic : Topics] \cup {NoCall}

(***************************************************************************)
(* The condition variables.  Push calls wait on notFull and pop calls on   *)
(* notEmpty, so the operation of a waiting goroutine tells which one it    *)
(* waits on.  Signal wakes one waiter, any one, and is lost without one.   *)
(***************************************************************************)
Waiting(op) == {g \in Goroutines : pc[g] = "waiting" /\ call[g].op = op}

Signal(op, next) ==
  IF Waiting(op) = {} THEN {next}
  ELSE {[next EXCEPT ![g] = "woken"] : g \in Waiting(op)}

SignalNotFull(next) == Signal("push", next)
SignalNotEmpty(next) == Signal("pop", next)

(***************************************************************************)
(* Topic queues.                                                           *)
(***************************************************************************)
NewTopicQueue == [bytes |-> 0, queue |-> <<>>]

getTopic(t) == IF t \in DOMAIN topics THEN topics[t] ELSE NewTopicQueue

availableToPush(size) == byteSize + size <= ByteSizeLimit

availableToPop(t) == t \in DOMAIN topics /\ topics[t].queue # <<>>

innerPush(t, size) ==
  LET q == getTopic(t)
      m == [id |-> pushed + 1, size |-> size]
      q2 == [bytes |-> q.bytes + size, queue |-> Append(q.queue, m)]
  IN /\ topics' = [u \in DOMAIN topics \cup {t} |-> IF u = t THEN q2 ELSE topics[u]]
     /\ byteSize' = byteSize + size
     /\ pushed' = pushed + 1
     /\ UNCHANGED delivered

\* Mutant: pops the newest message.
innerPopNewest(t) ==
  LET q == topics[t].queue
      m == q[Len(q)]
  IN /\ topics' = [topics EXCEPT ![t] = [bytes |-> @.bytes - m.size,
                                         queue |-> SubSeq(@.queue, 1, Len(q) - 1)]]
     /\ byteSize' = byteSize - m.size
     /\ delivered' = [delivered EXCEPT ![t] = m.id]
     /\ UNCHANGED pushed

\* Mutant: the session's total is not decreased.
innerPopLeaksBytes(t) ==
  LET m == Head(topics[t].queue)
  IN /\ topics' = [topics EXCEPT ![t] = [bytes |-> @.bytes - m.size,
                                         queue |-> Tail(@.queue)]]
     /\ delivered' = [delivered EXCEPT ![t] = m.id]
     /\ UNCHANGED <<byteSize, pushed>>

innerPop(t) ==
  LET m == Head(topics[t].queue)
  IN /\ topics' = [topics EXCEPT ![t] = [bytes |-> @.bytes - m.size,
                                         queue |-> Tail(@.queue)]]
     /\ byteSize' = byteSize - m.size
     /\ delivered' = [delivered EXCEPT ![t] = m.id]
     /\ UNCHANGED pushed

Unchanged == UNCHANGED <<isReleased, byteSize, topics, pushed, delivered>>

Leave(g) == pc' = [pc EXCEPT ![g] = "idle"] /\ call' = [call EXCEPT ![g] = NoCall]

(***************************************************************************)
(* The body of tryPush and tryPop once the goroutine holds the mutex: the  *)
(* session may be gone, the operation may be possible (the goroutine then  *)
(* leaves the mutex and has still to signal), or it waits (again).         *)
(***************************************************************************)
Attempt(g, c) ==
  \/ /\ isReleased
     /\ Leave(g) /\ Unchanged
  \/ /\ ~isReleased /\ c.op = "push" /\ availableToPush(c.size)
     /\ innerPush(c.topic, c.size)
     /\ pc' = [pc EXCEPT ![g] = "signal"] /\ call' = [call EXCEPT ![g] = c]
     /\ UNCHANGED isReleased
  \/ /\ ~isReleased /\ c.op = "pop" /\ availableToPop(c.topic)
     /\ innerPop(c.topic)
     /\ pc' = [pc EXCEPT ![g] = "signal"] /\ call' = [call EXCEPT ![g] = c]
     /\ UNCHANGED isReleased
  \/ /\ ~isReleased
     /\ c.op = "push" => ~availableToPush(c.size)
     /\ c.op = "pop" => ~availableToPop(c.topic)
     /\ pc' = [pc EXCEPT ![g] = "waiting"] /\ call' = [call EXCEPT ![g] = c]
     /\ Unchanged

\* Bound: pushes accepted plus pushes still being served.
PushBound ==
  pushed + Cardinality({g \in Goroutines : call[g].op = "push" /\ pc[g] # "signal"}) < MaxPush

\* Push: a message longer than the whole buffer is refused before the lock.
CallPush(g, t, size) ==
  /\ pc[g] = "idle" /\ PushBound
  /\ IF size > ByteSizeLimit THEN Leave(g) /\ Unchanged
     ELSE Attempt(g, [op |-> "push", topic |-> t, size |-> size])

CallPop(g, t) ==
  /\ pc[g] = "idle"
  /\ Attempt(g, [op |-> "pop", topic |-> t])

\* waitUntil after a signal: the loop body runs again under the mutex.
Wake(g) ==
  /\ pc[g] = "woken"
  /\ Attempt(g, call[g])

\* Mutant: the timer's case does not leave the loop.
TimeoutIgnored(g) ==
  /\ pc[g] = "waiting"
  /\ UNCHANGED queueVars

\* waitUntil after the timer fired: the call returns with what it has.
Timeout(g) ==
  /\ pc[g] = "waiting"
  /\ Leave(g) /\ Unchanged

\* Mutant: both calls signal notFull.
SignalNotFullOnly(g) ==
  /\ pc[g] = "signal"
  /\ pc' \in SignalNotFull([pc EXCEPT ![g] = "idle"])
  /\ call' = [call EXCEPT ![g] = NoCall]
  /\ Unchanged

\* Push and Pop after tryPush and tryPop: the signal is sent without the mutex.
SignalOther(g) ==
  /\ pc[g] = "signal"
  /\ pc' \in LET next == [pc EXCEPT ![g] = "idle"]
             IN IF call[g].op = "push" THEN SignalNotEmpty(next) ELSE SignalNotFull(next)
  /\ call' = [call EXCEPT ![g] = NoCall]
  /\ Unchanged

Peek(t) ==
  /\ ~isReleased /\ availableToPop(t)
  /\ innerPop(t)
  /\ pc' \in SignalNotFull(pc)
  /\ UNCHANGED <<isReleased, call>>

CallReleaseTopic(t) ==
  /\ ~isReleased /\ t \in DOMAIN topics
  /\ byteSize' = byteSize - topics[t].bytes
  /\ topics' = [u \in DOMAIN topics \ {t} |-> topics[u]]
  /\ pc' \in SignalNotFull(pc)
  /\ UNCHANGED <<isReleased, call, pushed, delivered>>

\* CallReleaseSession: one signal on each condition variable.
CallReleaseSession ==
  /\ isReleased' = TRUE
  /\ topics' = [u \in {} |-> NewTopicQueue]
  /\ byteSize' = 0
  /\ pc' \in UNION {SignalNotEmpty(next) : next \in SignalNotFull(pc)}
  /\ UNCHANGED <<call, pushed, delivered>>

QueueInit ==
  /\ isReleased = FALSE
  /\ byteSize = 0
  /\ topics = [u \in {} |-> NewTopicQueue]
  /\ pc = [g \in Goroutines |-> "idle"]
  /\ call = [g \in Goroutines |-> NoCall]
  /\ pushed = 0
  /\ delivered = [t \in Topics |-> 0]

QueueNext ==
  \/ \E g \in Goroutines :
       \/ \E t \in Topics : CallPop(g, t) \/ \E n \in Lengths : CallPush(g, t, n)
       \/ Wake(g) \/ Timeout(g) \/ SignalOther(g)
  \/ \E t \in Topics : Peek(t) \/ CallReleaseTopic(t)
  \/ CallReleaseSession

QueueSpec == QueueInit /\ [][QueueNext]_queueVars

(***************************************************************************)
(* Fairness: a goroutine that can run runs (Wake, SignalOther); nothing is *)
(* said of who calls.  TimedFairness adds that timers fire.                *)
(***************************************************************************)
RunFairness == \A g \in Goroutines : WF_queueVars(Wake(g)) /\ WF_queueVars(SignalOther(g))
TimedFairness == RunFairness /\ \A g \in Goroutines : WF_queueVars(Timeout(g))

(***************************************************************************)
(* Properties.                                                             *)
(***************************************************************************)
QueueBytes(q) == MapThenSumSet(LAMBDA i : q[i].size, DOMAIN q)

\* The two levels of byte accounting (Topic.ByteSize and SessionQueue.ByteSize,
\* both decremented without a check) always equal the bytes really queued, and
\* the session's buffer never exceeds PerSessionByteSizeLimit.
BytesAccounted ==
  /\ \A t \in DOMAIN topics : topics[t].bytes = QueueBytes(topics[t].queue)
  /\ byteSize = MapThenSumSet(LAMBDA t : QueueBytes(topics[t].queue), DOMAIN topics)
  /\ byteSize <= ByteSizeLimit

\* A topic hands out its messages in the order their pushes were accepted, each
\* at most once, whichever goroutines pop, peek, time out or release in between.
DeliveredInOrder ==
  \A t \in DOMAIN topics :
    LET q == topics[t].queue
    IN /\ \A i \in DOMAIN q : delivered[t] < q[i].id
       /\ \A i, j \in DOMAIN q : i < j => q[i].id < q[j].id

\* Every push or pop call ends: waitUntil leaves its loop when its timer fires.
CallsReturn == \A g \in Goroutines : (pc[g] # "idle") ~> (pc[g] = "idle")
=============================================================================
