------------------------ MODULE PodsController_proofs ------------------------
(***************************************************************************)
(* Proofs about PodsController, for any pods, bounds and sources: that a   *)
(* send to a worker's channel never blocks, that of the static pods of one *)
(* name one runs at a time, that a pod which is said to have stopped has,  *)
(* that the agent removes only such pods from the API server, and that a   *)
(* pod whose phase there is terminal does not run and keeps that phase.    *)
(***************************************************************************)
EXTENDS PodsController, TLAPS

LEMMA ConstantTypes ==
  /\ NoWork \in PodWork /\ Unknown \in Worker
  /\ Absent \in Version /\ Present \in Version /\ NoStatus \in Status
BY Zenon DEF NoWork, PodWork, Unknown, Worker, Absent, Present, Version, NoStatus, Status, Phases

\* The versions that the API server and the agent make of a pod's version.
LEMMA VersionMade ==
  ASSUME NEW v \in Version
  PROVE  /\ [v EXCEPT !.del = TRUE] \in Version
         /\ [v EXCEPT !.del = TRUE].ex = v.ex /\ [v EXCEPT !.del = TRUE].bad = v.bad
         /\ [v EXCEPT !.del = TRUE].del
         /\ \A ph \in Phases : /\ [v EXCEPT !.ph = ph] \in Version
                              /\ [v EXCEPT !.ph = ph].bad = v.bad
                              /\ [v EXCEPT !.ph = ph].del = v.del
BY Zenon DEF Version

(***************************************************************************)
(* One worker: the channel's slot is full only while the worker waits for  *)
(* it; a worker that runs is known; a pod that is finished or not known    *)
(* has no goroutine; a terminated pod gets no more work than its cleanup.  *)
(***************************************************************************)
Cleanup(work) == work.type \in {"none", "terminated"}

Sound(w) ==
  /\ w.chan # NoWork => w.working /\ w.pc = "idle"
  /\ w.pc \in {"run", "complete"} => w.working /\ w.known
  /\ ~w.known => w = Unknown
  /\ w.pc = "run" => w.podStarted
  /\ w.finished => w.terminated /\ ~w.podStarted /\ w.pc = "none"
  /\ w.terminated => Cleanup(w.chan) /\ Cleanup(w.next) /\ Cleanup(w.cur)

LEMMA UnknownSound == Sound(Unknown)
BY Zenon DEF Sound, Unknown, NoWork, Cleanup

LEMMA FirstSeenSound ==
  ASSUME NEW u, NEW o
  PROVE  LET w == FirstSeen(u, o) IN
         /\ w \in Worker /\ Sound(w) /\ w.known /\ ~w.podStarted
         /\ w.terminated = w.terminating /\ w.finished = w.terminated
         /\ w.chan = NoWork /\ w.next = NoWork /\ w.cur = NoWork /\ w.pc = "none"
         /\ ~w.restart /\ (w.terminated => run[u] # "up")
<1> DEFINE over == ~o.runtime /\ Terminal(o.ph) /\ run[u] # "up"
           w == FirstSeen(u, o)
<1>1. w = [Unknown EXCEPT !.known = TRUE, !.terminating = over,
                          !.terminated = over, !.finished = over]
  BY Zenon DEF FirstSeen
<1>2. over \in BOOLEAN /\ (over => run[u] # "up")
  BY Zenon
<1>. HIDE DEF over
<1>3. w = [known |-> TRUE, working |-> FALSE, terminating |-> over,
           terminated |-> over, finished |-> over, restart |-> FALSE,
           pc |-> "none", podStarted |-> FALSE,
           chan |-> NoWork, next |-> NoWork, cur |-> NoWork,
           cancelled |-> FALSE, isTerminal |-> FALSE]
  BY <1>1, Zenon DEF Unknown
<1>. HIDE DEF w
<1>4. w \in Worker
  BY <1>2, <1>3, ConstantTypes, Zenon DEF Worker
<1>5. Sound(w)
  BY <1>3, Zenon DEF Sound, Cleanup, NoWork
<1>. QED BY <1>2, <1>3, <1>4, <1>5 DEF w

\* What a call of UpdatePod keeps of a known worker: its pod is not started,
\* terminated or finished by it, and only the new work is added.
Keeps(v, w, work) ==
  /\ v.known /\ v.podStarted = w.podStarted /\ v.terminated = w.terminated
  /\ v.finished = w.finished /\ v.cur = w.cur
  /\ v.chan \in {w.chan, work} /\ v.next \in {w.next, work}

LEMMA DispatchSound ==
  ASSUME NEW w \in Worker, Sound(w), w.known, NEW work \in PodWork, NEW b \in BOOLEAN,
         w.terminated => work.type = "terminated", ~w.finished
  PROVE  LET v == Dispatch(w, work, b) IN
         v \in Worker /\ Sound(v) /\ Keeps(v, w, work) /\ v.restart = w.restart
<1> DEFINE p == IF w.pc = "none" THEN "idle" ELSE w.pc
           c == w.cancelled \/ (b /\ p = "run")
           v == Dispatch(w, work, b)
<1>0. p \in {"idle", "run", "complete"} /\ c \in BOOLEAN
  BY Zenon DEF Worker
<1>1. CASE ~w.working
  <2>1. v = [w EXCEPT !.pc = p, !.working = TRUE, !.chan = work]
    BY <1>1, Zenon DEF Dispatch, Worker
  <2>2. p = "idle"
    BY <1>1, Zenon DEF Sound, Worker
  <2>. HIDE DEF p, c, v
  <2>3. v \in Worker
    BY <1>0, <2>1, Zenon DEF Worker
  <2>4. /\ v.pc = "idle" /\ v.working /\ v.chan = work /\ v.next = w.next /\ v.cur = w.cur
        /\ v.known = w.known /\ v.podStarted = w.podStarted
        /\ v.terminated = w.terminated /\ v.finished = w.finished /\ v.restart = w.restart
    BY <2>1, <2>2, Zenon DEF Worker
  <2>5. Sound(v)
    BY <2>4, Zenon DEF Sound, Cleanup
  <2>6. Keeps(v, w, work)
    BY <2>4, Zenon DEF Keeps
  <2>. QED BY <2>3, <2>4, <2>5, <2>6, Zenon DEF v
<1>2. CASE w.working
  <2>1. v = [w EXCEPT !.pc = p, !.next = work, !.cancelled = c]
    BY <1>2, Zenon DEF Dispatch, Worker
  <2>2. /\ w.chan # NoWork => p = "idle"
        /\ p = "run" => w.podStarted
    BY Zenon DEF Sound
  <2>. HIDE DEF p, c, v
  <2>3. v \in Worker
    BY <1>0, <2>1, Zenon DEF Worker
  <2>4. /\ v.pc = p /\ v.working = w.working /\ v.chan = w.chan /\ v.next = work /\ v.cur = w.cur
        /\ v.known = w.known /\ v.podStarted = w.podStarted
        /\ v.terminated = w.terminated /\ v.finished = w.finished /\ v.restart = w.restart
    BY <2>1, Zenon DEF Worker
  <2>5. Sound(v)
    BY <1>2, <2>2, <2>4, Zenon DEF Sound, Cleanup
  <2>6. Keeps(v, w, work)
    BY <2>4, Zenon DEF Keeps
  <2>. QED BY <2>3, <2>4, <2>5, <2>6, Zenon DEF v
<1>. QED BY <1>1, <1>2, Zenon

\* UpdatePod leaves a sound worker that is known.
LEMMA UpdatePodSound ==
  ASSUME NEW u \in Pods, NEW w \in Worker, Sound(w), NEW o \in Options
  PROVE  LET v == UpdatePod(u, w, o)
             w0 == IF w.known THEN w ELSE FirstSeen(u, o)
         IN  /\ v \in Worker /\ Sound(v)
             /\ \E work \in PodWork : /\ work.runtime = o.runtime /\ Keeps(v, w0, work)
                                      /\ o.del \/ o.kind = "kill" => work.type # "sync"
             /\ o.kind # "create" => v.restart = w0.restart
<1> DEFINE w0 == IF w.known THEN w ELSE FirstSeen(u, o)
           b == /\ ~w0.terminating
                /\ o.runtime \/ o.del \/ Terminal(o.ph) \/ o.kind = "kill"
           w1 == [w0 EXCEPT !.terminating = @ \/ b]
           type == IF w1.terminated THEN "terminated"
                   ELSE IF w1.terminating THEN "terminating" ELSE "sync"
           work == [type |-> type, runtime |-> o.runtime, del |-> o.del, ph |-> o.ph]
           v == UpdatePod(u, w, o)
<1>1. w0 \in Worker /\ Sound(w0) /\ w0.known
  BY FirstSeenSound, Zenon
<1>2. v = IF w0.terminating /\ o.kind = "create" THEN [w0 EXCEPT !.restart = TRUE]
          ELSE IF w0.finished \/ (w0.terminated /\ o.runtime) THEN w0
          ELSE Dispatch(w1, work, b)
  BY Zenon DEF UpdatePod
<1>3. b \in BOOLEAN /\ work \in PodWork /\ work.runtime = o.runtime
  BY Zenon DEF PodWork, Options
<1>11. o.del \/ o.kind = "kill" => work.type # "sync"
  BY <1>1, Zenon DEF Worker
<1>. HIDE DEF w0, b
<1>4. w1 = [w0 EXCEPT !.terminating = w0.terminating \/ b]
  BY <1>1, Zenon DEF Worker
<1>5. /\ w1 \in Worker /\ w1.known /\ w1.podStarted = w0.podStarted
      /\ w1.terminated = w0.terminated /\ w1.finished = w0.finished
      /\ w1.cur = w0.cur /\ w1.chan = w0.chan /\ w1.next = w0.next
      /\ w1.pc = w0.pc /\ w1.working = w0.working /\ w1.restart = w0.restart
  BY <1>1, <1>3, <1>4, Zenon DEF Worker
<1>. HIDE DEF w1
<1>6. Sound(w1)
  BY <1>1, <1>5, Zenon DEF Sound
<1>7. w1.terminated => work.type = "terminated"
  BY Zenon
<1>. HIDE DEF work
<1>8. CASE w0.terminating /\ o.kind = "create"
  <2>1. v = [w0 EXCEPT !.restart = TRUE]
    BY <1>2, <1>8, Zenon
  <2>. HIDE DEF v
  <2>2. v \in Worker
    BY <1>1, <2>1, Zenon DEF Worker
  <2>3. /\ v.known /\ v.podStarted = w0.podStarted
        /\ v.terminated = w0.terminated /\ v.finished = w0.finished
        /\ v.cur = w0.cur /\ v.chan = w0.chan /\ v.next = w0.next
        /\ v.pc = w0.pc /\ v.working = w0.working
    BY <1>1, <2>1, Zenon DEF Worker
  <2>4. Sound(v)
    BY <1>1, <2>3, Zenon DEF Sound
  <2>5. Keeps(v, w0, work)
    BY <2>3, Zenon DEF Keeps
  <2>. QED BY <1>3, <1>8, <1>11, <2>2, <2>4, <2>5, Zenon DEF v, w0
<1>9. CASE ~(w0.terminating /\ o.kind = "create") /\ (w0.finished \/ (w0.terminated /\ o.runtime))
  <2>1. v = w0
    BY <1>2, <1>9, Zenon
  <2>2. Keeps(w0, w0, work)
    BY <1>1, Zenon DEF Keeps
  <2>. HIDE DEF v
  <2>3. v \in Worker /\ Sound(v) /\ Keeps(v, w0, work) /\ v.restart = w0.restart
    BY <1>1, <2>1, <2>2, Zenon
  <2>. QED BY <1>3, <1>11, <2>3, Zenon DEF v, w0
<1>10. CASE ~(w0.terminating /\ o.kind = "create") /\ ~(w0.finished \/ (w0.terminated /\ o.runtime))
  <2>1. v = Dispatch(w1, work, b)
    BY <1>2, <1>10, Zenon
  <2>. HIDE DEF v
  <2>2. v \in Worker /\ Sound(v) /\ Keeps(v, w1, work) /\ v.restart = w1.restart
    BY <1>3, <1>5, <1>6, <1>7, <1>10, <2>1, DispatchSound, Zenon
  <2>3. Keeps(v, w0, work)
    BY <1>5, <2>2, Zenon DEF Keeps
  <2>4. v.restart = w0.restart
    BY <1>5, <2>2, Zenon
  <2>. QED BY <1>3, <1>11, <2>2, <2>3, <2>4, Zenon DEF v, w0
<1>. QED BY <1>8, <1>9, <1>10, Zenon

LEMMA TakesSound ==
  ASSUME NEW w \in Worker, Sound(w), w.chan # NoWork, NEW b \in BOOLEAN
  PROVE  LET v == [Takes(w) EXCEPT !.isTerminal = b] IN
         /\ v \in Worker /\ Sound(v)
         /\ v.known /\ v.podStarted /\ v.terminated = w.terminated /\ v.restart = w.restart
         /\ v.chan = NoWork /\ v.next = w.next /\ v.cur = w.chan
<1> DEFINE v == [Takes(w) EXCEPT !.isTerminal = b]
<1>1. v = [w EXCEPT !.pc = "run", !.cur = w.chan, !.chan = NoWork, !.podStarted = TRUE,
                    !.cancelled = FALSE, !.isTerminal = b]
  BY Zenon DEF Takes, Worker
<1>. HIDE DEF v
<1>2. v \in Worker
  BY <1>1, ConstantTypes, Zenon DEF Worker
<1>3. /\ v.pc = "run" /\ v.cur = w.chan /\ v.chan = NoWork /\ v.podStarted /\ v.next = w.next
      /\ v.known = w.known /\ v.working = w.working /\ v.terminated = w.terminated
      /\ v.finished = w.finished /\ v.restart = w.restart
  BY <1>1, Zenon DEF Worker
<1>4. w.known /\ w.working
  BY DEF Sound, Unknown
<1>5. ~w.finished /\ (w.terminated => Cleanup(w.chan) /\ Cleanup(w.next))
  BY Zenon DEF Sound
<1>6. Sound(v)
  BY <1>3, <1>4, <1>5 DEF Sound, Cleanup, NoWork
<1>. QED BY <1>2, <1>3, <1>4, <1>6, Zenon DEF v

LEMMA FinishedSound ==
  ASSUME NEW w \in Worker, w.known
  PROVE  LET v == Finished(w) IN
         /\ v \in Worker /\ Sound(v) /\ v.known /\ ~v.podStarted /\ v.restart = w.restart
         /\ v.chan = NoWork /\ v.next = NoWork /\ v.cur = NoWork
<1> DEFINE a == [w EXCEPT !.terminated = TRUE, !.finished = TRUE, !.working = FALSE,
                          !.pc = "none", !.podStarted = FALSE]
           v == Finished(w)
<1>1. v = [a EXCEPT !.chan = NoWork, !.next = NoWork, !.cur = NoWork, !.cancelled = FALSE]
  BY Zenon DEF Finished, Worker
<1>2. /\ a \in Worker /\ a.known = w.known /\ a.terminated /\ a.finished /\ ~a.working
      /\ a.pc = "none" /\ ~a.podStarted /\ a.restart = w.restart
  BY Zenon DEF Worker
<1>. HIDE DEF a, v
<1>3. /\ v \in Worker /\ v.known = w.known /\ v.terminated /\ v.finished /\ ~v.working
      /\ v.pc = "none" /\ ~v.podStarted /\ v.chan = NoWork /\ v.next = NoWork /\ v.cur = NoWork
      /\ v.restart = w.restart
  BY <1>1, <1>2, ConstantTypes, Zenon DEF Worker
<1>4. Sound(v)
  BY <1>3 DEF Sound, Cleanup, NoWork
<1>. QED BY <1>3, <1>4, Zenon DEF v

LEMMA PostponedSound ==
  ASSUME NEW w \in Worker, Sound(w), w.chan # NoWork
  PROVE  LET v == [w EXCEPT !.chan = NoWork, !.working = FALSE] IN
         /\ v \in Worker /\ Sound(v)
         /\ v.known = w.known /\ v.terminated = w.terminated /\ v.podStarted = w.podStarted
         /\ v.chan = NoWork /\ v.next = w.next /\ v.cur = w.cur
<1> DEFINE v == [w EXCEPT !.chan = NoWork, !.working = FALSE]
<1>1. v \in Worker
  BY ConstantTypes, Zenon DEF Worker
<1>2. /\ v.known = w.known /\ v.terminated = w.terminated /\ v.podStarted = w.podStarted
      /\ v.chan = NoWork /\ v.next = w.next /\ v.cur = w.cur
      /\ v.pc = w.pc /\ v.finished = w.finished
  BY Zenon DEF Worker
<1>3. w.known /\ w.pc = "idle"
  BY DEF Sound, Unknown
<1>. HIDE DEF v
<1>4. Sound(v)
  BY <1>2, <1>3 DEF Sound, Cleanup, NoWork
<1>. QED BY <1>1, <1>2, <1>4, Zenon DEF v

\* The ends of the sync functions.
LEMMA CompletedSound ==
  ASSUME NEW w \in Worker, Sound(w), w.pc = "run"
  PROVE  /\ w.cur.type = "sync" => completeSync(w) \in Worker /\ Sound(completeSync(w))
         /\ completeTerminating(w) \in Worker /\ Sound(completeTerminating(w))
         /\ Returned(w) \in Worker /\ Sound(Returned(w))
<1>0. /\ w.chan = NoWork /\ w.working /\ w.known /\ w.podStarted /\ ~w.finished
      /\ w.terminated => Cleanup(w.next) /\ Cleanup(w.cur)
  BY Zenon DEF Sound
<1>1. ASSUME w.cur.type = "sync"
      PROVE  completeSync(w) \in Worker /\ Sound(completeSync(w))
  <2> DEFINE n == [w.cur EXCEPT !.type = "terminating"]
             v == completeSync(w)
  <2>1. v = [w EXCEPT !.pc = "complete", !.terminating = TRUE, !.cur = NoWork,
                      !.isTerminal = FALSE, !.next = n]
    BY Zenon DEF completeSync
  <2>2. n \in PodWork
    BY Zenon DEF Worker, PodWork
  <2>. HIDE DEF n, v
  <2>3. v \in Worker
    BY <2>1, <2>2, ConstantTypes, Zenon DEF Worker
  <2>4. /\ v.pc = "complete" /\ v.chan = w.chan /\ v.working = w.working /\ v.known = w.known
        /\ v.finished = w.finished /\ v.terminated = w.terminated
    BY <2>1, Zenon DEF Worker
  <2>5. ~w.terminated
    BY <1>0, <1>1, Zenon DEF Cleanup
  <2>6. Sound(v)
    BY <1>0, <2>4, <2>5, Zenon DEF Sound
  <2>. QED BY <2>3, <2>6, Zenon DEF v
<1>2. completeTerminating(w) \in Worker /\ Sound(completeTerminating(w))
  <2> DEFINE n == [w.cur EXCEPT !.type = "terminated"]
             v == completeTerminating(w)
  <2>1. v = [w EXCEPT !.pc = "complete", !.terminated = TRUE, !.cur = NoWork, !.next = n]
    BY Zenon DEF completeTerminating
  <2>2. n \in PodWork /\ n.type = "terminated"
    BY Zenon DEF Worker, PodWork
  <2>. HIDE DEF n, v
  <2>3. v \in Worker
    BY <2>1, <2>2, ConstantTypes, Zenon DEF Worker
  <2>4. /\ v.pc = "complete" /\ v.chan = w.chan /\ v.working = w.working /\ v.known = w.known
        /\ v.finished = w.finished /\ v.next = n /\ v.cur = NoWork
    BY <2>1, Zenon DEF Worker
  <2>5. Sound(v)
    BY <1>0, <2>2, <2>4 DEF Sound, Cleanup, NoWork
  <2>. QED BY <2>3, <2>5, Zenon DEF v
<1>3. Returned(w) \in Worker /\ Sound(Returned(w))
  <2> DEFINE v == Returned(w)
  <2>1. v = [w EXCEPT !.pc = "complete", !.cur = NoWork, !.cancelled = FALSE]
    BY Zenon DEF Returned
  <2>. HIDE DEF v
  <2>2. v \in Worker
    BY <2>1, ConstantTypes, Zenon DEF Worker
  <2>3. /\ v.pc = "complete" /\ v.chan = w.chan /\ v.working = w.working /\ v.known = w.known
        /\ v.finished = w.finished /\ v.terminated = w.terminated /\ v.next = w.next
        /\ v.cur = NoWork
    BY <2>1, Zenon DEF Worker
  <2>4. Sound(v)
    BY <1>0, <2>3, Zenon DEF Sound, Cleanup, NoWork
  <2>. QED BY <2>2, <2>4, Zenon DEF v
<1>. QED BY <1>1, <1>2, <1>3, Zenon

\* What they leave in the worker.
LEMMA CompletedFields ==
  ASSUME NEW w \in Worker
  PROVE  /\ LET v == completeSync(w) IN
            /\ v.known = w.known /\ v.podStarted = w.podStarted /\ v.terminated = w.terminated
            /\ v.restart = w.restart /\ v.chan = w.chan /\ v.cur = NoWork
            /\ v.next.runtime = w.cur.runtime /\ v.next.type = "terminating"
         /\ LET v == completeTerminating(w) IN
            /\ v.known = w.known /\ v.podStarted = w.podStarted
            /\ v.restart = w.restart /\ v.chan = w.chan /\ v.cur = NoWork
            /\ v.next.runtime = w.cur.runtime /\ v.next.type = "terminated"
         /\ LET v == Returned(w) IN
            /\ v.known = w.known /\ v.podStarted = w.podStarted /\ v.terminated = w.terminated
            /\ v.restart = w.restart /\ v.chan = w.chan /\ v.cur = NoWork /\ v.next = w.next
<1>1. ASSUME NEW t \in {"terminating", "terminated"}
      PROVE  LET n == [w.cur EXCEPT !.type = t] IN n.runtime = w.cur.runtime /\ n.type = t
  BY Zenon DEF Worker, PodWork
<1> DEFINE n(t) == [w.cur EXCEPT !.type = t]
<1>. HIDE DEF n
<1>2. LET v == completeSync(w) IN
      /\ v.known = w.known /\ v.podStarted = w.podStarted /\ v.terminated = w.terminated
      /\ v.restart = w.restart /\ v.chan = w.chan /\ v.cur = NoWork /\ v.next = n("terminating")
  BY Zenon DEF completeSync, Worker, n
<1>3. LET v == completeTerminating(w) IN
      /\ v.known = w.known /\ v.podStarted = w.podStarted
      /\ v.restart = w.restart /\ v.chan = w.chan /\ v.cur = NoWork /\ v.next = n("terminated")
  BY Zenon DEF completeTerminating, Worker, n
<1>4. LET v == Returned(w) IN
      /\ v.known = w.known /\ v.podStarted = w.podStarted /\ v.terminated = w.terminated
      /\ v.restart = w.restart /\ v.chan = w.chan /\ v.cur = NoWork /\ v.next = w.next
  BY Zenon DEF Returned, Worker
<1>. QED BY <1>1, <1>2, <1>3, <1>4, Zenon DEF n

LEMMA QueueNextSound ==
  ASSUME NEW w \in Worker, Sound(w), w.pc = "complete"
  PROVE  LET v == completeWorkQueueNext(w) IN
         /\ v \in Worker /\ Sound(v)
         /\ v.known = w.known /\ v.terminated = w.terminated /\ v.podStarted = w.podStarted
         /\ v.chan = w.next /\ v.next = NoWork /\ v.cur = w.cur /\ v.restart = w.restart
<1> DEFINE b == w.next # NoWork
           v == completeWorkQueueNext(w)
<1>1. v = [w EXCEPT !.pc = "idle", !.chan = w.next, !.next = NoWork, !.working = b]
  BY Zenon DEF completeWorkQueueNext
<1>2. b \in BOOLEAN /\ (w.next # NoWork => b)
  BY Zenon
<1>. HIDE DEF b, v
<1>3. v \in Worker
  BY <1>1, <1>2, ConstantTypes, Zenon DEF Worker
<1>4. /\ v.known = w.known /\ v.terminated = w.terminated /\ v.podStarted = w.podStarted
      /\ v.chan = w.next /\ v.next = NoWork /\ v.cur = w.cur
      /\ v.pc = "idle" /\ v.working = b /\ v.finished = w.finished /\ v.restart = w.restart
  BY <1>1, Zenon DEF Worker
<1>5. w.known /\ ~w.finished /\ (w.terminated => Cleanup(w.next) /\ Cleanup(w.cur))
  BY Zenon DEF Sound
<1>6. Sound(v)
  BY <1>2, <1>4, <1>5, Zenon DEF Sound, Cleanup, NoWork
<1>. QED BY <1>3, <1>4, <1>6, Zenon DEF v

-----------------------------------------------------------------------------
(* The types, and every worker sound. *)

WorkerInv == TypeOK /\ \A u \in Pods : Sound(wk[u])

LEMMA WorkerInit == Init => WorkerInv
<1>. SUFFICES ASSUME Init PROVE WorkerInv
  BY Zenon
<1>1. TypeOK
  <2>1. hosted \subseteq Pods
    BY BoundsAssumption, Zenon DEF Init
  <2>2. watch \in [Pods -> Seq(Version)]
    BY DEF Init
  <2>3. /\ wk \in [Pods -> Worker] /\ api \in [Pods -> Version] /\ cfg \in [Pods -> Version]
        /\ cache \in [Pods -> Status]
    BY ConstantTypes, Zenon DEF Init, WorkersInit
  <2>4. /\ started = {} /\ synced \in BOOLEAN /\ run \in [Pods -> {"none", "up", "ok", "bad"}]
        /\ file = {} /\ event = {}
        /\ writes \in Nat /\ restarts \in Nat /\ errors \in Nat /\ removals \in Nat
    BY Zenon DEF Init, WorkersInit
  <2>. QED BY <2>1, <2>2, <2>3, <2>4, Zenon DEF TypeOK
<1>2. \A u \in Pods : Sound(wk[u])
  BY UnknownSound, Zenon DEF Init, WorkersInit
<1>. QED BY <1>1, <1>2, Zenon DEF WorkerInv

LEMMA StatusType ==
  ASSUME TypeOK, NEW u \in Pods, NEW ph \in Phases, NEW up \in BOOLEAN, NEW del \in BOOLEAN,
         SetPodStatus(u, ph, up, del)
  PROVE  cache' \in [Pods -> Status]
<1> DEFINE d == u \in ApiPods /\ (cache[u].dirty \/ ~(cache[u].ex /\ cache[u].ph = ph
                                     /\ cache[u].up = up) \/ del)
<1>1. cache' = [cache EXCEPT ![u] = [ex |-> TRUE, ph |-> ph, up |-> up, dirty |-> d]]
  BY Zenon DEF SetPodStatus
<1>2. d \in BOOLEAN
  BY Zenon
<1>. HIDE DEF d
<1>. QED BY <1>1, <1>2, Zenon DEF TypeOK, Status

LEMMA PhaseType ==
  ASSUME TypeOK, NEW u \in Pods, NEW ph \in Phases
  PROVE  getPhase(u) \in Phases /\ generateAPIPodStatus(u, ph) \in Phases
                                /\ mergePodStatus(u) \in Phases
<1>1. getPhase(u) \in Phases
  BY Zenon DEF TypeOK, getPhase, Phases
<1>2. cache[u].ph \in Phases /\ api[u].ph \in Phases
  BY Zenon DEF TypeOK, Status, Version
<1>. QED BY <1>1, <1>2, Zenon DEF generateAPIPodStatus, mergePodStatus

\* A call of UpdatePod on a worker in its place.
LEMMA CallSound ==
  ASSUME WorkerInv, NEW u \in Pods, NEW o \in Options, CallUpdatePod(u, o)
  PROVE  wk' \in [Pods -> Worker] /\ \A v \in Pods : Sound(wk'[v])
<1>1. wk \in [Pods -> Worker] /\ wk[u] \in Worker /\ Sound(wk[u])
  BY Zenon DEF WorkerInv, TypeOK
<1>2. wk' = [wk EXCEPT ![u] = UpdatePod(u, wk[u], o)]
  BY Zenon DEF CallUpdatePod
<1>3. UpdatePod(u, wk[u], o) \in Worker /\ Sound(UpdatePod(u, wk[u], o))
  BY <1>1, UpdatePodSound, Zenon
<1>. QED BY <1>1, <1>2, <1>3, Zenon DEF WorkerInv

LEMMA OptType ==
  ASSUME NEW v \in Version, NEW kind \in {"create", "update", "sync", "kill"}
  PROVE  Opt(kind, v) \in Options
BY Zenon DEF Opt, Options, Version

\* A worker replaced by a sound one.
LEMMA ReplaceSound ==
  ASSUME WorkerInv, NEW u \in Pods, NEW w \in Worker, Sound(w), wk' = [wk EXCEPT ![u] = w]
  PROVE  wk' \in [Pods -> Worker] /\ \A v \in Pods : Sound(wk'[v])
BY Zenon DEF WorkerInv, TypeOK

LEMMA RunType ==
  ASSUME TypeOK, NEW u \in Pods, NEW c \in {"none", "up", "ok", "bad"}, SetRun(u, c)
  PROVE  run' \in [Pods -> {"none", "up", "ok", "bad"}] /\ event' \subseteq Pods
BY Zenon DEF SetRun, TypeOK

LEMMA RunValues ==
  ASSUME TypeOK, NEW u \in Pods
  PROVE  /\ run[u] \in {"none", "up", "ok", "bad"}
         /\ Synced(u) \in {"none", "up", "ok", "bad"}
         /\ Killed(u) \subseteq {"none", "ok", "bad"}
BY Zenon DEF TypeOK, Synced, Killed

\* The steps of a pod's goroutine.
LEMMA WorkerStepSound ==
  ASSUME WorkerInv, NEW u \in Pods, WorkerStep(u) \/ RuntimeError(u)
  PROVE  WorkerInv'
<1>0. TypeOK /\ wk \in [Pods -> Worker] /\ wk[u] \in Worker /\ Sound(wk[u])
  BY Zenon DEF WorkerInv, TypeOK
<1>1. CASE managePodLoop(u)
  <2> DEFINE work == wk[u].chan
             ph == generateAPIPodStatus(u, work.ph)
             b == work.type = "sync" /\ Terminal(ph)
             w == [Takes(wk[u]) EXCEPT !.isTerminal = b]
  <2>1. /\ work # NoWork /\ wk' = [wk EXCEPT ![u] = w]
        /\ IF work.runtime THEN UNCHANGED cache
           ELSE SetPodStatus(u, ph, run[u] = "up", work.del)
        /\ started' \in {started, {u}} /\ (started' = started \/ u \in StaticPods)
        /\ UNCHANGED synced
        /\ UNCHANGED <<run, sourceVars, cfg, event, bounds>>
    BY <1>1, Zenon DEF managePodLoop, allowPodStart, Static
  <2>2. b \in BOOLEAN
    BY Zenon
  <2>3. work \in PodWork /\ work.ph \in Phases /\ work.del \in BOOLEAN
    BY <1>0, Zenon DEF Worker, PodWork
  <2>4. ph \in Phases
    BY <1>0, <2>3, PhaseType, Zenon
  <2>. HIDE DEF b, ph
  <2>5. w \in Worker /\ Sound(w)
    BY <1>0, <2>1, <2>2, TakesSound, Zenon
  <2>6. cache' \in [Pods -> Status]
    <3>1. CASE work.runtime
      BY <1>0, <2>1, <3>1, Zenon DEF TypeOK
    <3>2. CASE ~work.runtime
      <4>1. SetPodStatus(u, ph, run[u] = "up", work.del)
        BY <2>1, <3>2, Zenon
      <4>. HIDE DEF work
      <4>. QED BY <1>0, <2>3, <2>4, <4>1, StatusType, Zenon
    <3>. QED BY <3>1, <3>2, Zenon
  <2>. HIDE DEF w
  <2>7. wk' \in [Pods -> Worker] /\ \A v \in Pods : Sound(wk'[v])
    BY <2>1, <2>5, ReplaceSound, Zenon
  <2>8. started' \subseteq StaticPods
    BY <1>0, <2>1, Zenon DEF TypeOK
  <2>. QED BY <1>0, <2>1, <2>6, <2>7, <2>8, Zenon DEF WorkerInv, TypeOK, sourceVars, bounds
<1>2. CASE Unstarted(u)
  <2>1. /\ wk[u].chan # NoWork /\ UNCHANGED <<run, sourceVars, cfg, cache, event, bounds, synced>>
        /\ started' \subseteq started
    BY <1>2, Zenon DEF Unstarted, completeUnstartedTerminated, CannotStartYet
  <2>2. wk[u].known
    BY <1>0, <2>1 DEF Sound, Unknown
  <2> DEFINE w == [wk[u] EXCEPT !.chan = NoWork, !.working = FALSE]
  <2>3. wk' = [wk EXCEPT ![u] = Finished(wk[u])] \/ wk' = [wk EXCEPT ![u] = w]
    BY <1>0, <1>2, Zenon DEF Unstarted, completeUnstartedTerminated, CannotStartYet
  <2>4. Finished(wk[u]) \in Worker /\ Sound(Finished(wk[u])) /\ w \in Worker /\ Sound(w)
    BY <1>0, <2>1, <2>2, FinishedSound, PostponedSound, Zenon
  <2>. HIDE DEF w
  <2>5. wk' \in [Pods -> Worker] /\ \A v \in Pods : Sound(wk'[v])
    BY <2>3, <2>4, ReplaceSound, Zenon
  <2>. QED BY <1>0, <2>1, <2>5, Zenon DEF WorkerInv, TypeOK, sourceVars, bounds
<1>3. CASE syncPodTerminal(u) \/ syncPodCanceled(u)
  <2>1. /\ wk[u].pc = "run" /\ wk[u].cur.type = "sync"
        /\ \/ wk' = [wk EXCEPT ![u] = completeSync(wk[u])]
           \/ wk' = [wk EXCEPT ![u] = Returned(wk[u])]
        /\ UNCHANGED <<started, waiting, synced, run, sourceVars, cfg, cache, event, bounds>>
    BY <1>3, Zenon DEF syncPodTerminal, syncPodCanceled, Running
  <2>2. wk' \in [Pods -> Worker] /\ \A v \in Pods : Sound(wk'[v])
    BY <1>0, <2>1, CompletedSound, ReplaceSound, Zenon
  <2>. QED BY <1>0, <2>1, <2>2, Zenon DEF WorkerInv, TypeOK, sourceVars, bounds
<1>4. CASE syncPod(u)
  <2>1. /\ wk[u].pc = "run" /\ wk' = [wk EXCEPT ![u] = Returned(wk[u])]
        /\ SetRun(u, Synced(u))
        /\ UNCHANGED <<started, waiting, synced, sourceVars, cfg, cache, bounds>>
    BY <1>4, Zenon DEF syncPod, Running
  <2>2. wk' \in [Pods -> Worker] /\ \A v \in Pods : Sound(wk'[v])
    BY <1>0, <2>1, CompletedSound, ReplaceSound, Zenon
  <2>3. run' \in [Pods -> {"none", "up", "ok", "bad"}] /\ event' \subseteq Pods
    BY <1>0, <2>1, RunType, RunValues, Zenon
  <2>. QED BY <1>0, <2>1, <2>2, <2>3, Zenon DEF WorkerInv, TypeOK, sourceVars, bounds
<1>5. CASE syncTerminatingPod(u)
  <2>1. /\ wk[u].pc = "run" /\ wk[u].known
        /\ \/ wk' = [wk EXCEPT ![u] = completeTerminating(wk[u])]
           \/ wk' = [wk EXCEPT ![u] = Finished(wk[u])]
        /\ started' \subseteq started
        /\ UNCHANGED <<synced, sourceVars, cfg, cache, bounds>>
    BY <1>0, <1>5, Zenon DEF syncTerminatingPod, Running, completeTerminated, Sound
  <2>2. wk' \in [Pods -> Worker] /\ \A v \in Pods : Sound(wk'[v])
    BY <1>0, <2>1, CompletedSound, FinishedSound, ReplaceSound, Zenon
  <2>3. PICK c \in Killed(u) : SetRun(u, c)
    BY <1>5, Zenon DEF syncTerminatingPod
  <2>4. run' \in [Pods -> {"none", "up", "ok", "bad"}] /\ event' \subseteq Pods
    BY <1>0, <2>3, RunType, RunValues, Zenon
  <2>. QED BY <1>0, <2>1, <2>2, <2>4, Zenon DEF WorkerInv, TypeOK, sourceVars, bounds
<1>6. CASE syncTerminatedPod(u)
  <2> DEFINE ph == IF cache[u].ex THEN cache[u].ph ELSE wk[u].cur.ph
  <2>1. /\ wk[u].pc = "run" /\ wk[u].known
        /\ wk' = [wk EXCEPT ![u] = Finished(wk[u])]
        /\ started' \subseteq started
        /\ SetRun(u, "none") /\ SetPodStatus(u, ph, FALSE, TRUE)
        /\ UNCHANGED <<synced, sourceVars, cfg, bounds>>
    BY <1>0, <1>6, Zenon DEF syncTerminatedPod, Running, completeTerminated, Sound
  <2>2. wk' \in [Pods -> Worker] /\ \A v \in Pods : Sound(wk'[v])
    BY <1>0, <2>1, FinishedSound, ReplaceSound, Zenon
  <2>3. run' \in [Pods -> {"none", "up", "ok", "bad"}] /\ event' \subseteq Pods
    BY <1>0, <2>1, RunType, Zenon
  <2>4. ph \in Phases
    BY <1>0, Zenon DEF TypeOK, Status, Worker, PodWork
  <2>. HIDE DEF ph
  <2>5. cache' \in [Pods -> Status]
    BY <1>0, <2>1, <2>4, StatusType, Zenon
  <2>. QED BY <1>0, <2>1, <2>2, <2>3, <2>5, Zenon DEF WorkerInv, TypeOK, sourceVars, bounds
<1>7. CASE Completes(u)
  <2>1. /\ wk[u].pc = "complete" /\ wk' = [wk EXCEPT ![u] = completeWorkQueueNext(wk[u])]
        /\ UNCHANGED <<started, synced, run, sourceVars, cfg, cache, event, bounds>>
    BY <1>7, Zenon DEF Completes, completeWork
  <2>2. wk' \in [Pods -> Worker] /\ \A v \in Pods : Sound(wk'[v])
    BY <1>0, <2>1, QueueNextSound, ReplaceSound, Zenon
  <2>. QED BY <1>0, <2>1, <2>2, Zenon DEF WorkerInv, TypeOK, sourceVars, bounds
<1>8. CASE RuntimeError(u)
  <2>1. /\ wk[u].pc = "run" /\ wk' = [wk EXCEPT ![u] = Returned(wk[u])]
        /\ errors' = errors + 1
        /\ UNCHANGED <<started, synced, sourceVars, cfg, cache, writes, restarts, removals>>
    BY <1>8, Zenon DEF RuntimeError
  <2>2. wk' \in [Pods -> Worker] /\ \A v \in Pods : Sound(wk'[v])
    BY <1>0, <2>1, CompletedSound, ReplaceSound, Zenon
  <2>3. PICK c \in {run[u], Synced(u)} \cup Killed(u) : SetRun(u, c)
    BY <1>8, Zenon DEF RuntimeError
  <2>4. run' \in [Pods -> {"none", "up", "ok", "bad"}] /\ event' \subseteq Pods
    BY <1>0, <2>3, RunType, RunValues, Zenon
  <2>. QED BY <1>0, <2>1, <2>2, <2>4 DEF WorkerInv, TypeOK, sourceVars
<1>. QED BY <1>1, <1>2, <1>3, <1>4, <1>5, <1>6, <1>7, <1>8, Zenon DEF WorkerStep

\* The handlers of the sync loop: what becomes of the workers, the pod manager
\* and the statuses.
HandlerTypes ==
  /\ wk' \in [Pods -> Worker] /\ \A v \in Pods : Sound(wk'[v])
  /\ UNCHANGED <<started, synced>>
  /\ cfg' \in [Pods -> Version] /\ cache' \in [Pods -> Status]

LEMMA HandlersSound ==
  ASSUME WorkerInv, NEW u \in Pods, NEW v \in Version,
         \/ HandlePodAdditions(u, v) \/ HandlePodUpdates(u, v)
         \/ HandlePodReconcile(u, v) \/ HandlePodRemoves(u)
  PROVE  HandlerTypes
<1>0. /\ TypeOK /\ cfg \in [Pods -> Version] /\ cfg[u] \in Version /\ cache \in [Pods -> Status]
      /\ wk \in [Pods -> Worker] /\ \A x \in Pods : Sound(wk[x])
  BY Zenon DEF WorkerInv, TypeOK
<1>1. CASE HandlePodAdditions(u, v)
  <2>1. cfg' = [cfg EXCEPT ![u] = v]
    BY <1>1, Zenon DEF HandlePodAdditions
  <2>2. CASE v.bad /\ ~wk[u].terminating
    <3>1. SetPodStatus(u, "Failed", FALSE, v.del) /\ UNCHANGED workerVars
      BY <1>1, <2>2, Zenon DEF HandlePodAdditions
    <3>2. v.del \in BOOLEAN /\ "Failed" \in Phases
      BY Zenon DEF Version, Phases
    <3>3. cache' \in [Pods -> Status]
      BY <1>0, <3>1, <3>2, StatusType, Zenon
    <3>. QED BY <1>0, <2>1, <3>1, <3>3, Zenon DEF HandlerTypes, workerVars
  <2>3. CASE ~(v.bad /\ ~wk[u].terminating)
    <3>1. CallUpdatePod(u, Opt("create", v)) /\ UNCHANGED cache
      BY <1>1, <2>3, Zenon DEF HandlePodAdditions
    <3>2. Opt("create", v) \in Options
      BY OptType, Zenon
    <3>3. wk' \in [Pods -> Worker] /\ \A x \in Pods : Sound(wk'[x])
      BY <3>1, <3>2, CallSound, Zenon
    <3>. QED BY <1>0, <2>1, <3>1, <3>3, Zenon DEF HandlerTypes, CallUpdatePod
  <2>. QED BY <2>2, <2>3, Zenon
<1>2. CASE HandlePodUpdates(u, v)
  <2>1. /\ cfg' = [cfg EXCEPT ![u] = v] /\ CallUpdatePod(u, Opt("update", v))
        /\ UNCHANGED cache
    BY <1>2, Zenon DEF HandlePodUpdates
  <2>2. Opt("update", v) \in Options
    BY OptType, Zenon
  <2>3. wk' \in [Pods -> Worker] /\ \A x \in Pods : Sound(wk'[x])
    BY <2>1, <2>2, CallSound, Zenon
  <2>. QED BY <1>0, <2>1, <2>3, Zenon DEF HandlerTypes, CallUpdatePod
<1>3. CASE HandlePodReconcile(u, v)
  BY <1>0, <1>3, Zenon DEF HandlePodReconcile, HandlerTypes, workerVars
<1>4. CASE HandlePodRemoves(u)
  <2>1. /\ cfg' = [cfg EXCEPT ![u] = Absent] /\ CallUpdatePod(u, Opt("kill", cfg[u]))
        /\ UNCHANGED cache
    BY <1>4, Zenon DEF HandlePodRemoves
  <2>2. Opt("kill", cfg[u]) \in Options
    BY <1>0, OptType, Zenon
  <2>3. wk' \in [Pods -> Worker] /\ \A x \in Pods : Sound(wk'[x])
    BY <2>1, <2>2, CallSound, Zenon
  <2>4. cfg' \in [Pods -> Version]
    BY <1>0, <2>1, ConstantTypes, Zenon
  <2>. QED BY <1>0, <2>1, <2>3, <2>4, Zenon DEF HandlerTypes, CallUpdatePod
<1>. QED BY <1>1, <1>2, <1>3, <1>4, Zenon

\* Housekeeping: what becomes of each worker.
LEMMA CleanupsSound ==
  ASSUME WorkerInv, HandlePodCleanups, NEW u \in Pods
  PROVE  LET w == IF Forgotten(wk[u], cfg[u].ex) THEN Unknown ELSE wk[u] IN
         /\ wk'[u] \in Worker /\ Sound(wk'[u])
         /\ \/ wk'[u] = w /\ ~(run[u] = "up" /\ ~cfg[u].ex /\ ~(wk[u].known /\ ~wk[u].terminated))
            \/ \E o \in Options :
                 /\ wk'[u] = UpdatePod(u, w, o)
                 /\ o.runtime => run[u] = "up" /\ ~(wk[u].known /\ ~wk[u].terminated)
                 /\ ~o.runtime => wk[u].restart
<1> DEFINE w == IF Forgotten(wk[u], cfg[u].ex) THEN Unknown ELSE wk[u]
           kill == [kind |-> "kill", runtime |-> TRUE, del |-> FALSE, ph |-> "Pending"]
           orphan == run[u] = "up" /\ ~cfg[u].ex /\ ~(wk[u].known /\ ~wk[u].terminated)
           create == Opt("create", cfg[u])
<1>1. wk'[u] = IF orphan THEN UpdatePod(u, w, kill)
               ELSE IF Restartable(u) THEN UpdatePod(u, w, create) ELSE w
  BY Zenon DEF HandlePodCleanups
<1>2. w \in Worker /\ Sound(w)
  BY ConstantTypes, UnknownSound, Zenon DEF WorkerInv, TypeOK
<1>3. kill \in Options /\ kill.runtime
  BY Zenon DEF Options, Phases
<1>4. create \in Options /\ create.runtime = FALSE
  <2>1. cfg[u] \in Version
    BY Zenon DEF WorkerInv, TypeOK
  <2>. QED BY <2>1, OptType, Zenon DEF Opt
<1>. HIDE DEF w, kill, create
<1>5. CASE orphan
  <2>1. UpdatePod(u, w, kill) \in Worker /\ Sound(UpdatePod(u, w, kill))
    BY <1>2, <1>3, UpdatePodSound, Zenon
  <2>. QED BY <1>1, <1>3, <1>5, <2>1, Zenon DEF w
<1>6. CASE ~orphan /\ Restartable(u)
  <2>1. UpdatePod(u, w, create) \in Worker /\ Sound(UpdatePod(u, w, create))
    BY <1>2, <1>4, UpdatePodSound, Zenon
  <2>. HIDE DEF orphan
  <2>. QED BY <1>1, <1>4, <1>6, <2>1, Zenon DEF w, Restartable
<1>7. CASE ~orphan /\ ~Restartable(u)
  <2>1. wk'[u] = w
    BY <1>1, <1>7, Zenon
  <2>. QED BY <1>2, <1>7, <2>1, Zenon DEF w
<1>. QED BY <1>5, <1>6, <1>7, Zenon

\* The steps of the sync loop, the status manager and the rest of the world.
Outside ==
  \/ \E u \in Pods : \/ syncStatus(u) \/ Merge(u) \/ HandlePodSyncByUID(u)
                     \/ CreatePod(u) \/ DeletePod(u) \/ RemovePod(u) \/ Exit(u)
  \/ MergeFiles \/ HandlePodCleanups \/ WriteFiles \/ Restart

LEMMA OutsideSound ==
  ASSUME WorkerInv, Outside
  PROVE  WorkerInv'
<1>0. /\ TypeOK /\ wk \in [Pods -> Worker] /\ \A v \in Pods : Sound(wk[v])
      /\ api \in [Pods -> Version] /\ cfg \in [Pods -> Version]
      /\ cache \in [Pods -> Status] /\ watch \in [Pods -> Seq(Version)]
      /\ file \subseteq StaticPods /\ StaticPods \subseteq Pods
  BY Zenon DEF WorkerInv, TypeOK, Pods
<1>1. ASSUME NEW u \in Pods, syncStatus(u) PROVE WorkerInv'
  <2> DEFINE sent == [api[u] EXCEPT !.ph = mergePodStatus(u)]
             gone == api[u].del /\ PodResourcesAreReclaimed(u)
             new == IF gone THEN Absent ELSE sent
             st == IF gone THEN NoStatus ELSE [cache[u] EXCEPT !.dirty = FALSE]
  <2>1. /\ api' = [api EXCEPT ![u] = new]
        /\ watch' = IF new = api[u] THEN watch ELSE [watch EXCEPT ![u] = Append(@, new)]
        /\ cache' = [cache EXCEPT ![u] = st]
        /\ UNCHANGED <<workerVars, run, hosted, file, cfg, event, bounds>>
    BY <1>0, <1>1, Zenon DEF syncStatus
  <2>2. new \in Version
    <3>1. mergePodStatus(u) \in Phases
      BY <1>0, PhaseType, Zenon DEF Phases
    <3>. QED BY <1>0, <3>1, ConstantTypes, Zenon DEF Version
  <2>3. st \in Status
    BY <1>0, ConstantTypes, Zenon DEF Status
  <2>. HIDE DEF new, st
  <2>4. /\ api' \in [Pods -> Version] /\ watch' \in [Pods -> Seq(Version)]
        /\ cache' \in [Pods -> Status]
    <3>1. Append(watch[u], new) \in Seq(Version)
      BY <1>0, <2>2
    <3>. QED BY <1>0, <2>1, <2>2, <2>3, <3>1, Zenon
  <2>. QED BY <1>0, <2>1, <2>4, Zenon DEF WorkerInv, TypeOK, workerVars, bounds
<1>2. ASSUME NEW u \in Pods, Merge(u) PROVE WorkerInv'
  <2>1. /\ watch[u] # <<>> /\ watch' = [watch EXCEPT ![u] = Tail(@)]
        /\ UNCHANGED <<run, hosted, api, file, event, bounds>>
    BY <1>2, Zenon DEF Merge
  <2>2. Head(watch[u]) \in Version /\ Tail(watch[u]) \in Seq(Version)
    BY <1>0, <2>1
  <2>3. HandlerTypes
    BY <1>2, <2>2, HandlersSound, Zenon DEF Merge
  <2>4. watch' \in [Pods -> Seq(Version)]
    BY <1>0, <2>1, <2>2, Zenon
  <2>. QED BY <1>0, <2>1, <2>3, <2>4, Zenon DEF WorkerInv, TypeOK, HandlerTypes, bounds
<1>3. ASSUME NEW u \in Pods, HandlePodSyncByUID(u) PROVE WorkerInv'
  <2>1. event' \subseteq event /\ UNCHANGED <<run, sourceVars, cfg, cache, bounds>>
    BY <1>3, Zenon DEF HandlePodSyncByUID
  <2>2. Opt("sync", cfg[u]) \in Options
    BY <1>0, OptType, Zenon
  <2>3. CASE cfg[u].ex
    <3>1. CallUpdatePod(u, Opt("sync", cfg[u]))
      BY <1>3, <2>3, Zenon DEF HandlePodSyncByUID
    <3>2. wk' \in [Pods -> Worker] /\ \A v \in Pods : Sound(wk'[v])
      BY <2>2, <3>1, CallSound, Zenon
    <3>3. UNCHANGED <<started, synced>>
      BY <3>1, Zenon DEF CallUpdatePod
    <3>. QED BY <1>0, <2>1, <3>2, <3>3, Zenon DEF WorkerInv, TypeOK, sourceVars, bounds
  <2>4. CASE ~cfg[u].ex
    <3>1. UNCHANGED workerVars
      BY <1>3, <2>4, Zenon DEF HandlePodSyncByUID
    <3>. QED BY <1>0, <2>1, <3>1, Zenon DEF WorkerInv, TypeOK, sourceVars, bounds, workerVars
  <2>. QED BY <2>3, <2>4, Zenon
<1>4. ASSUME NEW u \in Pods, NEW v \in Version, SetApi(u, v),
             hosted' \subseteq hosted, removals' \in Nat
      PROVE  WorkerInv'
  <2>1. api' \in [Pods -> Version] /\ watch' \in [Pods -> Seq(Version)]
    <3>1. Append(watch[u], v) \in Seq(Version)
      BY <1>0
    <3>. QED BY <1>0, <1>4, <3>1, Zenon DEF SetApi
  <2>. QED BY <1>0, <1>4, <2>1, Zenon DEF WorkerInv, TypeOK, SetApi, workerVars
<1>5. ASSUME NEW u \in Pods, CreatePod(u) \/ DeletePod(u) \/ RemovePod(u) PROVE WorkerInv'
  <2>1. \A b \in BOOLEAN : [Present EXCEPT !.bad = b] \in Version
    BY ConstantTypes, Zenon DEF Version
  <2>2. [api[u] EXCEPT !.del = TRUE] \in Version /\ removals \in Nat
    BY <1>0, VersionMade, Zenon DEF TypeOK
  <2>3. CASE CreatePod(u)
    BY <1>4, <2>1, <2>2, <2>3, Zenon DEF CreatePod
  <2>4. CASE DeletePod(u)
    BY <1>4, <2>2, <2>4, Zenon DEF DeletePod
  <2>5. CASE RemovePod(u)
    BY <1>4, <2>2, <2>5, ConstantTypes DEF RemovePod
  <2>. QED BY <1>5, <2>3, <2>4, <2>5, Zenon
<1>6. ASSUME NEW u \in Pods, Exit(u) PROVE WorkerInv'
  <2>1. run' \in [Pods -> {"none", "up", "ok", "bad"}] /\ event' \subseteq Pods
    BY <1>0, <1>6, RunType, Zenon DEF Exit
  <2>2. UNCHANGED <<workerVars, sourceVars, cfg, cache, bounds>>
    BY <1>6, Zenon DEF Exit
  <2>. QED BY <1>0, <2>1, <2>2, Zenon DEF WorkerInv, TypeOK, workerVars, sourceVars, bounds
<1>7. CASE MergeFiles
  <2>1. UNCHANGED <<run, sourceVars, event, bounds>>
    BY <1>7, Zenon DEF MergeFiles
  <2>2. \E u \in StaticPods : HandlePodRemoves(u) \/ HandlePodAdditions(u, Present)
    BY <1>0, <1>7, Zenon DEF MergeFiles
  <2>3. HandlerTypes
    BY <1>0, <2>2, ConstantTypes, HandlersSound, Zenon
  <2>. QED BY <1>0, <2>1, <2>3, Zenon DEF WorkerInv, TypeOK, HandlerTypes, sourceVars, bounds
<1>8. CASE HandlePodCleanups
  <2>1. /\ synced' = TRUE /\ started' \subseteq started
        /\ cache' = [u \in Pods |-> IF cfg[u].ex THEN cache[u] ELSE NoStatus]
        /\ UNCHANGED <<run, sourceVars, cfg, event, bounds>>
    BY <1>8, Zenon DEF HandlePodCleanups
  <2>2. wk' \in [Pods -> Worker] /\ \A v \in Pods : Sound(wk'[v])
    <3>1. \A v \in Pods : wk'[v] \in Worker /\ Sound(wk'[v])
      BY <1>8, CleanupsSound, Zenon
    <3>2. wk' = [v \in Pods |-> wk'[v]]
      BY <1>8, Zenon DEF HandlePodCleanups
    <3>. QED BY <3>1, <3>2, Zenon
  <2>3. cache' \in [Pods -> Status]
    BY <1>0, <2>1, ConstantTypes, Zenon
  <2>. QED BY <1>0, <2>1, <2>2, <2>3, Zenon DEF WorkerInv, TypeOK, sourceVars, bounds
<1>9. CASE WriteFiles
  <2>1. /\ file' \subseteq StaticPods /\ writes' = writes + 1
        /\ UNCHANGED <<workerVars, run, hosted, api, watch, cfg, cache, event,
                       restarts, errors, removals>>
    BY <1>9, Zenon DEF WriteFiles
  <2>. QED BY <1>0, <2>1 DEF WorkerInv, TypeOK, workerVars
<1>10. CASE Restart
  <2>1. /\ wk' = [u \in Pods |-> Unknown] /\ cfg' = [u \in Pods |-> Absent]
        /\ cache' = [u \in Pods |-> NoStatus] /\ restarts' = restarts + 1
        /\ watch' = [u \in Pods |-> IF api[u].ex THEN <<api[u]>> ELSE <<>>]
        /\ started' = {} /\ synced' = FALSE /\ event' \subseteq Pods
        /\ UNCHANGED <<run, hosted, api, file, writes, errors, removals>>
    BY <1>10, Zenon DEF Restart
  <2>2. /\ wk' \in [Pods -> Worker] /\ cfg' \in [Pods -> Version]
        /\ cache' \in [Pods -> Status]
    BY <2>1, ConstantTypes, Zenon
  <2>3. watch' \in [Pods -> Seq(Version)]
    BY <1>0, <2>1
  <2>4. \A v \in Pods : Sound(wk'[v])
    BY <2>1, UnknownSound, Zenon
  <2>5. restarts' \in Nat
    BY <1>0, <2>1 DEF TypeOK
  <2>6. started' \subseteq StaticPods /\ synced' \in BOOLEAN
    BY <2>1, Zenon
  <2>7. TypeOK'
    BY <1>0, <2>1, <2>2, <2>3, <2>5, <2>6, Zenon DEF TypeOK
  <2>. QED BY <2>4, <2>7, Zenon DEF WorkerInv
<1>. QED BY <1>1, <1>2, <1>3, <1>5, <1>6, <1>7, <1>8, <1>9, <1>10, Zenon DEF Outside

LEMMA NextSplit ==
  ASSUME [Next]_vars
  PROVE  \/ \E u \in Pods : WorkerStep(u) \/ RuntimeError(u)
         \/ Outside
         \/ UNCHANGED vars
BY Zenon DEF Next, Outside

LEMMA WorkerNext == WorkerInv /\ [Next]_vars => WorkerInv'
<1>. SUFFICES ASSUME WorkerInv, [Next]_vars PROVE WorkerInv'
  BY Zenon
<1>1. CASE UNCHANGED vars
  BY <1>1, Zenon DEF vars, WorkerInv, TypeOK
<1>. QED BY <1>1, NextSplit, WorkerStepSound, OutsideSound, Zenon

\* A send to a worker's channel finds its slot empty, whatever pods, updates,
\* errors and restarts there are (UpdatePod holds podLock while it sends).
THEOREM SendsNeverBlock == Spec => []SendNeverBlocks
<1>1. WorkerInv => SendNeverBlocks
  BY Zenon DEF WorkerInv, Sound, SendNeverBlocks
<1>. QED BY <1>1, WorkerInit, WorkerNext, PTL DEF Spec

-----------------------------------------------------------------------------
(***************************************************************************)
(* Static pods, until the agent restarts.  A running one is known, started *)
(* and not terminated, and a started one holds the name; none gets work    *)
(* without a configuration, because none ever runs without a worker.       *)
(***************************************************************************)
NoRuntimeWork(w) == ~w.chan.runtime /\ ~w.next.runtime /\ ~w.cur.runtime

Orderly(u) ==
  /\ run[u] = "up" => wk[u].known /\ ~wk[u].terminated /\ wk[u].podStarted
  /\ wk[u].podStarted => started = {u}
  /\ NoRuntimeWork(wk[u])

StaticInv == restarts = 0 => \A u \in StaticPods : Orderly(u)

LEMMA StaticInit == Init => StaticInv
BY DEF Init, WorkersInit, StaticInv, Orderly, NoRuntimeWork, Unknown, NoWork, Pods

\* A step of pod u's goroutine need only be looked at for u.
LEMMA OneOrderly ==
  ASSUME WorkerInv, StaticInv, NEW u \in Pods, NEW w, wk' = [wk EXCEPT ![u] = w],
         \A v \in Pods \ {u} : run'[v] = run[v] /\ (started = {v} => started' = {v}),
         restarts' = restarts,
         restarts = 0 /\ u \in StaticPods /\ Orderly(u) => Orderly(u)'
  PROVE  StaticInv'
<1>1. \A v \in Pods \ {u} : wk'[v] = wk[v]
  BY Zenon DEF WorkerInv, TypeOK
<1>2. \A v \in StaticPods \ {u} : Orderly(v) => Orderly(v)'
  BY <1>1, Zenon DEF Orderly, Pods
<1>. QED BY <1>2, Zenon DEF StaticInv

LEMMA WorkerStepOrderly ==
  ASSUME WorkerInv, StaticInv, NEW u \in Pods, WorkerStep(u) \/ RuntimeError(u)
  PROVE  StaticInv'
<1>0. /\ TypeOK /\ wk \in [Pods -> Worker] /\ wk[u] \in Worker /\ Sound(wk[u])
      /\ run \in [Pods -> {"none", "up", "ok", "bad"}]
  BY Zenon DEF WorkerInv, TypeOK
<1>a. wk[u].pc = "run" => wk[u].known /\ wk[u].podStarted /\ wk[u].chan = NoWork
  BY <1>0, Zenon DEF Sound
<1>b. ~NoWork.runtime
  BY Zenon DEF NoWork
<1>1. CASE managePodLoop(u)
  <2> DEFINE b == wk[u].chan.type = "sync" /\ Terminal(generateAPIPodStatus(u, wk[u].chan.ph))
             w == [Takes(wk[u]) EXCEPT !.isTerminal = b]
  <2>1. wk[u].chan # NoWork /\ wk' = [wk EXCEPT ![u] = w] /\ UNCHANGED <<run, restarts>>
    BY <1>1, Zenon DEF managePodLoop, allowPodStart, bounds
  <2>2. /\ w.known /\ w.podStarted /\ w.terminated = wk[u].terminated
        /\ w.chan = NoWork /\ w.next = wk[u].next /\ w.cur = wk[u].chan
    <3>1. b \in BOOLEAN
      BY Zenon
    <3>. HIDE DEF b
    <3>. QED BY <1>0, <2>1, <3>1, TakesSound, Zenon
  <2>3. started' = IF ~wk[u].podStarted /\ Static(u, wk[u].chan) /\ started = {}
                   THEN {u} ELSE started
    BY <1>1, Zenon DEF managePodLoop, allowPodStart
  <2>4. ~wk[u].podStarted /\ Static(u, wk[u].chan) => started \in {{}, {u}}
    BY <1>1, Zenon DEF managePodLoop, allowPodStart, Allowed, allowStaticPodStart
  <2>. HIDE DEF w
  <2>5. wk'[u] = w
    BY <1>0, <2>1, Zenon
  <2>6. u \in StaticPods /\ Orderly(u) => Orderly(u)'
    <3>. SUFFICES ASSUME u \in StaticPods, Orderly(u) PROVE Orderly(u)'
      BY Zenon
    <3>1. started' = {u}
      BY <2>3, <2>4, Zenon DEF Orderly, NoRuntimeWork, Static
    <3>2. NoRuntimeWork(w)
      BY <1>b, <2>2, Zenon DEF Orderly, NoRuntimeWork
    <3>. QED BY <2>1, <2>2, <2>5, <3>1, <3>2, Zenon DEF Orderly
  <2>7. \A v \in Pods \ {u} : started = {v} => started' = {v}
    BY <2>3, Zenon
  <2>. QED BY <2>1, <2>6, <2>7, OneOrderly, Zenon
<1>2. CASE Unstarted(u)
  <2>1. /\ wk[u].chan # NoWork /\ ~wk[u].podStarted /\ UNCHANGED <<run, restarts>>
        /\ \A v \in Pods \ {u} : started = {v} => started' = {v}
    BY <1>2, Zenon DEF Unstarted, completeUnstartedTerminated, CannotStartYet, bounds
  <2>2. wk[u].known
    BY <1>0, <2>1 DEF Sound, Unknown
  <2> DEFINE p == [wk[u] EXCEPT !.chan = NoWork, !.working = FALSE]
  <2>3. PICK w \in {Finished(wk[u]), p} : wk' = [wk EXCEPT ![u] = w]
    BY <1>0, <1>2, Zenon DEF Unstarted, completeUnstartedTerminated, CannotStartYet
  <2>4. ~w.podStarted /\ w.chan = NoWork /\ w.next \in {NoWork, wk[u].next}
                      /\ w.cur \in {NoWork, wk[u].cur}
    <3>1. LET x == Finished(wk[u]) IN
          ~x.podStarted /\ x.chan = NoWork /\ x.next = NoWork /\ x.cur = NoWork
      BY <1>0, <2>2, FinishedSound, Zenon
    <3>2. p.podStarted = wk[u].podStarted /\ p.chan = NoWork /\ p.next = wk[u].next
                                         /\ p.cur = wk[u].cur
      BY <1>0, <2>1, PostponedSound, Zenon
    <3>. HIDE DEF p
    <3>. QED BY <2>1, <2>3, <3>1, <3>2, Zenon
  <2>5. wk'[u] = w
    BY <1>0, <2>3, Zenon
  <2>6. Orderly(u) => Orderly(u)'
    BY <1>b, <2>1, <2>4, <2>5, Zenon DEF Orderly, NoRuntimeWork
  <2>. QED BY <2>1, <2>3, <2>6, OneOrderly, Zenon
<1>3. ASSUME wk[u].pc = "run", NEW c, run' = [run EXCEPT ![u] = c],
             wk' = [wk EXCEPT ![u] = Returned(wk[u])] \/ wk' = [wk EXCEPT ![u] = completeSync(wk[u])],
             c # "up" \/ c = run[u] \/ ~wk[u].terminated,
             UNCHANGED <<started, restarts>>
      PROVE  StaticInv'
  <2>1. PICK w \in {Returned(wk[u]), completeSync(wk[u])} : wk' = [wk EXCEPT ![u] = w]
    BY <1>3, Zenon
  <2>2. /\ w.known /\ w.podStarted /\ w.terminated = wk[u].terminated
        /\ w.chan = NoWork /\ w.cur = NoWork
        /\ w.next.runtime = wk[u].cur.runtime \/ w.next = wk[u].next
    BY <1>0, <1>a, <1>3, CompletedFields, SMTT(30)
  <2>3. wk'[u] = w /\ run'[u] = c /\ \A v \in Pods \ {u} : run'[v] = run[v]
    BY <1>0, <1>3, <2>1, Zenon
  <2>4. Orderly(u) => Orderly(u)'
    BY <1>a, <1>b, <1>3, <2>2, <2>3, Zenon DEF Orderly, NoRuntimeWork
  <2>. QED BY <1>3, <2>1, <2>3, <2>4, OneOrderly, Zenon
<1>4. CASE syncPodTerminal(u) \/ syncPodCanceled(u)
  BY <1>0, <1>3, <1>4 DEF syncPodTerminal, syncPodCanceled, Running, bounds
<1>5. CASE syncPod(u)
  <2>1. wk[u].pc = "run" /\ wk[u].cur.type = "sync"
    BY <1>5, Zenon DEF syncPod, Running
  <2>2. ~wk[u].terminated
    BY <1>0, <2>1, Zenon DEF Sound, Cleanup
  <2>. QED BY <1>3, <1>5, <2>1, <2>2, Zenon DEF syncPod, SetRun, bounds
<1>6. CASE RuntimeError(u)
  <2>1. PICK c \in {run[u]} \cup (IF wk[u].cur.type = "sync" THEN {Synced(u)} ELSE Killed(u)) :
          SetRun(u, c)
    BY <1>6, Zenon DEF RuntimeError
  <2>2. wk[u].cur.type = "sync" => ~wk[u].terminated
    BY <1>0, Zenon DEF Sound, Cleanup
  <2>3. c # "up" \/ c = run[u] \/ ~wk[u].terminated
    BY <1>0, <2>1, <2>2, RunValues, Zenon
  <2>4. run' = [run EXCEPT ![u] = c]
    BY <2>1, Zenon DEF SetRun
  <2>. QED BY <1>3, <1>6, <2>3, <2>4, Zenon DEF RuntimeError
<1>7. CASE syncTerminatingPod(u)
  <2>1. PICK c \in Killed(u) : SetRun(u, c)
    BY <1>7, Zenon DEF syncTerminatingPod
  <2>2. /\ wk[u].pc = "run" /\ UNCHANGED restarts
        /\ \/ wk' = [wk EXCEPT ![u] = completeTerminating(wk[u])] /\ UNCHANGED started
           \/ wk' = [wk EXCEPT ![u] = Finished(wk[u])] /\ started' = started \ {u}
    BY <1>7, Zenon DEF syncTerminatingPod, Running, completeTerminated, bounds
  <2>3. PICK w : /\ wk' = [wk EXCEPT ![u] = w]
                 /\ \/ w = completeTerminating(wk[u]) /\ UNCHANGED started
                    \/ w = Finished(wk[u]) /\ started' = started \ {u}
    BY <2>2, Zenon
  <2>4. /\ w.podStarted => started' = started /\ w.podStarted = wk[u].podStarted
        /\ w.chan = NoWork /\ w.cur = NoWork
        /\ w.next.runtime = wk[u].cur.runtime \/ w.next = NoWork
    BY <1>0, <1>a, <2>2, <2>3, CompletedFields, FinishedSound, SMTT(30)
  <2>5. /\ wk'[u] = w /\ run'[u] # "up" /\ \A v \in Pods \ {u} : run'[v] = run[v]
        /\ \A v \in Pods \ {u} : started = {v} => started' = {v}
    BY <1>0, <2>1, <2>3, RunValues, Zenon DEF SetRun
  <2>6. Orderly(u) => Orderly(u)'
    BY <1>b, <2>4, <2>5, Zenon DEF Orderly, NoRuntimeWork
  <2>. QED BY <2>2, <2>3, <2>5, <2>6, OneOrderly, Zenon
<1>8. CASE syncTerminatedPod(u)
  <2>1. /\ wk[u].known /\ wk' = [wk EXCEPT ![u] = Finished(wk[u])] /\ started' = started \ {u}
        /\ run' = [run EXCEPT ![u] = "none"] /\ UNCHANGED restarts
    BY <1>a, <1>8, Zenon DEF syncTerminatedPod, Running, completeTerminated, SetRun, bounds
  <2>2. LET w == Finished(wk[u]) IN
        ~w.podStarted /\ w.chan = NoWork /\ w.next = NoWork /\ w.cur = NoWork
    BY <1>0, <2>1, FinishedSound, Zenon
  <2>3. /\ wk'[u] = Finished(wk[u]) /\ run'[u] = "none" /\ \A v \in Pods \ {u} : run'[v] = run[v]
        /\ \A v \in Pods \ {u} : started = {v} => started' = {v}
    BY <1>0, <2>1, Zenon
  <2>4. Orderly(u)'
    BY <1>b, <2>2, <2>3, Zenon DEF Orderly, NoRuntimeWork
  <2>. QED BY <2>1, <2>3, <2>4, OneOrderly, Zenon
<1>9. CASE Completes(u)
  <2> DEFINE w == completeWorkQueueNext(wk[u])
  <2>1. /\ wk[u].pc = "complete" /\ wk' = [wk EXCEPT ![u] = w] /\ UNCHANGED <<started, run, restarts>>
    BY <1>9, Zenon DEF Completes, completeWork, bounds
  <2>2. /\ w.known = wk[u].known /\ w.terminated = wk[u].terminated
        /\ w.podStarted = wk[u].podStarted
        /\ w.chan = wk[u].next /\ w.next = NoWork /\ w.cur = wk[u].cur
    BY <1>0, <2>1, QueueNextSound, Zenon
  <2>3. wk'[u] = w
    BY <1>0, <2>1, Zenon
  <2>. HIDE DEF w
  <2>4. Orderly(u) => Orderly(u)'
    BY <1>b, <2>1, <2>2, <2>3, Zenon DEF Orderly, NoRuntimeWork
  <2>. QED BY <2>1, <2>4, OneOrderly, Zenon
<1>. QED BY <1>1, <1>2, <1>4, <1>5, <1>6, <1>7, <1>8, <1>9, Zenon DEF WorkerStep

\* A call of UpdatePod with a configuration.
LEMMA CallOrderly ==
  ASSUME WorkerInv, NEW u \in Pods, NEW o \in Options, ~o.runtime,
         CallUpdatePod(u, o), UNCHANGED <<run, restarts>>, StaticInv
  PROVE  StaticInv'
<1> DEFINE w0 == IF wk[u].known THEN wk[u] ELSE FirstSeen(u, o)
           v == UpdatePod(u, wk[u], o)
<1>1. wk' = [wk EXCEPT ![u] = v] /\ wk'[u] = v /\ UNCHANGED started
  BY Zenon DEF CallUpdatePod, WorkerInv, TypeOK
<1>2. PICK work \in PodWork : work.runtime = o.runtime /\ Keeps(v, w0, work)
  BY UpdatePodSound, Zenon DEF WorkerInv, TypeOK
<1>3. ~wk[u].known => w0.chan = NoWork /\ w0.next = NoWork /\ w0.cur = NoWork /\ ~w0.podStarted
  BY FirstSeenSound
<1>4. wk[u].known => w0 = wk[u]
  BY Zenon
<1>. HIDE DEF w0, v
<1>5. Orderly(u) => Orderly(u)'
  <2>. SUFFICES ASSUME Orderly(u) PROVE Orderly(u)'
    BY Zenon
  <2>1. NoRuntimeWork(w0)
    BY <1>3, <1>4 DEF Orderly, NoRuntimeWork, NoWork
  <2>2. NoRuntimeWork(v)
    BY <1>2, <2>1, Zenon DEF NoRuntimeWork, Keeps
  <2>3. run[u] = "up" => v.known /\ ~v.terminated /\ v.podStarted
    BY <1>2, <1>4, Zenon DEF Orderly, Keeps
  <2>4. v.podStarted => wk[u].podStarted
    BY <1>2, <1>3, <1>4, Zenon DEF Keeps
  <2>. QED BY <1>1, <2>2, <2>3, <2>4, Zenon DEF Orderly
<1>. QED BY <1>1, <1>5, OneOrderly, Zenon

LEMMA OutsideOrderly ==
  ASSUME WorkerInv, WorkerInv', StaticInv, Outside
  PROVE  StaticInv'
<1>0. /\ wk \in [Pods -> Worker] /\ (\A v \in Pods : Sound(wk[v]))
      /\ cfg \in [Pods -> Version] /\ watch \in [Pods -> Seq(Version)]
      /\ run \in [Pods -> {"none", "up", "ok", "bad"}] /\ restarts \in Nat
      /\ file \subseteq StaticPods /\ StaticPods \subseteq Pods
  BY Zenon DEF WorkerInv, TypeOK, Pods
<1>1. ASSUME UNCHANGED <<wk, started, run, restarts>> PROVE StaticInv'
  BY <1>1, Zenon DEF StaticInv, Orderly
<1>2. ASSUME NEW u \in Pods, NEW v \in Version, UNCHANGED <<run, restarts>>,
             \/ HandlePodAdditions(u, v) \/ HandlePodUpdates(u, v)
             \/ HandlePodReconcile(u, v) \/ HandlePodRemoves(u)
      PROVE  StaticInv'
  <2>1. \A k \in {"create", "update", "kill"}, x \in Version :
          Opt(k, x) \in Options /\ ~Opt(k, x).runtime
    BY OptType, Zenon DEF Opt
  <2>2. \/ UNCHANGED <<wk, started>>
        \/ \E k \in {"create", "update", "kill"}, x \in Version : CallUpdatePod(u, Opt(k, x))
    BY <1>0, <1>2, Zenon DEF HandlePodAdditions, HandlePodUpdates, HandlePodReconcile,
                      HandlePodRemoves, workerVars
  <2>. QED BY <1>1, <1>2, <2>1, <2>2, CallOrderly, Zenon
<1>3. ASSUME NEW u \in Pods, syncStatus(u) \/ CreatePod(u) \/ DeletePod(u) \/ RemovePod(u)
      PROVE  StaticInv'
  BY <1>1, <1>3, Zenon DEF syncStatus, CreatePod, DeletePod, RemovePod, SetApi, workerVars, bounds
<1>4. ASSUME NEW u \in Pods, Merge(u) PROVE StaticInv'
  <2>1. Head(watch[u]) \in Version
    BY <1>0, <1>4 DEF Merge
  <2>2. UNCHANGED <<run, restarts>>
    BY <1>4, Zenon DEF Merge, bounds
  <2>. QED BY <1>2, <1>4, <2>1, <2>2, Zenon DEF Merge
<1>5. ASSUME NEW u \in Pods, HandlePodSyncByUID(u) PROVE StaticInv'
  <2>1. Opt("sync", cfg[u]) \in Options /\ ~Opt("sync", cfg[u]).runtime
    BY <1>0, OptType, Zenon DEF Opt
  <2>2. UNCHANGED <<run, restarts>>
    BY <1>5, Zenon DEF HandlePodSyncByUID, bounds
  <2>3. CallUpdatePod(u, Opt("sync", cfg[u])) \/ UNCHANGED workerVars
    BY <1>5, Zenon DEF HandlePodSyncByUID
  <2>. QED BY <1>1, <2>1, <2>2, <2>3, CallOrderly, Zenon DEF workerVars
<1>6. ASSUME NEW u \in Pods, Exit(u) PROVE StaticInv'
  <2>1. /\ UNCHANGED <<wk, started, restarts>> /\ run'[u] # "up"
        /\ \A v \in Pods \ {u} : run'[v] = run[v]
    BY <1>0, <1>6, Zenon DEF Exit, SetRun, workerVars, bounds
  <2>. QED BY <1>0, <2>1, Zenon DEF StaticInv, Orderly
<1>7. CASE MergeFiles
  <2>1. UNCHANGED <<run, restarts>>
    BY <1>7, Zenon DEF MergeFiles, bounds
  <2>2. \E u \in StaticPods : HandlePodRemoves(u) \/ HandlePodAdditions(u, Present)
    BY <1>0, <1>7, Zenon DEF MergeFiles
  <2>. QED BY <1>0, <1>2, <2>1, <2>2, ConstantTypes, Zenon
<1>8. CASE HandlePodCleanups
  <2>1. UNCHANGED <<run, restarts>>
    BY <1>8, Zenon DEF HandlePodCleanups, bounds
  <2>2. started' = {u \in started : ~Forgotten(wk[u], cfg[u].ex) /\ wk[u].known}
    <3>1. \A u \in Pods : LET w == IF Forgotten(wk[u], cfg[u].ex) THEN Unknown ELSE wk[u] IN
                            w.known = (~Forgotten(wk[u], cfg[u].ex) /\ wk[u].known)
      BY <1>0, Zenon DEF Unknown, Worker
    <3>2. started \subseteq Pods
      BY <1>0, Zenon DEF WorkerInv, TypeOK
    <3>. QED BY <1>8, <3>1, <3>2, Zenon DEF HandlePodCleanups
  <2>3. ASSUME NEW u \in StaticPods, Orderly(u) PROVE Orderly(u)'
    <3> DEFINE f == Forgotten(wk[u], cfg[u].ex)
               w == IF f THEN Unknown ELSE wk[u]
    <3>1. u \in Pods /\ wk[u] \in Worker /\ Sound(wk[u])
      BY <1>0, Zenon
    <3>2. f => wk[u].finished /\ run[u] # "up" /\ ~wk[u].podStarted
      BY <2>3, <3>1, Zenon DEF Forgotten, Sound, Orderly
    <3>a. (f => w = Unknown) /\ (~f => w = wk[u])
      BY Zenon
    <3>. HIDE DEF f, w
    <3>3. /\ run[u] = "up" => w.known /\ ~w.terminated /\ w.podStarted
          /\ w.podStarted => ~f /\ wk[u].podStarted /\ wk[u].known
          /\ NoRuntimeWork(w) /\ w \in Worker /\ Sound(w)
      <4>1. CASE f
        <5>1. w = Unknown /\ ~Unknown.podStarted /\ NoRuntimeWork(Unknown)
          BY <3>a, <4>1, Zenon DEF Unknown, NoWork, NoRuntimeWork
        <5>. QED BY <3>2, <4>1, <5>1, ConstantTypes, UnknownSound, Zenon
      <4>2. CASE ~f
        <5>1. wk[u].podStarted => wk[u].known
          BY <3>1, SMTT(30) DEF Sound, Unknown
        <5>. QED BY <2>3, <3>1, <3>a, <4>2, <5>1, Zenon DEF Orderly
      <4>. QED BY <4>1, <4>2, Zenon
    <3>4. w.podStarted => started' = {u}
      BY <2>2, <2>3, <3>3, Zenon DEF Orderly, f
    <3>5. CASE wk'[u] = w
      BY <2>1, <3>3, <3>4, <3>5, Zenon DEF Orderly
    <3>6. CASE \E o \in Options : /\ wk'[u] = UpdatePod(u, w, o)
                                  /\ o.runtime => run[u] = "up" /\ ~(wk[u].known /\ ~wk[u].terminated)
      <4>1. PICK o \in Options : wk'[u] = UpdatePod(u, w, o) /\ ~o.runtime
        BY <2>3, <3>6, Zenon DEF Orderly
      <4> DEFINE w0 == IF w.known THEN w ELSE FirstSeen(u, o)
      <4>2. PICK work \in PodWork : work.runtime = o.runtime /\ Keeps(wk'[u], w0, work)
        BY <3>1, <3>3, <4>1, UpdatePodSound, SMTT(30)
      <4>3. ~w.known => w0.chan = NoWork /\ w0.next = NoWork /\ w0.cur = NoWork /\ ~w0.podStarted
        BY FirstSeenSound, SMTT(30)
      <4>4. w.known => w0 = w
        BY Zenon
      <4>. HIDE DEF w0
      <4>5. NoRuntimeWork(w0)
        BY <3>3, <4>3, <4>4 DEF NoRuntimeWork, NoWork
      <4>6. NoRuntimeWork(wk'[u])
        BY <4>1, <4>2, <4>5, Zenon DEF NoRuntimeWork, Keeps
      <4>7. run[u] = "up" => wk'[u].known /\ ~wk'[u].terminated /\ wk'[u].podStarted
        BY <3>3, <4>2, <4>4, Zenon DEF Keeps
      <4>8. wk'[u].podStarted => w.podStarted
        BY <4>2, <4>3, <4>4, Zenon DEF Keeps
      <4>. QED BY <2>1, <3>4, <4>6, <4>7, <4>8, Zenon DEF Orderly
    <3>. QED BY <1>8, <3>1, <3>5, <3>6, CleanupsSound, Zenon DEF f, w
  <2>. QED BY <2>1, <2>3, Zenon DEF StaticInv
<1>9. CASE WriteFiles
  BY <1>1, <1>9, Zenon DEF WriteFiles, workerVars
<1>10. CASE Restart
  <2>1. restarts' # 0
    BY <1>0, <1>10 DEF Restart
  <2>. QED BY <2>1, Zenon DEF StaticInv
<1>. QED BY <1>3, <1>4, <1>5, <1>6, <1>7, <1>8, <1>9, <1>10, Zenon DEF Outside

LEMMA StaticNext == WorkerInv /\ WorkerInv' /\ StaticInv /\ [Next]_vars => StaticInv'
<1>. SUFFICES ASSUME WorkerInv, WorkerInv', StaticInv, [Next]_vars PROVE StaticInv'
  BY Zenon
<1>1. CASE UNCHANGED vars
  BY <1>1, Zenon DEF vars, StaticInv, Orderly
<1>. QED BY <1>1, NextSplit, WorkerStepOrderly, OutsideOrderly, Zenon

\* Until the agent restarts, at most one of the static pods of a name runs, in
\* whatever order their files come and go (allowStaticPodStart).
THEOREM StaticPodsTakeTurns == Spec => []OneStaticPodRuns
<1>1. StaticInv => OneStaticPodRuns
  BY Zenon DEF StaticInv, Orderly, OneStaticPodRuns
<1>2. Spec => [](WorkerInv /\ StaticInv)
  BY WorkerInit, WorkerNext, StaticInit, StaticNext, PTL DEF Spec
<1>. QED BY <1>1, <1>2, PTL

-----------------------------------------------------------------------------
(***************************************************************************)
(* Pods of the API server, across restarts.  What is told of a pod that is *)
(* not known, or that is terminated, is right: it does not run.  The hard  *)
(* case is a pod the addition hook rejects: it enters the pod manager      *)
(* without a worker, so it must never have run, in this life of the agent  *)
(* or an earlier one.  Hence what the invariant says of its versions: each *)
(* follows from the one before it, and a rejected pod gets no work but to  *)
(* be terminated.                                                          *)
(***************************************************************************)

Follows(v, w) == w.ex => v.ex /\ w.bad = v.bad /\ (v.del => w.del)

History(u) ==
  /\ \A i, j \in DOMAIN watch[u] : i < j => Follows(watch[u][i], watch[u][j])
  /\ \A i \in DOMAIN watch[u] : Follows(watch[u][i], api[u])
  /\ cfg[u].ex => /\ Follows(cfg[u], api[u])
                  /\ \A i \in DOMAIN watch[u] : Follows(cfg[u], watch[u][i])

BadVersion(u) ==
  \/ api[u].ex /\ api[u].bad
  \/ cfg[u].ex /\ cfg[u].bad
  \/ \E i \in DOMAIN watch[u] : watch[u][i].ex /\ watch[u][i].bad

NoSync(w) == w.chan.type # "sync" /\ w.next.type # "sync" /\ w.cur.type # "sync"

Rejected(u) ==
  BadVersion(u) => /\ run[u] = "none" /\ u \notin event
                   /\ ~wk[u].restart /\ NoSync(wk[u])
                   /\ ~cfg[u].ex => ~wk[u].known

ToCome(u) ==
  u \in hosted => /\ ~api[u].ex /\ ~cfg[u].ex /\ watch[u] = <<>>
                  /\ run[u] = "none" /\ u \notin event /\ ~wk[u].known

Stopped(u) ==
  /\ wk[u].known /\ wk[u].terminated => run[u] # "up"
  /\ ~wk[u].known /\ (synced \/ cfg[u].ex) => run[u] # "up"

Reported(u) == History(u) /\ Rejected(u) /\ ToCome(u) /\ Stopped(u)
ApiInv == \A u \in ApiPods : Reported(u)

LEMMA ApiInit == Init => ApiInv
<1>. SUFFICES ASSUME Init, NEW u \in ApiPods PROVE Reported(u)
  BY Zenon DEF ApiInv
<1>1. /\ u \in Pods /\ wk[u] = Unknown /\ run[u] = "none" /\ api[u] = Absent /\ cfg[u] = Absent
      /\ watch[u] = <<>> /\ event = {} /\ synced = FALSE
  BY Zenon DEF Init, WorkersInit, Pods
<1>. QED BY <1>1 DEF Reported, History, Rejected, ToCome, Stopped, BadVersion, Absent, Unknown

\* A pod of which nothing changes.
LEMMA SameReported ==
  ASSUME NEW u, Reported(u), wk'[u] = wk[u], run'[u] = run[u], api'[u] = api[u],
         cfg'[u] = cfg[u], watch'[u] = watch[u], u \in event' => u \in event,
         u \in hosted' => u \in hosted, synced' => synced
  PROVE  Reported(u)'
<1>1. History(u)'
  BY Zenon DEF Reported, History
<1>2. Rejected(u)'
  BY Zenon DEF Reported, Rejected, BadVersion
<1>3. ToCome(u)' /\ Stopped(u)'
  BY Zenon DEF Reported, ToCome, Stopped
<1>. QED BY <1>1, <1>2, <1>3, Zenon DEF Reported

\* A step of pod u's goroutine.
LEMMA OneReported ==
  ASSUME WorkerInv, ApiInv, NEW u \in Pods, NEW w, wk' = [wk EXCEPT ![u] = w],
         NEW c, run' = [run EXCEPT ![u] = c],
         event' = IF run[u] = c THEN event ELSE event \cup {u},
         UNCHANGED <<synced, api, cfg, watch, hosted>>,
         wk[u].known, w.known, u \in ApiPods /\ w.terminated => c # "up",
         w.restart = wk[u].restart,
         NoSync(wk[u]) => NoSync(w) /\ (run[u] = "none" => c = "none")
  PROVE  ApiInv'
<1>1. /\ \A v \in Pods \ {u} : wk'[v] = wk[v] /\ run'[v] = run[v] /\ (v \in event' => v \in event)
      /\ wk'[u] = w /\ run'[u] = c
  BY Zenon DEF WorkerInv, TypeOK
<1>2. \A v \in ApiPods \ {u} : Reported(v)'
  BY <1>1, SameReported, Zenon DEF ApiInv, Pods
<1>3. ASSUME u \in ApiPods, Reported(u) PROVE Reported(u)'
  <2>1. History(u)' /\ (BadVersion(u)' <=> BadVersion(u))
    BY <1>3, Zenon DEF Reported, History, BadVersion
  <2>2. Rejected(u)'
    BY <1>1, <1>3, <2>1, Zenon DEF Reported, Rejected
  <2>3. ToCome(u)' /\ Stopped(u)'
    BY <1>1, <1>3, Zenon DEF Reported, ToCome, Stopped
  <2>. QED BY <2>1, <2>2, <2>3, Zenon DEF Reported
<1>. QED BY <1>2, <1>3, Zenon DEF ApiInv

LEMMA WorkerStepReported ==
  ASSUME WorkerInv, ApiInv, NEW u \in Pods, WorkerStep(u) \/ RuntimeError(u)
  PROVE  ApiInv'
<1>0. /\ TypeOK /\ wk \in [Pods -> Worker] /\ wk[u] \in Worker /\ Sound(wk[u])
      /\ run \in [Pods -> {"none", "up", "ok", "bad"}]
      /\ run = [run EXCEPT ![u] = run[u]]
  BY Zenon DEF WorkerInv, TypeOK
<1>a. wk[u].pc = "run" => wk[u].known /\ wk[u].chan = NoWork
  BY <1>0, Zenon DEF Sound
<1>b. NoWork.type # "sync"
  BY Zenon DEF NoWork
<1>c. u \in ApiPods /\ wk[u].known /\ wk[u].terminated => run[u] # "up"
  BY Zenon DEF ApiInv, Reported, Stopped
<1>1. CASE managePodLoop(u)
  <2> DEFINE b == wk[u].chan.type = "sync" /\ Terminal(generateAPIPodStatus(u, wk[u].chan.ph))
             w == [Takes(wk[u]) EXCEPT !.isTerminal = b]
  <2>1. /\ wk[u].chan # NoWork /\ wk' = [wk EXCEPT ![u] = w]
        /\ UNCHANGED <<run, event, synced, api, cfg, watch, hosted>>
    BY <1>1, Zenon DEF managePodLoop, allowPodStart, sourceVars
  <2>2. /\ w.known /\ w.terminated = wk[u].terminated /\ w.restart = wk[u].restart
        /\ w.chan = NoWork /\ w.next = wk[u].next /\ w.cur = wk[u].chan
    <3>1. b \in BOOLEAN
      BY Zenon
    <3>. HIDE DEF b
    <3>. QED BY <1>0, <2>1, <3>1, TakesSound
  <2>3. wk[u].known
    BY <1>0, <2>1 DEF Sound, Unknown
  <2>. HIDE DEF w
  <2>4. NoSync(wk[u]) => NoSync(w)
    BY <1>b, <2>2, Zenon DEF NoSync
  <2>. QED BY <1>0, <1>c, <2>1, <2>2, <2>3, <2>4, OneReported, Zenon
<1>2. CASE Unstarted(u)
  <2>1. /\ wk[u].chan # NoWork /\ u \in StaticPods
        /\ UNCHANGED <<run, event, synced, api, cfg, watch, hosted>>
        /\ \A v \in Pods \ {u} : wk'[v] = wk[v]
    BY <1>0, <1>2, Zenon
    DEF Unstarted, completeUnstartedTerminated, CannotStartYet, sourceVars, Static
  <2>2. u \notin ApiPods
    BY <2>1, PodsAssumption, Zenon
  <2>. QED BY <2>1, <2>2, SameReported, Zenon DEF ApiInv, Pods
<1>3. ASSUME wk[u].pc = "run", NEW c, SetRun(u, c),
             \/ wk' = [wk EXCEPT ![u] = Returned(wk[u])]
             \/ wk' = [wk EXCEPT ![u] = completeSync(wk[u])],
             c # "up" \/ c = run[u] \/ ~wk[u].terminated,
             wk[u].cur.type # "sync" /\ run[u] = "none" => c = "none",
             UNCHANGED <<synced, api, cfg, watch, hosted>>
      PROVE  ApiInv'
  <2>1. PICK w \in {Returned(wk[u]), completeSync(wk[u])} : wk' = [wk EXCEPT ![u] = w]
    BY <1>3, Zenon
  <2>2. /\ w.known = wk[u].known /\ w.terminated = wk[u].terminated /\ w.restart = wk[u].restart
        /\ w.chan = wk[u].chan /\ w.cur = NoWork
        /\ w.next.type = "terminating" \/ w.next = wk[u].next
    BY <1>0, CompletedFields
  <2>3. NoSync(wk[u]) => NoSync(w) /\ (run[u] = "none" => c = "none")
    BY <1>b, <1>3, <2>2, Zenon DEF NoSync
  <2>4. u \in ApiPods /\ w.terminated => c # "up"
    BY <1>a, <1>c, <1>3, <2>2, Zenon
  <2>. QED BY <1>a, <1>3, <2>1, <2>2, <2>3, <2>4, OneReported, Zenon DEF SetRun
<1>4. CASE syncPodTerminal(u) \/ syncPodCanceled(u)
  <2>1. SetRun(u, run[u]) /\ wk[u].pc = "run"
    BY <1>0, <1>4, Zenon DEF syncPodTerminal, syncPodCanceled, Running, SetRun
  <2>. QED BY <1>3, <1>4, <2>1, Zenon DEF syncPodTerminal, syncPodCanceled, sourceVars
<1>5. CASE syncPod(u)
  <2>1. wk[u].pc = "run" /\ wk[u].cur.type = "sync"
    BY <1>5, Zenon DEF syncPod, Running
  <2>2. ~wk[u].terminated
    BY <1>0, <2>1, Zenon DEF Sound, Cleanup
  <2>. QED BY <1>3, <1>5, <2>1, <2>2, Zenon DEF syncPod, sourceVars
<1>6. CASE RuntimeError(u)
  <2>1. PICK c \in {run[u]} \cup (IF wk[u].cur.type = "sync" THEN {Synced(u)} ELSE Killed(u)) :
          SetRun(u, c)
    BY <1>6, Zenon DEF RuntimeError
  <2>2. wk[u].cur.type = "sync" => ~wk[u].terminated
    BY <1>0, Zenon DEF Sound, Cleanup
  <2>3. c # "up" \/ c = run[u] \/ ~wk[u].terminated
    BY <1>0, <2>1, <2>2, RunValues, Zenon
  <2>4. wk[u].cur.type # "sync" /\ run[u] = "none" => c = "none"
    BY <2>1, Zenon DEF Killed
  <2>. QED BY <1>3, <1>6, <2>1, <2>3, <2>4, Zenon DEF RuntimeError, sourceVars
<1>7. CASE syncTerminatingPod(u)
  <2>1. PICK c \in Killed(u) : SetRun(u, c)
    BY <1>7, Zenon DEF syncTerminatingPod
  <2>2. PICK w \in {completeTerminating(wk[u]), Finished(wk[u])} : wk' = [wk EXCEPT ![u] = w]
    BY <1>7, Zenon DEF syncTerminatingPod, completeTerminated
  <2>3. wk[u].pc = "run" /\ UNCHANGED <<synced, api, cfg, watch, hosted>>
    BY <1>7, Zenon DEF syncTerminatingPod, Running, completeTerminated, sourceVars
  <2>4. /\ w.known /\ w.restart = wk[u].restart
        /\ w.chan = NoWork /\ w.cur = NoWork /\ (w.next.type = "terminated" \/ w.next = NoWork)
    BY <1>0, <1>a, <2>2, <2>3, CompletedFields, FinishedSound
  <2>5. c # "up" /\ (run[u] = "none" => c = "none")
    BY <1>0, <2>1, RunValues, Zenon DEF Killed
  <2>6. NoSync(w)
    BY <1>b, <2>4, Zenon DEF NoSync
  <2>. QED BY <1>a, <2>1, <2>2, <2>3, <2>4, <2>5, <2>6, OneReported, Zenon DEF SetRun
<1>8. CASE syncTerminatedPod(u)
  <2> DEFINE w == Finished(wk[u])
  <2>1. /\ wk[u].known /\ wk' = [wk EXCEPT ![u] = w] /\ SetRun(u, "none")
        /\ UNCHANGED <<synced, api, cfg, watch, hosted>>
    BY <1>a, <1>8, Zenon DEF syncTerminatedPod, Running, completeTerminated, sourceVars
  <2>2. /\ w.known /\ w.restart = wk[u].restart
        /\ w.chan = NoWork /\ w.next = NoWork /\ w.cur = NoWork
    BY <1>0, <2>1, FinishedSound, Zenon
  <2>. HIDE DEF w
  <2>3. NoSync(w)
    BY <1>b, <2>2, Zenon DEF NoSync
  <2>. QED BY <2>1, <2>2, <2>3, OneReported, Zenon DEF SetRun
<1>9. CASE Completes(u)
  <2> DEFINE w == completeWorkQueueNext(wk[u])
  <2>1. /\ wk[u].pc = "complete" /\ wk' = [wk EXCEPT ![u] = w]
        /\ UNCHANGED <<run, event, synced, api, cfg, watch, hosted>>
    BY <1>9, Zenon DEF Completes, completeWork, sourceVars
  <2>2. /\ w.known = wk[u].known /\ w.terminated = wk[u].terminated /\ w.restart = wk[u].restart
        /\ w.chan = wk[u].next /\ w.next = NoWork /\ w.cur = wk[u].cur
    BY <1>0, <2>1, QueueNextSound, Zenon
  <2>3. wk[u].known
    BY <1>0, <2>1, Zenon DEF Sound
  <2>. HIDE DEF w
  <2>4. NoSync(wk[u]) => NoSync(w)
    BY <1>b, <2>2, Zenon DEF NoSync
  <2>. QED BY <1>0, <1>c, <2>1, <2>2, <2>3, <2>4, OneReported, Zenon
<1>. QED BY <1>1, <1>2, <1>4, <1>5, <1>6, <1>7, <1>8, <1>9, Zenon DEF WorkerStep

\* What UpdatePod leaves of a pod of which Stopped and Rejected speak.
LEMMA UpdateReported ==
  ASSUME WorkerInv, NEW u \in Pods, NEW w \in Worker, Sound(w), NEW o \in Options,
         w.known /\ w.terminated => run[u] # "up"
  PROVE  LET v == UpdatePod(u, w, o) IN
         /\ v.known /\ (v.terminated => run[u] # "up")
         /\ (o.del \/ o.kind = "kill") /\ o.kind # "create" /\ NoSync(w) /\ ~w.restart
              => NoSync(v) /\ ~v.restart
<1> DEFINE w0 == IF w.known THEN w ELSE FirstSeen(u, o)
           v == UpdatePod(u, w, o)
<1>1. PICK work \in PodWork : Keeps(v, w0, work) /\ (o.del \/ o.kind = "kill" => work.type # "sync")
  BY UpdatePodSound, Zenon
<1>2. o.kind # "create" => v.restart = w0.restart
  BY UpdatePodSound, Zenon
<1>3. ~w.known => /\ w0.chan = NoWork /\ w0.next = NoWork /\ w0.cur = NoWork /\ ~w0.restart
                  /\ w0.terminated => run[u] # "up"
  BY FirstSeenSound
<1>4. w.known => w0 = w
  BY Zenon
<1>. HIDE DEF w0, v
<1>5. v.known /\ (v.terminated => run[u] # "up")
  BY <1>1, <1>3, <1>4, Zenon DEF Keeps
<1>6. ASSUME o.del \/ o.kind = "kill", o.kind # "create", NoSync(w), ~w.restart
      PROVE  NoSync(v) /\ ~v.restart
  <2>1. NoSync(w0) /\ ~w0.restart
    BY <1>3, <1>4, <1>6 DEF NoSync, NoWork
  <2>. QED BY <1>1, <1>2, <1>6, <2>1, Zenon DEF Keeps, NoSync
<1>. QED BY <1>5, <1>6, Zenon DEF v

LEMMA AppendList ==
  ASSUME NEW S, NEW q \in Seq(S), NEW e \in S
  PROVE  /\ Len(q) \in Nat /\ DOMAIN q = 1 .. Len(q)
         /\ DOMAIN Append(q, e) = 1 .. Len(q) + 1
         /\ Append(q, e)[Len(q) + 1] = e
         /\ \A i \in 1 .. Len(q) : Append(q, e)[i] = q[i]
OBVIOUS

\* A new version in the API server, of a pod that exists there.
LEMMA VersionReported ==
  ASSUME WorkerInv, ApiInv, NEW u \in ApiPods, NEW v \in Version, api[u].ex,
         v.ex => v.bad = api[u].bad /\ (api[u].del => v.del),
         api' = [api EXCEPT ![u] = v],
         watch' = [watch EXCEPT ![u] = Append(watch[u], v)] \/ (watch' = watch /\ v = api[u]),
         UNCHANGED <<wk, run, cfg, event, hosted, synced>>
  PROVE  ApiInv'
<1>0. /\ u \in Pods /\ api \in [Pods -> Version] /\ watch \in [Pods -> Seq(Version)] /\ Reported(u)
      /\ watch[u] \in Seq(Version)
  BY Zenon DEF WorkerInv, TypeOK, Pods, ApiInv
<1>1. /\ api'[u] = v
      /\ \A x \in Pods \ {u} : api'[x] = api[x] /\ watch'[x] = watch[x]
  BY <1>0, Zenon
<1>2. \A x \in ApiPods \ {u} : Reported(x)'
  BY <1>1, SameReported, Zenon DEF ApiInv, Pods
<1> DEFINE q == watch[u]
           n == Len(q)
<1>3. /\ n \in Nat /\ DOMAIN q = 1 .. n
      /\ \/ /\ DOMAIN watch'[u] = 1 .. n + 1
            /\ watch'[u][n + 1] = v
            /\ \A i \in 1 .. n : watch'[u][i] = q[i]
         \/ watch'[u] = q /\ v = api[u]
  <2>1. /\ n \in Nat /\ DOMAIN q = 1 .. n
        /\ DOMAIN Append(q, v) = 1 .. n + 1
        /\ Append(q, v)[n + 1] = v
        /\ \A i \in 1 .. n : Append(q, v)[i] = q[i]
    BY <1>0, AppendList
  <2>2. watch'[u] = Append(q, v) \/ (watch'[u] = q /\ v = api[u])
    BY <1>0, Zenon
  <2>. HIDE DEF q, n
  <2>. QED BY <2>1, <2>2, Zenon
<1>4. Follows(api[u], v)
  BY Zenon DEF Follows
<1>5. \A x : Follows(x, api[u]) => Follows(x, v)
  BY <1>4, Zenon DEF Follows
<1>6. \A i, j \in DOMAIN q : i < j => Follows(q[i], q[j])
  BY <1>0, Zenon DEF Reported, History
<1>7. \A i \in DOMAIN q : Follows(q[i], v)
  BY <1>0, <1>5, Zenon DEF Reported, History
<1>8. cfg[u].ex => Follows(cfg[u], v) /\ \A i \in DOMAIN q : Follows(cfg[u], q[i])
  BY <1>0, <1>5, Zenon DEF Reported, History
<1>. HIDE DEF q, n
<1>9. Follows(v, v)
  BY Zenon DEF Follows
<1>10. History(u)'
  <2>1. CASE watch'[u] = q
    BY <1>1, <1>6, <1>7, <1>8, <2>1, Zenon DEF History
  <2>2. CASE /\ DOMAIN watch'[u] = 1 .. n + 1
             /\ watch'[u][n + 1] = v
             /\ \A i \in 1 .. n : watch'[u][i] = q[i]
    <3>1. \A i, j \in DOMAIN watch'[u] : i < j => Follows(watch'[u][i], watch'[u][j])
      BY <1>3, <1>6, <1>7, <2>2
    <3>2. \A i \in DOMAIN watch'[u] : Follows(watch'[u][i], v)
      BY <1>3, <1>7, <1>9, <2>2
    <3>3. cfg[u].ex => \A i \in DOMAIN watch'[u] : Follows(cfg[u], watch'[u][i])
      BY <1>3, <1>8, <2>2
    <3>. QED BY <1>1, <1>8, <3>1, <3>2, <3>3, Zenon DEF History
  <2>. QED BY <1>3, <2>1, <2>2, Zenon
<1>11. BadVersion(u)' => BadVersion(u)
  <2>1. \A i \in DOMAIN watch'[u] : watch'[u][i] = v \/ \E j \in DOMAIN q : watch'[u][i] = q[j]
    BY <1>3
  <2>2. v.ex /\ v.bad => BadVersion(u)
    BY Zenon DEF BadVersion
  <2>3. \A j \in DOMAIN q : q[j].ex /\ q[j].bad => BadVersion(u)
    BY Zenon DEF BadVersion, q
  <2>4. cfg[u].ex /\ cfg[u].bad => BadVersion(u)
    BY Zenon DEF BadVersion
  <2>. QED BY <1>1, <2>1, <2>2, <2>3, <2>4, Zenon DEF BadVersion
<1>12. Rejected(u)'
  BY <1>0, <1>11, Zenon DEF Reported, Rejected
<1>13. ToCome(u)' /\ Stopped(u)'
  BY <1>0, Zenon DEF Reported, ToCome, Stopped
<1>. QED BY <1>2, <1>10, <1>12, <1>13, Zenon DEF ApiInv, Reported

\* The pod storage merges the next version of a pod.
LEMMA MergeReported ==
  ASSUME WorkerInv, ApiInv, NEW u \in Pods, Merge(u)
  PROVE  ApiInv'
<1> DEFINE v == Head(watch[u])
           rest == Tail(watch[u])
<1>0. /\ wk \in [Pods -> Worker] /\ wk[u] \in Worker /\ Sound(wk[u])
      /\ cfg \in [Pods -> Version] /\ watch \in [Pods -> Seq(Version)]
      /\ watch[u] \in Seq(Version) /\ watch[u] # <<>>
  BY Zenon DEF WorkerInv, TypeOK, Merge
<1>1. /\ watch' = [watch EXCEPT ![u] = rest] /\ UNCHANGED <<run, hosted, api, event>>
      /\ \/ v.ex /\ ~cfg[u].ex /\ HandlePodAdditions(u, v)
         \/ ~v.ex /\ cfg[u].ex /\ HandlePodRemoves(u)
         \/ v.ex /\ cfg[u].ex /\ v.del # cfg[u].del /\ HandlePodUpdates(u, v)
         \/ v.ex = cfg[u].ex /\ v.del = cfg[u].del /\ HandlePodReconcile(u, v)
  BY Zenon DEF Merge
<1>2. /\ v \in Version /\ v = watch[u][1] /\ 1 \in DOMAIN watch[u]
      /\ \A i \in DOMAIN rest : i + 1 \in DOMAIN watch[u] /\ 1 < i + 1 /\ rest[i] = watch[u][i + 1]
      /\ \A i, j \in DOMAIN rest : i < j => i + 1 < j + 1
  BY <1>0
<1>. HIDE DEF v, rest
<1>3. \E x \in {v, Absent} : cfg' = [cfg EXCEPT ![u] = x]
  BY <1>1, Zenon DEF HandlePodAdditions, HandlePodRemoves, HandlePodUpdates, HandlePodReconcile
<1>4. UNCHANGED synced /\ \A x \in Pods \ {u} : wk'[x] = wk[x] /\ cfg'[x] = cfg[x]
                                                /\ watch'[x] = watch[x]
  BY <1>0, <1>1, <1>3, Zenon DEF HandlePodAdditions, HandlePodRemoves, HandlePodUpdates,
                          HandlePodReconcile, CallUpdatePod, workerVars
<1>5. \A x \in ApiPods \ {u} : Reported(x)'
  BY <1>1, <1>4, SameReported, Zenon DEF ApiInv, Pods
<1>6. ASSUME u \in ApiPods PROVE Reported(u)'
  <2>0. History(u) /\ Rejected(u) /\ ToCome(u) /\ Stopped(u)
    BY <1>6, Zenon DEF ApiInv, Reported
  <2>1. /\ watch'[u] = rest /\ api'[u] = api[u] /\ run'[u] = run[u]
        /\ (cfg'[u].ex => cfg'[u] = v) /\ (~v.ex => ~cfg'[u].ex)
    BY <1>0, <1>1, <1>3 DEF Absent
  <2>2. /\ \A i \in DOMAIN rest : Follows(v, rest[i]) /\ Follows(rest[i], api[u])
        /\ \A i, j \in DOMAIN rest : i < j => Follows(rest[i], rest[j])
        /\ Follows(v, api[u])
        /\ cfg[u].ex => Follows(cfg[u], v)
    BY <1>2, <2>0, Zenon DEF History
  <2>3. History(u)'
    BY <2>1, <2>2, Zenon DEF History
  <2>4. ToCome(u)'
    BY <1>0, <1>1, <2>0, Zenon DEF ToCome
  <2>5. BadVersion(u)' => v.ex /\ v.bad /\ BadVersion(u)
    <3>1. BadVersion(u)' => v.ex /\ v.bad
      BY <2>1, <2>2, Zenon DEF BadVersion, Follows
    <3>2. v.ex /\ v.bad => BadVersion(u)
      BY <1>2, Zenon DEF BadVersion
    <3>. QED BY <3>1, <3>2, Zenon
  <2>6. v.ex /\ v.bad => BadVersion(u)
    BY <1>2, Zenon DEF BadVersion
  <2>7. wk[u].terminating => wk[u].known
    BY <1>0 DEF Sound, Unknown
  <2>8. CASE v.ex /\ ~cfg[u].ex /\ HandlePodAdditions(u, v) /\ v.bad
    <3>1. run[u] = "none" /\ ~wk[u].known
      BY <2>0, <2>6, <2>8, Zenon DEF Rejected
    <3>2. wk' = wk /\ cfg'[u] = v
      BY <1>0, <2>7, <2>8, <3>1, Zenon DEF HandlePodAdditions, workerVars
    <3>3. Rejected(u)'
      BY <1>1, <2>0, <2>5, <2>8, <3>2, Zenon DEF Rejected
    <3>4. Stopped(u)'
      BY <2>1, <3>1, <3>2, Zenon DEF Stopped
    <3>. QED BY <2>3, <2>4, <3>3, <3>4, Zenon DEF Reported
  <2>9. CASE v.ex = cfg[u].ex /\ v.del = cfg[u].del /\ HandlePodReconcile(u, v)
    <3>1. wk' = wk /\ cfg'[u] = v
      BY <1>0, <2>9, Zenon DEF HandlePodReconcile, workerVars
    <3>2. Rejected(u)'
      BY <1>1, <2>0, <2>5, <2>9, <3>1, Zenon DEF Rejected
    <3>3. Stopped(u)'
      BY <1>4, <2>0, <2>1, <2>9, <3>1, Zenon DEF Stopped
    <3>. QED BY <2>3, <2>4, <3>2, <3>3, Zenon DEF Reported
  <2>10. ASSUME NEW o \in Options, CallUpdatePod(u, o),
                BadVersion(u)' => o.del /\ o.kind = "update" /\ cfg'[u].ex
         PROVE  Reported(u)'
    <3> DEFINE w == UpdatePod(u, wk[u], o)
    <3>1. wk'[u] = w
      BY <1>0, <2>10, Zenon DEF CallUpdatePod
    <3>2. /\ w.known /\ (w.terminated => run[u] # "up")
          /\ o.del /\ o.kind = "update" /\ NoSync(wk[u]) /\ ~wk[u].restart => NoSync(w) /\ ~w.restart
      BY <1>0, <2>0, UpdateReported, Zenon DEF Stopped
    <3>. HIDE DEF w
    <3>3. Stopped(u)'
      BY <2>1, <3>1, <3>2, Zenon DEF Stopped
    <3>4. Rejected(u)'
      BY <1>1, <2>0, <2>1, <2>5, <2>10, <3>1, <3>2, Zenon DEF Rejected
    <3>. QED BY <2>3, <2>4, <3>3, <3>4, Zenon DEF Reported
  <2>11. CASE v.ex /\ ~cfg[u].ex /\ HandlePodAdditions(u, v) /\ ~v.bad
    <3>1. CallUpdatePod(u, Opt("create", v)) /\ Opt("create", v) \in Options
      BY <1>2, <2>11, OptType, Zenon DEF HandlePodAdditions
    <3>. QED BY <2>5, <2>10, <2>11, <3>1, Zenon
  <2>12. CASE ~v.ex /\ cfg[u].ex /\ HandlePodRemoves(u)
    <3>1. CallUpdatePod(u, Opt("kill", cfg[u])) /\ Opt("kill", cfg[u]) \in Options
      BY <1>0, <2>12, OptType, Zenon DEF HandlePodRemoves
    <3>. QED BY <2>5, <2>10, <2>12, <3>1, Zenon
  <2>13. CASE v.ex /\ cfg[u].ex /\ v.del # cfg[u].del /\ HandlePodUpdates(u, v)
    <3>1. CallUpdatePod(u, Opt("update", v)) /\ Opt("update", v) \in Options
      BY <1>2, <2>13, OptType, Zenon DEF HandlePodUpdates
    <3>2. cfg'[u] = v
      BY <1>0, <2>13, Zenon DEF HandlePodUpdates
    <3>3. v.del
      BY <1>0, <1>2, <2>2, <2>13, Zenon DEF Follows, Version
    <3>4. Opt("update", v).del /\ Opt("update", v).kind = "update"
      BY <3>3, Zenon DEF Opt
    <3>. QED BY <2>10, <2>13, <3>1, <3>2, <3>4, Zenon
  <2>. QED BY <1>1, <2>8, <2>9, <2>11, <2>12, <2>13, Zenon
<1>. QED BY <1>5, <1>6, Zenon DEF ApiInv

\* Housekeeping forgets only workers of pods that are over, and once it has run
\* a pod without a worker does not run.
LEMMA CleanupsReported ==
  ASSUME WorkerInv, ApiInv, HandlePodCleanups
  PROVE  ApiInv'
<1>. SUFFICES ASSUME NEW u \in ApiPods PROVE Reported(u)'
  BY Zenon DEF ApiInv
<1> DEFINE w == IF Forgotten(wk[u], cfg[u].ex) THEN Unknown ELSE wk[u]
<1>0. /\ u \in Pods /\ wk[u] \in Worker /\ Sound(wk[u]) /\ (~wk[u].known => wk[u] = Unknown)
      /\ History(u) /\ Rejected(u) /\ ToCome(u) /\ Stopped(u)
  BY Zenon DEF WorkerInv, TypeOK, Pods, ApiInv, Reported, Sound
<1>1. UNCHANGED <<run, event, api, cfg, watch, hosted>>
  BY Zenon DEF HandlePodCleanups, sourceVars
<1>2. w \in Worker /\ Sound(w)
  BY <1>0, ConstantTypes, UnknownSound, Zenon
<1>3. ~Unknown.known /\ ~Unknown.restart /\ NoSync(Unknown)
  BY Zenon DEF Unknown, NoSync, NoWork
<1>4. /\ w = wk[u] \/ (w = Unknown /\ wk[u].known /\ wk[u].terminated)
      /\ w.known /\ w.terminated => run[u] # "up"
  BY <1>0, <1>3, Zenon DEF Forgotten, Sound, Stopped
<1>5. \/ wk'[u] = w /\ ~(run[u] = "up" /\ ~cfg[u].ex /\ ~(wk[u].known /\ ~wk[u].terminated))
      \/ \E o \in Options : /\ wk'[u] = UpdatePod(u, w, o)
                            /\ o.runtime => run[u] = "up"
                            /\ ~o.runtime => wk[u].restart
  BY <1>0, CleanupsSound, Zenon
<1>. HIDE DEF w
<1>6. History(u)' /\ (BadVersion(u)' <=> BadVersion(u))
  BY <1>0, <1>1, Zenon DEF History, BadVersion
<1>7. run[u] = "none" /\ ~wk[u].restart => wk'[u] = w
  BY <1>5, Zenon
<1>8. Rejected(u)'
  BY <1>0, <1>1, <1>3, <1>4, <1>6, <1>7, Zenon DEF Rejected
<1>9. ToCome(u)'
  BY <1>0, <1>1, <1>3, <1>4, <1>7, Zenon DEF ToCome
<1>10. Stopped(u)'
  <2>1. CASE wk'[u] = w /\ ~(run[u] = "up" /\ ~cfg[u].ex /\ ~(wk[u].known /\ ~wk[u].terminated))
    BY <1>0, <1>1, <1>3, <1>4, <2>1, Zenon DEF Stopped
  <2>2. ASSUME NEW o \in Options, wk'[u] = UpdatePod(u, w, o) PROVE Stopped(u)'
    <3>1. wk'[u].known /\ (wk'[u].terminated => run[u] # "up")
      BY <1>0, <1>2, <1>4, <2>2, UpdateReported, Zenon
    <3>. QED BY <1>1, <3>1, Zenon DEF Stopped
  <2>. QED BY <1>5, <2>1, <2>2, Zenon
<1>. QED BY <1>6, <1>8, <1>9, <1>10, Zenon DEF Reported

\* The agent restarts and its informer lists what the API server has.
LEMMA RestartReported ==
  ASSUME WorkerInv, ApiInv, Restart
  PROVE  ApiInv'
<1>. SUFFICES ASSUME NEW u \in ApiPods PROVE Reported(u)'
  BY Zenon DEF ApiInv
<1>0. u \in Pods /\ History(u) /\ Rejected(u) /\ ToCome(u)
  BY Zenon DEF Pods, ApiInv, Reported
<1>1. /\ wk'[u] = Unknown /\ cfg'[u] = Absent /\ synced' = FALSE
      /\ watch'[u] = IF api[u].ex THEN <<api[u]>> ELSE <<>>
      /\ event' = {x \in Pods : run[x] # "none"} /\ UNCHANGED <<run, hosted, api>>
  BY <1>0, Zenon DEF Restart
<1>2. \A i \in DOMAIN watch'[u] : api[u].ex /\ watch'[u][i] = api[u] /\ i = 1
  BY <1>1
<1>3. History(u)'
  BY <1>1, <1>2, SMTT(30) DEF History, Follows, Absent
<1>4. BadVersion(u)' => BadVersion(u)
  BY <1>1, <1>2, SMTT(30) DEF BadVersion, Absent
<1>5. Rejected(u)'
  BY <1>0, <1>1, <1>4, SMTT(30) DEF Rejected, NoSync, Unknown, NoWork
<1>6. ToCome(u)'
  BY <1>0, <1>1, SMTT(30) DEF ToCome, Unknown, Absent
<1>7. Stopped(u)'
  BY <1>1, SMTT(30) DEF Stopped, Unknown, Absent
<1>. QED BY <1>3, <1>5, <1>6, <1>7, Zenon DEF Reported

\* A pod appears in the API server.
LEMMA CreateReported ==
  ASSUME WorkerInv, ApiInv, NEW u \in Pods, CreatePod(u)
  PROVE  ApiInv'
<1>1. PICK bad \in BOOLEAN : SetApi(u, [Present EXCEPT !.bad = bad])
  BY Zenon DEF CreatePod
<1> DEFINE v == [Present EXCEPT !.bad = bad]
<1>2. /\ u \in ApiPods /\ u \in hosted /\ hosted' = hosted \ {u}
      /\ api' = [api EXCEPT ![u] = v] /\ watch' = [watch EXCEPT ![u] = Append(watch[u], v)]
      /\ UNCHANGED <<wk, run, cfg, event, synced>>
  BY <1>1, Zenon DEF CreatePod, SetApi, workerVars
<1>. HIDE DEF v
<1>3. /\ api \in [Pods -> Version] /\ watch \in [Pods -> Seq(Version)] /\ Sound(wk[u])
      /\ ToCome(u) /\ Stopped(u)
  BY <1>2, Zenon DEF WorkerInv, TypeOK, ApiInv, Reported
<1>4. /\ ~cfg[u].ex /\ watch[u] = <<>> /\ run[u] = "none" /\ u \notin event /\ wk[u] = Unknown
  BY <1>2, <1>3, Zenon DEF ToCome, Sound
<1>5. api'[u] = v /\ watch'[u] = <<v>>
  BY <1>2, <1>3, <1>4
<1>6. \A x \in ApiPods \ {u} : Reported(x)'
  BY <1>2, <1>3, SameReported, Zenon DEF ApiInv, Pods
<1>7. \A i \in DOMAIN watch'[u] : watch'[u][i] = v /\ i = 1
  BY <1>5, SMTT(30)
<1>8. History(u)'
  BY <1>2, <1>4, <1>5, <1>7 DEF History, Follows
<1>9. Rejected(u)'
  BY <1>2, <1>4, SMTT(30) DEF Rejected, NoSync, Unknown, NoWork
<1>10. ToCome(u)' /\ Stopped(u)'
  BY <1>2, <1>3, <1>4, Zenon DEF ToCome, Stopped
<1>. QED BY <1>6, <1>8, <1>9, <1>10, Zenon DEF ApiInv, Reported

LEMMA OutsideReported ==
  ASSUME WorkerInv, ApiInv, Outside
  PROVE  ApiInv'
<1>0. /\ wk \in [Pods -> Worker] /\ api \in [Pods -> Version] /\ cfg \in [Pods -> Version]
      /\ watch \in [Pods -> Seq(Version)] /\ run \in [Pods -> {"none", "up", "ok", "bad"}]
      /\ TypeOK
  BY Zenon DEF WorkerInv, TypeOK
<1>1. ASSUME NEW u \in Pods, syncStatus(u) PROVE ApiInv'
  <2> DEFINE sent == [api[u] EXCEPT !.ph = mergePodStatus(u)]
             new == IF api[u].del /\ PodResourcesAreReclaimed(u) THEN Absent ELSE sent
  <2>1. /\ u \in ApiPods /\ api[u].ex /\ api' = [api EXCEPT ![u] = new]
        /\ watch' = IF new = api[u] THEN watch ELSE [watch EXCEPT ![u] = Append(watch[u], new)]
        /\ UNCHANGED <<wk, run, cfg, event, hosted, synced>>
    BY <1>0, <1>1, Zenon DEF syncStatus, workerVars
  <2>2. new \in Version /\ (new.ex => new.bad = api[u].bad /\ new.del = api[u].del)
    <3>1. mergePodStatus(u) \in Phases
      BY <1>0, PhaseType, Zenon DEF Phases
    <3>2. sent \in Version /\ sent.bad = api[u].bad /\ sent.del = api[u].del
      BY <1>0, <3>1, VersionMade, Zenon
    <3>. QED BY <3>2, ConstantTypes, Zenon DEF Absent
  <2>. HIDE DEF new
  <2>. QED BY <2>1, <2>2, VersionReported, Zenon
<1>2. ASSUME NEW u \in Pods, DeletePod(u) \/ RemovePod(u) PROVE ApiInv'
  <2>1. PICK v \in {[api[u] EXCEPT !.del = TRUE], Absent} : SetApi(u, v)
    BY <1>2, Zenon DEF DeletePod, RemovePod
  <2>2. /\ api[u].ex /\ api' = [api EXCEPT ![u] = v]
        /\ watch' = [watch EXCEPT ![u] = Append(watch[u], v)]
        /\ UNCHANGED <<wk, run, cfg, event, hosted, synced>>
    BY <1>0, <1>2, <2>1, Zenon DEF DeletePod, RemovePod, SetApi, workerVars
  <2>3. v \in Version /\ (v.ex => v.bad = api[u].bad /\ (api[u].del => v.del))
    <3>1. CASE v = [api[u] EXCEPT !.del = TRUE]
      BY <1>0, <3>1, VersionMade, Zenon
    <3>2. CASE v = Absent
      BY <3>2, ConstantTypes, Zenon DEF Absent
    <3>. QED BY <2>1, <3>1, <3>2, Zenon
  <2>4. CASE u \in ApiPods
    BY <2>2, <2>3, <2>4, VersionReported, Zenon
  <2>5. CASE u \notin ApiPods
    <3>1. \A x \in ApiPods : api'[x] = api[x] /\ watch'[x] = watch[x]
      BY <1>0, <2>2, <2>5, Zenon DEF Pods
    <3>. QED BY <2>2, <3>1, SameReported, Zenon DEF ApiInv
  <2>. QED BY <2>4, <2>5, Zenon
<1>3. ASSUME NEW u \in Pods, HandlePodSyncByUID(u) PROVE ApiInv'
  <2>1. /\ u \in event /\ event' = event \ {u} /\ UNCHANGED <<run, api, cfg, watch, hosted, synced>>
        /\ CallUpdatePod(u, Opt("sync", cfg[u])) \/ UNCHANGED wk
        /\ \A x \in Pods \ {u} : wk'[x] = wk[x]
    BY <1>0, <1>3, Zenon DEF HandlePodSyncByUID, CallUpdatePod, workerVars, sourceVars
  <2>2. \A x \in ApiPods \ {u} : Reported(x)'
    BY <2>1, SameReported, Zenon DEF ApiInv, Pods
  <2>3. ASSUME u \in ApiPods, CallUpdatePod(u, Opt("sync", cfg[u])) PROVE Reported(u)'
    <3>1. History(u) /\ ~BadVersion(u) /\ u \notin hosted /\ Stopped(u)
      BY <2>1, <2>3, Zenon DEF ApiInv, Reported, Rejected, ToCome
    <3>2. History(u)' /\ ~BadVersion(u)' /\ u \notin hosted'
      BY <2>1, <3>1, Zenon DEF History, BadVersion
    <3>3. wk[u] \in Worker /\ Sound(wk[u]) /\ wk'[u] = UpdatePod(u, wk[u], Opt("sync", cfg[u]))
      BY <1>0, <2>3, Zenon DEF WorkerInv, CallUpdatePod
    <3>4. Opt("sync", cfg[u]) \in Options
      BY <1>0, OptType, Zenon
    <3>5. wk'[u].known /\ (wk'[u].terminated => run[u] # "up")
      BY <3>1, <3>3, <3>4, UpdateReported, Zenon DEF Stopped
    <3>6. Stopped(u)'
      BY <2>1, <3>5, Zenon DEF Stopped
    <3>. QED BY <3>2, <3>6, Zenon DEF Reported, Rejected, ToCome
  <2>4. ASSUME u \in ApiPods, UNCHANGED wk PROVE Reported(u)'
    BY <2>1, <2>4, SameReported, Zenon DEF ApiInv
  <2>. QED BY <2>1, <2>2, <2>3, <2>4, Zenon DEF ApiInv
<1>4. ASSUME NEW u \in Pods, Exit(u) PROVE ApiInv'
  <2>1. /\ run[u] = "up" /\ run'[u] # "up" /\ UNCHANGED <<wk, api, cfg, watch, hosted, synced>>
        /\ \A x \in Pods \ {u} : run'[x] = run[x] /\ (x \in event' => x \in event)
    BY <1>0, <1>4, Zenon DEF Exit, SetRun, workerVars, sourceVars
  <2>2. \A x \in ApiPods \ {u} : Reported(x)'
    BY <2>1, SameReported, Zenon DEF ApiInv, Pods
  <2>3. ASSUME u \in ApiPods PROVE Reported(u)'
    <3>1. History(u) /\ ~BadVersion(u) /\ u \notin hosted
      BY <2>1, <2>3, Zenon DEF ApiInv, Reported, Rejected, ToCome
    <3>2. History(u)' /\ ~BadVersion(u)' /\ u \notin hosted'
      BY <2>1, <3>1, Zenon DEF History, BadVersion
    <3>. QED BY <2>1, <3>2, Zenon DEF Reported, Rejected, ToCome, Stopped
  <2>. QED BY <2>2, <2>3, Zenon DEF ApiInv
<1>5. ASSUME MergeFiles PROVE ApiInv'
  <2>1. PICK u \in StaticPods : HandlePodRemoves(u) \/ HandlePodAdditions(u, Present)
    BY <1>0, <1>5, Zenon DEF MergeFiles, TypeOK
  <2>2. u \notin ApiPods /\ u \in Pods
    BY PodsAssumption, Zenon DEF Pods
  <2>3. UNCHANGED synced /\ \A x \in ApiPods : wk'[x] = wk[x] /\ cfg'[x] = cfg[x]
    BY <1>0, <2>1, <2>2, Zenon
    DEF HandlePodRemoves, HandlePodAdditions, CallUpdatePod, workerVars, Pods
  <2>4. UNCHANGED <<run, api, watch, event, hosted>>
    BY <1>5, Zenon DEF MergeFiles, sourceVars
  <2>. QED BY <2>3, <2>4, SameReported, Zenon DEF ApiInv
<1>6. ASSUME WriteFiles PROVE ApiInv'
  <2>1. UNCHANGED <<wk, run, api, cfg, watch, event, hosted, synced>>
    BY <1>6, Zenon DEF WriteFiles, workerVars
  <2>. QED BY <2>1, SameReported, Zenon DEF ApiInv
<1>. QED BY Zenon, <1>1, <1>2, <1>3, <1>4, <1>5, <1>6, MergeReported, CreateReported,
            CleanupsReported, RestartReported DEF Outside

LEMMA ApiNext == WorkerInv /\ ApiInv /\ [Next]_vars => ApiInv'
<1>. SUFFICES ASSUME WorkerInv, ApiInv, [Next]_vars PROVE ApiInv'
  BY Zenon
<1>1. CASE UNCHANGED vars
  <2>1. UNCHANGED <<wk, run, api, cfg, watch, event, hosted, synced>>
    BY <1>1, Zenon DEF vars
  <2>. QED BY <2>1, SameReported, Zenon DEF ApiInv
<1>. QED BY <1>1, NextSplit, WorkerStepReported, OutsideReported, Zenon

LEMMA Invariants == Spec => [](WorkerInv /\ StaticInv /\ ApiInv)
BY WorkerInit, WorkerNext, StaticInit, StaticNext, ApiInit, ApiNext, PTL DEF Spec

LEMMA AnswerIsRight == WorkerInv /\ StaticInv /\ ApiInv => StoppedMeansStopped
<1>. SUFFICES ASSUME WorkerInv, StaticInv, ApiInv, NEW u \in Pods,
                     u \in ApiPods \/ restarts = 0, ~CouldHaveRunningContainers(u)
              PROVE  run[u] # "up"
  BY Zenon DEF StoppedMeansStopped
<1>1. CASE u \in ApiPods
  BY <1>1, Zenon DEF ApiInv, Reported, Stopped, CouldHaveRunningContainers
<1>2. CASE u \in StaticPods /\ restarts = 0
  BY <1>2, Zenon DEF StaticInv, Orderly, CouldHaveRunningContainers
<1>. QED BY <1>1, <1>2, Zenon DEF Pods

\* When CouldHaveRunningContainers says no, no container of the pod runs: for
\* any number of pods, restarts, runtime errors and undelivered versions.
THEOREM AnsweredStoppedIsStopped == Spec => []StoppedMeansStopped
BY Invariants, AnswerIsRight, PTL

\* The agent (syncPod of the status manager) removes a pod from the API server
\* only when no container of it runs.
THEOREM RemovedWhenStopped == Spec => RemovedOnceStopped
<1>1. ASSUME WorkerInv, StoppedMeansStopped, [Next]_vars, NEW u \in ApiPods,
             api[u].ex, ~api'[u].ex, removals' = removals
      PROVE  run[u] # "up"
  <2>0. u \in Pods /\ api \in [Pods -> Version] /\ removals \in Nat
    BY <1>1, Zenon DEF WorkerInv, TypeOK, Pods
  <2>1. \E v \in Pods : syncStatus(v) \/ CreatePod(v) \/ DeletePod(v)
    <3>1. api' # api
      BY <1>1, Zenon
    <3>2. \A v \in Pods : ~RemovePod(v)
      BY <1>1, <2>0 DEF RemovePod
    <3>3. \A v \in Pods : ~WorkerStep(v) /\ ~RuntimeError(v)
      BY <3>1, Zenon DEF WorkerStep, managePodLoop, Unstarted, syncPodTerminal, syncPod, syncPodCanceled,
                  syncTerminatingPod, syncTerminatedPod, Completes, RuntimeError, sourceVars
    <3>4. \A v \in Pods : ~Merge(v) /\ ~HandlePodSyncByUID(v) /\ ~Exit(v)
      BY <3>1, Zenon DEF Merge, HandlePodSyncByUID, Exit, sourceVars
    <3>5. ~MergeFiles /\ ~HandlePodCleanups /\ ~WriteFiles /\ ~Restart /\ ~UNCHANGED vars
      BY <3>1, Zenon DEF MergeFiles, HandlePodCleanups, WriteFiles, Restart, sourceVars, vars
    <3>. QED BY <1>1, <3>2, <3>3, <3>4, <3>5, NextSplit, Zenon DEF Outside
  <2>2. ASSUME NEW v \in Pods, CreatePod(v) \/ DeletePod(v) PROVE FALSE
    <3>1. PICK x : api' = [api EXCEPT ![v] = x] /\ x.ex
      <4>1. CASE CreatePod(v)
        <5>1. PICK bad \in BOOLEAN : SetApi(v, [Present EXCEPT !.bad = bad])
          BY <4>1, Zenon DEF CreatePod
        <5>2. [Present EXCEPT !.bad = bad].ex
          BY Zenon DEF Present, Absent
        <5>. QED BY <5>1, <5>2, Zenon DEF SetApi
      <4>2. CASE DeletePod(v)
        <5>1. [api[v] EXCEPT !.del = TRUE].ex
          BY <2>0, <4>2, Zenon DEF DeletePod, Version
        <5>. QED BY <4>2, <5>1, Zenon DEF DeletePod, SetApi
      <4>. QED BY <2>2, <4>1, <4>2, Zenon
    <3>. QED BY <1>1, <2>0, <3>1, Zenon
  <2>3. ASSUME NEW v \in Pods, syncStatus(v) PROVE run[u] # "up"
    <3>1. v = u /\ api[u].del /\ PodResourcesAreReclaimed(u)
      BY <1>1, <2>0, <2>3, Zenon DEF syncStatus, Version
    <3>. QED BY <1>1, <2>0, <3>1, Zenon DEF PodResourcesAreReclaimed, StoppedMeansStopped
  <2>. QED BY <2>1, <2>2, <2>3, Zenon
<1>2. WorkerInv /\ StoppedMeansStopped /\ [Next]_vars =>
        [\A u \in ApiPods : api[u].ex /\ ~api'[u].ex /\ removals' = removals
                              => run[u] # "up"]_vars
  BY <1>1, Zenon
<1>. QED BY <1>2, Invariants, AnswerIsRight, PTL DEF Spec, RemovedOnceStopped

-----------------------------------------------------------------------------
(***************************************************************************)
(* Terminal phases.  While a pod is in the API server, everything that     *)
(* says it is over says the same: its versions, the works made of them,    *)
(* the cached status and the exited containers.  Once the API server or    *)
(* the cached status has a terminal phase the containers do not run and no *)
(* sync will start them, since the status generated for any work to come   *)
(* is terminal too: either the cached status is, or, after a restart, each *)
(* version the agent may still see.  The predicates are about one pod's    *)
(* version a, undelivered versions q, configuration k, status s, worker w  *)
(* and containers r.                                                       *)
(***************************************************************************)
Works(w) == {w.chan, w.next, w.cur}
Elems(q) == {q[i] : i \in DOMAIN q}
Settled(s) == s.ex /\ Terminal(s.ph)

\* The phase the containers amount to, and the one reported for a work.
PhaseOf(u, r) ==
  IF r = "none" THEN "Pending"
  ELSE IF r = "up" \/ u \in AlwaysRestart THEN "Running"
  ELSE IF r = "ok" THEN "Succeeded" ELSE "Failed"

Generated(u, s, r, ph) ==
  LET old == IF s.ex THEN s.ph ELSE ph IN
  IF Terminal(ph) THEN ph
  ELSE IF Terminal(PhaseOf(u, r)) THEN PhaseOf(u, r)
  ELSE IF Terminal(old) THEN old ELSE PhaseOf(u, r)

SameEnd(v, a) == Terminal(v.ph) => a.ph = v.ph
NoStart(w) == w.pc = "run" /\ w.cur.type = "sync" => w.isTerminal

Over(u, ph, a, w, r) ==
  /\ r # "up" /\ (Terminal(PhaseOf(u, r)) => PhaseOf(u, r) = ph)
  /\ NoStart(w) /\ (a.bad => ph = "Failed")

AllOver(q, k, w) ==
  /\ \A x \in Elems(q) : Terminal(x.ph)
  /\ k.ex => Terminal(k.ph)
  /\ \A x \in Works(w) : x = NoWork \/ x.runtime \/ Terminal(x.ph)

Agreed(u, a, q, k, s, w, r) ==
  a.ex =>
    /\ \A x \in Elems(q) : SameEnd(x, a)
    /\ k.ex => SameEnd(k, a)
    /\ \A x \in Works(w) : SameEnd(x, a)
    /\ ~k.ex => ~s.ex /\ \A x \in Works(w) : x = NoWork \/ x.runtime
    /\ Settled(s) => Over(u, s.ph, a, w, r)
    /\ Terminal(a.ph) => /\ Over(u, a.ph, a, w, r)
                         /\ s.ex => s.ph = a.ph
                         /\ Settled(s) \/ AllOver(q, k, w)

\* Only a pod with a configuration is synced, or cleaned up.
Configured(w) == \A x \in Works(w) : x.type \in {"sync", "terminated"} => ~x.runtime

PhaseInv ==
  \A u \in ApiPods : /\ Agreed(u, api[u], watch[u], cfg[u], cache[u], wk[u], run[u])
                     /\ Configured(wk[u])
                     /\ u \in hosted => ~cache[u].ex

LEMMA PhaseFacts ==
  /\ ~Terminal("Pending") /\ ~Terminal("Running") /\ Terminal("Failed")
  /\ \A u : PhaseOf(u, "none") = "Pending" /\ PhaseOf(u, "up") = "Running"
  /\ ~Terminal(NoWork.ph) /\ NoWork.type \notin {"sync", "terminated"}
<1>1. ~Terminal("Pending") /\ ~Terminal("Running") /\ Terminal("Failed") BY Zenon DEF Terminal
<1>2. "none" # "up" BY Zenon
<1>3. \A u : PhaseOf(u, "none") = "Pending"
  <2>. SUFFICES ASSUME NEW u PROVE PhaseOf(u, "none") = "Pending" BY Zenon
  <2>1. ~("none" = "up") /\ "none" # "ok" BY <1>2, Zenon
  <2>. QED BY <2>1, Zenon DEF PhaseOf
<1>4. \A u : PhaseOf(u, "up") = "Running"
  <2>. SUFFICES ASSUME NEW u PROVE PhaseOf(u, "up") = "Running" BY Zenon
  <2>1. ~("up" = "none") BY <1>2, Zenon
  <2>. QED BY <2>1, Zenon DEF PhaseOf
<1>5. NoWork.ph = "Pending" /\ NoWork.type \notin {"sync", "terminated"} BY Zenon DEF NoWork
<1>. QED BY <1>1, <1>3, <1>4, <1>5, Zenon

LEMMA UnknownFacts == Works(Unknown) = {NoWork} /\ NoStart(Unknown) /\ Configured(Unknown)
<1>1. Works(Unknown) = {NoWork} BY Zenon DEF Works, Unknown
<1>2. NoStart(Unknown) BY Zenon DEF NoStart, Unknown
<1>. QED BY <1>1, <1>2, PhaseFacts, Zenon DEF Configured

LEMMA ElemsFacts ==
  ASSUME NEW S, NEW q \in Seq(S)
  PROVE  /\ Elems(<<>>) = {} /\ \A v : Elems(<<v>>) = {v}
         /\ \A v \in S : Elems(Append(q, v)) \subseteq Elems(q) \cup {v}
         /\ q # <<>> => Head(q) \in Elems(q) /\ Elems(Tail(q)) \subseteq Elems(q)
<1>1. Elems(<<>>) = {} BY DEF Elems
<1>2. \A v : Elems(<<v>>) = {v}
  <2>. SUFFICES ASSUME NEW v PROVE Elems(<<v>>) = {v} BY Zenon
  <2>1. DOMAIN <<v>> = {1} /\ <<v>>[1] = v OBVIOUS
  <2>. QED BY <2>1, Zenon DEF Elems
<1>3. ASSUME NEW v \in S, NEW x \in Elems(Append(q, v)) PROVE x \in Elems(q) \cup {v}
  <2>1. PICK i \in DOMAIN Append(q, v) : x = Append(q, v)[i] BY <1>3, Zenon DEF Elems
  <2>2. DOMAIN Append(q, v) = 1..(Len(q) + 1) /\ DOMAIN q = 1..Len(q) /\ Len(q) \in Nat OBVIOUS
  <2>3. CASE i = Len(q) + 1
    <3>1. Append(q, v)[Len(q) + 1] = v OBVIOUS
    <3>. QED BY <2>1, <2>3, <3>1, Zenon
  <2>4. CASE i # Len(q) + 1
    <3>1. i \in DOMAIN q BY <2>1, <2>2, <2>4
    <3>2. Append(q, v)[i] = q[i] BY <3>1
    <3>. QED BY <2>1, <3>1, <3>2, Zenon DEF Elems
  <2>. QED BY <2>3, <2>4, Zenon
<1>4. ASSUME q # <<>> PROVE Head(q) \in Elems(q)
  <2>1. 1 \in DOMAIN q /\ Head(q) = q[1] BY <1>4
  <2>. QED BY <2>1, Zenon DEF Elems
<1>5. ASSUME q # <<>>, NEW x \in Elems(Tail(q)) PROVE x \in Elems(q)
  <2>1. PICK i \in DOMAIN Tail(q) : x = Tail(q)[i] BY <1>5, Zenon DEF Elems
  <2>2. i + 1 \in DOMAIN q /\ Tail(q)[i] = q[i + 1] BY <1>5, <2>1
  <2>. QED BY <2>1, <2>2, Zenon DEF Elems
<1>. QED BY <1>1, <1>2, <1>3, <1>4, <1>5, Zenon

\* The worker goes on: its works are made of those it had.
Inherits(v, w) ==
  \A x \in Works(v) : \/ x = NoWork
                      \/ \E y \in Works(w) : y # NoWork /\ y.ph = x.ph /\ y.runtime = x.runtime

LEMMA AgreedWork ==
  ASSUME NEW u, NEW a, NEW q, NEW k, NEW s, NEW w, NEW r, Agreed(u, a, q, k, s, w, r),
         NEW v, Inherits(v, w),
         a.ex /\ (Settled(s) \/ Terminal(a.ph)) /\ NoStart(w) => NoStart(v)
  PROVE  Agreed(u, a, q, k, s, v, r)
<1>1. ASSUME a.ex PROVE \A x \in Works(v) : SameEnd(x, a)
  <2>. SUFFICES ASSUME NEW x \in Works(v), Terminal(x.ph) PROVE a.ph = x.ph BY Zenon DEF SameEnd
  <2>1. PICK y \in Works(w) : y.ph = x.ph BY PhaseFacts, Zenon DEF Inherits
  <2>2. SameEnd(y, a) BY <1>1, Zenon DEF Agreed
  <2>. QED BY <2>1, <2>2, Zenon DEF SameEnd
<1>2. ASSUME \A x \in Works(w) : x = NoWork \/ x.runtime
      PROVE  \A x \in Works(v) : x = NoWork \/ x.runtime
  <2>. SUFFICES ASSUME NEW x \in Works(v), x # NoWork PROVE x.runtime BY Zenon
  <2>1. PICK y \in Works(w) : y # NoWork /\ y.runtime = x.runtime BY Zenon DEF Inherits
  <2>. QED BY <1>2, <2>1, Zenon
<1>3. ASSUME AllOver(q, k, w) PROVE AllOver(q, k, v)
  <2>. SUFFICES ASSUME NEW x \in Works(v), x # NoWork PROVE x.runtime \/ Terminal(x.ph)
    BY <1>3, Zenon DEF AllOver
  <2>1. PICK y \in Works(w) : y # NoWork /\ y.ph = x.ph /\ y.runtime = x.runtime
    BY Zenon DEF Inherits
  <2>. QED BY <1>3, <2>1, Zenon DEF AllOver
<1>4. a.ex /\ (Settled(s) \/ Terminal(a.ph))
        => \A ph : Over(u, ph, a, w, r) => Over(u, ph, a, v, r)
  BY Zenon DEF Over
<1>. QED BY <1>1, <1>2, <1>3, <1>4, Zenon DEF Agreed

\* UpdatePod may add a work, made of what it is called with.
LEMMA AgreedCall ==
  ASSUME NEW u, NEW a, NEW q, NEW k, NEW s, NEW w, NEW r, Agreed(u, a, q, k, s, w, r),
         NEW v, NEW o, NoStart(w) => NoStart(v),
         \A x \in Works(v) : \/ x \in Works(w) \/ x = NoWork
                             \/ x.ph = o.ph /\ x.runtime = o.runtime,
         a.ex => /\ SameEnd(o, a) /\ (k.ex \/ o.runtime)
                 /\ Terminal(a.ph) => Settled(s) \/ o.runtime \/ Terminal(o.ph)
  PROVE  Agreed(u, a, q, k, s, v, r)
<1>. SUFFICES ASSUME a.ex PROVE Agreed(u, a, q, k, s, v, r) BY Zenon DEF Agreed
<1>1. \A x \in Works(v) : SameEnd(x, a)
  BY PhaseFacts, Zenon DEF Agreed, SameEnd
<1>2. ~k.ex => ~s.ex /\ \A x \in Works(v) : x = NoWork \/ x.runtime
  BY Zenon DEF Agreed
<1>3. Terminal(a.ph) => Settled(s) \/ AllOver(q, k, v)
  BY Zenon DEF Agreed, AllOver
<1>4. \A ph : Over(u, ph, a, w, r) => Over(u, ph, a, v, r)
  BY Zenon DEF Over
<1>. QED BY <1>1, <1>2, <1>3, <1>4, Zenon DEF Agreed

\* The containers end, are removed, or are started by a sync that may start them.
LEMMA AgreedRun ==
  ASSUME NEW u, NEW a, NEW q, NEW k, NEW s, NEW w, NEW r, Agreed(u, a, q, k, s, w, r),
         NEW c, c = r \/ c = "none" \/ r = "up" \/ ~NoStart(w)
  PROVE  Agreed(u, a, q, k, s, w, c)
<1>1. "none" # "up" BY Zenon
<1>2. \A ph : Over(u, ph, a, w, r) => Over(u, ph, a, w, c)
  BY <1>1, PhaseFacts, Zenon DEF Over
<1>. QED BY <1>2, Zenon DEF Agreed

LEMMA AgreedStatus ==
  ASSUME NEW u, NEW a, NEW q, NEW k, NEW s, NEW w, NEW r, Agreed(u, a, q, k, s, w, r),
         NEW t, a.ex => t.ex = s.ex, s.ex => t.ph = s.ph
  PROVE  Agreed(u, a, q, k, t, w, r)
<1>1. a.ex => (Settled(t) <=> Settled(s)) BY Zenon DEF Settled
<1>. QED BY <1>1, Zenon DEF Agreed, Settled

\* A new version in the API server.
LEMMA AgreedVersion ==
  ASSUME NEW u, NEW a, NEW q, NEW k, NEW s, NEW w, NEW r, Agreed(u, a, q, k, s, w, r),
         NEW b, NEW p, b.ex = a.ex, b.bad = a.bad, Elems(p) \subseteq Elems(q) \cup {b},
         \/ b.ph = a.ph
         \/ ~Terminal(a.ph) /\ (Terminal(b.ph) => Settled(s) /\ s.ph = b.ph)
  PROVE  Agreed(u, b, p, k, s, w, r)
<1>. SUFFICES ASSUME a.ex PROVE Agreed(u, b, p, k, s, w, r) BY Zenon DEF Agreed
<1>1. \A x : SameEnd(x, a) => SameEnd(x, b) BY Zenon DEF SameEnd
<1>2. SameEnd(b, b) BY Zenon DEF SameEnd
<1>3. \A ph : Over(u, ph, a, w, r) => Over(u, ph, b, w, r) BY Zenon DEF Over
<1>4. Terminal(b.ph) /\ AllOver(q, k, w) => AllOver(p, k, w) BY Zenon DEF AllOver
<1>5. Terminal(b.ph) => Over(u, b.ph, b, w, r) BY <1>3, Zenon DEF Agreed
<1>6. Terminal(b.ph) => (s.ex => s.ph = b.ph) BY Zenon DEF Agreed, Settled
<1>7. Terminal(b.ph) => Settled(s) \/ AllOver(p, k, w) BY <1>4, Zenon DEF Agreed
<1>. QED BY <1>1, <1>2, <1>3, <1>5, <1>6, <1>7, Zenon DEF Agreed

\* A version enters the pod manager.
LEMMA AgreedMerge ==
  ASSUME NEW u, NEW a, NEW q, NEW k, NEW s, NEW w, NEW r, Agreed(u, a, q, k, s, w, r),
         NEW v, NEW p, v \in Elems(q), Elems(p) \subseteq Elems(q), a.ex => v.ex
  PROVE  Agreed(u, a, p, v, s, w, r)
<1>1. AllOver(q, k, w) => AllOver(p, v, w) BY Zenon DEF AllOver
<1>. QED BY <1>1, Zenon DEF Agreed

\* The addition hook rejects the pod: its status is Failed.
LEMMA AgreedRejected ==
  ASSUME NEW u, NEW a, NEW q, NEW k, NEW s, NEW w, NEW r, Agreed(u, a, q, k, s, w, r),
         NEW t, a.ex => k.ex /\ a.bad, r = "none", NoStart(w), t.ex, t.ph = "Failed"
  PROVE  Agreed(u, a, q, k, t, w, r)
<1>1. "none" # "up" BY Zenon
<1>2. Over(u, "Failed", a, w, r) BY <1>1, PhaseFacts, Zenon DEF Over
<1>3. a.ex => (Terminal(a.ph) => a.ph = "Failed") BY Zenon DEF Agreed, Over
<1>4. Settled(t) BY PhaseFacts, Zenon DEF Settled
<1>. QED BY <1>2, <1>3, <1>4, Zenon DEF Agreed, Settled

\* The status generated for a work.
LEMMA AgreedGenerated ==
  ASSUME NEW u, NEW a, NEW q, NEW k, NEW s, NEW w, NEW r, Agreed(u, a, q, k, s, w, r),
         NEW t, NEW x, x \in Works(w), x # NoWork, ~x.runtime, NoStart(w),
         a.ex /\ a.bad => r = "none",
         t.ex, t.ph = Generated(u, s, r, x.ph)
  PROVE  /\ Agreed(u, a, q, k, t, w, r)
         /\ a.ex /\ Terminal(a.ph) => Terminal(t.ph)
<1>. SUFFICES ASSUME a.ex
              PROVE  Agreed(u, a, q, k, t, w, r) /\ (Terminal(a.ph) => Terminal(t.ph))
  BY Zenon DEF Agreed
<1>0. k.ex BY Zenon DEF Agreed
<1>1. Terminal(x.ph) => a.ph = x.ph /\ t.ph = x.ph BY Zenon DEF Agreed, SameEnd, Generated
<1>2. Terminal(a.ph) => t.ph = a.ph
  <2>1. ASSUME Terminal(a.ph) PROVE t.ph = a.ph
    <3>1. CASE Terminal(x.ph) BY <1>1, <3>1, Zenon
    <3>2. CASE ~Terminal(x.ph)
      <4>1. Settled(s) /\ s.ph = a.ph /\ Over(u, a.ph, a, w, r)
        BY <2>1, <3>2, Zenon DEF Agreed, AllOver, Settled
      <4>. QED BY <3>2, <4>1, Zenon DEF Generated, Settled, Over
    <3>. QED BY <3>1, <3>2, Zenon
  <2>. QED BY <2>1, Zenon
<1>3. Terminal(t.ph) => Over(u, t.ph, a, w, r)
  <2>. SUFFICES ASSUME Terminal(t.ph) PROVE Over(u, t.ph, a, w, r) BY Zenon
  <2>1. CASE Terminal(x.ph) BY <1>1, <2>1, Zenon DEF Agreed
  <2>2. CASE ~Terminal(x.ph) /\ Terminal(PhaseOf(u, r))
    <3>1. t.ph = PhaseOf(u, r) BY <2>2, Zenon DEF Generated
    <3>2. r # "up" /\ r # "none" BY <2>2, PhaseFacts, Zenon
    <3>. QED BY <3>1, <3>2, Zenon DEF Over
  <2>3. CASE ~Terminal(x.ph) /\ ~Terminal(PhaseOf(u, r))
    <3>1. Settled(s) /\ t.ph = s.ph BY <2>3, Zenon DEF Generated, Settled
    <3>. QED BY <3>1, Zenon DEF Agreed
  <2>. QED BY <2>1, <2>2, <2>3, Zenon
<1>. QED BY <1>0, <1>2, <1>3, Zenon DEF Agreed, Settled

\* What a call of UpdatePod adds to a worker.
Added(x, o) ==
  /\ x.ph = o.ph /\ x.runtime = o.runtime
  /\ x.type \in {"sync", "terminated"} => ~x.runtime

LEMMA UpdatePodWorks ==
  ASSUME NEW u \in Pods, NEW w \in Worker, Sound(w), NEW o \in Options
  PROVE  LET v == UpdatePod(u, w, o) IN
         /\ \A x \in Works(v) : x \in Works(w) \/ x = NoWork \/ Added(x, o)
         /\ NoStart(w) => NoStart(v)
<1> DEFINE w0 == IF w.known THEN w ELSE FirstSeen(u, o)
           b == /\ ~w0.terminating
                /\ o.runtime \/ o.del \/ Terminal(o.ph) \/ o.kind = "kill"
           w1 == [w0 EXCEPT !.terminating = @ \/ b]
           type == IF w1.terminated THEN "terminated"
                   ELSE IF w1.terminating THEN "terminating" ELSE "sync"
           work == [type |-> type, runtime |-> o.runtime, del |-> o.del, ph |-> o.ph]
           v == UpdatePod(u, w, o)
<1>1. w0 \in Worker /\ Sound(w0) /\ w0.known
  BY FirstSeenSound, Zenon
<1>2. v = IF w0.terminating /\ o.kind = "create" THEN [w0 EXCEPT !.restart = TRUE]
          ELSE IF w0.finished \/ (w0.terminated /\ o.runtime) THEN w0
          ELSE Dispatch(w1, work, b)
  BY Zenon DEF UpdatePod
<1>3. \A x \in Works(w0) : x \in Works(w) \/ x = NoWork
  <2>1. CASE w.known BY <2>1, Zenon
  <2>2. CASE ~w.known
    <3>1. w0.chan = NoWork /\ w0.next = NoWork /\ w0.cur = NoWork
      <4>1. w0 = FirstSeen(u, o) BY <2>2, Zenon
      <4>. HIDE DEF w0
      <4>. QED BY <4>1, FirstSeenSound, Zenon
    <3>. HIDE DEF w0
    <3>. QED BY <3>1, Zenon DEF Works
  <2>. QED BY <2>1, <2>2, Zenon
<1>4. NoStart(w) => NoStart(w0)
  <2>1. CASE w.known BY <2>1, Zenon
  <2>2. CASE ~w.known
    <3>1. w0.pc = "none" BY <2>2, FirstSeenSound, Zenon
    <3>. QED BY <3>1, Zenon DEF NoStart
  <2>. QED BY <2>1, <2>2, Zenon
<1>5. b \in BOOLEAN /\ work \in PodWork /\ work.runtime = o.runtime /\ work.ph = o.ph /\ work.type = type
  BY Zenon DEF PodWork, Options
<1>6. w1.terminating = (w0.terminating \/ b) /\ w1.terminated = w0.terminated
  BY <1>1, Zenon DEF Worker
<1>7. o.runtime => w1.terminating
  BY <1>6, Zenon
<1>8. (type = "sync" => ~w1.terminating) /\ (type = "terminated" => w0.terminated)
  <2>1. "sync" # "terminated" /\ "sync" # "terminating" /\ "terminated" # "terminating" BY Zenon
  <2>. HIDE DEF w1, w0
  <2>. QED BY <1>6, <2>1, Zenon
<1>. HIDE DEF w0, b
<1>9. w1 = [w0 EXCEPT !.terminating = w0.terminating \/ b]
  BY <1>1, Zenon DEF Worker
<1>10. /\ w1 \in Worker /\ w1.cur = w0.cur /\ w1.chan = w0.chan /\ w1.next = w0.next
       /\ w1.pc = w0.pc /\ w1.working = w0.working /\ w1.isTerminal = w0.isTerminal
  BY <1>1, <1>5, <1>9, Zenon DEF Worker
<1>. HIDE DEF w1, type, work
<1>11. CASE w0.terminating /\ o.kind = "create"
  <2>1. v = [w0 EXCEPT !.restart = TRUE]
    BY <1>2, <1>11, Zenon
  <2>. HIDE DEF v
  <2>2. /\ v.cur = w0.cur /\ v.chan = w0.chan /\ v.next = w0.next
        /\ v.pc = w0.pc /\ v.isTerminal = w0.isTerminal
    BY <1>1, <2>1, Zenon DEF Worker
  <2>3. Works(v) = Works(w0) /\ (NoStart(w0) => NoStart(v))
    BY <2>2, Zenon DEF Works, NoStart
  <2>. QED BY <1>3, <1>4, <2>3, Zenon DEF v
<1>12. CASE ~(w0.terminating /\ o.kind = "create") /\ (w0.finished \/ (w0.terminated /\ o.runtime))
  BY <1>2, <1>3, <1>4, <1>12, Zenon
<1>13. CASE ~(w0.terminating /\ o.kind = "create") /\ ~(w0.finished \/ (w0.terminated /\ o.runtime))
  <2>1. v = Dispatch(w1, work, b)
    BY <1>2, <1>13, Zenon
  <2>2. Added(work, o)
    BY <1>5, <1>7, <1>8, <1>13, Zenon DEF Added
  <2>. HIDE DEF v
  <2> DEFINE p == IF w1.pc = "none" THEN "idle" ELSE w1.pc
             c == w1.cancelled \/ (b /\ p = "run")
  <2>3. p \in {"idle", "run", "complete"} /\ c \in BOOLEAN /\ (p = "run" => w1.pc = "run")
    BY <1>10, Zenon DEF Worker
  <2>4. v = [w1 EXCEPT !.pc = p, !.working = TRUE, !.chan = work]
          \/ v = [w1 EXCEPT !.pc = p, !.next = work, !.cancelled = c]
    BY <1>10, <2>1, Zenon DEF Dispatch, Worker
  <2>. HIDE DEF p, c
  <2>5. /\ v.cur = w0.cur /\ v.chan \in {w0.chan, work} /\ v.next \in {w0.next, work}
        /\ v.pc = p /\ v.isTerminal = w0.isTerminal
    BY <1>10, <2>4, Zenon DEF Worker
  <2>6. \A x \in Works(v) : x \in Works(w0) \/ x = work
    BY <2>5, Zenon DEF Works
  <2>7. NoStart(w0) => NoStart(v)
    BY <1>10, <2>3, <2>5, Zenon DEF NoStart
  <2>. QED BY <1>3, <1>4, <2>2, <2>6, <2>7, Zenon DEF v
<1>. QED BY <1>11, <1>12, <1>13, Zenon

\* A pod of which nothing changes, and a step about one pod.
LEMMA OneAgreed ==
  ASSUME WorkerInv, PhaseInv, NEW u \in Pods,
         \A x \in Pods \ {u} :
           /\ api'[x] = api[x] /\ watch'[x] = watch[x] /\ cfg'[x] = cfg[x]
           /\ cache'[x] = cache[x] /\ wk'[x] = wk[x] /\ run'[x] = run[x]
           /\ x \in hosted' => x \in hosted,
         u \in ApiPods => /\ Agreed(u, api'[u], watch'[u], cfg'[u], cache'[u], wk'[u], run'[u])
                          /\ Configured(wk'[u])
                          /\ u \in hosted' => ~cache'[u].ex
  PROVE  PhaseInv'
<1>1. ASSUME NEW x \in ApiPods, x # u
      PROVE  /\ Agreed(x, api'[x], watch'[x], cfg'[x], cache'[x], wk'[x], run'[x])
             /\ Configured(wk'[x])
             /\ x \in hosted' => ~cache'[x].ex
  <2>1. x \in Pods \ {u} BY <1>1, Zenon DEF Pods
  <2>2. /\ Agreed(x, api[x], watch[x], cfg[x], cache[x], wk[x], run[x])
        /\ Configured(wk[x])
        /\ x \in hosted => ~cache[x].ex
    BY <1>1, Zenon DEF PhaseInv
  <2>. QED BY <2>1, <2>2, Zenon
<1>. QED BY <1>1, Zenon DEF PhaseInv

\* What the steps of a goroutine make of a worker's works.
LEMMA TakenWorks ==
  ASSUME NEW w \in Worker, Sound(w), w.chan # NoWork, NEW b \in BOOLEAN
  PROVE  LET v == [Takes(w) EXCEPT !.isTerminal = b] IN
         /\ Works(v) \subseteq Works(w) \cup {NoWork}
         /\ v.pc = "run" /\ v.cur = w.chan /\ v.isTerminal = b
<1> DEFINE v == [Takes(w) EXCEPT !.isTerminal = b]
<1>1. v = [w EXCEPT !.pc = "run", !.cur = w.chan, !.chan = NoWork, !.podStarted = TRUE,
                    !.cancelled = FALSE, !.isTerminal = b]
  BY Zenon DEF Takes, Worker
<1>. HIDE DEF v
<1>2. /\ v.pc = "run" /\ v.cur = w.chan /\ v.chan = NoWork /\ v.next = w.next
      /\ v.isTerminal = b
  BY <1>1, Zenon DEF Worker
<1>3. Works(v) \subseteq Works(w) \cup {NoWork}
  BY <1>2, Zenon DEF Works
<1>. QED BY <1>2, <1>3, Zenon DEF v

\* A worker that has only works of w, or none, and is not at a sync.
LEMMA FewerWorks ==
  ASSUME NEW v, NEW w, Works(v) \subseteq Works(w) \cup {NoWork}
  PROVE  Inherits(v, w) /\ (Configured(w) => Configured(v))
<1>1. Inherits(v, w) BY Zenon DEF Inherits
<1>2. Configured(w) => Configured(v) BY PhaseFacts, Zenon DEF Configured
<1>. QED BY <1>1, <1>2, Zenon

LEMMA LeftWorks ==
  ASSUME NEW w \in Worker
  PROVE  \A v \in {Finished(w), Returned(w), [w EXCEPT !.chan = NoWork, !.working = FALSE]} :
           Works(v) \subseteq Works(w) \cup {NoWork} /\ (NoStart(w) => NoStart(v))
         /\ NoStart(Returned(w))
<1>0. "none" # "run" /\ "complete" # "run" BY Zenon
<1>1. LET v == Finished(w) IN
      v.chan = NoWork /\ v.next = NoWork /\ v.cur = NoWork /\ v.pc = "none"
  BY Zenon DEF Finished, Worker
<1>2. LET v == Returned(w) IN
      v.chan = w.chan /\ v.next = w.next /\ v.cur = NoWork /\ v.pc = "complete"
  BY Zenon DEF Returned, Worker
<1>3. LET v == [w EXCEPT !.chan = NoWork, !.working = FALSE]
      IN  /\ v.chan = NoWork /\ v.next = w.next /\ v.cur = w.cur /\ v.pc = w.pc
          /\ v.isTerminal = w.isTerminal
  BY Zenon DEF Worker
<1>4. NoStart(Finished(w)) /\ NoStart(Returned(w)) BY <1>0, <1>1, <1>2, Zenon DEF NoStart
<1> DEFINE p == [w EXCEPT !.chan = NoWork, !.working = FALSE]
<1>5. NoStart(w) => NoStart(p) BY <1>3, Zenon DEF NoStart
<1>6. /\ Works(Finished(w)) \subseteq Works(w) \cup {NoWork}
      /\ Works(Returned(w)) \subseteq Works(w) \cup {NoWork}
      /\ Works(p) \subseteq Works(w) \cup {NoWork}
  BY <1>1, <1>2, <1>3, Zenon DEF Works
<1>. HIDE DEF p
<1>. QED BY <1>4, <1>5, <1>6, Zenon DEF p

LEMMA QueuedWorks ==
  ASSUME NEW w \in Worker
  PROVE  LET v == completeWorkQueueNext(w) IN
         Works(v) \subseteq Works(w) \cup {NoWork} /\ v.pc = "idle"
<1>1. LET v == completeWorkQueueNext(w) IN
      v.chan = w.next /\ v.next = NoWork /\ v.cur = w.cur /\ v.pc = "idle"
  BY Zenon DEF completeWorkQueueNext, Worker
<1>. QED BY <1>1, Zenon DEF Works

LEMMA EndedWorks ==
  ASSUME NEW w \in Worker, w.cur # NoWork
  PROVE  /\ Inherits(completeSync(w), w) /\ Inherits(completeTerminating(w), w)
         /\ Configured(w) => Configured(completeSync(w))
         /\ Configured(w) /\ ~w.cur.runtime => Configured(completeTerminating(w))
         /\ completeSync(w).pc = "complete" /\ completeTerminating(w).pc = "complete"
<1> DEFINE n(t) == [w.cur EXCEPT !.type = t]
<1>1. \A t \in {"terminating", "terminated"} :
        n(t).ph = w.cur.ph /\ n(t).runtime = w.cur.runtime /\ n(t).type = t
  BY Zenon DEF Worker, PodWork
<1>. HIDE DEF n
<1>2. LET v == completeSync(w) IN
      v.chan = w.chan /\ v.cur = NoWork /\ v.next = n("terminating") /\ v.pc = "complete"
  BY Zenon DEF completeSync, Worker, n
<1>3. LET v == completeTerminating(w) IN
      v.chan = w.chan /\ v.cur = NoWork /\ v.next = n("terminated") /\ v.pc = "complete"
  BY Zenon DEF completeTerminating, Worker, n
<1>4. ASSUME NEW v, NEW t \in {"terminating", "terminated"},
             v.chan = w.chan, v.cur = NoWork, v.next = n(t)
      PROVE  /\ Inherits(v, w)
             /\ Configured(w) /\ (t = "terminating" \/ ~w.cur.runtime) => Configured(v)
  <2>1. \A x \in Works(v) : x = NoWork \/ x = w.chan \/ x = n(t)
    BY <1>4, Zenon DEF Works
  <2>2. w.chan \in Works(w) /\ w.cur \in Works(w) BY Zenon DEF Works
  <2>3. Inherits(v, w) BY <1>1, <1>4, <2>1, <2>2, Zenon DEF Inherits
  <2>4. "terminating" \notin {"sync", "terminated"} BY Zenon
  <2>5. ASSUME Configured(w), t = "terminating" \/ ~w.cur.runtime, NEW x \in Works(v),
               x.type \in {"sync", "terminated"}
        PROVE  ~x.runtime
    <3>1. x # NoWork BY <2>5, PhaseFacts, Zenon
    <3>2. CASE x = w.chan BY <2>2, <2>5, <3>2, Zenon DEF Configured
    <3>3. CASE x = n(t) BY <1>1, <1>4, <2>4, <2>5, <3>3, Zenon
    <3>. QED BY <2>1, <2>5, <3>1, <3>2, <3>3, Zenon
  <2>. QED BY <2>3, <2>5, Zenon DEF Configured
<1>5. Inherits(completeSync(w), w) /\ (Configured(w) => Configured(completeSync(w)))
  BY <1>2, <1>4, Zenon
<1>6. /\ Inherits(completeTerminating(w), w)
      /\ Configured(w) /\ ~w.cur.runtime => Configured(completeTerminating(w))
  BY <1>3, <1>4, Zenon
<1>. QED BY <1>2, <1>3, <1>5, <1>6, Zenon

\* The final status: the cached one, or that of the work.
LEMMA AgreedFinal ==
  ASSUME NEW u, NEW a, NEW q, NEW k, NEW s, NEW w, NEW r, Agreed(u, a, q, k, s, w, r),
         NEW t, NEW x, x \in Works(w), x # NoWork, ~x.runtime,
         t.ex, t.ph = IF s.ex THEN s.ph ELSE x.ph
  PROVE  Agreed(u, a, q, k, t, w, r)
<1>. SUFFICES ASSUME a.ex PROVE Agreed(u, a, q, k, t, w, r) BY Zenon DEF Agreed
<1>0. k.ex BY Zenon DEF Agreed
<1>1. Terminal(a.ph) => t.ph = a.ph
  <2>1. ASSUME Terminal(a.ph) PROVE t.ph = a.ph
    <3>1. CASE s.ex BY <2>1, <3>1, Zenon DEF Agreed
    <3>2. CASE ~s.ex
      <4>1. AllOver(q, k, w) BY <2>1, <3>2, Zenon DEF Agreed, Settled
      <4>2. Terminal(x.ph) BY <4>1, Zenon DEF AllOver
      <4>3. SameEnd(x, a) BY Zenon DEF Agreed
      <4>. QED BY <3>2, <4>2, <4>3, Zenon DEF SameEnd
    <3>. QED BY <3>1, <3>2, Zenon
  <2>. QED BY <2>1, Zenon
<1>2. Terminal(t.ph) => Over(u, t.ph, a, w, r)
  <2>. SUFFICES ASSUME Terminal(t.ph) PROVE Over(u, t.ph, a, w, r) BY Zenon
  <2>1. CASE s.ex
    <3>1. Settled(s) /\ t.ph = s.ph BY <2>1, Zenon DEF Settled
    <3>. QED BY <3>1, Zenon DEF Agreed
  <2>2. CASE ~s.ex
    <3>1. t.ph = x.ph /\ SameEnd(x, a) BY <2>2, Zenon DEF Agreed
    <3>2. t.ph = a.ph /\ Terminal(a.ph) BY <3>1, Zenon DEF SameEnd
    <3>. QED BY <3>2, Zenon DEF Agreed
  <2>. QED BY <2>1, <2>2, Zenon
<1>. QED BY <1>0, <1>1, <1>2, Zenon DEF Agreed, Settled

\* A step of pod u's goroutine.
LEMMA StepAgreed ==
  ASSUME WorkerInv, PhaseInv, NEW u \in Pods, UNCHANGED <<api, watch, cfg, hosted>>,
         NEW w, wk' = [wk EXCEPT ![u] = w], NEW c, run' = [run EXCEPT ![u] = c],
         NEW t, cache' = [cache EXCEPT ![u] = t],
         u \in ApiPods => /\ Agreed(u, api[u], watch[u], cfg[u], t, w, c)
                          /\ Configured(w)
                          /\ u \in hosted => ~t.ex
  PROVE  PhaseInv'
<1>1. wk'[u] = w /\ run'[u] = c /\ cache'[u] = t
  BY Zenon DEF WorkerInv, TypeOK
<1>2. \A x \in Pods \ {u} : wk'[x] = wk[x] /\ run'[x] = run[x] /\ cache'[x] = cache[x]
  BY Zenon DEF WorkerInv, TypeOK
<1>. QED BY <1>1, <1>2, OneAgreed, Zenon

\* What SetPodStatus sets.
LEMMA WorkerStepAgreed ==
  ASSUME WorkerInv, ApiInv, PhaseInv, NEW u \in Pods, WorkerStep(u) \/ RuntimeError(u)
  PROVE  PhaseInv'
<1>0. /\ TypeOK /\ wk[u] \in Worker /\ Sound(wk[u])
      /\ run = [run EXCEPT ![u] = run[u]] /\ cache = [cache EXCEPT ![u] = cache[u]]
  BY Zenon DEF WorkerInv, TypeOK
<1> DEFINE s == cache[u]
           w == wk[u]
           r == run[u]
           Ok(t, v, c) == Agreed(u, api[u], watch[u], cfg[u], t, v, c)
<1>a. u \in ApiPods => Ok(s, w, r) /\ Configured(w)
  BY Zenon DEF PhaseInv
<1>b. u \in ApiPods /\ w.known => u \notin hosted
  BY Zenon DEF ApiInv, Reported, ToCome
<1>c. u \in ApiPods /\ api[u].ex /\ api[u].bad => r = "none"
  BY Zenon DEF ApiInv, Reported, Rejected, BadVersion
<1>d. w.pc = "run" => w.known
  BY <1>0, Zenon DEF Sound
<1>e. UNCHANGED <<api, watch, cfg, hosted>>
  BY Zenon DEF WorkerStep, managePodLoop, Unstarted, syncPodTerminal, syncPod, syncPodCanceled,
               syncTerminatingPod, syncTerminatedPod, Completes, RuntimeError, sourceVars
<1>f. w.cur.type \in {"sync", "terminating", "terminated"} => w.cur # NoWork
  BY DEF NoWork
<1>g. w.chan \in Works(w) /\ w.cur \in Works(w)
  BY Zenon DEF Works
\* Nothing but the worker changes.
<1>h. ASSUME NEW v, wk' = [wk EXCEPT ![u] = v], UNCHANGED <<run, cache>>, w.known,
             Inherits(v, w), Configured(w) => Configured(v), NoStart(w) => NoStart(v)
      PROVE  PhaseInv'
  <2>1. u \in ApiPods => Ok(s, v, r) BY <1>a, <1>h, AgreedWork, Zenon
  <2>. QED BY <1>0, <1>a, <1>b, <1>e, <1>h, <2>1, StepAgreed, Zenon
<1>1. CASE managePodLoop(u)
  <2> DEFINE work == w.chan
             ph == generateAPIPodStatus(u, work.ph)
             b == work.type = "sync" /\ Terminal(ph)
             v == [Takes(w) EXCEPT !.isTerminal = b]
  <2>1. /\ work # NoWork /\ wk' = [wk EXCEPT ![u] = v] /\ UNCHANGED run
        /\ IF work.runtime THEN UNCHANGED cache
           ELSE SetPodStatus(u, ph, r = "up", work.del)
    BY <1>1, Zenon DEF managePodLoop, allowPodStart
  <2>2. w.known /\ w.pc = "idle"
    BY <1>0, <2>1 DEF Sound, Unknown
  <2>3. NoStart(w)
    BY <2>2, Zenon DEF NoStart
  <2>4. ph = Generated(u, s, r, work.ph)
    BY Zenon DEF generateAPIPodStatus, Generated, getPhase, PhaseOf
  <2>5. b \in BOOLEAN BY Zenon
  <2>6. /\ Works(v) \subseteq Works(w) \cup {NoWork}
        /\ v.pc = "run" /\ v.cur = work /\ v.isTerminal = b
    BY <1>0, <2>1, <2>5, TakenWorks, Zenon
  <2>. HIDE DEF v, ph
  <2>7. Inherits(v, w) /\ (Configured(w) => Configured(v))
    BY <2>6, FewerWorks, Zenon
  <2>8. CASE work.runtime
    <3>1. u \in ApiPods => work.type # "sync"
      BY <1>a, <1>g, <2>8, Zenon DEF Configured
    <3>2. u \in ApiPods => NoStart(v) BY <2>6, <3>1, Zenon DEF NoStart
    <3>3. u \in ApiPods => Ok(s, v, r) BY <1>a, <2>7, <3>2, AgreedWork, Zenon
    <3>4. wk' = [wk EXCEPT ![u] = v] /\ run' = [run EXCEPT ![u] = r] /\ cache' = [cache EXCEPT ![u] = s]
      BY <1>0, <2>1, <2>8, Zenon
    <3>5. u \in ApiPods => Configured(v) /\ (u \in hosted => ~s.ex)
      BY <1>a, <1>b, <2>2, <2>7, Zenon
    <3>. QED BY <1>e, <3>3, <3>4, <3>5, StepAgreed, Zenon
  <2>9. CASE ~work.runtime
    <3> DEFINE up == r = "up"
    <3>0. SetPodStatus(u, ph, up, work.del) BY <2>1, <2>9, Zenon
    <3>. HIDE DEF up
    <3>1. PICK t : cache' = [cache EXCEPT ![u] = t] /\ t.ex /\ t.ph = ph
      <4>1. PICK d : cache' = [cache EXCEPT ![u] =
                              [ex |-> TRUE, ph |-> ph, up |-> up, dirty |-> d]]
        BY <3>0, Zenon DEF SetPodStatus
      <4> DEFINE t == [ex |-> TRUE, ph |-> ph, up |-> up, dirty |-> d]
      <4>2. cache' = [cache EXCEPT ![u] = t] /\ t.ex /\ t.ph = ph BY <4>1, Zenon
      <4>. HIDE DEF t
      <4>. QED BY <4>2, Zenon
    <3>2. ASSUME u \in ApiPods PROVE Ok(t, v, r)
      <4>1. Ok(t, w, r) /\ (api[u].ex /\ Terminal(api[u].ph) => Terminal(t.ph))
        <5>1. work \in Works(w) /\ work # NoWork /\ ~work.runtime BY <1>g, <2>1, <2>9, Zenon
        <5>2. t.ex /\ t.ph = Generated(u, s, r, work.ph) BY <2>4, <3>1, Zenon
        <5>3. Ok(s, w, r) /\ (api[u].ex /\ api[u].bad => r = "none") BY <1>a, <1>c, <3>2, Zenon
        <5>4. NoStart(w) BY <2>3, Zenon
        <5>. HIDE DEF s, w, r, work, Ok
        <5>5. Agreed(u, api[u], watch[u], cfg[u], s, w, r) BY <5>3, Zenon DEF Ok
        <5>6. /\ Agreed(u, api[u], watch[u], cfg[u], t, w, r)
              /\ api[u].ex /\ Terminal(api[u].ph) => Terminal(t.ph)
          BY <5>1, <5>2, <5>3, <5>4, <5>5, AgreedGenerated
        <5>. QED BY <5>6, Zenon DEF Ok
      <4>2. api[u].ex /\ (Settled(t) \/ Terminal(api[u].ph)) => NoStart(v)
        BY <2>6, <3>1, <4>1, Zenon DEF NoStart, Settled
      <4>. QED BY <2>7, <4>1, <4>2, AgreedWork, Zenon
    <3>. QED BY <1>0, <1>a, <1>b, <1>e, <2>1, <2>2, <2>7, <3>1, <3>2, StepAgreed, Zenon
  <2>. QED BY <2>8, <2>9, Zenon
<1>2. CASE Unstarted(u)
  <2> DEFINE v == [w EXCEPT !.chan = NoWork, !.working = FALSE]
  <2>1. w.chan # NoWork /\ UNCHANGED <<run, cache>>
    BY <1>2, Zenon DEF Unstarted, completeUnstartedTerminated, CannotStartYet
  <2>2. w.known
    BY <1>0, <2>1 DEF Sound, Unknown
  <2>3. wk' = [wk EXCEPT ![u] = Finished(w)] \/ wk' = [wk EXCEPT ![u] = v]
    BY <1>0, <1>2, Zenon DEF Unstarted, completeUnstartedTerminated, CannotStartYet, WorkerInv, TypeOK
  <2>4. \A x \in {Finished(w), v} : /\ Works(x) \subseteq Works(w) \cup {NoWork}
                                    /\ NoStart(w) => NoStart(x)
    BY <1>0, LeftWorks, Zenon
  <2>. HIDE DEF v
  <2>. QED BY <1>h, <2>1, <2>2, <2>3, <2>4, FewerWorks, Zenon
<1>3. CASE syncPodTerminal(u)
  <2>1. /\ w.pc = "run" /\ w.cur.type = "sync" /\ wk' = [wk EXCEPT ![u] = completeSync(w)]
        /\ UNCHANGED <<run, cache>>
    BY <1>3, Zenon DEF syncPodTerminal, Running
  <2>2. NoStart(completeSync(w))
    <3>1. completeSync(w).pc = "complete" BY <1>0, <1>f, <2>1, EndedWorks, Zenon
    <3>. QED BY <3>1, Zenon DEF NoStart
  <2>. QED BY <1>0, <1>d, <1>f, <1>h, <2>1, <2>2, EndedWorks, Zenon
<1>4. CASE syncPodCanceled(u)
  <2>1. /\ w.pc = "run" /\ wk' = [wk EXCEPT ![u] = Returned(w)] /\ UNCHANGED <<run, cache>>
    BY <1>4, Zenon DEF syncPodCanceled, Running
  <2>. QED BY <1>0, <1>d, <1>h, <2>1, LeftWorks, FewerWorks, Zenon
<1>5. ASSUME NEW c, wk' = [wk EXCEPT ![u] = Returned(w)], run' = [run EXCEPT ![u] = c],
             UNCHANGED cache, w.pc = "run", c = r \/ r = "up" \/ ~NoStart(w)
      PROVE  PhaseInv'
  <2>1. /\ Works(Returned(w)) \subseteq Works(w) \cup {NoWork} /\ NoStart(Returned(w))
        /\ Inherits(Returned(w), w) /\ (Configured(w) => Configured(Returned(w)))
    BY <1>0, LeftWorks, FewerWorks, Zenon
  <2>2. u \in ApiPods => Ok(s, w, c) BY <1>a, <1>5, AgreedRun, Zenon
  <2>3. u \in ApiPods => Ok(s, Returned(w), c) BY <2>1, <2>2, AgreedWork, Zenon
  <2>. QED BY <1>0, <1>a, <1>b, <1>d, <1>e, <1>5, <2>1, <2>3, StepAgreed, Zenon
<1>6. CASE syncPod(u)
  <2>1. /\ wk' = [wk EXCEPT ![u] = Returned(w)] /\ run' = [run EXCEPT ![u] = Synced(u)]
        /\ UNCHANGED cache /\ w.pc = "run" /\ w.cur.type = "sync" /\ ~w.isTerminal
    BY <1>6, Zenon DEF syncPod, SetRun, Running
  <2>2. ~NoStart(w) BY <2>1, Zenon DEF NoStart
  <2>. QED BY <1>5, <2>1, <2>2, Zenon
<1>7. CASE RuntimeError(u)
  <2>1. /\ wk' = [wk EXCEPT ![u] = Returned(w)] /\ UNCHANGED cache /\ w.pc = "run" /\ ~w.isTerminal
    BY <1>7, Zenon DEF RuntimeError
  <2>2. PICK c : /\ c = r \/ (w.cur.type = "sync") \/ c \in Killed(u)
                 /\ run' = [run EXCEPT ![u] = c]
    BY <1>7, Zenon DEF RuntimeError, SetRun
  <2>3. c \in Killed(u) => c = r \/ r = "up" BY Zenon DEF Killed
  <2>4. w.cur.type = "sync" => ~NoStart(w) BY <2>1, Zenon DEF NoStart
  <2>. QED BY <1>5, <2>1, <2>2, <2>3, <2>4, Zenon
<1>8. CASE syncTerminatingPod(u)
  <2>1. /\ w.pc = "run" /\ w.cur.type = "terminating" /\ UNCHANGED cache
        /\ \/ wk' = [wk EXCEPT ![u] = Finished(w)]
           \/ ~w.cur.runtime /\ wk' = [wk EXCEPT ![u] = completeTerminating(w)]
    BY <1>8, Zenon DEF syncTerminatingPod, Running, completeTerminated
  <2>2. PICK c : (c = r \/ r = "up") /\ run' = [run EXCEPT ![u] = c]
    BY <1>8, Zenon DEF syncTerminatingPod, SetRun, Killed
  <2>3. u \in ApiPods => Ok(s, w, c) BY <1>a, <2>2, AgreedRun, Zenon
  <2>4. ASSUME NEW v, wk' = [wk EXCEPT ![u] = v], Inherits(v, w), NoStart(v),
               Configured(w) => Configured(v)
        PROVE  PhaseInv'
    <3>1. u \in ApiPods => Ok(s, v, c) BY <2>3, <2>4, AgreedWork, Zenon
    <3>. QED BY <1>0, <1>a, <1>b, <1>d, <1>e, <2>1, <2>2, <2>4, <3>1, StepAgreed, Zenon
  <2>5. NoStart(w) BY <2>1, Zenon DEF NoStart
  <2>6. /\ Inherits(Finished(w), w) /\ NoStart(Finished(w))
        /\ Configured(w) => Configured(Finished(w))
    BY <1>0, <2>5, LeftWorks, FewerWorks, Zenon
  <2>7. w.cur # NoWork BY <1>f, <2>1, Zenon
  <2>8. ASSUME ~w.cur.runtime
        PROVE  /\ Inherits(completeTerminating(w), w) /\ NoStart(completeTerminating(w))
               /\ Configured(w) => Configured(completeTerminating(w))
    <3>1. completeTerminating(w).pc = "complete" BY <1>0, <2>7, EndedWorks, Zenon
    <3>2. NoStart(completeTerminating(w)) BY <3>1, Zenon DEF NoStart
    <3>. QED BY <1>0, <2>7, <2>8, <3>2, EndedWorks, Zenon
  <2>. QED BY <2>1, <2>4, <2>6, <2>8, Zenon
<1>9. CASE syncTerminatedPod(u)
  <2> DEFINE ph == IF s.ex THEN s.ph ELSE w.cur.ph
  <2>1. /\ w.pc = "run" /\ w.cur.type = "terminated" /\ wk' = [wk EXCEPT ![u] = Finished(w)]
        /\ run' = [run EXCEPT ![u] = "none"] /\ SetPodStatus(u, ph, FALSE, TRUE)
    BY <1>9, Zenon DEF syncTerminatedPod, Running, completeTerminated, SetRun
  <2>. HIDE DEF ph
  <2>2. PICK t : cache' = [cache EXCEPT ![u] = t] /\ t.ex /\ t.ph = ph
    <3>1. PICK d : cache' = [cache EXCEPT ![u] =
                            [ex |-> TRUE, ph |-> ph, up |-> FALSE, dirty |-> d]]
      BY <2>1, Zenon DEF SetPodStatus
    <3> DEFINE t == [ex |-> TRUE, ph |-> ph, up |-> FALSE, dirty |-> d]
    <3>2. cache' = [cache EXCEPT ![u] = t] /\ t.ex /\ t.ph = ph BY <3>1, Zenon
    <3>. HIDE DEF t
    <3>. QED BY <3>2, Zenon
  <2>3. NoStart(w) BY <2>1, Zenon DEF NoStart
  <2>4. /\ Inherits(Finished(w), w) /\ NoStart(Finished(w))
        /\ Configured(w) => Configured(Finished(w))
    BY <1>0, <2>3, LeftWorks, FewerWorks, Zenon
  <2>5. ASSUME u \in ApiPods PROVE Ok(t, Finished(w), "none")
    <3>1. Ok(s, w, "none") BY <1>a, <2>5, AgreedRun, Zenon
    <3>2. w.cur # NoWork /\ ~w.cur.runtime
      BY <1>a, <1>f, <1>g, <2>1, <2>5, Zenon DEF Configured
    <3>3. t.ex /\ t.ph = IF s.ex THEN s.ph ELSE w.cur.ph BY <2>2, Zenon DEF ph
    <3>4. Ok(t, w, "none") BY <1>g, <3>1, <3>2, <3>3, AgreedFinal, Zenon
    <3>. QED BY <2>4, <3>4, AgreedWork, Zenon
  <2>. QED BY <1>a, <1>b, <1>d, <1>e, <2>1, <2>2, <2>4, <2>5, StepAgreed, Zenon
<1>10. CASE Completes(u)
  <2>1. /\ w.pc = "complete" /\ wk' = [wk EXCEPT ![u] = completeWorkQueueNext(w)]
        /\ UNCHANGED <<run, cache>>
    BY <1>10, Zenon DEF Completes, completeWork
  <2>2. w.known BY <1>0, <2>1, Zenon DEF Sound
  <2>3. /\ Works(completeWorkQueueNext(w)) \subseteq Works(w) \cup {NoWork}
        /\ completeWorkQueueNext(w).pc = "idle"
    BY <1>0, QueuedWorks, Zenon
  <2>4. NoStart(completeWorkQueueNext(w)) BY <2>3, Zenon DEF NoStart
  <2>. QED BY <1>h, <2>1, <2>2, <2>3, <2>4, FewerWorks, Zenon
<1>. QED BY <1>1, <1>2, <1>3, <1>4, <1>6, <1>7, <1>8, <1>9, <1>10, Zenon DEF WorkerStep

\* The status manager reports the cached status, or removes the pod.
LEMMA StatusReported ==
  ASSUME WorkerInv, NEW u \in Pods, syncStatus(u)
  PROVE  LET sent == [api[u] EXCEPT !.ph = mergePodStatus(u)]
             kept == [cache[u] EXCEPT !.dirty = FALSE] IN
         /\ u \in ApiPods /\ api[u].ex /\ cache[u].ex
         /\ UNCHANGED <<wk, run, cfg, hosted>>
         /\ \/ api' = [api EXCEPT ![u] = Absent] /\ cache' = [cache EXCEPT ![u] = NoStatus]
            \/ api' = [api EXCEPT ![u] = sent] /\ cache' = [cache EXCEPT ![u] = kept]
         /\ \A x \in Pods \ {u} : watch'[x] = watch[x]
         /\ watch'[u] \in {watch[u], Append(watch[u], api'[u])}
<1>0. /\ api \in [Pods -> Version] /\ watch \in [Pods -> Seq(Version)]
      /\ cache \in [Pods -> Status]
  BY Zenon DEF WorkerInv, TypeOK
<1> DEFINE sent == [api[u] EXCEPT !.ph = mergePodStatus(u)]
           kept == [cache[u] EXCEPT !.dirty = FALSE]
           gone == api[u].del /\ PodResourcesAreReclaimed(u)
           new == IF gone THEN Absent ELSE sent
<1>1. /\ u \in ApiPods /\ api[u].ex /\ cache[u].ex
      /\ UNCHANGED <<wk, run, cfg, hosted>> /\ api' = [api EXCEPT ![u] = new]
      /\ watch' = IF new = api[u] THEN watch ELSE [watch EXCEPT ![u] = Append(watch[u], new)]
      /\ cache' = [cache EXCEPT ![u] = IF gone THEN NoStatus ELSE kept]
  BY <1>0, Zenon DEF syncStatus, workerVars
<1>2. api'[u] = new BY <1>0, <1>1, Zenon
<1>3. gone \/ ~gone BY Zenon
<1>. HIDE DEF sent, kept, gone
<1>4. \/ api' = [api EXCEPT ![u] = Absent] /\ cache' = [cache EXCEPT ![u] = NoStatus]
      \/ api' = [api EXCEPT ![u] = sent] /\ cache' = [cache EXCEPT ![u] = kept]
  BY <1>1, <1>3, Zenon
<1>. HIDE DEF new
<1>5. /\ \A x \in Pods \ {u} : watch'[x] = watch[x]
      /\ watch'[u] \in {watch[u], Append(watch[u], api'[u])}
  BY <1>0, <1>1, <1>2, Zenon
<1>. QED BY <1>1, <1>4, <1>5, Zenon DEF sent, kept

LEMMA VersionElems ==
  ASSUME NEW q \in Seq(Version), NEW v \in Version, NEW p \in {q, Append(q, v)}
  PROVE  Elems(p) \subseteq Elems(q) \cup {v}
BY ElemsFacts, Zenon

LEMMA SyncStatusAgreed ==
  ASSUME WorkerInv, PhaseInv, NEW u \in Pods, syncStatus(u)
  PROVE  PhaseInv'
<1> DEFINE sent == [api[u] EXCEPT !.ph = mergePodStatus(u)]
           kept == [cache[u] EXCEPT !.dirty = FALSE]
<1>0. /\ api \in [Pods -> Version] /\ api[u] \in Version
      /\ watch \in [Pods -> Seq(Version)] /\ watch[u] \in Seq(Version)
      /\ cache \in [Pods -> Status] /\ cache[u] \in Status /\ TypeOK
  BY Zenon DEF WorkerInv, TypeOK
<1>1. /\ u \in ApiPods /\ api[u].ex /\ cache[u].ex
      /\ UNCHANGED <<wk, run, cfg, hosted>>
      /\ \/ api' = [api EXCEPT ![u] = Absent] /\ cache' = [cache EXCEPT ![u] = NoStatus]
         \/ api' = [api EXCEPT ![u] = sent] /\ cache' = [cache EXCEPT ![u] = kept]
      /\ \A x \in Pods \ {u} : watch'[x] = watch[x]
      /\ watch'[u] \in {watch[u], Append(watch[u], api'[u])}
  BY StatusReported, Zenon
<1>2. \A x \in Pods \ {u} : api'[x] = api[x] /\ cache'[x] = cache[x]
  BY <1>0, <1>1, Zenon
<1>3. /\ Agreed(u, api[u], watch[u], cfg[u], cache[u], wk[u], run[u])
      /\ Configured(wk[u]) /\ u \notin hosted
  BY <1>1, Zenon DEF PhaseInv
<1>4. CASE api'[u] = Absent
  <2>1. ~Absent.ex BY Zenon DEF Absent
  <2>2. Agreed(u, api'[u], watch'[u], cfg'[u], cache'[u], wk'[u], run'[u])
    BY <1>4, <2>1, Zenon DEF Agreed
  <2>. QED BY <1>1, <1>2, <1>3, <2>2, OneAgreed, Zenon
<1>5. CASE api'[u] = sent /\ cache'[u] = kept
  <2>1. mergePodStatus(u) \in Phases BY <1>0, PhaseType, Zenon DEF Phases
  <2>2. /\ sent \in Version /\ sent.ex = api[u].ex /\ sent.bad = api[u].bad
        /\ sent.ph = mergePodStatus(u)
    BY <1>0, <2>1, Zenon DEF Version
  <2>3. kept.ex = cache[u].ex /\ kept.ph = cache[u].ph
    BY <1>0, Zenon DEF Status
  <2>. HIDE DEF sent, kept
  <2>4. \/ sent.ph = api[u].ph
        \/ /\ ~Terminal(api[u].ph)
           /\ Terminal(sent.ph) => Settled(cache[u]) /\ cache[u].ph = sent.ph
    <3>1. CASE Terminal(api[u].ph)
      <4>1. cache[u].ph = api[u].ph BY <1>1, <1>3, <3>1, Zenon DEF Agreed
      <4>. QED BY <2>2, <3>1, <4>1, Zenon DEF mergePodStatus
    <3>2. CASE ~Terminal(api[u].ph)
      BY <1>1, <2>2, <3>2, Zenon DEF mergePodStatus, Settled
    <3>. QED BY <3>1, <3>2, Zenon
  <2>5. Elems(watch'[u]) \subseteq Elems(watch[u]) \cup {sent}
    BY <1>0, <1>1, <1>5, <2>2, VersionElems, Zenon
  <2>6. Agreed(u, sent, watch'[u], cfg[u], cache[u], wk[u], run[u])
    BY <1>3, <2>2, <2>4, <2>5, AgreedVersion, Zenon
  <2>7. Agreed(u, sent, watch'[u], cfg[u], kept, wk[u], run[u])
    BY <2>3, <2>6, AgreedStatus, Zenon
  <2>. QED BY <1>1, <1>2, <1>3, <1>5, <2>7, OneAgreed, Zenon
<1>6. api'[u] = Absent \/ (api'[u] = sent /\ cache'[u] = kept)
  <2>. HIDE DEF sent, kept
  <2>. QED BY <1>0, <1>1, Zenon
<1>. QED BY <1>4, <1>5, <1>6, Zenon

\* The API server's own changes.
LEMMA VersionAgreed ==
  ASSUME WorkerInv, ApiInv, PhaseInv, NEW u \in Pods,
         CreatePod(u) \/ DeletePod(u) \/ RemovePod(u)
  PROVE  PhaseInv'
<1>0. /\ api \in [Pods -> Version] /\ api[u] \in Version /\ Sound(wk[u])
      /\ watch \in [Pods -> Seq(Version)] /\ watch[u] \in Seq(Version)
  BY Zenon DEF WorkerInv, TypeOK
<1>1. PICK v : SetApi(u, v) /\ \/ v = [api[u] EXCEPT !.del = TRUE]
                               \/ v = Absent
                               \/ CreatePod(u) /\ \E bad \in BOOLEAN : v = [Present EXCEPT !.bad = bad]
  BY Zenon DEF CreatePod, DeletePod, RemovePod
<1>2. /\ UNCHANGED <<wk, run, cfg, cache>>
      /\ api'[u] = v /\ watch'[u] = Append(watch[u], v)
      /\ \A x \in Pods \ {u} : api'[x] = api[x] /\ watch'[x] = watch[x]
      /\ hosted' \subseteq hosted
  BY <1>0, <1>1, Zenon DEF SetApi, workerVars, CreatePod, DeletePod, RemovePod
<1>3. u \in ApiPods => /\ Agreed(u, api[u], watch[u], cfg[u], cache[u], wk[u], run[u])
                       /\ Configured(wk[u]) /\ (u \in hosted => ~cache[u].ex)
  BY Zenon DEF PhaseInv
<1>4. ASSUME u \in ApiPods PROVE Agreed(u, v, watch'[u], cfg[u], cache[u], wk[u], run[u])
  <2>1. CASE v = [api[u] EXCEPT !.del = TRUE]
    <3>1. v \in Version /\ v.ex = api[u].ex /\ v.bad = api[u].bad /\ v.ph = api[u].ph
      BY <1>0, <2>1, Zenon DEF Version
    <3>2. Elems(watch'[u]) \subseteq Elems(watch[u]) \cup {v}
      BY <1>0, <1>2, <3>1, VersionElems, Zenon
    <3>. QED BY <1>3, <1>4, <3>1, <3>2, AgreedVersion, Zenon
  <2>2. CASE v = Absent
    <3>1. ~v.ex BY <2>2, Zenon DEF Absent
    <3>. QED BY <3>1, Zenon DEF Agreed
  <2>3. ASSUME CreatePod(u), NEW bad \in BOOLEAN, v = [Present EXCEPT !.bad = bad]
        PROVE  Agreed(u, v, watch'[u], cfg[u], cache[u], wk[u], run[u])
    <3>1. v.ph = "Pending" BY <2>3, Zenon DEF Present, Absent
    <3>2. u \in hosted BY <2>3, Zenon DEF CreatePod
    <3>3. ~cfg[u].ex /\ watch[u] = <<>> /\ wk[u] = Unknown /\ ~cache[u].ex
      BY <1>0, <1>3, <1>4, <3>2, Zenon DEF ApiInv, Reported, ToCome, Sound
    <3>4. watch'[u] = <<v>> BY <1>2, <3>3
    <3>5. Elems(<<v>>) = {v} BY <1>0, ElemsFacts, Zenon
    <3>6. SameEnd(v, v) /\ SameEnd(NoWork, v) /\ ~Terminal(v.ph)
      BY <3>1, PhaseFacts, Zenon DEF SameEnd
    <3>7. Works(wk[u]) = {NoWork} BY <3>3, UnknownFacts, Zenon
    <3>8. /\ \A x \in Elems(watch'[u]) : SameEnd(x, v)
          /\ \A x \in Works(wk[u]) : SameEnd(x, v) /\ x = NoWork
      BY <3>4, <3>5, <3>6, <3>7, Zenon
    <3>9. ~Settled(cache[u]) BY <3>3, Zenon DEF Settled
    <3>. QED BY <3>3, <3>6, <3>8, <3>9, Zenon DEF Agreed
  <2>. QED BY <1>1, <2>1, <2>2, <2>3, Zenon
<1>. QED BY <1>2, <1>3, <1>4, OneAgreed, Zenon

\* A call of UpdatePod on pod u's worker.
LEMMA CallAgreed ==
  ASSUME WorkerInv, NEW u \in Pods, NEW o \in Options, CallUpdatePod(u, o),
         Configured(wk[u]),
         NEW q, NEW k, NEW s, Agreed(u, api[u], q, k, s, wk[u], run[u]),
         api[u].ex => /\ SameEnd(o, api[u]) /\ (k.ex \/ o.runtime)
                      /\ Terminal(api[u].ph) => Settled(s) \/ o.runtime \/ Terminal(o.ph)
  PROVE  /\ Agreed(u, api[u], q, k, s, wk'[u], run[u]) /\ Configured(wk'[u])
         /\ \A x \in Pods \ {u} : wk'[x] = wk[x]
<1> DEFINE v == UpdatePod(u, wk[u], o)
<1>0. wk \in [Pods -> Worker] /\ wk[u] \in Worker /\ Sound(wk[u])
  BY Zenon DEF WorkerInv, TypeOK
<1>1. wk'[u] = v /\ \A x \in Pods \ {u} : wk'[x] = wk[x]
  BY <1>0, Zenon DEF CallUpdatePod
<1>2. /\ \A x \in Works(v) : x \in Works(wk[u]) \/ x = NoWork \/ Added(x, o)
      /\ NoStart(wk[u]) => NoStart(v)
  BY <1>0, UpdatePodWorks, Zenon
<1>. HIDE DEF v
<1>3. Agreed(u, api[u], q, k, s, v, run[u])
  BY <1>2, AgreedCall, Zenon DEF Added
<1>4. Configured(v)
  BY <1>2, PhaseFacts, Zenon DEF Configured, Added
<1>. QED BY <1>1, <1>3, <1>4, Zenon

\* What the options made of a version say.
LEMMA OptFacts ==
  ASSUME NEW kind, NEW v
  PROVE  /\ Opt(kind, v).ph = v.ph /\ Opt(kind, v).runtime = FALSE
         /\ \A a : SameEnd(v, a) => SameEnd(Opt(kind, v), a)
<1>1. Opt(kind, v).ph = v.ph /\ Opt(kind, v).runtime = FALSE BY Zenon DEF Opt
<1>. QED BY <1>1, Zenon DEF SameEnd

LEMMA EventAgreed ==
  ASSUME WorkerInv, ApiInv, PhaseInv, NEW u \in Pods, HandlePodSyncByUID(u) \/ Exit(u)
  PROVE  PhaseInv'
<1>0. /\ cfg[u] \in Version /\ run \in [Pods -> {"none", "up", "ok", "bad"}]
  BY Zenon DEF WorkerInv, TypeOK
<1>1. UNCHANGED <<api, watch, cfg, cache, hosted>>
  BY Zenon DEF HandlePodSyncByUID, Exit, sourceVars
<1>2. u \in ApiPods => /\ Agreed(u, api[u], watch[u], cfg[u], cache[u], wk[u], run[u])
                       /\ Configured(wk[u]) /\ (u \in hosted => ~cache[u].ex)
  BY Zenon DEF PhaseInv
<1>3. CASE UNCHANGED <<wk, run>>
  BY <1>1, <1>2, <1>3, OneAgreed, Zenon
<1>4. CASE HandlePodSyncByUID(u) /\ cfg[u].ex
  <2> DEFINE o == Opt("sync", cfg[u])
  <2>1. CallUpdatePod(u, o) /\ UNCHANGED run BY <1>4, Zenon DEF HandlePodSyncByUID
  <2>2. o \in Options BY <1>0, OptType, Zenon
  <2>3. o.ph = cfg[u].ph /\ (SameEnd(cfg[u], api[u]) => SameEnd(o, api[u])) BY OptFacts, Zenon
  <2>. HIDE DEF o
  <2>4. \A x \in Pods \ {u} : wk'[x] = wk[x]
    BY <2>1, Zenon DEF CallUpdatePod, WorkerInv, TypeOK
  <2>5. ASSUME u \in ApiPods
        PROVE  /\ Agreed(u, api[u], watch[u], cfg[u], cache[u], wk'[u], run[u])
               /\ Configured(wk'[u])
    <3>1. api[u].ex => /\ SameEnd(o, api[u]) /\ (cfg[u].ex \/ o.runtime)
                       /\ Terminal(api[u].ph) => Settled(cache[u]) \/ o.runtime \/ Terminal(o.ph)
      BY <1>2, <1>4, <2>3, <2>5, Zenon DEF Agreed, AllOver
    <3>. QED BY <1>2, <2>1, <2>2, <2>5, <3>1, CallAgreed, Zenon
  <2>. QED BY <1>1, <1>2, <2>1, <2>4, <2>5, OneAgreed, Zenon
<1>5. CASE Exit(u)
  <2>1. UNCHANGED wk /\ run[u] = "up" /\ \A x \in Pods \ {u} : run'[x] = run[x]
    BY <1>0, <1>5, Zenon DEF Exit, SetRun, workerVars
  <2>2. u \in ApiPods => Agreed(u, api[u], watch[u], cfg[u], cache[u], wk[u], run'[u])
    BY <1>2, <2>1, AgreedRun, Zenon
  <2>. QED BY <1>1, <1>2, <2>1, <2>2, OneAgreed, Zenon
<1>6. HandlePodSyncByUID(u) => cfg[u].ex \/ UNCHANGED <<wk, run>>
  BY Zenon DEF HandlePodSyncByUID, workerVars
<1>. QED BY <1>3, <1>4, <1>5, <1>6, Zenon

\* Static pods have no version in the API server.
LEMMA FilesAgreed ==
  ASSUME WorkerInv, PhaseInv, MergeFiles \/ WriteFiles
  PROVE  PhaseInv'
<1>1. UNCHANGED <<api, watch, run, hosted>>
  BY Zenon DEF MergeFiles, WriteFiles, sourceVars
<1>2. \A x \in ApiPods : wk'[x] = wk[x] /\ cfg'[x] = cfg[x] /\ cache'[x] = cache[x]
  <2>1. CASE MergeFiles
    <3>1. PICK u \in StaticPods : HandlePodRemoves(u) \/ HandlePodAdditions(u, Present)
      BY <2>1, Zenon DEF MergeFiles, WorkerInv, TypeOK
    <3>2. u \notin ApiPods /\ u \in Pods
      BY PodsAssumption, Zenon DEF Pods
    <3>. QED BY <3>1, <3>2, Zenon
    DEF HandlePodRemoves, HandlePodAdditions, CallUpdatePod, SetPodStatus, workerVars, Pods,
        WorkerInv, TypeOK
  <2>2. CASE WriteFiles BY <2>2, Zenon DEF WriteFiles, workerVars
  <2>. QED BY <2>1, <2>2, Zenon
<1>. QED BY <1>1, <1>2, Zenon DEF PhaseInv

\* A restarted agent knows nothing, and lists what the API server has.
LEMMA RestartAgreed ==
  ASSUME WorkerInv, PhaseInv, Restart
  PROVE  PhaseInv'
<1>. SUFFICES ASSUME NEW u \in ApiPods
              PROVE  /\ Agreed(u, api'[u], watch'[u], cfg'[u], cache'[u], wk'[u], run'[u])
                     /\ Configured(wk'[u]) /\ ~cache'[u].ex
  BY Zenon DEF PhaseInv
<1>0. u \in Pods BY Zenon DEF Pods
<1>1. /\ wk'[u] = Unknown /\ cfg'[u] = Absent /\ cache'[u] = NoStatus
      /\ UNCHANGED <<run, api>> /\ (api[u].ex => watch'[u] = <<api[u]>>)
  BY <1>0, Zenon DEF Restart
<1>2. ~NoStatus.ex /\ ~Settled(NoStatus) /\ ~Absent.ex BY Zenon DEF NoStatus, Absent, Settled
<1>3. ASSUME api[u].ex PROVE Agreed(u, api[u], <<api[u]>>, Absent, NoStatus, Unknown, run[u])
  <2>1. Elems(<<api[u]>>) = {api[u]}
    <3>1. <<>> \in Seq({}) OBVIOUS
    <3>. QED BY <3>1, ElemsFacts, Zenon
  <2>2. \A x \in Works(Unknown) : x = NoWork BY UnknownFacts, Zenon
  <2>3. SameEnd(NoWork, api[u]) /\ SameEnd(api[u], api[u]) BY PhaseFacts, Zenon DEF SameEnd
  <2>4. Terminal(api[u].ph) => AllOver(<<api[u]>>, Absent, Unknown)
    BY <1>2, <2>1, <2>2, Zenon DEF AllOver
  <2>5. \A ph : Over(u, ph, api[u], wk[u], run[u]) => Over(u, ph, api[u], Unknown, run[u])
    BY UnknownFacts, Zenon DEF Over
  <2>6. Terminal(api[u].ph) => Over(u, api[u].ph, api[u], wk[u], run[u])
    BY <1>3, Zenon DEF PhaseInv, Agreed
  <2>7. /\ \A x \in Elems(<<api[u]>>) : SameEnd(x, api[u])
        /\ \A x \in Works(Unknown) : SameEnd(x, api[u])
    BY <2>1, <2>2, <2>3, Zenon
  <2>. QED BY <1>2, <2>2, <2>4, <2>5, <2>6, <2>7, Zenon DEF Agreed
<1>4. ~api[u].ex => Agreed(u, api[u], watch'[u], Absent, NoStatus, Unknown, run[u])
  BY Zenon DEF Agreed
<1>. QED BY <1>1, <1>2, <1>3, <1>4, UnknownFacts, Zenon

LEMMA MergeAgreed ==
  ASSUME WorkerInv, ApiInv, PhaseInv, NEW u \in Pods, Merge(u)
  PROVE  PhaseInv'
<1> DEFINE v == Head(watch[u])
           rest == Tail(watch[u])
<1>0. /\ wk \in [Pods -> Worker] /\ cfg \in [Pods -> Version] /\ cfg[u] \in Version
      /\ cache \in [Pods -> Status] /\ watch \in [Pods -> Seq(Version)]
      /\ watch[u] \in Seq(Version) /\ watch[u] # <<>>
  BY Zenon DEF WorkerInv, TypeOK, Merge
<1>1. /\ watch' = [watch EXCEPT ![u] = rest] /\ UNCHANGED <<run, hosted, api>>
      /\ \/ v.ex /\ ~cfg[u].ex /\ HandlePodAdditions(u, v)
         \/ ~v.ex /\ cfg[u].ex /\ HandlePodRemoves(u)
         \/ v.ex /\ cfg[u].ex /\ v.del # cfg[u].del /\ HandlePodUpdates(u, v)
         \/ v.ex = cfg[u].ex /\ v.del = cfg[u].del /\ HandlePodReconcile(u, v)
  BY Zenon DEF Merge
<1>2. v \in Version /\ v = watch[u][1] /\ 1 \in DOMAIN watch[u]
  BY <1>0
<1>3. v \in Elems(watch[u]) /\ Elems(rest) \subseteq Elems(watch[u])
  BY <1>0, ElemsFacts, Zenon
<1>. HIDE DEF v, rest
<1>4. /\ \A x \in Pods \ {u} : /\ wk'[x] = wk[x] /\ cfg'[x] = cfg[x]
                               /\ watch'[x] = watch[x] /\ cache'[x] = cache[x]
      /\ watch'[u] = rest
  BY <1>0, <1>1, Zenon DEF HandlePodAdditions, HandlePodRemoves, HandlePodUpdates,
                          HandlePodReconcile, CallUpdatePod, SetPodStatus, workerVars
<1>5. ASSUME u \in ApiPods
      PROVE  /\ Agreed(u, api[u], rest, cfg'[u], cache'[u], wk'[u], run[u])
             /\ Configured(wk'[u]) /\ u \notin hosted
  <2>0. /\ Agreed(u, api[u], watch[u], cfg[u], cache[u], wk[u], run[u]) /\ Configured(wk[u])
        /\ History(u) /\ Rejected(u) /\ u \notin hosted
    BY <1>0, <1>5, Zenon DEF PhaseInv, ApiInv, Reported, ToCome
  <2>1. api[u].ex => v.ex /\ api[u].bad = v.bad
    BY <1>2, <2>0, Zenon DEF History, Follows
  <2>2. Agreed(u, api[u], rest, v, cache[u], wk[u], run[u])
    BY <1>3, <2>0, <2>1, AgreedMerge, Zenon
  <2>3. ASSUME NEW kind \in {"create", "update", "sync", "kill"}, CallUpdatePod(u, Opt(kind, v)), v.ex,
               cfg'[u] = v, UNCHANGED cache
        PROVE  /\ Agreed(u, api[u], rest, cfg'[u], cache'[u], wk'[u], run[u])
               /\ Configured(wk'[u])
    <3> DEFINE o == Opt(kind, v)
    <3>1. o \in Options BY <1>2, OptType, Zenon
    <3>2. o.ph = v.ph /\ (SameEnd(v, api[u]) => SameEnd(o, api[u])) BY OptFacts, Zenon
    <3>3. CallUpdatePod(u, o) BY <2>3, Zenon
    <3>. HIDE DEF o
    <3>4. api[u].ex => /\ SameEnd(o, api[u]) /\ (v.ex \/ o.runtime)
                       /\ Terminal(api[u].ph) => Settled(cache[u]) \/ o.runtime \/ Terminal(o.ph)
      BY <2>2, <2>3, <3>2, Zenon DEF Agreed, AllOver
    <3>5. Agreed(u, api[u], rest, v, cache[u], wk'[u], run[u]) /\ Configured(wk'[u])
      BY <2>0, <2>2, <3>1, <3>3, <3>4, CallAgreed, Zenon
    <3>. QED BY <2>3, <3>5, Zenon
  <2>4. CASE v.ex /\ ~cfg[u].ex /\ HandlePodAdditions(u, v) /\ v.bad /\ ~wk[u].terminating
    <3>1. /\ cfg'[u] = v /\ UNCHANGED wk /\ SetPodStatus(u, "Failed", FALSE, v.del)
      BY <1>0, <2>4, Zenon DEF HandlePodAdditions, workerVars
    <3>2. PICK t : cache' = [cache EXCEPT ![u] = t] /\ t.ex /\ t.ph = "Failed"
      <4>1. PICK d : cache' = [cache EXCEPT ![u] =
                              [ex |-> TRUE, ph |-> "Failed", up |-> FALSE, dirty |-> d]]
        BY <3>1, Zenon DEF SetPodStatus
      <4> DEFINE t == [ex |-> TRUE, ph |-> "Failed", up |-> FALSE, dirty |-> d]
      <4>2. cache' = [cache EXCEPT ![u] = t] /\ t.ex /\ t.ph = "Failed" BY <4>1, Zenon
      <4>. HIDE DEF t
      <4>. QED BY <4>2, Zenon
    <3>3. cache'[u] = t BY <1>0, <3>2, Zenon
    <3>4. run[u] = "none" /\ NoStart(wk[u])
      BY <1>2, <2>0, <2>4, Zenon DEF Rejected, BadVersion, NoSync, NoStart
    <3>5. Agreed(u, api[u], rest, v, t, wk[u], run[u])
      BY <2>1, <2>2, <2>4, <3>2, <3>4, AgreedRejected, Zenon
    <3>. QED BY <2>0, <3>1, <3>3, <3>5, Zenon
  <2>5. CASE v.ex /\ ~cfg[u].ex /\ HandlePodAdditions(u, v) /\ ~(v.bad /\ ~wk[u].terminating)
    <3>1. CallUpdatePod(u, Opt("create", v)) /\ cfg'[u] = v /\ UNCHANGED cache
      BY <1>0, <2>5, Zenon DEF HandlePodAdditions
    <3>. QED BY <2>0, <2>3, <2>5, <3>1, Zenon
  <2>6. CASE ~v.ex /\ cfg[u].ex /\ HandlePodRemoves(u)
    <3>1. CallUpdatePod(u, Opt("kill", cfg[u])) /\ Opt("kill", cfg[u]) \in Options
      BY <1>0, <2>6, OptType, Zenon DEF HandlePodRemoves
    <3>2. ~api[u].ex BY <2>1, <2>6, Zenon
    <3>3. \A k, s, w : Agreed(u, api[u], rest, k, s, w, run[u]) BY <3>2, Zenon DEF Agreed
    <3>4. Configured(wk'[u]) BY <2>0, <3>1, <3>2, <3>3, CallAgreed, Zenon
    <3>. QED BY <2>0, <3>3, <3>4, Zenon
  <2>7. CASE v.ex /\ cfg[u].ex /\ v.del # cfg[u].del /\ HandlePodUpdates(u, v)
    <3>1. CallUpdatePod(u, Opt("update", v)) /\ cfg'[u] = v /\ UNCHANGED cache
      BY <1>0, <2>7, Zenon DEF HandlePodUpdates
    <3>. QED BY <2>0, <2>3, <2>7, <3>1, Zenon
  <2>8. CASE v.ex = cfg[u].ex /\ v.del = cfg[u].del /\ HandlePodReconcile(u, v)
    <3>1. wk' = wk /\ cfg'[u] = v /\ cache' = cache
      BY <1>0, <2>8, Zenon DEF HandlePodReconcile, workerVars
    <3>. QED BY <2>0, <2>2, <3>1, Zenon
  <2>. QED BY <1>1, <2>4, <2>5, <2>6, <2>7, <2>8, Zenon
<1>. QED BY <1>1, <1>4, <1>5, OneAgreed, Zenon

\* Housekeeping: a pod's status is dropped with its configuration; workers are
\* forgotten, or called for orphans and for pods to start again.
LEMMA CleanupsAgreed ==
  ASSUME WorkerInv, ApiInv, PhaseInv, HandlePodCleanups
  PROVE  PhaseInv'
<1>. SUFFICES ASSUME NEW u \in ApiPods
              PROVE  /\ Agreed(u, api'[u], watch'[u], cfg'[u], cache'[u], wk'[u], run'[u])
                     /\ Configured(wk'[u]) /\ (u \in hosted' => ~cache'[u].ex)
  BY Zenon DEF PhaseInv
<1> DEFINE w == IF Forgotten(wk[u], cfg[u].ex) THEN Unknown ELSE wk[u]
           s == IF cfg[u].ex THEN cache[u] ELSE NoStatus
           kill == [kind |-> "kill", runtime |-> TRUE, del |-> FALSE, ph |-> "Pending"]
           orphan == run[u] = "up" /\ ~cfg[u].ex /\ ~(wk[u].known /\ ~wk[u].terminated)
           create == Opt("create", cfg[u])
<1>0. u \in Pods /\ wk[u] \in Worker /\ Sound(wk[u]) /\ cfg[u] \in Version
  BY Zenon DEF WorkerInv, TypeOK, Pods
<1>1. /\ UNCHANGED <<run, api, cfg, watch, hosted>> /\ cache'[u] = s
      /\ wk'[u] = IF orphan THEN UpdatePod(u, w, kill)
                  ELSE IF Restartable(u) THEN UpdatePod(u, w, create) ELSE w
  BY <1>0, Zenon DEF HandlePodCleanups, sourceVars
<1>2. w \in Worker /\ Sound(w)
  BY <1>0, ConstantTypes, UnknownSound, Zenon
<1>3. /\ Agreed(u, api[u], watch[u], cfg[u], cache[u], wk[u], run[u])
      /\ Configured(wk[u]) /\ (u \in hosted => ~cache[u].ex)
  BY Zenon DEF PhaseInv
<1>4. ~NoStatus.ex BY Zenon DEF NoStatus
<1>5. u \in hosted => ~s.ex BY <1>3, <1>4, Zenon
<1>6. Agreed(u, api[u], watch[u], cfg[u], s, wk[u], run[u])
  <2>1. CASE cfg[u].ex BY <1>3, <2>1, Zenon
  <2>2. CASE ~cfg[u].ex /\ api[u].ex
    <3>1. ~cache[u].ex BY <1>3, <2>2, Zenon DEF Agreed
    <3>2. ~s.ex BY <1>4, <2>2, Zenon
    <3>3. ~Settled(s) /\ ~Settled(cache[u]) BY <3>1, <3>2, Zenon DEF Settled
    <3>. HIDE DEF s
    <3>. QED BY <1>3, <3>1, <3>2, <3>3, Zenon DEF Agreed
  <2>3. CASE ~api[u].ex BY <2>3, Zenon DEF Agreed
  <2>. QED BY <2>1, <2>2, <2>3, Zenon
<1>7. /\ Agreed(u, api[u], watch[u], cfg[u], s, w, run[u]) /\ Configured(w)
  <2>1. CASE w = wk[u] BY <1>3, <1>6, <2>1, Zenon
  <2>2. CASE w = Unknown
    <3>1. Inherits(Unknown, wk[u]) /\ NoStart(Unknown) /\ Configured(Unknown)
      BY UnknownFacts, Zenon DEF Inherits
    <3>2. Agreed(u, api[u], watch[u], cfg[u], s, Unknown, run[u])
      <4>. HIDE DEF s
      <4>. QED BY <1>6, <3>1, AgreedWork, Zenon
    <3>. QED BY <2>2, <3>1, <3>2, Zenon
  <2>. QED BY <2>1, <2>2, Zenon
<1>8. ASSUME NEW o \in Options,
             api[u].ex => /\ SameEnd(o, api[u]) /\ (cfg[u].ex \/ o.runtime)
                          /\ Terminal(api[u].ph) => Settled(s) \/ o.runtime \/ Terminal(o.ph)
      PROVE  /\ Agreed(u, api[u], watch[u], cfg[u], s, UpdatePod(u, w, o), run[u])
             /\ Configured(UpdatePod(u, w, o))
  <2> DEFINE v == UpdatePod(u, w, o)
  <2>1. /\ \A x \in Works(v) : x \in Works(w) \/ x = NoWork \/ Added(x, o)
        /\ NoStart(w) => NoStart(v)
    BY <1>0, <1>2, UpdatePodWorks, Zenon
  <2>. HIDE DEF v, w, s
  <2>2. Agreed(u, api[u], watch[u], cfg[u], s, v, run[u])
    BY <1>7, <1>8, <2>1, AgreedCall, Zenon DEF Added
  <2>3. Configured(v) BY <1>7, <2>1, PhaseFacts, Zenon DEF Configured, Added
  <2>. QED BY <2>2, <2>3, Zenon DEF v
<1>. HIDE DEF w
<1>9. /\ Agreed(u, api[u], watch[u], cfg[u], s, UpdatePod(u, w, kill), run[u])
      /\ Configured(UpdatePod(u, w, kill))
  <2>1. kill \in Options /\ kill.runtime /\ kill.ph = "Pending" BY Zenon DEF Options, Phases
  <2>. HIDE DEF kill, s
  <2>2. SameEnd(kill, api[u]) BY <2>1, PhaseFacts, Zenon DEF SameEnd
  <2>. QED BY <1>8, <2>1, <2>2, Zenon
<1>10. Restartable(u) => /\ Agreed(u, api[u], watch[u], cfg[u], s, UpdatePod(u, w, create), run[u])
                         /\ Configured(UpdatePod(u, w, create))
  <2>1. create \in Options /\ create.ph = cfg[u].ph BY <1>0, OptType, OptFacts, Zenon
  <2>2. SameEnd(cfg[u], api[u]) => SameEnd(create, api[u]) BY OptFacts, Zenon
  <2>3. Restartable(u) => cfg[u].ex BY Zenon DEF Restartable
  <2>. HIDE DEF create, s
  <2>4. Restartable(u) /\ api[u].ex =>
          /\ SameEnd(create, api[u])
          /\ Terminal(api[u].ph) => Settled(s) \/ Terminal(create.ph)
    BY <1>7, <2>1, <2>2, <2>3, Zenon DEF Agreed, AllOver
  <2>. QED BY <1>8, <2>1, <2>3, <2>4, Zenon
<1>. HIDE DEF s, kill, create, orphan
<1>11. Agreed(u, api[u], watch[u], cfg[u], s, wk'[u], run[u]) /\ Configured(wk'[u])
  <2>1. CASE orphan
    <3>1. wk'[u] = UpdatePod(u, w, kill) BY <1>1, <2>1, Zenon
    <3>. QED BY <1>9, <3>1, Zenon
  <2>2. CASE ~orphan /\ Restartable(u)
    <3>1. wk'[u] = UpdatePod(u, w, create) BY <1>1, <2>2, Zenon
    <3>. QED BY <1>10, <2>2, <3>1, Zenon
  <2>3. CASE ~orphan /\ ~Restartable(u)
    <3>1. wk'[u] = w BY <1>1, <2>3, Zenon
    <3>. QED BY <1>7, <3>1, Zenon
  <2>. QED BY <2>1, <2>2, <2>3, Zenon
<1>. QED BY <1>1, <1>5, <1>11, Zenon

LEMMA PhaseInit == Init => PhaseInv
<1>. SUFFICES ASSUME Init, NEW u \in ApiPods
              PROVE  /\ Agreed(u, api[u], watch[u], cfg[u], cache[u], wk[u], run[u])
                     /\ Configured(wk[u]) /\ ~cache[u].ex
  BY Zenon DEF PhaseInv
<1>1. wk[u] = Unknown /\ api[u] = Absent /\ cache[u] = NoStatus
  BY Zenon DEF Init, WorkersInit, Pods
<1>2. ~Absent.ex /\ ~NoStatus.ex BY Zenon DEF Absent, NoStatus
<1>. QED BY <1>1, <1>2, UnknownFacts, Zenon DEF Agreed

LEMMA PhaseNext == WorkerInv /\ ApiInv /\ PhaseInv /\ [Next]_vars => PhaseInv'
<1>. SUFFICES ASSUME WorkerInv, ApiInv, PhaseInv, [Next]_vars PROVE PhaseInv'
  BY Zenon
<1>1. CASE UNCHANGED vars
  <2>1. UNCHANGED <<wk, run, api, cfg, watch, cache, hosted>>
    BY <1>1, Zenon DEF vars
  <2>. QED BY <2>1, Zenon DEF PhaseInv
<1>2. CASE Outside
  BY <1>2, SyncStatusAgreed, VersionAgreed, EventAgreed, MergeAgreed, FilesAgreed,
     CleanupsAgreed, RestartAgreed, Zenon DEF Outside
<1>. QED BY <1>1, <1>2, NextSplit, WorkerStepAgreed, Zenon

\* What becomes of the versions in the API server.
LEMMA VersionsMade ==
  ASSUME WorkerInv, ApiInv, PhaseInv, [Next]_vars, NEW u \in ApiPods
  PROVE  \/ api'[u] = api[u] \/ api'[u] = Absent
         \/ /\ api'[u].ex
            /\ api[u].ex /\ Terminal(api[u].ph) => api'[u].ph = api[u].ph
<1>0. u \in Pods /\ api \in [Pods -> Version] /\ api[u] \in Version /\ TypeOK
  BY Zenon DEF WorkerInv, TypeOK, Pods
<1>1. ASSUME api'[u] # api[u]
      PROVE  \E v \in Pods : syncStatus(v) \/ CreatePod(v) \/ DeletePod(v) \/ RemovePod(v)
  <2>1. \A v \in Pods : ~WorkerStep(v) /\ ~RuntimeError(v)
    BY <1>1, Zenon DEF WorkerStep, managePodLoop, Unstarted, syncPodTerminal, syncPod, syncPodCanceled,
                syncTerminatingPod, syncTerminatedPod, Completes, RuntimeError, sourceVars
  <2>2. \A v \in Pods : ~Merge(v) /\ ~HandlePodSyncByUID(v) /\ ~Exit(v)
    BY <1>1, Zenon DEF Merge, HandlePodSyncByUID, Exit, sourceVars
  <2>3. ~MergeFiles /\ ~HandlePodCleanups /\ ~WriteFiles /\ ~Restart /\ ~UNCHANGED vars
    BY <1>1, Zenon DEF MergeFiles, HandlePodCleanups, WriteFiles, Restart, sourceVars, vars
  <2>. QED BY <2>1, <2>2, <2>3, NextSplit, Zenon DEF Outside
<1>2. ASSUME NEW v \in Pods, v # u,
             syncStatus(v) \/ CreatePod(v) \/ DeletePod(v) \/ RemovePod(v)
      PROVE  api'[u] = api[u]
  <2>1. \E x : api' = [api EXCEPT ![v] = x]
    BY <1>2, Zenon DEF syncStatus, CreatePod, DeletePod, RemovePod, SetApi
  <2>. QED BY <1>0, <1>2, <2>1, Zenon
<1>3. ASSUME DeletePod(u) PROVE api'[u].ex /\ api'[u].ph = api[u].ph
  <2>1. api[u].ex /\ api'[u] = [api[u] EXCEPT !.del = TRUE]
    BY <1>0, <1>3, Zenon DEF DeletePod, SetApi
  <2>. QED BY <1>0, <2>1, Zenon DEF Version
<1>4. RemovePod(u) => api'[u] = Absent
  BY <1>0, Zenon DEF RemovePod, SetApi
<1>5. ASSUME CreatePod(u) PROVE api'[u].ex /\ ~api[u].ex
  <2>1. PICK bad \in BOOLEAN : api'[u] = [Present EXCEPT !.bad = bad]
    BY <1>0, <1>5, Zenon DEF CreatePod, SetApi
  <2>2. api'[u].ex BY <2>1, Zenon DEF Present, Absent
  <2>. QED BY <1>5, <2>2, Zenon DEF CreatePod, ApiInv, Reported, ToCome
<1>6. ASSUME syncStatus(u), api'[u] # Absent
      PROVE  api'[u].ex /\ (Terminal(api[u].ph) => api'[u].ph = api[u].ph)
  <2> DEFINE sent == [api[u] EXCEPT !.ph = mergePodStatus(u)]
  <2>1. api[u].ex /\ cache[u].ex /\ api'[u] = sent
    BY <1>0, <1>6, StatusReported, Zenon
  <2>2. sent.ex = api[u].ex /\ sent.ph = mergePodStatus(u)
    BY <1>0, Zenon DEF Version
  <2>3. Terminal(api[u].ph) => cache[u].ph = api[u].ph
    BY <2>1, Zenon DEF PhaseInv, Agreed
  <2>. HIDE DEF sent
  <2>. QED BY <2>1, <2>2, <2>3, Zenon DEF mergePodStatus
<1>. QED BY <1>1, <1>2, <1>3, <1>4, <1>5, <1>6, Zenon

\* A pod that is not in the API server has no version there.
Gone == \A u \in ApiPods : ~api[u].ex => api[u] = Absent

LEMMA GoneInit == Init => Gone
BY Zenon DEF Init, Gone, Pods

LEMMA GoneNext == WorkerInv /\ ApiInv /\ PhaseInv /\ Gone /\ [Next]_vars => Gone'
BY VersionsMade, Zenon DEF Gone

LEMMA PhaseInvariants == Spec => [](WorkerInv /\ ApiInv /\ PhaseInv /\ Gone)
BY WorkerInit, WorkerNext, ApiInit, ApiNext, PhaseInit, PhaseNext, GoneInit, GoneNext, PTL DEF Spec

\* A pod whose phase in the API server is terminal has no running container,
\* whatever the agent saw, missed or forgot: for any number of pods, versions,
\* runtime errors and restarts.
THEOREM TerminalPodsAreStopped == Spec => []TerminalMeansStopped
<1>1. ASSUME PhaseInv, Gone, NEW u \in ApiPods, Terminal(api[u].ph) PROVE run[u] # "up"
  <2>1. api[u].ex
    <3>1. Absent.ph = "Pending" BY Zenon DEF Absent
    <3>. QED BY <1>1, <3>1, PhaseFacts, Zenon DEF Gone
  <2>. QED BY <1>1, <2>1, Zenon DEF PhaseInv, Agreed, Over
<1>2. PhaseInv /\ Gone => TerminalMeansStopped
  BY <1>1, Zenon DEF TerminalMeansStopped
<1>. QED BY <1>2, PhaseInvariants, PTL

\* The agent never takes a pod's terminal phase in the API server back
\* (generateAPIPodStatus, mergePodStatus).
THEOREM TerminalPhasesStay == Spec => PhaseIsFinal
<1>1. WorkerInv /\ ApiInv /\ PhaseInv /\ [Next]_vars =>
        [\A u \in ApiPods : api[u].ex /\ Terminal(api[u].ph) /\ api'[u].ex
                              => api'[u].ph = api[u].ph]_vars
  <2>1. ~Absent.ex BY Zenon DEF Absent
  <2>. QED BY <2>1, VersionsMade, Zenon
<1>. QED BY <1>1, PhaseInvariants, PTL DEF Spec, PhaseIsFinal
=============================================================================
