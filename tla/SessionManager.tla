--------------------------- MODULE SessionManager ---------------------------
(***************************************************************************)
(* The sessions of the transport broker: pkg/transport/msq                 *)
(* session_manager.go, mem_control.go and dead_session_id.go.              *)
(*                                                                         *)
(* Goroutines push to, pop from and release sessions while the clean loop  *)
(* takes away sessions that nobody popped from for SessionExpireSeconds    *)
(* and forgets released names after DeadSessionIDExpireSeconds.  Each      *)
(* critical section is one action; a goroutine keeps the *SessionQueue it  *)
(* was given while others release, expire and re-create the session.       *)
(*                                                                         *)
(* A session queue is its messages' lengths in order and its released      *)
(* flag (SessionQueue.tla has its inside); every session has one topic.    *)
(***************************************************************************)
EXTENDS Integers, Sequences, FiniteSets, FiniteSetsExt

CONSTANTS Threads,                  \* goroutines that serve requests
          Sids,                     \* session names
          Sizes,                    \* message lengths
          TotalByteSizeLimit,       \* config
          PerSessionByteSizeLimit,  \* config
          SessionExpire,            \* SessionExpireSeconds
          DeadSessionIDExpire,      \* DeadSessionIDExpireSeconds
          NormalizeActive,          \* NormalizeActiveSeconds
          CleanHalfInterval,        \* half of CleanIntervalSeconds
          cleanStep,                \* items one round of cleaning looks at
          MaxTime,                  \* bound on the clock
          MaxSession                \* bound on sessions created

ASSUME ConfigAssumption ==
  /\ Sizes \subseteq Nat \ {0}
  /\ {TotalByteSizeLimit, PerSessionByteSizeLimit, SessionExpire, DeadSessionIDExpire,
      MaxTime, MaxSession} \subseteq Nat
  /\ {NormalizeActive, CleanHalfInterval, cleanStep} \subseteq Nat \ {0}

VARIABLES now,        \* seconds
          round,      \* StartCleanLoop's round
          nextRound,  \* when the loop runs again
          created,    \* sessions created so far; numbers them
          sessions,   \* name -> the session of that name, or none
          name,       \* session -> its name
          mark,       \* session -> ActiveMark.timestamp
          lastUse,    \* history: session -> when it was created or refreshed
          heap,       \* sessions whose ActiveMark is in activeSessionIDs
          queue,      \* session -> lengths of its messages
          released,   \* sessions whose queue is released
          dead,       \* names in deadSessionIDs, with the time they entered
          total,      \* memControl.totalByteSize
          at,         \* goroutine -> the step of its call it is about to take
          arg,        \* goroutine -> name, session and length it works with
          reaped      \* sessions the clean loop has still to release

time == <<now, round, nextRound>>
table == <<created, sessions, name, mark, lastUse, heap, dead>>
buffers == <<queue, released>>
calls == <<at, arg>>
vars == <<time, table, buffers, total, calls, reaped>>

None == 0
Session == 1..MaxSession
NoArg == [sid |-> None, sq |-> None, size |-> 0]
normalized(t) == t \div NormalizeActive

SumSeq(s) == MapThenSumSet(LAMBDA i : s[i], DOMAIN s)

Goto(g, step) == at' = [at EXCEPT ![g] = step]
Have(g, sq) == arg' = [arg EXCEPT ![g].sq = sq]
Return(g) == Goto(g, "idle") /\ arg' = [arg EXCEPT ![g] = NoArg]

(***************************************************************************)
(* MemControl.  A Release signals notFull once; a Prefetch that waits may  *)
(* also time out at any moment.                                            *)
(***************************************************************************)
fits(size) == total + size <= TotalByteSizeLimit

Woken(step) ==
  LET waiting == {g \in Threads : at[g] = "memwait"}
  IN IF waiting = {} THEN {step}
     ELSE {[step EXCEPT ![g] = "prefetch"] : g \in waiting}

Release(size, step) == total' = total - size /\ at' \in Woken(step)

(***************************************************************************)
(* The table of sessions.                                                  *)
(***************************************************************************)
\* getSessionAndVerifyRefresh, under the read lock.
Call(g, sid, size, found, missing) ==
  /\ at[g] = "idle"
  /\ arg' = [arg EXCEPT ![g] = [sid |-> sid, sq |-> sessions[sid], size |-> size]]
  /\ Goto(g, IF sessions[sid] # None THEN found ELSE missing)
  /\ UNCHANGED <<time, table, buffers, total, reaped>>

Push(g, sid, size) == Call(g, sid, size, "prefetch", "create")
Pop(g, sid) == Call(g, sid, 0, "refresh", "create")

ReleaseTopic(g, sid) == sessions[sid] # None /\ Call(g, sid, 0, "dropTopic", "idle")
ReleaseSession(g, sid) == sessions[sid] # None /\ Call(g, sid, 0, "delete", "idle")

\* Mutant: the session's mark is not refreshed.
RefreshSessionKeepsMark(g) ==
  LET s == sessions[arg[g].sid]
  IN /\ at[g] = "refresh"
     /\ IF s = None THEN Return(g) /\ UNCHANGED lastUse
        ELSE /\ lastUse' = [lastUse EXCEPT ![s] = now]
             /\ Goto(g, "pop") /\ Have(g, s)
     /\ UNCHANGED <<time, created, sessions, name, mark, heap, dead, buffers, total, reaped>>

\* GetSession once more, under the write lock; the session may be gone or another.
RefreshSession(g) ==
  LET s == sessions[arg[g].sid]
  IN /\ at[g] = "refresh"
     /\ IF s = None THEN Return(g) /\ UNCHANGED <<mark, lastUse>>
        ELSE /\ mark' = [mark EXCEPT ![s] = normalized(now)]
             /\ lastUse' = [lastUse EXCEPT ![s] = now]
             /\ Goto(g, "pop") /\ Have(g, s)
     /\ UNCHANGED <<time, created, sessions, name, heap, dead, buffers, total, reaped>>

\* The step after GetOrCreateSession: a push reserves memory, a pop goes to the queue.
Resume(g) == IF arg[g].size > 0 THEN "prefetch" ELSE "pop"

NewSession(g, sid, s) ==
  /\ s \in Session
  /\ created' = s
  /\ sessions' = [sessions EXCEPT ![sid] = s]
  /\ name' = [name EXCEPT ![s] = sid]
  /\ mark' = [mark EXCEPT ![s] = normalized(now)]
  /\ lastUse' = [lastUse EXCEPT ![s] = now]
  /\ heap' = heap \cup {s}
  /\ Goto(g, Resume(g)) /\ Have(g, s)
  /\ UNCHANGED <<dead, buffers>>

\* Mutant: the table is not looked at again under the write lock.
createSessionQueueUnchecked(g) ==
  LET sid == arg[g].sid
  IN /\ at[g] = "create"
     /\ \/ sid \in DOMAIN dead /\ Return(g) /\ UNCHANGED <<table, buffers>>
        \/ sid \notin DOMAIN dead /\ NewSession(g, sid, created + 1)
     /\ UNCHANGED <<time, total, reaped>>

\* Mutant: a dead name is used again.
createSessionQueueIgnoresDead(g) ==
  LET sid == arg[g].sid
  IN /\ at[g] = "create"
     /\ \/ /\ sessions[sid] # None
           /\ Goto(g, Resume(g)) /\ Have(g, sessions[sid])
           /\ UNCHANGED <<table, buffers>>
        \/ sessions[sid] = None /\ NewSession(g, sid, created + 1)
     /\ UNCHANGED <<time, total, reaped>>

createSessionQueue(g) ==
  LET sid == arg[g].sid
  IN /\ at[g] = "create"
     /\ \/ /\ sessions[sid] # None
           /\ Goto(g, Resume(g)) /\ Have(g, sessions[sid])
           /\ UNCHANGED <<table, buffers>>
        \/ /\ sessions[sid] = None /\ sid \in DOMAIN dead
           /\ Return(g)
           /\ UNCHANGED <<table, buffers>>
        \/ /\ sessions[sid] = None /\ sid \notin DOMAIN dead
           /\ NewSession(g, sid, created + 1)
     /\ UNCHANGED <<time, total, reaped>>

DeadPush(sid) ==
  IF sid \in DOMAIN dead THEN dead ELSE [x \in DOMAIN dead \cup {sid} |->
                                            IF x = sid THEN now ELSE dead[x]]

deleteSessionQueue(g) ==
  LET sid == arg[g].sid
  IN /\ at[g] = "delete"
     /\ dead' = DeadPush(sid)
     /\ sessions' = [sessions EXCEPT ![sid] = None]
     /\ Goto(g, "dropSession")
     /\ UNCHANGED <<time, created, name, mark, lastUse, heap, buffers, total, arg, reaped>>

(***************************************************************************)
(* Push, Pop, Peek and the releases after the session is found.            *)
(***************************************************************************)
\* Prefetch: it takes the memory, waits, or gives up on a message over the limit.
Prefetch(g) ==
  LET size == arg[g].size
  IN /\ at[g] = "prefetch"
     /\ \/ fits(size) /\ total' = total + size /\ Goto(g, "push") /\ UNCHANGED arg
        \/ /\ ~fits(size) /\ size <= TotalByteSizeLimit
           /\ Goto(g, "memwait") /\ UNCHANGED <<total, arg>>
        \/ size > TotalByteSizeLimit /\ Return(g) /\ UNCHANGED total
     /\ UNCHANGED <<time, table, buffers, reaped>>

PrefetchTimeout(g) ==
  /\ at[g] = "memwait"
  /\ Return(g)
  /\ UNCHANGED <<time, table, buffers, total, reaped>>

\* SessionQueue.Push; when it fails the memory is given back in a step of its own.
QueuePush(g) ==
  LET sq == arg[g].sq
      size == arg[g].size
      room == SumSeq(queue[sq]) + size <= PerSessionByteSizeLimit
  IN /\ at[g] = "push"
     /\ \/ /\ sq \notin released /\ room
           /\ queue' = [queue EXCEPT ![sq] = Append(@, size)]
           /\ Return(g)
        \/ /\ sq \in released \/ ~room
           /\ Goto(g, "release")
           /\ UNCHANGED <<queue, arg>>
     /\ UNCHANGED <<time, table, released, total, reaped>>

\* SessionQueue.Pop and Peek; an empty queue ends in a timeout and a released one
\* in an error, both with no message.
QueuePop(g) ==
  LET sq == arg[g].sq
  IN /\ at[g] = "pop"
     /\ \/ /\ queue[sq] # <<>>
           /\ arg' = [arg EXCEPT ![g].size = Head(queue[sq])]
           /\ queue' = [queue EXCEPT ![sq] = Tail(@)]
           /\ Goto(g, "release")
        \/ queue[sq] = <<>> /\ Return(g) /\ UNCHANGED queue
     /\ UNCHANGED <<time, table, released, total, reaped>>

QueueReleaseTopic(g) ==
  LET sq == arg[g].sq
  IN /\ at[g] = "dropTopic"
     /\ arg' = [arg EXCEPT ![g].size = SumSeq(queue[sq])]
     /\ queue' = [queue EXCEPT ![sq] = <<>>]
     /\ Goto(g, "release")
     /\ UNCHANGED <<time, table, released, total, reaped>>

QueueReleaseSession(g) ==
  LET sq == arg[g].sq
  IN /\ at[g] = "dropSession"
     /\ arg' = [arg EXCEPT ![g].size = SumSeq(queue[sq])]
     /\ queue' = [queue EXCEPT ![sq] = <<>>]
     /\ released' = released \cup {sq}
     /\ Goto(g, "release")
     /\ UNCHANGED <<time, table, total, reaped>>

\* memControl.Release at the end of a call.
ReleaseMemory(g) ==
  /\ at[g] = "release"
  /\ IF arg[g].size > 0 THEN Release(arg[g].size, [at EXCEPT ![g] = "idle"])
     ELSE Goto(g, "idle") /\ UNCHANGED total
  /\ arg' = [arg EXCEPT ![g] = NoArg]
  /\ UNCHANGED <<time, table, buffers, reaped>>

(***************************************************************************)
(* The clean loop: sessions in even rounds, dead names in odd ones.        *)
(***************************************************************************)
expireDuration == SessionExpire \div NormalizeActive

\* The first cleanStep items of a heap ordered by timestamp: any choice among equals.
Oldest(items, ts) ==
  {S \in SUBSET items :
     /\ Cardinality(S) = Min({cleanStep, Cardinality(items)})
     /\ \A x \in S, y \in items \ S : ts[x] <= ts[y]}

NextRound ==
  /\ now >= nextRound /\ reaped = {}
  /\ round' = 1 - round
  /\ nextRound' = now + CleanHalfInterval

cleanInactiveSession ==
  /\ round = 0 /\ NextRound
  /\ \E S \in Oldest(heap, mark) :
       LET old == {s \in S : normalized(now) - mark[s] >= expireDuration}
           sids == {name[s] : s \in old}
           gone == {sessions[sid] : sid \in sids} \ {None}
       IN /\ heap' = heap \ old
          /\ dead' = [sid \in DOMAIN dead \cup {name[s] : s \in gone} |->
                        IF sid \in DOMAIN dead THEN dead[sid] ELSE now]
          /\ sessions' = [sid \in Sids |-> IF sid \in sids THEN None ELSE sessions[sid]]
          /\ reaped' = gone
  /\ UNCHANGED <<now, created, name, mark, lastUse, buffers, total, calls>>

\* The second half of cleanInactiveSession, outside the lock, for one session.
ReleaseInactive(s) ==
  /\ s \in reaped
  /\ reaped' = reaped \ {s}
  /\ queue' = [queue EXCEPT ![s] = <<>>]
  /\ released' = released \cup {s}
  /\ IF queue[s] # <<>> THEN Release(SumSeq(queue[s]), at) ELSE UNCHANGED <<total, at>>
  /\ UNCHANGED <<time, table, arg>>

CleanDead ==
  /\ round = 1 /\ NextRound
  /\ \E S \in Oldest(DOMAIN dead, dead) :
       dead' = [sid \in DOMAIN dead \ {x \in S : now - dead[x] >= DeadSessionIDExpire}
                  |-> dead[sid]]
  /\ UNCHANGED <<now, created, sessions, name, mark, lastUse, heap, buffers, total, calls,
                 reaped>>

\* The clean loop keeps up with the clock, and the two halves of a ReleaseSession
\* call (GetSession and deleteSessionQueue) are less than a tick apart.
Tick ==
  /\ now < nextRound /\ now < MaxTime /\ reaped = {}
  /\ \A g \in Threads : at[g] # "delete"
  /\ now' = now + 1
  /\ UNCHANGED <<round, nextRound, table, buffers, total, calls, reaped>>

Init ==
  /\ now = 0 /\ round = 0 /\ nextRound = 0 /\ created = 0
  /\ sessions = [sid \in Sids |-> None]
  /\ name = [s \in Session |-> None]
  /\ mark = [s \in Session |-> 0] /\ lastUse = [s \in Session |-> 0]
  /\ heap = {} /\ dead = [sid \in {} |-> 0]
  /\ queue = [s \in Session |-> <<>>] /\ released = {}
  /\ total = 0
  /\ at = [g \in Threads |-> "idle"] /\ arg = [g \in Threads |-> NoArg]
  /\ reaped = {}

Serve(g) ==
  \/ \E sid \in Sids : \/ Pop(g, sid) \/ ReleaseTopic(g, sid) \/ ReleaseSession(g, sid)
                       \/ \E size \in Sizes : Push(g, sid, size)
  \/ RefreshSession(g) \/ createSessionQueue(g) \/ deleteSessionQueue(g)
  \/ Prefetch(g) \/ PrefetchTimeout(g) \/ QueuePush(g) \/ QueuePop(g)
  \/ QueueReleaseTopic(g) \/ QueueReleaseSession(g) \/ ReleaseMemory(g)

CleanLoop == cleanInactiveSession \/ CleanDead \/ \E s \in Session : ReleaseInactive(s)

Next == Tick \/ CleanLoop \/ \E g \in Threads : Serve(g)

Spec == Init /\ [][Next]_vars

(***************************************************************************)
(* Properties.                                                             *)
(***************************************************************************)
Held(s) == SumSeq(queue[s])

\* Bytes in s come free in the end: s is in the table, a caller is releasing it or
\* the clean loop has taken it away.
Releasable(s) ==
  \/ \E sid \in Sids : sessions[sid] = s
  \/ s \in reaped
  \/ \E g \in Threads : at[g] = "dropSession" /\ arg[g].sq = s

\* The memory the broker accounts for keeps to its limit and is exactly what lies in
\* queues that somebody will release and what calls have reserved or have still to give
\* back: no error path, release or expiry loses bytes, returns them twice or leaves them
\* in a session nobody knows any more.
MemoryAccounted ==
  /\ total <= TotalByteSizeLimit
  /\ total = MapThenSumSet(Held, {s \in Session : Releasable(s)})
             + MapThenSumSet(LAMBDA g : arg[g].size, {g \in Threads : at[g] \in {"push", "release"}})

\* A name is never both in use and dead.
NotBothDeadAndAlive == \A sid \in Sids : ~(sessions[sid] # None /\ sid \in DOMAIN dead)

\* The ActiveMark of every session in the table is in the heap, where GetSession
\* fixes its position by its index (-1 once it is popped).
MarkInHeap == \A sid \in Sids : sessions[sid] # None =>
                sessions[sid] \in heap /\ name[sessions[sid]] = sid

\* The session table agrees with the list of dead names and with the expiry heap, which
\* GetSession, ReleaseSession and the clean loop change one after the other: no name is in
\* use while it is refused as dead, and no session in use is lost to the clean loop.
TableConsistent == NotBothDeadAndAlive /\ MarkInHeap

\* The clean loop takes a session away only if nobody used it for as long as
\* SessionExpireSeconds, up to the rounding of the two divisions.
ReapedOnlyIdle ==
  [][\A s \in reaped' \ reaped : now - lastUse[s] >= SessionExpire - 2 * (NormalizeActive - 1)]_vars
=============================================================================
