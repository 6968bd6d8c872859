------------------------ MODULE SessionManager_proofs ------------------------
(***************************************************************************)
(* The session manager of the messaging gateway, for every configuration   *)
(* and number of goroutines: the table of sessions, the heap of their      *)
(* marks and the dead names stay consistent, and the memory in use is      *)
(* exactly what the sessions and the calls hold.  The facts about sums are *)
(* those of SessionQueue_proofs.                                           *)
(***************************************************************************)
EXTENDS SessionManager, SessionQueue_proofs

\* Sessions are numbered as they are created, so a new one is in nobody's hands.
Numbered ==
  /\ created \in 0..MaxSession
  /\ sessions \in [Sids -> 0..created]
  /\ DOMAIN name = Session

\* Marks in the heap, stale ones included, are of names somebody asked for.
Named == heap \subseteq Session /\ \A s \in heap : name[s] \in Sids

Callers ==
  /\ DOMAIN at = Threads /\ DOMAIN arg = Threads
  /\ \A g \in Threads :
       /\ arg[g] = [sid |-> arg[g].sid, sq |-> arg[g].sq, size |-> arg[g].size]
       /\ at[g] # "idle" => arg[g].sid \in Sids

TableInv == Numbered /\ Named /\ MarkInHeap /\ NotBothDeadAndAlive

LEMMA TableInit == Init => TableInv /\ Callers
BY ConfigAssumption DEF Init, TableInv, Numbered, Named, MarkInHeap, NotBothDeadAndAlive,
                        Callers, NoArg, None, Session

(***************************************************************************)
(* The callers: a goroutine inside a call holds the name it was given.     *)
(***************************************************************************)
LEMMA CallersKept ==
  ASSUME Callers, NEW g \in Threads, NEW step, Goto(g, step), at[g] # "idle",
         \/ UNCHANGED arg
         \/ \E sq : Have(g, sq)
         \/ \E size : arg' = [arg EXCEPT ![g].size = size]
  PROVE  Callers'
<1>1. \A h \in Threads : /\ arg'[h] = [sid |-> arg[h].sid, sq |-> arg'[h].sq, size |-> arg'[h].size]
                         /\ arg'[h].sid = arg[h].sid
  BY DEF Callers, Have
<1> QED BY <1>1, Zenon DEF Callers, Have, Goto

LEMMA CallersReturn ==
  ASSUME Callers, NEW g \in Threads, Return(g)
  PROVE  Callers'
BY Zenon DEF Callers, Return, Goto, NoArg

LEMMA CallersWoken ==
  ASSUME Callers, NEW step, DOMAIN step = Threads, at' \in Woken(step),
         \A h \in Threads : step[h] \in {at[h], "idle"},
         DOMAIN arg' = Threads,
         \A h \in Threads : \/ arg'[h] = arg[h]
                            \/ step[h] = "idle" /\ at[h] # "memwait" /\ arg'[h] = NoArg
  PROVE  Callers'
<1>1. DOMAIN at' = Threads
  BY Zenon DEF Woken
<1>2. \A h \in Threads : at'[h] = step[h] \/ at[h] = "memwait"
  BY Zenon DEF Woken
<1> QED BY <1>1, <1>2 DEF Callers, NoArg

LEMMA CallersStep == Callers /\ [Next]_vars => Callers'
<1> SUFFICES ASSUME Callers, [Next]_vars PROVE Callers'
  BY Zenon
<1> USE DEF calls
<1>1. CASE Tick \/ cleanInactiveSession \/ CleanDead \/ UNCHANGED vars
  <2> QED BY <1>1, Zenon DEF Callers, Tick, cleanInactiveSession, CleanDead, vars
<1>2. ASSUME NEW s \in Session, ReleaseInactive(s) PROVE Callers'
  <2>1. CASE UNCHANGED at
    BY <1>2, <2>1, Zenon DEF ReleaseInactive, Callers
  <2>2. CASE at' \in Woken(at)
    BY <1>2, <2>2, CallersWoken, Zenon DEF ReleaseInactive, Callers
  <2> QED BY <1>2, <2>1, <2>2, Zenon DEF ReleaseInactive, Release
<1>3. ASSUME NEW g \in Threads, Serve(g) PROVE Callers'
  <2>1. ASSUME NEW sid \in Sids, NEW size, NEW found, NEW missing,
               Call(g, sid, size, found, missing)
        PROVE  Callers'
    BY <2>1, Zenon DEF Call, Goto, Callers
  <2>2. CASE RefreshSession(g)
    BY <2>2, CallersReturn, CallersKept, Zenon DEF RefreshSession
  <2>3. CASE createSessionQueue(g)
    BY <2>3, CallersReturn, CallersKept, Zenon DEF createSessionQueue, NewSession
  <2>4. CASE deleteSessionQueue(g)
    BY <2>4, CallersKept, Zenon DEF deleteSessionQueue
  <2>5. CASE Prefetch(g) \/ PrefetchTimeout(g)
    BY <2>5, CallersReturn, CallersKept, Zenon DEF Prefetch, PrefetchTimeout
  <2>6. CASE QueuePush(g)
    BY <2>6, CallersReturn, CallersKept, Zenon DEF QueuePush
  <2>7. CASE QueuePop(g)
    BY <2>7, CallersReturn, CallersKept, Zenon DEF QueuePop
  <2>8. CASE QueueReleaseTopic(g) \/ QueueReleaseSession(g)
    BY <2>8, CallersKept, Zenon DEF QueueReleaseTopic, QueueReleaseSession
  <2>9. CASE ReleaseMemory(g)
    <3>1. at[g] = "release" /\ arg' = [arg EXCEPT ![g] = NoArg]
      BY <2>9, Zenon DEF ReleaseMemory
    <3>2. CASE Goto(g, "idle")
      BY <3>1, <3>2, CallersReturn, Zenon DEF Return
    <3>3. CASE at' \in Woken([at EXCEPT ![g] = "idle"])
      <4> DEFINE step == [at EXCEPT ![g] = "idle"]
      <4>1. DOMAIN step = Threads /\ \A h \in Threads : step[h] \in {at[h], "idle"}
        BY Zenon DEF Callers
      <4>2. \A h \in Threads : \/ arg'[h] = arg[h]
                               \/ step[h] = "idle" /\ at[h] # "memwait" /\ arg'[h] = NoArg
        BY <3>1, Zenon DEF Callers
      <4>3. DOMAIN arg' = Threads
        BY <3>1, Zenon DEF Callers
      <4> HIDE DEF step
      <4> QED BY <3>3, <4>1, <4>2, <4>3, CallersWoken, Zenon DEF step
    <3> QED BY <2>9, <3>2, <3>3, Zenon DEF ReleaseMemory, Release
  <2> QED BY <1>3, <2>1, <2>2, <2>3, <2>4, <2>5, <2>6, <2>7, <2>8, <2>9, Zenon
          DEF Serve, Pop, Push, ReleaseTopic, ReleaseSession
<1> QED BY <1>1, <1>2, <1>3, Zenon DEF Next, CleanLoop

(***************************************************************************)
(* The table: only three actions change it.                                *)
(***************************************************************************)
LEMMA TableUnchanged ==
  ASSUME TableInv, UNCHANGED <<created, sessions, name, heap, dead>>
  PROVE  TableInv'
BY Zenon DEF TableInv, Numbered, Named, MarkInHeap, NotBothDeadAndAlive

LEMMA CreateKeepsTable ==
  ASSUME TableInv, Callers, NEW g \in Threads, createSessionQueue(g)
  PROVE  TableInv'
<1> DEFINE sid == arg[g].sid
<1>1. sid \in Sids
  BY Zenon DEF createSessionQueue, Callers
<1>2. CASE UNCHANGED table
  BY <1>2, TableUnchanged, Zenon DEF table
<1>3. CASE sessions[sid] = None /\ sid \notin DOMAIN dead /\ NewSession(g, sid, created + 1)
  <2> DEFINE s == created + 1
  <2>1. /\ s \in Session /\ created' = s
        /\ sessions' = [sessions EXCEPT ![sid] = s]
        /\ name' = [name EXCEPT ![s] = sid]
        /\ heap' = heap \cup {s} /\ dead' = dead
    BY <1>3, Zenon DEF NewSession
  <2>2. created \in 0..MaxSession /\ sessions \in [Sids -> 0..created] /\ DOMAIN name = Session
    BY Zenon DEF TableInv, Numbered
  <2> HIDE DEF sid
  <2>3. /\ sessions' \in [Sids -> 0..s] /\ s \in 0..MaxSession
        /\ \A x \in Sids : sessions'[x] = IF x = sid THEN s ELSE sessions[x]
        /\ \A x \in Sids : sessions[x] # s
    BY <1>1, <2>1, <2>2, ConfigAssumption, SMTT(20) DEF Session
  <2> HIDE DEF s
  <2>4. Numbered'
    BY <2>1, <2>2, <2>3, Zenon DEF Numbered
  <2>5. Named'
    BY <1>1, <2>1, <2>2, Zenon DEF TableInv, Named
  <2>6. MarkInHeap'
    BY <2>1, <2>2, <2>3, Zenon DEF TableInv, MarkInHeap, Named
  <2>7. NotBothDeadAndAlive'
    BY <1>3, <2>1, <2>3, Zenon DEF TableInv, NotBothDeadAndAlive
  <2> QED BY <2>4, <2>5, <2>6, <2>7, Zenon DEF TableInv
<1> QED BY <1>2, <1>3, Zenon DEF createSessionQueue

LEMMA DeleteKeepsTable ==
  ASSUME TableInv, NEW g \in Threads, deleteSessionQueue(g)
  PROVE  TableInv'
<1> DEFINE sid == arg[g].sid
<1>1. /\ sessions' = [sessions EXCEPT ![sid] = None]
      /\ DOMAIN dead' = DOMAIN dead \cup {sid}
      /\ UNCHANGED <<created, name, heap>>
  <2>1. dead' = DeadPush(sid) /\ sessions' = [sessions EXCEPT ![sid] = None]
        /\ UNCHANGED <<created, name, heap>>
    BY Zenon DEF deleteSessionQueue
  <2> HIDE DEF sid
  <2> QED BY <2>1, Zenon DEF DeadPush
<1> HIDE DEF sid
<1>2. created \in Nat /\ sessions \in [Sids -> 0..created]
  BY DEF TableInv, Numbered
<1>3. sessions' \in [Sids -> 0..created]
  <2>1. None \in 0..created
    BY <1>2 DEF None
  <2> QED BY <1>1, <1>2, <2>1, Zenon
<1>4. Numbered' /\ Named'
  BY <1>1, <1>3, Zenon DEF TableInv, Numbered, Named
<1>5. MarkInHeap' /\ NotBothDeadAndAlive'
  BY <1>1, <1>2 DEF TableInv, MarkInHeap, NotBothDeadAndAlive
<1> QED BY <1>4, <1>5, Zenon DEF TableInv

\* A stale mark takes the session that has its name now out of the table; that
\* session's own mark stays in the heap and the dead name is no longer in use.
LEMMA CleanKeepsTable ==
  ASSUME TableInv, cleanInactiveSession
  PROVE  TableInv'
<1> DEFINE Old(S) == {s \in S : normalized(now) - mark[s] >= expireDuration}
           Names(S) == {name[s] : s \in Old(S)}
           Gone(S) == {sessions[sid] : sid \in Names(S)} \ {None}
<1>1. PICK S \in SUBSET heap :
        /\ heap' = heap \ Old(S)
        /\ DOMAIN dead' = DOMAIN dead \cup {name[s] : s \in Gone(S)}
        /\ sessions' = [sid \in Sids |-> IF sid \in Names(S) THEN None ELSE sessions[sid]]
  BY Zenon DEF cleanInactiveSession, Oldest
<1>2. UNCHANGED <<created, name>>
  BY Zenon DEF cleanInactiveSession
<1>3. created \in Nat /\ sessions \in [Sids -> 0..created]
  BY DEF TableInv, Numbered
<1>4. \A s \in Old(S) : name[s] \in Names(S)
  BY Zenon
<1>5. \A x \in Gone(S) : name[x] \in Names(S)
  BY DEF TableInv, MarkInHeap, Named
<1> HIDE DEF Old, Names, Gone
<1>6. Numbered' /\ Named'
  BY <1>1, <1>2, <1>3 DEF TableInv, Numbered, Named, None
<1>7. MarkInHeap'
  BY <1>1, <1>2, <1>4, Zenon DEF TableInv, MarkInHeap
<1>8. NotBothDeadAndAlive'
  BY <1>1, <1>5, Zenon DEF TableInv, NotBothDeadAndAlive
<1> QED BY <1>6, <1>7, <1>8, Zenon DEF TableInv

LEMMA TableStep == TableInv /\ Callers /\ [Next]_vars => TableInv'
<1> SUFFICES ASSUME TableInv, Callers, [Next]_vars PROVE TableInv'
  BY Zenon
<1>1. CASE cleanInactiveSession
  BY <1>1, CleanKeepsTable, Zenon
<1>2. CASE CleanDead
  <2>1. DOMAIN dead' \subseteq DOMAIN dead /\ UNCHANGED <<created, sessions, name, heap>>
    BY <1>2, Zenon DEF CleanDead
  <2> QED BY <2>1, Zenon DEF TableInv, Numbered, Named, MarkInHeap, NotBothDeadAndAlive
<1>3. CASE Tick \/ UNCHANGED vars \/ \E s \in Session : ReleaseInactive(s)
  BY <1>3, TableUnchanged, Zenon DEF Tick, vars, table, ReleaseInactive
<1>4. ASSUME NEW g \in Threads, Serve(g) PROVE TableInv'
  <2>1. CASE createSessionQueue(g)
    BY <2>1, CreateKeepsTable, Zenon
  <2>2. CASE deleteSessionQueue(g)
    BY <2>2, DeleteKeepsTable, Zenon
  <2>3. CASE ~createSessionQueue(g) /\ ~deleteSessionQueue(g)
    <3>1. UNCHANGED <<created, sessions, name, heap, dead>>
      BY <1>4, <2>3, Zenon DEF Serve, Pop, Push, ReleaseTopic, ReleaseSession, Call, RefreshSession,
           Prefetch, PrefetchTimeout, QueuePush, QueuePop, QueueReleaseTopic,
           QueueReleaseSession, ReleaseMemory, table
    <3> QED BY <3>1, TableUnchanged, Zenon
  <2> QED BY <2>1, <2>2, <2>3, Zenon
<1> QED BY <1>1, <1>2, <1>3, <1>4, Zenon DEF Next, CleanLoop

\* Theorem: whatever stale marks there are, GetSession finds the mark of the session it
\* returns in the heap (heap.Fix never gets the index of a popped item), and no session
\* is in use under a name that is still refused as dead.
THEOREM TablesConsistent == Spec => []TableConsistent
<1>1. TableInv /\ Callers /\ [Next]_vars => (TableInv /\ Callers)'
  BY TableStep, CallersStep, Zenon
<1>2. TableInv => TableConsistent
  BY Zenon DEF TableInv, TableConsistent
<1> QED BY TableInit, <1>1, <1>2, PTL DEF Spec

(***************************************************************************)
(* The memory of all sessions.  A goroutine at one of these steps holds a  *)
(* session.                                                                *)
(***************************************************************************)
Holding == {"prefetch", "memwait", "push", "pop", "dropTopic", "delete", "dropSession"}
HoldsSession(g) ==
  /\ arg[g].size \in Nat /\ arg[g].sq \in 0..created
  /\ at[g] \in Holding => arg[g].sq # None
MemTypes ==
  /\ now \in Nat
  /\ queue \in [Session -> Seq(Nat)]
  /\ released \subseteq 1..created /\ reaped \subseteq 1..created
  /\ \A g \in Threads : HoldsSession(g)

\* What a step of g leaves alone: the others keep their place, or one of them is woken.
Woke(h) == at'[h] = at[h] \/ (at[h] = "memwait" /\ at'[h] = "prefetch")
Alone(g) == \A h \in Threads \ {g} : arg'[h] = arg[h] /\ Woke(h)

LEMMA WokenWoke ==
  ASSUME Callers, NEW step, at' \in Woken(step), DOMAIN step = Threads, NEW h \in Threads,
         step[h] = at[h]
  PROVE  Woke(h)
<1>1. CASE {x \in Threads : at[x] = "memwait"} = {}
  BY <1>1, Zenon DEF Woken, Woke
<1>2. ASSUME NEW x \in Threads, at[x] = "memwait", at' = [step EXCEPT ![x] = "prefetch"]
      PROVE  Woke(h)
  BY <1>2, Zenon DEF Woke
<1>. QED BY <1>1, <1>2, Zenon DEF Woken

LEMMA AloneReturn ==
  ASSUME Callers, NEW g \in Threads, Return(g)
  PROVE  Alone(g) /\ at'[g] = "idle" /\ arg'[g] = NoArg
BY Zenon DEF Callers, Return, Goto, Alone, Woke

LEMMA AloneKeeps ==
  ASSUME Callers, NEW g \in Threads, NEW step, Goto(g, step), UNCHANGED arg
  PROVE  Alone(g) /\ at'[g] = step /\ arg'[g] = arg[g]
BY Zenon DEF Callers, Goto, Alone, Woke

LEMMA AloneSets ==
  ASSUME Callers, NEW g \in Threads, NEW step, Goto(g, step), NEW size,
         arg' = [arg EXCEPT ![g].size = size]
  PROVE  /\ Alone(g) /\ at'[g] = step /\ arg'[g].size = size
         /\ arg'[g].sid = arg[g].sid /\ arg'[g].sq = arg[g].sq
<1>. QED BY DEF Goto, Alone, Woke, Callers

LEMMA AloneHas ==
  ASSUME Callers, NEW g \in Threads, NEW step, Goto(g, step), NEW sq, Have(g, sq)
  PROVE  /\ Alone(g) /\ at'[g] = step /\ arg'[g].sq = sq
         /\ arg'[g].sid = arg[g].sid /\ arg'[g].size = arg[g].size
<1>. QED BY DEF Goto, Alone, Woke, Have, Callers

LEMMA AloneCalls ==
  ASSUME Callers, NEW g \in Threads, NEW sid \in Sids, NEW size, NEW found, NEW missing,
         Call(g, sid, size, found, missing)
  PROVE  /\ Alone(g) /\ at[g] = "idle" /\ at'[g] = (IF sessions[sid] # None THEN found ELSE missing)
         /\ arg'[g].sid = sid /\ arg'[g].sq = sessions[sid] /\ arg'[g].size = size
<1>. QED BY DEF Call, Goto, Alone, Woke, Callers

LEMMA AloneReleases ==
  ASSUME Callers, NEW g \in Threads, ReleaseMemory(g)
  PROVE  /\ Alone(g) /\ at[g] = "release" /\ at'[g] = "idle" /\ arg'[g] = NoArg
         /\ (arg[g].size > 0 /\ total' = total - arg[g].size) \/ (~(arg[g].size > 0) /\ total' = total)
<1>1. DOMAIN at = Threads /\ DOMAIN arg = Threads BY Zenon DEF Callers
<1>2. at[g] = "release" /\ arg' = [arg EXCEPT ![g] = NoArg] BY Zenon DEF ReleaseMemory
<1>3. ASSUME Goto(g, "idle") PROVE Alone(g) /\ at'[g] = "idle" /\ arg'[g] = NoArg
  BY <1>1, <1>2, <1>3, Zenon DEF Goto, Alone, Woke
<1>4. ASSUME at' \in Woken([at EXCEPT ![g] = "idle"])
      PROVE  Alone(g) /\ at'[g] = "idle" /\ arg'[g] = NoArg
  <2> DEFINE step == [at EXCEPT ![g] = "idle"]
  <2>1. DOMAIN step = Threads /\ step[g] = "idle" /\ \A h \in Threads \ {g} : step[h] = at[h]
    BY <1>1, Zenon
  <2>2. at' \in Woken(step) BY <1>4, Zenon
  <2>. HIDE DEF step
  <2>3. at'[g] = "idle"
    <3>1. "release" # "memwait" OBVIOUS
    <3>. QED BY <1>1, <1>2, <2>1, <2>2, <3>1, Zenon DEF Woken
  <2>. QED BY <1>1, <1>2, <2>1, <2>2, <2>3, WokenWoke, Zenon DEF Alone
<1>. QED BY <1>2, <1>3, <1>4, Zenon DEF ReleaseMemory, Release

LEMMA AllWoke ==
  ASSUME Callers, NEW s, ReleaseInactive(s)
  PROVE  \A h \in Threads : arg'[h] = arg[h] /\ Woke(h)
<1>1. arg' = arg /\ (at' = at \/ at' \in Woken(at)) BY Zenon DEF ReleaseInactive, Release
<1>2. ASSUME NEW h \in Threads PROVE Woke(h)
  BY <1>1, WokenWoke, Zenon DEF Woke, Callers
<1>. QED BY <1>1, <1>2, Zenon

(***************************************************************************)
(* What a goroutine holds is kept by every step: its own step says where   *)
(* it goes, and another one may only wake it.                              *)
(***************************************************************************)
LEMMA WokeHolds ==
  ASSUME NEW h, HoldsSession(h), created' \in Nat, created \in Nat, created <= created',
         arg'[h] = arg[h], Woke(h)
  PROVE  HoldsSession(h)'
<1>. QED BY DEF HoldsSession, Woke, Holding

LEMMA OthersHold ==
  ASSUME \A h \in Threads : HoldsSession(h), created' \in Nat, created \in Nat, created <= created',
         NEW g \in Threads, Alone(g), HoldsSession(g)'
  PROVE  \A h \in Threads : HoldsSession(h)'
BY WokeHolds, Zenon DEF Alone

LEMMA ReturnHolds ==
  ASSUME NEW g, created' \in Nat, at'[g] = "idle", arg'[g] = NoArg
  PROVE  HoldsSession(g)'
<1>. QED BY DEF HoldsSession, NoArg, None, Holding

\* A goroutine that keeps its session may go on with it.
LEMMA KeepHolds ==
  ASSUME NEW g, HoldsSession(g), created' \in Nat, created \in Nat, created <= created',
         arg'[g].sq = arg[g].sq, arg'[g].size \in Nat,
         at[g] \in Holding \/ at'[g] \notin Holding
  PROVE  HoldsSession(g)'
<1>. QED BY DEF HoldsSession

LEMMA CreatedTypes ==
  ASSUME TableInv
  PROVE  created \in Nat /\ created <= created /\ MaxSession \in Nat /\ created <= MaxSession
BY ConfigAssumption DEF TableInv, Numbered

\* A step that changes neither the queues nor the sessions.
LEMMA QuietTypes ==
  ASSUME TableInv, MemTypes, UNCHANGED <<now, created, queue, released, reaped>>,
         \A h \in Threads : HoldsSession(h)'
  PROVE  MemTypes'
BY Zenon DEF MemTypes

LEMMA CallTypes ==
  ASSUME TableInv, Callers, MemTypes, NEW g \in Threads, NEW sid \in Sids, NEW size \in Nat,
         NEW found, NEW missing, Call(g, sid, size, found, missing), missing \notin Holding
  PROVE  MemTypes'
<1>1. /\ Alone(g) /\ at[g] = "idle" /\ at'[g] = (IF sessions[sid] # None THEN found ELSE missing)
      /\ arg'[g].sid = sid /\ arg'[g].sq = sessions[sid] /\ arg'[g].size = size
  BY AloneCalls, ZenonT(30)
<1>2. UNCHANGED <<now, created, queue, released, reaped, sessions>>
  BY Zenon DEF Call, time, table, buffers
<1>. QED
  BY <1>1, <1>2, CreatedTypes, OthersHold, QuietTypes, Zenon DEF MemTypes, HoldsSession,
     TableInv, Numbered

LEMMA RefreshTypes ==
  ASSUME TableInv, Callers, MemTypes, NEW g \in Threads, RefreshSession(g)
  PROVE  MemTypes'
<1> DEFINE s == sessions[arg[g].sid]
<1>1. at[g] = "refresh" /\ UNCHANGED <<now, created, queue, released, reaped, sessions>>
  BY Zenon DEF RefreshSession, time, buffers
<1>2. arg[g].sid \in Sids
  <2>1. "refresh" # "idle" OBVIOUS
  <2>. QED BY <1>1, <2>1, Zenon DEF Callers
<1>3. s \in 0..created BY <1>2, Zenon DEF TableInv, Numbered
<1>4. created' \in Nat /\ created \in Nat /\ created <= created' BY <1>1, CreatedTypes, Zenon
<1>5. Alone(g) /\ HoldsSession(g)'
  <2>1. CASE Return(g) BY <1>4, <2>1, AloneReturn, ReturnHolds, Zenon
  <2>2. CASE s # None /\ Goto(g, "pop") /\ Have(g, s)
    <3>1. Goto(g, "pop") /\ Have(g, s) /\ s # None BY <2>2, Zenon
    <3>. HIDE DEF s
    <3>. QED BY <1>1, <1>3, <3>1, AloneHas, Zenon DEF MemTypes, HoldsSession
  <2>. QED BY <2>1, <2>2, Zenon DEF RefreshSession
<1>. QED BY <1>1, <1>4, <1>5, OthersHold, QuietTypes, Zenon DEF MemTypes

LEMMA CreateTypes ==
  ASSUME TableInv, Callers, MemTypes, NEW g \in Threads, createSessionQueue(g)
  PROVE  MemTypes'
<1> DEFINE sid == arg[g].sid
<1>1. at[g] = "create" /\ UNCHANGED <<now, queue, released, reaped>>
  BY Zenon DEF createSessionQueue, NewSession, time, buffers
<1>2. sid \in Sids
  <2>1. "create" # "idle" OBVIOUS
  <2>. QED BY <1>1, <2>1, Zenon DEF Callers
<1>3. sessions[sid] \in 0..created /\ created \in Nat /\ created <= created
  BY <1>2, CreatedTypes, Zenon DEF TableInv, Numbered
<1>4. CASE sessions[sid] # None /\ Goto(g, Resume(g)) /\ Have(g, sessions[sid]) /\ UNCHANGED created
  <2> DEFINE s == sessions[sid]
             step == Resume(g)
  <2>1. Goto(g, step) /\ Have(g, s) /\ s # None BY <1>4, Zenon
  <2>2. Alone(g) /\ arg'[g].sq = s /\ arg'[g].size = arg[g].size
    <3>. HIDE DEF s, step
    <3>. QED BY <2>1, AloneHas, Zenon
  <2>. QED
    BY <1>1, <1>3, <1>4, <2>1, <2>2, OthersHold, QuietTypes, Zenon DEF MemTypes, HoldsSession
<1>5. CASE Return(g) /\ UNCHANGED created
  <2>. QED
    BY <1>1, <1>3, <1>5, AloneReturn, ReturnHolds, OthersHold, QuietTypes, Zenon DEF MemTypes
<1>6. CASE NewSession(g, sid, created + 1)
  <2> DEFINE s == created + 1
             step == Resume(g)
  <2>1. Goto(g, step) /\ Have(g, s) /\ created' = s BY <1>6, Zenon DEF NewSession
  <2>2. Alone(g) /\ arg'[g].sq = s /\ arg'[g].size = arg[g].size
    <3>. HIDE DEF s, step
    <3>. QED BY <2>1, AloneHas, Zenon
  <2>3. created' \in Nat /\ created <= created' /\ s \in 0..created' /\ s # 0 /\ 1..created \subseteq 1..created'
    BY <1>3, <2>1
  <2>. HIDE DEF s
  <2>. QED BY <1>1, <1>3, <2>2, <2>3, OthersHold, Zenon DEF MemTypes, HoldsSession, None
<1>. QED BY <1>4, <1>5, <1>6, Zenon DEF createSessionQueue, table

LEMMA StayTypes ==
  ASSUME TableInv, Callers, MemTypes, NEW g \in Threads, at[g] \in Holding,
         UNCHANGED <<now, created, queue, released, reaped>>,
         Return(g) \/ (UNCHANGED arg /\ \E step : Goto(g, step))
  PROVE  MemTypes'
<1>1. created' \in Nat /\ created \in Nat /\ created <= created' BY CreatedTypes, Zenon
<1>2. CASE Return(g)
  <2>. QED BY <1>1, <1>2, AloneReturn, ReturnHolds, OthersHold, QuietTypes, Zenon DEF MemTypes
<1>3. ASSUME UNCHANGED arg, NEW step, Goto(g, step) PROVE MemTypes'
  <2>. QED
    BY <1>1, <1>3, AloneKeeps, KeepHolds, OthersHold, QuietTypes, Zenon DEF MemTypes,
       HoldsSession
<1>. QED BY <1>2, <1>3, Zenon

\* The sessions of the callers are among the ones created.
LEMMA HeldSession ==
  ASSUME TableInv, MemTypes, NEW g \in Threads, at[g] \in Holding
  PROVE  arg[g].sq \in 1..created /\ arg[g].sq \in Session /\ queue[arg[g].sq] \in Seq(Nat)
         /\ arg[g].size \in Nat
<1>. QED BY CreatedTypes DEF MemTypes, Session, HoldsSession, None

\* A caller that changes its queue.
LEMMA QueueTypes ==
  ASSUME TableInv, Callers, MemTypes, NEW g \in Threads, at[g] \in Holding,
         UNCHANGED <<now, created, reaped>>, released' \subseteq released \cup {arg[g].sq},
         NEW q \in Seq(Nat), queue' = [queue EXCEPT ![arg[g].sq] = q],
         Alone(g), HoldsSession(g)'
  PROVE  MemTypes'
<1>. QED BY CreatedTypes, OthersHold, HeldSession, Zenon DEF MemTypes

(***************************************************************************)
(* The memory of a session in SessionManager, the sizes of its messages.   *)
(***************************************************************************)
LEMMA SeqSum ==
  ASSUME NEW q, q \in Seq(Nat)
  PROVE  IsSum(SumSeq(q), q, DOMAIN q)
<1> DEFINE S == DOMAIN q
           R(f) == f = [s \in SUBSET S |-> IF s = {} THEN 0 ELSE q[Chosen(s)] + f[s \ {Chosen(s)}]]
<1>1. SumSeq(q) = (CHOOSE f : R(f))[S]
  BY DEF SumSeq, MapThenSumSet, MapThenFoldSet, Chosen
<1>2. \A f : R(f) <=> Fold(f, q, SUBSET S)
  BY Zenon DEF Fold
<1>3. IsFiniteSet(S) /\ \A i \in S : q[i] \in Nat
  <2>1. S = 1..Len(q) /\ Len(q) \in Nat /\ \A i \in S : q[i] \in Nat OBVIOUS
  <2>. QED BY <2>1, FiniteInterval, Zenon
<1>4. Fold(CHOOSE f : R(f), q, SUBSET S)
  <2>1. \E f : R(f) BY <1>2, <1>3, FoldExists, Zenon
  <2>. HIDE DEF R
  <2>. QED BY <1>2, <2>1, Zenon
<1>. HIDE DEF R, S
<1>. QED BY <1>1, <1>3, <1>4, FoldSums, Zenon DEF S, IsSum

LEMMA SeqTypes ==
  /\ \A q \in Seq(Nat) : SumSeq(q) \in Nat
  /\ SumSeq(<<>>) = 0
<1>1. <<>> \in Seq(Nat) /\ DOMAIN <<>> = {} OBVIOUS
<1>. QED BY <1>1, SeqSum, SumType, Zenon

LEMMA SeqAppend ==
  ASSUME NEW q, q \in Seq(Nat), NEW m \in Nat
  PROVE  SumSeq(Append(q, m)) = SumSeq(q) + m
<1> DEFINE r == Append(q, m)
<1>1. /\ r \in Seq(Nat) /\ DOMAIN r = DOMAIN q \cup {Len(q) + 1} /\ Len(q) + 1 \notin DOMAIN q
      /\ \A i \in DOMAIN q : r[i] = q[i]
  OBVIOUS
<1>2. r[Len(q) + 1] = m OBVIOUS
<1>3. IsFiniteSet(DOMAIN q)
  <2>1. DOMAIN q = 1..Len(q) /\ Len(q) \in Nat OBVIOUS
  <2>. QED BY <2>1, FiniteInterval, Zenon
<1>. HIDE DEF r
<1>4. SumSeq(r) = SumSeq(q) + r[Len(q) + 1]
  BY <1>1, <1>3, SeqSum, SumAdd, SMT DEF Extended
<1>. QED BY <1>2, <1>4, Zenon DEF r

LEMMA SeqTail ==
  ASSUME NEW q, q \in Seq(Nat), q # <<>>
  PROVE  SumSeq(q) = Head(q) + SumSeq(Tail(q)) /\ Tail(q) \in Seq(Nat) /\ Head(q) \in Nat
<1> DEFINE r == Tail(q)
           n == Len(q) - 1
<1>1. /\ r \in Seq(Nat) /\ n \in Nat /\ DOMAIN r = 1..n /\ DOMAIN q = 1..(n + 1)
      /\ \A i \in 1..n : r[i] = q[i + 1] /\ i + 1 \in 1..(n + 1)
  OBVIOUS
<1>2. Head(q) = q[1] /\ \A i \in DOMAIN q : q[i] \in Nat OBVIOUS
<1>3. 1 \in 1..(n + 1) BY <1>1
<1>. HIDE DEF r, n
<1>4. Shifted(q, DOMAIN q, r, DOMAIN r) BY <1>1, <1>2, Zenon DEF Shifted
<1>5. q[1] \in Nat BY <1>1, <1>2, <1>3, Zenon
<1>. QED BY <1>1, <1>2, <1>4, <1>5, SeqSum, SumShift, Zenon DEF r

(***************************************************************************)
(* Balanced: the memory in use is what lies in all queues and what calls   *)
(* have reserved or have still to give back, as two sums.  BalanceQuiet,   *)
(* BalancePend, BalanceMoves and BalanceReleases say how a step keeps it.  *)
(***************************************************************************)
HeldOf(qq) == [s \in Session |-> SumSeq(qq[s])]
Pending == {"push", "release"}
PendOf(aa, rr) == [g \in Threads |-> IF aa[g] \in Pending THEN rr[g].size ELSE 0]
Balanced ==
  \E v, w : /\ IsSum(v, HeldOf(queue), Session) /\ IsSum(w, PendOf(at, arg), Threads)
            /\ total = v + w

LEMMA WokePends ==
  ASSUME NEW h \in Threads, arg'[h] = arg[h], Woke(h)
  PROVE  PendOf(at', arg')[h] = PendOf(at, arg)[h]
<1>. QED BY Zenon DEF PendOf, Woke, Pending

LEMMA PendTypes ==
  ASSUME MemTypes
  PROVE  \A h \in Threads : PendOf(at, arg)[h] \in Nat
<1>1. 0 \in Nat OBVIOUS
<1>. QED BY <1>1, Zenon DEF PendOf, MemTypes, HoldsSession

LEMMA PendTypesNext ==
  ASSUME MemTypes'
  PROVE  \A h \in Threads : PendOf(at', arg')[h] \in Nat
<1>1. 0 \in Nat OBVIOUS
<1>. QED BY <1>1, Zenon DEF PendOf, MemTypes, HoldsSession

\* What a goroutine has reserved or has still to give back.
LEMMA PendMoves ==
  ASSUME IsFiniteSet(Threads), MemTypes, MemTypes', NEW g \in Threads, Alone(g),
         NEW w, IsSum(w, PendOf(at, arg), Threads)
  PROVE  \E x : /\ IsSum(x, PendOf(at', arg'), Threads) /\ x \in Nat /\ w \in Nat
                /\ x + PendOf(at, arg)[g] = w + PendOf(at', arg')[g] /\ PendOf(at, arg)[g] <= w
<1>1. Differs(PendOf(at, arg), PendOf(at', arg'), Threads, g)
  BY WokePends, PendTypes, PendTypesNext, Zenon DEF Differs, Alone
<1>. QED BY <1>1, SumMoves, Zenon

\* What lies in a queue.
LEMMA HeldMoves ==
  ASSUME MemTypes, MemTypes', NEW s \in Session, \A t \in Session \ {s} : queue'[t] = queue[t],
         NEW v, IsSum(v, HeldOf(queue), Session)
  PROVE  \E x : /\ IsSum(x, HeldOf(queue'), Session) /\ x \in Nat /\ v \in Nat
                /\ x + SumSeq(queue[s]) = v + SumSeq(queue'[s]) /\ SumSeq(queue[s]) <= v
<1>1. \A t \in Session : HeldOf(queue)[t] = SumSeq(queue[t]) /\ HeldOf(queue')[t] = SumSeq(queue'[t])
  BY Zenon DEF HeldOf
<1>2. \A t \in Session : SumSeq(queue[t]) \in Nat /\ SumSeq(queue'[t]) \in Nat
  BY SeqTypes, Zenon DEF MemTypes
<1>3. IsFiniteSet(Session)
  <2>. QED BY ConfigAssumption, FiniteInterval, Zenon DEF Session
<1>4. Differs(HeldOf(queue), HeldOf(queue'), Session, s)
  BY <1>1, <1>2, <1>3, Zenon DEF Differs
<1>5. \E x : /\ IsSum(x, HeldOf(queue'), Session) /\ x \in Nat /\ v \in Nat
             /\ x + HeldOf(queue)[s] = v + HeldOf(queue')[s] /\ HeldOf(queue)[s] <= v
  BY <1>4, SumMoves, Zenon
<1>. QED BY <1>1, <1>5, Zenon

\* Nothing moves.
LEMMA BalanceQuiet ==
  ASSUME Balanced, NEW g \in Threads, Alone(g), UNCHANGED <<queue, total>>,
         PendOf(at, arg)[g] = PendOf(at', arg')[g]
  PROVE  Balanced'
<1>1. PendOf(at, arg) = PendOf(at', arg') BY WokePends, Zenon DEF PendOf, Alone
<1>. QED BY <1>1, Zenon DEF Balanced

\* A goroutine reserves or gives back memory.
LEMMA BalancePend ==
  ASSUME IsFiniteSet(Threads), MemTypes, MemTypes', Balanced, NEW g \in Threads, Alone(g),
         UNCHANGED queue, total' \in Int,
         total' + PendOf(at, arg)[g] = total + PendOf(at', arg')[g]
  PROVE  Balanced' /\ PendOf(at, arg)[g] <= total /\ total \in Nat
<1>1. PICK v, w : /\ IsSum(v, HeldOf(queue), Session) /\ IsSum(w, PendOf(at, arg), Threads)
                  /\ total = v + w
  BY Zenon DEF Balanced
<1>2. PICK x : /\ IsSum(x, PendOf(at', arg'), Threads) /\ x \in Nat /\ w \in Nat
               /\ x + PendOf(at, arg)[g] = w + PendOf(at', arg')[g] /\ PendOf(at, arg)[g] <= w
  BY <1>1, PendMoves, Zenon
<1>3. v \in Nat BY <1>1, SumType, Zenon
<1>4. PendOf(at, arg)[g] \in Nat /\ PendOf(at', arg')[g] \in Nat BY PendTypes, PendTypesNext, Zenon
<1> DEFINE p == PendOf(at, arg)[g]
           r == PendOf(at', arg')[g]
<1>5. /\ total = v + w /\ x + p = w + r /\ p <= w /\ total' + p = total + r /\ total' \in Int
      /\ x \in Nat /\ w \in Nat /\ v \in Nat /\ p \in Nat /\ r \in Nat
  BY <1>1, <1>2, <1>3, <1>4, Zenon
<1>. HIDE DEF p, r
<1>6. total' = v + x /\ p <= total /\ total \in Nat
  <2> DEFINE t == total'
             u == total
  <2>1. /\ u = v + w /\ x + p = w + r /\ p <= w /\ t + p = u + r /\ t \in Int
        /\ x \in Nat /\ w \in Nat /\ v \in Nat /\ p \in Nat /\ r \in Nat
    BY <1>5, Zenon
  <2>. HIDE DEF t, u
  <2>2. t = v + x /\ p <= u /\ u \in Nat BY <2>1
  <2>. QED BY <2>2, Zenon DEF t, u
<1>7. Balanced'
  <2>1. IsSum(v, HeldOf(queue'), Session)
    <3>. QED BY <1>1, Zenon
  <2>. QED BY <1>2, <1>6, <2>1, Zenon DEF Balanced
<1>. QED BY <1>6, <1>7, Zenon DEF p

\* Bytes move between a queue, a goroutine and the account.
LEMMA BalanceMoves ==
  ASSUME IsFiniteSet(Threads), MemTypes, MemTypes', Balanced, NEW g \in Threads, Alone(g),
         NEW s \in Session, \A t \in Session \ {s} : queue'[t] = queue[t], UNCHANGED total,
         SumSeq(queue[s]) + PendOf(at, arg)[g] = SumSeq(queue'[s]) + PendOf(at', arg')[g]
  PROVE  Balanced'
<1>1. PICK v, w : /\ IsSum(v, HeldOf(queue), Session) /\ IsSum(w, PendOf(at, arg), Threads)
                  /\ total = v + w
  BY Zenon DEF Balanced
<1>2. PICK x : /\ IsSum(x, PendOf(at', arg'), Threads) /\ x \in Nat /\ w \in Nat
               /\ x + PendOf(at, arg)[g] = w + PendOf(at', arg')[g] /\ PendOf(at, arg)[g] <= w
  BY <1>1, PendMoves, Zenon
<1>3. PICK y : /\ IsSum(y, HeldOf(queue'), Session) /\ y \in Nat /\ v \in Nat
               /\ y + SumSeq(queue[s]) = v + SumSeq(queue'[s]) /\ SumSeq(queue[s]) <= v
  BY <1>1, HeldMoves, Zenon
<1>4. /\ PendOf(at, arg)[g] \in Nat /\ PendOf(at', arg')[g] \in Nat
      /\ SumSeq(queue[s]) \in Nat /\ SumSeq(queue'[s]) \in Nat
  BY PendTypes, PendTypesNext, SeqTypes, Zenon DEF MemTypes
<1> DEFINE p == PendOf(at, arg)[g]
           r == PendOf(at', arg')[g]
           a == SumSeq(queue[s])
           b == SumSeq(queue'[s])
<1>5. /\ total = v + w /\ x + p = w + r /\ y + a = v + b /\ a + p = b + r /\ total' = total
      /\ x \in Nat /\ y \in Nat /\ w \in Nat /\ v \in Nat
      /\ p \in Nat /\ r \in Nat /\ a \in Nat /\ b \in Nat
  BY <1>1, <1>2, <1>3, <1>4, Zenon
<1>. HIDE DEF p, r, a, b
<1>. QED BY <1>2, <1>3, <1>5 DEF Balanced

\* The clean loop gives back what a session held.
LEMMA BalanceReleases ==
  ASSUME MemTypes, MemTypes', Balanced, \A h \in Threads : arg'[h] = arg[h] /\ Woke(h),
         NEW s \in Session, \A t \in Session \ {s} : queue'[t] = queue[t],
         queue'[s] = <<>>, total' \in Int, total' + SumSeq(queue[s]) = total
  PROVE  Balanced' /\ SumSeq(queue[s]) <= total /\ total \in Nat
<1>1. PICK v, w : /\ IsSum(v, HeldOf(queue), Session) /\ IsSum(w, PendOf(at, arg), Threads)
                  /\ total = v + w
  BY Zenon DEF Balanced
<1>2. PendOf(at, arg) = PendOf(at', arg')
  <2>. QED BY WokePends, Zenon DEF PendOf
<1>3. PICK y : /\ IsSum(y, HeldOf(queue'), Session) /\ y \in Nat /\ v \in Nat
               /\ y + SumSeq(queue[s]) = v + SumSeq(queue'[s]) /\ SumSeq(queue[s]) <= v
  BY <1>1, HeldMoves, Zenon
<1>4. SumSeq(queue[s]) \in Nat /\ SumSeq(queue'[s]) = 0 /\ w \in Nat
  BY <1>1, SeqTypes, SumType, Zenon DEF MemTypes
<1>5. total' = y + w /\ SumSeq(queue[s]) <= total /\ total \in Nat BY <1>1, <1>3, <1>4, SMTT(20)
<1>. QED BY <1>1, <1>2, <1>3, <1>5, Zenon DEF Balanced

(***************************************************************************)
(* The inductive invariant, and one lemma for each action: it keeps        *)
(* MemInv.                                                                 *)
(***************************************************************************)
\* Every session created is released, or somebody will release it.
Known == \A s \in 1..created : s \in released \/ Releasable(s)
\* A released session, and one not created yet, holds nothing.
Emptied == \A s \in Session : s \in released \/ s > created => queue[s] = <<>>
\* A goroutine about to delete a session finds it in the table, or its name died just now.
DeletesOwn(g) ==
  at[g] = "delete" => \/ sessions[arg[g].sid] = arg[g].sq
                      \/ arg[g].sid \in DOMAIN dead /\ dead[arg[g].sid] = now
JustDeleted == \A g \in Threads : DeletesOwn(g)

MemInv ==
  MemTypes /\ Known /\ Emptied /\ JustDeleted /\ Balanced /\ total <= TotalByteSizeLimit

LEMMA WokeStays ==
  ASSUME NEW h, Woke(h)
  PROVE  /\ at[h] = "dropSession" => at'[h] = "dropSession"
         /\ at'[h] = "delete" => at[h] = "delete"
<1>1. "memwait" # "dropSession" /\ "prefetch" # "delete" OBVIOUS
<1>. QED BY <1>1, Zenon DEF Woke

LEMMA KnownQuiet ==
  ASSUME Known, NEW g \in Threads, Alone(g), UNCHANGED <<sessions, created, reaped>>,
         released \subseteq released', at[g] # "dropSession" \/ arg[g].sq \in released'
  PROVE  Known'
<1>1. ASSUME NEW s \in 1..created PROVE s \in released' \/ Releasable(s)'
  <2>1. CASE s \in released BY <2>1, Zenon
  <2>2. CASE (\E sid \in Sids : sessions[sid] = s) \/ s \in reaped
    BY <2>2, Zenon DEF Releasable
  <2>3. ASSUME NEW h \in Threads, at[h] = "dropSession", arg[h].sq = s
        PROVE  s \in released' \/ Releasable(s)'
    <3>1. CASE h = g BY <2>3, <3>1, Zenon
    <3>2. CASE h # g BY <2>3, <3>2, WokeStays, Zenon DEF Alone, Releasable
    <3>. QED BY <3>1, <3>2, Zenon
  <2>. QED BY <2>1, <2>2, <2>3, Zenon DEF Known, Releasable
<1>. QED BY <1>1, Zenon DEF Known

LEMMA DeletedQuiet ==
  ASSUME JustDeleted, NEW g \in Threads, Alone(g), UNCHANGED <<sessions, dead, now>>,
         at'[g] # "delete" \/ sessions[arg'[g].sid] = arg'[g].sq
  PROVE  JustDeleted'
<1>1. ASSUME NEW h \in Threads PROVE DeletesOwn(h)'
  <2>1. CASE h = g BY <2>1, Zenon DEF DeletesOwn
  <2>2. CASE h # g BY <2>2, WokeStays, Zenon DEF Alone, DeletesOwn, JustDeleted
  <2>. QED BY <2>1, <2>2, Zenon
<1>. QED BY <1>1, Zenon DEF JustDeleted

\* A step of a call that moves no memory.
LEMMA QuietStep ==
  ASSUME MemInv, MemTypes', NEW g \in Threads, Alone(g),
         UNCHANGED <<now, created, sessions, dead, queue, released, reaped, total>>,
         at[g] # "dropSession", at'[g] # "delete" \/ sessions[arg'[g].sid] = arg'[g].sq,
         PendOf(at, arg)[g] = PendOf(at', arg')[g]
  PROVE  MemInv'
<1>1. Known' BY KnownQuiet, Zenon DEF MemInv
<1>2. JustDeleted' BY DeletedQuiet, Zenon DEF MemInv
<1>3. Balanced' BY BalanceQuiet, Zenon DEF MemInv
<1>. QED BY <1>1, <1>2, <1>3, Zenon DEF MemInv, Emptied

LEMMA NotPending ==
  ASSUME NEW g \in Threads, at[g] \notin Pending, at'[g] \notin Pending
  PROVE  PendOf(at, arg)[g] = PendOf(at', arg')[g]
BY Zenon DEF PendOf

LEMMA CallStep ==
  ASSUME TableInv, Callers, MemInv, NEW g \in Threads, NEW sid \in Sids, NEW size \in Nat,
         NEW found, NEW missing, Call(g, sid, size, found, missing), missing \notin Holding,
         found \notin Pending, missing \notin Pending
  PROVE  MemInv'
<1>1. /\ Alone(g) /\ at[g] = "idle" /\ at'[g] = (IF sessions[sid] # None THEN found ELSE missing)
      /\ arg'[g].sid = sid /\ arg'[g].sq = sessions[sid] /\ arg'[g].size = size
  BY AloneCalls, ZenonT(30)
<1>2. "idle" \notin Pending /\ "idle" # "dropSession" BY DEF Pending
<1>3. MemTypes' BY CallTypes, Zenon DEF MemInv
<1>4. PendOf(at, arg)[g] = PendOf(at', arg')[g]
  <2>. QED BY <1>1, <1>2, NotPending, Zenon
<1>. QED BY <1>1, <1>2, <1>3, <1>4, QuietStep, Zenon DEF Call, time, table, buffers

LEMMA RefreshStep ==
  ASSUME TableInv, Callers, MemInv, NEW g \in Threads, RefreshSession(g)
  PROVE  MemInv'
<1> DEFINE s == sessions[arg[g].sid]
<1>1. at[g] = "refresh" /\ UNCHANGED <<now, created, sessions, dead, queue, released, reaped, total>>
  BY Zenon DEF RefreshSession, time, buffers
<1>2. Alone(g) /\ at'[g] \in {"idle", "pop"}
  <2>1. CASE Return(g) BY <2>1, AloneReturn, Zenon
  <2>2. CASE Goto(g, "pop") /\ Have(g, s)
    <3>1. Goto(g, "pop") /\ Have(g, s) BY <2>2, Zenon
    <3>. HIDE DEF s
    <3>. QED BY <3>1, AloneHas, Zenon
  <2>. QED BY <2>1, <2>2, Zenon DEF RefreshSession
<1>3. MemTypes' BY RefreshTypes, Zenon DEF MemInv
<1>. QED BY <1>1, <1>2, <1>3, NotPending, QuietStep, Zenon DEF Pending

LEMMA CreateStep ==
  ASSUME TableInv, Callers, MemInv, NEW g \in Threads, createSessionQueue(g)
  PROVE  MemInv'
<1> DEFINE sid == arg[g].sid
<1>1. at[g] = "create" /\ UNCHANGED <<now, queue, released, reaped, total>>
  BY Zenon DEF createSessionQueue, NewSession, time, buffers
<1>2. sid \in Sids
  <2>1. "create" # "idle" OBVIOUS
  <2>. QED BY <1>1, <2>1, Zenon DEF Callers
<1>3. Alone(g) /\ (at'[g] = "idle" \/ at'[g] = Resume(g))
  <2>1. CASE Return(g) BY <2>1, AloneReturn, Zenon
  <2>2. ASSUME NEW s, Goto(g, Resume(g)) /\ Have(g, s) PROVE Alone(g) /\ at'[g] = Resume(g)
    <3> DEFINE step == Resume(g)
    <3>1. Goto(g, step) /\ Have(g, s) BY <2>2, Zenon
    <3>. HIDE DEF step
    <3>. QED BY <3>1, AloneHas, Zenon DEF step
  <2>. QED BY <2>1, <2>2, Zenon DEF createSessionQueue, NewSession
<1>4. at[g] \notin Pending /\ at'[g] \notin Pending /\ at[g] # "dropSession" /\ at'[g] # "delete"
  BY <1>1, <1>3 DEF Pending, Resume
<1>5. MemTypes' BY CreateTypes, Zenon DEF MemInv
<1>6. PendOf(at, arg)[g] = PendOf(at', arg')[g] BY <1>4, NotPending, Zenon
<1>7. CASE UNCHANGED table
  <2>. QED BY <1>1, <1>3, <1>4, <1>5, <1>6, <1>7, QuietStep, Zenon DEF table
<1>8. CASE sessions[sid] = None /\ sid \notin DOMAIN dead /\ NewSession(g, sid, created + 1)
  <2> DEFINE new == created + 1
  <2>1. created' = new /\ sessions' = [sessions EXCEPT ![sid] = new] /\ dead' = dead
    BY <1>8, Zenon DEF NewSession
  <2>2. sessions \in [Sids -> 0..created] /\ created \in Nat
    BY CreatedTypes, Zenon DEF TableInv, Numbered
  <2>3. \A x \in Sids : sessions'[x] = IF x = sid THEN new ELSE sessions[x]
    BY <1>2, <2>1, <2>2, Zenon
  <2>4. /\ \A s \in 1..new : s = new \/ s \in 1..created
        /\ \A s \in 1..created : s # None
        /\ \A s \in Session : s > new => s > created
    BY <2>2 DEF None, Session
  <2>. HIDE DEF new
  <2>5. Known'
    <3>1. ASSUME NEW s \in 1..created PROVE s \in released' \/ Releasable(s)'
      <4>1. CASE s \in released BY <1>1, <4>1, Zenon
      <4>2. ASSUME NEW x \in Sids, sessions[x] = s PROVE Releasable(s)'
        <5>. QED BY <1>8, <2>3, <2>4, <4>2, Zenon DEF Releasable
      <4>3. CASE s \in reaped BY <1>1, <4>3, Zenon DEF Releasable
      <4>4. ASSUME NEW h \in Threads, at[h] = "dropSession", arg[h].sq = s PROVE Releasable(s)'
        <5>. QED BY <1>3, <1>4, <4>4, WokeStays, Zenon DEF Alone, Releasable
      <4>. QED BY <4>1, <4>2, <4>3, <4>4, Zenon DEF MemInv, Known, Releasable
    <3>2. ASSUME NEW s, s = new PROVE Releasable(s)'
      <4>. QED BY <1>2, <2>3, <3>2, Zenon DEF Releasable
    <3>. QED BY <2>1, <2>4, <3>1, <3>2, Zenon DEF Known
  <2>6. Emptied' BY <1>1, <2>1, <2>4, Zenon DEF MemInv, Emptied
  <2>7. JustDeleted'
    <3>1. ASSUME NEW h \in Threads, at'[h] = "delete" PROVE DeletesOwn(h)'
      <4>1. h # g /\ at[h] = "delete" /\ arg'[h] = arg[h]
        BY <1>3, <1>4, <3>1, WokeStays, Zenon DEF Alone
      <4>2. arg[h].sq # None /\ arg[h].sid \in Sids
        <5>. QED BY <4>1, Zenon DEF MemInv, MemTypes, HoldsSession, Callers, Holding
      <4>3. DeletesOwn(h) BY Zenon DEF MemInv, JustDeleted
      <4>4. ASSUME arg[h].sid = sid PROVE FALSE
        <5>1. sessions[arg[h].sid] = None /\ arg[h].sid \notin DOMAIN dead BY <1>8, <4>4, Zenon
        <5>. QED BY <4>1, <4>2, <4>3, <5>1, Zenon DEF DeletesOwn
      <4>. QED BY <1>1, <2>1, <2>3, <4>1, <4>2, <4>3, <4>4, Zenon DEF DeletesOwn
    <3>. QED BY <3>1, Zenon DEF JustDeleted, DeletesOwn
  <2>8. Balanced' BY <1>1, <1>3, <1>6, BalanceQuiet, Zenon DEF MemInv
  <2>. QED BY <1>1, <1>5, <2>5, <2>6, <2>7, <2>8, Zenon DEF MemInv
<1>. QED BY <1>7, <1>8, Zenon DEF createSessionQueue

\* The place of a goroutine tells what it may hold.
LEMMA Places ==
  /\ {"prefetch", "memwait", "push", "pop", "dropTopic", "delete", "dropSession"} \subseteq Holding
  /\ "idle" \notin Holding /\ "release" \notin Holding
  /\ {"push", "release"} \subseteq Pending
  /\ {"idle", "prefetch", "memwait", "pop", "dropTopic", "delete", "dropSession"} \cap Pending = {}
  /\ "idle" # "delete" /\ "push" # "delete" /\ "memwait" # "delete" /\ "release" # "delete"
  /\ "dropSession" # "delete" /\ "prefetch" # "dropSession" /\ "memwait" # "dropSession"
  /\ "push" # "dropSession" /\ "pop" # "dropSession" /\ "dropTopic" # "dropSession"
  /\ "release" # "dropSession" /\ "delete" # "idle"
BY DEF Holding, Pending

LEMMA DeleteStep ==
  ASSUME TableInv, Callers, MemInv, NEW g \in Threads, deleteSessionQueue(g)
  PROVE  MemInv'
<1> DEFINE sid == arg[g].sid
<1>1. /\ at[g] = "delete" /\ dead' = DeadPush(sid) /\ sessions' = [sessions EXCEPT ![sid] = None]
      /\ Goto(g, "dropSession") /\ UNCHANGED <<now, created, queue, released, reaped, total, arg>>
  BY Zenon DEF deleteSessionQueue, time, buffers
<1>2. Alone(g) /\ at'[g] = "dropSession" /\ arg'[g] = arg[g] BY <1>1, AloneKeeps, Zenon
<1>3. sid \in Sids /\ arg[g].sq # None
  BY <1>1, Places, Zenon DEF Callers, MemInv, MemTypes, HoldsSession
<1>4. MemTypes'
  <2>. QED BY <1>1, Places, StayTypes, Zenon DEF MemInv
<1>5. \A x \in Sids : sessions'[x] = IF x = sid THEN None ELSE sessions[x]
  BY <1>1, <1>3, Zenon DEF TableInv, Numbered
<1>. HIDE DEF sid
<1>6. /\ sid \in DOMAIN dead' /\ \A x \in DOMAIN dead : x \in DOMAIN dead' /\ dead'[x] = dead[x]
      /\ sid \notin DOMAIN dead => dead'[sid] = now
  BY <1>1, Zenon DEF DeadPush
<1>. USE DEF sid
<1>7. Known'
  <2>1. ASSUME NEW s \in 1..created PROVE s \in released' \/ Releasable(s)'
    <3>1. CASE s \in released BY <1>1, <3>1, Zenon
    <3>2. ASSUME NEW x \in Sids, sessions[x] = s PROVE Releasable(s)'
      <4>1. CASE x # sid
        <5>. QED BY <1>5, <3>2, <4>1, Zenon DEF Releasable
      <4>2. CASE x = sid
        <5>1. sid \notin DOMAIN dead
          BY <1>3, <3>2, <4>2 DEF TableInv, NotBothDeadAndAlive, None
        <5>. QED
          BY <1>1, <1>2, <3>2, <4>2, <5>1, Zenon DEF Releasable, MemInv, JustDeleted, DeletesOwn
      <4>. QED BY <4>1, <4>2, Zenon
    <3>3. CASE s \in reaped BY <1>1, <3>3, Zenon DEF Releasable
    <3>4. ASSUME NEW h \in Threads, at[h] = "dropSession", arg[h].sq = s PROVE Releasable(s)'
      <4>. QED BY <1>1, <1>2, <3>4, Places, WokeStays, Zenon DEF Alone, Releasable
    <3>. QED BY <3>1, <3>2, <3>3, <3>4, Zenon DEF MemInv, Known, Releasable
  <2>. QED BY <1>1, <2>1, Zenon DEF Known
<1>8. JustDeleted'
  <2>1. ASSUME NEW h \in Threads, at'[h] = "delete" PROVE DeletesOwn(h)'
    <3>1. at[h] = "delete" /\ arg'[h] = arg[h] BY <1>2, <2>1, Places, WokeStays, Zenon DEF Alone
    <3>2. arg[h].sq # None /\ arg[h].sid \in Sids
      BY <3>1, Places, Zenon DEF MemInv, MemTypes, HoldsSession, Callers
    <3>3. \/ sessions[arg[h].sid] = arg[h].sq
          \/ arg[h].sid \in DOMAIN dead /\ dead[arg[h].sid] = now
      BY <3>1, Zenon DEF MemInv, JustDeleted, DeletesOwn
    <3> DEFINE x == arg[h].sid
    <3>4. sessions'[x] = arg[h].sq \/ (x \in DOMAIN dead' /\ dead'[x] = now)
      <4>1. CASE x \in DOMAIN dead /\ dead[x] = now BY <1>6, <4>1, Zenon
      <4>2. CASE sessions[x] = arg[h].sq /\ x # sid BY <1>5, <3>2, <4>2, Zenon
      <4>3. CASE sessions[x] = arg[h].sq /\ x = sid
        <5>. QED BY <1>3, <1>6, <3>2, <4>3, Zenon DEF TableInv, NotBothDeadAndAlive
      <4>. QED BY <3>3, <4>1, <4>2, <4>3, Zenon
    <3>. QED BY <1>1, <3>1, <3>4, Zenon DEF DeletesOwn
  <2>. QED BY <2>1, Zenon DEF JustDeleted, DeletesOwn
<1>9. Balanced'
  <2>. QED BY <1>1, <1>2, Places, NotPending, BalanceQuiet, Zenon DEF MemInv
<1>. QED BY <1>1, <1>4, <1>7, <1>8, <1>9, Zenon DEF MemInv, Emptied

LEMMA PrefetchStep ==
  ASSUME IsFiniteSet(Threads), TableInv, Callers, MemInv, NEW g \in Threads,
         Prefetch(g) \/ PrefetchTimeout(g)
  PROVE  MemInv'
<1> DEFINE size == arg[g].size
<1>1. /\ at[g] \in {"prefetch", "memwait"}
      /\ UNCHANGED <<now, created, sessions, dead, queue, released, reaped>>
  BY Zenon DEF Prefetch, PrefetchTimeout, time, table, buffers
<1>2. at[g] \in Holding /\ at[g] \notin Pending /\ at[g] # "dropSession" BY <1>1, Places, Zenon
<1>3. CASE Return(g) /\ UNCHANGED total
  <2>1. MemTypes' BY <1>1, <1>2, <1>3, StayTypes, Zenon DEF MemInv
  <2>2. Alone(g) /\ at'[g] = "idle" BY <1>3, AloneReturn, Zenon
  <2>3. at'[g] \notin Pending /\ at'[g] # "delete" BY <2>2, Places, Zenon
  <2>4. PendOf(at, arg)[g] = PendOf(at', arg')[g] BY <1>2, <2>3, NotPending, Zenon
  <2>. QED BY <1>1, <1>2, <1>3, <2>1, <2>2, <2>3, <2>4, QuietStep, Zenon
<1>4. CASE Goto(g, "memwait") /\ UNCHANGED <<total, arg>>
  <2>1. MemTypes' BY <1>1, <1>2, <1>4, StayTypes, Zenon DEF MemInv
  <2>2. Alone(g) /\ at'[g] = "memwait" BY <1>4, AloneKeeps, Zenon
  <2>3. at'[g] \notin Pending /\ at'[g] # "delete" BY <2>2, Places, Zenon
  <2>4. PendOf(at, arg)[g] = PendOf(at', arg')[g] BY <1>2, <2>3, NotPending, Zenon
  <2>. QED BY <1>1, <1>2, <1>4, <2>1, <2>2, <2>3, <2>4, QuietStep, Zenon
<1>5. CASE fits(size) /\ total' = total + size /\ Goto(g, "push") /\ UNCHANGED arg
  <2>1. MemTypes' BY <1>1, <1>2, <1>5, StayTypes, Zenon DEF MemInv
  <2>2. Alone(g) /\ at'[g] = "push" /\ arg'[g] = arg[g] BY <1>5, AloneKeeps, Zenon
  <2>3. at'[g] \in Pending /\ at'[g] # "delete" BY <2>2, Places, Zenon
  <2>4. PendOf(at, arg)[g] = 0 /\ PendOf(at', arg')[g] = size BY <1>2, <2>2, <2>3, Zenon DEF PendOf
  <2>5. size \in Nat BY Zenon DEF MemInv, MemTypes, HoldsSession
  <2>6. total \in Nat
    <3>1. PICK v, w : /\ IsSum(v, HeldOf(queue), Session) /\ IsSum(w, PendOf(at, arg), Threads)
                      /\ total = v + w
      BY Zenon DEF MemInv, Balanced
    <3>. QED BY <3>1, SumType
  <2>. HIDE DEF size
  <2>7. total' \in Int /\ total' + PendOf(at, arg)[g] = total + PendOf(at', arg')[g]
    BY <1>5, <2>4, <2>5, <2>6
  <2>8. Balanced' BY <1>1, <2>1, <2>2, <2>7, BalancePend, Zenon DEF MemInv
  <2>9. Known' BY <1>1, <1>2, <2>2, KnownQuiet, Zenon DEF MemInv
  <2>10. JustDeleted' BY <1>1, <2>2, <2>3, DeletedQuiet, Zenon DEF MemInv
  <2>. QED BY <1>1, <1>5, <2>1, <2>8, <2>9, <2>10, Zenon DEF MemInv, Emptied, fits
<1>. QED BY <1>3, <1>4, <1>5, Zenon DEF Prefetch, PrefetchTimeout

\* A caller changes its queue: the bytes change hands.
LEMMA QueueStep ==
  ASSUME IsFiniteSet(Threads), TableInv, Callers, MemInv, NEW g \in Threads, at[g] \in Holding,
         UNCHANGED <<now, created, sessions, dead, reaped, total>>,
         released \subseteq released', released' \subseteq released \cup {arg[g].sq},
         at[g] # "dropSession" \/ arg[g].sq \in released', at'[g] # "delete",
         NEW q \in Seq(Nat), queue' = [queue EXCEPT ![arg[g].sq] = q],
         arg[g].sq \in released' => q = <<>>,
         Alone(g), HoldsSession(g)',
         SumSeq(queue[arg[g].sq]) + PendOf(at, arg)[g] = SumSeq(q) + PendOf(at', arg')[g]
  PROVE  MemInv'
<1> DEFINE s == arg[g].sq
<1>1. s \in 1..created /\ s \in Session BY HeldSession, Zenon DEF MemInv
<1>2. MemTypes' BY QueueTypes, Zenon DEF MemInv
<1>3. queue'[s] = q /\ \A t \in Session \ {s} : queue'[t] = queue[t]
  BY <1>1, Zenon DEF MemInv, MemTypes
<1>4. Balanced'
  <2>1. SumSeq(queue[s]) + PendOf(at, arg)[g] = SumSeq(queue'[s]) + PendOf(at', arg')[g]
    BY <1>3, Zenon
  <2>2. MemTypes /\ Balanced BY Zenon DEF MemInv
  <2>. HIDE DEF s
  <2>. QED BY <1>1, <1>2, <1>3, <2>1, <2>2, BalanceMoves, Zenon
<1>5. Known' BY KnownQuiet, Zenon DEF MemInv
<1>6. JustDeleted' BY DeletedQuiet, Zenon DEF MemInv
<1>7. Emptied'
  <2>1. ASSUME NEW t \in Session, t \in released' \/ t > created PROVE queue'[t] = <<>>
    <3>1. CASE t = s
      <4>1. ~(s > created)
        <5>1. s \in 1..created /\ created \in Nat BY <1>1, CreatedTypes, Zenon
        <5>. HIDE DEF s
        <5>. QED BY <5>1
      <4>. QED BY <1>3, <2>1, <3>1, <4>1, Zenon
    <3>2. CASE t # s
      <4>. QED BY <1>3, <2>1, <3>2, Zenon DEF MemInv, Emptied
    <3>. QED BY <3>1, <3>2, Zenon
  <2>. QED BY <2>1, Zenon DEF Emptied
<1>. QED BY <1>2, <1>4, <1>5, <1>6, <1>7, Zenon DEF MemInv

LEMMA PendValue ==
  ASSUME NEW g \in Threads
  PROVE  /\ at[g] \in Pending => PendOf(at, arg)[g] = arg[g].size
         /\ at[g] \notin Pending => PendOf(at, arg)[g] = 0
         /\ at'[g] \in Pending => PendOf(at', arg')[g] = arg'[g].size
         /\ at'[g] \notin Pending => PendOf(at', arg')[g] = 0
BY Zenon DEF PendOf

LEMMA PushStep ==
  ASSUME IsFiniteSet(Threads), TableInv, Callers, MemInv, NEW g \in Threads, QueuePush(g)
  PROVE  MemInv'
<1> DEFINE sq == arg[g].sq
           size == arg[g].size
<1>1. at[g] = "push" /\ UNCHANGED <<now, created, sessions, dead, released, reaped, total>>
  BY Zenon DEF QueuePush, time, table
<1>2. at[g] \in Holding /\ at[g] \in Pending /\ at[g] # "dropSession" BY <1>1, Places, Zenon
<1>3. /\ sq \in Session /\ queue[sq] \in Seq(Nat) /\ size \in Nat
  BY <1>2, HeldSession, Zenon DEF MemInv
<1>4. created' \in Nat BY <1>1, CreatedTypes, Zenon
<1>5. CASE sq \notin released /\ queue' = [queue EXCEPT ![sq] = Append(@, size)] /\ Return(g)
  <2> DEFINE q == Append(queue[sq], size)
  <2>1. Alone(g) /\ at'[g] = "idle" /\ arg'[g] = NoArg BY <1>5, AloneReturn, Zenon
  <2>2. HoldsSession(g)' BY <1>4, <2>1, ReturnHolds, Zenon
  <2>3. at'[g] \notin Pending /\ at'[g] # "delete" BY <2>1, Places, Zenon
  <2>4. SumSeq(q) = SumSeq(queue[sq]) + size /\ q \in Seq(Nat)
    <3>1. SumSeq(q) = SumSeq(queue[sq]) + size BY <1>3, SeqAppend, Zenon
    <3>2. q \in Seq(Nat)
      <4>. HIDE DEF sq, size
      <4>. QED BY <1>3
    <3>. QED BY <3>1, <3>2, Zenon
  <2>5. SumSeq(queue[sq]) + PendOf(at, arg)[g] = SumSeq(q) + PendOf(at', arg')[g]
    <3>1. PendOf(at, arg)[g] = size /\ PendOf(at', arg')[g] = 0 BY <1>2, <2>3, PendValue, Zenon
    <3>2. SumSeq(queue[sq]) \in Nat BY <1>3, SeqTypes, Zenon
    <3>. HIDE DEF q, sq, size
    <3>. QED BY <1>3, <2>4, <3>1, <3>2
  <2>6. queue' = [queue EXCEPT ![sq] = q] BY <1>5, Zenon
  <2>7. sq \notin released' BY <1>1, <1>5, Zenon
  <2>. HIDE DEF q
  <2>. QED BY <1>1, <1>2, <2>1, <2>2, <2>3, <2>4, <2>5, <2>6, <2>7, QueueStep, Zenon
<1>6. CASE Goto(g, "release") /\ UNCHANGED <<queue, arg>>
  <2>1. MemTypes' BY <1>1, <1>2, <1>6, StayTypes, Zenon DEF MemInv
  <2>2. Alone(g) /\ at'[g] = "release" /\ arg'[g] = arg[g] BY <1>6, AloneKeeps, Zenon
  <2>3. at'[g] \in Pending /\ at'[g] # "delete" BY <2>2, Places, Zenon
  <2>4. PendOf(at, arg)[g] = PendOf(at', arg')[g] BY <1>2, <2>2, <2>3, PendValue, Zenon
  <2>. QED BY <1>1, <1>2, <1>6, <2>1, <2>2, <2>3, <2>4, QuietStep, Zenon
<1>. QED BY <1>5, <1>6, Zenon DEF QueuePush

\* A caller takes messages out of its queue and has their memory to give back.
LEMMA TakeStep ==
  ASSUME IsFiniteSet(Threads), TableInv, Callers, MemInv, NEW g \in Threads,
         at[g] \in Holding, at[g] \notin Pending,
         UNCHANGED <<now, created, sessions, dead, reaped, total>>,
         released \subseteq released', released' \subseteq released \cup {arg[g].sq},
         at[g] # "dropSession" \/ arg[g].sq \in released',
         NEW q \in Seq(Nat), NEW size \in Nat, SumSeq(queue[arg[g].sq]) = size + SumSeq(q),
         queue' = [queue EXCEPT ![arg[g].sq] = q], arg[g].sq \in released' => q = <<>>,
         arg' = [arg EXCEPT ![g].size = size], Goto(g, "release")
  PROVE  MemInv'
<1>1. Alone(g) /\ at'[g] = "release" /\ arg'[g].size = size /\ arg'[g].sq = arg[g].sq
  BY AloneSets, Zenon
<1>2. at'[g] \in Pending /\ at'[g] # "delete" /\ at'[g] \notin Holding BY <1>1, Places, Zenon
<1>3. HoldsSession(g)'
  <2>. QED BY <1>1, <1>2, CreatedTypes, KeepHolds, Zenon DEF MemInv, MemTypes
<1>4. SumSeq(queue[arg[g].sq]) + PendOf(at, arg)[g] = SumSeq(q) + PendOf(at', arg')[g]
  <2>1. PendOf(at, arg)[g] = 0 /\ PendOf(at', arg')[g] = size BY <1>1, <1>2, PendValue, Zenon
  <2>2. SumSeq(q) \in Nat BY SeqTypes, Zenon
  <2> DEFINE a == SumSeq(queue[arg[g].sq])
             b == SumSeq(q)
  <2>3. a = size + b /\ b \in Nat BY <2>2, Zenon
  <2>. HIDE DEF a, b
  <2>. QED BY <2>1, <2>3 DEF a, b
<1>. QED BY <1>1, <1>2, <1>3, <1>4, QueueStep, Zenon

LEMMA PopStep ==
  ASSUME IsFiniteSet(Threads), TableInv, Callers, MemInv, NEW g \in Threads, QueuePop(g)
  PROVE  MemInv'
<1> DEFINE sq == arg[g].sq
<1>1. at[g] = "pop" /\ UNCHANGED <<now, created, sessions, dead, released, reaped, total>>
  BY Zenon DEF QueuePop, time, table
<1>2. at[g] \in Holding /\ at[g] \notin Pending /\ at[g] # "dropSession" BY <1>1, Places, Zenon
<1>3. sq \in Session /\ queue[sq] \in Seq(Nat) BY <1>2, HeldSession, Zenon DEF MemInv
<1>4. CASE /\ queue[sq] # <<>> /\ arg' = [arg EXCEPT ![g].size = Head(queue[sq])]
           /\ queue' = [queue EXCEPT ![sq] = Tail(@)] /\ Goto(g, "release")
  <2> DEFINE q == Tail(queue[sq])
             size == Head(queue[sq])
  <2>1. SumSeq(queue[sq]) = size + SumSeq(q) /\ q \in Seq(Nat) /\ size \in Nat
    BY <1>3, <1>4, SeqTail, Zenon
  <2>2. sq \notin released' BY <1>1, <1>3, <1>4, Zenon DEF MemInv, Emptied
  <2>3. /\ queue' = [queue EXCEPT ![sq] = q] /\ arg' = [arg EXCEPT ![g].size = size]
        /\ Goto(g, "release")
    BY <1>4, Zenon
  <2>. HIDE DEF q, size
  <2>. QED BY <1>1, <1>2, <2>1, <2>2, <2>3, TakeStep, Zenon
<1>5. CASE Return(g) /\ UNCHANGED queue
  <2>1. MemTypes' BY <1>1, <1>2, <1>5, StayTypes, Zenon DEF MemInv
  <2>2. Alone(g) /\ at'[g] = "idle" BY <1>5, AloneReturn, Zenon
  <2>3. at'[g] \notin Pending /\ at'[g] # "delete" BY <2>2, Places, Zenon
  <2>4. PendOf(at, arg)[g] = PendOf(at', arg')[g] BY <1>2, <2>3, NotPending, Zenon
  <2>. QED BY <1>1, <1>2, <1>5, <2>1, <2>2, <2>3, <2>4, QuietStep, Zenon
<1>. QED BY <1>4, <1>5, Zenon DEF QueuePop

LEMMA DropStep ==
  ASSUME IsFiniteSet(Threads), TableInv, Callers, MemInv, NEW g \in Threads,
         QueueReleaseTopic(g) \/ QueueReleaseSession(g)
  PROVE  MemInv'
<1> DEFINE sq == arg[g].sq
           size == SumSeq(queue[sq])
<1>1. /\ at[g] \in {"dropTopic", "dropSession"}
      /\ UNCHANGED <<now, created, sessions, dead, reaped, total>>
      /\ arg' = [arg EXCEPT ![g].size = size] /\ queue' = [queue EXCEPT ![sq] = <<>>]
      /\ Goto(g, "release")
      /\ released \subseteq released' /\ released' \subseteq released \cup {sq}
      /\ at[g] # "dropSession" \/ sq \in released'
  BY Places, Zenon DEF QueueReleaseTopic, QueueReleaseSession, time, table
<1>2. at[g] \in Holding /\ at[g] \notin Pending BY <1>1, Places, Zenon
<1>3. /\ size \in Nat /\ <<>> \in Seq(Nat) /\ size = size + SumSeq(<<>>)
  <2>1. size \in Nat /\ SumSeq(<<>>) = 0 BY <1>2, HeldSession, SeqTypes, Zenon DEF MemInv
  <2>. HIDE DEF size
  <2>2. <<>> \in Seq(Nat) OBVIOUS
  <2>. QED BY <2>1, <2>2
<1> DEFINE q == <<>>
<1>4. /\ q \in Seq(Nat) /\ SumSeq(queue[sq]) = size + SumSeq(q)
      /\ queue' = [queue EXCEPT ![sq] = q] /\ (sq \in released' => q = <<>>)
  BY <1>1, <1>3, Zenon
<1>5. size \in Nat /\ arg' = [arg EXCEPT ![g].size = size] BY <1>1, <1>3, Zenon
<1>. HIDE DEF q, size
<1>. QED BY <1>1, <1>2, <1>4, <1>5, TakeStep, Zenon

LEMMA ReleaseStep ==
  ASSUME IsFiniteSet(Threads), TableInv, Callers, MemInv, NEW g \in Threads, ReleaseMemory(g)
  PROVE  MemInv'
<1> DEFINE size == arg[g].size
<1>1. /\ Alone(g) /\ at[g] = "release" /\ at'[g] = "idle" /\ arg'[g] = NoArg
      /\ (size > 0 /\ total' = total - size) \/ (~(size > 0) /\ total' = total)
  BY AloneReleases, Zenon
<1>2. UNCHANGED <<now, created, sessions, dead, queue, released, reaped>>
  BY Zenon DEF ReleaseMemory, time, table, buffers
<1>3. /\ at[g] \in Pending /\ at'[g] \notin Pending /\ at'[g] # "delete" /\ at[g] # "dropSession"
  BY <1>1, Places, Zenon
<1>4. size \in Nat BY Zenon DEF MemInv, MemTypes, HoldsSession
<1>5. MemTypes'
  <2>. QED
    BY <1>1, <1>2, CreatedTypes, ReturnHolds, OthersHold, QuietTypes, Zenon DEF MemInv, MemTypes
<1>6. total \in Nat
  <2>1. PICK v, w : /\ IsSum(v, HeldOf(queue), Session) /\ IsSum(w, PendOf(at, arg), Threads)
                    /\ total = v + w
    BY Zenon DEF MemInv, Balanced
  <2>. QED BY <2>1, SumType
<1>7. PendOf(at, arg)[g] = size /\ PendOf(at', arg')[g] = 0 BY <1>3, PendValue, Zenon
<1>8. total' \in Int /\ total' + PendOf(at, arg)[g] = total + PendOf(at', arg')[g] /\ total' <= total
  <2>1. (size > 0 /\ total' = total - size) \/ (~(size > 0) /\ total' = total) BY <1>1, Zenon
  <2>. HIDE DEF size
  <2>. QED BY <2>1, <1>4, <1>6, <1>7
<1>9. Balanced' BY <1>1, <1>2, <1>5, <1>8, BalancePend, Zenon DEF MemInv
<1>10. Known' BY <1>1, <1>2, <1>3, KnownQuiet, Zenon DEF MemInv
<1>11. JustDeleted' BY <1>1, <1>2, <1>3, DeletedQuiet, Zenon DEF MemInv
<1>12. total' <= TotalByteSizeLimit
  <2>. QED BY <1>6, <1>8, ConfigAssumption DEF MemInv
<1>. QED BY <1>2, <1>5, <1>9, <1>10, <1>11, <1>12, Zenon DEF MemInv, Emptied

LEMMA ReapStep ==
  ASSUME TableInv, Callers, MemInv, NEW s \in Session, ReleaseInactive(s)
  PROVE  MemInv'
<1>1. /\ s \in reaped /\ reaped' = reaped \ {s} /\ queue' = [queue EXCEPT ![s] = <<>>]
      /\ released' = released \cup {s} /\ UNCHANGED <<now, created, sessions, dead>>
      /\ (queue[s] # <<>> /\ total' = total - SumSeq(queue[s])) \/ (queue[s] = <<>> /\ total' = total)
  BY Zenon DEF ReleaseInactive, Release, time, table
<1>2. \A h \in Threads : arg'[h] = arg[h] /\ Woke(h) BY AllWoke, Zenon
<1>3. queue'[s] = <<>> /\ \A t \in Session \ {s} : queue'[t] = queue[t]
  BY <1>1, Zenon DEF MemInv, MemTypes
<1>4. MemTypes'
  <2>1. <<>> \in Seq(Nat) OBVIOUS
  <2>. QED BY <1>1, <1>2, <2>1, CreatedTypes, WokeHolds, Zenon DEF MemInv, MemTypes
<1>5. total \in Nat
  <2>1. PICK v, w : /\ IsSum(v, HeldOf(queue), Session) /\ IsSum(w, PendOf(at, arg), Threads)
                    /\ total = v + w
    BY Zenon DEF MemInv, Balanced
  <2>. QED BY <2>1, SumType
<1>6. SumSeq(queue[s]) \in Nat /\ SumSeq(<<>>) = 0 BY SeqTypes, Zenon DEF MemInv, MemTypes
<1>7. total' \in Int /\ total' + SumSeq(queue[s]) = total /\ total' <= total
  <2> DEFINE a == SumSeq(queue[s])
  <2>1. total' = total - a \/ (a = 0 /\ total' = total) BY <1>1, <1>6, Zenon
  <2>2. a \in Nat BY <1>6, Zenon
  <2>. HIDE DEF a
  <2>. QED BY <1>5, <2>1, <2>2 DEF a
<1>8. Balanced' BY <1>2, <1>3, <1>4, <1>7, BalanceReleases, Zenon DEF MemInv
<1>9. Known'
  <2>1. ASSUME NEW t \in 1..created PROVE t \in released' \/ Releasable(t)'
    <3>1. CASE t \in released \/ t = s BY <1>1, <3>1, Zenon
    <3>2. CASE t # s /\ ((\E sid \in Sids : sessions[sid] = t) \/ t \in reaped)
      BY <1>1, <3>2, Zenon DEF Releasable
    <3>3. ASSUME NEW h \in Threads, at[h] = "dropSession", arg[h].sq = t PROVE Releasable(t)'
      BY <1>2, <3>3, WokeStays, Zenon DEF Releasable
    <3>. QED BY <3>1, <3>2, <3>3, Zenon DEF MemInv, Known, Releasable
  <2>. QED BY <1>1, <2>1, Zenon DEF Known
<1>10. JustDeleted'
  BY <1>1, <1>2, WokeStays, Zenon DEF MemInv, JustDeleted, DeletesOwn
<1>11. Emptied' BY <1>1, <1>3, Zenon DEF MemInv, Emptied
<1>12. total' <= TotalByteSizeLimit
  <2>. QED BY <1>5, <1>7, ConfigAssumption DEF MemInv
<1>. QED BY <1>4, <1>8, <1>9, <1>10, <1>11, <1>12, Zenon DEF MemInv

LEMMA SameBalance ==
  ASSUME Balanced, UNCHANGED <<queue, total, at, arg>>
  PROVE  Balanced'
BY Zenon DEF Balanced

LEMMA CleanStep ==
  ASSUME TableInv, Callers, MemInv, cleanInactiveSession
  PROVE  MemInv'
<1> DEFINE Old(S) == {s \in S : normalized(now) - mark[s] >= expireDuration}
           Names(S) == {name[s] : s \in Old(S)}
           Gone(S) == {sessions[sid] : sid \in Names(S)} \ {None}
<1>1. PICK S \in SUBSET heap :
        /\ dead' = [sid \in DOMAIN dead \cup {name[s] : s \in Gone(S)} |->
                      IF sid \in DOMAIN dead THEN dead[sid] ELSE now]
        /\ sessions' = [sid \in Sids |-> IF sid \in Names(S) THEN None ELSE sessions[sid]]
        /\ reaped' = Gone(S)
  BY Zenon DEF cleanInactiveSession, Oldest
<1>2. UNCHANGED <<now, created, queue, released, total, at, arg>> /\ reaped = {}
  BY Zenon DEF cleanInactiveSession, NextRound, buffers, calls
<1>3. Gone(S) \subseteq 1..created
  <2>. QED BY CreatedTypes DEF TableInv, Named, None, Numbered
<1>4. \A x \in Sids : sessions[x] # None /\ x \in Names(S) => sessions[x] \in Gone(S) /\ name[sessions[x]] = x
  BY Zenon DEF TableInv, MarkInHeap
<1>5. MemTypes' BY <1>1, <1>2, <1>3, Zenon DEF MemInv, MemTypes, HoldsSession
<1>. HIDE DEF Old, Names, Gone
<1>6. Known'
  <2>1. ASSUME NEW s \in 1..created PROVE s \in released' \/ Releasable(s)'
    <3>1. CASE s \in released BY <1>2, <3>1, Zenon
    <3>2. ASSUME NEW x \in Sids, sessions[x] = s PROVE Releasable(s)'
      <4>1. CASE x \in Names(S)
        <5>. QED BY <1>1, <1>4, <3>2, <4>1, Zenon DEF Releasable, None
      <4>2. CASE x \notin Names(S)
        <5>. QED BY <1>1, <3>2, <4>2, Zenon DEF Releasable
      <4>. QED BY <4>1, <4>2, Zenon
    <3>3. ASSUME NEW h \in Threads, at[h] = "dropSession", arg[h].sq = s PROVE Releasable(s)'
      BY <1>2, <3>3, Zenon DEF Releasable
    <3>. QED BY <1>2, <3>1, <3>2, <3>3, Zenon DEF MemInv, Known, Releasable
  <2>. QED BY <1>2, <2>1, Zenon DEF Known
<1>7. JustDeleted'
  <2>1. ASSUME NEW h \in Threads, at[h] = "delete" PROVE DeletesOwn(h)'
    <3> DEFINE x == arg[h].sid
    <3>1. arg[h].sq # None /\ x \in Sids
      BY <2>1, Places, Zenon DEF MemInv, MemTypes, HoldsSession, Callers
    <3>2. sessions[x] = arg[h].sq \/ (x \in DOMAIN dead /\ dead[x] = now)
      BY <2>1, Zenon DEF MemInv, JustDeleted, DeletesOwn
    <3>. HIDE DEF x
    <3>3. CASE x \in DOMAIN dead /\ dead[x] = now
      <4>. QED BY <1>1, <1>2, <3>3, Zenon DEF DeletesOwn, x
    <3>4. CASE sessions[x] = arg[h].sq /\ x \notin Names(S)
      <4>. QED BY <1>1, <1>2, <3>1, <3>4, Zenon DEF DeletesOwn, x
    <3>5. CASE sessions[x] = arg[h].sq /\ x \in Names(S)
      <4>1. x \in DOMAIN dead' /\ dead'[x] = now
        BY <1>1, <1>4, <3>1, <3>5, Zenon DEF TableInv, NotBothDeadAndAlive
      <4>. QED BY <1>2, <4>1, Zenon DEF DeletesOwn, x
    <3>. QED BY <3>2, <3>3, <3>4, <3>5, Zenon
  <2>. QED BY <1>2, <2>1, Zenon DEF JustDeleted, DeletesOwn
<1>8. Balanced' BY <1>2, SameBalance, Zenon DEF MemInv
<1>. QED BY <1>2, <1>5, <1>6, <1>7, <1>8, Zenon DEF MemInv, Emptied

\* Neither the clock nor the forgetting of dead names comes between the halves of a release.
LEMMA TimeStep ==
  ASSUME DeadSessionIDExpire > 0, MemInv, CleanDead \/ Tick
  PROVE  MemInv'
<1>1. UNCHANGED <<created, sessions, queue, released, reaped, total, at, arg>>
  BY Zenon DEF CleanDead, Tick, buffers, calls, table
<1>2. now' \in Nat
  <2>. QED BY DEF MemInv, MemTypes, CleanDead, NextRound, Tick
<1>3. MemTypes' BY <1>1, <1>2, Zenon DEF MemInv, MemTypes, HoldsSession
<1>4. Known' BY <1>1, Zenon DEF MemInv, Known, Releasable
<1>5. JustDeleted'
  <2>1. CASE Tick BY <1>1, <2>1, Zenon DEF Tick, JustDeleted, DeletesOwn
  <2>2. CASE CleanDead
    <3>1. PICK S : dead' = [sid \in DOMAIN dead \ {x \in S : now - dead[x] >= DeadSessionIDExpire}
                              |-> dead[sid]]
      BY <2>2, Zenon DEF CleanDead
    <3>2. ~(now - now >= DeadSessionIDExpire)
      <4>. QED BY ConfigAssumption DEF MemInv, MemTypes
    <3>3. ASSUME NEW x \in DOMAIN dead, dead[x] = now PROVE x \in DOMAIN dead' /\ dead'[x] = now
      <4>. QED BY <3>1, <3>2, <3>3, Zenon
    <3>. QED BY <1>1, <2>2, <3>3, Zenon DEF MemInv, JustDeleted, DeletesOwn, CleanDead
  <2>. QED BY <2>1, <2>2, Zenon
<1>6. Balanced' BY <1>1, SameBalance, Zenon DEF MemInv
<1>. QED BY <1>1, <1>3, <1>4, <1>5, <1>6, Zenon DEF MemInv, Emptied

LEMMA SameStep ==
  ASSUME MemInv, UNCHANGED vars
  PROVE  MemInv'
<1>1. UNCHANGED <<now, created, sessions, dead, queue, released, reaped, total, at, arg>>
  BY Zenon DEF vars, time, table, buffers, calls
<1>2. Balanced' BY <1>1, SameBalance, Zenon DEF MemInv
<1>3. MemTypes' BY <1>1, Zenon DEF MemInv, MemTypes, HoldsSession
<1>4. Known' BY <1>1, Zenon DEF MemInv, Known, Releasable
<1>5. JustDeleted' BY <1>1, Zenon DEF MemInv, JustDeleted, DeletesOwn
<1>. QED BY <1>1, <1>2, <1>3, <1>4, <1>5, Zenon DEF MemInv, Emptied

LEMMA MemNext ==
  ASSUME IsFiniteSet(Threads), DeadSessionIDExpire > 0, TableInv, Callers, MemInv, [Next]_vars
  PROVE  MemInv'
<1>1. ASSUME NEW g \in Threads, Serve(g) PROVE MemInv'
  <2>1. ASSUME NEW sid \in Sids, Pop(g, sid) PROVE MemInv'
    <3>. QED BY <2>1, CallStep DEF Pop, Holding, Pending
  <2>2. ASSUME NEW sid \in Sids, NEW size \in Sizes, Push(g, sid, size) PROVE MemInv'
    <3>. QED BY <2>2, ConfigAssumption, CallStep DEF Push, Holding, Pending
  <2>3. ASSUME NEW sid \in Sids, ReleaseTopic(g, sid) \/ ReleaseSession(g, sid) PROVE MemInv'
    <3>. QED BY <2>3, CallStep DEF ReleaseTopic, ReleaseSession, Holding, Pending
  <2>. QED BY <1>1, <2>1, <2>2, <2>3, RefreshStep, CreateStep, DeleteStep, PrefetchStep, PushStep,
              PopStep, DropStep, ReleaseStep, Zenon DEF Serve
<1>. QED BY <1>1, CleanStep, TimeStep, SameStep, ReapStep, Zenon DEF Next, CleanLoop

LEMMA MemInit ==
  ASSUME IsFiniteSet(Threads), Init
  PROVE  MemInv
<1>1. MemTypes /\ Known /\ Emptied /\ JustDeleted
  <2>1. /\ now = 0 /\ created = 0 /\ released = {} /\ reaped = {} /\ total = 0
        /\ queue = [s \in Session |-> <<>>]
        /\ \A g \in Threads : at[g] = "idle" /\ arg[g] = NoArg
    BY Zenon DEF Init
  <2>2. \A g \in Threads : HoldsSession(g) BY <2>1 DEF HoldsSession, NoArg, None, Holding
  <2>3. 0 \in Nat /\ <<>> \in Seq(Nat) /\ 1..0 = {} /\ "idle" # "delete" OBVIOUS
  <2>. QED BY <2>1, <2>2, <2>3, Zenon DEF MemTypes, Known, Emptied, JustDeleted, DeletesOwn
<1>2. Balanced
  <2>1. IsFiniteSet(Session)
    <3>. QED BY ConfigAssumption, FiniteInterval, Zenon DEF Session
  <2>2. 0 \in Nat OBVIOUS
  <2>3. ASSUME NEW S, IsFiniteSet(S), NEW h, \A x \in S : h[x] = 0 PROVE IsSum(0, h, S)
    <3>1. PICK v : IsSum(v, h, S) BY <2>2, <2>3, SumExists, Zenon
    <3>2. PICK f : Sums(f, h, S) /\ v = f[S] BY <3>1, Zenon DEF IsSum
    <3>3. f[S] = f[{}] BY <2>3, <3>2, SumsSupport, SMT
    <3>. QED BY <3>1, <3>2, <3>3, Zenon DEF Sums
  <2>4. total = 0 + 0 BY DEF Init
  <2>. QED BY <2>1, <2>3, <2>4, Places, SeqTypes, Zenon DEF Balanced, HeldOf, Init, PendOf
<1>. QED BY <1>1, <1>2, ConfigAssumption DEF MemInv, Init

(***************************************************************************)
(* From MemInv to MemoryAccounted: sessions nobody releases hold nothing,  *)
(* so the sums over all sessions and goroutines are those over the ones it *)
(* names.                                                                  *)
(***************************************************************************)
Stored(R) == MapThenSumSet(Held, R)
Reserved(R) == MapThenSumSet(LAMBDA g : arg[g].size, R)
SizeOf(R) == [g \in R |-> arg[g].size]
Holders == {s \in Session : Releasable(s)}
Reservers == {g \in Threads : at[g] \in {"push", "release"}}

LEMMA StoredSum ==
  ASSUME NEW S, IsFiniteSet(S), S \subseteq Session, \A s \in S : HeldOf(queue)[s] \in Nat
  PROVE  IsSum(Stored(S), HeldOf(queue), S)
<1> DEFINE R(f) == f = [s \in SUBSET S |-> IF s = {} THEN 0
                                           ELSE SumSeq(queue[Chosen(s)]) + f[s \ {Chosen(s)}]]
<1>1. Stored(S) = (CHOOSE f : R(f))[S]
  BY DEF Stored, Held, MapThenSumSet, MapThenFoldSet, Chosen
<1>2. \A f : R(f) <=> Fold(f, HeldOf(queue), SUBSET S)
  BY ChosenIn, Zenon DEF Fold, HeldOf
<1>3. Fold(CHOOSE f : R(f), HeldOf(queue), SUBSET S)
  <2>1. \E f : R(f) BY <1>2, FoldExists, Zenon
  <2>. HIDE DEF R
  <2>. QED BY <1>2, <2>1, Zenon
<1>. HIDE DEF R
<1>. QED BY <1>1, <1>3, FoldSums, Zenon DEF IsSum

LEMMA ReservedSum ==
  ASSUME NEW S, IsFiniteSet(S), \A g \in S : arg[g].size \in Nat
  PROVE  IsSum(Reserved(S), SizeOf(S), S)
<1> DEFINE R(f) == f = [s \in SUBSET S |-> IF s = {} THEN 0
                                           ELSE arg[Chosen(s)].size + f[s \ {Chosen(s)}]]
<1>1. Reserved(S) = (CHOOSE f : R(f))[S]
  BY DEF Reserved, MapThenSumSet, MapThenFoldSet, Chosen
<1>2. \A f : R(f) <=> Fold(f, SizeOf(S), SUBSET S)
  BY ChosenIn, Zenon DEF Fold, SizeOf
<1>3. Fold(CHOOSE f : R(f), SizeOf(S), SUBSET S)
  <2>1. \E f : R(f) BY <1>2, FoldExists, Zenon
  <2>. HIDE DEF R
  <2>. QED BY <1>2, <2>1, Zenon
<1>. HIDE DEF R
<1>. QED BY <1>1, <1>3, FoldSums, Zenon DEF IsSum, SizeOf

LEMMA MemoryMeaning ==
  MemoryAccounted <=> total <= TotalByteSizeLimit /\ total = Stored(Holders) + Reserved(Reservers)
BY DEF MemoryAccounted, Stored, Reserved, Holders, Reservers, MapThenSumSet, MapThenFoldSet

LEMMA InvAccounts ==
  ASSUME IsFiniteSet(Threads), TableInv, MemInv
  PROVE  MemoryAccounted
<1>1. PICK v, w : /\ IsSum(v, HeldOf(queue), Session) /\ IsSum(w, PendOf(at, arg), Threads)
                  /\ total = v + w
  BY Zenon DEF MemInv, Balanced
<1>2. IsFiniteSet(Session)
  <2>. QED BY ConfigAssumption, FiniteInterval, Zenon DEF Session
<1>3. Holders \in SUBSET Session /\ Reservers \in SUBSET Threads BY Zenon DEF Holders, Reservers
<1>4. IsFiniteSet(Holders) /\ IsFiniteSet(Reservers) BY <1>2, <1>3, FiniteSubset, Zenon
<1>5. v = Stored(Holders)
  <2>1. IsSum(Stored(Holders), HeldOf(queue), Holders)
    <3>. QED BY <1>3, <1>4, SeqTypes, StoredSum, Zenon DEF HeldOf, MemInv, MemTypes
  <2>2. ASSUME NEW s \in Session \ Holders PROVE HeldOf(queue)[s] = 0
    <3>1. s \in released \/ s > created
      <4>. QED BY CreatedTypes DEF MemInv, Known, Holders, Session
    <3>. QED BY <3>1, SeqTypes, Zenon DEF HeldOf, MemInv, Emptied
  <2>. QED BY <1>1, <1>2, <1>3, <2>1, <2>2, SumSupport, SMT
<1>6. w = Reserved(Reservers)
  <2>1. IsSum(Reserved(Reservers), SizeOf(Reservers), Reservers)
    <3>. QED BY <1>3, <1>4, ReservedSum, Zenon DEF MemInv, MemTypes, HoldsSession
  <2>. QED BY <1>1, <1>3, <2>1, SumSupport, SMT DEF PendOf, Pending, Reservers, SizeOf
<1>. QED BY <1>1, <1>5, <1>6, MemoryMeaning, Zenon DEF MemInv

\* Theorem: the memory session_manager.go accounts for is, in every interleaving of its calls
\* and of the clean loop, what lies in sessions that somebody will release and what calls
\* have reserved or have still to give back, and it keeps to its limit.  A deleted name must
\* stay dead for some time: with an expiry of 0 it could be forgotten and used again between
\* the two halves of a release, and the release would return the bytes of another session.
THEOREM MemoryCounted ==
  ASSUME IsFiniteSet(Threads), DeadSessionIDExpire > 0
  PROVE  Spec => []MemoryAccounted
<1> DEFINE IInv == TableInv /\ Callers /\ MemInv
<1>1. Init => IInv BY TableInit, MemInit, Zenon
<1>2. IInv /\ [Next]_vars => IInv'
  <2>. SUFFICES ASSUME IInv, [Next]_vars PROVE IInv' BY Zenon
  <2>1. TableInv' /\ Callers' BY TableStep, CallersStep, Zenon
  <2>2. MemInv' BY MemNext, Zenon
  <2>. QED BY <2>1, <2>2, Zenon
<1>3. IInv => MemoryAccounted BY InvAccounts, Zenon
<1>. QED BY <1>1, <1>2, <1>3, PTL DEF Spec
==============================================================================
