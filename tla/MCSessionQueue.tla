--------------------------- MODULE MCSessionQueue ---------------------------
(***************************************************************************)
(* SessionQueue for TLC, with a history variable.  All topics of a session *)
(* share the condition notEmpty, so a signal may be spent on a pop of      *)
(* another topic; mixed says that pops of two topics waited side by side   *)
(* since the last moment no pop waited.                                    *)
(***************************************************************************)
EXTENDS SessionQueue

VARIABLE mixed

mcvars == <<queueVars, mixed>>

InWait == {g \in Goroutines : pc[g] \in {"waiting", "woken"} /\ call[g].op = "pop"}
WaitedFor == {call[g].topic : g \in InWait}

MCInit == QueueInit /\ mixed = FALSE

MCNext ==
  /\ QueueNext
  /\ mixed' = (WaitedFor' # {} /\ (mixed \/ Cardinality(WaitedFor') > 1))

MCSpec == MCInit /\ [][MCNext]_mcvars /\ TimedFairness

\* No pop call sleeps beside a queued message of its topic unless a wake-up is on its way
\* to some pop call, or pops of another topic waited with it: Push signals once for each
\* message it queues, without the mutex, and the wake-up may come to any waiting pop.
PopNotStranded ==
  \A g \in Waiting("pop") :
    (availableToPop(call[g].topic) /\ ~mixed) =>
      \E h \in Goroutines : \/ pc[h] = "woken" /\ call[h].op = "pop"
                            \/ pc[h] = "signal" /\ call[h].op = "push"
=============================================================================
