---------------------------- MODULE MCKusciaJob ----------------------------
(***************************************************************************)
(* Jobs of two tasks, with and without a partner.                          *)
(***************************************************************************)
EXTENDS KusciaJob, TLC

CONSTANTS a, b, p

TwoTasks == {a, b}
OnePartner == {p}

Chain == [deps |-> (a :> {} @@ b :> {a}), tolerable |-> {},
          rank |-> (a :> 1 @@ b :> 2), mode |-> "Strict",
          maxParallelism |-> 2, partners |-> {}, givenIDs |-> FALSE]
Apart == [Chain EXCEPT !.deps = [t \in TwoTasks |-> {}], !.mode = "BestEffort",
                       !.maxParallelism = 1, !.givenIDs = TRUE]
Shared == [Apart EXCEPT !.partners = {p}, !.tolerable = {b}]
Cyclic == [Chain EXCEPT !.deps[a] = {b}]
MCSpecs == {Chain, Apart, Shared, Cyclic}
=============================================================================
