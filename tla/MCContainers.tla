---------------------------- MODULE MCContainers ----------------------------
(***************************************************************************)
(* Small instances of the sequential containers: HashTable, SkipList and   *)
(* the lists of the timers.  They have nothing to do with each other: a    *)
(* behaviour works on one of them.                                         *)
(***************************************************************************)
EXTENDS HashTable, SkipList, MCTimerLists, TLC

CONSTANTS k1, k2, k3, k4, v1, v2, v3

\* Three of the keys are in one chain, before an empty chain.
FourKeys == {k1, k2, k3, k4}
ThreeVals == {v1, v2, v3}
Colliding == (k1 :> 0) @@ (k2 :> 3) @@ (k3 :> 6) @@ (k4 :> 2)
SomeRandoms == 0..8

\* Equal scores and different ones.
SomeScores == {1, 2}
SomeObjs == 1..4
SomeRanks == 1..5

VARIABLE subject

EitherInit ==
    /\ Init /\ zslCreate /\ ListsInit
    /\ subject \in {"hash", "skiplist", "lists"}
    /\ subject # "lists" => heap.next[n1] = h1

EitherNext ==
    /\ \/ subject = "hash" /\ Next /\ UNCHANGED <<zslVars, listVars>>
       \/ subject = "skiplist" /\ zslNext /\ UNCHANGED <<vars, listVars>>
       \/ subject = "lists" /\ ListsNext /\ UNCHANGED <<vars, zslVars>>
    /\ UNCHANGED subject

EitherSpec == EitherInit /\ [][EitherNext]_<<vars, zslVars, listVars, subject>>
=============================================================================
