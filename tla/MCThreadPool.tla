---------------------------- MODULE MCThreadPool ----------------------------
(* Small instances of ThreadPool for TLC. *)
EXTENDS ThreadPool, TLC

CONSTANTS w1, w2, w3, c1, c2, c3, t1, t2, t3

TwoWorkers == {w1, w2}
ThreeWorkers == {w1, w2, w3}
OneCaller == {c1}
TwoCallers == {c1, c2}
ThreeCallers == {c1, c2, c3}
FirstTask == {t1}
TwoTasks == {t1, t2}
ThreeTasks == {t1, t2, t3}

NoneOf == {}
ZeroOne == {0, 1}
OnlyOne == {1}

Interchangeable ==
    Permutations(Workers) \cup Permutations(Callers) \cup Permutations(Tasks)

=============================================================================
