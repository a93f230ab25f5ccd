---------------------------- MODULE MCTimerLists ----------------------------
(* Three timers and two of the wheel's lists. *)
EXTENDS TimerLists

CONSTANTS n1, n2, n3, h1, h2

ThreeNodes == {n1, n2, n3}
TwoHeads == {h1, h2}
=============================================================================
