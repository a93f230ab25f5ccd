---------------------------- MODULE MCTimerWheel ----------------------------
(* A wheel of two or three slots per level for TLC. *)
EXTENDS TimerWheel

CONSTANT t1

OneTimer == {t1}

SmallSizes == <<3, 2, 3, 2>>     \* a day of 36 ticks
OneDay == 36
DayAndMore == (1 .. OneDay + 7) \cup {2 * OneDay + 1}
Limits == 0 .. 2
FirstDay == 0 .. OneDay + 3

ASSUME SmallWheelSuffices == NoOverflow
=============================================================================
