--------------------------- MODULE MCTaskScheduler ---------------------------
(***************************************************************************)
(* Instance of TaskScheduler for TLC: three actions, delays up to two ticks.   *)
(***************************************************************************)
EXTENDS TaskScheduler

CONSTANTS t1, t2, t3

ThreeTasks == {t1, t2, t3}
UpToTwo == {0, 1, 2}
=============================================================================
