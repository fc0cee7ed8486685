---------------------------- MODULE MCThreadPool ----------------------------
(***************************************************************************)
(* Instances of ThreadPool for TLC: two workers, a thread that runs tasks  *)
(* itself, and two tasks that anyone may cancel.                           *)
(***************************************************************************)
EXTENDS ThreadPool

CONSTANTS w1, w2, r1, a, b

TwoWorkers == {w1, w2}
OneRunner == {r1}
TheThreads == {w1, w2, r1}
TwoTasks == {a, b}
=============================================================================
