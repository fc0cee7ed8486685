----------------------------- MODULE ThreadPool -----------------------------
(***************************************************************************)
(* ThreadPoolTaskExecutor with the tasks submitted to it.  Workers take    *)
(* actions from the queue and perform them; the holders of the tasks may   *)
(* run or cancel them at the same time; the pool is asked to terminate and *)
(* is destroyed.  A section under m_actions_guard is one step; a try_lock  *)
(* that fails is no step at all.                                           *)
(***************************************************************************)
EXTENDS Task, Sequences

CONSTANTS
    Workers,    \* m_workers
    Runners     \* the threads that call Task::run or runAsync started

ASSUME PoolAssumption == Performers = Workers \cup Runners /\ Workers \cap Runners = {}

VARIABLES
    m_actions,
    m_done,
    worker,         \* where each worker is in startWorker
    submitted,      \* the tasks passed to submit()
    run,            \* the tasks whose holder called run() or runAsync()
    destroying      \* the destructor has set m_done and joins the workers

poolVars == <<m_actions, m_done, worker, submitted, run, destroying>>
vars == <<taskVars, poolVars>>

TypeOK ==
    /\ TaskTypeOK
    /\ m_actions \in Seq(Tasks)
    /\ m_done \in BOOLEAN
    /\ worker \in [Workers -> {"loop", "lock", "wait", "check", "drain", "exited"}]
    /\ submitted \subseteq Tasks
    /\ run \subseteq Tasks
    /\ destroying \in BOOLEAN

Init ==
    /\ TaskInit
    /\ m_actions = <<>>
    /\ m_done = FALSE
    /\ worker = [w \in Workers |-> "loop"]
    /\ submitted = {} /\ run = {}
    /\ destroying = FALSE

Waiting == {w \in Workers : worker[w] = "wait"}

\* A woken worker has to take the lock and test its predicate again.
NotifyAll_wakes_one ==
    IF Waiting = {} THEN UNCHANGED worker
    ELSE \E w \in Waiting : worker' = [worker EXCEPT ![w] = "lock"]
NotifyAll ==
    worker' = [w \in Workers |-> IF w \in Waiting THEN "lock" ELSE worker[w]]

NotifyOne_forgotten == UNCHANGED worker
NotifyOne ==
    IF Waiting = {} THEN UNCHANGED worker
    ELSE \E w \in Waiting : worker' = [worker EXCEPT ![w] = "lock"]

-----------------------------------------------------------------------------
(* The users of the pool and of the tasks.                                 *)

\* submit creates the task, so nobody has run or cancelled it yet; doExecute
\* pushes its action and wakes a worker, if any waits.
Created(t) == t \notin submitted /\ t \notin run /\ answer[t] = None

Submit(t) ==
    /\ ~destroying /\ Created(t)
    /\ submitted' = submitted \cup {t}
    /\ m_actions' = Append(m_actions, t)
    /\ NotifyOne
    /\ UNCHANGED <<taskVars, m_done, run, destroying>>

\* Task::run or runAsync.  Bound: once per task.
Run(p, t) ==
    /\ t \notin run
    /\ run' = run \cup {t}
    /\ Enter(p, t)
    /\ UNCHANGED <<m_actions, m_done, worker, submitted, destroying>>

\* The holder has the task from submit() or made it himself.
Cancel(t) == TryCancel(t) /\ UNCHANGED poolVars

\* doTerminate: the flag alone.
Terminate ==
    /\ ~m_done
    /\ m_done' = TRUE
    /\ UNCHANGED <<taskVars, m_actions, worker, submitted, run, destroying>>

\* The destructor, up to its joins.
Destroy ==
    /\ ~destroying
    /\ destroying' = TRUE
    /\ m_done' = TRUE
    /\ NotifyAll
    /\ UNCHANGED <<taskVars, m_actions, submitted, run>>

-----------------------------------------------------------------------------
(* startWorker.                                                            *)

Move(w, from, to) ==
    /\ worker[w] = from
    /\ worker' = [worker EXCEPT ![w] = to]
    /\ UNCHANGED <<m_actions, m_done, submitted, run, destroying>>

Loop(w) ==
    /\ Move(w, "loop", IF m_done THEN "exited" ELSE "lock")
    /\ UNCHANGED taskVars

\* m_cv.wait with its predicate, which the lock covers.
Wakeable == m_actions # <<>> \/ m_done

Wait(w) ==
    /\ Move(w, "lock", IF Wakeable THEN "check" ELSE "wait")
    /\ UNCHANGED taskVars

CheckDone(w) ==
    /\ Move(w, "check", IF m_done THEN "exited" ELSE "drain")
    /\ UNCHANGED taskVars

\* The inner loop ends at an empty queue; it does not look at m_done.
Drained(w) ==
    /\ phase[w] = "idle" /\ m_actions = <<>>
    /\ Move(w, "drain", "loop")
    /\ UNCHANGED taskVars

Take(w) ==
    /\ worker[w] = "drain" /\ m_actions # <<>>
    /\ Enter(w, Head(m_actions))
    /\ m_actions' = Tail(m_actions)
    /\ UNCHANGED <<m_done, worker, submitted, run, destroying>>

WorkerStep(w) == Loop(w) \/ Wait(w) \/ CheckDone(w) \/ Drained(w) \/ Take(w)
PerformStep(p) == Perform(p) /\ UNCHANGED poolVars

\* A condition variable may wake without being notified.
SpuriousWakeup(w) == Move(w, "wait", "lock") /\ UNCHANGED taskVars

Next ==
    /\ ~terminated
    /\ \/ \E t \in Tasks : Submit(t) \/ Cancel(t) \/ \E p \in Runners : Run(p, t)
       \/ Terminate \/ Destroy
       \/ \E w \in Workers : WorkerStep(w) \/ SpuriousWakeup(w)
       \/ \E p \in Performers : PerformStep(p)

Spec == Init /\ [][Next]_vars

(* The threads run and the functions of the tasks return.  Nobody has to    *)
(* submit, cancel or destroy anything.                                      *)
Fairness ==
    /\ \A w \in Workers : WF_vars(~terminated /\ WorkerStep(w))
    /\ \A p \in Performers : WF_vars(~terminated /\ PerformStep(p))

FairSpec == Spec /\ Fairness

-----------------------------------------------------------------------------
(* Properties.                                                             *)

\* No submitted task waits in the queue for ever while the pool is in use: the
\* notify_one of doExecute is not lost between the predicate and the wait.
EveryTaskPerformed ==
    \A t \in Tasks :
        t \in submitted ~> t \in performed \/ m_done \/ terminated

\* The destructor returns: every worker sees m_done and can be joined, also if
\* terminate() had set it before without waking anyone.
PoolStops ==
    destroying ~> terminated \/ \A w \in Workers : worker[w] = "exited" /\ phase[w] = "idle"
=============================================================================
