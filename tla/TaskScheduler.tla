---------------------------- MODULE TaskScheduler ----------------------------
(***************************************************************************)
(* The TaskScheduler: application threads schedule actions with a delay,   *)
(* one watcher thread waits for the most urgent and hands it to the        *)
(* executor.  The clock is not a variable: what the code computes from     *)
(* Clock::now() is the age of a time stamp, and ages are what Tick moves.  *)
(***************************************************************************)
EXTENDS Integers, FiniteSets

CONSTANTS
    Tasks,
    Delays,       \* the delays the application asks for, in ticks
    MaxDelay,     \* the longest of them; an age above it is as good as any
    Infinite,     \* maxWaitTime(): a duration no clock gets through
    MaxSpurious   \* bound: wake-ups of the condition variable nobody asked for

ASSUME DelaysAssumption ==
    /\ MaxDelay \in Nat /\ MaxSpurious \in Nat
    /\ Delays \subseteq 0..MaxDelay
    /\ Infinite \in Nat /\ Infinite > 2 * MaxDelay + 1

VARIABLES
    m_scheduled_actions,
    left,               \* ScheduledAction::timeLeft of each task
    m_delay,
    age,                \* Clock::now() - m_delay_update_ts
    m_suspend_reason,
    watcher,            \* "between" two iterations, "waiting", or "returned"
    timer,              \* what is left of the time wait_for was given
    notified,           \* a notification has reached the waiting watcher
    executed,           \* the tasks given to doExecute
    early,              \* how many of them before their time
    spurious,           \* the spurious wake-ups so far
    destructor          \* "none", "joining" the watcher, or "done"

waiting == <<watcher, timer, notified>>
schedule == <<m_scheduled_actions, left, m_delay, age, m_suspend_reason>>
vars == <<schedule, waiting, executed, early, spurious, destructor>>

Durations == (-(MaxDelay + 1)..MaxDelay) \cup {Infinite}

TypeOK ==
    /\ m_scheduled_actions \subseteq Tasks /\ executed \subseteq Tasks
    /\ left \in [Tasks -> Durations \ {Infinite}]
    /\ m_delay \in Durations /\ timer \in Durations
    /\ age \in 0..(MaxDelay + 1)
    /\ m_suspend_reason \in {"UpdateDelay", "ExecuteTask", "Terminate"}
    /\ watcher \in {"between", "waiting", "returned"}
    /\ notified \in BOOLEAN
    /\ early \in Nat /\ spurious \in 0..MaxSpurious
    /\ destructor \in {"none", "joining", "done"}

\* The constructor returns three seconds after it has started the watcher.
Init ==
    /\ m_scheduled_actions = {} /\ executed = {}
    /\ left = [t \in Tasks |-> 0]
    /\ m_delay = Infinite /\ timer = Infinite
    /\ age = 0
    /\ m_suspend_reason = "UpdateDelay"
    /\ watcher = "between" /\ notified = FALSE
    /\ early = 0 /\ spurious = 0 /\ destructor = "none"

\* An action is handed over once: what is queued has not been executed.
Unscheduled == Tasks \ (m_scheduled_actions \cup executed)

\* TaskScheduler::timeLeft() > delay
TimeLeftExceeds_reversed(delay) == m_delay - age < delay
TimeLeftExceeds(delay) == m_delay - age > delay

\* The tasks a queue of Q may have on top: it is ordered by timeLeft, and equals
\* come in any order.
Tops_latest(Q) == {t \in Q : \A u \in Q : left[t] >= left[u]}
Tops(Q) == {t \in Q : \A u \in Q : left[t] <= left[u]}

\* notify_one: lost unless the watcher waits.
Notify == notified' = (notified \/ watcher = "waiting") /\ UNCHANGED <<watcher, timer>>

-----------------------------------------------------------------------------
(* The application.  isTerminating() reads m_done of the pool, which only  *)
(* the destructor of the pool sets, after that of the scheduler has joined *)
(* the watcher: it never refuses an action nor ends the watcher's loop.    *)
(* The destructor does not ask the watcher to return.  While it joins it,  *)
(* the actions that are performed may still schedule others.               *)

Adopted_at_once == "ExecuteTask"
Adopted == "UpdateDelay"

Schedule(t, delay) ==
    /\ destructor # "done" /\ t \in Unscheduled
    /\ m_scheduled_actions' = m_scheduled_actions \cup {t}
    /\ left' = [left EXCEPT ![t] = delay]
    /\ \/ /\ TimeLeftExceeds(delay)
          /\ m_delay' = delay
          /\ m_suspend_reason' = Adopted
          /\ Notify
       \/ /\ ~TimeLeftExceeds(delay)
          /\ UNCHANGED <<m_delay, m_suspend_reason, waiting>>
    /\ UNCHANGED <<age, executed, early, spurious, destructor>>

DoTerminate ==
    /\ m_suspend_reason' = "Terminate"
    /\ Notify
    /\ UNCHANGED <<m_scheduled_actions, left, m_delay, age, executed, early, spurious>>

Terminate == destructor # "done" /\ DoTerminate /\ UNCHANGED destructor

\* m_watcher.join()
Destroy ==
    /\ destructor = "none" /\ destructor' = "joining"
    /\ UNCHANGED <<schedule, waiting, executed, early, spurious>>

\* It returns, and Executor::terminate() is called.
Joined ==
    /\ destructor = "joining" /\ watcher = "returned"
    /\ destructor' = "done"
    /\ DoTerminate

-----------------------------------------------------------------------------
(* watcherFn: the lock is released while it waits and between iterations.  *)

\* m_cv.wait_for(lock, m_delay)
Wait ==
    /\ watcher = "between" /\ watcher' = "waiting"
    /\ timer' = m_delay /\ notified' = FALSE
    /\ UNCHANGED <<schedule, executed, early, spurious, destructor>>

Expired == timer <= 0

\* m_delay becomes the time left of the top of what remains in the queue.
NextDelay_of_scheduler(Q) == {m_delay - age}
NextDelay_forgotten(Q) == {Infinite}
NextDelay(Q) == IF Q = {} THEN {Infinite} ELSE {left[t] : t \in Tops(Q)}

OnUpdateDelay ==
    /\ m_suspend_reason = "UpdateDelay" /\ m_suspend_reason' = "ExecuteTask"
    /\ watcher' = "between"
    /\ UNCHANGED <<m_scheduled_actions, left, m_delay, executed, early>>

OnExecuteTask ==
    /\ m_suspend_reason = "ExecuteTask"
    /\ \/ /\ m_scheduled_actions = {}
          /\ UNCHANGED <<m_scheduled_actions, left, executed, early>>
       \/ \E t \in Tops(m_scheduled_actions) :
             /\ m_scheduled_actions' = m_scheduled_actions \ {t}
             /\ executed' = executed \cup {t}
             /\ early' = IF left[t] > 0 THEN early + 1 ELSE early
             /\ left' = [left EXCEPT ![t] = 0]
    /\ m_delay' \in NextDelay(m_scheduled_actions')
    /\ watcher' = "between"
    /\ UNCHANGED m_suspend_reason

OnTerminate ==
    /\ m_suspend_reason = "Terminate"
    /\ watcher' = "returned"
    /\ UNCHANGED <<m_scheduled_actions, left, m_delay, m_suspend_reason, executed, early>>

\* wait_for has no predicate: it returns when it is notified, when its time is
\* over, and also for no reason at all.
Wake ==
    /\ watcher = "waiting"
    /\ \/ (notified \/ Expired) /\ UNCHANGED spurious
       \/ /\ ~(notified \/ Expired)
          /\ spurious < MaxSpurious /\ spurious' = spurious + 1
    /\ OnUpdateDelay \/ OnExecuteTask \/ OnTerminate
    /\ age' = IF m_suspend_reason = "Terminate" THEN age ELSE 0
    /\ timer' = Infinite /\ notified' = FALSE
    /\ UNCHANGED destructor

-----------------------------------------------------------------------------
\* Bound: a duration below -MaxDelay is kept there, which leaves open the order of
\* two actions that are both that late.
Less(d) == IF d = Infinite \/ d < -MaxDelay THEN d ELSE d - 1

Tick ==
    /\ left' = [t \in Tasks |-> IF t \in m_scheduled_actions THEN Less(left[t]) ELSE left[t]]
    /\ age' = IF age > MaxDelay THEN age ELSE age + 1
    /\ timer' = IF watcher = "waiting" THEN Less(timer) ELSE timer
    /\ UNCHANGED <<m_scheduled_actions, m_delay, m_suspend_reason, watcher, notified,
                   executed, early, spurious, destructor>>

Next ==
    \/ \E t \in Tasks, delay \in Delays : Schedule(t, delay)
    \/ Terminate \/ Destroy \/ Joined \/ Wait \/ Wake \/ Tick

Spec == Init /\ [][Next]_vars

(* The watcher runs and its clock does not stop; a join returns when it can. *)
Fairness ==
    /\ WF_vars(Wait) /\ WF_vars((notified \/ Expired) /\ Wake)
    /\ WF_vars(Tick) /\ WF_vars(Joined)

FairSpec == Spec /\ Fairness

-----------------------------------------------------------------------------
(* Properties.                                                             *)

\* While an action is queued the watcher neither waits for ever nor is about to:
\* a notification sent between two iterations is lost, the delay it announces is
\* not.
WaitFinite ==
    m_scheduled_actions # {} =>
        /\ m_delay # Infinite
        /\ watcher = "waiting" /\ ~notified => timer # Infinite

\* No timer and no notification, late or lost, makes doExecute hand an action over
\* before its delay is over: m_delay may lag behind the queue and never runs ahead of
\* it.  Spurious wake-ups do, since wait_for has no predicate, one action at each.
NotBeforeItsTime == early <= spurious

\* Every action is handed to the executor, whatever is scheduled after it and
\* however notifications are lost, unless the scheduler is terminated.
EveryActionExecuted ==
    \A t \in Tasks :
        t \in m_scheduled_actions
            ~> t \in executed \/ m_suspend_reason = "Terminate" \/ watcher = "returned"

\* A termination is heard while actions are queued, though its notification may
\* be lost, and a destructor that waits for it returns, unless a later call of
\* schedule overwrites it.
TerminationHeard ==
    m_suspend_reason = "Terminate" /\ m_scheduled_actions # {}
        ~> \/ watcher = "returned" /\ destructor # "joining"
           \/ m_suspend_reason # "Terminate"
=============================================================================
