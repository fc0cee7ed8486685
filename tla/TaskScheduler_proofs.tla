------------------------ MODULE TaskScheduler_proofs ------------------------
(***************************************************************************)
(* Proofs about the TaskScheduler: its types, that the watcher never       *)
(* waits for ever over a queued action, and that it hands none over before *)
(* its time unless it is woken for no reason.                              *)
(***************************************************************************)
EXTENDS TaskScheduler, TLAPS

USE DEF Durations

\* What m_delay says of the queue: it is maxWaitTime() over an empty one, and
\* some queued action is due when it is over.
DelayKnown ==
    /\ m_scheduled_actions = {} => m_delay = Infinite
    /\ m_scheduled_actions # {} =>
          m_delay <= MaxDelay /\ \E t \in m_scheduled_actions : left[t] <= m_delay

\* A notification always comes with a reason other than the end of the delay.
NotifiedForReason ==
    /\ notified => watcher = "waiting" /\ m_suspend_reason # "ExecuteTask"
    /\ watcher = "waiting" /\ ~notified /\ m_scheduled_actions # {} => timer <= MaxDelay

\* When the wait for an action ends, some action is due.
DueWhenExpired ==
    watcher = "waiting" /\ m_suspend_reason = "ExecuteTask" /\ m_scheduled_actions # {} =>
        \E t \in m_scheduled_actions : left[t] <= timer

IInv == TypeOK /\ DelayKnown /\ NotifiedForReason /\ DueWhenExpired /\ NotBeforeItsTime

USE DelaysAssumption

\* schedule() never leaves a queued action to maxWaitTime(): over an empty queue
\* timeLeft() exceeds every delay.
LEMMA FirstIsAdopted ==
    ASSUME IInv, m_scheduled_actions = {}, NEW delay \in Delays
    PROVE  TimeLeftExceeds(delay)
  BY DEF IInv, TypeOK, DelayKnown, TimeLeftExceeds

\* A step of Less keeps the order of two durations that are known.
LEMMA LessMonotone ==
    ASSUME NEW a \in Durations \ {Infinite}, NEW b \in Durations, a <= b
    PROVE  Less(a) \in Durations \ {Infinite} /\ Less(b) \in Durations /\ Less(a) <= Less(b)
  BY DEF Less

LEMMA InitInv == ASSUME Init PROVE IInv
<1> USE DEF Init
<1>1. 0 \in Durations \ {Infinite} /\ Infinite \in Durations
      /\ 0 \in 0..(MaxDelay + 1) /\ 0 \in 0..MaxSpurious
  OBVIOUS
<1>2. left \in [Tasks -> Durations \ {Infinite}]
  BY <1>1
<1>3. TypeOK
  BY <1>1, <1>2 DEF TypeOK
<1>4. DelayKnown /\ NotifiedForReason /\ DueWhenExpired /\ NotBeforeItsTime
  BY DEF DelayKnown, NotifiedForReason, DueWhenExpired, NotBeforeItsTime
<1> QED BY <1>3, <1>4 DEF IInv

LEMMA ScheduleInv ==
    ASSUME IInv, NEW t \in Tasks, NEW delay \in Delays, Schedule(t, delay)
    PROVE  IInv'
<1> USE DEF Schedule
<1>1. /\ delay \in 0..MaxDelay
      /\ m_scheduled_actions' = m_scheduled_actions \cup {t}
      /\ t \notin m_scheduled_actions
      /\ left \in [Tasks -> Durations \ {Infinite}] /\ left' = [left EXCEPT ![t] = delay]
      /\ m_scheduled_actions \subseteq Tasks
  BY DEF Unscheduled, IInv, TypeOK
<1>2. left'[t] = delay /\ \A u \in m_scheduled_actions : left'[u] = left[u]
  BY <1>1
<1>3. CASE TimeLeftExceeds(delay) /\ m_delay' = delay /\ m_suspend_reason' = Adopted /\ Notify
  <2>1. TypeOK'
    BY <1>1, <1>3 DEF IInv, TypeOK, Notify, Adopted
  <2>2. DelayKnown'
    BY <1>1, <1>2, <1>3 DEF DelayKnown
  <2>3. NotifiedForReason' /\ DueWhenExpired' /\ NotBeforeItsTime'
    BY <1>3 DEF IInv, TypeOK, NotifiedForReason, DueWhenExpired, NotBeforeItsTime, Notify, Adopted
  <2> QED BY <2>1, <2>2, <2>3 DEF IInv
<1>4. CASE ~TimeLeftExceeds(delay) /\ UNCHANGED <<m_delay, m_suspend_reason, waiting>>
  <2>1. m_scheduled_actions # {}
    BY <1>4, FirstIsAdopted
  <2>2. TypeOK'
    BY <1>1, <1>4 DEF IInv, TypeOK, waiting
  <2>3. DelayKnown'
    BY <1>1, <1>2, <1>4, <2>1 DEF IInv, DelayKnown
  <2>4. NotifiedForReason' /\ NotBeforeItsTime'
    BY <1>4, <2>1 DEF IInv, NotifiedForReason, NotBeforeItsTime, waiting
  <2>5. DueWhenExpired'
    BY <1>1, <1>2, <1>4, <2>1 DEF IInv, DueWhenExpired, waiting
  <2> QED BY <2>2, <2>3, <2>4, <2>5 DEF IInv
<1> QED BY <1>3, <1>4

LEMMA TerminateInv == ASSUME IInv, DoTerminate, destructor' \in {destructor, "done"} PROVE IInv'
  BY DEF IInv, TypeOK, DelayKnown, NotifiedForReason, DueWhenExpired, NotBeforeItsTime,
         DoTerminate, Notify

LEMMA DestructorInv == ASSUME IInv, Destroy PROVE IInv'
  BY DEF IInv, TypeOK, DelayKnown, NotifiedForReason, DueWhenExpired, NotBeforeItsTime,
         Destroy, schedule, waiting

LEMMA WaitInv == ASSUME IInv, Wait PROVE IInv'
<1>1. TypeOK' /\ DelayKnown' /\ NotBeforeItsTime'
  BY DEF IInv, TypeOK, DelayKnown, NotBeforeItsTime, Wait, schedule
<1>2. NotifiedForReason' /\ DueWhenExpired'
  BY DEF IInv, DelayKnown, NotifiedForReason, DueWhenExpired, Wait, schedule
<1> QED BY <1>1, <1>2 DEF IInv

\* What the watcher takes from the queue is due, or the wake-up was spurious.
LEMMA TopIsDue ==
    ASSUME IInv, watcher = "waiting", notified \/ Expired, m_suspend_reason = "ExecuteTask",
           NEW t \in Tops(m_scheduled_actions)
    PROVE  left[t] <= 0
<1>1. timer \in Int /\ timer <= 0
  BY DEF IInv, TypeOK, NotifiedForReason, Expired
<1>2. PICK u \in m_scheduled_actions : left[u] <= timer
  BY DEF IInv, DueWhenExpired, Tops
<1>3. left[t] <= left[u] /\ left[t] \in Int /\ left[u] \in Int
  BY <1>2 DEF Tops, IInv, TypeOK
<1> QED BY <1>1, <1>2, <1>3

LEMMA ExecuteInv ==
    ASSUME IInv, Wake, OnExecuteTask
    PROVE  IInv'
<1>1. /\ watcher' = "between" /\ notified' = FALSE /\ timer' = Infinite /\ age' = 0
      /\ m_suspend_reason' = "ExecuteTask" /\ m_suspend_reason = "ExecuteTask"
      /\ watcher = "waiting" /\ m_delay' \in NextDelay(m_scheduled_actions')
      /\ destructor' = destructor /\ destructor \in {"none", "joining", "done"}
  BY DEF Wake, OnExecuteTask, IInv, TypeOK
<1>2. NotifiedForReason' /\ DueWhenExpired'
  BY <1>1 DEF NotifiedForReason, DueWhenExpired
<1>3. spurious' \in 0..MaxSpurious /\ spurious <= spurious'
      /\ ((notified \/ Expired) \/ spurious' = spurious + 1)
  BY DEF Wake, IInv, TypeOK
<1>4. CASE /\ m_scheduled_actions = {}
           /\ UNCHANGED <<m_scheduled_actions, left, executed, early>>
  <2>1. m_delay' = Infinite
    BY <1>1, <1>4 DEF NextDelay
  <2>2. TypeOK'
    <3>1. m_delay' \in Durations /\ timer' \in Durations /\ age' \in 0..(MaxDelay + 1)
      BY <1>1, <2>1
    <3> QED BY <1>1, <1>3, <1>4, <3>1 DEF IInv, TypeOK
  <2>3. DelayKnown' /\ NotBeforeItsTime'
    BY <1>3, <1>4, <2>1 DEF IInv, TypeOK, DelayKnown, NotBeforeItsTime
  <2> QED BY <1>2, <2>2, <2>3 DEF IInv
<1>5. ASSUME NEW t \in Tops(m_scheduled_actions),
             m_scheduled_actions' = m_scheduled_actions \ {t},
             executed' = executed \cup {t},
             early' = IF left[t] > 0 THEN early + 1 ELSE early,
             left' = [left EXCEPT ![t] = 0]
      PROVE  IInv'
  <2>1. /\ t \in Tasks /\ left \in [Tasks -> Durations \ {Infinite}]
        /\ m_scheduled_actions \subseteq Tasks
        /\ \A u \in m_scheduled_actions' : left'[u] = left[u] /\ left[u] \in Durations \ {Infinite}
    BY <1>5 DEF Tops, IInv, TypeOK
  <2>2. ASSUME m_scheduled_actions' = {} PROVE DelayKnown'
    BY <1>1, <2>2 DEF NextDelay, DelayKnown
  <2>3. ASSUME m_scheduled_actions' # {} PROVE DelayKnown'
    <3>1. PICK u \in m_scheduled_actions' : m_delay' = left[u]
      BY <1>1, <2>3 DEF NextDelay, Tops
    <3>2. m_delay' <= MaxDelay /\ left'[u] <= m_delay'
      BY <2>1, <3>1
    <3> QED BY <2>3, <3>1, <3>2 DEF DelayKnown
  <2>4. DelayKnown' BY <2>2, <2>3
  <2>5. m_delay' \in Durations
    BY <1>1, <2>1 DEF NextDelay, Tops
  <2>6. TypeOK'
    <3>1. timer' \in Durations /\ age' \in 0..(MaxDelay + 1)
      BY <1>1
    <3>2. left' \in [Tasks -> Durations \ {Infinite}]
      BY <1>5, <2>1
    <3>3. early' \in Nat
      BY <1>5 DEF IInv, TypeOK
    <3>4. m_scheduled_actions' \subseteq Tasks /\ executed' \subseteq Tasks
      BY <1>5, <2>1 DEF IInv, TypeOK
    <3> QED BY <1>1, <1>3, <2>5, <3>1, <3>2, <3>3, <3>4 DEF TypeOK
  <2>7. NotBeforeItsTime'
    <3>1. CASE notified \/ Expired
      <4>1. left[t] <= 0 /\ left[t] \in Int
        BY <1>1, <2>1, <3>1, TopIsDue
      <4> QED BY <1>3, <1>5, <4>1 DEF IInv, TypeOK, NotBeforeItsTime
    <3>2. CASE spurious' = spurious + 1
      BY <1>3, <1>5, <3>2 DEF IInv, TypeOK, NotBeforeItsTime
    <3> QED BY <1>3, <3>1, <3>2
  <2> QED BY <1>2, <2>4, <2>6, <2>7 DEF IInv
<1> QED BY <1>4, <1>5 DEF OnExecuteTask

LEMMA WakeInv == ASSUME IInv, Wake PROVE IInv'
<1>1. spurious' \in 0..MaxSpurious /\ spurious <= spurious'
  BY DEF Wake, IInv, TypeOK
<1>2. /\ watcher' # "waiting" /\ notified' = FALSE /\ timer' = Infinite
      /\ age' \in 0..(MaxDelay + 1)
      /\ watcher = "waiting" /\ watcher' \in {"between", "returned"}
      /\ destructor' = destructor
  BY DEF Wake, OnUpdateDelay, OnExecuteTask, OnTerminate, IInv, TypeOK
<1>3. CASE OnUpdateDelay \/ OnTerminate
  <2>1. /\ UNCHANGED <<m_scheduled_actions, left, m_delay, executed, early>>
        /\ m_suspend_reason' \in {"ExecuteTask", "Terminate"}
    BY <1>3 DEF OnUpdateDelay, OnTerminate
  <2>2. TypeOK'
    BY <1>1, <1>2, <2>1 DEF IInv, TypeOK
  <2>3. DelayKnown' /\ NotBeforeItsTime'
    BY <1>1, <2>1 DEF IInv, TypeOK, DelayKnown, NotBeforeItsTime
  <2>4. NotifiedForReason' /\ DueWhenExpired'
    BY <1>2 DEF NotifiedForReason, DueWhenExpired
  <2> QED BY <2>2, <2>3, <2>4 DEF IInv
<1>4. CASE OnExecuteTask
  BY <1>4, ExecuteInv
<1> QED BY <1>3, <1>4 DEF Wake

LEMMA TickInv == ASSUME IInv, Tick PROVE IInv'
<1> USE DEF Tick
<1>1. \A u \in m_scheduled_actions : u \in Tasks /\ left'[u] = Less(left[u])
  BY DEF IInv, TypeOK
<1>2. left \in [Tasks -> Durations \ {Infinite}] /\ timer \in Durations /\ m_delay \in Durations
  BY DEF IInv, TypeOK
<1>3. \A d \in Durations \ {Infinite} : Less(d) \in Durations \ {Infinite} /\ Less(d) <= d
  BY DEF Less
<1>4. \A d \in Durations : Less(d) \in Durations /\ (d <= MaxDelay => Less(d) <= MaxDelay)
  BY DEF Less
<1>5. TypeOK'
  <2>1. left' \in [Tasks -> Durations \ {Infinite}] /\ timer' \in Durations
    BY <1>2, <1>3, <1>4
  <2>2. age' \in 0..(MaxDelay + 1)
    BY DEF IInv, TypeOK
  <2> QED BY <2>1, <2>2 DEF IInv, TypeOK
<1>6. DelayKnown'
  <2>1. CASE m_scheduled_actions # {}
    <3>1. PICK u \in m_scheduled_actions : left[u] <= m_delay
      BY <2>1 DEF IInv, DelayKnown
    <3>2. left'[u] <= m_delay
      BY <1>1, <1>2, <1>3, <3>1
    <3> QED BY <2>1, <3>1, <3>2 DEF IInv, DelayKnown
  <2> QED BY <2>1 DEF IInv, DelayKnown
<1>7. NotifiedForReason' /\ NotBeforeItsTime'
  BY <1>2, <1>4 DEF IInv, NotifiedForReason, NotBeforeItsTime
<1>8. DueWhenExpired'
  <2>1. CASE watcher = "waiting" /\ m_suspend_reason = "ExecuteTask" /\ m_scheduled_actions # {}
    <3>1. PICK u \in m_scheduled_actions : left[u] <= timer
      BY <2>1 DEF IInv, DueWhenExpired
    <3>2. left'[u] <= timer'
      BY <1>1, <1>2, <2>1, <3>1, LessMonotone
    <3> QED BY <3>1, <3>2 DEF DueWhenExpired
  <2> QED BY <2>1 DEF DueWhenExpired
<1> QED BY <1>5, <1>6, <1>7, <1>8 DEF IInv

LEMMA NextInv == ASSUME IInv, [Next]_vars PROVE IInv'
<1>1. CASE UNCHANGED vars
  BY <1>1 DEF vars, schedule, waiting, IInv, TypeOK, DelayKnown, NotifiedForReason,
              DueWhenExpired, NotBeforeItsTime
<1> QED
  BY <1>1, ScheduleInv, TerminateInv, DestructorInv, WaitInv, WakeInv, TickInv
  DEF Next, Terminate, Joined

\* IInv is an invariant.
THEOREM SchedulerInvariant == Spec => []IInv
  BY InitInv, NextInv, PTL DEF Spec

\* The variables of the scheduler keep their types, for every set of tasks and of
\* delays.
THEOREM SchedulerTypeOK == Spec => []TypeOK
  BY SchedulerInvariant, PTL DEF IInv

\* watcherFn never waits for ever, nor is about to, over a queued action.
THEOREM WatcherWaitFinite == Spec => []WaitFinite
<1>1. ASSUME IInv PROVE WaitFinite
  BY <1>1 DEF IInv, DelayKnown, NotifiedForReason, WaitFinite
<1> QED BY <1>1, SchedulerInvariant, PTL

\* doExecute receives no more actions before their time than wait_for has spurious
\* wake-ups: timers and notifications make none early.
THEOREM EarlyOnlySpurious == Spec => []NotBeforeItsTime
  BY SchedulerInvariant, PTL DEF IInv

\* If wait_for never wakes for no reason, doExecute receives no action early.
THEOREM NoneEarly == ASSUME MaxSpurious = 0 PROVE Spec => [](early = 0)
<1>1. IInv => early = 0
  BY DEF IInv, TypeOK, NotBeforeItsTime
<1> QED
  BY <1>1, SchedulerInvariant, PTL
=============================================================================
