------------------------- MODULE ThreadPool_proofs -------------------------
(***************************************************************************)
(* Theorems about the tasks of a ThreadPool, for any number of workers,    *)
(* runners and tasks, in builds with and without assertions.               *)
(***************************************************************************)
EXTENDS ThreadPool, TLAPS

USE DEF IsCancelled, IsCompleted, GetResultWaits

(***************************************************************************)
(* The thread that moved a task to InProgress is the only one to touch its *)
(* promise until it leaves.                                                *)
(***************************************************************************)
Busy(p) == phase[p] \in {"running", "finish"}

OneRunner ==
    \A p, q \in Performers : Busy(p) /\ Busy(q) /\ act[p] = act[q] => p = q

RunnerState ==
    \A p \in Performers :
        /\ Busy(p) => m_status[act[p]] = "InProgress"
        /\ phase[p] = "running" => m_promise[act[p]] = "unset"
        /\ phase[p] = "finish" => m_promise[act[p]] = "result"

FutureState ==
    \A t \in Tasks :
        /\ m_status[t] = "Created" => m_promise[t] = "unset"
        /\ m_status[t] = "Completed" => m_promise[t] # "unset"

TaskInv == TaskTypeOK /\ FunctionRunsOnce /\ OneRunner /\ RunnerState /\ FutureState

LEMMA TaskInvInit == TaskInit => TaskInv
<1> SUFFICES ASSUME TaskInit PROVE TaskInv
  OBVIOUS
<1>1. TaskTypeOK
  BY DEF TaskInit, TaskTypeOK, Statuses, Phases
<1>2. FunctionRunsOnce
  BY DEF TaskInit, FunctionRunsOnce
<1>3. OneRunner /\ RunnerState /\ FutureState
  BY DEF TaskInit, OneRunner, RunnerState, FutureState, Busy
<1> QED
  BY <1>1, <1>2, <1>3 DEF TaskInv

\* The steps of Next, as far as they concern the tasks.
LEMMA TaskSteps ==
    ASSUME [Next]_vars, m_actions \in Seq(Tasks)
    PROVE  /\ \/ \E t \in Tasks : TryCancel(t)
              \/ \E p \in Performers, t \in Tasks : Enter(p, t)
              \/ \E p \in Performers : Perform(p)
              \/ UNCHANGED taskVars
           /\ m_actions' \in Seq(Tasks)
<1> USE DEF poolVars
<1>1. ASSUME NEW t \in Tasks, Submit(t)
      PROVE  UNCHANGED taskVars /\ m_actions' \in Seq(Tasks)
  BY <1>1 DEF Submit
<1>2. ASSUME NEW w \in Workers, Take(w)
      PROVE  /\ \E p \in Performers, t \in Tasks : Enter(p, t)
             /\ m_actions' \in Seq(Tasks)
  BY <1>2, PoolAssumption DEF Take
<1>3. ASSUME NEW w \in Workers,
             Loop(w) \/ Wait(w) \/ CheckDone(w) \/ Drained(w) \/ SpuriousWakeup(w)
      PROVE  UNCHANGED <<taskVars, m_actions>>
  BY <1>3 DEF Loop, Wait, CheckDone, Drained, SpuriousWakeup, Move
<1>4. ASSUME NEW p \in Runners, NEW t \in Tasks, Run(p, t)
      PROVE  Enter(p, t) /\ p \in Performers /\ UNCHANGED m_actions
  BY <1>4, PoolAssumption DEF Run
<1>5. ASSUME Terminate \/ Destroy PROVE UNCHANGED <<taskVars, m_actions>>
  BY <1>5 DEF Terminate, Destroy
<1>6. ASSUME UNCHANGED vars PROVE UNCHANGED <<taskVars, m_actions>>
  BY <1>6 DEF vars
<1>7. ASSUME NEW t \in Tasks, Cancel(t) PROVE TryCancel(t) /\ UNCHANGED m_actions
  BY <1>7 DEF Cancel
<1>8. ASSUME NEW p \in Performers, PerformStep(p) PROVE Perform(p) /\ UNCHANGED m_actions
  BY <1>8 DEF PerformStep
<1> QED
  BY <1>1, <1>2, <1>3, <1>4, <1>5, <1>6, <1>7, <1>8 DEF Next, WorkerStep

LEMMA TaskInvStep ==
    ASSUME TaskInv,
           \/ \E t \in Tasks : TryCancel(t)
           \/ \E p \in Performers, t \in Tasks : Enter(p, t)
           \/ \E p \in Performers : Perform(p)
           \/ UNCHANGED taskVars
    PROVE  TaskInv'
<1> USE TaskAssumption
    DEF TaskInv, TaskTypeOK, FunctionRunsOnce, OneRunner, RunnerState, FutureState, Busy,
        Statuses, Answers, Phases
<1>1. ASSUME NEW t \in Tasks, TryCancel(t) PROVE TaskInv'
  <2>1. TaskTypeOK'
    <3>1. m_status' \in [Tasks -> Statuses] /\ answer' \in [Tasks -> Answers \cup {None}]
      BY <1>1 DEF TryCancel, Refusal
    <3> QED
      BY <1>1, <3>1 DEF TryCancel
  <2>2. \/ UNCHANGED m_status
        \/ m_status[t] = "Created" /\ m_status' = [m_status EXCEPT ![t] = "Cancelled"]
    BY <1>1 DEF TryCancel, Cas
  <2>3. UNCHANGED <<m_promise, runs, phase, act>>
    BY <1>1 DEF TryCancel
  <2> QED
    BY <2>1, <2>2, <2>3
<1>2. ASSUME NEW p \in Performers, NEW t \in Tasks, Enter(p, t) PROVE TaskInv'
  BY <1>2 DEF Enter
<1>3. ASSUME NEW p \in Performers, CheckCancelled(p) PROVE TaskInv'
  <2>1. CASE m_status[act[p]] = "Cancelled" /\ m_promise[act[p]] = "unset"
    BY <1>3, <2>1 DEF CheckCancelled, Leave
  <2>2. CASE m_status[act[p]] = "Cancelled" /\ m_promise[act[p]] # "unset"
    <3>1. terminated' = TRUE /\ UNCHANGED <<m_promise, phase, act, performed>>
      BY <1>3, <2>2 DEF CheckCancelled
    <3>2. UNCHANGED <<m_status, runs, answer>>
      BY <1>3 DEF CheckCancelled
    <3> QED
      BY <3>1, <3>2
  <2>3. CASE m_status[act[p]] # "Cancelled"
    BY <1>3, <2>3 DEF CheckCancelled, Goto
  <2> QED
    BY <2>1, <2>2, <2>3
<1>4. ASSUME NEW p \in Performers, SetInProgress(p) PROVE TaskInv'
  <2> DEFINE t == act[p]
  <2>1. t \in Tasks /\ UNCHANGED <<m_promise, answer, terminated>>
    BY <1>4 DEF SetInProgress
  <2>2. CASE /\ m_status[t] = "Created"
             /\ m_status' = [m_status EXCEPT ![t] = "InProgress"]
             /\ runs' = [runs EXCEPT ![t] = runs[t] + 1]
             /\ phase' = [phase EXCEPT ![p] = "running"]
             /\ UNCHANGED <<act, performed>>
    <3>1. TaskTypeOK' /\ FunctionRunsOnce'
      BY <2>1, <2>2
    <3>2. \A q \in Performers : Busy(q) => act[q] # t
      BY <2>2
    <3>3. OneRunner'
      BY <2>1, <2>2, <3>2
    <3>4. RunnerState' /\ FutureState'
      BY <2>1, <2>2, <3>2
    <3> QED
      BY <3>1, <3>3, <3>4
  <2>3. CASE UNCHANGED <<m_status, runs>> /\ Leave(p)
    BY <2>1, <2>3 DEF Leave
  <2> QED
    BY <1>4, <2>2, <2>3 DEF SetInProgress, Cas, Goto
<1>5. ASSUME NEW p \in Performers, Finish(p) PROVE TaskInv'
  BY <1>5 DEF Finish, Delivery, Goto
<1>6. ASSUME NEW p \in Performers, SetCompleted(p) PROVE TaskInv'
  <2> DEFINE t == act[p]
  <2>1. /\ t \in Tasks /\ phase[p] = "finish"
        /\ m_status[t] = "InProgress" /\ m_promise[t] = "result"
    BY <1>6 DEF SetCompleted
  <2>2. /\ \/ m_status' = m_status
           \/ m_status' = [m_status EXCEPT ![t] = "Completed"]
        /\ terminated' \in BOOLEAN
    BY <1>6 DEF SetCompleted, Cas
  <2>3. /\ phase' = [phase EXCEPT ![p] = "idle"]
        /\ act' = [act EXCEPT ![p] = None]
        /\ performed' = performed \cup {t}
        /\ UNCHANGED <<m_promise, runs, answer>>
    BY <1>6 DEF SetCompleted, Leave
  <2> HIDE DEF t
  <2>4. TaskTypeOK' /\ FunctionRunsOnce'
    BY <2>1, <2>2, <2>3
  <2>5. \A q \in Performers : Busy(q)' => q # p /\ Busy(q) /\ act'[q] = act[q] /\ act[q] # t
    BY <2>1, <2>3 DEF t
  <2>6. OneRunner' /\ RunnerState' /\ FutureState'
    BY <2>1, <2>2, <2>3, <2>5
  <2> QED
    BY <2>4, <2>6
<1>7. CASE UNCHANGED taskVars
  BY <1>7 DEF taskVars
<1> QED
  BY <1>1, <1>2, <1>3, <1>4, <1>5, <1>6, <1>7 DEF Perform

PoolInv == TaskInv /\ m_actions \in Seq(Tasks)

LEMMA PoolInvInit == Init => PoolInv
  BY TaskInvInit DEF Init, PoolInv

LEMMA PoolInvStep == PoolInv /\ [Next]_vars => PoolInv'
  BY TaskSteps, TaskInvStep DEF PoolInv

\* Whoever performs a task and whoever cancels it, in whatever order and however
\* often, its function is called at most once, and never after a cancellation.
THEOREM RunsOnceCorrect == Spec => []FunctionRunsOnce
<1>1. PoolInv => FunctionRunsOnce
  BY DEF PoolInv, TaskInv
<1> QED
  BY <1>1, PoolInvInit, PoolInvStep, PTL DEF Spec

-----------------------------------------------------------------------------
(***************************************************************************)
(* The pool itself.                                                        *)
(***************************************************************************)
WorkerTypes == worker \in [Workers -> {"loop", "lock", "wait", "check", "drain", "exited"}]

PoolTypes ==
    /\ m_done \in BOOLEAN
    /\ WorkerTypes
    /\ submitted \subseteq Tasks
    /\ run \subseteq Tasks
    /\ destroying \in BOOLEAN

\* Whoever is woken goes on to take the lock.
LEMMA NotifyTypes == WorkerTypes /\ (NotifyOne \/ NotifyAll) => WorkerTypes'
  BY DEF WorkerTypes, NotifyOne, NotifyAll, Waiting

LEMMA PoolTypesStep == PoolTypes /\ [Next]_vars => PoolTypes'
<1> SUFFICES ASSUME PoolTypes, [Next]_vars PROVE PoolTypes'
  OBVIOUS
<1>1. ASSUME NEW t \in Tasks, Submit(t) PROVE PoolTypes'
  BY <1>1, NotifyTypes DEF Submit, PoolTypes
<1>2. CASE Destroy
  BY <1>2, NotifyTypes DEF Destroy, PoolTypes
<1>3. CASE Terminate
  BY <1>3 DEF Terminate, PoolTypes, WorkerTypes
<1>4. ASSUME NEW p \in Runners, NEW t \in Tasks, Run(p, t) PROVE PoolTypes'
  BY <1>4 DEF Run, PoolTypes, WorkerTypes
<1>5. ASSUME NEW w \in Workers, WorkerStep(w) \/ SpuriousWakeup(w) PROVE PoolTypes'
  BY <1>5 DEF WorkerStep, Loop, Wait, CheckDone, Drained, Take, SpuriousWakeup, Move, PoolTypes,
              WorkerTypes
<1>6. CASE UNCHANGED poolVars
  BY <1>6 DEF poolVars, PoolTypes, WorkerTypes
<1> QED
  BY <1>1, <1>2, <1>3, <1>4, <1>5, <1>6 DEF Next, vars, Cancel, PerformStep

\* The pool and its tasks keep their types.
THEOREM TypeCorrect == Spec => []TypeOK
<1>1. Init => PoolTypes
  BY DEF Init, PoolTypes, WorkerTypes
<1>2. PoolInv /\ PoolTypes => TypeOK
  BY DEF PoolInv, TaskInv, PoolTypes, WorkerTypes, TypeOK
<1> QED
  BY <1>1, <1>2, PoolInvInit, PoolInvStep, PoolTypesStep, PTL DEF Spec

-----------------------------------------------------------------------------
(***************************************************************************)
(* What follows needs an exchange that fails only if the value differs.    *)
(***************************************************************************)
LEMMA CancelStep ==
    ASSUME Spurious = FALSE, PoolInv, CancelTruthful, [Next]_vars
    PROVE  CancelTruthful'
<1> USE DEF PoolInv, TaskInv, TaskTypeOK, CancelTruthful, RunnerState, Busy
<1>1. ASSUME NEW t \in Tasks, TryCancel(t) PROVE CancelTruthful'
  <2>1. CASE m_status[t] = "Created"
    BY <1>1, <2>1 DEF TryCancel, Cas
  <2>2. CASE m_status[t] # "Created"
    <3>1. UNCHANGED m_status /\ answer' = [answer EXCEPT ![t] = Refusal(m_status[t])]
      BY <1>1, <2>2 DEF TryCancel, Cas
    <3> QED
      BY <2>2, <3>1 DEF Refusal, Statuses
  <2> QED
    BY <2>1, <2>2
<1>2. ASSUME NEW p \in Performers, NEW t \in Tasks, Enter(p, t) PROVE CancelTruthful'
  BY <1>2 DEF Enter
<1>3. ASSUME NEW p \in Performers, CheckCancelled(p) \/ Finish(p) PROVE CancelTruthful'
  BY <1>3 DEF CheckCancelled, Finish
<1>4. ASSUME NEW p \in Performers, SetInProgress(p) PROVE CancelTruthful'
  BY <1>4 DEF SetInProgress, Cas
<1>5. ASSUME NEW p \in Performers, SetCompleted(p) PROVE CancelTruthful'
  BY <1>5 DEF SetCompleted, Cas
<1>6. CASE UNCHANGED taskVars
  BY <1>6 DEF taskVars
<1> QED
  BY <1>1, <1>2, <1>3, <1>4, <1>5, <1>6, TaskSteps DEF Perform

\* What tryCancel answers is true and stays true.
THEOREM CancelCorrect ==
    ASSUME Spurious = FALSE
    PROVE  Spec => []CancelTruthful
<1>1. Init => CancelTruthful
  BY TaskAssumption DEF Init, TaskInit, CancelTruthful, Answers
<1>2. PoolInv /\ CancelTruthful /\ [Next]_vars => CancelTruthful'
  BY CancelStep
<1> QED
  BY <1>1, <1>2, PoolInvInit, PoolInvStep, PTL DEF Spec

Pending ==
    \A t \in Tasks :
        /\ t \in performed => m_status[t] # "Created"
        /\ m_status[t] = "InProgress" /\ m_promise[t] = "unset"
              => \E p \in Performers : act[p] = t /\ phase[p] = "running"

LEMMA PendingStep ==
    ASSUME Spurious = FALSE, PoolInv, Pending, [Next]_vars
    PROVE  Pending'
<1> USE DEF PoolInv, TaskInv, TaskTypeOK, Pending, RunnerState, Busy
<1>1. ASSUME NEW t \in Tasks, TryCancel(t) PROVE Pending'
  BY <1>1 DEF TryCancel, Cas
<1>2. ASSUME NEW p \in Performers, NEW t \in Tasks, Enter(p, t) PROVE Pending'
  BY <1>2 DEF Enter
<1>3. ASSUME NEW p \in Performers, CheckCancelled(p) PROVE Pending'
  <2>1. CASE UNCHANGED <<phase, act, performed, m_promise>>
    BY <1>3, <2>1 DEF CheckCancelled
  <2>2. CASE /\ m_status[act[p]] = "Cancelled"
             /\ m_promise' = [m_promise EXCEPT ![act[p]] = "refusal"] /\ Leave(p)
    BY <1>3, <2>2 DEF CheckCancelled, Leave
  <2>3. CASE Goto(p, "begin") /\ UNCHANGED m_promise
    BY <1>3, <2>3 DEF CheckCancelled, Goto
  <2> QED
    BY <1>3, <2>1, <2>2, <2>3 DEF CheckCancelled
<1>4. ASSUME NEW p \in Performers, SetInProgress(p) PROVE Pending'
  <2>1. CASE m_status[act[p]] = "Created"
    <3>1. /\ m_status' = [m_status EXCEPT ![act[p]] = "InProgress"]
          /\ phase' = [phase EXCEPT ![p] = "running"]
          /\ UNCHANGED <<act, performed, m_promise>>
      BY <1>4, <2>1 DEF SetInProgress, Cas, Goto
    <3> QED
      BY <1>4, <3>1 DEF SetInProgress
  <2>2. CASE m_status[act[p]] # "Created"
    <3>1. Leave(p) /\ UNCHANGED <<m_status, m_promise>>
      BY <1>4, <2>2 DEF SetInProgress, Cas
    <3> QED
      BY <1>4, <2>2, <3>1 DEF SetInProgress, Leave
  <2> QED
    BY <2>1, <2>2
<1>5. ASSUME NEW p \in Performers, Finish(p) PROVE Pending'
  BY <1>5 DEF Finish, Delivery, Goto
<1>6. ASSUME NEW p \in Performers, SetCompleted(p) PROVE Pending'
  <2> DEFINE t == act[p]
  <2>1. /\ t \in Tasks /\ m_status[t] = "InProgress" /\ m_promise[t] = "result"
        /\ phase[p] = "finish"
    BY <1>6 DEF SetCompleted
  <2>2. /\ m_status' = m_status \/ m_status' = [m_status EXCEPT ![t] = "Completed"]
        /\ UNCHANGED m_promise
    BY <1>6 DEF SetCompleted, Cas
  <2>3. /\ phase' = [phase EXCEPT ![p] = "idle"]
        /\ act' = [act EXCEPT ![p] = None]
        /\ performed' = performed \cup {t}
    BY <1>6 DEF SetCompleted, Leave
  <2> QED
    BY <2>1, <2>2, <2>3
<1>7. CASE UNCHANGED taskVars
  BY <1>7 DEF taskVars
<1> QED
  BY <1>1, <1>2, <1>3, <1>4, <1>5, <1>6, <1>7, TaskSteps DEF Perform

\* Only a cancelled task can leave perform() with its future unset.
THEOREM ResultCorrect ==
    ASSUME Spurious = FALSE
    PROVE  Spec => []ResultDelivered
<1>1. Init => Pending
  BY DEF Init, TaskInit, Pending
<1>2. PoolInv /\ Pending /\ [Next]_vars => Pending'
  BY PendingStep
<1>3. PoolInv /\ Pending => ResultDelivered
  BY DEF PoolInv, TaskInv, TaskTypeOK, Statuses, FutureState, Pending, ResultDelivered
<1> QED
  BY <1>1, <1>2, <1>3, PoolInvInit, PoolInvStep, PTL DEF Spec
=============================================================================
