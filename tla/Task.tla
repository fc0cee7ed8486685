-------------------------------- MODULE Task --------------------------------
(***************************************************************************)
(* Task<T> and its Action: the status word that tryCancel and perform      *)
(* compete for, and the promise that getResult waits on.  A thread that    *)
(* performs an action goes through the steps of Action::perform; any       *)
(* holder of the task may call tryCancel between two of them.              *)
(***************************************************************************)
EXTENDS Integers

CONSTANTS
    Tasks,
    Performers,   \* the threads that may call perform()
    Spurious,     \* compare_exchange_weak may fail though the value matches
    NDebug,       \* the build defines NDEBUG: assert evaluates nothing
    None

Statuses == {"Created", "InProgress", "Completed", "Cancelled"}
Answers == {"Success", "TaskAlreadyInProgress", "TaskAlreadyCompleted"}

ASSUME TaskAssumption ==
    Spurious \in BOOLEAN /\ NDebug \in BOOLEAN /\ None \notin Tasks \cup Answers

VARIABLES
    m_status,
    m_promise,     \* "unset", the "result" of the function (a value or what it
                   \* threw), or the "refusal" of a cancelled task
    runs,          \* how often the function of the task was called
    answer,        \* what the last tryCancel of the task returned
    performed,     \* the tasks perform() has returned for
    phase, act,    \* of each performer: its step inside perform(), its action
    terminated     \* std::terminate or a failed assertion ended the process

taskVars == <<m_status, m_promise, runs, answer, performed, phase, act, terminated>>

Phases == {"idle", "perform", "begin", "running", "finish"}

TaskTypeOK ==
    /\ m_status \in [Tasks -> Statuses]
    /\ m_promise \in [Tasks -> {"unset", "result", "refusal"}]
    /\ runs \in [Tasks -> Nat]
    /\ answer \in [Tasks -> Answers \cup {None}]
    /\ performed \subseteq Tasks
    /\ phase \in [Performers -> Phases]
    /\ act \in [Performers -> Tasks \cup {None}]
    /\ \A p \in Performers : phase[p] # "idle" => act[p] \in Tasks
    /\ terminated \in BOOLEAN

TaskInit ==
    /\ m_status = [t \in Tasks |-> "Created"]
    /\ m_promise = [t \in Tasks |-> "unset"]
    /\ runs = [t \in Tasks |-> 0]
    /\ answer = [t \in Tasks |-> None]
    /\ performed = {}
    /\ phase = [p \in Performers |-> "idle"]
    /\ act = [p \in Performers |-> None]
    /\ terminated = FALSE

-----------------------------------------------------------------------------
(* The owner of a task.                                                    *)

IsCancelled(t) == m_status[t] = "Cancelled"
IsCompleted(t) == m_status[t] = "Completed"
GetResultWaits(t) == m_promise[t] = "unset"

\* What compare_exchange_weak(from, ...) may return for the status of t.
Cas_plain_store(t, from) == {TRUE}
Cas(t, from) ==
    IF m_status[t] = from THEN IF Spurious THEN {TRUE, FALSE} ELSE {TRUE} ELSE {FALSE}

\* The answer of a tryCancel whose exchange failed, finding that status.
Refusal_no_progress(status) ==
    IF status = "Completed" THEN "TaskAlreadyCompleted" ELSE "Success"
Refusal(status) ==
    CASE status = "InProgress" -> "TaskAlreadyInProgress"
      [] status = "Completed" -> "TaskAlreadyCompleted"
      [] OTHER -> "Success"

TryCancel(t) ==
    /\ \E ok \in Cas(t, "Created") :
          IF ok
          THEN /\ m_status' = [m_status EXCEPT ![t] = "Cancelled"]
               /\ answer' = [answer EXCEPT ![t] = "Success"]
          ELSE /\ answer' = [answer EXCEPT ![t] = Refusal(m_status[t])]
               /\ UNCHANGED m_status
    /\ UNCHANGED <<m_promise, runs, performed, phase, act, terminated>>

-----------------------------------------------------------------------------
(* Action::perform, on thread p.                                           *)

Enter(p, t) ==
    /\ phase[p] = "idle"
    /\ phase' = [phase EXCEPT ![p] = "perform"]
    /\ act' = [act EXCEPT ![p] = t]
    /\ UNCHANGED <<m_status, m_promise, runs, answer, performed, terminated>>

Goto(p, next) ==
    /\ phase' = [phase EXCEPT ![p] = next]
    /\ UNCHANGED <<act, performed>>

Leave_stays(p) ==
    /\ UNCHANGED phase
    /\ act' = [act EXCEPT ![p] = None]
    /\ performed' = performed \cup {act[p]}
Leave(p) ==
    /\ phase' = [phase EXCEPT ![p] = "idle"]
    /\ act' = [act EXCEPT ![p] = None]
    /\ performed' = performed \cup {act[p]}

\* A cancelled task gets its exception; a second one is thrown out of the
\* handler, and perform is noexcept.
CheckCancelled(p) ==
    /\ phase[p] = "perform"
    /\ \/ /\ IsCancelled(act[p])
          /\ m_promise[act[p]] = "unset"
          /\ m_promise' = [m_promise EXCEPT ![act[p]] = "refusal"]
          /\ Leave(p)
          /\ UNCHANGED terminated
       \/ /\ IsCancelled(act[p])
          /\ m_promise[act[p]] # "unset"
          /\ terminated' = TRUE
          /\ UNCHANGED <<m_promise, phase, act, performed>>
       \/ /\ ~IsCancelled(act[p])
          /\ Goto(p, "begin")
          /\ UNCHANGED <<m_promise, terminated>>
    /\ UNCHANGED <<m_status, runs, answer>>

\* trySetInProgress.  If it fails perform returns and sets nothing.
SetInProgress(p) ==
    /\ phase[p] = "begin"
    /\ \E ok \in Cas(act[p], "Created") :
          IF ok
          THEN /\ m_status' = [m_status EXCEPT ![act[p]] = "InProgress"]
               /\ runs' = [runs EXCEPT ![act[p]] = runs[act[p]] + 1]
               /\ Goto(p, "running")
          ELSE Leave(p) /\ UNCHANGED <<m_status, runs>>
    /\ UNCHANGED <<m_promise, answer, terminated>>

\* The function returns or throws: set_value or set_exception.
Delivery_swallows_exception == {"result", "unset"}
Delivery == {"result"}

Finish(p) ==
    /\ phase[p] = "running"
    /\ \E delivered \in Delivery : m_promise' = [m_promise EXCEPT ![act[p]] = delivered]
    /\ Goto(p, "finish")
    /\ UNCHANGED <<m_status, runs, answer, terminated>>

\* assert(trySetCompleted()): the call itself is inside the assertion.
SetCompleted(p) ==
    /\ phase[p] = "finish"
    /\ IF NDebug
       THEN UNCHANGED <<m_status, terminated>>
       ELSE \E ok \in Cas(act[p], "InProgress") :
               /\ m_status' = IF ok THEN [m_status EXCEPT ![act[p]] = "Completed"] ELSE m_status
               /\ terminated' = ~ok
    /\ Leave(p)
    /\ UNCHANGED <<m_promise, runs, answer>>

Perform(p) == CheckCancelled(p) \/ SetInProgress(p) \/ Finish(p) \/ SetCompleted(p)

-----------------------------------------------------------------------------
(* Properties.                                                             *)

\* The function of a task is called once if the task left Created for
\* InProgress and never if it was cancelled, however many threads perform it
\* while others cancel it (trySetInProgress against tryCancel).
FunctionRunsOnce ==
    \A t \in Tasks :
        runs[t] = IF m_status[t] \in {"Created", "Cancelled"} THEN 0 ELSE 1

\* tryCancel tells the truth, and what it said stays true: Success means the
\* task will not run, the other answers that it did.
CancelTruthful ==
    \A t \in Tasks :
        /\ answer[t] = "Success" => IsCancelled(t)
        /\ answer[t] = "TaskAlreadyInProgress" => m_status[t] \in {"InProgress", "Completed"}
        /\ answer[t] = "TaskAlreadyCompleted" => IsCompleted(t)

\* Once perform() has returned for a task that no thread is still performing, a
\* future that is unset belongs to a cancelled task: a task that ran has
\* delivered its result or its exception.  isCompleted() means it has one, too.
ResultDelivered ==
    \A t \in Tasks :
        /\ IsCompleted(t) => ~GetResultWaits(t)
        /\ t \in performed /\ GetResultWaits(t)
              => \/ IsCancelled(t)
                 \/ \E p \in Performers : act[p] = t /\ phase[p] = "running"

\* Action::perform reports to the holder of a cancelled task that its result
\* cannot be accessed: getResult throws, it does not wait for ever.
CancelledTaskReports ==
    \A t \in Tasks :
        t \in performed /\ IsCancelled(t) => m_promise[t] = "refusal"
=============================================================================
