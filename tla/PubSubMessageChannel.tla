------------------------ MODULE PubSubMessageChannel ------------------------
(***************************************************************************)
(* A PubSubMessageChannel whose subscribers are the sessions of a          *)
(* SessionManager: the application subscribes each session when it is      *)
(* opened and unsubscribes it when it was terminated, in the callbacks of  *)
(* the manager and so under its lock, while other threads publish.         *)
(***************************************************************************)
EXTENDS SessionManager, Sequences

CONSTANTS Msgs

VARIABLES
    m_subscribers,
    m_subscribers_guard,
    publishing,     \* of each thread: the message it publishes, or None
    todo,           \* the subscribers its loop has not come to
    broken_ids,     \* broken_subscriber_ids
    outbox,         \* what was sent to each session, in order
    owed,           \* subscriptions of a session without their onUnsubscribed yet
    published       \* the messages whose publishing has begun

channelVars == <<m_subscribers, m_subscribers_guard, publishing, todo, broken_ids, outbox,
                 owed, published>>
vars == <<managerVars, channelVars>>

TypeOK ==
    /\ ManagerTypeOK
    /\ m_subscribers \subseteq Sessions
    /\ m_subscribers_guard \in Threads \cup {None}
    /\ publishing \in [Threads -> Msgs \cup {None}]
    /\ todo \in [Threads -> SUBSET Sessions]
    /\ broken_ids \in [Threads -> SUBSET Sessions]
    /\ outbox \in [Sessions -> Seq(Msgs)]
    /\ owed \in [Sessions -> Nat]
    /\ published \subseteq Msgs

Init ==
    /\ ManagerInit
    /\ m_subscribers = {}
    /\ m_subscribers_guard = None
    /\ publishing = [t \in Threads |-> None]
    /\ todo = [t \in Threads |-> {}] /\ broken_ids = [t \in Threads |-> {}]
    /\ outbox = [s \in Sessions |-> <<>>]
    /\ owed = [s \in Sessions |-> 0]
    /\ published = {}

Idle(t) == managing[t] = "idle" /\ publishing[t] = None

\* std::lock_guard lock { m_subscribers_guard }
ChannelFree_unlocked == TRUE
ChannelFree == m_subscribers_guard = None

\* internal_subscribe and internal_unsubscribe, each under the lock.
Subscribe(s) ==
    /\ ChannelFree
    /\ m_subscribers' = m_subscribers \cup {s}
    /\ owed' = [owed EXCEPT ![s] = IF s \in m_subscribers THEN owed[s] ELSE owed[s] + 1]
    /\ UNCHANGED <<m_subscribers_guard, publishing, todo, broken_ids, outbox, published>>

\* helper_unsubscribe of the ids in S: onUnsubscribed is called for those found.
\* It is the stub of the constructor here and ignores what it is given.
HelperUnsubscribe_unchecked(S) ==
    /\ m_subscribers' = m_subscribers \ S
    /\ owed' = [s \in Sessions |-> IF s \in S THEN owed[s] - 1 ELSE owed[s]]
HelperUnsubscribe(S) ==
    /\ m_subscribers' = m_subscribers \ S
    /\ owed' = [s \in Sessions |-> IF s \in S \cap m_subscribers THEN owed[s] - 1 ELSE owed[s]]

Unsubscribe(s) ==
    /\ ChannelFree
    /\ HelperUnsubscribe({s})
    /\ UNCHANGED <<m_subscribers_guard, publishing, todo, broken_ids, outbox, published>>

-----------------------------------------------------------------------------
(* The callbacks of the application.                                       *)

OnSessionOpened(t) == Opened(t) /\ Subscribe(victim[t])
OnSessionTerminated(t) == Terminated(t) /\ Unsubscribe(victim[t])

\* A subscriber may leave on its own.
LeaveChannel(t, s) ==
    /\ Idle(t) /\ s \in m_subscribers
    /\ Unsubscribe(s)
    /\ UNCHANGED managerVars

-----------------------------------------------------------------------------
(* internal_send and publishWithProducer.                                  *)

\* Bound: a message is published once.
Publish(t, m) ==
    /\ Idle(t) /\ ChannelFree
    /\ m \notin published
    /\ published' = published \cup {m}
    /\ m_subscribers_guard' = t
    /\ publishing' = [publishing EXCEPT ![t] = m]
    /\ todo' = [todo EXCEPT ![t] = m_subscribers]
    /\ broken_ids' = [broken_ids EXCEPT ![t] = {}]
    /\ UNCHANGED <<managerVars, m_subscribers, outbox, owed>>

Visit(t, s) ==
    /\ publishing[t] # None /\ s \in todo[t]
    /\ todo' = [todo EXCEPT ![t] = todo[t] \ {s}]
    /\ UNCHANGED <<managerVars, m_subscribers, m_subscribers_guard, publishing, owed, published>>

Deliver(t, s) ==
    /\ Visit(t, s)
    /\ Active(s)
    /\ outbox' = [outbox EXCEPT ![s] = Append(outbox[s], publishing[t])]
    /\ UNCHANGED broken_ids

\* The subscriber is inactive, or its producer throws.
Broken_only_inactive(S, s) == IF Active(s) THEN S ELSE S \cup {s}
Broken(S, s) == S \cup {s}

Fail(t, s) ==
    /\ Visit(t, s)
    /\ broken_ids' = [broken_ids EXCEPT ![t] = Broken(broken_ids[t], s)]
    /\ UNCHANGED outbox

\* The broken subscribers leave and the call returns.
Unlocked_forgotten == m_subscribers_guard
Unlocked == None

Sweep(t) ==
    /\ publishing[t] # None /\ todo[t] = {}
    /\ HelperUnsubscribe(broken_ids[t])
    /\ m_subscribers_guard' = Unlocked
    /\ publishing' = [publishing EXCEPT ![t] = None]
    /\ UNCHANGED <<managerVars, todo, broken_ids, outbox, published>>

-----------------------------------------------------------------------------
Call(t) ==
    /\ publishing[t] = None /\ UNCHANGED channelVars
    /\ \/ \E s \in Sessions : CreateSession(t, s) \/ Terminate(t, s)
       \/ TerminateAll(t) \/ ForEach(t) \/ FindSessionByProperty(t)

ThreadStep(t) ==
    \/ ManagerStep(t) /\ UNCHANGED channelVars
    \/ OnSessionOpened(t) \/ OnSessionTerminated(t)
    \/ \E s \in Sessions : Deliver(t, s) \/ Fail(t, s)
    \/ Sweep(t)

Next ==
    /\ ~crashed
    /\ \/ \E t \in Threads :
             \/ Call(t) \/ ThreadStep(t)
             \/ \E s \in Sessions : LeaveChannel(t, s)
             \/ \E m \in Msgs : Publish(t, m)
       \/ \E s \in Sessions : Disconnect(s) /\ UNCHANGED channelVars

Spec == Init /\ [][Next]_vars

(* A thread goes on inside a call.                                          *)
Fairness == \A t \in Threads : WF_vars(~crashed /\ ThreadStep(t))

FairSpec == Spec /\ Fairness

-----------------------------------------------------------------------------
(* Properties.                                                             *)

\* A session that has left the manager is no subscriber: the callbacks run under
\* the lock of the manager, so a session is not terminated between createSession
\* and the subscription of its onSessionOpened.
SubscribersRegistered ==
    m_sessions_guard = None => \A s \in m_subscribers : m_sessions[s] # "none"

\* Messages published by several threads reach all subscribers in one order:
\* internal_send holds m_subscribers_guard over its whole loop.
Before(q, m, n) == \E i, j \in DOMAIN q : i < j /\ q[i] = m /\ q[j] = n
SameOrder ==
    \A s, r \in Sessions, m, n \in Msgs : ~(Before(outbox[s], m, n) /\ Before(outbox[r], n, m))

\* onUnsubscribed is called once for each time a session was subscribed, however
\* it leaves: broken, on its own, or terminated.
LeavesOnce ==
    \A s \in Sessions : owed[s] = IF s \in m_subscribers THEN 1 ELSE 0

\* A call that publishes leaves no subscriber without the message: one subscriber
\* that fails neither ends the loop nor stays.
ReachesAll ==
    [][\A t \in Threads :
          publishing[t] # None /\ publishing'[t] = None =>
              \A s \in m_subscribers' : \E i \in DOMAIN outbox[s] : outbox[s][i] = publishing[t]]_vars

\* Every call of the manager or of the channel returns: their two locks are taken
\* in one order, that of the manager first.
CallsReturn == \A t \in Threads : ~Idle(t) ~> Idle(t) \/ crashed
=============================================================================
