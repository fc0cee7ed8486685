-------------------- MODULE PubSubMessageChannel_proofs --------------------
(***************************************************************************)
(* Theorems about SessionManager and PubSubMessageChannel, for any threads,*)
(* sessions and messages.                                                  *)
(***************************************************************************)
EXTENDS PubSubMessageChannel, TLAPS

(***************************************************************************)
(* The registry of sessions.                                               *)
(***************************************************************************)

\* A thread inside a call of the manager, and no other, holds its mutex; it has
\* in hand the session its step is about.
ManagerLock ==
    \A t \in Threads :
        /\ managing[t] # "idle" <=> m_sessions_guard = t
        /\ managing[t] \in {"opened", "terminating", "terminated"} => victim[t] \in Sessions

\* Registry inside a critical section, too.
Entries ==
    \A s \in Sessions :
        /\ m_sessions[s] = "held" => socket[s] = "open" /\ s \notin thrown
        /\ m_sessions[s] = "none" => socket[s] # "open"
        /\ m_sessions[s] = "null" =>
              s \in thrown \/ \E t \in Threads : managing[t] = "terminating" /\ victim[t] = s
        /\ s \in thrown => m_sessions[s] = "null" /\ socket[s] = "open"

\* What the steps inside a call have in hand.
Hand ==
    \A t \in Threads :
        /\ managing[t] = "opened" => m_sessions[victim[t]] = "held"
        /\ managing[t] = "terminating" =>
              /\ m_sessions[victim[t]] = "null" /\ socket[victim[t]] = "open"
              /\ victim[t] \notin thrown
        /\ managing[t] = "terminated" => m_sessions[victim[t]] = "none"

\* A session leaves the channel in the section that takes it out of the manager.
Subscribed ==
    \A s \in m_subscribers :
        m_sessions[s] # "none" \/ \E t \in Threads : managing[t] = "terminated" /\ victim[t] = s

\* The subscribers are counted right.
Counted ==
    /\ LeavesOnce
    /\ owed \in [Sessions -> Nat]
    /\ m_subscribers \subseteq Sessions
    /\ broken_ids \in [Threads -> SUBSET Sessions]

ManagerInv == ManagerTypeOK /\ ManagerLock /\ Entries /\ Hand

\* The actions that leave the manager alone.
LEMMA ChannelSteps ==
    ASSUME NEW t \in Threads, NEW s \in Sessions, NEW m \in Msgs,
           \/ LeaveChannel(t, s) \/ Publish(t, m) \/ Deliver(t, s) \/ Fail(t, s) \/ Sweep(t)
    PROVE  UNCHANGED managerVars
  BY DEF LeaveChannel, Publish, Deliver, Fail, Visit, Sweep

\* A critical section of the manager ends with nothing left half done.
LEMMA ManagerInvInit == Init => ManagerInv
<1> SUFFICES ASSUME ManagerInit PROVE ManagerInv
  BY DEF Init
<1> USE DEF ManagerInit
<1>1. ManagerTypeOK
  BY DEF ManagerTypeOK
<1>2. ManagerLock
  BY ManagerAssumption DEF ManagerLock
<1>3. Entries
  BY DEF Entries
<1>4. Hand
  BY DEF Hand
<1> QED
  BY <1>1, <1>2, <1>3, <1>4 DEF ManagerInv

\* Every step of a call keeps the map, the lock and the sessions in hand in order.
LEMMA ManagerInvStep == ManagerInv /\ [Next]_vars => ManagerInv'
<1> SUFFICES ASSUME ManagerInv, [Next]_vars PROVE ManagerInv'
  OBVIOUS
<1> USE DEF ManagerInv
<1>1. ASSUME NEW t \in Threads, NEW s \in Sessions, CreateSession(t, s) PROVE ManagerInv'
  BY <1>1, ManagerAssumption DEF CreateSession, Go, ManagerFree, ManagerTypeOK, ManagerLock, Entries, Hand
<1>2. ASSUME NEW t \in Threads, Opened(t) PROVE ManagerInv'
  BY <1>2, ManagerAssumption DEF Opened, Go, ManagerTypeOK, ManagerLock, Entries, Hand
<1>3. ASSUME NEW t \in Threads, NEW S \in SUBSET Sessions, crashed' \in BOOLEAN, BeginTerminate(t, S)
      PROVE ManagerInv'
  BY <1>3, ManagerAssumption DEF BeginTerminate, Go, ManagerFree, ManagerTypeOK, ManagerLock, Entries, Hand
<1>4. ASSUME NEW t \in Threads, NEW s \in Sessions, Take(t, s) PROVE ManagerInv'
  BY <1>4, ManagerAssumption DEF Take, Go, ManagerTypeOK, ManagerLock, Entries, Hand
<1>5. ASSUME NEW t \in Threads, TerminatingThrows(t) PROVE ManagerInv'
  BY <1>5, ManagerAssumption DEF TerminatingThrows, Go, ManagerTypeOK, ManagerLock, Entries, Hand
<1>6. ASSUME NEW t \in Threads, ShutdownSession(t) PROVE ManagerInv'
  BY <1>6, ManagerAssumption DEF ShutdownSession, Entry, Go, ManagerTypeOK, ManagerLock, Entries, Hand
<1>7. ASSUME NEW t \in Threads, Terminated(t) PROVE ManagerInv'
  BY <1>7, ManagerAssumption DEF Terminated, Go, ManagerTypeOK, ManagerLock, Entries, Hand
<1>8. ASSUME NEW t \in Threads, EndTerminate(t) PROVE ManagerInv'
  BY <1>8, ManagerAssumption DEF EndTerminate, Go, ManagerTypeOK, ManagerLock, Entries, Hand
<1>9. ASSUME NEW s \in Sessions, Disconnect(s) PROVE ManagerInv'
  BY <1>9 DEF Disconnect, ManagerTypeOK, ManagerLock, Entries, Hand
<1>10. ASSUME UNCHANGED managerVars PROVE ManagerInv'
  BY <1>10 DEF managerVars, ManagerTypeOK, ManagerLock, Entries, Hand
<1>11. ASSUME NEW t \in Threads, Call(t) PROVE ManagerInv'
  <2>1. {s \in Sessions : m_sessions[s] # "none"} \in SUBSET Sessions
    OBVIOUS
  <2>2. ASSUME NEW s \in Sessions, Terminate(t, s) PROVE ManagerInv'
    BY <2>2, <1>3 DEF Terminate, ManagerTypeOK
  <2>3. ASSUME TerminateAll(t) PROVE ManagerInv'
    BY <2>1, <2>3, <1>3 DEF TerminateAll
  <2>4. ASSUME ForEach(t) PROVE ManagerInv'
    BY <2>1, <2>4, ManagerAssumption
    DEF ForEach, Go, ManagerFree, ManagerTypeOK, ManagerLock, Entries, Hand
  <2>5. ASSUME FindSessionByProperty(t) PROVE ManagerInv'
    BY <2>5 DEF FindSessionByProperty, ManagerTypeOK, ManagerLock, Entries, Hand
  <2> QED
    BY <1>1, <1>11, <2>2, <2>3, <2>4, <2>5 DEF Call
<1>12. ASSUME NEW t \in Threads, ThreadStep(t) PROVE ManagerInv'
  <2>1. ASSUME NEW s \in Sessions, Deliver(t, s) \/ Fail(t, s) PROVE ManagerInv'
    BY <2>1, <1>10 DEF Deliver, Fail, Visit
  <2>2. ASSUME Sweep(t) PROVE ManagerInv'
    BY <2>2, <1>10 DEF Sweep
  <2>3. ASSUME NEW s \in Sessions, VisitEntry(t, s) PROVE ManagerInv'
    <3>1. \E left \in SUBSET Sessions : ids' = [ids EXCEPT ![t] = left]
      BY <2>3 DEF VisitEntry, ManagerTypeOK
    <3>2. ManagerTypeOK' /\ ManagerLock'
      BY <2>3, <3>1 DEF VisitEntry, ManagerTypeOK, ManagerLock
    <3>3. Entries' /\ Hand'
      BY <2>3 DEF VisitEntry, Entries, Hand
    <3> QED
      BY <3>2, <3>3
  <2>4. ASSUME EndForEach(t) PROVE ManagerInv'
    BY <2>4, ManagerAssumption DEF EndForEach, Go, ManagerTypeOK, ManagerLock, Entries, Hand
  <2> QED
    BY <1>2, <1>4, <1>5, <1>6, <1>7, <1>8, <1>12, <2>1, <2>2, <2>3, <2>4
    DEF ThreadStep, ManagerStep, OnSessionOpened, OnSessionTerminated
<1> QED
  BY <1>9, <1>10, <1>11, <1>12 DEF Next, vars, LeaveChannel, Publish

\* SessionManager: between two calls an entry holds a session that was not shut
\* down, or is what a throwing onSessionTerminating left.
THEOREM RegistryCorrect == Spec => []Registry
<1>1. Init => ManagerInv
  BY ManagerInvInit
<1>2. ManagerInv /\ [Next]_vars => ManagerInv'
  BY ManagerInvStep
<1>3. ManagerInv => Registry
  BY ManagerAssumption DEF ManagerInv, ManagerLock, Entries, Registry
<1> QED
  BY <1>1, <1>2, <1>3, PTL DEF Spec

-----------------------------------------------------------------------------
(***************************************************************************)
(* The subscribers.                                                        *)
(***************************************************************************)
SubscriberInv == Subscribed /\ Counted

\* The steps of the manager that are not one of its callbacks.
LEMMA ManagerSteps ==
    ASSUME NEW t \in Threads, Call(t) \/ (ManagerStep(t) /\ UNCHANGED channelVars),
           ManagerInv, Subscribed, m_subscribers \subseteq Sessions
    PROVE  Subscribed' /\ UNCHANGED channelVars
<1> USE DEF ManagerInv, ManagerTypeOK, ManagerLock, Hand, Subscribed, channelVars
<1>1. UNCHANGED channelVars
  BY DEF Call
<1>2. ASSUME NEW s \in Sessions, CreateSession(t, s), UNCHANGED channelVars PROVE Subscribed'
  BY <1>2, ManagerAssumption DEF CreateSession, Go, ManagerFree
<1>3. ASSUME NEW S, BeginTerminate(t, S), UNCHANGED channelVars PROVE Subscribed'
  BY <1>3, ManagerAssumption DEF BeginTerminate, Go, ManagerFree
<1>4. ASSUME NEW s \in Sessions, Take(t, s), UNCHANGED channelVars PROVE Subscribed'
  <2>1. managing[t] = "next" /\ m_sessions_guard = t
    BY <1>4 DEF Take
  <2>2. \A r \in m_subscribers : m_sessions[r] # "none"
    BY <2>1, ManagerAssumption
  <2>3. m_subscribers \subseteq Sessions => \A r \in m_subscribers : m_sessions'[r] # "none"
    BY <1>4, <2>2 DEF Take
  <2> QED
    BY <1>4, <2>3
<1>5. ASSUME TerminatingThrows(t), UNCHANGED channelVars PROVE Subscribed'
  BY <1>5 DEF TerminatingThrows, Go
<1>6. ASSUME ShutdownSession(t), UNCHANGED channelVars PROVE Subscribed'
  BY <1>6 DEF ShutdownSession, Go, Entry
<1>7. ASSUME EndTerminate(t), UNCHANGED channelVars PROVE Subscribed'
  BY <1>7 DEF EndTerminate, Go
<1>8. ASSUME ForEach(t), UNCHANGED channelVars PROVE Subscribed'
  BY <1>8, ManagerAssumption DEF ForEach, Go, ManagerFree
<1>9. ASSUME FindSessionByProperty(t), UNCHANGED channelVars PROVE Subscribed'
  BY <1>9 DEF FindSessionByProperty
<1>10. ASSUME NEW s \in Sessions, VisitEntry(t, s), UNCHANGED channelVars PROVE Subscribed'
  BY <1>10 DEF VisitEntry
<1>11. ASSUME EndForEach(t), UNCHANGED channelVars PROVE Subscribed'
  BY <1>11 DEF EndForEach, Go
<1> QED
  BY <1>1, <1>2, <1>3, <1>4, <1>5, <1>6, <1>7, <1>8, <1>9, <1>10, <1>11
  DEF Call, ManagerStep, Terminate, TerminateAll

\* A session leaves the channel before the section that erases it ends, and the
\* subscriptions are counted.
LEMMA SubscriberInvStep == ManagerInv /\ SubscriberInv /\ [Next]_vars => SubscriberInv'
<1> SUFFICES ASSUME ManagerInv, SubscriberInv, [Next]_vars PROVE SubscriberInv'
  OBVIOUS
<1> USE DEF SubscriberInv, Counted, LeavesOnce
<1>1. ASSUME UNCHANGED channelVars PROVE Counted'
  BY <1>1 DEF channelVars
<1>2. ASSUME NEW S \in SUBSET Sessions, HelperUnsubscribe(S), broken_ids' = broken_ids PROVE Counted'
  BY <1>2 DEF HelperUnsubscribe
<1>3. ASSUME NEW t \in Threads, Call(t) \/ (ManagerStep(t) /\ UNCHANGED channelVars) PROVE SubscriberInv'
  BY <1>1, <1>3, ManagerSteps
<1>4. ASSUME NEW t \in Threads, OnSessionOpened(t) PROVE SubscriberInv'
  <2>1. victim[t] \in Sessions /\ m_sessions[victim[t]] = "held" /\ managing[t] = "opened"
    BY <1>4 DEF OnSessionOpened, Opened, ManagerInv, ManagerLock, Hand
  <2>2. Counted'
    BY <1>4, <2>1 DEF OnSessionOpened, Subscribe
  <2>3. Subscribed'
    BY <1>4, <2>1 DEF OnSessionOpened, Subscribe, Opened, Go, Subscribed, ManagerInv, ManagerTypeOK
  <2> QED
    BY <2>2, <2>3
<1>5. ASSUME NEW t \in Threads, OnSessionTerminated(t) PROVE SubscriberInv'
  <2>1. victim[t] \in Sessions /\ managing[t] = "terminated"
    BY <1>5 DEF OnSessionTerminated, Terminated, ManagerInv, ManagerLock
  <2>2. Counted'
    BY <1>2, <1>5, <2>1 DEF OnSessionTerminated, Unsubscribe
  <2>3. Subscribed'
    BY <1>5, <2>1 DEF OnSessionTerminated, Unsubscribe, HelperUnsubscribe, Terminated, Go, Subscribed,
                      ManagerInv, ManagerTypeOK
  <2> QED
    BY <2>2, <2>3
<1>6. ASSUME UNCHANGED managerVars, m_subscribers' \subseteq m_subscribers PROVE Subscribed'
  BY <1>6 DEF managerVars, Subscribed
<1>7. ASSUME NEW t \in Threads, NEW s \in Sessions, Deliver(t, s) \/ Fail(t, s) PROVE SubscriberInv'
  BY <1>6, <1>7 DEF Deliver, Fail, Visit, Broken
<1>8. ASSUME NEW t \in Threads, Sweep(t) PROVE SubscriberInv'
  BY <1>2, <1>6, <1>8 DEF Sweep, HelperUnsubscribe
<1>9. ASSUME NEW t \in Threads, NEW s \in Sessions, LeaveChannel(t, s) PROVE SubscriberInv'
  BY <1>2, <1>6, <1>9 DEF LeaveChannel, Unsubscribe, HelperUnsubscribe
<1>10. ASSUME NEW t \in Threads, NEW m \in Msgs, Publish(t, m) PROVE SubscriberInv'
  BY <1>6, <1>10 DEF Publish
<1>11. ASSUME NEW s \in Sessions, Disconnect(s), UNCHANGED channelVars PROVE SubscriberInv'
  BY <1>1, <1>11 DEF Disconnect, Subscribed, channelVars
<1>12. ASSUME UNCHANGED vars PROVE SubscriberInv'
  BY <1>1, <1>12 DEF vars, managerVars, channelVars, Subscribed
<1>13. ASSUME NEW t \in Threads, ThreadStep(t) PROVE SubscriberInv'
  BY <1>3, <1>4, <1>5, <1>7, <1>8, <1>13 DEF ThreadStep
<1>14. CASE Next
  <2>1. ASSUME NEW t \in Threads,
               \/ Call(t) \/ ThreadStep(t)
               \/ \E s \in Sessions : LeaveChannel(t, s)
               \/ \E m \in Msgs : Publish(t, m)
        PROVE  SubscriberInv'
    BY ONLY <2>1, <1>3, <1>9, <1>10, <1>13
  <2> HIDE DEF SubscriberInv, Counted, LeavesOnce
  <2> QED
    BY <2>1, <1>11, <1>14 DEF Next
<1> QED
  BY <1>12, <1>14

LEMMA SubscriberInvInit == Init => SubscriberInv
  BY DEF Init, SubscriberInv, Subscribed, Counted, LeavesOnce

\* Both invariants are kept together.
LEMMA SubscribersSafe == Spec => [](ManagerInv /\ SubscriberInv)
<1>1. Init => ManagerInv /\ SubscriberInv
  BY ManagerInvInit, SubscriberInvInit
<1>2. (ManagerInv /\ SubscriberInv) /\ [Next]_vars => (ManagerInv /\ SubscriberInv)'
  BY ManagerInvStep, SubscriberInvStep
<1> QED
  BY <1>1, <1>2, PTL DEF Spec

\* The application's callbacks, under the lock of the manager: a session that has
\* left the manager is no subscriber.
THEOREM SubscribersCorrect == Spec => []SubscribersRegistered
<1>1. ManagerInv /\ SubscriberInv => SubscribersRegistered
  BY ManagerAssumption DEF ManagerInv, ManagerLock, SubscriberInv, Subscribed, SubscribersRegistered
<1> QED
  BY <1>1, SubscribersSafe, PTL

\* helper_unsubscribe: onUnsubscribed once for each subscription.
THEOREM LeavesOnceCorrect == Spec => []LeavesOnce
<1>1. ManagerInv /\ SubscriberInv => LeavesOnce
  BY DEF SubscriberInv, Counted
<1> QED
  BY <1>1, SubscribersSafe, PTL

-----------------------------------------------------------------------------
(***************************************************************************)
(* The order of the messages.                                              *)
(***************************************************************************)
ChannelTypes ==
    /\ publishing \in [Threads -> Msgs \cup {None}]
    /\ todo = [t \in Threads |-> todo[t]]
    /\ outbox \in [Sessions -> Seq(Msgs)]
    /\ published \subseteq Msgs
    /\ \A s \in Sessions : \A i \in DOMAIN outbox[s] : outbox[s][i] \in published

\* One thread publishes.  Its message is the last wherever it was delivered, and
\* was not delivered to those its loop has still to visit.
OnePublisher ==
    \A t \in Threads :
        publishing[t] # None =>
            /\ m_subscribers_guard = t
            /\ publishing[t] \in published
            /\ \A s \in Sessions : \A i \in DOMAIN outbox[s] :
                  outbox[s][i] = publishing[t] => i = Len(outbox[s]) /\ s \notin todo[t]

OrderInv == ChannelTypes /\ OnePublisher /\ SameOrder

LEMMA OrderInvInit == Init => OrderInv
  BY DEF Init, OrderInv, ChannelTypes, OnePublisher, SameOrder, Before

\* The loop of internal_send extends one outbox after the other by its message.
LEMMA DeliverInOrder ==
    ASSUME OrderInv, NEW t \in Threads, NEW s \in Sessions, Deliver(t, s)
    PROVE  OrderInv'
<1> DEFINE m == publishing[t]
           q == outbox[s]
<1> USE DEF OrderInv
<1>1. /\ m \in Msgs /\ m \in published /\ s \in todo[t]
      /\ q \in Seq(Msgs) /\ \A i \in DOMAIN q : q[i] # m
  BY DEF Deliver, Visit, ChannelTypes, OnePublisher
<1>2. /\ outbox' = [outbox EXCEPT ![s] = Append(q, m)]
      /\ todo' = [todo EXCEPT ![t] = todo[t] \ {s}]
      /\ UNCHANGED <<m_subscribers_guard, publishing, published>>
  BY DEF Deliver, Visit
<1>3. /\ Append(q, m) \in Seq(Msgs) /\ Len(Append(q, m)) = Len(q) + 1
      /\ DOMAIN Append(q, m) = 1 .. Len(q) + 1 /\ DOMAIN q = 1 .. Len(q)
      /\ Append(q, m)[Len(q) + 1] = m
      /\ \A i \in DOMAIN q : Append(q, m)[i] = q[i]
      /\ Len(q) \in Nat
  BY <1>1
<1>4. /\ outbox'[s] = Append(q, m)
      /\ \A r \in Sessions \ {s} : outbox'[r] = outbox[r]
  BY <1>2 DEF ChannelTypes
<1>5. ChannelTypes'
  <2>1. \A i \in DOMAIN outbox'[s] : outbox'[s][i] \in published
    BY <1>1, <1>3, <1>4 DEF ChannelTypes
  <2> QED
    BY <1>1, <1>2, <1>3, <1>4, <2>1 DEF ChannelTypes
<1>6. OnePublisher'
  <2> SUFFICES ASSUME NEW u \in Threads, publishing[u] # None
               PROVE  /\ m_subscribers_guard = u
                      /\ publishing[u] \in published
                      /\ \A r \in Sessions : \A i \in DOMAIN outbox'[r] :
                            outbox'[r][i] = publishing[u] => i = Len(outbox'[r]) /\ r \notin todo'[u]
    BY <1>2 DEF OnePublisher
  <2>1. u = t /\ todo'[u] = todo[u] \ {s}
    BY <1>2 DEF OnePublisher, Deliver, Visit, ChannelTypes
  <2>2. ASSUME NEW r \in Sessions \ {s}, NEW i \in DOMAIN outbox'[r], outbox'[r][i] = publishing[u]
        PROVE  i = Len(outbox'[r]) /\ r \notin todo'[u]
    BY <1>4, <2>1, <2>2 DEF OnePublisher
  <2>3. ASSUME NEW i \in DOMAIN outbox'[s], outbox'[s][i] = publishing[u]
        PROVE  i = Len(outbox'[s]) /\ s \notin todo'[u]
    BY <1>1, <1>3, <1>4, <2>1, <2>3
  <2> QED
    BY <2>1, <2>2, <2>3 DEF OnePublisher
<1>7. SameOrder'
  <2>1. ASSUME NEW r \in Sessions, NEW a, NEW b, Before(outbox'[r], a, b)
        PROVE  Before(outbox[r], a, b) \/ b = m
    <3>1. CASE r # s
      BY <1>4, <2>1, <3>1
    <3>2. CASE r = s
      <4>1. PICK i \in 1 .. Len(q) + 1, j \in 1 .. Len(q) + 1 :
               i < j /\ Append(q, m)[i] = a /\ Append(q, m)[j] = b
        <5> HIDE DEF q, m
        <5> QED
          BY <1>3, <1>4, <2>1, <3>2 DEF Before
      <4>2. CASE j = Len(q) + 1
        BY <1>3, <4>1, <4>2
      <4>3. CASE j # Len(q) + 1
        <5>1. i \in DOMAIN q /\ j \in DOMAIN q /\ q[i] = a /\ q[j] = b
          BY <1>3, <4>1, <4>3
        <5> QED
          BY <3>2, <4>1, <5>1 DEF Before
      <4> QED
        BY <4>2, <4>3
    <3> QED
      BY <3>1, <3>2
  <2>2. ASSUME NEW r \in Sessions, NEW a PROVE ~Before(outbox'[r], m, a)
    <3>1. CASE r = s
      <4>1. \A i \in 1 .. Len(q) + 1 : Append(q, m)[i] = m => i = Len(q) + 1
        BY <1>1, <1>3
      <4> HIDE DEF q, m
      <4> QED
        BY <1>3, <1>4, <3>1, <4>1 DEF Before
    <3>2. CASE r # s
      <4>1. outbox[r] \in Seq(Msgs) /\ DOMAIN outbox[r] = 1 .. Len(outbox[r]) /\ Len(outbox[r]) \in Nat
        BY DEF ChannelTypes
      <4>2. \A i \in DOMAIN outbox[r] : outbox[r][i] = m => i = Len(outbox[r])
        BY DEF OnePublisher, Deliver, Visit
      <4> QED
        BY <1>4, <3>2, <4>1, <4>2 DEF Before
    <3> QED
      BY <3>1, <3>2
  <2> HIDE DEF m
  <2>3. SUFFICES ASSUME NEW u \in Sessions, NEW r \in Sessions, NEW a \in Msgs, NEW b \in Msgs,
                        Before(outbox'[u], a, b), Before(outbox'[r], b, a)
                 PROVE  FALSE
    BY DEF SameOrder
  <2>4. b # m /\ a # m
    BY <2>2, <2>3
  <2>5. Before(outbox[u], a, b) /\ Before(outbox[r], b, a)
    BY <2>1, <2>3, <2>4
  <2> QED
    BY <2>5 DEF SameOrder
<1> QED
  BY <1>5, <1>6, <1>7

\* The other steps deliver nothing; a message is new when its publishing begins.
LEMMA OrderInvStep == OrderInv /\ [Next]_vars => OrderInv'
<1> SUFFICES ASSUME OrderInv, [Next]_vars PROVE OrderInv'
  OBVIOUS
<1>1. ASSUME UNCHANGED <<m_subscribers_guard, publishing, todo, outbox, published>> PROVE OrderInv'
  BY <1>1 DEF OrderInv, ChannelTypes, OnePublisher, SameOrder
<1>2. ASSUME NEW t \in Threads, NEW m \in Msgs, Publish(t, m) PROVE OrderInv'
  <2>1. ChannelTypes' /\ SameOrder'
    BY <1>2 DEF Publish, OrderInv, ChannelTypes, SameOrder
  <2>2. OnePublisher'
    BY <1>2, ManagerAssumption DEF Publish, Idle, ChannelFree, OrderInv, ChannelTypes, OnePublisher
  <2> QED
    BY <2>1, <2>2 DEF OrderInv
<1>3. ASSUME NEW t \in Threads, NEW s \in Sessions, Fail(t, s) PROVE OrderInv'
  BY <1>3 DEF Fail, Visit, OrderInv, ChannelTypes, OnePublisher, SameOrder
<1>4. ASSUME NEW t \in Threads, Sweep(t) PROVE OrderInv'
  BY <1>4 DEF Sweep, OrderInv, ChannelTypes, OnePublisher, SameOrder
<1>5. ASSUME NEW t \in Threads, Call(t) PROVE OrderInv'
  BY <1>1, <1>5 DEF Call, channelVars
<1>6. ASSUME NEW t \in Threads, ThreadStep(t) PROVE OrderInv'
  BY <1>1, <1>3, <1>4, <1>6, DeliverInOrder
  DEF ThreadStep, OnSessionOpened, OnSessionTerminated, Subscribe, Unsubscribe, channelVars
<1>7. ASSUME NEW t \in Threads, NEW s \in Sessions, LeaveChannel(t, s) PROVE OrderInv'
  BY <1>1, <1>7 DEF LeaveChannel, Unsubscribe
<1>8. ASSUME UNCHANGED channelVars PROVE OrderInv'
  BY <1>1, <1>8 DEF channelVars
<1> QED
  BY <1>2, <1>5, <1>6, <1>7, <1>8 DEF Next, vars

\* internal_send holds m_subscribers_guard over its loop: messages reach all
\* subscribers in one order, and none of them twice.
THEOREM SameOrderCorrect == Spec => []SameOrder
<1>1. OrderInv => SameOrder
  BY DEF OrderInv
<1> QED
  BY <1>1, OrderInvInit, OrderInvStep, PTL DEF Spec

-----------------------------------------------------------------------------
(***************************************************************************)
(* The loop of internal_send.                                              *)
(***************************************************************************)
LoopTypes ==
    /\ m_subscribers_guard \in Threads \cup {None}
    /\ todo \in [Threads -> SUBSET Sessions]

Reached(m, s) == \E i \in DOMAIN outbox[s] : outbox[s][i] = m

\* Nobody subscribes or leaves while a thread publishes.  Each subscriber is still
\* to be visited, has the message, or failed and will be removed.
Reaching ==
    \A t \in Threads :
        publishing[t] # None =>
            /\ m_subscribers_guard = t
            /\ \A s \in m_subscribers :
                  s \in todo[t] \/ s \in broken_ids[t] \/ Reached(publishing[t], s)

LoopInv == SubscriberInv /\ OrderInv /\ LoopTypes /\ Reaching

LEMMA LoopInit == Init => LoopTypes /\ Reaching
  BY DEF Init, LoopTypes, Reaching

LEMMA LoopStep == LoopInv /\ [Next]_vars => LoopTypes' /\ Reaching'
<1> SUFFICES ASSUME LoopInv, [Next]_vars PROVE LoopTypes' /\ Reaching'
  OBVIOUS
<1> USE DEF LoopInv, LoopTypes, Reaching, Reached
<1>0. /\ publishing \in [Threads -> Msgs \cup {None}]
      /\ outbox \in [Sessions -> Seq(Msgs)]
      /\ m_subscribers \subseteq Sessions
      /\ broken_ids \in [Threads -> SUBSET Sessions]
  BY DEF SubscriberInv, Counted, OrderInv, ChannelTypes
<1>1. ASSUME NEW t \in Threads, NEW m \in Msgs, Publish(t, m)
      PROVE  LoopTypes' /\ Reaching'
  <2>1. \A u \in Threads : publishing[u] = None
    BY <1>1, ManagerAssumption DEF Publish, ChannelFree
  <2> QED
    BY <1>0, <1>1, <2>1 DEF Publish
<1>2. ASSUME NEW t \in Threads, NEW s \in Sessions, Deliver(t, s)
      PROVE  LoopTypes' /\ Reaching'
  <2>1. publishing[t] # None /\ \A u \in Threads : publishing[u] # None => u = t
    BY <1>2 DEF Deliver, Visit
  <2>2. /\ outbox' = [outbox EXCEPT ![s] = Append(outbox[s], publishing[t])]
        /\ todo' = [todo EXCEPT ![t] = todo[t] \ {s}]
        /\ UNCHANGED <<m_subscribers, m_subscribers_guard, publishing, broken_ids>>
    BY <1>2 DEF Deliver, Visit
  <2>3. publishing[t] \in Msgs
    BY <1>0, <2>1
  <2>4. Reached(publishing[t], s)'
    <3>1. /\ outbox'[s] = Append(outbox[s], publishing[t])
          /\ outbox[s] \in Seq(Msgs) /\ publishing' = publishing
      BY <1>0, <2>2
    <3>2. /\ Len(outbox[s]) + 1 \in DOMAIN outbox'[s]
          /\ outbox'[s][Len(outbox[s]) + 1] = publishing[t]
      BY <2>3, <3>1
    <3> QED
      BY <3>1, <3>2
  <2>5. \A r \in Sessions \ {s} : outbox'[r] = outbox[r]
    BY <1>0, <2>2
  <2>6. LoopTypes'
    BY <2>2
  <2>7. Reaching'
    BY <1>0, <2>1, <2>2, <2>4, <2>5
  <2> QED
    BY <2>6, <2>7
<1>3. ASSUME NEW t \in Threads, NEW s \in Sessions, Fail(t, s)
      PROVE  LoopTypes' /\ Reaching'
  <2>1. /\ todo' = [todo EXCEPT ![t] = todo[t] \ {s}]
        /\ broken_ids' = [broken_ids EXCEPT ![t] = broken_ids[t] \cup {s}]
        /\ UNCHANGED <<m_subscribers, m_subscribers_guard, publishing, outbox>>
    BY <1>3 DEF Fail, Visit, Broken
  <2> QED
    BY <1>0, <2>1
<1>4. ASSUME NEW t \in Threads, Sweep(t) PROVE LoopTypes' /\ Reaching'
  <2>1. \A u \in Threads : publishing'[u] = None
    BY <1>0, <1>4 DEF Sweep
  <2> QED
    BY <1>4, <2>1 DEF Sweep, Unlocked
<1>5. ASSUME ChannelFree, UNCHANGED <<m_subscribers_guard, publishing, todo, broken_ids, outbox>>
      PROVE  LoopTypes' /\ Reaching'
  BY <1>5, ManagerAssumption DEF ChannelFree
<1>6. ASSUME UNCHANGED channelVars PROVE LoopTypes' /\ Reaching'
  BY <1>6 DEF channelVars
<1>7. ASSUME NEW t \in Threads, OnSessionOpened(t) \/ OnSessionTerminated(t)
      PROVE  LoopTypes' /\ Reaching'
  BY <1>5, <1>7 DEF OnSessionOpened, OnSessionTerminated, Subscribe, Unsubscribe
<1>8. ASSUME NEW t \in Threads, NEW s \in Sessions, LeaveChannel(t, s)
      PROVE  LoopTypes' /\ Reaching'
  BY <1>5, <1>8 DEF LeaveChannel, Unsubscribe
<1> HIDE DEF LoopInv, LoopTypes, Reaching, Reached
<1>9. ASSUME NEW t \in Threads, Call(t) \/ ThreadStep(t) PROVE LoopTypes' /\ Reaching'
  BY <1>2, <1>3, <1>4, <1>6, <1>7, <1>9 DEF Call, ThreadStep
<1> QED
  BY <1>1, <1>6, <1>8, <1>9 DEF Next, vars

LEMMA LoopSafe == Spec => [](ManagerInv /\ LoopInv)
<1>1. Init => LoopInv
  BY SubscriberInvInit, OrderInvInit, LoopInit DEF LoopInv
<1>2. ManagerInv /\ LoopInv /\ [Next]_vars => LoopInv'
  BY SubscriberInvStep, OrderInvStep, LoopStep DEF LoopInv
<1> QED
  BY <1>1, <1>2, ManagerInvInit, ManagerInvStep, PTL DEF Spec

\* The channel and the manager keep their types.
THEOREM TypeCorrect == Spec => []TypeOK
<1>1. ManagerInv /\ LoopInv => TypeOK
  BY DEF ManagerInv, LoopInv, SubscriberInv, Counted, OrderInv, ChannelTypes, LoopTypes, TypeOK
<1> QED
  BY <1>1, LoopSafe, PTL

\* internal_send returns when each subscriber that is left has the message: one
\* that fails does not end the loop, and helper_unsubscribe removes it.
THEOREM ReachesAllCorrect == Spec => ReachesAll
<1> DEFINE Returns(t) == publishing[t] # None /\ publishing'[t] = None
           Complete(t) ==
               \A s \in m_subscribers' :
                   \E i \in DOMAIN outbox[s] : outbox[s][i] = publishing[t]
<1>1. LoopInv /\ [Next]_vars => [\A t \in Threads : Returns(t) => Complete(t)]_vars
  <2> SUFFICES ASSUME LoopInv, Next, NEW t \in Threads, Returns(t) PROVE Complete(t)
    OBVIOUS
  <2>1. publishing \in [Threads -> Msgs \cup {None}]
    BY DEF LoopInv, OrderInv, ChannelTypes
  <2>2. ASSUME NEW u \in Threads, NEW m \in Msgs, Publish(u, m) PROVE FALSE
    BY <2>1, <2>2 DEF Publish, Idle
  <2>3. ASSUME NEW u \in Threads, Sweep(u) PROVE Complete(t)
    <3>1. u = t
      BY <2>1, <2>3 DEF Sweep
    <3>2. m_subscribers' = m_subscribers \ broken_ids[t] /\ todo[t] = {}
      BY <2>3, <3>1 DEF Sweep, HelperUnsubscribe
    <3> QED
      BY <3>2 DEF LoopInv, Reaching, Reached
  <2>4. publishing' # publishing
    OBVIOUS
  <2>5. \/ \E u \in Threads, m \in Msgs : Publish(u, m)
        \/ \E u \in Threads : Sweep(u)
    BY <2>4 DEF Next, Call, ThreadStep, channelVars, OnSessionOpened, OnSessionTerminated,
                Subscribe, Unsubscribe, Deliver, Fail, Visit, LeaveChannel
  <2> QED
    BY <2>2, <2>3, <2>5
<1> QED
  BY <1>1, LoopSafe, PTL DEF Spec, ReachesAll
=============================================================================
