------------------------ MODULE TcpTransport_proofs ------------------------
(***************************************************************************)
(* Theorems about TcpTransport, for any number of threads and messages and *)
(* any bounds, with or without pipelining.                                 *)
(***************************************************************************)
EXTENDS TcpTransport, TLAPS

(***************************************************************************)
(* Type correctness needs to know what each step of a thread relies on.    *)
(***************************************************************************)
StepOK ==
    /\ pc[Io] \notin {"check", "push", "receive"}
    /\ \A p \in Procs : pc[p] \in {"check", "push", "fill", "start"} => cur[p] \in Msgs
    /\ \A p \in Procs : pc[p] = "start" => m_outgoing_data_buffer # None
    /\ reading \in {"length_done", "body_done"} => inbound # <<>>

TypeInv == TypeOK /\ StepOK

\* What pushing to a queue leaves: MessageQueue::internal_push.
LEMMA AppendType ==
    ASSUME NEW S, NEW q \in Seq(S), NEW e \in S
    PROVE  /\ Append(q, e) \in Seq(S)
           /\ \A i \in DOMAIN Append(q, e) :
                 Append(q, e)[i] = e \/ (i \in DOMAIN q /\ Append(q, e)[i] = q[i])
  OBVIOUS

\* What pulling from a queue returns and leaves: MessageQueue::internal_pull.
LEMMA PullFacts ==
    ASSUME NEW S, NEW q \in Seq(S)
    PROVE  /\ Rest(q) \in Seq(S)
           /\ q = <<>> => Front(q) = None
           /\ q # <<>> => 1 \in DOMAIN q /\ Front(q) = q[1] /\ q[1] \in S
           /\ \A i \in DOMAIN Rest(q) : i + 1 \in DOMAIN q /\ Rest(q)[i] = q[i + 1]
<1>1. CASE q = <<>>
  BY <1>1 DEF Rest, Front
<1>2. CASE q # <<>>
  BY <1>2 DEF Rest, Front
<1> QED
  BY <1>1, <1>2

LEMMA TypeInit == Init => TypeInv
<1> SUFFICES ASSUME Init PROVE TypeInv
  OBVIOUS
<1> USE ThreadsAssumption, MsgsAssumption, BoundsAssumption DEF Init
<1>1. TypeOK
  <2>1. sent_by_peer \in 0..MaxInbound /\ now \in Time
    BY DEF Time
  <2>2. /\ DOMAIN m_pending_requests_ts \subseteq Requests
        /\ \A r \in DOMAIN m_pending_requests_ts : m_pending_requests_ts[r] \in Time
    OBVIOUS
  <2>3. pc \in [Procs -> Steps] /\ cur \in [Procs -> Msgs \cup {None}]
    BY DEF Steps
  <2>4. /\ in_progress \in [Threads -> BOOLEAN]
        /\ promise \in [Requests -> {"none", "pending", "value", "expired"}]
    OBVIOUS
  <2>5. /\ m_outgoing_messages \in Seq(Msgs) /\ m_incoming_messages \in Seq(Frames)
        /\ wire \in Seq(Chunks) /\ inbound \in Seq(Frames)
    OBVIOUS
  <2>6. /\ m_pending_requests \subseteq Requests /\ writes \in SUBSET Writes
        /\ fresh \subseteq Msgs
    OBVIOUS
  <2> QED
    BY <2>1, <2>2, <2>3, <2>4, <2>5, <2>6 DEF TypeOK
<1>2. StepOK
  BY DEF StepOK, Procs
<1> QED
  BY <1>1, <1>2 DEF TypeInv

LEMMA TypeStep == TypeInv /\ [Next]_vars => TypeInv'
<1> SUFFICES ASSUME TypeInv, [Next]_vars PROVE TypeInv'
  OBVIOUS
<1> USE ThreadsAssumption, MsgsAssumption, BoundsAssumption
        DEF TypeInv, TypeOK, StepOK, Procs, Steps, queues, ledger, threads, outside
<1>1. CASE Start
  BY <1>1 DEF Start
<1>2. CASE CreateNew
  BY <1>2 DEF CreateNew
<1>3. CASE Shutdown
  BY <1>3 DEF Shutdown
<1>4. ASSUME NEW t \in Threads, NEW m \in Msgs, Send(t, m) PROVE TypeInv'
  BY <1>4 DEF Send, Begin
<1>5. ASSUME NEW t \in Threads, NEW m \in Msgs, Request(t, m) PROVE TypeInv'
  BY <1>5 DEF Request, Begin, Register
<1>6. ASSUME NEW t \in Threads, Receive(t) PROVE TypeInv'
  BY <1>6 DEF Receive
<1>7. ASSUME NEW t \in Threads, CheckSize(t) PROVE TypeInv'
  BY <1>7 DEF CheckSize, WritePending
<1>8. ASSUME NEW t \in Threads, Push(t) PROVE TypeInv'
  <2>1. m_outgoing_messages' \in Seq(Msgs)
    <3>1. cur[t] \in Msgs /\ m_outgoing_messages' = Append(m_outgoing_messages, cur[t])
      BY <1>8 DEF Push
    <3> QED
      BY <3>1, AppendType
  <2>2. m_pending_requests_mtx' \in Threads \cup {None}
    BY <1>8 DEF Push, Return
  <2>3. pc' \in [Procs -> Steps] /\ cur' \in [Procs -> Msgs \cup {None}]
    BY <1>8 DEF Push, Return
  <2>4. StepOK'
    <3>1. /\ \/ pc' = [pc EXCEPT ![t] = "idle"]
             \/ pc' = [pc EXCEPT ![t] = "pull"]
          /\ cur' = [cur EXCEPT ![t] = None]
          /\ UNCHANGED <<reading, inbound, m_outgoing_data_buffer>>
      BY <1>8 DEF Push, Return
    <3> QED
      BY <3>1
  <2> QED
    BY <1>8, <2>1, <2>2, <2>3, <2>4 DEF Push
<1>9. ASSUME NEW t \in Threads, ReceivePull(t) PROVE TypeInv'
  <2>1. m_incoming_messages' \in Seq(Frames)
    BY <1>9, PullFacts DEF ReceivePull
  <2>2. /\ pc' = [pc EXCEPT ![t] = "idle"]
        /\ UNCHANGED <<m_state, owned, link, m_outgoing_messages, ledger, m_pending_requests_mtx,
                       reading, m_outgoing_data_buffer, writes, cur, in_progress, fresh,
                       outside, now>>
    BY <1>9 DEF ReceivePull
  <2>3. pc' \in [Procs -> Steps] /\ StepOK'
    BY <2>2
  <2> HIDE DEF StepOK, Procs, Steps
  <2> QED
    BY <2>1, <2>2, <2>3
<1>10. ASSUME NEW p \in Procs, Pull(p) PROVE TypeInv'
  <2>1. /\ Rest(m_outgoing_messages) \in Seq(Msgs)
        /\ ~NothingPulled => Front(m_outgoing_messages) \in Msgs
        /\ NothingPulled \in BOOLEAN
    <3>1. m_outgoing_messages \in Seq(Msgs)
      OBVIOUS
    <3>2. None \notin Msgs
      OBVIOUS
    <3> QED
      BY ONLY <3>1, <3>2, PullFacts DEF NothingPulled
  <2>2. m_pending_requests_mtx' \in Threads \cup {None}
    BY <1>10 DEF Pull, Return
  <2>3. pc' \in [Procs -> Steps] /\ cur' \in [Procs -> Msgs \cup {None}]
    <3>1. CASE NothingPulled
      <4>1. pc' = [pc EXCEPT ![p] = "idle"] /\ cur' = [cur EXCEPT ![p] = None]
        BY <1>10, <3>1 DEF Pull, Return
      <4> HIDE DEF Procs, StepOK, NothingPulled
      <4> QED
        BY <4>1
    <3>2. CASE ~NothingPulled
      <4>1. /\ pc' = [pc EXCEPT ![p] = "fill"]
            /\ cur' = [cur EXCEPT ![p] = Front(m_outgoing_messages)]
        BY <1>10, <3>2 DEF Pull
      <4> QED
        BY <2>1, <3>2, <4>1
    <3> QED
      BY <3>1, <3>2
  <2>4. StepOK'
    <3>1. CASE NothingPulled
      <4>1. /\ pc' = [pc EXCEPT ![p] = "idle"] /\ cur' = [cur EXCEPT ![p] = None]
            /\ UNCHANGED <<reading, inbound, m_outgoing_data_buffer>>
        BY <1>10, <3>1 DEF Pull, Return
      <4>2. StepOK
        OBVIOUS
      <4> QED
        BY ONLY <4>1, <4>2, ThreadsAssumption, pc \in [Procs -> Steps],
                cur \in [Procs -> Msgs \cup {None}]
        DEF StepOK, Procs
    <3>2. CASE ~NothingPulled
      BY <1>10, <2>1, <3>2 DEF Pull
    <3> QED
      BY <3>1, <3>2
  <2> QED
    BY <1>10, <2>1, <2>2, <2>3, <2>4 DEF Pull
<1>11. ASSUME NEW p \in Procs, Fill(p) PROVE TypeInv'
  BY <1>11 DEF Fill, Race
<1>12. ASSUME NEW p \in Procs, StartWrite(p) PROVE TypeInv'
  BY <1>12 DEF StartWrite, Race, Return, Writes
<1>13. ASSUME NEW w \in writes, Transfer(w) PROVE TypeInv'
  <2>1. w \in Writes /\ w.sent + 1 \in 1..Parts
    BY <1>13 DEF Transfer, Writes
  <2>2. [w EXCEPT !.sent = w.sent + 1] \in Writes
    <3>1. w.sent + 1 \in 0..Parts
      BY <2>1
    <3> QED
      BY <2>1, <3>1 DEF Writes
  <2>3. \A m \in Content(w) : [msg |-> m, part |-> w.sent + 1] \in Chunks
    BY <2>1 DEF Writes, Content, Chunks
  <2>4. wire' \in Seq(Chunks)
    BY <1>13, <2>3 DEF Transfer
  <2>5. writes' \in SUBSET Writes
    BY <1>13, <2>2 DEF Transfer
  <2> QED
    BY <1>13, <2>4, <2>5 DEF Transfer
<1>14. ASSUME NEW w \in writes, WriteDone(w) PROVE TypeInv'
  BY <1>14 DEF WriteDone
<1>15. ASSUME NEW w \in writes, WriteFailed(w) PROVE TypeInv'
  BY <1>15 DEF WriteFailed, StateOnError
<1>16. CASE ReadComplete
  BY <1>16 DEF ReadComplete
<1>17. CASE ReadFailed
  BY <1>17 DEF ReadFailed, StateOnError
<1>18. CASE ReadMessage
  BY <1>18 DEF ReadMessage
<1>19. CASE DiscardMessage
  BY <1>19 DEF DiscardMessage, OnMessageRead
<1>20. CASE AnswerRequest
  BY <1>20 DEF AnswerRequest, OnMessageRead, Awaited, Forget
<1>21. CASE QueueMessage
  BY <1>21 DEF QueueMessage, OnMessageRead
<1>22. CASE RemoveExpiredRequests
  BY <1>22 DEF RemoveExpiredRequests, Forget
<1>23. CASE Tick
  BY <1>23 DEF Tick, Time
<1>24. ASSUME NEW f \in Frames, PeerSend(f) PROVE TypeInv'
  BY <1>24 DEF PeerSend
<1>25. CASE PeerLost
  BY <1>25 DEF PeerLost
<1>26. CASE UNCHANGED vars
  BY <1>26 DEF vars
<1> QED
  BY <1>1, <1>2, <1>3, <1>4, <1>5, <1>6, <1>7, <1>8, <1>9, <1>10, <1>11, <1>12, <1>13,
     <1>14, <1>15, <1>16, <1>17, <1>18, <1>19, <1>20, <1>21, <1>22, <1>23, <1>24, <1>25,
     <1>26
  DEF Next, ThreadStep, WriteStep, WriteOp, ReadStep

\* TcpTransport keeps its types.
THEOREM TypeCorrect == Spec => []TypeOK
<1>1. Init => TypeInv
  BY TypeInit
<1>2. TypeInv /\ [Next]_vars => TypeInv'
  BY TypeStep
<1>3. TypeInv => TypeOK
  BY DEF TypeInv
<1> QED
  BY <1>1, <1>2, <1>3, PTL DEF Spec

-----------------------------------------------------------------------------
(***************************************************************************)
(* The promises.  A request leaves fresh as it enters the ledger, in one   *)
(* step, because doRequest holds the mutex.                                *)
(***************************************************************************)
Issued == \A r \in Requests : r \in fresh <=> promise[r] = "none"

LedgerInv == TypeInv /\ PendingLedger /\ Issued

\* The steps that touch neither the ledger nor the messages still to be sent.
LEMMA OtherSteps ==
    ASSUME [Next]_vars,
           \A t \in Threads, m \in Msgs : ~Send(t, m) /\ ~Request(t, m),
           ~AnswerRequest, ~RemoveExpiredRequests
    PROVE  UNCHANGED <<m_pending_requests, m_pending_requests_ts, promise, fresh>>
<1> USE DEF ledger
<1>1. ASSUME NEW t \in Threads, Receive(t) \/ ThreadStep(t)
      PROVE  UNCHANGED <<ledger, fresh>>
  BY <1>1 DEF Receive, ThreadStep, CheckSize, Push, ReceivePull
<1>2. ASSUME NEW p \in Procs, WriteStep(p) PROVE UNCHANGED <<ledger, fresh>>
  BY <1>2 DEF WriteStep, Pull, Fill, StartWrite
<1>3. ASSUME NEW w \in writes, WriteOp(w) PROVE UNCHANGED <<ledger, fresh>>
  BY <1>3 DEF WriteOp, Transfer, WriteDone, WriteFailed, threads
<1>4. ASSUME ReadStep PROVE UNCHANGED <<ledger, fresh>>
  BY <1>4 DEF ReadStep, ReadComplete, ReadFailed, ReadMessage, DiscardMessage, QueueMessage,
              OnMessageRead, threads
<1>5. ASSUME Start \/ CreateNew \/ Shutdown \/ Tick \/ PeerLost
      PROVE  UNCHANGED <<ledger, fresh>>
  BY <1>5 DEF Start, CreateNew, Shutdown, Tick, PeerLost
<1>6. ASSUME NEW f \in Frames, PeerSend(f) PROVE UNCHANGED <<ledger, fresh>>
  BY <1>6 DEF PeerSend
<1>7. ASSUME UNCHANGED vars PROVE UNCHANGED <<ledger, fresh>>
  BY <1>7 DEF vars
<1> QED
  BY <1>1, <1>2, <1>3, <1>4, <1>5, <1>6, <1>7 DEF Next

LEMMA LedgerInit == Init => PendingLedger /\ Issued
  BY MsgsAssumption DEF Init, PendingLedger, Issued

LEMMA LedgerStep == LedgerInv /\ [Next]_vars => PendingLedger' /\ Issued'
<1> SUFFICES ASSUME LedgerInv, [Next]_vars PROVE PendingLedger' /\ Issued'
  OBVIOUS
<1> USE DEF LedgerInv, TypeInv, TypeOK, PendingLedger, Issued
<1>1. ASSUME NEW t \in Threads, NEW m \in Msgs, Send(t, m)
      PROVE  PendingLedger' /\ Issued'
  BY <1>1 DEF Send, Begin, ledger
<1>2. ASSUME NEW t \in Threads, NEW m \in Msgs, Request(t, m)
      PROVE  PendingLedger' /\ Issued'
  BY <1>2 DEF Request, Begin, Register
<1>3. CASE AnswerRequest
  BY <1>3 DEF AnswerRequest, OnMessageRead, Awaited, Forget
<1>4. CASE RemoveExpiredRequests
  BY <1>4 DEF RemoveExpiredRequests, Expired, Forget
<1>5. CASE UNCHANGED <<m_pending_requests, m_pending_requests_ts, promise, fresh>>
  BY <1>5
<1> QED
  BY <1>1, <1>2, <1>3, <1>4, <1>5, OtherSteps

\* doRequest, onMessageRead and removeExpiredRequests keep both maps equal to
\* the set of unset futures, whatever the threads and the io_context do.
THEOREM LedgerCorrect == Spec => []PendingLedger
<1>1. Init => LedgerInv
  BY TypeInit, LedgerInit DEF LedgerInv
<1>2. LedgerInv /\ [Next]_vars => LedgerInv'
  BY TypeStep, LedgerStep DEF LedgerInv
<1>3. LedgerInv => PendingLedger
  BY DEF LedgerInv
<1> QED
  BY <1>1, <1>2, <1>3, PTL DEF Spec

\* The state of a promise follows RequestOutcome: it is set once.
LEMMA OutcomeStep == LedgerInv /\ [Next]_vars => [Outcome!Next]_promise
<1> SUFFICES ASSUME LedgerInv, [Next]_vars PROVE Outcome!Next \/ UNCHANGED promise
  BY DEF Outcome!Next
<1> USE DEF LedgerInv, TypeInv, TypeOK, PendingLedger, Issued
<1>1. ASSUME NEW t \in Threads, NEW m \in Msgs, Send(t, m) PROVE UNCHANGED promise
  BY <1>1 DEF Send, ledger
<1>2. ASSUME NEW t \in Threads, NEW m \in Msgs, Request(t, m) PROVE Outcome!Next
  <2>1. m \in Requests /\ Outcome!Issue(m)
    BY <1>2 DEF Request, Begin, Register, Outcome!Issue
  <2> QED
    BY <2>1 DEF Outcome!Next
<1>3. CASE AnswerRequest
  <2>1. Head(inbound) \in Requests /\ Outcome!Answer(Head(inbound))
    BY <1>3 DEF AnswerRequest, Awaited, Outcome!Answer
  <2> QED
    BY <2>1 DEF Outcome!Next
<1>4. CASE RemoveExpiredRequests
  <2>1. Expired # {} /\ Expired \in SUBSET Requests /\ Expired \subseteq m_pending_requests
    BY <1>4 DEF RemoveExpiredRequests, Expired
  <2>2. Outcome!Expire(Expired)
    BY <1>4, <2>1 DEF RemoveExpiredRequests, Outcome!Expire
  <2> QED
    BY <2>1, <2>2 DEF Outcome!Next
<1>5. CASE UNCHANGED promise
  BY <1>5
<1> QED
  BY <1>1, <1>2, <1>3, <1>4, <1>5, OtherSteps

\* Each future request() returns is unset, then answered or expired, and what it
\* holds never changes: a late answer finds no promise to set.
THEOREM OutcomeCorrect == Spec => ImplementsOutcome
<1>1. Init => LedgerInv
  BY TypeInit, LedgerInit DEF LedgerInv
<1>2. LedgerInv /\ [Next]_vars => LedgerInv'
  BY TypeStep, LedgerStep DEF LedgerInv
<1>3. Init => Outcome!Init
  BY DEF Init, Outcome!Init
<1>4. LedgerInv /\ [Next]_vars => [Outcome!Next]_promise
  BY OutcomeStep
<1> QED
  BY <1>1, <1>2, <1>3, <1>4, PTL DEF Spec, ImplementsOutcome, Outcome!Spec

-----------------------------------------------------------------------------
(***************************************************************************)
(* An answer is to a message that was sent: whatever is in a queue, in a   *)
(* thread's hand, in the buffer, in a write, on the wire or on its way     *)
(* back has left fresh.                                                    *)
(***************************************************************************)
Begun ==
    /\ \A i \in DOMAIN m_outgoing_messages : m_outgoing_messages[i] \notin fresh
    /\ \A p \in Procs : cur[p] \notin fresh
    /\ m_outgoing_data_buffer \notin fresh
    /\ \A w \in writes : w.buf \notin fresh
    /\ \A i \in DOMAIN wire : wire[i].msg \notin fresh
    /\ \A i \in DOMAIN inbound : inbound[i] \notin fresh

LEMMA BegunInit == Init => Begun
  BY MsgsAssumption DEF Init, Begun

LEMMA BegunStep == TypeInv /\ TypeInv' /\ Begun /\ [Next]_vars => Begun'
<1> SUFFICES ASSUME TypeInv, TypeInv', Begun, [Next]_vars PROVE Begun'
  OBVIOUS
<1> USE ThreadsAssumption, MsgsAssumption
        DEF TypeInv, TypeOK, Begun, Procs, queues, ledger, threads, outside
<1>1. CASE Start \/ CreateNew \/ Shutdown \/ ReadComplete \/ ReadFailed \/ ReadMessage
             \/ RemoveExpiredRequests \/ Tick \/ PeerLost
  BY <1>1 DEF Start, CreateNew, Shutdown, ReadComplete, ReadFailed, ReadMessage,
              RemoveExpiredRequests, Tick, PeerLost
<1>2. ASSUME NEW t \in Threads, NEW m \in Msgs, Send(t, m) \/ Request(t, m) PROVE Begun'
  BY <1>2 DEF Send, Request, Begin
<1>3. ASSUME NEW t \in Threads, Receive(t) \/ CheckSize(t) \/ ReceivePull(t) PROVE Begun'
  BY <1>3 DEF Receive, CheckSize, ReceivePull
<1>4. ASSUME NEW t \in Threads, Push(t) PROVE Begun'
  <2>1. \A i \in DOMAIN m_outgoing_messages' : m_outgoing_messages'[i] \notin fresh'
    BY <1>4 DEF Push
  <2>2. \A p \in Procs : cur'[p] \notin fresh'
    BY <1>4 DEF Push, Return
  <2> QED
    BY <1>4, <2>1, <2>2 DEF Push
<1>5. ASSUME NEW p \in Procs, Pull(p) PROVE Begun'
  <2> DEFINE q == m_outgoing_messages
  <2>0. /\ q = <<>> => Front(q) = None
        /\ q # <<>> => 1 \in DOMAIN q /\ Front(q) = q[1]
        /\ \A i \in DOMAIN Rest(q) : i + 1 \in DOMAIN q /\ Rest(q)[i] = q[i + 1]
    BY PullFacts
  <2>1. \A i \in DOMAIN m_outgoing_messages' : m_outgoing_messages'[i] \notin fresh'
    <3>1. q' = Rest(q) /\ fresh' = fresh
      BY <1>5 DEF Pull
    <3> QED
      BY <2>0, <3>1
  <2>2. Front(m_outgoing_messages) \notin fresh
    <3>1. None \notin fresh
      OBVIOUS
    <3> QED
      BY <2>0, <3>1
  <2>3. \A r \in Procs : cur'[r] \notin fresh'
    BY <1>5, <2>2 DEF Pull, Return
  <2> QED
    BY <1>5, <2>1, <2>3 DEF Pull
<1>6. ASSUME NEW p \in Procs, Fill(p) PROVE Begun'
  BY <1>6 DEF Fill, Race
<1>7. ASSUME NEW p \in Procs, StartWrite(p) PROVE Begun'
  BY <1>7 DEF StartWrite, Race, Return
<1>8. ASSUME NEW w \in writes, Transfer(w) PROVE Begun'
  <2>1. PICK m \in Content(w) : wire' = Append(wire, [msg |-> m, part |-> w.sent + 1])
    BY <1>8 DEF Transfer
  <2>2. m \notin fresh
    BY <2>1 DEF Content
  <2>3. \A i \in DOMAIN wire' : wire'[i].msg \notin fresh'
    BY <1>8, <2>1, <2>2 DEF Transfer
  <2>4. [w EXCEPT !.sent = w.sent + 1].buf = w.buf
    BY DEF Writes
  <2>5. \A x \in writes' : x.buf \notin fresh'
    BY <1>8, <2>4 DEF Transfer
  <2> QED
    BY <1>8, <2>3, <2>5 DEF Transfer
<1>9. ASSUME NEW w \in writes, WriteDone(w) \/ WriteFailed(w) PROVE Begun'
  BY <1>9 DEF WriteDone, WriteFailed
<1>10. CASE DiscardMessage \/ AnswerRequest \/ QueueMessage
  <2>1. \A i \in DOMAIN inbound' : i + 1 \in DOMAIN inbound /\ inbound'[i] = inbound[i + 1]
    <3>1. inbound # <<>> /\ inbound \in Seq(Frames) /\ inbound' = Tail(inbound)
      BY <1>10 DEF DiscardMessage, AnswerRequest, QueueMessage, OnMessageRead, StepOK
    <3>2. inbound' = Rest(inbound)
      BY <3>1 DEF Rest
    <3> QED
      BY <3>1, <3>2, PullFacts
  <2> QED
    BY <1>10, <2>1 DEF DiscardMessage, AnswerRequest, QueueMessage, OnMessageRead
<1>11. ASSUME NEW f \in Frames, PeerSend(f) PROVE Begun'
  <2>1. f \notin fresh
    <3>1. CASE f \in Msgs
      <4>1. 1 \in 1..Parts /\ OnWire(f)
        BY <1>11, <3>1, BoundsAssumption DEF PeerSend
      <4>2. PICK i \in DOMAIN wire : wire[i] = [msg |-> f, part |-> 1]
        BY <4>1 DEF OnWire
      <4> QED
        BY <4>2
    <3> QED
      BY <3>1
  <2> QED
    BY <1>11, <2>1 DEF PeerSend
<1>12. CASE UNCHANGED vars
  BY <1>12 DEF vars
<1> QED
  BY <1>1, <1>2, <1>3, <1>4, <1>5, <1>6, <1>7, <1>8, <1>9, <1>10, <1>11, <1>12
  DEF Next, ThreadStep, WriteStep, WriteOp, ReadStep

Inv == LedgerInv /\ Begun /\ NoReplyOvertakes

LEMMA OvertakeStep ==
    LedgerInv /\ LedgerInv' /\ Begun /\ NoReplyOvertakes /\ [Next]_vars => NoReplyOvertakes'
<1> SUFFICES ASSUME LedgerInv, LedgerInv', Begun, NoReplyOvertakes, [Next]_vars
             PROVE  NoReplyOvertakes'
  OBVIOUS
<1> DEFINE Settled(r) == promise[r] \in {"value", "expired"}
<1>1. \A r \in Requests : Settled(r) => promise'[r] = promise[r]
  BY OutcomeStep
  DEF Outcome!Next, Outcome!Issue, Outcome!Answer, Outcome!Expire, LedgerInv, TypeInv, TypeOK
<1>2. CASE QueueMessage
  <2> DEFINE f == Head(inbound)
  <2>1. /\ f \in Frames /\ f \notin fresh /\ f \notin m_pending_requests
        /\ m_incoming_messages' = Append(m_incoming_messages, f)
        /\ promise' = promise
    BY <1>2 DEF QueueMessage, OnMessageRead, Awaited, ledger, LedgerInv, TypeInv, TypeOK,
                StepOK, Begun
  <2>2. f \in Requests => Settled(f)
    BY <2>1 DEF LedgerInv, TypeInv, TypeOK, PendingLedger, Issued
  <2>3. m_incoming_messages \in Seq(Frames)
    BY DEF LedgerInv, TypeInv, TypeOK
  <2>4. \A i \in DOMAIN m_incoming_messages' :
           \/ m_incoming_messages'[i] = f
           \/ i \in DOMAIN m_incoming_messages /\ m_incoming_messages'[i] = m_incoming_messages[i]
    <3> HIDE DEF f
    <3> QED
      BY <2>1, <2>3, AppendType
  <2> QED
    BY <1>1, <2>1, <2>2, <2>4 DEF NoReplyOvertakes
<1>3. ASSUME NEW t \in Threads, ReceivePull(t) PROVE NoReplyOvertakes'
  <2>1. \A i \in DOMAIN m_incoming_messages' :
           /\ i + 1 \in DOMAIN m_incoming_messages
           /\ m_incoming_messages'[i] = m_incoming_messages[i + 1]
    <3>1. m_incoming_messages \in Seq(Frames)
      BY DEF LedgerInv, TypeInv, TypeOK
    <3>2. m_incoming_messages' = Rest(m_incoming_messages)
      BY <1>3 DEF ReceivePull
    <3> QED
      BY <3>1, <3>2, PullFacts
  <2> QED
    BY <1>1, <2>1 DEF NoReplyOvertakes
<1>4. CASE UNCHANGED m_incoming_messages
  BY <1>1, <1>4 DEF NoReplyOvertakes
<1>5. \/ QueueMessage
      \/ \E t \in Threads : ReceivePull(t)
      \/ UNCHANGED m_incoming_messages
  BY DEF Next, vars, queues, Start, CreateNew, Shutdown, Send, Request, Receive, ThreadStep,
         CheckSize, Push, WriteStep, Pull, Fill, StartWrite, WriteOp, Transfer, WriteDone,
         WriteFailed, ReadStep, ReadComplete, ReadFailed, ReadMessage, DiscardMessage,
         AnswerRequest, RemoveExpiredRequests, Tick, PeerSend, PeerLost
<1> QED
  BY <1>2, <1>3, <1>4, <1>5

\* The answer to a request goes to its future: it is never left to receive()
\* while the future is unset, even if it comes before request() returns.
THEOREM NoOvertakingCorrect == Spec => []NoReplyOvertakes
<1>1. Init => Inv
  BY TypeInit, LedgerInit, BegunInit DEF Init, Inv, LedgerInv, NoReplyOvertakes
<1>2. Inv /\ [Next]_vars => Inv'
  BY TypeStep, LedgerStep, BegunStep, OvertakeStep DEF Inv, LedgerInv
<1>3. Inv => NoReplyOvertakes
  BY DEF Inv
<1> QED
  BY <1>1, <1>2, <1>3, PTL DEF Spec
=============================================================================
