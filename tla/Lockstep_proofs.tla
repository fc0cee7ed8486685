--------------------------- MODULE Lockstep_proofs ---------------------------
(***************************************************************************)
(* Theorems about a TcpTransport whose application awaits each answer      *)
(* before it sends again, from any number of threads: what is in the queue *)
(* and on the wire.  Then one message at most is on its way to the peer,   *)
(* and doSend and writeMessage work.                                       *)
(***************************************************************************)
EXTENDS TcpTransport_proofs

Answered(m) == m \in Requests /\ promise[m] = "value"

\* The application has handed m over and has no answer to it.
Open(m) == m \in Msgs \ fresh /\ ~Answered(m)

NotQueued(m) == \A i \in DOMAIN m_outgoing_messages : m_outgoing_messages[i] # m
NotWritten(m) == \A w \in writes : w.msg # m
NotOnWire(m) == \A i \in DOMAIN wire : wire[i].msg # m

OneOpen == \A m, n \in Msgs : Open(m) /\ Open(n) => m = n

\* The peer answers what it has received whole.
AnsweredOnWire ==
    /\ \A i \in DOMAIN inbound : inbound[i] \in Msgs => OnWire(inbound[i])
    /\ \A r \in Requests : promise[r] = "value" => OnWire(r)

\* A message in the hands of a thread is nowhere else.
Hands ==
    \A p \in Procs :
        /\ cur[p] \in Msgs =>
              /\ pc[p] \in {"check", "push", "fill", "start"}
              /\ \A q \in Procs : cur[q] = cur[p] => q = p
              /\ NotQueued(cur[p]) /\ NotWritten(cur[p]) /\ NotOnWire(cur[p])
        /\ pc[p] = "start" => m_outgoing_data_buffer = cur[p]

\* doSend found the queue empty.
NoneInProgress == \A t \in Threads : pc[t] = "push" => ~in_progress[t]

\* The one that is queued waits for the thread that has pushed it, or for a handler
\* that comes before it.
Queued ==
    /\ Len(m_outgoing_messages) <= 1
    /\ m_outgoing_messages # <<>> => \E t \in Threads : pc[t] = "pull"
    /\ \A i \in DOMAIN m_outgoing_messages :
          NotWritten(m_outgoing_messages[i]) /\ NotOnWire(m_outgoing_messages[i])

\* The kernel has taken the first chunks of a write, and if they are not all, the
\* buffer is still that of the write and the next chunk belongs on the wire.
Written ==
    \A w \in writes :
        /\ w.buf = w.msg
        /\ \A v \in writes : v.msg = w.msg => v = w
        /\ \A i \in DOMAIN wire : wire[i].msg = w.msg => wire[i].part <= w.sent
        /\ w.sent < Parts =>
              /\ m_outgoing_data_buffer = w.msg
              /\ w.sent = Len(wire) % Parts
              /\ w.sent > 0 => wire[Len(wire)].msg = w.msg

\* A frame that is not complete is the last one.
LastFrame ==
    Len(wire) % Parts # 0 =>
        \A i \in DOMAIN wire :
            wire[i].msg = wire[Len(wire)].msg => wire[i].part <= Len(wire) % Parts

Sending ==
    Hands /\ NoneInProgress /\ Queued /\ Written /\ LastFrame /\ IntactWire

Lockstep == OneOpen /\ AnsweredOnWire /\ Sending

LockstepInv == LedgerInv /\ Begun /\ Lockstep

-----------------------------------------------------------------------------
(* Lemmas.                                                                 *)

\* The remainder is the one below the divisor.
LEMMA Remainder ==
    ASSUME NEW k \in Nat \ {0}, NEW q \in Int, NEW r \in 0..(k - 1),
           NEW p \in Int, NEW s \in 0..(k - 1), k * q + r = k * p + s
    PROVE  r = s
<1>1. k * (q - p) = s - r
  OBVIOUS
<1>2. CASE q - p >= 1
  <2>1. k * (q - p) >= k
    BY <1>2
  <2> QED
    BY <1>1, <2>1
<1>3. CASE q - p <= -1
  <2>1. k * (q - p) <= -k
    BY <1>3
  <2> QED
    BY <1>1, <2>1
<1>4. CASE q = p
  BY <1>1, <1>4
<1> QED
  BY <1>2, <1>3, <1>4

\* The chunk behind the last of a frame is the first of the next one.
LEMMA NextPart ==
    ASSUME NEW n \in Nat, NEW k \in Nat \ {0}
    PROVE  /\ n % k \in 0..(k - 1)
           /\ n % k < k - 1 => (n + 1) % k = (n % k) + 1
           /\ n % k = k - 1 => (n + 1) % k = 0
           /\ 0 % k = 0
<1> DEFINE q == n \div k
           r == n % k
           p == (n + 1) \div k
           s == (n + 1) % k
<1>1. /\ q \in Int /\ p \in Int
      /\ n = k * q + r /\ n + 1 = k * p + s
      /\ r \in 0..(k - 1) /\ s \in 0..(k - 1)
  OBVIOUS
<1>2. 0 % k = 0
  OBVIOUS
<1> HIDE DEF q, r, p, s
<1>3. r < k - 1 => s = r + 1
  <2> SUFFICES ASSUME r < k - 1 PROVE s = r + 1
    OBVIOUS
  <2>1. r + 1 \in 0..(k - 1) /\ k * q + (r + 1) = k * p + s
    BY <1>1
  <2> QED
    BY ONLY <1>1, <2>1, Remainder, k \in Nat \ {0}
<1>4. r = k - 1 => s = 0
  <2> SUFFICES ASSUME r = k - 1 PROVE s = 0
    OBVIOUS
  <2>1. k * (q + 1) = k * q + k
    BY <1>1
  <2>2. 0 \in 0..(k - 1) /\ q + 1 \in Int /\ k * (q + 1) + 0 = k * p + s
    BY <1>1, <2>1
  <2> QED
    BY <1>1, <2>2, Remainder
<1> QED
  BY <1>1, <1>2, <1>3, <1>4 DEF r, s

\* How many chunks of the last frame are on the wire; 0 if it is complete.
LEMMA WirePart ==
    ASSUME TypeInv
    PROVE  /\ Parts \in Nat \ {0}
           /\ Len(wire) \in Nat
           /\ Len(wire) % Parts \in 0..(Parts - 1)
           /\ Len(wire) % Parts < Parts
           /\ Len(wire) % Parts # 0 => Len(wire) \in DOMAIN wire
<1>1. wire \in Seq(Chunks) /\ Len(wire) \in Nat /\ Parts \in Nat \ {0}
  BY BoundsAssumption DEF TypeInv, TypeOK
<1>2. Len(wire) % Parts \in 0..(Parts - 1) /\ 0 % Parts = 0
  BY <1>1, NextPart
<1>3. Len(wire) % Parts < Parts
  BY <1>1, <1>2
<1>4. Len(wire) % Parts # 0 => Len(wire) # 0
  BY <1>2
<1>5. Len(wire) # 0 => Len(wire) \in DOMAIN wire
  BY <1>1
<1> QED
  BY <1>1, <1>2, <1>3, <1>4, <1>5

\* A message the application still waits for is not in two places: the code has no
\* such check, OneOpen alone keeps the second one away.
LEMMA Exclusive ==
    ASSUME TypeInv, Begun, Lockstep
    PROVE  /\ \A p, q \in Procs : cur[p] \in Msgs /\ cur[q] \in Msgs => p = q
           /\ \A p \in Procs :
                 cur[p] \in Msgs =>
                    /\ m_outgoing_messages = <<>>
                    /\ \A w \in writes : w.sent = Parts
                    /\ Len(wire) % Parts = 0
           /\ \A w \in writes :
                 w.sent < Parts =>
                    /\ m_outgoing_messages = <<>>
                    /\ \A v \in writes : v.sent < Parts => v = w
<1> USE DEF TypeInv, TypeOK, Lockstep, Sending
<1>0. 1 \in 1..Parts /\ Parts \in 1..Parts
  BY BoundsAssumption
<1>1. \A p \in Procs : cur[p] \in Msgs => Open(cur[p])
  <2> SUFFICES ASSUME NEW p \in Procs, cur[p] \in Msgs PROVE Open(cur[p])
    OBVIOUS
  <2>1. cur[p] \notin fresh /\ ~OnWire(cur[p])
    BY <1>0 DEF Begun, Hands, NotOnWire, OnWire
  <2> QED
    BY <2>1 DEF Open, Answered, AnsweredOnWire
<1>2. \A i \in DOMAIN m_outgoing_messages : Open(m_outgoing_messages[i])
  <2> SUFFICES ASSUME NEW i \in DOMAIN m_outgoing_messages PROVE Open(m_outgoing_messages[i])
    OBVIOUS
  <2> DEFINE m == m_outgoing_messages[i]
  <2>1. m \in Msgs \ fresh
    BY DEF Begun
  <2>2. ~OnWire(m)
    BY <1>0 DEF Queued, NotOnWire, OnWire
  <2> QED
    BY <2>1, <2>2 DEF Open, Answered, AnsweredOnWire
<1>3. \A w \in writes : w.sent < Parts => Open(w.msg)
  <2> SUFFICES ASSUME NEW w \in writes, w.sent < Parts PROVE Open(w.msg)
    OBVIOUS
  <2>1. w.msg \in Msgs \ fresh /\ w.sent \in 0..Parts
    BY DEF Begun, Written, Writes
  <2>2. ~OnWire(w.msg)
    <3>1. ASSUME NEW i \in DOMAIN wire, wire[i] = [msg |-> w.msg, part |-> Parts] PROVE FALSE
      <4>1. wire[i].msg = w.msg /\ wire[i].part = Parts
        BY <3>1
      <4> QED
        BY <2>1, <4>1, BoundsAssumption DEF Written
    <3> QED
      BY <1>0, <3>1 DEF OnWire
  <2> QED
    BY <2>1, <2>2 DEF Open, Answered, AnsweredOnWire
<1>4. Len(wire) % Parts # 0 => Open(wire[Len(wire)].msg)
  <2> SUFFICES ASSUME Len(wire) % Parts # 0 PROVE Open(wire[Len(wire)].msg)
    OBVIOUS
  <2>1. Len(wire) \in DOMAIN wire /\ Len(wire) % Parts < Parts
    BY WirePart
  <2>2. wire[Len(wire)] \in Chunks
    BY <2>1
  <2>3. wire[Len(wire)].msg \in Msgs \ fresh
    BY <2>1, <2>2 DEF Chunks, Begun, IntactWire
  <2>4. ~OnWire(wire[Len(wire)].msg)
    <3>1. ASSUME NEW i \in DOMAIN wire,
                 wire[i] = [msg |-> wire[Len(wire)].msg, part |-> Parts]
          PROVE  FALSE
      <4>1. wire[i].msg = wire[Len(wire)].msg /\ wire[i].part = Parts
        BY <3>1
      <4> QED
        BY <2>1, <4>1, WirePart DEF LastFrame
    <3> QED
      BY <1>0, <3>1 DEF OnWire
  <2> QED
    BY <2>3, <2>4 DEF Open, Answered, AnsweredOnWire
<1>5. \A p, q \in Procs : cur[p] \in Msgs /\ cur[q] \in Msgs => p = q
  BY <1>1 DEF OneOpen, Hands
<1>6. \A p \in Procs : cur[p] \in Msgs => m_outgoing_messages = <<>>
  <2> SUFFICES ASSUME NEW p \in Procs, cur[p] \in Msgs, m_outgoing_messages # <<>> PROVE FALSE
    OBVIOUS
  <2>1. 1 \in DOMAIN m_outgoing_messages /\ m_outgoing_messages[1] \in Msgs
    OBVIOUS
  <2> QED
    BY <1>1, <1>2, <2>1 DEF OneOpen, Hands, NotQueued
<1>7. \A p \in Procs : cur[p] \in Msgs => \A w \in writes : w.sent = Parts
  <2> SUFFICES ASSUME NEW p \in Procs, cur[p] \in Msgs, NEW w \in writes, w.sent # Parts
               PROVE  FALSE
    OBVIOUS
  <2>1. w.msg \in Msgs /\ w.sent < Parts
    BY BoundsAssumption DEF Writes
  <2> QED
    BY <1>1, <1>3, <2>1 DEF OneOpen, Hands, NotWritten
<1>8. \A p \in Procs : cur[p] \in Msgs => Len(wire) % Parts = 0
  <2> SUFFICES ASSUME NEW p \in Procs, cur[p] \in Msgs, Len(wire) % Parts # 0 PROVE FALSE
    OBVIOUS
  <2>1. Len(wire) \in DOMAIN wire
    BY WirePart
  <2> QED
    BY <1>1, <1>4, <2>1 DEF OneOpen, Open, Hands, NotOnWire
<1>9. \A w \in writes : w.sent < Parts => m_outgoing_messages = <<>>
  <2> SUFFICES ASSUME NEW w \in writes, w.sent < Parts, m_outgoing_messages # <<>> PROVE FALSE
    OBVIOUS
  <2>1. 1 \in DOMAIN m_outgoing_messages /\ m_outgoing_messages[1] \in Msgs /\ w.msg \in Msgs
    BY DEF Writes
  <2> QED
    BY <1>2, <1>3, <2>1 DEF OneOpen, Queued, NotWritten
<1>10. \A v, w \in writes : v.sent < Parts /\ w.sent < Parts => v = w
  <2>1. \A w \in writes : w.msg \in Msgs
    BY DEF Writes
  <2>2. \A v, w \in writes : v.sent < Parts /\ w.sent < Parts => v.msg = w.msg
    BY <1>3, <2>1 DEF OneOpen
  <2>3. \A v, w \in writes : v.msg = w.msg => v = w
    BY DEF Written
  <2> QED
    BY ONLY <2>2, <2>3
<1> QED
  BY <1>5, <1>6, <1>7, <1>8, <1>9, <1>10

\* The steps that touch nothing the parts of Sending speak of.
Core == <<pc, cur, in_progress, m_outgoing_messages, m_outgoing_data_buffer, writes, wire>>

LEMMA OtherCore == Sending /\ UNCHANGED Core => Sending'
  BY DEF Core, Sending, Hands, NoneInProgress, Queued, Written, LastFrame, IntactWire,
         NotQueued, NotWritten, NotOnWire

\* What the peer has received stays received, what is answered stays answered.
LEMMA Monotone ==
    ASSUME LedgerInv, [Next]_vars
    PROVE  /\ \A m \in Msgs : OnWire(m) => OnWire(m)'
           /\ \A m \in Msgs : Answered(m) => Answered(m)'
<1>1. \A m \in Msgs : Answered(m) => Answered(m)'
  BY OutcomeStep
  DEF Answered, Outcome!Next, Outcome!Issue, Outcome!Answer, Outcome!Expire, LedgerInv,
      TypeInv, TypeOK
<1>2. ASSUME NEW w \in writes, Transfer(w)
      PROVE  \A i \in DOMAIN wire : i \in DOMAIN wire' /\ wire'[i] = wire[i]
  <2>1. wire \in Seq(Chunks) /\ \E c : wire' = Append(wire, c)
    BY <1>2 DEF Transfer, LedgerInv, TypeInv, TypeOK
  <2> QED
    BY <2>1
<1>3. UNCHANGED wire => \A i \in DOMAIN wire : i \in DOMAIN wire' /\ wire'[i] = wire[i]
  OBVIOUS
<1>4. UNCHANGED wire \/ \E w \in writes : Transfer(w)
  BY DEF Next, vars, outside, Start, CreateNew, Shutdown, Send, Request, Receive, ThreadStep,
         CheckSize, Push, ReceivePull, WriteStep, Pull, Fill, StartWrite, WriteOp, WriteDone,
         WriteFailed, ReadStep, ReadComplete, ReadFailed, ReadMessage, DiscardMessage,
         AnswerRequest, QueueMessage, OnMessageRead, RemoveExpiredRequests, Tick, PeerSend,
         PeerLost
<1>5. \A m \in Msgs : OnWire(m) => OnWire(m)'
  BY <1>2, <1>3, <1>4 DEF OnWire
<1> QED
  BY <1>1, <1>5

\* A thread begins to send when every earlier message is answered.
LEMMA OneOpenStep ==
    Pipelined = FALSE /\ LedgerInv /\ OneOpen /\ [Next]_vars => OneOpen'
<1> SUFFICES ASSUME Pipelined = FALSE, LedgerInv, OneOpen, [Next]_vars PROVE OneOpen'
  OBVIOUS
<1>1. ASSUME NEW t \in Threads, NEW n \in Msgs, Send(t, n) \/ Request(t, n) PROVE OneOpen'
  <2>1. /\ fresh' = fresh \ {n}
        /\ \A m \in Msgs \ fresh : Answered(m)
    BY <1>1 DEF Send, Request, Begin, MaySend, Answered
  <2>2. \A m \in Msgs : Open(m)' => m = n
    BY <2>1, Monotone DEF Open
  <2> QED
    BY <2>2 DEF OneOpen
<1>2. CASE UNCHANGED fresh
  <2>1. \A m \in Msgs : Open(m)' => Open(m)
    BY <1>2, Monotone DEF Open
  <2> QED
    BY <2>1 DEF OneOpen
<1>3. \/ UNCHANGED fresh
      \/ \E t \in Threads, n \in Msgs : Send(t, n) \/ Request(t, n)
  BY DEF Next, vars, Start, CreateNew, Shutdown, Receive, ThreadStep,
         CheckSize, Push, ReceivePull, WriteStep, Pull, Fill, StartWrite, WriteOp, Transfer,
         WriteDone, WriteFailed, ReadStep, ReadComplete, ReadFailed, ReadMessage,
         DiscardMessage, AnswerRequest, QueueMessage, OnMessageRead, RemoveExpiredRequests,
         Tick, PeerSend, PeerLost
<1> QED
  BY <1>1, <1>2, <1>3

LEMMA AnsweredStep == LedgerInv /\ AnsweredOnWire /\ [Next]_vars => AnsweredOnWire'
<1> SUFFICES ASSUME LedgerInv, AnsweredOnWire, [Next]_vars PROVE AnsweredOnWire'
  OBVIOUS
<1> USE MsgsAssumption DEF LedgerInv, TypeInv, TypeOK
<1>1. ASSUME NEW f \in Frames, PeerSend(f) PROVE AnsweredOnWire'
  <2>1. f \in Msgs => OnWire(f)'
    BY <1>1, Monotone DEF PeerSend
  <2>2. \A i \in DOMAIN inbound' :
           inbound'[i] = f \/ (i \in DOMAIN inbound /\ inbound'[i] = inbound[i])
    <3>1. inbound \in Seq(Frames) /\ inbound' = Append(inbound, f)
      BY <1>1 DEF PeerSend
    <3> QED
      BY <3>1, AppendType
  <2>3. promise' = promise
    BY <1>1 DEF PeerSend, ledger
  <2> QED
    BY <2>1, <2>2, <2>3, Monotone DEF AnsweredOnWire
<1>2. CASE OnMessageRead /\ (promise' = promise \/ AnswerRequest)
  <2>1. inbound # <<>> /\ inbound \in Seq(Frames) /\ inbound' = Tail(inbound)
    BY <1>2 DEF OnMessageRead, StepOK
  <2>2. \A i \in DOMAIN inbound' : i + 1 \in DOMAIN inbound /\ inbound'[i] = inbound[i + 1]
    <3>1. inbound' = Rest(inbound)
      BY <2>1 DEF Rest
    <3> QED
      BY <2>1, <3>1, PullFacts
  <2>3. Head(inbound) \in Msgs => OnWire(Head(inbound))
    <3>1. 1 \in DOMAIN inbound /\ Head(inbound) = inbound[1]
      BY <2>1
    <3> QED
      BY <3>1 DEF AnsweredOnWire
  <2>4. \A r \in Requests : promise'[r] = "value" => promise[r] = "value" \/ r = Head(inbound)
    BY <1>2 DEF AnswerRequest
  <2> QED
    BY <2>2, <2>3, <2>4, Monotone DEF AnsweredOnWire
<1>3. CASE /\ UNCHANGED inbound
           /\ \A r \in Requests : promise'[r] = "value" => promise[r] = "value"
  BY <1>3, Monotone DEF AnsweredOnWire
<1>4. ASSUME NEW t \in Threads, NEW m \in Msgs, Send(t, m) \/ Request(t, m)
      PROVE  /\ UNCHANGED inbound
             /\ \A r \in Requests : promise'[r] = "value" => promise[r] = "value"
  BY <1>4 DEF Send, Request, Register, ledger, outside
<1>5. CASE RemoveExpiredRequests
  <2>1. /\ UNCHANGED inbound
        /\ \A r \in Requests : promise'[r] = "value" => promise[r] = "value"
    BY <1>5 DEF RemoveExpiredRequests, outside
  <2> QED
    BY <1>3, <2>1
<1>6. \/ \E f \in Frames : PeerSend(f)
      \/ OnMessageRead /\ (promise' = promise \/ AnswerRequest)
      \/ UNCHANGED <<inbound, promise>>
      \/ \E t \in Threads, n \in Msgs : Send(t, n) \/ Request(t, n)
      \/ RemoveExpiredRequests
  BY DEF Next, vars, outside, ledger, Start, CreateNew, Shutdown, Receive, ThreadStep,
         CheckSize, Push, ReceivePull, WriteStep, Pull, Fill, StartWrite, WriteOp, Transfer,
         WriteDone, WriteFailed, ReadStep, ReadComplete, ReadFailed, ReadMessage,
         DiscardMessage, AnswerRequest, QueueMessage, Tick, PeerLost
<1> QED
  BY <1>1, <1>2, <1>3, <1>4, <1>5, <1>6

-----------------------------------------------------------------------------
(***************************************************************************)
(* The steps that send, one lemma each.                                    *)
(***************************************************************************)
LEMMA BeginSends ==
    ASSUME TypeInv, TypeInv', Begun, Lockstep,
           NEW t \in Threads, NEW m \in Msgs, Send(t, m) \/ Request(t, m)
    PROVE  Sending'
<1> USE DEF TypeInv, TypeOK, Procs
<1>1. /\ pc[t] = "idle" /\ m \in fresh
      /\ pc' = [pc EXCEPT ![t] = "check"] /\ cur' = [cur EXCEPT ![t] = m]
      /\ UNCHANGED <<in_progress, m_outgoing_messages, m_outgoing_data_buffer, writes, wire>>
  BY DEF Send, Request, Begin, queues, outside
<1>2. Sending
  BY DEF Lockstep
<1>3. NotQueued(m) /\ NotWritten(m) /\ NotOnWire(m) /\ \A q \in Procs : cur[q] # m
  <2>1. NotQueued(m) /\ NotOnWire(m) /\ \A q \in Procs : cur[q] # m
    BY <1>1 DEF Begun, NotQueued, NotOnWire
  <2>2. NotWritten(m)
    <3>1. \A w \in writes : w.buf \notin fresh /\ w.buf = w.msg
      BY <1>2 DEF Begun, Sending, Written
    <3> QED
      BY ONLY <1>1, <3>1 DEF NotWritten
  <2> QED
    BY <2>1, <2>2
<1>4. \A n \in Msgs : /\ NotQueued(n) => NotQueued(n)'
                      /\ NotWritten(n) => NotWritten(n)'
                      /\ NotOnWire(n) => NotOnWire(n)'
  BY <1>1 DEF NotQueued, NotWritten, NotOnWire
<1>5. Hands'
  <2> SUFFICES ASSUME NEW p \in Procs
               PROVE  /\ cur'[p] \in Msgs =>
                            /\ pc'[p] \in {"check", "push", "fill", "start"}
                            /\ \A q \in Procs : cur'[q] = cur'[p] => q = p
                            /\ NotQueued(cur[p])' /\ NotWritten(cur[p])' /\ NotOnWire(cur[p])'
                      /\ pc'[p] = "start" => m_outgoing_data_buffer' = cur'[p]
    BY DEF Hands
  <2>1. CASE p = t
    BY <1>1, <1>3, <1>4, <2>1
  <2>2. CASE p # t
    <3>1. pc'[p] = pc[p] /\ cur'[p] = cur[p]
      BY <1>1, <2>2
    <3> QED
      BY <1>1, <1>2, <1>3, <1>4, <2>2, <3>1 DEF Sending, Hands
  <2> QED
    BY <2>1, <2>2
<1>6. NoneInProgress' /\ Queued'
  BY <1>1, <1>2 DEF Sending, NoneInProgress, Queued, NotWritten, NotOnWire
<1>7. Written' /\ LastFrame' /\ IntactWire'
  BY <1>1, <1>2 DEF Sending, Written, LastFrame, IntactWire
<1> QED
  BY <1>5, <1>6, <1>7 DEF Sending

\* The queue is empty when the thread that sends looks at its size.
LEMMA CheckSends ==
    ASSUME TypeInv, TypeInv', Begun, Lockstep, NEW t \in Threads, CheckSize(t)
    PROVE  Sending'
<1> USE DEF TypeInv, TypeOK, Procs
<1>1. /\ pc[t] = "check" /\ cur[t] \in Msgs
      /\ pc' = [pc EXCEPT ![t] = "push"]
      /\ in_progress' = [in_progress EXCEPT ![t] = WritePending]
      /\ UNCHANGED <<cur, m_outgoing_messages, m_outgoing_data_buffer, writes, wire>>
  BY DEF CheckSize, queues, outside, StepOK
<1>2. Sending
  BY DEF Lockstep
<1>3. ~WritePending
  <2>1. m_outgoing_messages = <<>>
    BY <1>1, Exclusive
  <2> QED
    BY <2>1 DEF WritePending
<1>4. Hands'
  BY <1>1, <1>2 DEF Sending, Hands, NotQueued, NotWritten, NotOnWire
<1>5. NoneInProgress' /\ Queued'
  BY <1>1, <1>2, <1>3 DEF Sending, NoneInProgress, Queued, NotWritten, NotOnWire
<1>6. Written' /\ LastFrame' /\ IntactWire'
  BY <1>1, <1>2 DEF Sending, Written, LastFrame, IntactWire
<1> QED
  BY <1>4, <1>5, <1>6 DEF Sending

LEMMA ReceiveSends ==
    ASSUME TypeInv, Lockstep, NEW t \in Threads, Receive(t) \/ ReceivePull(t)
    PROVE  Sending'
<1> USE DEF TypeInv, TypeOK, Procs
<1>1. /\ pc[t] \in {"idle", "receive"}
      /\ pc' = [pc EXCEPT ![t] = "idle"] \/ pc' = [pc EXCEPT ![t] = "receive"]
      /\ UNCHANGED <<in_progress, cur, m_outgoing_messages, m_outgoing_data_buffer, writes,
                     wire>>
  BY DEF Receive, ReceivePull, queues, outside
<1>2. Sending
  BY DEF Lockstep
<1>3. Hands'
  BY <1>1, <1>2 DEF Sending, Hands, NotQueued, NotWritten, NotOnWire
<1>4. NoneInProgress' /\ Queued'
  BY <1>1, <1>2 DEF Sending, NoneInProgress, Queued, NotWritten, NotOnWire
<1>5. Written' /\ LastFrame' /\ IntactWire'
  BY <1>1, <1>2 DEF Sending, Written, LastFrame, IntactWire
<1> QED
  BY <1>3, <1>4, <1>5 DEF Sending

\* It pushes to an empty queue, and goes on to pull.
LEMMA PushSends ==
    ASSUME TypeInv, Begun, Lockstep, NEW t \in Threads, Push(t)
    PROVE  Sending'
<1> USE DEF TypeInv, TypeOK, Procs
<1> PICK m \in Msgs : m = cur[t]
  BY DEF Push, StepOK
<1>1. pc[t] = "push" /\ cur[t] = m
  BY DEF Push
<1>2. Sending
  BY DEF Lockstep
<1>3. ~in_progress[t]
  BY <1>1, <1>2 DEF Sending, NoneInProgress
<1>4. /\ m_outgoing_messages' = Append(m_outgoing_messages, m)
      /\ pc' = [pc EXCEPT ![t] = "pull"] /\ cur' = [cur EXCEPT ![t] = None]
      /\ UNCHANGED <<in_progress, m_outgoing_data_buffer, writes, wire>>
  BY <1>3 DEF Push, outside
<1>5. m_outgoing_messages' = <<m>>
  <2>1. m_outgoing_messages = <<>>
    BY <1>1, Exclusive
  <2> QED
    BY <1>4, <2>1
<1>6. \A p \in Procs : cur'[p] \notin Msgs
  BY <1>1, <1>4, Exclusive, MsgsAssumption
<1>7. Hands'
  <2>1. \A p \in Procs : pc'[p] = "start" => pc[p] = "start" /\ cur'[p] = cur[p]
    BY <1>1, <1>4
  <2> QED
    BY <1>2, <1>4, <1>6, <2>1 DEF Sending, Hands
<1>8. NoneInProgress'
  BY <1>2, <1>4 DEF Sending, NoneInProgress
<1>9. Queued'
  <2>1. NotWritten(m) /\ NotOnWire(m)
    BY <1>1, <1>2 DEF Sending, Hands
  <2>2. Len(<<m>>) = 1 /\ DOMAIN <<m>> = {1} /\ <<m>>[1] = m
    OBVIOUS
  <2>3. NotWritten(m)' /\ NotOnWire(m)'
    BY <1>4, <2>1 DEF NotWritten, NotOnWire
  <2>4. pc'[t] = "pull"
    BY <1>4
  <2> QED
    BY <1>4, <1>5, <2>1, <2>2, <2>3, <2>4 DEF Queued, NotWritten, NotOnWire
<1>10. Written' /\ LastFrame' /\ IntactWire'
  BY <1>2, <1>4 DEF Sending, Written, LastFrame, IntactWire
<1> QED
  BY <1>7, <1>8, <1>9, <1>10 DEF Sending

\* Whoever pulls takes the one message of the queue, if there is one.
LEMMA PullSends ==
    ASSUME TypeInv, Begun, Lockstep, NEW p \in Procs, Pull(p)
    PROVE  Sending'
<1> USE DEF TypeInv, TypeOK, Procs
<1>1. Sending
  BY DEF Lockstep
<1>2. /\ pc[p] = "pull" /\ cur[p] \notin Msgs
      /\ UNCHANGED <<in_progress, m_outgoing_data_buffer, writes, wire>>
  BY <1>1 DEF Pull, Sending, Hands, outside
<1>3. m_outgoing_messages' = <<>>
  <2>1. m_outgoing_messages' = Rest(m_outgoing_messages) /\ Len(m_outgoing_messages) <= 1
    BY <1>1 DEF Pull, Sending, Queued
  <2> QED
    BY <2>1 DEF Rest
<1>4. CASE NothingPulled
  <2>1. pc' = [pc EXCEPT ![p] = "idle"] /\ cur' = [cur EXCEPT ![p] = None]
    BY <1>4 DEF Pull, Return
  <2>2. Hands'
    BY <1>1, <1>2, <1>3, <2>1, MsgsAssumption
    DEF Sending, Hands, NotQueued, NotWritten, NotOnWire
  <2>3. NoneInProgress' /\ Queued'
    BY <1>1, <1>2, <1>3, <2>1 DEF Sending, NoneInProgress, Queued
  <2>4. Written' /\ LastFrame' /\ IntactWire'
    BY <1>1, <1>2 DEF Sending, Written, LastFrame, IntactWire
  <2> QED
    BY <2>2, <2>3, <2>4 DEF Sending
<1>5. CASE ~NothingPulled
  <2>0. /\ 1 \in DOMAIN m_outgoing_messages /\ m_outgoing_messages # <<>>
        /\ m_outgoing_messages[1] \in Msgs
    BY <1>5, PullFacts DEF NothingPulled
  <2> PICK m \in Msgs : m = m_outgoing_messages[1]
    BY <2>0
  <2>1. /\ 1 \in DOMAIN m_outgoing_messages /\ m_outgoing_messages # <<>>
        /\ pc' = [pc EXCEPT ![p] = "fill"] /\ cur' = [cur EXCEPT ![p] = m]
    BY <1>5, <2>0, PullFacts DEF Pull
  <2>2. \A q \in Procs : cur[q] \notin Msgs
    BY <2>1, Exclusive
  <2>3. NotWritten(m) /\ NotOnWire(m)
    BY <1>1, <2>1 DEF Sending, Queued
  <2>4. Hands'
    <3>1. \A n : NotQueued(n)'
      BY <1>3 DEF NotQueued
    <3>2. NotWritten(m)' /\ NotOnWire(m)'
      BY <1>2, <2>3 DEF NotWritten, NotOnWire
    <3>3. ASSUME NEW q \in Procs, cur'[q] \in Msgs
          PROVE  /\ q = p /\ cur'[q] = m /\ pc'[q] = "fill"
                 /\ \A r \in Procs : cur'[r] = cur'[q] => r = q
      BY <2>1, <2>2, <3>3
    <3>4. \A q \in Procs : pc'[q] = "start" => q # p /\ pc[q] = "start" /\ cur'[q] = cur[q]
      BY <2>1
    <3>5. ASSUME NEW q \in Procs, cur'[q] \in Msgs
          PROVE  NotQueued(cur[q])' /\ NotWritten(cur[q])' /\ NotOnWire(cur[q])'
      BY <3>1, <3>2, <3>3, <3>5 DEF NotQueued, NotWritten, NotOnWire
    <3> QED
      BY <1>1, <1>2, <3>3, <3>4, <3>5 DEF Sending, Hands
  <2>5. NoneInProgress' /\ Queued'
    BY <1>1, <1>2, <1>3, <2>1 DEF Sending, NoneInProgress, Queued
  <2>6. Written' /\ LastFrame' /\ IntactWire'
    BY <1>1, <1>2 DEF Sending, Written, LastFrame, IntactWire
  <2> QED
    BY <2>4, <2>5, <2>6 DEF Sending
<1> QED
  BY <1>4, <1>5

\* No other thread fills the buffer and no write reads it.
LEMMA FillSends ==
    ASSUME TypeInv, Begun, Lockstep, NEW p \in Procs, Fill(p)
    PROVE  Sending'
<1> USE DEF TypeInv, TypeOK, Procs
<1>1. Sending
  BY DEF Lockstep
<1>2. cur[p] \in Msgs /\ \A q \in Procs : cur[q] \in Msgs => q = p
  BY Exclusive DEF Fill, StepOK
<1>3. Race(p) = {}
  BY <1>2 DEF Race, Racing, StepOK
<1>4. /\ pc[p] = "fill" /\ pc' = [pc EXCEPT ![p] = "start"]
      /\ m_outgoing_data_buffer' = cur[p]
      /\ UNCHANGED <<cur, in_progress, m_outgoing_messages, writes, wire>>
  BY <1>3 DEF Fill, queues, outside
<1>5. \A q \in Procs : pc'[q] = "start" => q = p
  BY <1>2, <1>4 DEF StepOK
<1>6. Hands'
  BY <1>1, <1>4, <1>5 DEF Sending, Hands, NotQueued, NotWritten, NotOnWire
<1>7. NoneInProgress' /\ Queued'
  BY <1>1, <1>4 DEF Sending, NoneInProgress, Queued, NotWritten, NotOnWire
<1>8. Written'
  <2>1. \A w \in writes : ~(w.sent < Parts)
    BY <1>2, Exclusive, BoundsAssumption
  <2> QED
    BY <1>1, <1>4, <2>1 DEF Sending, Written
<1>9. LastFrame' /\ IntactWire'
  BY <1>1, <1>4 DEF Sending, LastFrame, IntactWire
<1> QED
  BY <1>6, <1>7, <1>8, <1>9 DEF Sending

\* A write starts between two frames.
LEMMA StartWriteSends ==
    ASSUME TypeInv, Begun, Lockstep, NEW p \in Procs, StartWrite(p)
    PROVE  Sending'
<1> USE DEF TypeInv, TypeOK, Procs
<1> PICK m \in Msgs : m = cur[p]
  BY DEF StartWrite, StepOK
<1> DEFINE w0 == [msg |-> m, buf |-> m, sent |-> 0]
<1>1. Sending
  BY DEF Lockstep
<1>2. /\ \A q \in Procs : cur[q] \in Msgs => q = p
      /\ m_outgoing_messages = <<>>
      /\ \A w \in writes : w.sent = Parts
      /\ Len(wire) % Parts = 0
  BY Exclusive
<1>3. Race(p) = {}
  BY <1>2 DEF Race, Racing, StepOK
<1>4. pc[p] = "start" /\ m_outgoing_data_buffer = m /\ NotWritten(m) /\ NotOnWire(m)
  BY <1>1 DEF StartWrite, Sending, Hands
<1>5. /\ pc' = [pc EXCEPT ![p] = "idle"] /\ cur' = [cur EXCEPT ![p] = None]
      /\ writes' = writes \cup {w0}
      /\ UNCHANGED <<in_progress, m_outgoing_messages, m_outgoing_data_buffer, wire>>
  BY <1>3, <1>4 DEF StartWrite, Return, queues, outside
<1>6. Hands'
  <2>1. \A q \in Procs : cur'[q] \notin Msgs /\ pc'[q] # "start"
    BY <1>2, <1>5, MsgsAssumption DEF StepOK
  <2> QED
    BY <2>1 DEF Hands
<1>7. NoneInProgress' /\ Queued'
  BY <1>1, <1>2, <1>5 DEF Sending, NoneInProgress, Queued
<1>8. Written'
  <2>1. \A w \in writes : w.msg # m
    BY <1>4 DEF NotWritten
  <2>2. w0.msg = m /\ w0.buf = m /\ w0.sent = 0
    OBVIOUS
  <2> HIDE DEF w0
  <2>3. \A w \in writes : /\ w.buf = w.msg
                          /\ \A v \in writes' : v.msg = w.msg => v = w
                          /\ \A i \in DOMAIN wire :
                                wire[i].msg = w.msg => wire[i].part <= w.sent
                          /\ ~(w.sent < Parts)
    BY <1>1, <1>2, <1>5, <2>1, <2>2, BoundsAssumption DEF Sending, Written
  <2>4. /\ \A v \in writes' : v.msg = m => v = w0
        /\ \A i \in DOMAIN wire : wire[i].msg # m
    BY <1>4, <1>5, <2>1 DEF NotOnWire
  <2> QED
    BY <1>2, <1>4, <1>5, <2>2, <2>3, <2>4 DEF Written
<1>9. LastFrame' /\ IntactWire'
  BY <1>1, <1>5 DEF Sending, LastFrame, IntactWire
<1> QED
  BY <1>6, <1>7, <1>8, <1>9 DEF Sending

\* The only write that is not complete puts the next chunk of its frame on the wire.
LEMMA TransferSends ==
    ASSUME TypeInv, Begun, Lockstep, NEW w \in writes, Transfer(w)
    PROVE  Sending'
<1> USE DEF TypeInv, TypeOK, Procs
<1> DEFINE m == w.msg
           k == w.sent
           n == Len(wire)
           w1 == [w EXCEPT !.sent = k + 1]
           c == [msg |-> m, part |-> k + 1]
<1>1. Sending
  BY DEF Lockstep
<1>2. m \in Msgs /\ k \in 0..(Parts - 1) /\ w.buf = m /\ m_outgoing_data_buffer = m
  <2>1. w \in Writes /\ k < Parts
    BY DEF Transfer
  <2> QED
    BY <1>1, <2>1, BoundsAssumption DEF Writes, Sending, Written
<1>3. /\ writes' = (writes \ {w}) \cup {w1}
      /\ wire' = Append(wire, c)
      /\ UNCHANGED <<pc, cur, in_progress, m_outgoing_messages, m_outgoing_data_buffer>>
  BY <1>2 DEF Transfer, Content, threads, queues
<1>4. /\ w1.msg = m /\ w1.buf = m /\ w1.sent = k + 1
      /\ c.msg = m /\ c.part = k + 1
  BY <1>2 DEF Writes
<1>5. /\ m_outgoing_messages = <<>>
      /\ \A v \in writes : v # w => ~(v.sent < Parts) /\ v.msg # m
      /\ \A p \in Procs : cur[p] \notin Msgs
  <2>1. w.sent < Parts /\ Parts \in Nat
    BY BoundsAssumption DEF Transfer
  <2>2. \A v \in writes : v.msg = m => v = w
    BY <1>1 DEF Sending, Written
  <2>3. \A p \in Procs : cur[p] \notin Msgs
    BY <2>1, Exclusive
  <2> QED
    BY <2>1, <2>2, <2>3, Exclusive
<1>6. /\ n \in Nat /\ k = n % Parts
      /\ k > 0 => n \in DOMAIN wire /\ wire[n].msg = m
      /\ \A i \in DOMAIN wire : wire[i].msg = m => wire[i].part <= k
  <2>1. k < Parts /\ n % Parts \in 0..(Parts - 1)
    BY WirePart DEF Transfer
  <2>2. k = n % Parts /\ (k > 0 => wire[n].msg = m)
        /\ \A i \in DOMAIN wire : wire[i].msg = m => wire[i].part <= k
    BY <1>1, <2>1 DEF Sending, Written
  <2> QED
    BY <1>2, <2>1, <2>2, WirePart
<1>7. /\ Len(wire') = n + 1 /\ DOMAIN wire' = 1..(n + 1) /\ DOMAIN wire = 1..n
      /\ \A i \in DOMAIN wire : i \in DOMAIN wire' /\ wire'[i] = wire[i]
      /\ wire'[n + 1] = c
      /\ \A i \in DOMAIN wire' : i \in DOMAIN wire \/ i = n + 1
  <2> HIDE DEF c
  <2>1. wire \in Seq(Chunks)
    OBVIOUS
  <2> QED
    BY <1>3, <2>1
<1> HIDE DEF m, k, n, w1, c
<1>8. /\ k < Parts - 1 => (n + 1) % Parts = k + 1
      /\ k = Parts - 1 => (n + 1) % Parts = 0
  BY <1>6, NextPart, BoundsAssumption
<1>9. Hands'
  BY <1>1, <1>3, <1>5 DEF Sending, Hands
<1>10. NoneInProgress' /\ Queued'
  BY <1>1, <1>3, <1>5 DEF Sending, NoneInProgress, Queued
<1>11. \A i \in DOMAIN wire' : wire'[i].msg = m => wire'[i].part <= k + 1
  <2>1. c.part <= k + 1
    BY <1>2, <1>4
  <2>2. \A i \in DOMAIN wire : wire[i].msg = m => wire[i].part <= k + 1
    <3>1. \A i \in DOMAIN wire : wire[i].part \in 1..Parts
      <4>1. \A i \in DOMAIN wire : wire[i] \in Chunks
        OBVIOUS
      <4> QED
        BY ONLY <4>1 DEF Chunks
    <3> QED
      BY ONLY <1>2, <1>6, <3>1, BoundsAssumption
  <2> QED
    BY ONLY <1>7, <2>1, <2>2
<1>12. Written'
  <2>1. ASSUME NEW v \in writes'
        PROVE  /\ v.buf = v.msg
               /\ \A u \in writes' : u.msg = v.msg => u = v
               /\ \A i \in DOMAIN wire' : wire'[i].msg = v.msg => wire'[i].part <= v.sent
               /\ v.sent < Parts =>
                     /\ m_outgoing_data_buffer' = v.msg
                     /\ v.sent = Len(wire') % Parts
                     /\ v.sent > 0 => wire'[Len(wire')].msg = v.msg
    <3>1. CASE v = w1
      <4>1. \A u \in writes' : u.msg = m => u = w1
        BY <1>3, <1>5
      <4>2. k + 1 < Parts => k + 1 = Len(wire') % Parts
        BY <1>2, <1>7, <1>8, BoundsAssumption
      <4> QED
        BY <1>2, <1>3, <1>4, <1>7, <1>11, <3>1, <4>1, <4>2
    <3>2. CASE v # w1
      <4>1. v \in writes /\ v # w /\ v.msg # m /\ ~(v.sent < Parts)
        BY <1>3, <1>5, <3>2
      <4>2. /\ v.buf = v.msg
            /\ \A u \in writes : u.msg = v.msg => u = v
            /\ \A i \in DOMAIN wire : wire[i].msg = v.msg => wire[i].part <= v.sent
        BY <1>1, <4>1 DEF Sending, Written
      <4> QED
        BY <1>3, <1>4, <1>7, <4>1, <4>2
    <3> QED
      BY <3>1, <3>2
  <2> QED
    BY <2>1 DEF Written
<1>13. LastFrame'
  <2>1. Len(wire') % Parts # 0 => Len(wire') % Parts = k + 1
    BY <1>2, <1>7, <1>8, BoundsAssumption
  <2> QED
    BY <1>4, <1>7, <1>11, <2>1 DEF LastFrame
<1>14. IntactWire'
  <2>1. ASSUME NEW i \in DOMAIN wire'
        PROVE  /\ wire'[i].msg # Garbage
               /\ wire'[i].part = ((i - 1) % Parts) + 1
               /\ wire'[i].part > 1 => wire'[i - 1].msg = wire'[i].msg
               /\ \A j \in 1..(i - 1) : wire'[i] # wire'[j]
    <3>1. CASE i = n + 1
      <4>1. m # Garbage
        BY <1>2, MsgsAssumption
      <4>2. i - 1 = n
        BY <1>6, <3>1
      <4>3. k + 1 > 1 => wire'[n].msg = m
        <5>1. k + 1 > 1 => k > 0
          BY <1>2, BoundsAssumption
        <5> QED
          BY <1>6, <1>7, <5>1
      <4>4. \A j \in 1..n : wire'[j] # c
        <5> SUFFICES ASSUME NEW j \in 1..n, wire[j] = c PROVE FALSE
          BY <1>7
        <5>1. wire[j].msg = m /\ wire[j].part = k + 1 /\ j \in DOMAIN wire
          BY <1>4, <1>7
        <5>2. k + 1 > k
          BY <1>2, BoundsAssumption
        <5> QED
          BY ONLY <1>2, <1>6, <5>1, <5>2, BoundsAssumption
      <4> QED
        BY <1>4, <1>6, <1>7, <3>1, <4>1, <4>2, <4>3, <4>4
    <3>2. CASE i \in DOMAIN wire
      <4>1. /\ wire[i].msg # Garbage
            /\ wire[i].part = ((i - 1) % Parts) + 1
            /\ wire[i].part > 1 => wire[i - 1].msg = wire[i].msg
            /\ \A j \in 1..(i - 1) : wire[i] # wire[j]
        BY <1>1, <3>2 DEF Sending, IntactWire
      <4>2. \A j \in 1..(i - 1) : wire'[j] = wire[j]
        <5>1. \A j \in 1..(i - 1) : j \in DOMAIN wire
          BY ONLY <1>6, <1>7, <3>2
        <5> QED
          BY ONLY <1>7, <5>1
      <4>3. wire[i].part > 1 => i - 1 \in 1..(i - 1)
        <5>1. i = 1 => wire[i].part = 1
          BY <4>1, NextPart, BoundsAssumption
        <5> QED
          BY <1>6, <1>7, <3>2, <5>1
      <4> QED
        BY <1>7, <3>2, <4>1, <4>2, <4>3
    <3> QED
      BY <1>7, <3>1, <3>2
  <2> QED
    BY <2>1 DEF IntactWire
<1> QED
  BY <1>9, <1>10, <1>12, <1>13, <1>14 DEF Sending

LEMMA WriteEndSends ==
    ASSUME TypeInv, Lockstep, NEW w \in writes, WriteDone(w) \/ WriteFailed(w)
    PROVE  Sending'
<1> USE DEF TypeInv, TypeOK, Procs
<1>1. Sending
  BY DEF Lockstep
<1>2. /\ pc[Io] = "idle" /\ (pc' = [pc EXCEPT ![Io] = "pull"] \/ pc' = pc)
      /\ writes' = writes \ {w}
      /\ UNCHANGED <<cur, in_progress, m_outgoing_messages, m_outgoing_data_buffer, wire>>
  BY DEF WriteDone, WriteFailed, threads, queues, outside
<1>3. Hands'
  BY <1>1, <1>2 DEF Sending, Hands, NotQueued, NotWritten, NotOnWire
<1>4. NoneInProgress' /\ Queued'
  BY <1>1, <1>2, ThreadsAssumption DEF Sending, NoneInProgress, Queued, NotWritten, NotOnWire
<1>5. Written' /\ LastFrame' /\ IntactWire'
  BY <1>1, <1>2 DEF Sending, Written, LastFrame, IntactWire
<1> QED
  BY <1>3, <1>4, <1>5 DEF Sending

LEMMA SendingStep ==
    TypeInv /\ TypeInv' /\ Begun /\ Lockstep /\ [Next]_vars => Sending'
<1> SUFFICES ASSUME TypeInv, TypeInv', Begun, Lockstep, [Next]_vars PROVE Sending'
  OBVIOUS
<1>1. ASSUME NEW t \in Threads, NEW m \in Msgs, Send(t, m) \/ Request(t, m) PROVE Sending'
  BY <1>1, BeginSends
<1>2. ASSUME NEW t \in Threads, Receive(t) \/ ReceivePull(t) PROVE Sending'
  BY <1>2, ReceiveSends
<1>3. ASSUME NEW t \in Threads, CheckSize(t) \/ Push(t) PROVE Sending'
  BY <1>3, CheckSends, PushSends
<1>4. ASSUME NEW p \in Procs, Pull(p) \/ Fill(p) \/ StartWrite(p) PROVE Sending'
  BY <1>4, PullSends, FillSends, StartWriteSends
<1>5. ASSUME NEW w \in writes, Transfer(w) \/ WriteDone(w) \/ WriteFailed(w) PROVE Sending'
  BY <1>5, TransferSends, WriteEndSends
<1>6. CASE UNCHANGED Core
  BY <1>6, OtherCore DEF Lockstep
<1>7. Start \/ CreateNew \/ Shutdown \/ ReadStep \/ RemoveExpiredRequests \/ Tick \/ PeerLost
        \/ (\E f \in Frames : PeerSend(f)) \/ UNCHANGED vars
      => UNCHANGED Core
  BY DEF Core, vars, queues, threads, outside, Start, CreateNew, Shutdown, ReadStep,
         ReadComplete, ReadFailed, ReadMessage, DiscardMessage, AnswerRequest, QueueMessage,
         OnMessageRead, RemoveExpiredRequests, Tick, PeerSend, PeerLost
<1> QED
  BY <1>1, <1>2, <1>3, <1>4, <1>5, <1>6, <1>7 DEF Next, ThreadStep, WriteStep, WriteOp

LEMMA LockstepInit == Init => Lockstep
<1> SUFFICES ASSUME Init PROVE Lockstep
  OBVIOUS
<1> USE MsgsAssumption DEF Init
<1>1. OneOpen
  BY DEF OneOpen, Open
<1>2. AnsweredOnWire
  BY DEF AnsweredOnWire
<1>3. Hands /\ NoneInProgress
  BY DEF Hands, NoneInProgress, Procs
<1>4. Queued /\ Written
  BY DEF Queued, Written
<1>5. LastFrame /\ IntactWire
  <2>1. Len(wire) = 0 /\ Len(wire) % Parts = 0
    BY NextPart, BoundsAssumption
  <2> QED
    BY <2>1 DEF LastFrame, IntactWire
<1> QED
  BY <1>1, <1>2, <1>3, <1>4, <1>5 DEF Lockstep, Sending

LEMMA LockstepStep ==
    Pipelined = FALSE /\ LockstepInv /\ [Next]_vars => LockstepInv'
<1> SUFFICES ASSUME Pipelined = FALSE, LockstepInv, [Next]_vars PROVE LockstepInv'
  OBVIOUS
<1>1. LedgerInv' /\ Begun'
  BY TypeStep, LedgerStep, BegunStep DEF LockstepInv, LedgerInv
<1>2. OneOpen' /\ AnsweredOnWire'
  BY OneOpenStep, AnsweredStep DEF LockstepInv, Lockstep
<1>3. Sending'
  BY <1>1, SendingStep DEF LockstepInv, LedgerInv
<1> QED
  BY <1>1, <1>2, <1>3 DEF LockstepInv, Lockstep

LEMMA LockstepCorrect == ASSUME Pipelined = FALSE PROVE Spec => []LockstepInv
<1>1. Init => LockstepInv
  BY TypeInit, LedgerInit, BegunInit, LockstepInit DEF LockstepInv, LedgerInv
<1>2. LockstepInv /\ [Next]_vars => LockstepInv'
  BY LockstepStep
<1> QED
  BY <1>1, <1>2, PTL DEF Spec

\* If the application awaits the answer to each message before any of its threads
\* sends again, the peer reads a sequence of whole frames: doSend, writeMessage and
\* the handler of a write never interleave two frames, send one twice or read a freed
\* buffer.
THEOREM IntactWireCorrect == ASSUME Pipelined = FALSE PROVE Spec => []IntactWire
<1>1. LockstepInv => IntactWire
  BY DEF LockstepInv, Lockstep, Sending
<1> QED
  BY <1>1, LockstepCorrect, PTL

\* Then no message stays in the queue either: the thread that has pushed it has found
\* the queue empty and goes on to pull.
THEOREM NoStrandingCorrect == ASSUME Pipelined = FALSE PROVE Spec => []NoStrandedMessage
<1>1. LockstepInv => NoStrandedMessage
  BY DEF LockstepInv, Lockstep, Sending, Queued, NoStrandedMessage, Procs
<1> QED
  BY <1>1, LockstepCorrect, PTL

=============================================================================
