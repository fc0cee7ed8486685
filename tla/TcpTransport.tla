---------------------------- MODULE TcpTransport ----------------------------
(***************************************************************************)
(* One TCP connection of the library: the TcpTransport, the two            *)
(* ConcurrentMessageQueues it owns, and the Session that starts it and     *)
(* shuts it down.  Application threads call send, request, receive,        *)
(* removeExpiredRequests and shutdown; the completion handlers run on the  *)
(* thread Io of the io_context; the peer and the kernel move the bytes.    *)
(***************************************************************************)
EXTENDS Integers, Sequences

CONSTANTS
    Threads,      \* the application threads that use the session
    Io,           \* the thread that runs the io_context
    Msgs,         \* outgoing messages, named by their MessageId
    Requests,     \* those passed to request(); the others are passed to send()
    Receivers,    \* the threads that call receive()
    Pipelined,    \* FALSE: the application awaits an answer before it goes on
    Parts,        \* the number of chunks the kernel accepts a frame in
    Timeout,      \* the age, in ticks, above which a request expires
    MaxTime,      \* bound: the clock stops there
    MaxInbound,   \* bound: the number of frames the peer sends
    Garbage,      \* bytes of a buffer that was freed or is being overwritten
    Event,        \* a frame that answers nothing
    Unknown,      \* a frame whose type has no descriptor
    None          \* no thread, no message

Procs == Threads \cup {Io}

\* An inbound frame is an event, an undecodable frame, or the answer to m.
Frames == Msgs \cup {Event, Unknown}

Time == 0..MaxTime

ASSUME ThreadsAssumption == Io \notin Threads /\ None \notin Procs
ASSUME MsgsAssumption ==
    /\ Requests \subseteq Msgs
    /\ {Garbage, Event, Unknown, None} \cap Msgs = {}
    /\ Garbage # None /\ Event # Unknown
    /\ {Garbage, None} \cap {Event, Unknown} = {}
ASSUME BoundsAssumption ==
    /\ Receivers \subseteq Threads
    /\ Pipelined \in BOOLEAN
    /\ Parts \in Nat \ {0}
    /\ {Timeout, MaxTime, MaxInbound} \subseteq Nat

VARIABLES
    m_state,                 \* of the transport
    owned,                   \* make_shared<Session> has returned
    link,                    \* the socket: "up", "lost" by the peer, "closed" here
    m_outgoing_messages,
    m_incoming_messages,
    m_pending_requests,      \* the keys of the map of promises
    m_pending_requests_ts,
    m_pending_requests_mtx,  \* the thread that holds it, or None
    promise,
    m_outgoing_data_buffer,  \* the message the current allocation was made for
    writes,                  \* the outstanding async_writes
    reading,                 \* the outstanding async_read, "_done" once completed
    pc, cur, in_progress,    \* of each thread: next step, message in hand, local
    fresh,                   \* messages the application has not sent yet
    wire,                    \* chunks handed to the peer
    inbound,                 \* frames the peer sent and nothing has read yet
    sent_by_peer, now

queues == <<m_outgoing_messages, m_incoming_messages>>
ledger == <<m_pending_requests, m_pending_requests_ts, promise>>
threads == <<pc, cur, in_progress>>
outside == <<wire, inbound, sent_by_peer>>
vars == <<m_state, owned, link, queues, ledger, m_pending_requests_mtx,
          m_outgoing_data_buffer, writes, reading, threads, fresh, outside, now>>

Chunks == [msg : Msgs \cup {Garbage}, part : 1..Parts]

\* msg names the operation; buf is the allocation its pointer goes to.
Writes == [msg : Msgs, buf : Msgs \cup {Garbage}, sent : 0..Parts]

Steps == {"idle", "check", "push", "pull", "fill", "start", "receive"}

TypeOK ==
    /\ m_state \in {"Stopped", "Started", "StopPending"}
    /\ owned \in BOOLEAN
    /\ link \in {"up", "lost", "closed"}
    /\ m_outgoing_messages \in Seq(Msgs)
    /\ m_incoming_messages \in Seq(Frames)
    /\ m_pending_requests \subseteq Requests
    /\ DOMAIN m_pending_requests_ts \subseteq Requests
    /\ \A r \in DOMAIN m_pending_requests_ts : m_pending_requests_ts[r] \in Time
    /\ m_pending_requests_mtx \in Threads \cup {None}
    /\ promise \in [Requests -> {"none", "pending", "value", "expired"}]
    /\ m_outgoing_data_buffer \in Msgs \cup {Garbage, None}
    /\ writes \in SUBSET Writes
    /\ reading \in {"off", "length", "length_done", "body", "body_done"}
    /\ pc \in [Procs -> Steps]
    /\ cur \in [Procs -> Msgs \cup {None}]
    /\ in_progress \in [Threads -> BOOLEAN]
    /\ fresh \subseteq Msgs
    /\ wire \in Seq(Chunks)
    /\ inbound \in Seq(Frames)
    /\ sent_by_peer \in 0..MaxInbound
    /\ now \in Time

Init ==
    /\ m_state = "Stopped"
    /\ owned = FALSE
    /\ link = "up"
    /\ m_outgoing_messages = <<>> /\ m_incoming_messages = <<>>
    /\ m_pending_requests = {} /\ m_pending_requests_ts = [r \in {} |-> 0]
    /\ m_pending_requests_mtx = None
    /\ promise = [r \in Requests |-> "none"]
    /\ m_outgoing_data_buffer = None
    /\ writes = {}
    /\ reading = "off"
    /\ pc = [p \in Procs |-> "idle"]
    /\ cur = [p \in Procs |-> None]
    /\ in_progress = [t \in Threads |-> FALSE]
    /\ fresh = Msgs
    /\ wire = <<>> /\ inbound = <<>>
    /\ sent_by_peer = 0 /\ now = 0

\* MessageQueue::internal_pull, of a queue that may be empty: what it returns
\* and what it leaves.
Front(q) == IF q = <<>> THEN None ELSE Head(q)
Rest_peeks(q) == q
Rest(q) == IF q = <<>> THEN <<>> ELSE Tail(q)

\* Every failed read or write leaves the transport in this state.
StateOnError_ignored == m_state
StateOnError == "StopPending"

-----------------------------------------------------------------------------
(* The session: its constructor starts the transport before make_shared    *)
(* has installed the weak reference createMessage needs.                   *)

\* TcpTransport::doStart, which arms the first read.
Start ==
    /\ m_state = "Stopped"
    /\ m_state' = "Started"
    /\ reading' = "length"
    /\ UNCHANGED <<owned, link, queues, ledger, m_pending_requests_mtx,
                   m_outgoing_data_buffer, writes, threads, fresh, outside, now>>

\* Session::createNew returns.
CreateNew ==
    /\ m_state # "Stopped" /\ ~owned
    /\ owned' = TRUE
    /\ UNCHANGED <<m_state, link, queues, ledger, m_pending_requests_mtx, reading,
                   m_outgoing_data_buffer, writes, threads, fresh, outside, now>>

\* Session::shutdown: the socket is closed and m_state left as it is.
Shutdown ==
    /\ owned /\ link # "closed"
    /\ link' = "closed"
    /\ UNCHANGED <<m_state, owned, queues, ledger, m_pending_requests_mtx, reading,
                   m_outgoing_data_buffer, writes, threads, fresh, outside, now>>

-----------------------------------------------------------------------------
(* Sending.                                                                *)

\* Without pipelining a thread sends once every earlier message is answered.
MaySend ==
    Pipelined \/ \A m \in Msgs \ fresh : m \in Requests /\ promise[m] = "value"

Begin(t, m) ==
    /\ owned /\ pc[t] = "idle" /\ m \in fresh /\ MaySend
    /\ fresh' = fresh \ {m}
    /\ pc' = [pc EXCEPT ![t] = "check"]
    /\ cur' = [cur EXCEPT ![t] = m]

Send(t, m) ==
    /\ m \notin Requests
    /\ Begin(t, m)
    /\ UNCHANGED <<m_state, owned, link, queues, ledger, m_pending_requests_mtx, reading,
                   m_outgoing_data_buffer, writes, in_progress, outside, now>>

\* doRequest up to its call of send; the mutex is held until that call returns.
Register(m) ==
    /\ promise' = [promise EXCEPT ![m] = "pending"]
    /\ m_pending_requests' = m_pending_requests \cup {m}
    /\ m_pending_requests_ts' =
           [r \in DOMAIN m_pending_requests_ts \cup {m} |->
               IF r = m THEN now ELSE m_pending_requests_ts[r]]

\* Bound: a request is made while the clock can still reach its expiry.
Request(t, m) ==
    /\ m \in Requests
    /\ m_pending_requests_mtx = None
    /\ now + Timeout < MaxTime
    /\ Begin(t, m)
    /\ Register(m)
    /\ m_pending_requests_mtx' = t
    /\ UNCHANGED <<m_state, owned, link, queues, reading,
                   m_outgoing_data_buffer, writes, in_progress, outside, now>>

\* The call of p, or the handler that runs on Io, ends.
Return(p) ==
    /\ pc' = [pc EXCEPT ![p] = "idle"]
    /\ cur' = [cur EXCEPT ![p] = None]
    /\ m_pending_requests_mtx' =
           IF m_pending_requests_mtx = p THEN None ELSE m_pending_requests_mtx

\* doSend reads the size, pushes and decides in three steps: each queue
\* operation takes the lock of the queue, nothing holds it across them.
WritePending_off_by_one == Len(m_outgoing_messages) >= 0
WritePending == Len(m_outgoing_messages) > 0

CheckSize(t) ==
    /\ pc[t] = "check"
    /\ in_progress' = [in_progress EXCEPT ![t] = WritePending]
    /\ pc' = [pc EXCEPT ![t] = "push"]
    /\ UNCHANGED <<m_state, owned, link, queues, ledger, m_pending_requests_mtx, reading,
                   m_outgoing_data_buffer, writes, cur, fresh, outside, now>>

Push(t) ==
    /\ pc[t] = "push"
    /\ m_outgoing_messages' = Append(m_outgoing_messages, cur[t])
    /\ \/ /\ in_progress[t]
          /\ Return(t)
       \/ /\ ~in_progress[t]
          /\ pc' = [pc EXCEPT ![t] = "pull"]
          /\ cur' = [cur EXCEPT ![t] = None]
          /\ UNCHANGED m_pending_requests_mtx
    /\ UNCHANGED <<m_state, owned, link, m_incoming_messages, ledger, reading,
                   m_outgoing_data_buffer, writes, in_progress, fresh, outside, now>>

\* writeMessage begins: a null message ends it.
NothingPulled_unchecked == FALSE
NothingPulled == Front(m_outgoing_messages) = None

Pull(p) ==
    /\ pc[p] = "pull"
    /\ m_outgoing_messages' = Rest(m_outgoing_messages)
    /\ \/ NothingPulled /\ Return(p)
       \/ /\ ~NothingPulled
          /\ cur' = [cur EXCEPT ![p] = Front(m_outgoing_messages)]
          /\ pc' = [pc EXCEPT ![p] = "fill"]
          /\ UNCHANGED m_pending_requests_mtx
    /\ UNCHANGED <<m_state, owned, link, m_incoming_messages, ledger, reading,
                   m_outgoing_data_buffer, writes, in_progress, fresh, outside, now>>

\* Two threads that fill the buffer at once race on it: what either leaves
\* there is undefined.
Racing(p) == \E q \in Procs \ {p} : pc[q] = "fill"
Race(p) == IF Racing(p) THEN {Garbage} ELSE {}

\* Computes the length and copies the frame into a newly allocated buffer;
\* the previous allocation is freed.
Fill(p) ==
    /\ pc[p] = "fill"
    /\ \E content \in {cur[p]} \cup Race(p) : m_outgoing_data_buffer' = content
    /\ pc' = [pc EXCEPT ![p] = "start"]
    /\ UNCHANGED <<m_state, owned, link, queues, ledger, m_pending_requests_mtx, reading,
                   writes, cur, in_progress, fresh, outside, now>>

\* async_write captures the buffer of this moment, whoever filled it.
StartWrite(p) ==
    /\ pc[p] = "start"
    /\ \E content \in {m_outgoing_data_buffer} \cup Race(p) :
           writes' = writes \cup {[msg |-> cur[p], buf |-> content, sent |-> 0]}
    /\ Return(p)
    /\ UNCHANGED <<m_state, owned, link, queues, ledger, reading,
                   m_outgoing_data_buffer, in_progress, fresh, outside, now>>

\* The kernel takes the next chunk, from the buffer as it is now: the frame if
\* it is still allocated, anything if it was freed.
Content(w) ==
    IF w.buf = m_outgoing_data_buffer THEN {w.buf} ELSE {w.buf, Garbage}

Transfer(w) ==
    /\ link = "up" /\ w.sent < Parts
    /\ writes' = (writes \ {w}) \cup {[w EXCEPT !.sent = w.sent + 1]}
    /\ \E m \in Content(w) : wire' = Append(wire, [msg |-> m, part |-> w.sent + 1])
    /\ UNCHANGED <<m_state, owned, link, queues, ledger, m_pending_requests_mtx, reading,
                   m_outgoing_data_buffer, threads, fresh, inbound, sent_by_peer, now>>

\* The handler of a completed write calls writeMessage.
WriteDone(w) ==
    /\ pc[Io] = "idle" /\ w.sent = Parts
    /\ writes' = writes \ {w}
    /\ pc' = [pc EXCEPT ![Io] = "pull"]
    /\ UNCHANGED <<m_state, owned, link, queues, ledger, m_pending_requests_mtx, reading,
                   m_outgoing_data_buffer, cur, in_progress, fresh, outside, now>>

\* The handler of a failed write: every error ends in StopPending.
WriteFailed(w) ==
    /\ pc[Io] = "idle" /\ link # "up" /\ w.sent < Parts
    /\ writes' = writes \ {w}
    /\ m_state' = StateOnError
    /\ UNCHANGED <<owned, link, queues, ledger, m_pending_requests_mtx, reading,
                   m_outgoing_data_buffer, threads, fresh, outside, now>>

-----------------------------------------------------------------------------
(* Receiving.                                                              *)

\* The kernel completes the outstanding read.  A length and the frame behind
\* it arrive together here: the frame stays in inbound until it is handled.
ReadComplete ==
    /\ link # "closed" /\ inbound # <<>>
    /\ \/ reading = "length" /\ reading' = "length_done"
       \/ reading = "body" /\ reading' = "body_done"
    /\ UNCHANGED <<m_state, owned, link, queues, ledger, m_pending_requests_mtx,
                   m_outgoing_data_buffer, writes, threads, fresh, outside, now>>

\* The handler of a failed read: the reads end and the state is StopPending.
ReadFailed ==
    /\ pc[Io] = "idle" /\ link # "up" /\ reading \in {"length", "body"}
    /\ reading' = "off"
    /\ m_state' = StateOnError
    /\ UNCHANGED <<owned, link, queues, ledger, m_pending_requests_mtx,
                   m_outgoing_data_buffer, writes, threads, fresh, outside, now>>

\* The length is read: readMessage.
ReadMessage ==
    /\ pc[Io] = "idle" /\ reading = "length_done"
    /\ reading' = "body"
    /\ UNCHANGED <<m_state, owned, link, queues, ledger, m_pending_requests_mtx,
                   m_outgoing_data_buffer, writes, threads, fresh, outside, now>>

\* onMessageRead, then readMessageLength, for the frame at the head.
OnMessageRead ==
    /\ pc[Io] = "idle" /\ reading = "body_done"
    /\ inbound' = Tail(inbound)
    /\ reading' = "length"
    /\ UNCHANGED <<m_state, owned, link, m_outgoing_messages, m_outgoing_data_buffer, writes,
                   m_pending_requests_mtx, threads, fresh, wire, sent_by_peer, now>>

\* No descriptor has the type, or bad_weak_ptr was thrown and swallowed.
Undecodable(f) == f = Unknown \/ ~owned

DiscardMessage ==
    /\ OnMessageRead
    /\ Undecodable(Head(inbound))
    /\ UNCHANGED <<m_incoming_messages, ledger>>

\* Erases S from both maps.
Forget_keeps_timestamp(S) ==
    /\ m_pending_requests' = m_pending_requests \ S
    /\ UNCHANGED m_pending_requests_ts
Forget_keeps_promise(S) ==
    /\ UNCHANGED m_pending_requests
    /\ m_pending_requests_ts' =
           [r \in DOMAIN m_pending_requests_ts \ S |-> m_pending_requests_ts[r]]
Forget(S) ==
    /\ m_pending_requests' = m_pending_requests \ S
    /\ m_pending_requests_ts' =
           [r \in DOMAIN m_pending_requests_ts \ S |-> m_pending_requests_ts[r]]

\* The frame carries the id of a request whose promise is in the map.
Awaited_never(f) == FALSE
Awaited(f) == f \in m_pending_requests

\* The handler waits for the mutex of the pending requests.
AnswerRequest ==
    LET f == Head(inbound) IN
    /\ OnMessageRead
    /\ ~Undecodable(f)
    /\ m_pending_requests_mtx = None
    /\ Awaited(f)
    /\ promise' = [promise EXCEPT ![f] = "value"]
    /\ Forget({f})
    /\ UNCHANGED m_incoming_messages

\* A message that answers no pending request is left to receive().
QueueMessage ==
    LET f == Head(inbound) IN
    /\ OnMessageRead
    /\ ~Undecodable(f)
    /\ f \in Msgs => m_pending_requests_mtx = None
    /\ ~Awaited(f)
    /\ m_incoming_messages' = Append(m_incoming_messages, f)
    /\ UNCHANGED ledger

\* doReceive reads the size, then pulls.
HasMessage == Len(m_incoming_messages) > 0

Receive(t) ==
    /\ owned /\ t \in Receivers /\ pc[t] = "idle"
    /\ HasMessage
    /\ pc' = [pc EXCEPT ![t] = "receive"]
    /\ UNCHANGED <<m_state, owned, link, queues, ledger, m_pending_requests_mtx, reading,
                   m_outgoing_data_buffer, writes, cur, in_progress, fresh, outside, now>>

\* pull() returns a null message if the queue was emptied in between.
ReceivePull(t) ==
    /\ pc[t] = "receive"
    /\ m_incoming_messages' = Rest(m_incoming_messages)
    /\ pc' = [pc EXCEPT ![t] = "idle"]
    /\ UNCHANGED <<m_state, owned, link, m_outgoing_messages, ledger, m_pending_requests_mtx,
                   reading, m_outgoing_data_buffer, writes, cur, in_progress, fresh, outside,
                   now>>

-----------------------------------------------------------------------------
(* Time, the application's cleaning up, and the world outside.             *)

Expired_swapped ==
    {r \in DOMAIN m_pending_requests_ts : m_pending_requests_ts[r] - now > Timeout}
Expired == {r \in DOMAIN m_pending_requests_ts : now - m_pending_requests_ts[r] > Timeout}

\* One whole call: it holds the mutex throughout.
RemoveExpiredRequests ==
    /\ owned /\ m_pending_requests_mtx = None /\ Expired # {}
    /\ promise' = [r \in Requests |->
                      IF r \in Expired \cap m_pending_requests THEN "expired" ELSE promise[r]]
    /\ Forget(Expired)
    /\ UNCHANGED <<m_state, owned, link, queues, m_pending_requests_mtx, reading,
                   m_outgoing_data_buffer, writes, threads, fresh, outside, now>>

Tick ==
    /\ now < MaxTime
    /\ now' = now + 1
    /\ UNCHANGED <<m_state, owned, link, queues, ledger, m_pending_requests_mtx, reading,
                   m_outgoing_data_buffer, writes, threads, fresh, outside>>

\* The peer sends events, junk, and answers (even twice) to what it received.
OnWire(m) == \A k \in 1..Parts : \E i \in DOMAIN wire : wire[i] = [msg |-> m, part |-> k]

PeerSend(f) ==
    /\ link = "up" /\ sent_by_peer < MaxInbound
    /\ f \in Msgs => OnWire(f)
    /\ inbound' = Append(inbound, f)
    /\ sent_by_peer' = sent_by_peer + 1
    /\ UNCHANGED <<m_state, owned, link, queues, ledger, m_pending_requests_mtx, reading,
                   m_outgoing_data_buffer, writes, threads, fresh, wire, now>>

PeerLost ==
    /\ link = "up"
    /\ link' = "lost"
    /\ UNCHANGED <<m_state, owned, queues, ledger, m_pending_requests_mtx, reading,
                   m_outgoing_data_buffer, writes, threads, fresh, outside, now>>

-----------------------------------------------------------------------------
ThreadStep(t) == CheckSize(t) \/ Push(t) \/ ReceivePull(t)
WriteStep(p) == Pull(p) \/ Fill(p) \/ StartWrite(p)
WriteOp(w) == Transfer(w) \/ WriteDone(w) \/ WriteFailed(w)
ReadStep == ReadComplete \/ ReadFailed \/ ReadMessage
                \/ DiscardMessage \/ AnswerRequest \/ QueueMessage

Next ==
    \/ Start \/ CreateNew \/ Shutdown
    \/ \E t \in Threads :
          \/ \E m \in Msgs : Send(t, m) \/ Request(t, m)
          \/ Receive(t)
          \/ ThreadStep(t)
    \/ \E p \in Procs : WriteStep(p)
    \/ \E w \in writes : WriteOp(w)
    \/ ReadStep
    \/ RemoveExpiredRequests \/ Tick
    \/ \E f \in Frames : PeerSend(f)
    \/ PeerLost

Spec == Init /\ [][Next]_vars

(* The threads run, the io_context runs its handlers, a peer that is        *)
(* connected takes the bytes, and the application calls                    *)
(* removeExpiredRequests again and again.  Nobody has to send anything.    *)
Fairness ==
    /\ WF_vars(Start) /\ WF_vars(CreateNew)
    /\ \A t \in Threads : WF_vars(ThreadStep(t))
    /\ \A p \in Procs : WF_vars(WriteStep(p))
    /\ WF_vars(\E w \in writes : WriteOp(w))
    /\ WF_vars(ReadStep)
    /\ WF_vars(Tick) /\ WF_vars(RemoveExpiredRequests)

FairSpec == Spec /\ Fairness

-----------------------------------------------------------------------------
(* Properties.                                                             *)

\* The two maps of doRequest, onMessageRead and removeExpiredRequests hold the
\* same ids, those of the requests whose future is still unset: no future is
\* forgotten, and none is settled twice (std::future_error).
PendingLedger ==
    /\ m_pending_requests = {r \in Requests : promise[r] = "pending"}
    /\ DOMAIN m_pending_requests_ts = m_pending_requests

\* The answer to a request can be in the hands of the io_context before
\* request() has returned.  It is never queued for receive() unless the future
\* of the request is settled already: onMessageRead finds the promise.
NoReplyOvertakes ==
    \A i \in DOMAIN m_incoming_messages :
        m_incoming_messages[i] \in Requests =>
            promise[m_incoming_messages[i]] \in {"value", "expired"}

\* doSend queues every message for a writeMessage to come: while the queue holds
\* one and the connection is up, a thread is about to pull or a write is
\* outstanding whose handler will.
NoStrandedMessage ==
    m_outgoing_messages # <<>> /\ link = "up" =>
        \/ \E p \in Procs : pc[p] \in {"pull", "fill", "start"}
        \/ writes # {}

\* What the peer receives is a sequence of whole frames, each of one message and
\* none of them twice: no write overlaps another or reads a buffer that
\* resizeOutgoingDataBuffer has freed.
IntactWire ==
    \A i \in DOMAIN wire :
        /\ wire[i].msg # Garbage
        /\ wire[i].part = ((i - 1) % Parts) + 1
        /\ wire[i].part > 1 => wire[i - 1].msg = wire[i].msg
        /\ \A j \in 1..(i - 1) : wire[i] # wire[j]

\* doReceive returns std::nullopt or a message, never an engaged optional that
\* holds a null pointer: the queue it found filled is filled when it pulls.
ReceiveFindsMessage ==
    [][\A t \in Threads : ReceivePull(t) => m_incoming_messages # <<>>]_vars

\* Every message the application hands over reaches the peer whole, unless the
\* connection goes down first.
EveryMessageLeaves ==
    \A m \in Msgs : m \notin fresh ~> OnWire(m) \/ link # "up"

\* No thread waits for ever on the future of a request.
RequestsSettle ==
    \A r \in Requests : promise[r] = "pending" ~> promise[r] # "pending"

\* doStop leaves m_state alone: it is the read it aborts that reports the end.
\* A connection that was shut down or lost is inactive in the end.
ShutdownObserved == owned /\ link # "up" ~> m_state = "StopPending"

\* The connection implements RequestOutcome.
Outcome == INSTANCE RequestOutcome WITH promise <- promise
ImplementsOutcome == Outcome!Spec
=============================================================================
