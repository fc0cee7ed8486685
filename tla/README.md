# ISML in TLA+

ISML is a C++ messaging library: applications exchange typed messages over
sessions, a session owns a transport, a service owns the `io_context` that the
transports run on, and a small task library (tasks, a thread pool, a scheduler)
stands beside it.  This directory holds TLA+ models of its concurrent core and of
the sequential parts it rests on, the TLC configurations that check them on small
instances, and TLAPS proofs of the properties that matter most for instances of any
size.

Paths below are relative to the repository (`src/...` and `include/isml/...`).
`PROJECT.json` maps every definition to the lines it stands for.

## 1. The system

| Component | State | Operations | Hard behaviour | What makes it correct |
|---|---|---|---|---|
| `TcpTransport` (`src/transport/tcp_transport.cpp`) | `m_state`, two queues, two maps of pending requests and their mutex, one outgoing and one incoming buffer, the socket | `start`, `stop`, `send`, `receive`, `request`, `removeExpiredRequests`; handlers of writes and reads | application threads against handlers; a write in flight; answers early, late, twice; connection lost | whole frames leave, none is forgotten; each future is set once; a lost connection is reported |
| Message queues (`src/message/message_queue.cpp`) | a `std::queue`, a mutex | `push`, `pull`, `size` | each call is atomic, a sequence of calls is not | `pull` after `size() > 0` finds a message |
| `Session` (`src/session/session.cpp`) | id, transport, properties | forwards to the transport, `active` | the transport runs before the constructor ends | `active()` ends when the connection does |
| `SessionManager` (`src/session/session_manager.cpp`) | map of sessions, mutex, three callbacks | `createSession`, `terminate`, `terminateAll`, `forEach`, `find` | callbacks under the lock, callbacks that throw | every session in the map is alive, every one terminated is gone and closed |
| `MessagingService` (`src/messaging_service.cpp`) | `m_state`, `io_context`, future of its thread | `start`, `stop`, `connect` | caller and thread both write `m_state`; the context is stopped with handlers pending | `stop()` returns and nothing runs afterwards |
| `Task`, `Action` (`include/isml/task/task.hpp`) | atomic status, promise | `run`, `runAsync`, `tryCancel`, `getResult`, `perform` | several performers and cancellers | the function runs once or the cancel succeeded; the future is set |
| `ThreadPoolTaskExecutor` (`src/executors/...`) | queue of actions, `m_done`, mutex, condition variable, workers | `submit`, `execute`, `terminate`, destructor | lost wake-ups, terminate against waiting workers | every submitted task is performed, the destructor returns |
| `TaskScheduler` (`include/isml/task/task_scheduler.hpp`) | priority queue, delay, reason, watcher thread | `schedule`, `terminate`, destructor | `wait_for` without a predicate, stale delays | a task is executed after its delay, and is executed |
| `PubSubMessageChannel` (`src/message/channels/...`) | map of subscribers, mutex, callback | `subscribe`, `unsubscribe`, `send`, `publishWithProducer` | broken subscribers, callback under the lock, two locks | every active subscriber gets the message, each broken one leaves once |
| Messages, descriptors, fields (`src/message/...`) | ordered list of fields and an index | `registerField`, `add`, `get`, `clone`, copies | order of the fields | writer and reader agree on the layout |
| Binary serializer (`include/isml/serialization/...`) | none | `serialize`, `deserialize`, `size` | 16-bit counts and lengths | what is read is what was written |
| Dispatcher and filters (`src/message/message_dispatcher.cpp`, ...) | handlers, delegates, filters | `dispatch`, `matches` | delegates bypass the filter chain of the parent | at most one handler, chosen by type and filter |
| `ServiceManager` (`include/isml/service/service_manager.hpp`) | map of services, mutex | `publish`, `getService`, `terminate` | a `stop` that throws | a service is published once and stopped once |
| `Listenable` (`include/isml/base/listenable.hpp`) | vector of listeners | add, remove, `invoke` | no lock; change while invoking | each listener is told once |
| Composite and JSON serializers (`include/isml/serialization/...`, `examples/custom_serializer`) | the stream or JSON value of a context | `serialize`, `deserialize` by the tag of the context | fields that have no serializer for the tag; a document that is used again | what is read is what was written |
| Transport factories, registry, `Url` (`src/net/url.cpp`, ...) | the registered factories; parts of a url | `registerFactory`, `getFactory`, `createTransport`; parse, print, build | `connect()` has four ways to fail | no socket is lost, a url that was written and parsed is the same place |
| `SignalInterceptor`; `Maybe`, `Result`, properties, byte order, `ThreadJoiner`, `merge` | little or none | access and conversions | none concurrent | sequential contracts |
| `Guard`, `HandlerMapping`, `ValueHolder`, exceptions, other examples | none | | | not modelled, section 6 |

How they interact.  `MessagingService::connect` asks the registry for a factory,
the factory resolves and connects a socket, and `SessionManager::createSession`
builds a `Session` around the transport; the constructor of the session starts
the transport.  From then on the transport lives on completion handlers, which
run on the thread that `MessagingService::start` launched, while any thread of
the application calls `send`, `request` and `receive` on the session.
`MessagingService::stop` terminates all sessions, stops the context and waits for
that thread.  The task library is independent of the messaging part; the
scheduler derives from an executor and feeds it.

`PROJECT.json` lists, under `hazards`, everything in this code that is hard to
test, at its line, with the properties that cover it.

## 2. The modules

| Module | Models | Notes |
|---|---|---|
| `TcpTransport` | one connection: transport, its two queues, its session | the core; detailed specification |
| `RequestOutcome` | what `request()` promises to the holder of a future | abstract specification; `TcpTransport` implements it with `promise` as the refinement mapping |
| `Task` | status word, promise, `tryCancel`, the steps of `perform` | no `Next` of its own: it is composed |
| `ThreadPool` | the pool, extends `Task` | users submit, run, cancel, terminate, destroy; workers loop |
| `MessagingService` | start, stop, the io thread; session manager with its sessions' life | one critical section of the manager is one step |
| `ServiceManager` | `publish`, `getService`, `terminate` | composed by `MessagingService`, whose handlers call it |
| `Url` | parsing, printing and building urls | pure; `MessagingService` connects to them, its proofs include those about urls |
| `SessionManager` | `createSession`, `terminate`, `terminateAll`, `forEach`, `find` with their callbacks | no `Next` of its own: it is composed |
| `PubSubMessageChannel` | the channel, extends `SessionManager` | sessions subscribe and leave in the manager's callbacks, threads publish |
| `TaskScheduler` | the scheduler, its watcher and its clock | the executor performs what it is given, as `ThreadPool` does |
| `Messages` | factories, descriptors, the fields of a message | state of its own, steps composed by `Exchange` |
| `BinarySerializer`, `CompositeSerializer` | bytes and JSON values of each kind of field | pure |
| `MessageDispatcher` | handlers, delegates, filters, chain | pure |
| `Exchange` | a message from one process to another | composes the four above |
| `Outcomes`, `Listenable`, `PropertySet`, `JsonUtils`, `SignalInterceptor`, `Utilities` | `Maybe` and `Result`, listeners, properties, `merge`, signals, byte order and `ThreadJoiner` | pure |
| `UtilityLaws` | nothing: named assumptions that say what users of those six rely on | TLC evaluates them in the run `service` |
| `MC...` | instances for TLC | constants and a symmetry set only |
| `..._proofs` | theorems about the module they are named after | see section 5 |
| `Lockstep_proofs`, `Frame_proofs` | theorems about `TcpTransport` used in lock-step, and about what `Exchange` writes and reads | extend `TcpTransport_proofs` and `Exchange_proofs` |

### TcpTransport

Variables carry the names of the members.  `pc`, `cur` and `in_progress` are the
program counter and the locals of each thread inside a call: `doSend` is
`CheckSize` (line 60), `Push` (61), and, if it decided to write, `Pull`, `Fill`
and `StartWrite`, the three parts of `writeMessage` that other threads can come
between.  The steps of `doReceive` are `Receive` and `ReceivePull`.  `Request` is
`doRequest` up to its call of `send`; `m_pending_requests_mtx` stays with the thread until
`Return`.  The handlers run on `Io`, one at a time: `WriteDone` continues with
`Pull` on `Io`; `ReadMessage`, `DiscardMessage`, `AnswerRequest` and
`QueueMessage` are the handlers of the reads, each with everything it calls.
`removeExpiredRequests` holds the mutex from end to end and is one step.

A frame is data nobody looks into: an outgoing one is its message, an inbound one
is the answer to a message, an event, or a frame with an unknown type.  An
`async_write` is a record of its message, of the allocation its pointer goes to
and of the chunks already accepted.  The kernel reads the buffer as it is at that
moment: if the allocation has been replaced (`resizeOutgoingDataBuffer`) the
bytes may be anything (`Garbage`), and so they may if two threads fill the buffer
at once, which is a data race.  `owned` is false until `make_shared` has returned
in `Session::createNew`: before that `createMessage` throws `bad_weak_ptr` and the
frame is dropped.

The environment is external: the kernel moves chunks, the clock ticks, the peer
sends events, junk and answers (also twice) to messages it has received whole,
and the connection may be lost at any time.

Simplifications: one thread runs the `io_context`, as `MessagingService` has it;
calls of Asio on one socket from two threads are taken as atomic; each message
is sent once; a length and the frame behind it arrive together, so the incoming
buffer has one state; a session outlives its handlers.  While the handler of a read
waits for the mutex of the pending requests (line 235) it blocks `Io`, and in the model
`Io` may run other handlers meanwhile: more behaviours, and the lock is held only by
calls that do not wait for `Io`.  `cancel` and `close` do not throw in `doStop`, and
neither does `serialize` in `writeMessage`: a field without a binary serializer, which
would end the chain of writes, is excluded by `ExchangeAssumption`.

### Task and ThreadPool

`Perform(p)` is the step of thread `p` in `Action::perform`: the test of
`isCancelled`, `trySetInProgress` with the call of the function, the delivery to
the promise, and `trySetCompleted`.  `Cas` is `compare_exchange_weak`; with
`Spurious` it may fail although the value matches.  `NDebug` is the build that
drops the assertion, and `trySetCompleted` with it.  A second `set_exception` in
the `noexcept` function ends the process (`terminated`).

The pool extends it.  A worker is at one of the points of `startWorker`; sections
under `m_actions_guard` are one step each, and a `try_lock` that fails is no step.
`NotifyOne` wakes one waiting worker, if there is any, and spurious wake-ups
are steps.  `terminate()` only sets the flag, as in the code.  A task is made by
`submit`, which queues it before anyone has it, or by its holder.

### MessagingService

`caller` is the one thread that calls `start()` and `stop()`, `io[n]` the thread
of the n-th `start()`.  Every access to `m_state` is a step: the caller writes
`StartPending` (line 74) and `StopPending` (85), the thread `Started` (58) and
`Stopped` (71).  The assignment of the new future to `m_io` waits for the thread of
the old one (`Join`).  `ioc_stopped` is never reset, since nothing calls
`io_context::restart`.  Of a session only its life is kept: registered, socket,
transport state, and the handler that turns the aborted read into `StopPending`.
The callbacks of the session manager are the stubs that its constructor installs.
`stop()` waits for the thread of the context and is not called from it.

The service belongs to a `ServiceManager`: `Publish` makes a new one in place of
the one that was terminated, and `Terminate` holds the manager's mutex from the call
of `stop()` to its return (`m_services_guard`).  A handler of the application may ask
the manager for the service (`Ask`, `GetService`); if `terminate()` is inside `stop()`
the two wait for each other, the cycle that `StopReturns` excepts.

`connect()` is two steps of an application thread, because nothing locks them
together.  `Connect` asks the registry (the last factory that supports the protocol
wins, `GetFactory`) and the factory, whose three outcomes are `CreateTransport`;
`CreateSession` hands the open socket to the manager.  `stop()` and `terminate(id)` may
come in between.  `connecting` is the socket in the hand of that thread.  The urls
come from `Url`; `Texts(url)` are all texts that printing may give, since the parameters
are an unordered map.

### Url

A text is a sequence of tokens: a run of letters and digits is one token (`Words`), every
other character one by itself (`Characters`), and no two words are neighbours (`Strings`).
That is what the two regular expressions can tell apart.  `Groups` are the groups of
`s_regex`, which `Assembled` hands to the builder.  `s_param_regex` can match wherever two words have a `=` between them
(`Candidate`); `regex_search` goes on in the suffix of each match, so of candidates that
share a word every second one is found (`Matches`): `a=b=c` gives `a=b`, `a=b=c=d` gives
`a=b` and `c=d`, `k=a-b` gives `k=a`, `x-y=z` gives `y=z`.  `Stoi` skips blanks, takes a
sign and the digits a word begins with (`Leading`: of `3x` that is 3), and fails outside
`int`; `setPort` makes an unsigned of it, so a negative port wraps (`Unsigned`).  The
letters of a word are not looked into, and `locale` and encoding are left out.

### SessionManager and PubSubMessageChannel

`managing[t]` is the step of thread `t` inside a call of the manager, from the
lock to its release: `CreateSession` up to the callback, `Opened` after it;
`Terminate` or `TerminateAll` takes the lock and the ids, and for each id `Take`
finds the entry and moves the pointer out of it, `TerminatingThrows` or
`ShutdownSession` follows, then `Terminated`.  An entry is `"none"`, `"held"` or
`"null"`: the last is what line 75 leaves when `onSessionTerminating` throws, and
asking it for its id or shutting it down is the end of the process (`crashed`).
Shutting a session down closes its socket; it becomes inactive later, by
`Disconnect`, as in `TcpTransport`.

The channel is composed with it the way an application uses both:
`onSessionOpened` subscribes the new session and `onSessionTerminated`
unsubscribes it, so the mutex of the manager is held while that of the channel is
taken.  `internal_send` and `publishWithProducer` are `Publish`, which takes the
lock, a `Deliver` or a `Fail` for each subscriber (inactive, or `send` or the
producer throws), and `Sweep`, which unsubscribes the broken ones.  `owed` counts
the subscriptions of a session against the calls of `onUnsubscribed`.

Simplifications: `onUnsubscribed` is the stub of the constructor, to which the
dangling reference of line 107 does no harm; a callback calls the channel but
not its own manager, where it would block at once; a session is created once and a
message published once.  `forEach` visits the entries under the lock, one step each
(`ForEach`, `VisitEntry`, `EndForEach`), and so can meet the null pointer that a
throwing callback left; `find` with a property is `FindSessionByProperty`.  `hasSession`
changes nothing.

### TaskScheduler

The watcher starts when all members are initialised (`m_watcher` is declared before some
of them, `task_scheduler.hpp:121-123`; a watcher that reads them earlier reads
uninitialised values, which the model leaves out).  There is no clock variable: the code only ever looks at the age of a time stamp, so
`age` is `now - m_delay_update_ts`, `left[t]` what `timeLeft` of a scheduled action
gives, `timer` what is left of the current `wait_for`, and `Tick` moves them all.  An
age above `MaxDelay` is as good as any.  `watcher` is between two iterations, waiting or
returned; sections under the mutex are one step each.  A notification that meets no
waiting watcher is lost, and `Wake` follows a notification, an expired timer or
nothing at all (`MaxSpurious`).  `wait_for` has no predicate, so what the watcher does
next depends on `m_suspend_reason` alone, which any of `schedule`, `terminate` and the
watcher itself may have overwritten.  The destructor joins the watcher before anyone
has asked it to terminate: unless some thread calls `terminate()`, it never returns.

### Messages, serializers and Exchange

`Messages` keeps of a set of fields the order of its list, because that order is the
layout on the wire.  `registerField` and `add` insert before the last element
(`Added`), copying inserts each element in front of the one before (`Copied`), so every
copy reverses the list; `odd` counts the copies modulo two.  `AddAll` is what the loop
of additions amounts to, checked against the fold of `Added` by the assumption
`CreationAssumption` of `MCExchange`.

`BinarySerializer` has one operator for each specialisation of the template:
`Written`, `Size` and `Read` of the eight kinds.  Bytes have `Base` values and a
`ContainerSize` is two of them, cut to 16 bits as the cast does; a read past the end
gives `Undefined` and breaks the stream for good; the assertion that a container is not
longer than its count can say (`binary_serializer.hpp:179`) is left out, as in a release
build, and the count wraps; an absent optional leaves the object
as it was; elements of associative containers are inserted one by one.
`CompositeSerializer` looks for the serializer whose tag the context names; JsonCpp is
external, a JSON value the function of its members.

`Exchange` is the way of one message: factories are configured, copied and swapped,
a message is created, assigned and cloned, `WriteMessage` builds the frame as
`TcpTransport::writeMessage` does, with the buffer as long as the wrapped length;
`CreateMessageFromStream` reads it into a message of another factory, and
`DispatchMessage` gives that to the dispatchers.  `WriteDocument` and `RestoreMessage` do
the same through JSON, into a document that may hold members of an earlier message.
A frame as the library writes it cannot be read by the library: it has no message
type, and a length that counts itself where the reader expects one that does not.  The
model therefore has a peer in between that knows both forms and passes on the fields
as they are.

`MessageDispatcher` gives, for a message type, which dispatcher handles it and what
becomes of it: `"handled"`, `"failed"` when the handler threw, `"rejected"` by a filter,
or `"dropped"` because nobody handles it or a rule threw.  A delegate is asked when the
dispatcher has no handler, and then its filters count and not those of the parent.

### The utilities

Six modules of functions with no state that interleaves; `UtilityLaws` states what
their users rely on.  Some of it is worth knowing: a `Maybe<T>` that was moved still
says that it has a value, a moved `Maybe<T&>` does not; the rvalue overload of
`Listenable::invoke` gives its argument to the first listener only, and the others get
what is left; `operator[]` of a `PropertySet` inserts what it does not find; `merge`
ignores a value that is no object where the target has an object; each `run()` of a
`SignalInterceptor` handles one signal; a `ThreadJoiner` stops at the first thread it
cannot join, and the `DeferredCall` around it swallows the exception.

## 3. What is checked

Every run names its bound constants in its `.cfg`.  Deadlock is not checked
anywhere: each of these systems may rightly come to rest (all messages sent and
clock at its bound, pool destroyed, service stopped, process ended).

| Run | Instance | Shows |
|---|---|---|
| `tcp_lockstep` | 1 thread, 2 requests and 1 send, 2 chunks, clock to 3, 2 inbound frames, fairness | an application that waits for each answer gets `IntactWire`, `NoStrandedMessage`, and the liveness properties `EveryMessageLeaves`, `RequestsSettle`, `ShutdownObserved` |
| `tcp_pipelined` | 2 threads, 2 requests, clock to 2, 3 inbound frames, without any discipline | `TypeOK`, `PendingLedger`, `NoReplyOvertakes` and the refinement `ImplementsOutcome` hold for every use |
| `tcp_two_senders` | 2 threads, 3 sends | `NoStrandedMessage` is violated |
| `tcp_one_sender` | 1 thread, 2 messages | `IntactWire` is violated |
| `tcp_two_receivers` | 2 threads that receive, 1 inbound frame | `ReceiveFindsMessage` is violated |
| `pool` | 2 workers, 1 other performer, 2 tasks, fairness | `TypeOK`, `FunctionRunsOnce`, `CancelTruthful`, `ResultDelivered`, `EveryTaskPerformed`, `PoolStops` |
| `task_cancelled_result` | the same | `CancelledTaskReports` is violated |
| `service` | 2 sessions, 2 starts, 2 factories, 59 texts of urls and 20 built ones, ints up to 4; the caller awaits `Started` before `stop()`, fairness | `TypeOK`, `QuietAfterStop`, `QuietUnlessPublished`, `NoLostSocket`, `UrlKept`, `StopReturns`, `TerminationHeard` |
| `service_stop_race` | 1 session, 1 start, no waiting | `StopReturns` is violated |
| `pubsub` | 2 threads, 2 sessions, 2 messages, fairness | `TypeOK`, `Registry`, `SubscribersRegistered`, `SameOrder`, `LeavesOnce`, `ReachesAll`, `CallsReturn` |
| `scheduler` | 3 tasks, delays 0 to 2, 1 spurious wake-up, fairness | `TypeOK`, `WaitFinite`, `NotBeforeItsTime`, `EveryActionExecuted`, `TerminationHeard` |
| `exchange` | 2 factories, 2 types, 9 fields of all 8 kinds, bytes of 4 values | `MessagesTypeOK`, `SameLayout`, `FrameHoldsMessage`, `HandledIfPermitted`, `ReadAsSent` |

Why two ways of using a transport.  `doSend` does not work for every user: two
concurrent senders can leave a message in the queue for good, and even one thread
that sends while a write is outstanding frees the buffer of that write.  The two
violation runs show this, and `tcp_two_receivers` that two threads cannot receive either:
`doReceive` reads the size and pulls in two steps.  `tcp_lockstep` says what remains: with `Pipelined =
FALSE` the next message is sent once every earlier one is answered (`MaySend`),
and then the wire and the queues are in order.  The bookkeeping of requests needs
no such discipline, so `tcp_pipelined` checks it without.

Why the bounds are enough.  The races of `doSend` need two senders and a third
message to be stranded behind, that of `doReceive` two receivers and one message; an overlap needs a frame of two chunks.  A late or
second answer needs two inbound frames, and both beside the answer to another request
three; an expiry needs one request older than
`Timeout`; the 30 seconds of the code are `Timeout` ticks, and `Request` is taken only
while the clock can still reach its expiry, so that a bounded clock does not by itself
leave a request unsettled.  A lost wake-up needs one waiting and one busy worker; two
tasks give one to cancel while the other runs.  A restart needs two starts.  Two orders
of messages need two publishers, two subscribers and two messages; a second
`terminateAll` after one that threw needs one session.  A notification lost to a
watcher that is about to wait needs one task, a delay that has to be shortened needs
two, and the third comes while the watcher executes the first.  With bytes of four
values a length wraps at 16: the data of `exchange` give frames of just the greatest
length and of one byte more, and counts that need the second byte.  A url needs at
most two parameters to have an order.  Those that are built have values with a `-`, an `=`,
an `&` and no word at all, and a name with a `-`; the texts have chains of `=`, ports with
blanks, signs and letters, and a fragment with a line terminator.  With ints up to 4 the
ports 0 to 9 are those that fit, those that do not, and those that a negative one wraps to.

Fairness.  `TcpTransport`: threads go on inside a call, the `io_context` runs
its handlers (one group for the writes, one for the reads: Asio serves every
completion), a connected peer takes bytes, time passes, and the application calls
`removeExpiredRequests` again and again; nothing in `src/` calls it, so
`RequestsSettle` holds only for applications that do.  Sending, answering,
shutting down and losing the connection are never forced.  `ThreadPool`: threads
run and functions of tasks return; submitting, cancelling and destroying are
free.  `MessagingService`: the caller goes on inside `start` and `stop`; the thread
runs; `run()` returns once the context is stopped; a handler that stays ready
while `run()` is entered again and again is served (strong fairness, since `run()`
may be left by an exception in between).  `PubSubMessageChannel`: a thread inside a call
goes on when its next lock is free; calls are never forced.  `TaskScheduler`: the
watcher goes on, time passes, and a join returns once the watcher has; scheduling,
terminating and spurious wake-ups are free.  `Exchange` has only safety properties.

Each property has a mutant of the code in `PROJECT.json` that TLC shows to violate it.

## 4. Disagreements with the documentation

1. `doSend` (`tcp_transport.cpp:60`): a stalled queue with two senders, an
   overwritten buffer with one.  `transport.hpp:48` says "Puts a message into an
   outgoing message queue."
2. `Action::perform` (`task.hpp:267`): a cancel in the gap leaves the future unset,
   and `getResult` waits for ever, where the code elsewhere throws "Attempt to
   access the result of the canceled task".
3. `TcpTransport::doReceive` (`tcp_transport.cpp:70`): of two threads that receive the
   last message one is given an engaged optional with a null pointer, where
   `transport.hpp:58-59` says "message will be returned, otherwise - std::nullopt."
4. `MessagingService::doStart` (`messaging_service.cpp:58`): `Started` overwrites
   `StopPending`; `stop()` never returns, where the test expects `service.stopped()`.

## 5. What is proved

All theorems are for every value of the constants that satisfies the named
assumptions of the modules (disjoint names, bounds that are natural numbers, values
that fit the kind of their field, delegates that are dispatchers, urls whose parts hold no
separator that ends them).  Six have a
hypothesis of their own, on how the code is used or built: `CancelCorrect` and
`ResultCorrect` that `compare_exchange_weak` does not fail spuriously,
`QuietAfterStopCorrect` that the caller awaits `Started`, `NoneEarly` that no wake-up is
spurious, and those of `Lockstep_proofs` below.

* `TcpTransport_proofs!TypeCorrect` (`[]TypeOK`).  The type invariant is not inductive:
  a thread about to fill the buffer must have a message, and a completed read
  must have a frame.  `StepOK` says what each step relies on; `TypeInv` is both.
* `LedgerCorrect` (`[]PendingLedger`).  Strengthened by `Issued`: a request has left
  `fresh` exactly if it has a promise, so `Register` meets no promise already in the map.
* `OutcomeCorrect` (`Spec => ImplementsOutcome`).  Every step is an `Issue`, `Answer` or
  `Expire` of `RequestOutcome` or leaves the promises alone; an answer finds its
  promise pending because the ledger says so.
* `NoOvertakingCorrect` (`[]NoReplyOvertakes`).  Strengthened by `Begun`: whatever is in
  a queue, a hand, the buffer, a write, on the wire or on its way back has left
  `fresh`, so its promise was registered before the peer could answer.
* `Lockstep_proofs!IntactWireCorrect` and `NoStrandingCorrect` (`[]IntactWire`,
  `[]NoStrandedMessage`) assume `Pipelined = FALSE`, for any number of threads that take
  turns; `tcp_one_sender` and `tcp_two_senders` show that neither holds without.  The
  invariant `LockstepInv` adds to `LedgerInv` and `Begun`: one message at a time is begun
  and not answered (`OneOpen`), and a message is answered only when its whole frame is
  on the wire (`AnsweredOnWire`).  `Sending` says what that makes of the sending
  side: a message in a thread's hands is nowhere else (`Hands`), `doSend` finds the queue empty
  (`NoneInProgress`), a queued message has a thread about to pull it and is neither
  written nor on the wire (`Queued`), an unfinished write owns the buffer and its next
  chunk is the one the wire waits for (`Written`), and of the message of an unfinished
  frame no later chunk is on the wire (`LastFrame`).  The arithmetic of chunks and
  frames (`NextPart`, `Remainder`) is apart.
* `ThreadPool_proofs!TypeCorrect` (`[]TypeOK`): those of the tasks, of the pool and of its
  workers.
* `ThreadPool_proofs!RunsOnceCorrect` (`[]FunctionRunsOnce`), with spurious failures and
  in both builds.  `OneRunner`, `RunnerState` and `FutureState` tie the thread inside
  the function to the status and the promise of its task.
* `CancelCorrect` and `ResultCorrect` (`[]CancelTruthful`, `[]ResultDelivered`) assume
  `Spurious = FALSE`, and the first needs it: `compare_exchange_weak` stands outside of a loop
  (`task.hpp:192`), `tryCancel` reports a spurious failure as `Success`, and with
  `Spurious = TRUE` in `pool.cfg` TLC shows `CancelTruthful` violated.
* `PubSubMessageChannel_proofs!RegistryCorrect` (`[]Registry`).  `Registry` speaks of the
  manager between two calls; `Entries` and `Hand` say what holds inside of one, for
  the session in hand, and `ManagerLock` that there is one thread inside.
* `PubSubMessageChannel_proofs!TypeCorrect` (`[]TypeOK`), from the types that each of the
  invariants below needs of its own variables.
* `SubscribersCorrect` and `LeavesOnceCorrect` (`[]SubscribersRegistered`,
  `[]LeavesOnce`).  `Subscribed` lets a session be a subscriber without an entry only
  while its thread is between the erasure and the callback.
* `SameOrderCorrect` (`[]SameOrder`).  `OnePublisher`: the message being published is
  the last wherever it was delivered and not yet delivered where the loop has still
  to go, so it comes after everything else in every outbox.
* `ReachesAllCorrect` (the action property `ReachesAll`).  `Reaching`: while a thread
  publishes it holds the channel, and every subscriber is still to be visited, has the
  message, or failed and is about to be removed.

* `TaskScheduler_proofs!SchedulerTypeOK`, `WatcherWaitFinite`, `EarlyOnlySpurious`
  (`[]TypeOK`, `[]WaitFinite`, `[]NotBeforeItsTime`).  One inductive invariant serves all
  three: besides the types, `DelayKnown` (the delay is infinite over an empty queue, and
  otherwise some queued action is due when it is over), `NotifiedForReason` (a
  notification never comes with the reason `ExecuteTask`, and over a queue the watcher
  was notified or its timer is finite) and `DueWhenExpired` (when a wait with the reason
  `ExecuteTask` ends by its timer, some action is due).  `EarlyOnlySpurious` counts: there
  are at most as many early executions as spurious wake-ups, each of which may cause one,
  and so none if there are none (`NoneEarly`).
* `MessagingService_proofs!ServiceTypeCorrect` (`[]TypeOK`) and `NoLostSocketCorrect`
  (`[]NoLostSocket`) from `IInv`, the types and that a `start()` in progress had a
  number left.
* `QuietUnlessPublishedCorrect` (`[]QuietUnlessPublished`).  Strengthened by `OneThread`
  (a thread that runs is the one `m_io` holds, or the new one during a second
  `start()`) and `Published` (a mutex that is held means that `stop()` is in progress).
* `QuietAfterStopCorrect` (`[]QuietAfterStop`) assumes `AwaitStarted`.  `Awaits` ties each
  value of `m_state` to where the caller and the thread can be; the run
  `service_stop_race` shows what happens without the assumption.
* `Exchange_proofs!MessagesTypeCorrect` (`[]MessagesTypeOK`) and `SameLayoutCorrect`
  (`[]SameLayout`).  Every descriptor is the configured list or its reverse as `odd`
  says, and every message is what its type and the two parities say; that is
  inductive because reversing twice gives the list back.
* `Exchange_proofs!DispatchCorrect` (`[]HandledIfPermitted`).  A search of a list returns
  the least index with what it looks for (`MinFacts`: the natural numbers are well
  founded), from which follow, one upon the other, what any of the rules says
  (`SatisfiesFacts`), what a filter does with it under each policy (`MatchesFacts`), the
  chain (`ChainFacts`), the dispatcher that handles (`HandleFacts`) and the one that is
  found (`DispatchFacts`).  `OneMessage` says that an outcome is that of the last frame.
* `Frame_proofs!FrameCorrect` (`[]FrameHoldsMessage`).  For a value of every kind `size` is
  the number of bytes `serialize` writes (`WrittenFacts`), whichever composition of
  serializers the field has (`WriteFieldFacts`).  A sum over fields in any number is a
  function on the sets of indices that is defined by itself; that there is one is proved
  by an induction on the number of fields (`FoldExists`, over the set of the lengths it
  is true of, `UpTo`), and so is that the sum and the bytes agree (`SerializedFacts`).
  `Framed` says that the values an application can set fit their kinds, and that a
  frame is the one of its message.

* `Frame_proofs!ReadAsSentCorrect` (the action property `ReadAsSent`), in four layers.
  A value: what `Read` makes of the bytes of `Written`, with anything behind them, is the
  value and the rest, for each of the eight kinds (`ReadFacts`); a count is read as it was
  written if it fits its two bytes (`FromBytesToBytes`), and it does in a frame that was
  not overrun, since no value is longer than its bytes (`LengthFacts`).  A message: after
  k reads the first k fields have their values and the stream holds what was written of
  the others (`WireRead`, by the induction of `FoldExists`).  A document: a member is found
  where it was put (`PutFacts`) and stays there while others are (`HoldsStill`), so all of
  them are there at the end, whatever the document held before (`DocumentWritten`,
  `DocumentRead`).  The system: `Kept` says that a message differs from a new one only in
  the fields of its type, laid out as its copies say, that the document is what was
  written of its message, and that the frame has such a message; together with
  `LayoutByCopies` of `SameLayoutCorrect` the reader's order is the writer's.  The named
  assumptions it rests on: an optional has no value to begin with, the keys of an
  associative container are in order, and `Undefined` is no sequence of bytes.
* `MessagingService_proofs!UrlKeptCorrect` (`[]UrlKept`).  The state part is easy: a url in
  an application's hands is one of `Urls` (`UrlInvariant`).  The theorem is about texts of
  any length.  Searching for the first delimiter gives back what was put in front of it
  (`BeforeDelimiter`), from which the groups of `s_regex` are the protocol, the host and
  port, the path and the parameters (`GroupsFacts`), and the port is read from the host
  (`HostFacts`).  Where `s_param_regex` matches on either side of a `&` does not depend on
  the other side (`CandidateFacts`, `JoinedMatches`, `JoinedFinds`), so that of parameters in
  any number and order it finds what it finds of each alone (`GatherStep`, by an induction
  along `FlattenSeq`; `ParameterTextFacts`; `OrderFacts` for `SetToSeqs`).  Of the finds of
  one name one is kept (`ParsedFacts`, `KeptFacts`), and a parameter of two words is its own
  find (`PlainFinds`).  Two assumptions: `NumeralAssumption`, a port is written as a word
  whose digits give it back; and `UrlsAssumption`, no part of a url holds a separator that
  would end it (`WellFormed`).  `UrlBuilder` checks nothing of the kind, so of urls that were
  built it is a condition on the application.  Nothing is assumed of the parameters but
  that they hold no `#`.
* `ParsedUrlCorrect` is why it is none on urls that were parsed: whatever text `parse`
  accepts, chains of `=`, blanks, signs and other characters included, the url is
  `WellFormed` and its parameters are pairs of words, and writing and parsing give exactly
  that url again if its port is in the range of `int`, and are refused if it is not, as that
  of a negative number that wrapped.

Every property of a passing run that is an invariant or a property of single steps is
proved.  Only model-checked: all liveness (`EveryMessageLeaves`, `RequestsSettle`,
`ShutdownObserved`, `EveryTaskPerformed`, `PoolStops`, `StopReturns`, `CallsReturn`, the
`TerminationHeard` of the service and of the scheduler, `EveryActionExecuted`), because the
prover treats neither fairness nor `ENABLED`; and the laws of the utilities, which TLC
evaluates for the instances that `UtilityLaws` names.

## 6. What is not modelled, and the plan

* `Guard`: no source file includes it, and its constructor with arguments does not
  compile.  `HandlerMapping` includes a header that does not exist.  `ValueHolder` is a
  value.
* The exceptions and the examples other than the custom serializer: formatting, files,
  and types without behaviour.
* Reading and writing JSON text, name resolution, the signals of the operating system:
  external.
* Object lifetime.  Handlers keep a raw pointer to their transport, and the channel a
  reference to an erased entry (`pubsub_message_channel.cpp:107`); the models keep every
  object alive.  The hazards without a property in `PROJECT.json` are of this kind, or
  are behaviour that no document speaks about (a pool that is told to terminate with
  tasks queued, a service that is started twice).

What is left are models of these: a transport that is destroyed under its handlers, and
frames as two processes without a peer in between would read them, once the writer and
the reader of the source agree on their form.
