-------------------------- MODULE MessagingService --------------------------
(***************************************************************************)
(* The life of a MessagingService: start() launches a thread that runs the *)
(* io_context until it sees StopPending, stop() terminates the sessions,   *)
(* stops the io_context and waits for that thread.  Caller and thread both *)
(* write m_state.  Other threads connect and terminate sessions meanwhile, *)
(* and the service is published and terminated by a ServiceManager, which  *)
(* the handlers ask for it.  Of a session only what its life shows:        *)
(* TcpTransport has the rest.                                              *)
(***************************************************************************)
EXTENDS Integers, Sequences, SequencesExt, Url, ServiceManager

CONSTANTS
    Sessions,
    MaxStarts,      \* bound: how often start() is called
    AwaitStarted,   \* the caller awaits Started before stop, Stopped before start
    Factories,      \* the protocols of each factory, in the order of registerFactory
    Urls,           \* the urls applications connect to
    None

ASSUME ServiceAssumption ==
    MaxStarts \in Nat /\ AwaitStarted \in BOOLEAN /\ None \notin Sessions

\* An application parses its urls, or gives the builder parts without separators in
\* them: nothing checks that.
ASSUME UrlsAssumption == \A u \in Urls : WellFormed(u)

Runs == 1..MaxStarts   \* the threads std::async launches, by number

VARIABLES
    m_state,
    caller,        \* where the thread is that calls start() and stop()
    starts,        \* the number of the last thread launched
    m_io,          \* the thread of the future m_io holds, 0 if it holds none
    io,            \* where each thread is
    ioc_stopped,   \* io_context::stop was called; nothing calls restart
    m_sessions,    \* the registered sessions
    transport,     \* the state of the transport of each session
    socket,        \* "none", "open" or "closed"
    stopped,       \* stop() has returned and start() was not called since
    m_factories,   \* those of the transport registry
    url,           \* the one an application thread has made and not used yet
    connecting     \* the session whose socket connect() has opened, or None

sessionVars == <<m_sessions, transport, socket>>
connectVars == <<m_factories, url, connecting>>
restVars == <<sessionVars, connectVars, managerVars>>
vars == <<m_state, caller, starts, m_io, io, ioc_stopped, stopped, restVars>>

States == {"StartPending", "Started", "StopPending", "Stopped"}

\* Every variable has its type; m_io holds no thread that was not launched.
TypeOK ==
    /\ m_state \in States
    /\ caller \in {"idle", "launch", "join", "terminate_all", "ioc_stop", "wait"}
    /\ starts \in 0..MaxStarts
    /\ m_io \in 0..starts
    /\ io \in [Runs -> {"none", "set_started", "test", "run", "asking", "set_stopped", "done"}]
    /\ ioc_stopped \in BOOLEAN
    /\ m_sessions \subseteq Sessions
    /\ transport \in [Sessions -> {"Stopped", "Started", "StopPending"}]
    /\ socket \in [Sessions -> {"none", "open", "closed"}]
    /\ stopped \in BOOLEAN
    /\ connecting \in Sessions \cup {None}
    /\ ManagerTypeOK

Init ==
    /\ m_state = "Stopped"
    /\ caller = "idle"
    /\ starts = 0 /\ m_io = 0
    /\ io = [n \in Runs |-> "none"]
    /\ ioc_stopped = FALSE
    /\ m_sessions = {}
    /\ transport = [s \in Sessions |-> "Stopped"]
    /\ socket = [s \in Sessions |-> "none"]
    /\ stopped = FALSE
    /\ m_factories = <<>> /\ url = EmptyUrl /\ connecting = None
    /\ ManagerInit

-----------------------------------------------------------------------------
(* The thread that owns the service: it publishes it, calls start() and    *)
(* stop(), or terminates it by the manager.                                *)

NewThreads_future_kept == starts' = 0 /\ UNCHANGED m_io /\ io' = [n \in Runs |-> "none"]
NewThreads == starts' = 0 /\ m_io' = 0 /\ io' = [n \in Runs |-> "none"]

\* A new service, in place of the one terminated before, whose last owner this is.
Publish ==
    /\ caller = "idle" /\ connecting = None
    /\ PublishService
    /\ NewThreads
    /\ m_state' = "Stopped" /\ ioc_stopped' = FALSE /\ stopped' = FALSE
    /\ m_sessions' = {} /\ m_factories' = <<>> /\ url' = EmptyUrl
    /\ transport' = [s \in Sessions |-> "Stopped"]
    /\ socket' = [s \in Sessions |-> "none"]
    /\ UNCHANGED <<caller, connecting>>

Start ==
    /\ caller = "idle" /\ m_services /\ starts < MaxStarts
    /\ AwaitStarted => m_state = "Stopped"
    /\ m_state' = "StartPending"
    /\ caller' = "launch"
    /\ stopped' = FALSE
    /\ UNCHANGED <<starts, m_io, io, ioc_stopped, restVars>>

\* The assignment to m_io destroys the future it held, and a future of
\* std::async waits for its thread when it is destroyed.
Launch ==
    /\ caller = "launch"
    /\ starts' = starts + 1
    /\ io' = [io EXCEPT ![starts + 1] = "set_started"]
    /\ caller' = IF m_io = 0 THEN "idle" ELSE "join"
    /\ m_io' = IF m_io = 0 THEN starts + 1 ELSE m_io
    /\ UNCHANGED <<m_state, ioc_stopped, stopped, restVars>>

Join ==
    /\ caller = "join" /\ io[m_io] = "done"
    /\ m_io' = starts
    /\ caller' = "idle"
    /\ UNCHANGED <<m_state, starts, io, ioc_stopped, stopped, restVars>>

DoStop ==
    /\ caller = "idle"
    /\ AwaitStarted => m_state = "Started"
    /\ m_state' = "StopPending"
    /\ caller' = "terminate_all"
    /\ UNCHANGED <<starts, m_io, io, ioc_stopped, stopped, sessionVars, connectVars>>

Stop == DoStop /\ m_services /\ UNCHANGED managerVars
Terminate == DoStop /\ BeginTerminate

\* Shuts down the sessions of S, in one critical section of the manager.
TerminateSessions_left_open(S) ==
    /\ m_sessions' = m_sessions \ S
    /\ UNCHANGED <<socket, transport>>
TerminateSessions(S) ==
    /\ m_sessions' = m_sessions \ S
    /\ socket' = [s \in Sessions |-> IF s \in S THEN "closed" ELSE socket[s]]
    /\ UNCHANGED transport

TerminateAll ==
    /\ caller = "terminate_all"
    /\ TerminateSessions(m_sessions)
    /\ caller' = "ioc_stop"
    /\ UNCHANGED <<m_state, starts, m_io, io, ioc_stopped, stopped, connectVars, managerVars>>

StopContext_forgotten == UNCHANGED ioc_stopped
StopContext == ioc_stopped' = TRUE

IocStop ==
    /\ caller = "ioc_stop"
    /\ StopContext
    /\ caller' = "wait"
    /\ UNCHANGED <<m_state, starts, m_io, io, stopped, restVars>>

\* wait() throws on a future that holds nothing, and stop() swallows it.
Awaited_at_once == TRUE
Awaited == m_io \in Runs => io[m_io] = "done"

Wait ==
    /\ caller = "wait" /\ Awaited
    /\ caller' = "idle"
    /\ stopped' = TRUE
    /\ StopReturned
    /\ UNCHANGED <<m_state, starts, m_io, io, ioc_stopped, sessionVars, connectVars>>

-----------------------------------------------------------------------------
(* The thread that runs the io_context.                                    *)

Go(n, step) ==
    /\ io' = [io EXCEPT ![n] = step]
    /\ UNCHANGED <<caller, starts, m_io, ioc_stopped, stopped, restVars>>

SetStarted(n) == io[n] = "set_started" /\ m_state' = "Started" /\ Go(n, "test")

KeepsRunning_inverted == m_state = "StopPending"
KeepsRunning == m_state # "StopPending"

Test(n) ==
    /\ io[n] = "test"
    /\ Go(n, IF KeepsRunning THEN "run" ELSE "set_stopped")
    /\ UNCHANGED m_state

\* run() returns because the context was stopped, or throws what a handler threw.
RunReturns(n) == io[n] = "run" /\ Go(n, "test") /\ UNCHANGED m_state

SetStopped(n) == io[n] = "set_stopped" /\ m_state' = "Stopped" /\ Go(n, "done")

\* A stopped context runs no handler.
Runnable(n) == io[n] = "run" /\ ~ioc_stopped

\* The handler of the read that the closed socket aborted.
ReadAborted(n, s) ==
    /\ Runnable(n)
    /\ socket[s] = "closed" /\ transport[s] = "Started"
    /\ transport' = [transport EXCEPT ![s] = "StopPending"]
    /\ UNCHANGED <<m_state, caller, starts, m_io, io, ioc_stopped, stopped, m_sessions, socket,
                   connectVars, managerVars>>

\* A handler of the application calls getService.
Ask(n) == Runnable(n) /\ Go(n, "asking") /\ UNCHANGED m_state
GetService(n) == io[n] = "asking" /\ ManagerFree /\ Go(n, "run") /\ UNCHANGED m_state

-----------------------------------------------------------------------------
(* Any thread: connect(), and SessionManager::terminate(id).               *)

RegisterFactory ==
    /\ m_services /\ Len(m_factories) < Len(Factories)
    /\ m_factories' = Append(m_factories, Factories[Len(m_factories) + 1])
    /\ UNCHANGED <<m_state, caller, starts, m_io, io, ioc_stopped, stopped, sessionVars, url,
                   connecting, managerVars>>

\* Bound: one url at a time, and one connect.
MakeUrl ==
    /\ m_services /\ url = EmptyUrl /\ connecting = None
    /\ url' \in Urls
    /\ UNCHANGED <<m_state, caller, starts, m_io, io, ioc_stopped, stopped, sessionVars,
                   m_factories, connecting, managerVars>>

Supports(factory, protocol) == protocol \in factory

\* The last factory that supports the protocol.
GetFactory(protocol) ==
    FoldLeft(LAMBDA maybe, factory :
                IF Supports(factory, protocol) THEN Some(factory) ELSE maybe,
             Nothing, m_factories)

\* The host name is resolved and its first endpoint connected, or either fails.
CreateTransport(s) == {Success(s), Failure("resolve"), Failure("connect")}

\* connect() up to createSession, without a lock.  A socket that could not be
\* connected is closed before anyone has it.
Connect(s) ==
    /\ url # EmptyUrl /\ connecting = None /\ socket[s] = "none"
    /\ url' = EmptyUrl
    /\ \/ /\ IsNone(GetFactory(url.protocol))
          /\ UNCHANGED <<connecting, socket>>
       \/ /\ IsSome(GetFactory(url.protocol))
          /\ \E result \in CreateTransport(s) :
                /\ connecting' = IF Succeeded(result) THEN s ELSE None
                /\ socket' = IF Succeeded(result) THEN [socket EXCEPT ![s] = "open"] ELSE socket
    /\ UNCHANGED <<m_state, caller, starts, m_io, io, ioc_stopped, stopped, m_sessions,
                   transport, m_factories, managerVars>>

\* createSession.  If onSessionOpened throws, connect() reports an internal error
\* and the session is there all the same.
CreateSession(s) ==
    /\ connecting = s /\ connecting' = None
    /\ m_sessions' = m_sessions \cup {s}
    /\ transport' = [transport EXCEPT ![s] = "Started"]
    /\ UNCHANGED <<m_state, caller, starts, m_io, io, ioc_stopped, stopped, socket,
                   m_factories, url, managerVars>>

TerminateSession(s) ==
    /\ s \in m_sessions
    /\ TerminateSessions({s})
    /\ UNCHANGED <<m_state, caller, starts, m_io, io, ioc_stopped, stopped, connectVars,
                   managerVars>>

-----------------------------------------------------------------------------
CallerStep == Launch \/ Join \/ TerminateAll \/ IocStop \/ Wait
IoStep(n) == SetStarted(n) \/ Test(n) \/ SetStopped(n) \/ GetService(n)
Leaving(n) == ioc_stopped /\ RunReturns(n)
Handlers(n) == \E s \in Sessions : ReadAborted(n, s)

Next ==
    \/ Publish \/ Start \/ Stop \/ Terminate \/ CallerStep
    \/ \E n \in Runs : IoStep(n) \/ RunReturns(n) \/ Handlers(n) \/ Ask(n)
    \/ RegisterFactory \/ MakeUrl
    \/ \E s \in Sessions : Connect(s) \/ CreateSession(s) \/ TerminateSession(s)

Spec == Init /\ [][Next]_vars

(* The caller goes on inside start() and stop(), the thread runs, and run() *)
(* returns once the context is stopped and serves its handlers until then.  *)
Fairness ==
    /\ WF_vars(CallerStep)
    /\ \A n \in Runs : WF_vars(IoStep(n)) /\ WF_vars(Leaving(n)) /\ SF_vars(Handlers(n))

FairSpec == Spec /\ Fairness

-----------------------------------------------------------------------------
(* Properties.                                                             *)

\* A call of stop() returns: the thread that m_io.wait() waits for sees
\* StopPending after io_context::stop has made run() return.  One of terminate()
\* does not if a handler asks the manager meanwhile: the two wait for each other.
StopReturns ==
    caller \in {"terminate_all", "ioc_stop", "wait"}
        ~> caller = "idle" \/ (~ManagerFree /\ \E n \in Runs : io[n] = "asking")

\* When stop() has returned the service says it is stopped and none of its
\* threads runs a handler any more: the caller may free what they use.
QuietAfterStop ==
    stopped => m_state = "Stopped" /\ \A n \in Runs : io[n] \in {"none", "done"}

\* Who does not find the service any more finds it quiet: no thread of it runs, and
\* it can be published anew, however its sessions are connected meanwhile.
QuietUnlessPublished ==
    ~m_services => caller = "idle" /\ \A n \in Runs : io[n] \in {"none", "done"}

\* An open socket belongs to a session the manager knows, so that it is closed by a
\* terminateAll to come or destroyed with the manager, or to a call of connect() that
\* is about to hand it over: no path of connect() forgets one.
NoLostSocket ==
    \A s \in Sessions : socket[s] = "open" => s \in m_sessions \/ connecting = s

\* A session that is terminated while the service runs becomes inactive, by the
\* handler of its aborted read; only stopping the io_context can prevent that.
TerminationHeard ==
    \A s \in Sessions :
        socket[s] = "closed" /\ m_state = "Started"
            ~> transport[s] = "StopPending" \/ ioc_stopped

\* A url that is written and parsed again names the same place, whatever it was made
\* of and in whichever order its parameters are written: its path has the leading
\* slash and the query in it.  Its parameters are read one by one: each comes back as
\* what is found in it alone, which is k=a of k=a-b, y=z of x-y=z and nothing of l=-,
\* and finds of one name replace each other.  One of two words is as it was, unless
\* another has a find of its name.  A port that exceeds an int cannot be parsed.
UrlKept ==
    url # EmptyUrl =>
        LET slash == IF url.path # <<>> /\ url.path[1] # "/" THEN <<"/">> ELSE <<>>
            query == IF url.query # <<>> THEN <<"/">> \o url.query ELSE <<>>
            finds == UNION {Finds(Written(p)) : p \in url.parameters}
            words == {<<w>> : w \in Words}
        IN  \A text \in Texts(url) :
                LET parsed == Parse(text)
                    kept == parsed.value.parameters
                IN  IF url.port > IntMax THEN parsed = Failure("MalformedUrl")
                    ELSE /\ Succeeded(parsed)
                         /\ parsed.value = [url EXCEPT !.path = slash \o url.path \o query,
                                                      !.query = <<>>, !.parameters = kept]
                         /\ kept \subseteq finds
                         /\ \A p \in finds : \E q \in kept : q[1] = p[1]
                         /\ \A p, q \in kept : p[1] = q[1] => p = q
                         /\ \A p \in url.parameters \cap (words \X words) :
                                (\A q \in finds : q[1] = p[1] => q = p) => p \in kept
=============================================================================
