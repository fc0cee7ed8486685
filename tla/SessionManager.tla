--------------------------- MODULE SessionManager ---------------------------
(***************************************************************************)
(* The SessionManager: threads create and terminate sessions, one critical *)
(* section of m_sessions_guard each, and the application's callbacks run   *)
(* inside.  A callback may call another component and may throw.  What the *)
(* callbacks onSessionOpened and onSessionTerminated do is left to the     *)
(* module that composes the manager with what they call.                   *)
(***************************************************************************)
EXTENDS Integers, FiniteSets

CONSTANTS
    Threads,
    Sessions,
    None

ASSUME ManagerAssumption == None \notin Threads \cup Sessions

VARIABLES
    m_sessions,        \* the map: "none", a session "held", or a "null" pointer
    m_sessions_guard,  \* the thread that holds the mutex, or None
    transport,         \* the state of the transport of each session
    socket,
    managing,          \* of each thread: its step inside a call of the manager
    ids,               \* the ids it still has to terminate, or to visit
    victim,            \* the session it opens or terminates
    thrown,            \* the sessions onSessionTerminating threw for
    crashed            \* a null pointer was dereferenced

managerVars == <<m_sessions, m_sessions_guard, transport, socket, managing, ids, victim,
                 thrown, crashed>>

ManagerTypeOK ==
    /\ m_sessions \in [Sessions -> {"none", "held", "null"}]
    /\ m_sessions_guard \in Threads \cup {None}
    /\ transport \in [Sessions -> {"Stopped", "Started", "StopPending"}]
    /\ socket \in [Sessions -> {"none", "open", "closed"}]
    /\ managing \in [Threads -> {"idle", "opened", "next", "terminating", "terminated", "visiting"}]
    /\ ids \in [Threads -> SUBSET Sessions]
    /\ victim \in [Threads -> Sessions \cup {None}]
    /\ thrown \subseteq Sessions
    /\ crashed \in BOOLEAN

ManagerInit ==
    /\ m_sessions = [s \in Sessions |-> "none"]
    /\ m_sessions_guard = None
    /\ transport = [s \in Sessions |-> "Stopped"]
    /\ socket = [s \in Sessions |-> "none"]
    /\ managing = [t \in Threads |-> "idle"]
    /\ ids = [t \in Threads |-> {}]
    /\ victim = [t \in Threads |-> None]
    /\ thrown = {}
    /\ crashed = FALSE

\* Session::active
Active(s) == transport[s] = "Started"

\* std::lock_guard lock { m_sessions_guard }
ManagerFree_unlocked == TRUE
ManagerFree == m_sessions_guard = None

Go(t, step, s) ==
    /\ managing' = [managing EXCEPT ![t] = step]
    /\ victim' = [victim EXCEPT ![t] = s]

\* createSession up to its callback.  Bound: a session is created once.
CreateSession(t, s) ==
    /\ managing[t] = "idle" /\ ManagerFree
    /\ socket[s] = "none"
    /\ m_sessions_guard' = t
    /\ m_sessions' = [m_sessions EXCEPT ![s] = "held"]
    /\ transport' = [transport EXCEPT ![s] = "Started"]
    /\ socket' = [socket EXCEPT ![s] = "open"]
    /\ Go(t, "opened", s)
    /\ UNCHANGED <<ids, thrown, crashed>>

\* The callback onSessionOpened has returned or thrown: the section ends.
Opened(t) ==
    /\ managing[t] = "opened"
    /\ m_sessions_guard' = None
    /\ Go(t, "idle", None)
    /\ UNCHANGED <<m_sessions, transport, socket, ids, thrown, crashed>>

BeginTerminate(t, S) ==
    /\ managing[t] = "idle" /\ ManagerFree
    /\ m_sessions_guard' = t
    /\ ids' = [ids EXCEPT ![t] = S]
    /\ Go(t, "next", None)
    /\ UNCHANGED <<m_sessions, transport, socket, thrown>>

Terminate(t, s) == BeginTerminate(t, {s}) /\ UNCHANGED crashed

\* terminateAll asks every entry for its id.
TerminateAll(t) ==
    /\ BeginTerminate(t, {s \in Sessions : m_sessions[s] # "none"})
    /\ crashed' = (\E s \in Sessions : m_sessions[s] = "null")

\* terminateSessionNoLock moves the pointer out of the entry it finds.
Take(t, s) ==
    /\ managing[t] = "next" /\ s \in ids[t]
    /\ ids' = [ids EXCEPT ![t] = ids[t] \ {s}]
    /\ \/ /\ m_sessions[s] = "none"
          /\ UNCHANGED <<m_sessions, managing, victim, crashed>>
       \/ /\ m_sessions[s] = "held"
          /\ m_sessions' = [m_sessions EXCEPT ![s] = "null"]
          /\ Go(t, "terminating", s)
          /\ UNCHANGED crashed
       \/ /\ m_sessions[s] = "null"
          /\ crashed' \in BOOLEAN   \* the callback may throw before shutdown()
          /\ UNCHANGED <<m_sessions, managing, victim>>
    /\ UNCHANGED <<m_sessions_guard, transport, socket, thrown>>

\* onSessionTerminating throws: the exception is swallowed, the entry stays.
TerminatingThrows(t) ==
    /\ managing[t] = "terminating"
    /\ thrown' = thrown \cup {victim[t]}
    /\ Go(t, "next", None)
    /\ UNCHANGED <<m_sessions, m_sessions_guard, transport, socket, ids, crashed>>

\* It returns: the session is shut down and erased.
Entry_kept == "null"
Entry == "none"

ShutdownSession(t) ==
    /\ managing[t] = "terminating"
    /\ socket' = [socket EXCEPT ![victim[t]] = "closed"]
    /\ m_sessions' = [m_sessions EXCEPT ![victim[t]] = Entry]
    /\ Go(t, "terminated", victim[t])
    /\ UNCHANGED <<m_sessions_guard, transport, ids, thrown, crashed>>

\* The callback onSessionTerminated has returned or thrown.
Terminated(t) ==
    /\ managing[t] = "terminated"
    /\ Go(t, "next", None)
    /\ UNCHANGED <<m_sessions, m_sessions_guard, transport, socket, ids, thrown, crashed>>

EndTerminate(t) ==
    /\ managing[t] = "next" /\ ids[t] = {}
    /\ m_sessions_guard' = None
    /\ Go(t, "idle", None)
    /\ UNCHANGED <<m_sessions, transport, socket, ids, thrown, crashed>>

\* forEach calls an action of the application, under the lock, for every entry.
ForEach(t) ==
    /\ managing[t] = "idle" /\ ManagerFree
    /\ m_sessions_guard' = t
    /\ ids' = [ids EXCEPT ![t] = {s \in Sessions : m_sessions[s] # "none"}]
    /\ Go(t, "visiting", None)
    /\ UNCHANGED <<m_sessions, transport, socket, thrown, crashed>>

\* The action may test the pointer before it uses the session, and what it throws
\* ends the loop.
VisitEntry(t, s) ==
    /\ managing[t] = "visiting" /\ s \in ids[t]
    /\ crashed' \in BOOLEAN /\ (crashed' => m_sessions[s] = "null")
    /\ \E left \in {{}, ids[t] \ {s}} : ids' = [ids EXCEPT ![t] = left]
    /\ UNCHANGED <<m_sessions, m_sessions_guard, transport, socket, managing, victim, thrown>>

EndForEach(t) ==
    /\ managing[t] = "visiting" /\ ids[t] = {}
    /\ m_sessions_guard' = None
    /\ Go(t, "idle", None)
    /\ UNCHANGED <<m_sessions, transport, socket, ids, thrown, crashed>>

\* findSessionByProperty asks the entries in the order of the hash table for their
\* properties, until one has the value.
FindSessionByProperty(t) ==
    /\ managing[t] = "idle" /\ ManagerFree
    /\ crashed' \in BOOLEAN /\ (crashed' => \E s \in Sessions : m_sessions[s] = "null")
    /\ UNCHANGED <<m_sessions, m_sessions_guard, transport, socket, managing, ids, victim, thrown>>

\* A failed read or write ends the session: its socket was closed or its peer
\* is gone.
Disconnect(s) ==
    /\ Active(s)
    /\ transport' = [transport EXCEPT ![s] = "StopPending"]
    /\ UNCHANGED <<m_sessions, m_sessions_guard, socket, managing, ids, victim, thrown, crashed>>

ManagerStep(t) ==
    \/ \E s \in Sessions : Take(t, s) \/ VisitEntry(t, s)
    \/ TerminatingThrows(t) \/ ShutdownSession(t) \/ EndTerminate(t) \/ EndForEach(t)

-----------------------------------------------------------------------------
(* Properties.                                                             *)

\* Between two calls the map and the sessions agree: an entry holds a session
\* that was not shut down, a session without an entry was, and an entry without a
\* session is one whose onSessionTerminating threw in terminateSessionNoLock.
Registry ==
    m_sessions_guard = None =>
        \A s \in Sessions :
            /\ m_sessions[s] = "held" => socket[s] = "open" /\ s \notin thrown
            /\ m_sessions[s] = "none" => socket[s] # "open"
            /\ m_sessions[s] = "null" => s \in thrown
=============================================================================
