----------------------- MODULE MessagingService_proofs -----------------------
(***************************************************************************)
(* Proofs about a MessagingService, for any number of sessions, starts and *)
(* factories: what holds of its threads when stop() has returned, when the *)
(* manager has erased it, and of the sockets that connect() opens; and of  *)
(* urls of any parts, what is left of them when they are written and       *)
(* parsed.                                                                 *)
(***************************************************************************)
EXTENDS MessagingService, TLAPS, SequenceTheorems, FiniteSetTheorems, WellFoundedInduction

Stopping == {"terminate_all", "ioc_stop", "wait"}

Quiet == \A n \in Runs : io[n] \in {"none", "done"}

\* A call of start() that has not returned had a number left.
StartsLeft == caller = "launch" => starts < MaxStarts

IInv == TypeOK /\ StartsLeft

USE ServiceAssumption

LEMMA InitInv == ASSUME Init PROVE IInv
<1>1. 0 \in 0..MaxStarts /\ 0 \in 0..0
  OBVIOUS
<1>2. /\ io \in [Runs -> {"none", "set_started", "test", "run", "asking", "set_stopped", "done"}]
      /\ transport \in [Sessions -> {"Stopped", "Started", "StopPending"}]
      /\ socket \in [Sessions -> {"none", "open", "closed"}]
  BY DEF Init
<1> QED BY <1>1, <1>2 DEF Init, IInv, TypeOK, StartsLeft, States, ManagerTypeOK, ManagerInit

LEMMA NextInv == ASSUME IInv, [Next]_vars PROVE IInv'
<1> USE DEF IInv, TypeOK, StartsLeft, States, ManagerTypeOK, Runs
<1>1. CASE Publish
  <2>1. 0 \in 0..MaxStarts /\ 0 \in 0..0
    OBVIOUS
  <2>2. /\ io' \in [1..MaxStarts -> {"none", "set_started", "test", "run", "asking",
                                 "set_stopped", "done"}]
        /\ transport' \in [Sessions -> {"Stopped", "Started", "StopPending"}]
        /\ socket' \in [Sessions -> {"none", "open", "closed"}]
    BY <1>1 DEF Publish, NewThreads
  <2> QED BY <1>1, <2>1, <2>2 DEF Publish, NewThreads, PublishService
<1>2. CASE Start
  BY <1>2 DEF Start, restVars, sessionVars, managerVars, connectVars
<1>3. CASE Launch
  BY <1>3 DEF Launch, restVars, sessionVars, managerVars, connectVars
<1>4. CASE Join \/ IocStop
  <2>1. CASE Join
    BY <2>1 DEF Join, restVars, sessionVars, managerVars, connectVars
  <2>2. CASE IocStop
    BY <2>2 DEF IocStop, StopContext, restVars, sessionVars, managerVars, connectVars
  <2> QED BY <1>4, <2>1, <2>2
<1>5. CASE Stop \/ Terminate
  BY <1>5 DEF Stop, Terminate, DoStop, BeginTerminate, restVars, sessionVars, managerVars,
              connectVars
<1>6. CASE TerminateAll
  BY <1>6 DEF TerminateAll, TerminateSessions, managerVars, connectVars
<1>7. CASE Wait
  BY <1>7 DEF Wait, StopReturned, sessionVars, connectVars
<1>8. ASSUME NEW n \in Runs, IoStep(n) \/ RunReturns(n) \/ Ask(n)
      PROVE  IInv'
  BY <1>8 DEF IoStep, RunReturns, Ask, SetStarted, Test, SetStopped, GetService, Go,
              restVars, sessionVars, managerVars, connectVars
<1>9. ASSUME NEW n \in Runs, Handlers(n) PROVE IInv'
  BY <1>9 DEF Handlers, ReadAborted, managerVars, connectVars
<1>10. CASE RegisterFactory \/ MakeUrl
  BY <1>10 DEF RegisterFactory, MakeUrl, sessionVars, managerVars
<1>11. ASSUME NEW s \in Sessions, Connect(s) PROVE IInv'
  BY <1>11 DEF Connect, managerVars
<1>12. ASSUME NEW s \in Sessions, CreateSession(s) PROVE IInv'
  BY <1>12 DEF CreateSession, managerVars
<1>13. ASSUME NEW s \in Sessions, TerminateSession(s) PROVE IInv'
  BY <1>13 DEF TerminateSession, TerminateSessions, managerVars, connectVars
<1>14. CASE UNCHANGED vars
  BY <1>14 DEF vars, restVars, sessionVars, managerVars, connectVars
<1> QED
  BY <1>1, <1>2, <1>3, <1>4, <1>5, <1>6, <1>7, <1>8, <1>9, <1>10, <1>11, <1>12, <1>13, <1>14
  DEF Next, CallerStep

LEMMA Invariant == Spec => []IInv
  BY InitInv, NextInv, PTL DEF Spec

\* Every variable of a service keeps its type: m_io never holds the future of a thread
\* that start() has not launched, however often the service is published anew.
THEOREM ServiceTypeCorrect == Spec => []TypeOK
<1>1. IInv => TypeOK
  BY DEF IInv
<1> QED BY <1>1, Invariant, PTL

-----------------------------------------------------------------------------
(* Sockets.                                                                *)

LEMMA SocketStep == ASSUME IInv, NoLostSocket, [Next]_vars PROVE NoLostSocket'
<1> USE DEF NoLostSocket
<1>0. /\ m_sessions \subseteq Sessions /\ socket \in [Sessions -> {"none", "open", "closed"}]
      /\ None \notin Sessions
  BY DEF IInv, TypeOK
<1>1. CASE Publish
  BY <1>1 DEF Publish, NewThreads
<1>2. CASE UNCHANGED <<m_sessions, socket, connecting>>
  BY <1>2
<1>3. ASSUME NEW S \in SUBSET Sessions, TerminateSessions(S), UNCHANGED connecting
      PROVE  NoLostSocket'
  BY <1>0, <1>3 DEF TerminateSessions
<1>4. ASSUME NEW s \in Sessions, Connect(s) PROVE NoLostSocket'
  BY <1>0, <1>4 DEF Connect
<1>5. ASSUME NEW s \in Sessions, CreateSession(s) PROVE NoLostSocket'
  BY <1>0, <1>5 DEF CreateSession
<1>6. CASE TerminateAll
  BY <1>0, <1>3, <1>6 DEF TerminateAll, connectVars
<1>7. ASSUME NEW s \in Sessions, TerminateSession(s) PROVE NoLostSocket'
  BY <1>3, <1>7 DEF TerminateSession, connectVars
<1>8. CASE Start \/ Stop \/ Terminate \/ Launch \/ Join \/ IocStop \/ Wait
  BY <1>2, <1>8 DEF Start, Stop, Terminate, DoStop, Launch, Join, IocStop, Wait,
                    restVars, sessionVars, connectVars
<1>9. ASSUME NEW n \in Runs, IoStep(n) \/ RunReturns(n) \/ Ask(n) \/ Handlers(n)
      PROVE  NoLostSocket'
  BY <1>2, <1>9 DEF IoStep, RunReturns, Ask, Handlers, ReadAborted, SetStarted, Test, SetStopped,
                    GetService, Go, restVars, sessionVars, connectVars
<1>10. CASE RegisterFactory \/ MakeUrl
  BY <1>2, <1>10 DEF RegisterFactory, MakeUrl, sessionVars
<1>11. CASE UNCHANGED vars
  BY <1>2, <1>11 DEF vars, restVars, sessionVars, connectVars
<1> QED
  BY <1>1, <1>4, <1>5, <1>6, <1>7, <1>8, <1>9, <1>10, <1>11 DEF Next, CallerStep

\* No error path of connect(), and no termination that comes between its steps, leaves
\* a socket open that nobody will close.
THEOREM NoLostSocketCorrect == Spec => []NoLostSocket
<1>1. Init => NoLostSocket
  BY DEF Init, NoLostSocket
<1> QED BY <1>1, Invariant, SocketStep, PTL DEF Spec

-----------------------------------------------------------------------------
(* Threads.                                                                *)

\* One thread runs the context, the one whose future is held; during a second start()
\* the new one may run beside it.
OneThread ==
    /\ \A n \in Runs : n > starts => io[n] = "none"
    /\ \A n \in Runs : io[n] \in {"none", "done"} \/ n = m_io \/ (caller = "join" /\ n = starts)

\* Who works on the service or is inside of terminate() keeps it published.
Published ==
    /\ caller # "idle" => m_services
    /\ ~ManagerFree => caller \in Stopping
    /\ ~m_services => Quiet

ThreadInv == IInv /\ OneThread /\ Published

USE DEF Quiet, Stopping, OneThread, Published, ManagerFree

LEMMA ThreadStep == ASSUME ThreadInv, [Next]_vars PROVE ThreadInv'
<1>0. IInv' BY NextInv DEF ThreadInv
<1> USE DEF ThreadInv, IInv, TypeOK, StartsLeft, ManagerTypeOK, Runs
<1>1. CASE Publish
  BY <1>0, <1>1 DEF Publish, NewThreads, PublishService
<1>2. CASE Start
  BY <1>0, <1>2 DEF Start, restVars, managerVars
<1>3. CASE Launch
  <2>1. starts + 1 \in 1..MaxStarts /\ m_services /\ UNCHANGED <<m_services, m_services_guard>>
    BY <1>3 DEF Launch, restVars, managerVars
  <2>2. io' = [io EXCEPT ![starts + 1] = "set_started"] /\ starts' = starts + 1
    BY <1>3 DEF Launch
  <2>3. CASE m_io = 0
    BY <1>0, <1>3, <2>1, <2>2, <2>3 DEF Launch
  <2>4. CASE m_io # 0
    BY <1>0, <1>3, <2>1, <2>2, <2>4 DEF Launch
  <2> QED BY <2>3, <2>4
<1>4. CASE Join
  BY <1>0, <1>4 DEF Join, restVars, managerVars
<1>5. CASE Stop \/ Terminate
  BY <1>0, <1>5 DEF Stop, Terminate, DoStop, BeginTerminate, managerVars
<1>6. CASE TerminateAll \/ IocStop
  BY <1>0, <1>6 DEF TerminateAll, IocStop, restVars, managerVars
<1>7. CASE Wait
  <2>1. OneThread'
    BY <1>7 DEF Wait
  <2>2. \A n \in Runs : io[n] \in {"none", "done"}
    BY <1>7 DEF Wait, Awaited
  <2> QED BY <1>0, <1>7, <2>1, <2>2 DEF Wait, StopReturned
<1>8. ASSUME NEW n \in Runs, IoStep(n) \/ RunReturns(n) \/ Ask(n)
      PROVE  ThreadInv'
  <2>1. /\ UNCHANGED <<caller, starts, m_io, m_services, m_services_guard>>
        /\ \E step \in {"test", "run", "asking", "set_stopped", "done"} :
              io' = [io EXCEPT ![n] = step]
        /\ io[n] \notin {"none", "done"}
    BY <1>8 DEF IoStep, RunReturns, Ask, SetStarted, Test, SetStopped, GetService, Runnable, Go,
                restVars, managerVars
  <2> QED BY <1>0, <2>1
<1>9. CASE UNCHANGED <<caller, starts, m_io, io, m_services, m_services_guard>>
  BY <1>0, <1>9
<1>10. ASSUME NEW n \in Runs, Handlers(n) PROVE ThreadInv'
  BY <1>9, <1>10 DEF Handlers, ReadAborted, managerVars
<1>11. CASE RegisterFactory \/ MakeUrl
  BY <1>9, <1>11 DEF RegisterFactory, MakeUrl, managerVars
<1>12. ASSUME NEW s \in Sessions, Connect(s) \/ CreateSession(s) \/ TerminateSession(s)
       PROVE  ThreadInv'
  BY <1>9, <1>12 DEF Connect, CreateSession, TerminateSession, managerVars
<1>13. CASE UNCHANGED vars
  BY <1>9, <1>13 DEF vars, restVars, managerVars
<1> QED
  BY <1>1, <1>2, <1>3, <1>4, <1>5, <1>6, <1>7, <1>8, <1>10, <1>11, <1>12, <1>13
  DEF Next, CallerStep

LEMMA ThreadInvariant == Spec => []ThreadInv
<1>1. Init => ThreadInv
  BY InitInv DEF Init, ThreadInv, ManagerInit
<1> QED BY <1>1, ThreadStep, PTL DEF Spec

\* terminate() erases a service only after its thread has left the context, so the
\* next publish() meets nothing of the one before.
THEOREM QuietUnlessPublishedCorrect == Spec => []QuietUnlessPublished
<1>1. ASSUME ThreadInv PROVE QuietUnlessPublished
  BY <1>1 DEF ThreadInv, QuietUnlessPublished
<1> QED BY <1>1, ThreadInvariant, PTL

-----------------------------------------------------------------------------
(* A caller that awaits Started before it stops.                           *)

Awaits ==
    /\ m_state = "StartPending" =>
          \/ caller = "launch" /\ Quiet
          \/ caller \in {"idle", "join"} /\ starts \in Runs /\ io[starts] = "set_started"
    /\ m_state = "Started" =>
          caller \in {"idle", "join"} /\ starts \in Runs /\ io[starts] \in {"test", "run", "asking"}
    /\ m_state = "StopPending" =>
          caller \in Stopping /\ starts \in Runs
          /\ io[starts] \in {"test", "run", "asking", "set_stopped"}
    /\ m_state = "Stopped" => caller \in {"idle"} \cup Stopping /\ Quiet
    /\ \A n \in Runs : n # starts => io[n] \in {"none", "done"}
    /\ caller \notin {"launch", "join"} => m_io = starts
    /\ stopped => m_state = "Stopped" /\ caller = "idle"

AwaitInv == ThreadInv /\ Awaits

LEMMA AwaitStep == ASSUME AwaitStarted, AwaitInv, [Next]_vars PROVE AwaitInv'
<1>0. ThreadInv' BY ThreadStep DEF AwaitInv
<1> USE DEF AwaitInv, ThreadInv, IInv, TypeOK, StartsLeft, States, ManagerTypeOK, Runs, Awaits
<1>1. CASE Publish
  BY <1>0, <1>1 DEF Publish, NewThreads, PublishService
<1>2. CASE Start
  BY <1>0, <1>2 DEF Start
<1>3. CASE Launch
  <2>1. starts + 1 \in 1..MaxStarts /\ m_state = "StartPending" /\ m_state' = m_state
        /\ stopped' = stopped
    BY <1>3 DEF Launch
  <2>2. io' = [io EXCEPT ![starts + 1] = "set_started"] /\ starts' = starts + 1
        /\ caller' = (IF m_io = 0 THEN "idle" ELSE "join")
        /\ m_io' = (IF m_io = 0 THEN starts + 1 ELSE m_io)
    BY <1>3 DEF Launch
  <2> QED BY <1>0, <1>3, <2>1, <2>2 DEF Launch
<1>4. CASE Join
  BY <1>0, <1>4 DEF Join
<1>5. CASE DoStop
  BY <1>0, <1>5 DEF DoStop
<1>6. CASE TerminateAll \/ IocStop
  BY <1>0, <1>6 DEF TerminateAll, IocStop
<1>7. CASE Wait
  <2>1. /\ caller = "wait" /\ caller' = "idle" /\ (m_io \in Runs => io[m_io] = "done")
        /\ UNCHANGED <<m_state, starts, m_io, io>>
    BY <1>7 DEF Wait, Awaited
  <2>2. m_state = "Stopped" /\ m_io = starts
    BY <2>1
  <2> QED BY <1>0, <2>1, <2>2
<1>8. ASSUME NEW n \in Runs, IoStep(n) \/ RunReturns(n) \/ Ask(n)
      PROVE  AwaitInv'
  <2>1. io[n] \notin {"none", "done"} /\ n = starts
    BY <1>8 DEF IoStep, RunReturns, Ask, SetStarted, Test, SetStopped, GetService, Runnable
  <2>2. UNCHANGED <<caller, starts, m_io, stopped>>
    BY <1>8 DEF IoStep, RunReturns, Ask, SetStarted, Test, SetStopped, GetService, Go
  <2>3. CASE SetStarted(n)
    BY <1>0, <2>1, <2>2, <2>3 DEF SetStarted, Go
  <2>4. CASE Test(n)
    BY <1>0, <2>1, <2>2, <2>4 DEF Test, KeepsRunning, Go
  <2>5. CASE SetStopped(n)
    BY <1>0, <2>1, <2>2, <2>5 DEF SetStopped, Go
  <2>6. CASE RunReturns(n) \/ Ask(n) \/ GetService(n)
    BY <1>0, <2>1, <2>2, <2>6 DEF RunReturns, Ask, GetService, Runnable, Go
  <2> QED BY <1>8, <2>3, <2>4, <2>5, <2>6 DEF IoStep
<1>9. CASE UNCHANGED <<m_state, caller, starts, m_io, io, stopped>>
  BY <1>0, <1>9
<1>10. ASSUME NEW n \in Runs, Handlers(n) PROVE AwaitInv'
  BY <1>9, <1>10 DEF Handlers, ReadAborted
<1>11. CASE RegisterFactory \/ MakeUrl
  BY <1>9, <1>11 DEF RegisterFactory, MakeUrl
<1>12. ASSUME NEW s \in Sessions, Connect(s) \/ CreateSession(s) \/ TerminateSession(s)
       PROVE  AwaitInv'
  BY <1>9, <1>12 DEF Connect, CreateSession, TerminateSession
<1>13. CASE UNCHANGED vars
  BY <1>9, <1>13 DEF vars
<1> QED
  BY <1>1, <1>2, <1>3, <1>4, <1>5, <1>6, <1>7, <1>8, <1>10, <1>11, <1>12, <1>13
  DEF Next, CallerStep, Stop, Terminate

\* A caller that awaits Started before stop() finds the service stopped and quiet when
\* the call has returned; the test of the repository sleeps instead of awaiting it.
THEOREM QuietAfterStopCorrect ==
    ASSUME AwaitStarted = TRUE
    PROVE  Spec => []QuietAfterStop
<1>1. Init => AwaitInv
  BY InitInv DEF Init, AwaitInv, Awaits, ThreadInv, ManagerInit
<1>2. AwaitInv => QuietAfterStop
  BY DEF AwaitInv, Awaits, QuietAfterStop
<1>3. AwaitInv /\ [Next]_vars => AwaitInv'
  BY AwaitStep
<1> QED BY <1>1, <1>2, <1>3, PTL DEF Spec

-----------------------------------------------------------------------------
(***************************************************************************)
(* Urls.  First what searches and concatenations of texts give.            *)
(***************************************************************************)
\* The two parts of a text that was put together
LEMMA Concatenated ==
    ASSUME NEW T, NEW head \in Seq(T), NEW tail \in Seq(T)
    PROVE  /\ head \o tail \in Seq(T)
           /\ Len(head \o tail) = Len(head) + Len(tail)
           /\ \A i \in 1..Len(head) : (head \o tail)[i] = head[i]
           /\ \A i \in 1..Len(tail) : (head \o tail)[Len(head) + i] = tail[i]
           /\ SubSeq(head \o tail, 1, Len(head)) = head
           /\ Beyond(head \o tail, Len(head)) = tail
<1> DEFINE text == head \o tail
<1>1. /\ text \in Seq(T) /\ Len(text) = Len(head) + Len(tail)
      /\ \A i \in 1..(Len(head) + Len(tail)) :
            text[i] = IF i <= Len(head) THEN head[i] ELSE tail[i - Len(head)]
  BY ConcatProperties
<1>2. Len(head) \in Nat /\ Len(tail) \in Nat
  OBVIOUS
<1> HIDE DEF text
<1>3. SubSeq(text, 1, Len(head)) = head
  BY <1>1, <1>2
<1>4. SubSeq(text, Len(head) + 1, Len(text)) = tail
  BY <1>1, <1>2
<1>5. \A i \in 1..Len(head) : text[i] = head[i]
  BY <1>1, <1>2
<1>6. ASSUME NEW i \in 1..Len(tail) PROVE text[Len(head) + i] = tail[i]
  <2>1. /\ Len(head) + i \in 1..(Len(head) + Len(tail)) /\ ~(Len(head) + i <= Len(head))
        /\ (Len(head) + i) - Len(head) = i
    BY <1>2
  <2> QED
    BY <1>1, <2>1
<1>7. Beyond(text, Len(head)) = tail
  BY <1>4 DEF Beyond
<1> QED
  BY <1>1, <1>3, <1>5, <1>6, <1>7 DEF text

\* SelectInSeq, without its LAMBDA
LEMMA BeforeMeaning ==
    ASSUME NEW text, NEW delimiters
    PROVE  LET I == {i \in 1..Len(text) : text[i] \in delimiters}
               first == IF I # {} THEN Min(I) ELSE 0
           IN  Before(text, delimiters) =
                   IF first = 0 THEN text ELSE SubSeq(text, 1, first - 1)
  BY ZenonT(40) DEF Before, SelectInSeq

\* What is before the first delimiter is found again.
LEMMA BeforeDelimiter ==
    ASSUME NEW T, NEW head \in Seq(T), NEW tail \in Seq(T), NEW delimiters,
           \A i \in 1..Len(head) : head[i] \notin delimiters,
           tail = <<>> \/ tail[1] \in delimiters
    PROVE  Before(head \o tail, delimiters) = head
<1> DEFINE text == head \o tail
           n == Len(head)
           I == {i \in 1..Len(text) : text[i] \in delimiters}
<1>1. /\ Len(text) = n + Len(tail) /\ \A i \in 1..n : text[i] = head[i]
      /\ \A i \in 1..Len(tail) : text[n + i] = tail[i]
      /\ SubSeq(text, 1, n) = head
  BY Concatenated
<1>2. n \in Nat /\ Len(tail) \in Nat
  OBVIOUS
<1>3. CASE tail = <<>>
  <2>1. text = head
    BY <1>3
  <2>2. I = {}
    BY <2>1
  <2> QED
    BY <2>1, <2>2, BeforeMeaning, ZenonT(40)
<1>4. CASE tail # <<>>
  <2>1. Len(tail) > 0 /\ tail[1] \in delimiters
    BY <1>4
  <2> HIDE DEF text, n
  <2>2. n + 1 \in I /\ \A i \in I : n + 1 <= i
    <3>1. n + 1 \in 1..Len(text) /\ text[n + 1] \in delimiters
      BY <1>1, <1>2, <2>1
    <3>2. ASSUME NEW i \in 1..n PROVE text[i] \notin delimiters
      BY <1>1 DEF n
    <3>3. \A i \in 1..Len(text) : i <= n => i \in 1..n
      BY <1>1, <1>2
    <3> QED
      BY <1>1, <1>2, <3>1, <3>2, <3>3
  <2>3. Min(I) = n + 1 /\ I # {}
    BY <1>1, <1>2, <2>2 DEF Min
  <2>4. Before(text, delimiters) = SubSeq(text, 1, n)
    <3>1. Before(text, delimiters) =
              IF (IF I # {} THEN Min(I) ELSE 0) = 0 THEN text
              ELSE SubSeq(text, 1, (IF I # {} THEN Min(I) ELSE 0) - 1)
      BY BeforeMeaning
    <3> HIDE DEF I
    <3> QED
      BY <1>2, <2>3, <3>1
  <2> QED
    BY <1>1, <1>2, <2>4 DEF text, n
<1> QED
  BY <1>3, <1>4

\* Every set of naturals that is not empty has a least one.
LEMMA MinFacts ==
    ASSUME NEW I \in SUBSET Nat, I # {}
    PROVE  Min(I) \in I /\ \A j \in I : Min(I) <= j
<1> DEFINE R == {ss \in Nat \X Nat : ss[1] < ss[2]}
<1>1. IsWellFoundedOn(R, Nat)
  BY NatLessThanWellFounded DEF OpToRel
<1> HIDE DEF R
<1>2. PICK x \in I : \A y \in I : ~(<<y, x>> \in R)
  BY <1>1, WFMin
<1>3. \A y \in I : x <= y
  <2> SUFFICES ASSUME NEW y \in I, y < x PROVE FALSE
    OBVIOUS
  <2>1. <<y, x>> \in R
    BY DEF R
  <2> QED
    BY <1>2, <2>1
<1> QED
  BY <1>3 DEF Min

\* What holds of 0 and of k if it does of k - 1 holds up to n.
LEMMA UpTo ==
    ASSUME NEW n \in Nat, NEW S, 0 \in S, \A k \in 1..n : k - 1 \in S => k \in S
    PROVE  0..n \subseteq S
<1> DEFINE I == (0..n) \ S
<1> SUFFICES ASSUME I # {} PROVE FALSE
  OBVIOUS
<1>1. I \in SUBSET Nat
  OBVIOUS
<1>2. PICK k \in I : \A j \in I : k <= j
  <2>1. Min(I) \in I /\ \A j \in I : Min(I) <= j
    <3> HIDE DEF I
    <3> QED
      BY <1>1, MinFacts
  <2> QED
    BY <2>1
<1>3. k \in 1..n /\ k - 1 \in 0..n /\ k - 1 \notin I
  BY <1>2
<1> QED
  BY <1>2, <1>3

Flattening(f, q) ==
    f = [i \in 1..Len(q) |-> IF i = 1 THEN q[i] ELSE f[i-1] \o q[i]]

\* FlattenSeq returns the last value of any function as it defines one.
LEMMA FlattenMeaning ==
    ASSUME NEW q, Len(q) # 0, NEW g, Flattening(g, q)
    PROVE  \E f : Flattening(f, q) /\ FlattenSeq(q) = f[Len(q)]
<1> DEFINE f == CHOOSE h : Flattening(h, q)
<1>1. Flattening(f, q)
  OBVIOUS
<1>2. FlattenSeq(q) = f[Len(q)]
  BY DEF FlattenSeq, Flattening
<1> QED
  BY <1>1, <1>2

\* There is such a function.
LEMMA FlatteningExists ==
    ASSUME NEW T, NEW n \in Nat, NEW q \in [1..n -> Seq(T)], Len(q) = n
    PROVE  \E f : Flattening(f, q)
<1> DEFINE Body(f, m) == [i \in 1..m |-> IF i = 1 THEN q[i] ELSE f[i-1] \o q[i]]
           S == {m \in 0..n : \E f : f = Body(f, m)}
<1>1. 0 \in S
  <2> DEFINE f == [i \in 1..0 |-> q[i]]
  <2>1. f = Body(f, 0)
    OBVIOUS
  <2> HIDE DEF f, Body
  <2> QED
    BY <2>1
<1>2. ASSUME NEW m \in 1..n, m - 1 \in S PROVE m \in S
  <2>1. PICK f : f = Body(f, m - 1)
    BY <1>2
  <2> DEFINE g == [i \in 1..m |-> IF i = m THEN IF i = 1 THEN q[i] ELSE f[i-1] \o q[i] ELSE f[i]]
  <2>2. ASSUME NEW i \in 1..m
        PROVE  g[i] = IF i = 1 THEN q[i] ELSE g[i-1] \o q[i]
    <3>1. CASE i = 1 /\ i = m
      BY <3>1
    <3>2. CASE i = 1 /\ i # m
      <4>1. i \in 1..(m - 1)
        BY <3>2
      <4> QED
        BY <2>1, <3>2, <4>1
    <3>3. CASE i # 1
      <4>1. i - 1 \in 1..(m - 1) /\ i - 1 \in 1..m /\ i - 1 # m
        BY <3>3
      <4>2. g[i-1] = f[i-1]
        BY <4>1
      <4>3. i # m => i \in 1..(m - 1)
        OBVIOUS
      <4>4. i # m => f[i] = f[i-1] \o q[i]
        BY <2>1, <3>3, <4>3
      <4>5. g[i] = IF i = m THEN IF i = 1 THEN q[i] ELSE f[i-1] \o q[i] ELSE f[i]
        OBVIOUS
      <4> HIDE DEF g
      <4> QED
        BY <3>3, <4>2, <4>4, <4>5
    <3> QED
      BY <3>1, <3>2, <3>3
  <2>3. g = Body(g, m)
    BY <2>2
  <2>4. m \in 0..n
    OBVIOUS
  <2> HIDE DEF g, Body
  <2> QED
    BY <2>3, <2>4
<1>3. n \in S
  <2> HIDE DEF S
  <2>1. 0..n \subseteq S
    BY <1>1, <1>2, UpTo, Zenon
  <2> QED
    BY <2>1
<1> QED
  BY <1>3 DEF Flattening


Text == Seq(Tokens)

LEMMA TokenFacts ==
    /\ {":", "/", "?", "#", "=", "&"} \subseteq Tokens
    /\ \A w \in Words : w \notin {":", "/", "?", "#", "=", "&", "+", "-", " ", "\n"}
  BY UrlAssumption DEF Tokens, Separators, Signs, Blanks

\* Where s_param_regex could match in two texts that a "&" separates.
LEMMA CandidateFacts ==
    ASSUME NEW u \in Text, NEW v \in Text, NEW i \in Int
    PROVE  LET t == u \o (<<"&">> \o v)
               m == Len(u)
           IN  /\ t \in Text /\ Len(t) = m + 1 + Len(v)
               /\ i <= m => (Candidate(t, i) <=> Candidate(u, i))
               /\ i >= m => (Candidate(t, i) <=> Candidate(v, i - (m + 1)))
               /\ Candidate(u, i) => i + 2 <= m /\ t[i] = u[i] /\ t[i + 2] = u[i + 2]
               /\ Candidate(v, i) => /\ t[(m + 1) + i] = v[i]
                                     /\ t[(m + 1) + (i + 2)] = v[i + 2]
<1> DEFINE w == <<"&">> \o v
           t == u \o w
           m == Len(u)
           n == Len(v)
<1>1. m \in Nat /\ n \in Nat
  BY DEF Text
<1>2. /\ w \in Text /\ Len(w) = n + 1 /\ w[1] = "&" /\ \A j \in 1..n : w[1 + j] = v[j]
  <2>1. <<"&">> \in Text /\ Len(<<"&">>) = 1 /\ <<"&">>[1] = "&"
    <3>1. ASSUME NEW T, NEW c \in T PROVE <<c>> \in Seq(T) /\ Len(<<c>>) = 1 /\ <<c>>[1] = c
      OBVIOUS
    <3> QED
      BY <3>1, TokenFacts DEF Text
  <2> HIDE DEF w
  <2>2. /\ <<"&">> \o v \in Text /\ Len(<<"&">> \o v) = 1 + n
        /\ (<<"&">> \o v)[1] = "&" /\ \A j \in 1..n : (<<"&">> \o v)[1 + j] = v[j]
    BY <2>1, Concatenated DEF Text
  <2> QED
    BY <1>1, <2>2 DEF w
<1> HIDE DEF w
<1>3. /\ t \in Text /\ Len(t) = m + (n + 1) /\ \A j \in 1..m : t[j] = u[j]
      /\ \A j \in 1..(n + 1) : t[m + j] = w[j]
  <2>1. u \in Seq(Tokens) /\ w \in Seq(Tokens)
    BY <1>2 DEF Text
  <2>2. /\ u \o w \in Seq(Tokens) /\ Len(u \o w) = Len(u) + Len(w)
        /\ \A j \in 1..Len(u) : (u \o w)[j] = u[j]
        /\ \A j \in 1..Len(w) : (u \o w)[Len(u) + j] = w[j]
    BY <2>1, Concatenated
  <2> QED
    BY <1>2, <2>2 DEF Text
<1> HIDE DEF t
<1>4. t[m + 1] = "&" /\ \A j \in 1..n : t[(m + 1) + j] = v[j]
  <2>1. ASSUME NEW j \in 1..n PROVE t[(m + 1) + j] = v[j]
    <3>1. (m + 1) + j = m + (1 + j) /\ 1 + j \in 1..(n + 1)
      BY <1>1
    <3> QED
      BY <1>2, <1>3, <3>1
  <2>2. 1 \in 1..(n + 1)
    BY <1>1
  <2> QED
    BY <1>2, <1>3, <2>1, <2>2
<1>5. "&" \notin Words /\ "&" # "=" /\ "=" \notin Words
  BY TokenFacts
<1> HIDE DEF m, n
<1>6. i <= m => (Candidate(t, i) <=> Candidate(u, i))
  <2> SUFFICES ASSUME i <= m PROVE Candidate(t, i) <=> Candidate(u, i)
    OBVIOUS
  <2>1. CASE i + 2 <= m
    BY <1>1, <1>3, <2>1 DEF Candidate, m
  <2>2. CASE i + 2 > m
    <3>1. i = m \/ i = m - 1
      BY <1>1, <2>2
    <3>2. ~Candidate(u, i)
      BY <1>1, <2>2 DEF Candidate, m
    <3>3. ~Candidate(t, i)
      <4>1. CASE i = m
        BY <1>4, <1>5, <4>1 DEF Candidate
      <4>2. CASE i = m - 1
        <5>1. i + 2 = m + 1
          BY <1>1, <4>2
        <5> QED
          BY <1>4, <1>5, <5>1 DEF Candidate
      <4> QED
        BY <3>1, <4>1, <4>2
    <3> QED
      BY <3>2, <3>3
  <2> QED
    BY <1>1, <2>1, <2>2
<1>7. i >= m => (Candidate(t, i) <=> Candidate(v, i - (m + 1)))
  <2> SUFFICES ASSUME i >= m PROVE Candidate(t, i) <=> Candidate(v, i - (m + 1))
    OBVIOUS
  <2> DEFINE j == i - (m + 1)
  <2>1. CASE j < 1
    <3>1. i = m \/ i = m + 1
      BY <1>1, <2>1
    <3>2. ~Candidate(v, j)
      BY <2>1 DEF Candidate
    <3>3. ~Candidate(t, i)
      BY <1>4, <1>5, <3>1 DEF Candidate
    <3> QED
      BY <3>2, <3>3
  <2>2. CASE j >= 1
    <3>1. j \in Int /\ i = (m + 1) + j /\ i + 1 = (m + 1) + (j + 1) /\ i + 2 = (m + 1) + (j + 2)
      BY <1>1
    <3>2. i \in 1..((m + (n + 1)) - 2) <=> j \in 1..(n - 2)
      BY <1>1, <2>2, <3>1
    <3> HIDE DEF j
    <3>3. j \in 1..(n - 2) => t[i] = v[j] /\ t[i + 1] = v[j + 1] /\ t[i + 2] = v[j + 2]
      <4> SUFFICES ASSUME j \in 1..(n - 2)
                   PROVE  t[i] = v[j] /\ t[i + 1] = v[j + 1] /\ t[i + 2] = v[j + 2]
        OBVIOUS
      <4>1. j \in 1..n /\ j + 1 \in 1..n /\ j + 2 \in 1..n
        BY <1>1
      <4> QED
        BY <1>4, <3>1, <4>1
    <3>4. Candidate(t, i) <=> Candidate(v, j)
      BY <1>3, <3>2, <3>3 DEF Candidate, n
    <3> QED
      BY <3>4 DEF j
  <2> QED
    BY <1>1, <2>1, <2>2
<1>8. Candidate(u, i) => i + 2 <= m /\ t[i] = u[i] /\ t[i + 2] = u[i + 2]
  BY <1>1, <1>3 DEF Candidate, m
<1>9. Candidate(v, i) => t[(m + 1) + i] = v[i] /\ t[(m + 1) + (i + 2)] = v[i + 2]
  <2> SUFFICES ASSUME Candidate(v, i)
               PROVE  t[(m + 1) + i] = v[i] /\ t[(m + 1) + (i + 2)] = v[i + 2]
    OBVIOUS
  <2>1. i \in 1..n /\ i + 2 \in 1..n
    BY <1>1 DEF Candidate, n
  <2> QED
    BY <1>4, <2>1
<1>10. Len(t) = m + 1 + n
  BY <1>1, <1>3
<1> QED
  BY <1>3, <1>6, <1>7, <1>8, <1>9, <1>10 DEF t, w, m, n

\* What makes a candidate a match
Match(text, i, k) ==
    /\ \A j \in 0..(2 * k) : Candidate(text, i - 2 * j)
    /\ ~Candidate(text, i - 2 * (2 * k + 1))

LEMMA MatchFacts ==
    ASSUME NEW t \in Text
    PROVE  /\ Matches(t) = {i \in 1..Len(t) : \E k \in 0..i : Match(t, i, k)}
           /\ \A i \in Matches(t) : Candidate(t, i)
           /\ \A i \in Int : Candidate(t, i) => i \in 1..Len(t)
           /\ \A i \in Int : Candidate(t, i) /\ ~Candidate(t, i - 2) => i \in Matches(t)
<1>1. Matches(t) = {i \in 1..Len(t) : \E k \in 0..i : Match(t, i, k)}
  BY DEF Matches, Match
<1>2. ASSUME NEW i \in Matches(t) PROVE Candidate(t, i)
  <2>1. PICK k \in 0..i : Match(t, i, k)
    BY <1>1
  <2>2. i \in Nat /\ k \in Nat /\ 0 \in 0..(2 * k) /\ i - 2 * 0 = i
    BY <1>1
  <2> QED
    BY <2>1, <2>2 DEF Match
<1>3. ASSUME NEW i \in Int, Candidate(t, i) PROVE i \in 1..Len(t)
  <2>1. Len(t) \in Nat
    BY DEF Text
  <2> QED
    BY <1>3, <2>1 DEF Candidate
<1>4. ASSUME NEW i \in Int, Candidate(t, i), ~Candidate(t, i - 2) PROVE i \in Matches(t)
  <2>1. i \in 1..Len(t) /\ 0 \in 0..i
    BY <1>3, <1>4
  <2>2. Match(t, i, 0)
    <3>1. \A j \in 0..(2 * 0) : i - 2 * j = i
      OBVIOUS
    <3>2. i - 2 * (2 * 0 + 1) = i - 2
      OBVIOUS
    <3> QED
      BY <1>4, <3>1, <3>2 DEF Match
  <2> QED
    BY <1>1, <2>1, <2>2
<1> QED
  BY <1>1, <1>2, <1>3, <1>4

\* Behind the "&" the matches are those of the second text.
LEMMA ShiftFacts ==
    ASSUME NEW u \in Text, NEW v \in Text, NEW i \in Nat, NEW k \in Nat,
           i - (Len(u) + 1) - 4 * k >= 1
    PROVE  Match(u \o (<<"&">> \o v), i, k) <=> Match(v, i - (Len(u) + 1), k)
<1> DEFINE t == u \o (<<"&">> \o v)
           m == Len(u)
           o == i - (m + 1)
<1>1. m \in Nat /\ o \in Int
  BY DEF Text
<1>2. \A x \in Int : x >= m => (Candidate(t, x) <=> Candidate(v, x - (m + 1)))
  BY CandidateFacts
<1> HIDE DEF t, m
<1>3. ASSUME NEW j \in 0..(2 * k)
      PROVE  Candidate(t, i - 2 * j) <=> Candidate(v, o - 2 * j)
  <2>1. i - 2 * j \in Int /\ i - 2 * j >= m /\ (i - 2 * j) - (m + 1) = o - 2 * j
    BY <1>1 DEF m
  <2> HIDE DEF o
  <2> QED
    BY <1>2, <2>1
<1>4. Candidate(t, i - 2 * (2 * k + 1)) <=> Candidate(v, o - 2 * (2 * k + 1))
  <2> DEFINE x == i - 2 * (2 * k + 1)
  <2>1. x \in Int /\ x >= m /\ x - (m + 1) = o - 2 * (2 * k + 1)
    BY <1>1 DEF m
  <2> HIDE DEF x, o
  <2>2. Candidate(t, x) <=> Candidate(v, x - (m + 1))
    BY <1>2, <2>1
  <2> QED
    BY <2>1, <2>2 DEF x
<1> HIDE DEF o
<1>5. Match(t, i, k) <=> Match(v, o, k)
  BY <1>3, <1>4 DEF Match
<1> QED
  BY <1>5 DEF t, m, o

LEMMA JoinedMatches ==
    ASSUME NEW u \in Text, NEW v \in Text, NEW i \in Nat
    PROVE  i \in Matches(u \o (<<"&">> \o v)) <=>
               i \in Matches(u) \/ i - (Len(u) + 1) \in Matches(v)
<1> DEFINE t == u \o (<<"&">> \o v)
           m == Len(u)
           o == i - (m + 1)
<1>1. m \in Nat /\ o \in Int
  BY DEF Text
<1>2. /\ t \in Text /\ Len(t) = m + 1 + Len(v) /\ Len(v) \in Nat
      /\ \A x \in Int : x <= m => (Candidate(t, x) <=> Candidate(u, x))
      /\ \A x \in Int : x >= m => (Candidate(t, x) <=> Candidate(v, x - (m + 1)))
  BY CandidateFacts DEF Text
<1>3. \A k \in Nat : o - 4 * k >= 1 => (Match(t, i, k) <=> Match(v, o, k))
  BY ShiftFacts
<1> HIDE DEF t
<1>4. /\ Matches(t) = {x \in 1..Len(t) : \E k \in 0..x : Match(t, x, k)}
      /\ Matches(u) = {x \in 1..m : \E k \in 0..x : Match(u, x, k)}
      /\ Matches(v) = {x \in 1..Len(v) : \E k \in 0..x : Match(v, x, k)}
      /\ \A x \in Matches(t) : Candidate(t, x)
  BY <1>2, MatchFacts
<1> HIDE DEF m
<1>5. CASE i <= m
  <2>1. ASSUME NEW k \in 0..i
        PROVE  Match(t, i, k) <=> Match(u, i, k)
    <3>1. \A j \in 0..(2 * k) : i - 2 * j \in Int /\ i - 2 * j <= m
      BY <1>1, <1>5
    <3>2. i - 2 * (2 * k + 1) \in Int /\ i - 2 * (2 * k + 1) <= m
      BY <1>1, <1>5
    <3> DEFINE y == i - 2 * (2 * k + 1)
    <3>3. Candidate(t, y) <=> Candidate(u, y)
      <4> HIDE DEF y
      <4> QED
        BY <1>2, <3>2 DEF y
    <3>4. \A j \in 0..(2 * k) : Candidate(t, i - 2 * j) <=> Candidate(u, i - 2 * j)
      BY <1>2, <3>1
    <3> QED
      BY <3>3, <3>4 DEF Match
  <2>2. o \notin Matches(v)
    BY <1>1, <1>4, <1>5
  <2>3. i \in 1..Len(t) <=> i \in 1..m
    BY <1>1, <1>2, <1>5
  <2> HIDE DEF o
  <2> QED
    BY <1>4, <2>1, <2>2, <2>3 DEF t, m, o
<1>6. CASE i > m
  <2>1. i \notin Matches(u)
    BY <1>1, <1>4, <1>6
  <2>2. ASSUME i \in Matches(t) PROVE o \in Matches(v)
    <3>1. PICK k \in 0..i : Match(t, i, k)
      BY <1>4, <2>2
    <3>2. k \in Nat /\ i \in Int
      BY <3>1
    <3>3. o >= 1
      <4> SUFFICES ASSUME i = m + 1 PROVE FALSE
        BY <1>1, <1>6
      <4>1. Candidate(t, m + 1) /\ m + 1 \in Int /\ m + 1 >= m /\ (m + 1) - (m + 1) = 0
        BY <1>1, <1>4, <2>2
      <4>2. Candidate(v, 0)
        BY <1>2, <4>1
      <4> QED
        BY <4>2 DEF Candidate
    <3>4. o - 4 * k >= 1
      <4> SUFFICES ASSUME 4 * k >= o PROVE FALSE
        BY <1>1, <3>2
      <4> DEFINE j == (o + 1) \div 2
                 x == i - 2 * j
      <4>1. j \in Int /\ 2 * j <= o + 1 /\ o + 1 < 2 * j + 2
        BY <1>1
      <4> HIDE DEF j
      <4>2. j \in 0..(2 * k) /\ x \in Int /\ x >= m /\ x - (m + 1) < 1
        BY <1>1, <3>2, <3>3, <4>1
      <4>3. Candidate(t, x)
        BY <3>1, <4>2 DEF Match
      <4> HIDE DEF x
      <4>4. Candidate(v, x - (m + 1))
        BY <1>2, <4>2, <4>3
      <4> QED
        BY <4>2, <4>4 DEF Candidate
    <3>5. Match(v, o, k)
      BY <1>3, <3>1, <3>2, <3>4
    <3>6. k \in 0..o /\ o \in 1..Len(v)
      BY <1>1, <1>2, <1>4, <2>2, <3>2, <3>3, <3>4
    <3> HIDE DEF o
    <3> QED
      BY <1>4, <3>5, <3>6
  <2>3. ASSUME o \in Matches(v) PROVE i \in Matches(t)
    <3>1. PICK k \in 0..o : Match(v, o, k)
      BY <1>4, <2>3
    <3>2. k \in Nat /\ o \in 1..Len(v)
      BY <1>4, <2>3, <3>1
    <3>3. o - 4 * k >= 1
      <4>1. 2 * k \in 0..(2 * k) /\ o - 2 * (2 * k) = o - 4 * k
        BY <1>1, <3>2
      <4>2. Candidate(v, o - 4 * k)
        BY <3>1, <4>1 DEF Match
      <4> QED
        BY <4>2 DEF Candidate
    <3>4. Match(t, i, k)
      BY <1>3, <3>1, <3>2, <3>3
    <3>5. k \in 0..i /\ i \in 1..Len(t)
      BY <1>1, <1>2, <3>2, <3>3
    <3> QED
      BY <1>4, <3>4, <3>5
  <2> HIDE DEF o
  <2> QED
    BY <2>1, <2>2, <2>3 DEF t, m, o
<1> QED
  BY <1>1, <1>5, <1>6

\* Of two texts that a "&" separates what s_param_regex finds in each is found.
LEMMA JoinedFinds ==
    ASSUME NEW u \in Text, NEW v \in Text
    PROVE  Finds(u \o (<<"&">> \o v)) = Finds(u) \cup Finds(v)
<1> DEFINE t == u \o (<<"&">> \o v)
           m == Len(u)
<1>1. m \in Nat /\ t \in Text
  BY CandidateFacts DEF Text
<1>2. \A i \in Nat : i \in Matches(t) <=> i \in Matches(u) \/ i - (m + 1) \in Matches(v)
  BY JoinedMatches
<1>3. ASSUME NEW i \in Matches(u) PROVE Found(t, i) = Found(u, i) /\ i \in Nat
  <2>1. i \in Nat /\ i \in Int /\ Candidate(u, i)
    <3>1. Candidate(u, i)
      BY MatchFacts
    <3>2. i \in Nat /\ i \in Int
      BY DEF Matches
    <3> QED
      BY <3>1, <3>2
  <2>2. t[i] = u[i] /\ t[i + 2] = u[i + 2]
    BY <2>1, CandidateFacts, ZenonT(40)
  <2> QED
    BY <2>1, <2>2 DEF Found
<1>4. ASSUME NEW i \in Matches(v)
      PROVE  i \in Nat /\ Found(t, (m + 1) + i) = Found(v, i)
  <2>1. i \in Nat /\ Candidate(v, i)
    BY MatchFacts
  <2>2. t[(m + 1) + i] = v[i] /\ t[(m + 1) + (i + 2)] = v[i + 2]
    BY <2>1, CandidateFacts
  <2>3. (m + 1) + (i + 2) = ((m + 1) + i) + 2
    BY <1>1, <2>1
  <2> HIDE DEF t, m
  <2> QED
    BY <2>1, <2>2, <2>3 DEF Found
<1>5. Matches(t) \subseteq Nat
  BY DEF Matches
<1> HIDE DEF t, m
<1>6. ASSUME NEW i \in Matches(t) PROVE Found(t, i) \in Finds(u) \cup Finds(v)
  <2>1. CASE i \in Matches(u)
    BY <1>3, <2>1 DEF Finds
  <2>2. CASE i - (m + 1) \in Matches(v)
    <3>1. i = (m + 1) + (i - (m + 1))
      BY <1>1, <1>5
    <3>2. Found(t, i) = Found(v, i - (m + 1))
      BY <1>4, <2>2, <3>1
    <3> QED
      BY <2>2, <3>2 DEF Finds
  <2> QED
    BY <1>2, <1>5, <2>1, <2>2
<1>7. ASSUME NEW i \in Matches(u) PROVE Found(u, i) \in Finds(t)
  BY <1>2, <1>3 DEF Finds
<1>8. ASSUME NEW i \in Matches(v) PROVE Found(v, i) \in Finds(t)
  <2>1. (m + 1) + i \in Nat /\ ((m + 1) + i) - (m + 1) = i
    BY <1>1, <1>4
  <2>2. (m + 1) + i \in Matches(t)
    BY <1>2, <2>1
  <2> QED
    BY <1>4, <2>2 DEF Finds
<1>9. Finds(t) = Finds(u) \cup Finds(v)
  BY <1>6, <1>7, <1>8 DEF Finds
<1> QED
  BY <1>9 DEF t

\* There is nothing in an empty text, and a parameter of two words is found as it is.
LEMMA PlainFinds ==
    /\ Finds(<<>>) = {}
    /\ \A a, b \in Words : Finds(Written(<<<<a>>, <<b>>>>)) = {<<<<a>>, <<b>>>>}
<1>1. Finds(<<>>) = {}
  BY DEF Finds, Matches
<1>2. ASSUME NEW a \in Words, NEW b \in Words
      PROVE  Finds(Written(<<<<a>>, <<b>>>>)) = {<<<<a>>, <<b>>>>}
  <2> DEFINE t == Written(<<<<a>>, <<b>>>>)
  <2>1. t \in Text /\ Len(t) = 3 /\ t[1] = a /\ t[2] = "=" /\ t[3] = b
    <3>1. ASSUME NEW T, NEW c \in T, NEW d \in T, NEW e \in T
          PROVE  LET s == (<<c>> \o <<d>>) \o <<e>>
                 IN  s \in Seq(T) /\ Len(s) = 3 /\ s[1] = c /\ s[2] = d /\ s[3] = e
      OBVIOUS
    <3>2. a \in Tokens /\ b \in Tokens /\ "=" \in Tokens
      BY TokenFacts DEF Tokens
    <3>3. t = (<<a>> \o <<"=">>) \o <<b>>
      BY DEF Written
    <3> HIDE DEF t
    <3> QED
      BY <3>1, <3>2, <3>3 DEF Text
  <2> HIDE DEF t
  <2>2. Candidate(t, 1) /\ \A i \in Int : Candidate(t, i) => i = 1
    BY <2>1 DEF Candidate
  <2>3. Matches(t) = {1}
    <3>1. ~Candidate(t, -1) /\ 1 - 2 = -1 /\ 1 \in Int /\ -1 \in Int
      BY <2>2
    <3>2. 1 \in Matches(t)
      BY <2>1, <2>2, <3>1, MatchFacts
    <3>3. \A i \in Matches(t) : i \in Int /\ Candidate(t, i)
      <4>1. \A i \in Matches(t) : i \in Int
        BY DEF Matches
      <4> QED
        BY <2>1, <4>1, MatchFacts
    <3> QED
      BY <2>2, <3>2, <3>3
  <2>4. Found(t, 1) = <<<<a>>, <<b>>>>
    <3>1. 1 + 2 = 3
      OBVIOUS
    <3> QED
      BY <2>1, <3>1 DEF Found
  <2>5. Finds(t) = {<<<<a>>, <<b>>>>}
    BY <2>3, <2>4 DEF Finds
  <2> QED
    BY <2>5 DEF t
<1> QED
  BY <1>1, <1>2

Lacks(text, delimiters) == \A i \in 1..Len(text) : text[i] \notin delimiters

\* A concatenation holds no delimiter that its parts do not hold.
LEMMA LacksFacts ==
    ASSUME NEW u \in Text, NEW v \in Text, NEW delimiters,
           Lacks(u, delimiters), Lacks(v, delimiters)
    PROVE  Lacks(u \o v, delimiters)
<1>1. /\ Len(u \o v) = Len(u) + Len(v) /\ \A i \in 1..Len(u) : (u \o v)[i] = u[i]
      /\ \A i \in 1..Len(v) : (u \o v)[Len(u) + i] = v[i]
  BY Concatenated DEF Text
<1>2. Len(u) \in Nat /\ Len(v) \in Nat
  BY DEF Text
<1>3. ASSUME NEW i \in 1..(Len(u) + Len(v)) PROVE (u \o v)[i] \notin delimiters
  <2>1. CASE i \in 1..Len(u)
    BY <1>1, <2>1 DEF Lacks
  <2>2. CASE i - Len(u) \in 1..Len(v)
    <3>1. i = Len(u) + (i - Len(u))
      BY <1>2
    <3>2. (u \o v)[i] = v[i - Len(u)]
      BY <1>1, <2>2, <3>1
    <3> QED
      BY <2>2, <3>2 DEF Lacks
  <2> QED
    BY <1>2, <2>1, <2>2
<1> QED
  BY <1>1, <1>3 DEF Lacks

LEMMA Joined ==
    ASSUME NEW u \in Text, NEW v \in Text
    PROVE  u \o v \in Text /\ Len(u \o v) = Len(u) + Len(v)
  BY ConcatProperties DEF Text

LEMMA Delimiters ==
    /\ <<":">> \in Text /\ <<"/">> \in Text /\ <<"?">> \in Text /\ <<"/", "/">> \in Text
    /\ <<"&">> \in Text /\ <<"=">> \in Text
    /\ <<>> \in Text /\ <<":", "/", "/">> = <<":">> \o <<"/", "/">>
<1>1. ASSUME NEW T, NEW v \in T, NEW w \in T
      PROVE  <<v>> \in Seq(T) /\ <<v, w>> \in Seq(T) /\ <<>> \in Seq(T)
             /\ <<v, w, w>> = <<v>> \o <<w, w>>
  OBVIOUS
<1> QED
  BY <1>1, TokenFacts DEF Text

\* What the function of FlattenSeq gives for each prefix of parameters, written with a
\* "&" before each: the "&" and the rest, in which are the finds of them.
Gathered(text, w, i) ==
    \E rest \in Text : /\ text = <<"&">> \o rest /\ Lacks(rest, {"#"})
                       /\ Finds(rest) = UNION {Finds(w[j]) : j \in 1..i}

\* One more parameter is appended.
LEMMA GatherStep ==
    ASSUME NEW i \in Nat \ {0}, NEW w, \A j \in 1..i : w[j] \in Text /\ Lacks(w[j], {"#"}),
           NEW text, NEW longer,
           longer = IF i = 1 THEN <<"&">> \o w[i] ELSE text \o (<<"&">> \o w[i]),
           i # 1 => Gathered(text, w, i - 1)
    PROVE  Gathered(longer, w, i)
<1>1. w[i] \in Text /\ Lacks(w[i], {"#"})
  OBVIOUS
<1>2. CASE i = 1
  <2>1. longer = <<"&">> \o w[1] /\ w[1] \in Text /\ Lacks(w[1], {"#"})
    BY <1>1, <1>2
  <2>2. 1..i = {1}
    BY <1>2
  <2>3. UNION {Finds(w[j]) : j \in 1..i} = Finds(w[1])
    BY <2>2
  <2> QED
    BY <2>1, <2>3 DEF Gathered
<1>3. CASE i # 1
  <2>1. PICK rest \in Text : /\ text = <<"&">> \o rest /\ Lacks(rest, {"#"})
                             /\ Finds(rest) = UNION {Finds(w[j]) : j \in 1..(i - 1)}
    BY <1>3 DEF Gathered
  <2> DEFINE v == w[i]
             more == rest \o (<<"&">> \o v)
  <2>2. longer = (<<"&">> \o rest) \o (<<"&">> \o v)
    BY <1>3, <2>1
  <2>3. v \in Text /\ Lacks(v, {"#"})
    BY <1>1
  <2> HIDE DEF v
  <2>4. longer = <<"&">> \o more
    <3>1. <<"&">> \in Seq(Tokens) /\ rest \in Seq(Tokens) /\ <<"&">> \o v \in Seq(Tokens)
      BY <2>3, Delimiters, Joined DEF Text
    <3> DEFINE a == <<"&">>
               b == <<"&">> \o v
    <3> HIDE DEF a, b
    <3>2. (a \o rest) \o b = a \o (rest \o b)
      <4>1. a \in Seq(Tokens) /\ b \in Seq(Tokens)
        BY <3>1 DEF a, b
      <4> QED
        BY <3>1, <4>1, ConcatAssociative
    <3> QED
      BY <2>2, <3>2 DEF a, b
  <2>5. more \in Text /\ Lacks(more, {"#"})
    <3>1. <<"&">> \in Text /\ Lacks(<<"&">>, {"#"})
      BY Delimiters DEF Lacks
    <3> DEFINE b == <<"&">> \o v
    <3>2. b \in Text /\ Lacks(b, {"#"})
      BY <2>3, <3>1, Joined, LacksFacts
    <3> HIDE DEF b
    <3>3. rest \o b \in Text /\ Lacks(rest \o b, {"#"})
      BY <2>1, <3>2, Joined, LacksFacts
    <3> QED
      BY <3>3 DEF b
  <2>6. Finds(more) = Finds(rest) \cup Finds(v)
    BY <2>3, JoinedFinds
  <2>7. Finds(more) = UNION {Finds(w[j]) : j \in 1..i}
    <3>1. 1..i = (1..(i - 1)) \cup {i}
      OBVIOUS
    <3> QED
      BY <2>1, <2>6, <3>1 DEF v
  <2> HIDE DEF more
  <2> QED
    BY <2>4, <2>5, <2>7 DEF Gathered
<1> QED
  BY <1>2, <1>3

\* What toString writes of the parameters, and what is found in it
LEMMA ParameterTextFacts ==
    ASSUME NEW n \in Nat \ {0}, NEW ps \in [1..n -> Text \X Text],
           \A i \in 1..n : Lacks(ps[i][1], {"#"}) /\ Lacks(ps[i][2], {"#"})
    PROVE  \E t \in Text : /\ ParameterText(ps) = <<"?">> \o t /\ Lacks(t, {"#"})
                           /\ Finds(t) = UNION {Finds(Written(ps[i])) : i \in 1..n}
<1> DEFINE w == [i \in 1..n |-> Written(ps[i])]
           q == [i \in DOMAIN ps |-> <<"&">> \o Written(ps[i])]
<1>1. ASSUME NEW i \in 1..n PROVE w[i] \in Text /\ Lacks(w[i], {"#"})
  <2>1. /\ ps[i][1] \in Text /\ ps[i][2] \in Text
        /\ Lacks(ps[i][1], {"#"}) /\ Lacks(ps[i][2], {"#"})
    OBVIOUS
  <2>2. w[i] = (ps[i][1] \o <<"=">>) \o ps[i][2]
    BY DEF Written
  <2>3. <<"=">> \in Text /\ Lacks(<<"=">>, {"#"})
    BY Delimiters DEF Lacks
  <2>4. ASSUME NEW a \in Text, NEW b \in Text, Lacks(a, {"#"}), Lacks(b, {"#"})
        PROVE  a \o b \in Text /\ Lacks(a \o b, {"#"})
    BY <2>4, Joined, LacksFacts
  <2> DEFINE a == ps[i][1]
             b == ps[i][2]
             c == <<"=">>
  <2>5. w[i] = (a \o c) \o b /\ a \in Text /\ b \in Text /\ c \in Text
        /\ Lacks(a, {"#"}) /\ Lacks(b, {"#"}) /\ Lacks(c, {"#"})
    BY <2>1, <2>2, <2>3
  <2> HIDE DEF a, b, c, w
  <2>6. a \o c \in Text /\ Lacks(a \o c, {"#"})
    BY <2>4, <2>5
  <2>7. (a \o c) \o b \in Text /\ Lacks((a \o c) \o b, {"#"})
    BY <2>4, <2>5, <2>6
  <2> QED
    BY <2>5, <2>7
<1>2. /\ DOMAIN ps = 1..n /\ ps # <<>> /\ \A i \in 1..n : q[i] = <<"&">> \o w[i]
  OBVIOUS
<1>3. q \in [1..n -> Text] /\ Len(q) = n
  <2>1. ASSUME NEW i \in 1..n PROVE q[i] \in Text
    <3>1. q[i] = <<"&">> \o w[i] /\ w[i] \in Text /\ <<"&">> \in Text
      BY <1>1, <1>2, Delimiters
    <3> HIDE DEF q, w
    <3> QED
      BY <3>1, Joined
  <2>2. q = [i \in 1..n |-> q[i]]
    BY <1>2
  <2> HIDE DEF q
  <2> QED
    BY <2>1, <2>2
<1>4. ParameterText(ps) = <<"?">> \o Tail(FlattenSeq(q))
  BY <1>2 DEF ParameterText
<1> HIDE DEF q, w
<1>5. PICK f : Flattening(f, q) /\ FlattenSeq(q) = f[n]
  <2>1. \E f : Flattening(f, q)
    BY <1>3, FlatteningExists DEF Text
  <2> QED
    BY <1>3, <2>1, FlattenMeaning
<1>6. \A i \in 1..n : f[i] = IF i = 1 THEN <<"&">> \o w[i] ELSE f[i-1] \o (<<"&">> \o w[i])
  BY <1>2, <1>3, <1>5 DEF Flattening
<1> DEFINE S == {i \in 0..n : i # 0 => Gathered(f[i], w, i)}
<1>7. 0 \in S
  OBVIOUS
<1>8. ASSUME NEW i \in 1..n, i - 1 \in S PROVE i \in S
  <2>1. i # 1 => Gathered(f[i-1], w, i - 1)
    BY <1>8
  <2>2. i \in Nat \ {0} /\ \A j \in 1..i : j \in 1..n
    OBVIOUS
  <2>3. \A j \in 1..i : w[j] \in Text /\ Lacks(w[j], {"#"})
    BY <1>1, <2>2
  <2>4. Gathered(f[i], w, i)
    BY <1>6, <2>1, <2>2, <2>3, GatherStep
  <2> QED
    BY <2>4
<1>9. n \in S
  <2> HIDE DEF S
  <2>1. 0..n \subseteq S
    BY <1>7, <1>8, UpTo, Zenon
  <2> QED
    BY <2>1
<1>10. PICK t \in Text : /\ f[n] = <<"&">> \o t /\ Lacks(t, {"#"})
                         /\ Finds(t) = UNION {Finds(w[i]) : i \in 1..n}
  BY <1>9 DEF Gathered
<1>11. Tail(f[n]) = t
  BY <1>10, Delimiters DEF Text
<1>12. UNION {Finds(w[i]) : i \in 1..n} = UNION {Finds(Written(ps[i])) : i \in 1..n}
  BY DEF w
<1> QED
  BY <1>4, <1>5, <1>10, <1>11, <1>12

WordTexts == {<<w>> : w \in Words}

\* The parameters of any text: of the finds of one name there is one.
LEMMA ParsedFacts ==
    ASSUME NEW t \in Text
    PROVE  LET kept == ParsedParameters(t)
           IN  /\ kept \subseteq Finds(t) /\ IsFiniteSet(kept)
               /\ kept \subseteq WordTexts \X WordTexts
               /\ \A p \in Finds(t) : \E q \in kept : q[1] = p[1]
               /\ \A p, q \in kept : p[1] = q[1] => p = q
<1> DEFINE M == Matches(t)
           Final == {i \in M : \A j \in M : t[j] = t[i] => j <= i}
           kept == {Found(t, i) : i \in Final}
<1>1. ParsedParameters(t) = kept
  BY DEF ParsedParameters
<1>2. M \subseteq 1..Len(t) /\ Len(t) \in Nat /\ \A i \in M : Candidate(t, i)
  <2>1. M \subseteq 1..Len(t) /\ Len(t) \in Nat
    BY DEF Matches, Text
  <2> QED
    BY <2>1, MatchFacts
<1>3. Finds(t) = {Found(t, i) : i \in M}
  BY DEF Finds
<1>4. \A i \in M : /\ Found(t, i)[1] = <<t[i]>> /\ Found(t, i) \in WordTexts \X WordTexts
                   /\ \A j \in M : Found(t, i)[1] = Found(t, j)[1] => t[i] = t[j]
  <2>1. \A i \in M : t[i] \in Words /\ t[i + 2] \in Words
    BY <1>2 DEF Candidate
  <2> HIDE DEF M
  <2>2. \A i \in M : Found(t, i)[1] = <<t[i]>> /\ Found(t, i) \in WordTexts \X WordTexts
    BY <2>1 DEF Found, WordTexts
  <2>3. \A a, b : <<a>> = <<b>> => a = b
    <3>1. ASSUME NEW a, NEW b, <<a>> = <<b>> PROVE a = b
      <4>1. <<a>>[1] = a /\ <<b>>[1] = b
        OBVIOUS
      <4> QED
        BY <3>1, <4>1
    <3> QED
      BY <3>1
  <2> QED
    BY <2>2, <2>3
<1> HIDE DEF M
<1>5. kept \subseteq Finds(t) /\ kept \subseteq WordTexts \X WordTexts
  BY <1>3, <1>4
<1>6. IsFiniteSet(kept)
  <2>1. IsFiniteSet(Final)
    <3>1. Final \in SUBSET (1..Len(t))
      BY <1>2
    <3>2. IsFiniteSet(1..Len(t))
      <4>1. 1 \in Int /\ Len(t) \in Int
        BY <1>2
      <4> QED
        BY <4>1, FS_Interval
    <3> HIDE DEF Final
    <3> QED
      BY <3>1, <3>2, FS_Subset
  <2> DEFINE f == [i \in Final |-> Found(t, i)]
  <2> HIDE DEF Final
  <2>2. f \in Surjection(Final, kept)
    BY DEF Surjection
  <2> HIDE DEF f, kept
  <2> QED
    BY <2>1, <2>2, FS_Surjection
<1>7. ASSUME NEW i \in M PROVE \E k \in Final : t[k] = t[i]
  <2> DEFINE L == {j \in M : t[j] = t[i]}
             I == {Len(t) - j : j \in L}
  <2>1. I \in SUBSET Nat /\ I # {}
    BY <1>2
  <2>2. Min(I) \in I /\ \A x \in I : Min(I) <= x
    <3> HIDE DEF I
    <3> QED
      BY <2>1, MinFacts
  <2>3. PICK k \in L : \A x \in I : Len(t) - k <= x
    BY <2>2
  <2>4. \A j \in L : Len(t) - k <= Len(t) - j
    BY <2>3
  <2>5. \A j \in L : j <= k
    BY <1>2, <2>4
  <2>6. k \in Final
    BY <2>5
  <2> QED
    BY <2>6
<1>8. ASSUME NEW p \in Finds(t) PROVE \E q \in kept : q[1] = p[1]
  <2>1. PICK i \in M : p = Found(t, i)
    BY <1>3
  <2>2. PICK k \in Final : t[k] = t[i]
    BY <1>7
  <2>3. Found(t, k) \in kept /\ Found(t, k)[1] = p[1]
    BY <1>4, <2>1, <2>2
  <2> QED
    BY <2>3
<1>9. ASSUME NEW p \in kept, NEW q \in kept, p[1] = q[1] PROVE p = q
  <2>1. PICK i \in Final : p = Found(t, i)
    OBVIOUS
  <2>2. PICK j \in Final : q = Found(t, j)
    OBVIOUS
  <2>3. t[i] = t[j]
    BY <1>4, <1>9, <2>1, <2>2
  <2>4. i = j
    BY <1>2, <2>3
  <2> QED
    BY <2>1, <2>2, <2>4
<1> HIDE DEF kept
<1> QED
  BY <1>1, <1>5, <1>6, <1>8, <1>9

\* What is left of parameters that were written and parsed
Kept(given, kept) ==
    LET finds == UNION {Finds(Written(p)) : p \in given}
    IN  /\ kept \subseteq finds
        /\ \A p \in finds : \E q \in kept : q[1] = p[1]
        /\ \A p, q \in kept : p[1] = q[1] => p = q
        /\ \A p \in given \cap (WordTexts \X WordTexts) :
              (\A q \in finds : q[1] = p[1] => q = p) => p \in kept

LEMMA KeptFacts ==
    ASSUME NEW t \in Text, NEW given, Finds(t) = UNION {Finds(Written(p)) : p \in given}
    PROVE  Kept(given, ParsedParameters(t))
<1> DEFINE kept == ParsedParameters(t)
<1>1. /\ kept \subseteq Finds(t)
      /\ \A p \in Finds(t) : \E q \in kept : q[1] = p[1]
      /\ \A p, q \in kept : p[1] = q[1] => p = q
  BY ParsedFacts
<1> HIDE DEF kept
<1>2. ASSUME NEW p \in given, p \in WordTexts \X WordTexts,
             \A q \in Finds(t) : q[1] = p[1] => q = p
      PROVE  p \in kept
  <2>1. PICK a \in Words, b \in Words : p = <<<<a>>, <<b>>>>
    BY <1>2 DEF WordTexts
  <2>2. p \in Finds(Written(p))
    BY <2>1, PlainFinds
  <2>3. p \in Finds(t)
    BY <2>2
  <2>4. PICK q \in kept : q[1] = p[1]
    BY <1>1, <2>3
  <2>5. q = p
    BY <1>1, <1>2, <2>4
  <2> QED
    BY <2>5
<1> QED
  BY <1>1, <1>2 DEF Kept, kept

\* Parameters of two words are all kept.
LEMMA WordsKept ==
    ASSUME NEW given \in SUBSET (WordTexts \X WordTexts), NEW kept, Kept(given, kept),
           \A p, q \in given : p[1] = q[1] => p = q
    PROVE  kept = given
<1> DEFINE finds == UNION {Finds(Written(p)) : p \in given}
<1>1. finds = given
  <2>1. ASSUME NEW p \in given PROVE Finds(Written(p)) = {p}
    <3>1. PICK a \in Words, b \in Words : p = <<<<a>>, <<b>>>>
      BY DEF WordTexts
    <3> QED
      BY <3>1, PlainFinds
  <2> QED
    BY <2>1
<1>2. /\ kept \subseteq finds
      /\ \A p \in given : (\A q \in finds : q[1] = p[1] => q = p) => p \in kept
  BY DEF Kept
<1> HIDE DEF finds
<1> QED
  BY <1>1, <1>2

\* A map lists its parameters in some order.
LEMMA OrderFacts ==
    ASSUME NEW S, IsFiniteSet(S), NEW ps \in SetToSeqs(S)
    PROVE  \E n \in Nat : /\ ps \in [1..n -> S] /\ {ps[i] : i \in 1..n} = S
                          /\ \A i, j \in 1..n : ps[i] = ps[j] => i = j
<1> DEFINE n == Cardinality(S)
<1>1. n \in Nat
  BY FS_CardinalityType
<1>2. ps \in [1..n -> S] /\ \A i, j \in 1..n : i # j => ps[i] # ps[j]
  BY DEF SetToSeqs
<1>3. Cardinality(1..n) = n
  <2>1. 1 \in Int /\ n \in Int /\ (IF 1 > n THEN 0 ELSE n - 1 + 1) = n
    BY <1>1
  <2> HIDE DEF n
  <2> QED
    BY <2>1, FS_Interval
<1>4. ps \in Injection(1..n, S)
  BY <1>2 DEF Injection, IsInjective
<1>5. ps \in Surjection(1..n, S)
  <2>1. Cardinality(1..n) = Cardinality(S)
    BY <1>3
  <2> QED
    BY <1>4, <2>1, FS_Injection
<1>6. \A p \in S : \E i \in 1..n : ps[i] = p
  BY <1>5 DEF Surjection
<1> HIDE DEF n
<1> QED
  BY <1>1, <1>2, <1>6

\* A text begins with what was put in front of it.
LEMMA PrefixFacts ==
    ASSUME NEW T, NEW u \in Seq(T), NEW v \in Seq(T)
    PROVE  IsPrefix(u, u \o v)
<1>1. Len(u \o v) = Len(u) + Len(v) /\ SubSeq(u \o v, 1, Len(u)) = u
  BY Concatenated
<1>2. Len(u) \in Nat /\ Len(v) \in Nat /\ SubSeq(u, 1, Len(u)) = u
  OBVIOUS
<1> QED
  BY <1>1, <1>2 DEF IsPrefix

LEMMA Associative ==
    ASSUME NEW u \in Text, NEW v \in Text, NEW w \in Text
    PROVE  (u \o v) \o w = u \o (v \o w)
  BY ConcatAssociative DEF Text

\* The same text, seen from a delimiter within it
LEMMA ColonFacts ==
    ASSUME NEW u \in Text, NEW v \in Text
    PROVE  u \o (<<":">> \o v) = (u \o <<":">>) \o v
<1>1. ASSUME NEW w \in Text PROVE u \o (w \o v) = (u \o w) \o v
  BY Associative
<1> QED
  BY <1>1, Delimiters

LEMMA SlashesFacts ==
    ASSUME NEW u \in Text, NEW v \in Text
    PROVE  <<"/", "/">> \o (u \o v) = (<<"/", "/">> \o u) \o v
<1>1. ASSUME NEW w \in Text PROVE w \o (u \o v) = (w \o u) \o v
  BY Associative
<1> QED
  BY <1>1, Delimiters

Ends(tail, delimiters) == tail = <<>> \/ tail[1] \in delimiters
Splits(text, head, tail) == head \in Text /\ tail \in Text /\ text = head \o tail

LEMMA SplitFacts ==
    ASSUME NEW text, NEW head, NEW tail, Splits(text, head, tail)
    PROVE  IsPrefix(head, text) /\ Beyond(text, Len(head)) = tail
<1>1. head \in Seq(Tokens) /\ tail \in Seq(Tokens) /\ text = head \o tail
  BY DEF Splits, Text
<1>2. IsPrefix(head, head \o tail)
  BY <1>1, PrefixFacts
<1>3. Beyond(head \o tail, Len(head)) = tail
  BY <1>1, Concatenated
<1> QED
  BY <1>1, <1>2, <1>3

Composed(text, protocol, hostport, path, query) ==
    text = protocol \o (<<":">> \o (<<"/", "/">> \o (hostport \o (path \o query))))

\* The groups of a text that was put together of a protocol, host and port, path and
\* parameters
LEMMA GroupsFacts ==
    ASSUME NEW protocol \in Text, NEW hostport \in Text, NEW path \in Text, NEW list \in Text,
           NEW query \in Text, (query = <<>> /\ list = <<>>) \/ query = <<"?">> \o list,
           protocol # <<>>, Lacks(protocol, {":", "/", "?", "#"}),
           Lacks(hostport, {"/", "?", "#"}), Lacks(path, {"?", "#"}), Lacks(list, {"#"}),
           path = <<>> \/ path[1] = "/",
           NEW written, Composed(written, protocol, hostport, path, query)
    PROVE  Groups(written) =
               [protocol |-> protocol, hostport |-> hostport, path |-> path,
                parameters |-> list, fragment |-> <<>>]
<1> DEFINE location == path \o query
           beyond == hostport \o location
           rest == <<"/", "/">> \o beyond
           named == <<":">> \o rest
           text == protocol \o named
<1>1. location \in Text /\ beyond \in Text /\ rest \in Text /\ named \in Text /\ text \in Text
  BY Delimiters, Joined
<1>2. Ends(named, {":", "/", "?", "#"})
  <2> HIDE DEF rest
  <2>1. named[1] = ":"
    BY <1>1, Delimiters DEF Text
  <2> QED
    BY <2>1 DEF Ends
<1>3. Before(text, {":", "/", "?", "#"}) = protocol
  <2> HIDE DEF named
  <2> QED
    BY <1>1, <1>2, BeforeDelimiter DEF Ends, Lacks, Text
<1>4. /\ text = (protocol \o <<":">>) \o rest
      /\ Len(protocol \o <<":">>) = Len(protocol) + 1
  <2> HIDE DEF rest
  <2>1. <<":">> \in Text /\ Len(<<":">>) = 1
    BY Delimiters
  <2>2. text = (protocol \o <<":">>) \o rest
    BY <1>1, ColonFacts
  <2>3. Len(protocol \o <<":">>) = Len(protocol) + 1
    BY <2>1, Joined
  <2> QED
    BY <2>2, <2>3
<1>5. IsPrefix(protocol \o <<":">>, text) /\ Beyond(text, Len(protocol) + 1) = rest
  <2>1. Splits(text, protocol \o <<":">>, rest)
    BY <1>1, <1>4, Delimiters, Joined DEF Splits
  <2> HIDE DEF rest, text
  <2> QED
    BY <1>4, <2>1, SplitFacts
<1>6. IsPrefix(<<"/", "/">>, rest) /\ Beyond(rest, 2) = beyond
  <2>1. Splits(rest, <<"/", "/">>, beyond) /\ Len(<<"/", "/">>) = 2
    BY <1>1, Delimiters DEF Splits
  <2> HIDE DEF beyond, rest
  <2> QED
    BY <2>1, SplitFacts
<1>7. Ends(query, {"?", "#"})
  <2>1. CASE query = <<>>
    BY <2>1 DEF Ends
  <2>2. CASE query = <<"?">> \o list
    <3>1. query[1] = "?"
      BY <2>2, Delimiters DEF Text
    <3> QED
      BY <3>1 DEF Ends
  <2> QED
    BY <2>1, <2>2
<1>8. Ends(location, {"/", "?", "#"})
  <2>1. CASE path = <<>>
    <3>1. location = query
      BY <2>1 DEF Text
    <3> QED
      BY <1>7, <3>1 DEF Ends
  <2>2. CASE path # <<>>
    <3>1. location[1] = path[1]
      BY <2>2 DEF Text
    <3> QED
      BY <2>2, <3>1 DEF Ends
  <2> QED
    BY <2>1, <2>2
<1>9. Before(beyond, {"/", "?", "#"}) = hostport
  <2> HIDE DEF location
  <2> QED
    BY <1>1, <1>8, BeforeDelimiter DEF Ends, Lacks, Text
<1>10. Beyond(rest, 2 + Len(hostport)) = location
  <2> DEFINE head == <<"/", "/">> \o hostport
  <2>1. head \in Text /\ Len(head) = 2 + Len(hostport)
    BY Delimiters, Joined
  <2>2. rest = head \o location
    <3> HIDE DEF location
    <3> QED
      BY <1>1, SlashesFacts
  <2>3. Splits(rest, head, location)
    BY <1>1, <2>1, <2>2 DEF Splits
  <2> HIDE DEF head, location, rest
  <2> QED
    BY <2>1, <2>3, SplitFacts
<1>11. Before(location, {"?", "#"}) = path /\ Beyond(location, Len(path)) = query
  <2>1. Before(location, {"?", "#"}) = path
    BY <1>7, BeforeDelimiter DEF Ends, Lacks, Text
  <2>2. Beyond(location, Len(path)) = query
    BY Concatenated DEF Text
  <2> QED
    BY <2>1, <2>2
<1>12. /\ Before(query, {"#"}) = query
       /\ list = IF query = <<>> THEN <<>> ELSE Tail(query)
       /\ Beyond(location, Len(path) + Len(query)) = <<>>
  <2>1. Lacks(query, {"#"})
    <3>1. Lacks(<<>>, {"#"}) /\ Lacks(<<"?">>, {"#"})
      BY DEF Lacks
    <3>2. Lacks(<<"?">> \o list, {"#"})
      BY <3>1, Delimiters, LacksFacts
    <3> QED
      BY <3>1, <3>2
  <2>2. Before(query, {"#"}) = query
    <3>1. query \o <<>> = query
      BY DEF Text
    <3>2. Before(query \o <<>>, {"#"}) = query
      BY <2>1, BeforeDelimiter, Delimiters, ZenonT(40) DEF Lacks, Text
    <3> QED
      BY <3>1, <3>2
  <2>3. list = IF query = <<>> THEN <<>> ELSE Tail(query)
    <3>1. <<"?">> \o list # <<>> /\ Tail(<<"?">> \o list) = list
      BY Delimiters, SMTT(20) DEF Text
    <3> QED
      BY <3>1
  <2>4. Beyond(location, Len(path) + Len(query)) = <<>>
    <3>1. Len(location) = Len(path) + Len(query)
      BY Joined
    <3> HIDE DEF location
    <3>2. SubSeq(location, Len(location) + 1, Len(location)) = <<>>
      BY <1>1 DEF Text
    <3> QED
      BY <3>1, <3>2 DEF Beyond
  <2> QED
    BY <2>2, <2>3, <2>4
<1> HIDE DEF location, beyond, rest, named, text
<1>13. Groups(text) = [protocol |-> protocol, hostport |-> hostport, path |-> path,
                       parameters |-> list, fragment |-> <<>>]
  BY <1>3, <1>5, <1>6, <1>9, <1>10, <1>11, <1>12, ZenonT(40) DEF Groups
<1> QED
  BY <1>13 DEF Composed, location, beyond, rest, named, text

\* The parameters of a url, written in any order, and what is found of them
LEMMA ListFacts ==
    ASSUME NEW given \in SUBSET (Text \X Text), IsFiniteSet(given),
           \A p \in given : Lacks(p[1], {"#"}) /\ Lacks(p[2], {"#"}),
           NEW ps \in SetToSeqs(given)
    PROVE  \E t \in Text :
               /\ \/ ParameterText(ps) = <<>> /\ t = <<>>
                  \/ ParameterText(ps) = <<"?">> \o t
               /\ Lacks(t, {"#"}) /\ Kept(given, ParsedParameters(t))
<1>1. PICK n \in Nat : /\ ps \in [1..n -> given] /\ {ps[i] : i \in 1..n} = given
                       /\ \A i, j \in 1..n : ps[i] = ps[j] => i = j
  BY OrderFacts
<1>2. CASE n = 0
  <2>1. ps = <<>> /\ given = {}
    BY <1>1, <1>2
  <2>2. ParameterText(ps) = <<>>
    BY <2>1 DEF ParameterText
  <2>3. Finds(<<>>) = UNION {Finds(Written(p)) : p \in given}
    BY <2>1, PlainFinds
  <2>4. Lacks(<<>>, {"#"})
    BY DEF Lacks
  <2> QED
    BY <2>2, <2>3, <2>4, Delimiters, KeptFacts
<1>3. CASE n # 0
  <2>1. n \in Nat \ {0} /\ ps \in [1..n -> Text \X Text]
    BY <1>1, <1>3
  <2>2. \A i \in 1..n : Lacks(ps[i][1], {"#"}) /\ Lacks(ps[i][2], {"#"})
    BY <1>1
  <2>3. PICK t \in Text : /\ ParameterText(ps) = <<"?">> \o t /\ Lacks(t, {"#"})
                          /\ Finds(t) = UNION {Finds(Written(ps[i])) : i \in 1..n}
    BY <2>1, <2>2, ParameterTextFacts
  <2>4. UNION {Finds(Written(ps[i])) : i \in 1..n} = UNION {Finds(Written(p)) : p \in given}
    BY <1>1
  <2> QED
    BY <2>3, <2>4, KeptFacts
<1> QED
  BY <1>2, <1>3

\* The path of a url with its query, as toString writes it
LEMMA PathFacts ==
    ASSUME NEW path \in Text, NEW query \in Text,
           Lacks(path, {"?", "#"}), Lacks(query, {"?", "#"})
    PROVE  LET slash == IF path # <<>> /\ path[1] # "/" THEN <<"/">> ELSE <<>>
               tail == IF query # <<>> THEN <<"/">> \o query ELSE <<>>
               whole == slash \o path \o tail
           IN  /\ PathText(path) = slash \o path
               /\ PathText(path) \in Text /\ tail \in Text /\ whole \in Text
               /\ Lacks(whole, {"?", "#"})
               /\ whole = <<>> \/ whole[1] = "/"
<1> DEFINE slash == IF path # <<>> /\ path[1] # "/" THEN <<"/">> ELSE <<>>
           tail == IF query # <<>> THEN <<"/">> \o query ELSE <<>>
           front == slash \o path
           whole == front \o tail
<1>1. slash \in Text /\ Lacks(slash, {"?", "#"})
  BY Delimiters DEF Lacks
<1>2. PathText(path) = front
  BY DEF PathText, Text
<1>3. tail \in Text /\ Lacks(tail, {"?", "#"})
  <2>1. <<"/">> \o query \in Text
    BY Delimiters, Joined
  <2>2. Lacks(<<"/">>, {"?", "#"}) /\ Lacks(<<>>, {"?", "#"})
    BY DEF Lacks
  <2>3. Lacks(<<"/">> \o query, {"?", "#"})
    BY <2>2, Delimiters, LacksFacts
  <2> QED
    BY <2>1, <2>2, <2>3, Delimiters
<1>4. front \in Text /\ Lacks(front, {"?", "#"})
  <2> HIDE DEF slash
  <2> QED
    BY <1>1, Joined, LacksFacts
<1>5. front = <<>> \/ front[1] = "/"
  BY DEF Text
<1>6. tail = <<>> \/ tail[1] = "/"
  BY Delimiters DEF Text
<1> HIDE DEF front, tail
<1>7. whole \in Text /\ Lacks(whole, {"?", "#"})
  BY <1>3, <1>4, Joined, LacksFacts
<1>8. whole = <<>> \/ whole[1] = "/"
  BY <1>3, <1>4, <1>5, <1>6 DEF Text
<1> QED
  BY <1>2, <1>3, <1>4, <1>7, <1>8 DEF front, tail

\* The port, as toString writes it and std::stoi reads it
PortText(port) == IF port = 0 THEN <<>> ELSE <<":", Numeral[port]>>

\* std::stoi reads the port that was written, if it fits in an int.
LEMMA NumeralFacts ==
    ASSUME NEW port \in 0..(2 * IntMax + 1)
    PROVE  /\ Numeral[port] \in Words
           /\ Stoi(<<Numeral[port]>>) = IF port <= IntMax THEN {port} ELSE {}
           /\ port <= IntMax => Unsigned(port) = port
<1> DEFINE word == Numeral[port]
           digits == <<word>>
<1>1. /\ word \in DOMAIN Leading /\ Leading[word] = port /\ word \in Words
  BY NumeralAssumption
<1>2. IntMax \in Nat /\ port \in Nat
  BY UrlAssumption
<1> HIDE DEF word
<1>3. word \in Tokens /\ word \notin Blanks /\ word \notin Signs
  BY <1>1, UrlAssumption DEF Tokens
<1>4. digits \in Seq(Tokens) /\ digits # <<>> /\ digits[1] = word /\ Len(digits) = 1
  <2>1. ASSUME NEW T, NEW c \in T 
        PROVE <<c>> \in Seq(T) /\ <<c>> # <<>> /\ <<c>>[1] = c /\ Len(<<c>>) = 1
    OBVIOUS
  <2> QED
    BY <1>3, <2>1
<1> HIDE DEF digits
<1>5. Beyond(digits, Len(Before(digits, Tokens \ Blanks))) = digits
  <2>1. <<>> \in Seq(Tokens) /\ <<>> \o digits = digits /\ Len(<<>>) = 0
    BY <1>4
  <2>2. Before(<<>> \o digits, Tokens \ Blanks) = <<>>
    <3> DEFINE D == Tokens \ Blanks
    <3>1. digits[1] \in D /\ \A i \in 1..Len(<<>>) : <<>>[i] \notin D
      BY <1>3, <1>4
    <3> HIDE DEF D
    <3>2. Before(<<>> \o digits, D) = <<>>
      BY <1>4, <2>1, <3>1, BeforeDelimiter
    <3> QED
      BY <3>2 DEF D
  <2>3. Beyond(digits, 0) = digits
    BY <1>4 DEF Beyond
  <2> QED
    BY <2>1, <2>2, <2>3
<1>6. Stoi(digits) = {n \in -(IntMax + 1)..IntMax : n = port}
  <2>1. ~(digits # <<>> /\ digits[1] \in Signs)
    BY <1>3, <1>4
  <2> QED
    BY <1>1, <1>4, <1>5, <2>1 DEF Stoi
<1>7. Stoi(digits) = IF port <= IntMax THEN {port} ELSE {}
  BY <1>2, <1>6
<1>8. ASSUME port <= IntMax PROVE port % (2 * (IntMax + 1)) = port
  <2> DEFINE m == 2 * (IntMax + 1)
  <2>1. m \in Nat /\ m > 0 /\ port < m
    BY <1>2, <1>8
  <2> HIDE DEF m
  <2>2. port % m = port
    BY <1>2, <2>1
  <2> QED
    BY <2>2 DEF m
<1> QED
  BY <1>1, <1>7, <1>8 DEF Unsigned, word, digits

\* The host and the port, as toString writes them
LEMMA HostFacts ==
    ASSUME NEW host \in Text, NEW port \in 0..(2 * IntMax + 1), Lacks(host, {":", "/", "?", "#"})
    PROVE  LET hostport == host \o PortText(port)
           IN  /\ PortText(port) \in Text
               /\ hostport \in Text /\ Lacks(hostport, {"/", "?", "#"})
               /\ Before(hostport, {":"}) = host
               /\ host = hostport <=> port = 0
               /\ port # 0 => Beyond(hostport, Len(host) + 1) = <<Numeral[port]>>
<1> DEFINE numeral == Numeral[port]
           hostport == host \o PortText(port)
<1>1. numeral \in Tokens /\ numeral \notin {"/", "?", "#"}
  BY NumeralFacts, TokenFacts DEF Tokens
<1> HIDE DEF numeral
<1>2. /\ <<":", numeral>> \in Text /\ <<numeral>> \in Text /\ <<":">> \in Text
      /\ <<":", numeral>> = <<":">> \o <<numeral>>
  <2>1. ASSUME NEW T, NEW v \in T, NEW w \in T
        PROVE  <<v, w>> \in Seq(T) /\ <<w>> \in Seq(T) /\ <<v>> \in Seq(T)
               /\ <<v, w>> = <<v>> \o <<w>>
    <3>1. <<v, w>> \in Seq(T) /\ <<w>> \in Seq(T) /\ <<v>> \in Seq(T)
      OBVIOUS
    <3> DEFINE s == <<v>> \o <<w>>
    <3>2. s \in Seq(T) /\ Len(s) = 2 /\ s[1] = v /\ s[2] = w
      OBVIOUS
    <3> HIDE DEF s
    <3>3. s = <<v, w>>
      BY <3>2
    <3> QED
      BY <3>1, <3>3 DEF s
  <2>2. ":" \in Tokens
    BY TokenFacts
  <2> QED
    BY <1>1, <2>1, <2>2 DEF Text
<1>3. PortText(port) = IF port = 0 THEN <<>> ELSE <<":", numeral>>
  BY DEF PortText, numeral
<1>4. PortText(port) \in Text
  BY <1>2, <1>3, Delimiters
<1>5. Lacks(PortText(port), {"/", "?", "#"})
  <2>2. Lacks(<<":", numeral>>, {"/", "?", "#"})
    BY <1>1 DEF Lacks
  <2>3. Lacks(<<>>, {"/", "?", "#"})
    BY DEF Lacks
  <2> QED
    BY <1>3, <2>2, <2>3
<1>6. hostport \in Text /\ Lacks(hostport, {"/", "?", "#"})
  <2>1. Lacks(host, {"/", "?", "#"})
    BY DEF Lacks
  <2> QED
    BY <1>4, <1>5, <2>1, Joined, LacksFacts
<1>7. Before(hostport, {":"}) = host
  <2>1. PortText(port) = <<>> \/ PortText(port)[1] \in {":"}
    BY <1>3
  <2>2. \A i \in 1..Len(host) : host[i] \notin {":"}
    BY DEF Lacks
  <2>3. host \in Seq(Tokens) /\ PortText(port) \in Seq(Tokens)
    BY <1>4 DEF Text
  <2> QED
    BY <2>1, <2>2, <2>3, BeforeDelimiter
<1>8. Len(hostport) = Len(host) + IF port = 0 THEN 0 ELSE 2
  <2>1. Len(hostport) = Len(host) + Len(PortText(port))
    BY <1>4, Joined
  <2> QED
    BY <1>3, <2>1
<1>9. host = hostport <=> port = 0
  <2>1. Len(host) \in Nat
    BY DEF Text
  <2>2. port # 0 => host # hostport
    BY <1>8, <2>1
  <2>3. port = 0 => hostport = host
    BY <1>3 DEF Text
  <2> QED
    BY <2>2, <2>3
<1>10. ASSUME port # 0
       PROVE  Beyond(hostport, Len(host) + 1) = <<numeral>>
  <2>1. hostport = (host \o <<":">>) \o <<numeral>>
    BY <1>2, <1>3, <1>10, ColonFacts
  <2> DEFINE head == host \o <<":">>
  <2>2. head \in Seq(Tokens) /\ <<numeral>> \in Seq(Tokens) /\ Len(head) = Len(host) + 1
    BY <1>2, Joined DEF Text
  <2> HIDE DEF head
  <2>3. Beyond(head \o <<numeral>>, Len(head)) = <<numeral>>
    BY <2>2, Concatenated
  <2> QED
    BY <2>1, <2>2, <2>3 DEF head
<1> QED
  BY <1>4, <1>6, <1>7, <1>9, <1>10 DEF numeral

\* What toString has put together, associated to the right.  Joint is a concatenation
\* the provers do not look into.
Joint(u, v) == u \o v

LEMMA JointFacts ==
    /\ \A u, v \in Text : Joint(u, v) \in Text
    /\ \A u, v, w \in Text : Joint(Joint(u, v), w) = Joint(u, Joint(v, w))
<1>1. ASSUME NEW u \in Text, NEW v \in Text PROVE Joint(u, v) \in Text
  BY Joined DEF Joint
<1>2. ASSUME NEW u \in Text, NEW v \in Text, NEW w \in Text
      PROVE  Joint(Joint(u, v), w) = Joint(u, Joint(v, w))
  BY Associative DEF Joint
<1> QED
  BY <1>1, <1>2

PutTogether(text, a, c, d, e, f, g) ==
    text = a \o <<":", "/", "/">> \o c \o d \o e \o f \o g

\* The text of a url in the groups of s_regex
LEMMA Associated ==
    ASSUME NEW a \in Text, NEW c \in Text, NEW d \in Text, NEW e \in Text,
           NEW f \in Text, NEW g \in Text, NEW text, PutTogether(text, a, c, d, e, f, g)
    PROVE  Composed(text, a, c \o d, e \o f, g)
<1>1. ASSUME NEW b \in Text, NEW h \in Text
      PROVE  Joint(Joint(Joint(Joint(Joint(Joint(a, Joint(b, h)), c), d), e), f), g) =
                 Joint(a, Joint(b, Joint(h, Joint(Joint(c, d), Joint(Joint(e, f), g)))))
  <2> DEFINE k == Joint(a, Joint(b, h))
             m == Joint(c, d)
             l == Joint(k, m)
             o == Joint(Joint(e, f), g)
  <2>1. /\ Joint(b, h) \in Text /\ k \in Text /\ m \in Text /\ l \in Text /\ Joint(e, f) \in Text
        /\ o \in Text /\ Joint(m, o) \in Text /\ Joint(h, Joint(m, o)) \in Text
    BY JointFacts
  <2>2. Joint(Joint(k, c), d) = l
    <3>1. k \in Text
      BY <2>1
    <3> HIDE DEF k
    <3> QED
      BY <3>1, JointFacts
  <2>3. Joint(Joint(Joint(l, e), f), g) = Joint(l, o)
    <3>1. l \in Text /\ Joint(e, f) \in Text
      BY <2>1
    <3> HIDE DEF l
    <3>2. Joint(Joint(l, e), f) = Joint(l, Joint(e, f))
      BY <3>1, JointFacts
    <3>3. Joint(Joint(l, Joint(e, f)), g) = Joint(l, o)
      BY <3>1, JointFacts
    <3> QED
      BY <3>2, <3>3
  <2>4. Joint(l, o) = Joint(k, Joint(m, o))
    <3>1. k \in Text /\ m \in Text /\ o \in Text
      BY <2>1
    <3> HIDE DEF k, m, o
    <3> QED
      BY <3>1, JointFacts
  <2>5. Joint(k, Joint(m, o)) = Joint(a, Joint(b, Joint(h, Joint(m, o))))
    <3> DEFINE p == Joint(m, o)
    <3>1. p \in Text /\ Joint(b, h) \in Text
      BY <2>1
    <3> HIDE DEF p
    <3>2. Joint(Joint(a, Joint(b, h)), p) = Joint(a, Joint(Joint(b, h), p))
      BY <3>1, JointFacts
    <3>3. Joint(Joint(b, h), p) = Joint(b, Joint(h, p))
      BY <3>1, JointFacts
    <3> QED
      BY <3>2, <3>3 DEF p
  <2> QED
    BY <2>2, <2>3, <2>4, <2>5
<1>2. <<":">> \in Text /\ <<"/", "/">> \in Text /\ <<":", "/", "/">> = Joint(<<":">>, <<"/", "/">>)
  BY Delimiters DEF Joint
<1>3. Joint(Joint(Joint(Joint(Joint(Joint(a, <<":", "/", "/">>), c), d), e), f), g) =
          Joint(a, Joint(<<":">>, Joint(<<"/", "/">>, Joint(Joint(c, d), Joint(Joint(e, f), g)))))
  <2>1. Joint(Joint(Joint(Joint(Joint(Joint(a, Joint(<<":">>, <<"/", "/">>)), c), d), e), f), g) =
          Joint(a, Joint(<<":">>, Joint(<<"/", "/">>, Joint(Joint(c, d), Joint(Joint(e, f), g)))))
    BY <1>1, <1>2
  <2> QED
    BY <1>2, <2>1
<1> QED
  BY <1>3, Zenon DEF Joint, Composed, PutTogether

\* What a url is after it was written and parsed, with the parameters kept of it
Again(place, kept) ==
    LET slash == IF place.path # <<>> /\ place.path[1] # "/" THEN <<"/">> ELSE <<>>
        query == IF place.query # <<>> THEN <<"/">> \o place.query ELSE <<>>
    IN  [place EXCEPT !.path = slash \o place.path \o query, !.query = <<>>, !.parameters = kept]

Parts(a, b, c, d, e, f) == [protocol |-> a, hostname |-> b, port |-> c, path |-> d,
                            query |-> e, parameters |-> f]

Changed(place, x, y, z) == [place EXCEPT !.path = x, !.query = y, !.parameters = z]

LEMMA ExceptFacts ==
    ASSUME NEW a, NEW b, NEW c, NEW d, NEW e, NEW f, NEW x, NEW y, NEW z
    PROVE  Changed(Parts(a, b, c, d, e, f), x, y, z) = Parts(a, b, c, x, y, z)
<1>1. /\ [Parts(a, b, c, d, e, f) EXCEPT !.path = x] = Parts(a, b, c, x, e, f)
      /\ [Parts(a, b, c, x, e, f) EXCEPT !.query = y] = Parts(a, b, c, x, y, f)
      /\ [Parts(a, b, c, x, y, f) EXCEPT !.parameters = z] = Parts(a, b, c, x, y, z)
  <2>1. [Parts(a, b, c, d, e, f) EXCEPT !.path = x] = Parts(a, b, c, x, e, f)
    BY DEF Parts
  <2>2. [Parts(a, b, c, x, e, f) EXCEPT !.query = y] = Parts(a, b, c, x, y, f)
    BY DEF Parts
  <2>3. [Parts(a, b, c, x, y, f) EXCEPT !.parameters = z] = Parts(a, b, c, x, y, z)
    BY DEF Parts
  <2> QED
    BY <2>1, <2>2, <2>3
<1>2. \A r : [r EXCEPT !.path = x, !.query = y, !.parameters = z] =
                [[[r EXCEPT !.path = x] EXCEPT !.query = y] EXCEPT !.parameters = z]
  OBVIOUS
<1> QED
  BY <1>1, <1>2 DEF Changed

\* Url::parse without the set of one
LEMMA ParseMeaning == \A text : Parse(text) = Assembled(Groups(text))
<1>1. \A x : (CHOOSE r \in {x} : TRUE) = x
  OBVIOUS
<1>2. \A text : {Assembled(groups) : groups \in {Groups(text)}} = {Assembled(Groups(text))}
  OBVIOUS
<1> QED
  BY <1>1, <1>2 DEF Parse

\* Parsing what was written of a well formed url
LEMMA ParseFacts ==
    ASSUME NEW place, WellFormed(place), NEW text \in Texts(place)
    PROVE  IF place.port > IntMax THEN Parse(text) = Failure("MalformedUrl")
           ELSE \E kept : Parse(text) = Success(Again(place, kept)) /\ Kept(place.parameters, kept)
<1> DEFINE protocol == place.protocol
           host == place.hostname
           port == place.port
           slash == IF place.path # <<>> /\ place.path[1] # "/" THEN <<"/">> ELSE <<>>
           tail == IF place.query # <<>> THEN <<"/">> \o place.query ELSE <<>>
           path == slash \o place.path \o tail
           hostport == host \o PortText(port)
<1>1. /\ protocol \in Text /\ host \in Text /\ place.path \in Text /\ place.query \in Text
      /\ port \in 0..(2 * IntMax + 1) /\ protocol # <<>> /\ host # <<>>
      /\ place.parameters \in SUBSET (Text \X Text)
  <2>1. /\ protocol \in Strings /\ host \in Strings /\ place.path \in Strings
        /\ place.query \in Strings /\ port \in 0..(2 * IntMax + 1)
        /\ protocol # <<>> /\ host # <<>>
        /\ place.parameters \in SUBSET (Strings \X Strings)
    BY DEF WellFormed
  <2>2. Strings \subseteq Text
    BY DEF Strings, Text
  <2> QED
    BY <2>1, <2>2
<1>2. /\ Lacks(protocol, {":", "/", "?", "#"}) /\ Lacks(host, {":", "/", "?", "#"})
      /\ Lacks(place.path, {"?", "#"}) /\ Lacks(place.query, {"?", "#"})
      /\ \A p \in place.parameters : Lacks(p[1], {"#"}) /\ Lacks(p[2], {"#"})
  <2>1. /\ ToSet(protocol) \cap {":", "/", "?", "#"} = {}
        /\ ToSet(host) \cap {":", "/", "?", "#"} = {}
        /\ ToSet(place.path) \cap {"?", "#"} = {} /\ ToSet(place.query) \cap {"?", "#"} = {}
        /\ \A p \in place.parameters : ToSet(p[1]) \cap {"#"} = {} /\ ToSet(p[2]) \cap {"#"} = {}
    BY DEF WellFormed
  <2>2. ASSUME NEW s \in Text, NEW D, ToSet(s) \cap D = {} PROVE Lacks(s, D)
    <3>1. \A i \in 1..Len(s) : i \in DOMAIN s
      BY DEF Text
    <3> QED
      BY <2>2, <3>1 DEF ToSet, Lacks
  <2>3. ASSUME NEW p \in place.parameters PROVE Lacks(p[1], {"#"}) /\ Lacks(p[2], {"#"})
    <3>1. p[1] \in Text /\ p[2] \in Text
      BY <1>1
    <3> QED
      BY <2>1, <2>2, <3>1
  <2> QED
    BY <1>1, <2>1, <2>2, <2>3
<1>3. PICK ps \in SetToSeqs(place.parameters) :
          text = protocol \o <<":", "/", "/">> \o host \o PortText(port) \o PathText(place.path)
                     \o tail \o ParameterText(ps)
  BY DEF Texts, PortText
<1>4. PICK list \in Text :
          /\ \/ ParameterText(ps) = <<>> /\ list = <<>>
             \/ ParameterText(ps) = <<"?">> \o list
          /\ Lacks(list, {"#"}) /\ Kept(place.parameters, ParsedParameters(list))
  <2>1. IsFiniteSet(place.parameters)
    BY DEF WellFormed
  <2> QED
    BY <1>1, <1>2, <1>3, <2>1, ListFacts
<1> DEFINE found == ParsedParameters(list)
<1> DEFINE query == ParameterText(ps)
<1>5. query \in Text
  <2>1. <<>> \in Text /\ <<"?">> \o list \in Text
    BY Delimiters, Joined
  <2> HIDE DEF query
  <2>2. query = <<>> \/ query = <<"?">> \o list
    BY <1>4 DEF query
  <2> QED
    BY <2>1, <2>2
<1>6. /\ PathText(place.path) = slash \o place.path
      /\ PathText(place.path) \in Text /\ tail \in Text /\ path \in Text
      /\ Lacks(path, {"?", "#"})
      /\ path = <<>> \/ path[1] = "/"
  BY <1>1, <1>2, PathFacts
<1>7. /\ PortText(port) \in Text
      /\ hostport \in Text /\ Lacks(hostport, {"/", "?", "#"})
      /\ Before(hostport, {":"}) = host
      /\ host = hostport <=> port = 0
      /\ port # 0 => Beyond(hostport, Len(host) + 1) = <<Numeral[port]>>
  BY <1>1, <1>2, HostFacts
<1>8. Composed(text, protocol, hostport, path, query)
  <2> DEFINE portText == PortText(port)
             pathText == PathText(place.path)
  <2>1. /\ protocol \in Text /\ host \in Text /\ portText \in Text
        /\ pathText \in Text /\ tail \in Text /\ query \in Text
    BY <1>1, <1>5, <1>6, <1>7
  <2>2. PutTogether(text, protocol, host, portText, pathText, tail, query)
    BY <1>3 DEF PutTogether
  <2>3. path = pathText \o tail /\ hostport = host \o portText
    BY <1>6
  <2> HIDE DEF protocol, host, portText, pathText, tail, query, path, hostport
  <2>4. Composed(text, protocol, host \o portText, pathText \o tail, query)
    BY <2>1, <2>2, Associated
  <2> QED
    BY <2>3, <2>4
<1>9. /\ (query = <<>> /\ list = <<>>) \/ query = <<"?">> \o list
      /\ Lacks(list, {"#"})
  BY <1>4
<1> HIDE DEF query, path, hostport, protocol, host, port, tail
<1>10. Groups(text) = [protocol |-> protocol, hostport |-> hostport, path |-> path,
                       parameters |-> list, fragment |-> <<>>]
  <2>1. /\ protocol \in Text /\ hostport \in Text /\ path \in Text /\ list \in Text
        /\ query \in Text /\ protocol # <<>> /\ (path = <<>> \/ path[1] = "/")
    BY <1>1, <1>5, <1>6, <1>7
  <2>2. /\ Lacks(protocol, {":", "/", "?", "#"}) /\ Lacks(hostport, {"/", "?", "#"})
        /\ Lacks(path, {"?", "#"}) /\ Lacks(list, {"#"})
    BY <1>2, <1>6, <1>7, <1>9
  <2>3. (query = <<>> /\ list = <<>>) \/ query = <<"?">> \o list
    BY <1>9
  <2> QED
    BY <1>8, <2>1, <2>2, <2>3, GroupsFacts
<1> HIDE DEF found
<1> DEFINE Made(n) == [protocol |-> protocol, hostname |-> host, port |-> n, path |-> path,
                       query |-> <<>>, parameters |-> found]
           result == Made(port)
           numbers == Stoi(Beyond(hostport, Len(host) + 1))
<1>11. Parse(text) = IF host = hostport THEN Build(Made(0))
                     ELSE IF numbers = {} THEN Failure("MalformedUrl")
                     ELSE Build(Made(Unsigned(CHOOSE n \in numbers : TRUE)))
  <2>1. /\ Groups(text).protocol = protocol /\ Groups(text).hostport = hostport
        /\ Groups(text).path = path /\ ParsedParameters(Groups(text).parameters) = found
        /\ Before(Groups(text).hostport, {":"}) = host
    BY <1>7, <1>10 DEF found
  <2>2. "\n" \notin ToSet(Groups(text).fragment)
    <3>1. ToSet(<<>>) = {}
      BY DEF ToSet
    <3> QED
      BY <1>10, <3>1
  <2> DEFINE groups == Groups(text)
             name == Before(groups.hostport, {":"})
             read == Stoi(Beyond(groups.hostport, Len(name) + 1))
             Given(n) == [protocol |-> groups.protocol, hostname |-> name, port |-> n,
                        path |-> groups.path, query |-> <<>>,
                        parameters |-> ParsedParameters(groups.parameters)]
  <2>3. Parse(text) = IF "\n" \in ToSet(groups.fragment) THEN Failure("MalformedUrl")
                      ELSE IF name = groups.hostport THEN Build(Given(0))
                      ELSE IF read = {} THEN Failure("MalformedUrl")
                      ELSE Build(Given(Unsigned(CHOOSE n \in read : TRUE)))
    BY ParseMeaning DEF Assembled
  <2>4. name = host /\ read = numbers /\ groups.hostport = hostport
    BY <2>1
  <2>5. \A n : Given(n) = Made(n)
    BY <2>1
  <2> HIDE DEF groups, name, read, numbers, Given, Made
  <2> QED
    BY <2>2, <2>3, <2>4, <2>5 DEF groups
<1>12. host # hostport => numbers = IF port <= IntMax THEN {port} ELSE {}
  BY <1>1, <1>7, NumeralFacts
<1>13. CASE place.port > IntMax
  <2>1. port # 0 /\ ~(port <= IntMax)
    BY <1>1, <1>13, UrlAssumption DEF port
  <2> HIDE DEF Made, numbers
  <2> QED
    BY <1>7, <1>11, <1>12, <1>13, <2>1
<1>14. CASE ~(place.port > IntMax)
  <2>1. Parse(text) = Build(result)
    <3>1. CASE port = 0
      BY <1>7, <1>11, <3>1
    <3>2. CASE port # 0
      <4>1. port <= IntMax
        BY <1>1, <1>14, UrlAssumption DEF port
      <4>2. numbers = {port} /\ Unsigned(port) = port
        BY <1>1, <1>7, <1>12, <3>2, <4>1, NumeralFacts
      <4>3. (CHOOSE n \in {port} : TRUE) = port /\ {port} # {}
        OBVIOUS
      <4> HIDE DEF Made, numbers
      <4> QED
        BY <1>7, <1>11, <3>2, <4>2, <4>3 DEF result
    <3> QED
      BY <3>1, <3>2
  <2>2. Build(result) = Success(result)
    BY <1>1 DEF Build
  <2>3. result = Again(place, found)
    <3>1. place \in [protocol : Strings, hostname : Strings, port : 0..(2 * IntMax + 1),
                   path : Strings, query : Strings, parameters : SUBSET (Strings \X Strings)]
      BY DEF WellFormed
    <3>2. PICK d, e, f : place = Parts(protocol, host, port, d, e, f)
      BY <3>1 DEF Parts, protocol, host, port
    <3>3. result = Parts(protocol, host, port, path, <<>>, found)
      BY DEF Parts
    <3>4. result = Changed(place, path, <<>>, found)
      BY <3>2, <3>3, ExceptFacts
    <3> QED
      BY <3>4 DEF Again, Changed, path, tail
  <2> HIDE DEF result
  <2> QED
    BY <1>4, <1>14, <2>1, <2>2, <2>3 DEF found
<1> QED
  BY <1>13, <1>14

\* A part of a string is a string.
LEMMA PartFacts ==
    ASSUME NEW s \in Strings, NEW m \in 1..(Len(s) + 1), NEW n \in 0..Len(s)
    PROVE  LET part == SubSeq(s, m, n)
           IN  /\ part \in Strings /\ Len(part) = IF m <= n THEN (n - m) + 1 ELSE 0
               /\ \A i \in 1..Len(part) : part[i] = s[(m + i) - 1]
<1> DEFINE part == SubSeq(s, m, n)
<1>1. s \in Seq(Tokens) /\ Len(s) \in Nat /\ m \in Nat /\ n \in Nat /\ 1 <= m /\ n <= Len(s)
  BY DEF Strings
<1>2. /\ part \in Seq(Tokens) /\ Len(part) = IF m <= n THEN (n - m) + 1 ELSE 0
      /\ \A i \in 1..Len(part) : part[i] = s[(m + i) - 1]
  BY <1>1
<1> HIDE DEF part
<1>3. ASSUME NEW i \in 1..(Len(part) - 1) PROVE ~({part[i], part[i + 1]} \subseteq Words)
  <2> DEFINE j == (m + i) - 1
  <2> DEFINE k == Len(part)
  <2>1. /\ i \in 1..Len(part) /\ i + 1 \in 1..Len(part) /\ (m + (i + 1)) - 1 = j + 1
        /\ j \in 1..(Len(s) - 1)
    <3>1. k = IF m <= n THEN (n - m) + 1 ELSE 0
      BY <1>2
    <3>2. i \in 1..(k - 1)
      OBVIOUS
    <3> HIDE DEF k
    <3>3. k \in Nat /\ k <= (n - m) + 1
      BY <1>1, <3>1, <3>2
    <3>4. i \in 1..k /\ i + 1 \in 1..k /\ (m + (i + 1)) - 1 = j + 1 /\ j \in 1..(Len(s) - 1)
      BY <1>1, <3>2, <3>3
    <3> QED
      BY <3>4 DEF k
  <2>2. part[i] = s[j] /\ part[i + 1] = s[j + 1]
    BY <1>2, <2>1
  <2> HIDE DEF j
  <2>3. ~({s[j], s[j + 1]} \subseteq Words)
    BY <2>1 DEF Strings
  <2> QED
    BY <2>2, <2>3
<1>4. part \in Strings
  BY <1>2, <1>3 DEF Strings
<1> QED
  BY <1>2, <1>4 DEF part

LEMMA SingleFacts ==
    /\ <<>> \in Strings /\ \A w \in Words : <<w>> \in Strings
    /\ \A s \in Strings : s \in Text /\ Len(s) \in Nat
<1>1. <<>> \in Strings
  BY DEF Strings
<1>2. ASSUME NEW w \in Words PROVE <<w>> \in Strings
  <2>1. <<w>> \in Seq(Tokens) /\ Len(<<w>>) = 1
    <3>1. ASSUME NEW T, NEW c \in T PROVE <<c>> \in Seq(T) /\ Len(<<c>>) = 1
      OBVIOUS
    <3> QED
      BY <3>1 DEF Tokens
  <2> DEFINE s == <<w>>
  <2> HIDE DEF s
  <2>2. s \in Seq(Tokens) /\ Len(s) = 1
    BY <2>1 DEF s
  <2>3. \A i \in 1..(Len(s) - 1) : ~({s[i], s[i + 1]} \subseteq Words)
    <3>1. \A i \in 1..(Len(s) - 1) : FALSE
      BY <2>2
    <3> QED
      BY <3>1
  <2>4. s \in Strings
    BY <2>2, <2>3 DEF Strings
  <2> QED
    BY <2>4 DEF s
<1>3. ASSUME NEW s \in Strings PROVE s \in Text /\ Len(s) \in Nat
  BY DEF Strings, Text
<1> QED
  BY <1>1, <1>2, <1>3

\* What Before returns of any text
LEMMA BeforeFacts ==
    ASSUME NEW text \in Strings, NEW delimiters
    PROVE  LET head == Before(text, delimiters)
           IN  /\ head \in Strings /\ Len(head) <= Len(text)
               /\ \A i \in 1..Len(head) : head[i] = text[i]
               /\ Lacks(head, delimiters)
               /\ Len(head) < Len(text) => text[Len(head) + 1] \in delimiters
<1> DEFINE I == {i \in 1..Len(text) : text[i] \in delimiters}
           head == Before(text, delimiters)
<1>1. head = IF (IF I # {} THEN Min(I) ELSE 0) = 0 THEN text
             ELSE SubSeq(text, 1, (IF I # {} THEN Min(I) ELSE 0) - 1)
  BY BeforeMeaning
<1>2. CASE I = {}
  <2>1. head = text
    BY <1>1, <1>2
  <2>2. \A i \in 1..Len(text) : text[i] \notin delimiters
    BY <1>2
  <2> HIDE DEF head
  <2> QED
    BY <2>1, <2>2 DEF Lacks, head
<1>3. CASE I # {}
  <2>1. PICK k \in I : k = Min(I) /\ \A j \in I : k <= j
    <3>1. I \in SUBSET Nat
      OBVIOUS
    <3> HIDE DEF I
    <3> QED
      BY <1>3, <3>1, MinFacts
  <2>2. k \in 1..Len(text) /\ text[k] \in delimiters
    OBVIOUS
  <2>3. \A j \in 1..(k - 1) : text[j] \notin delimiters
    BY <2>1, <2>2
  <2>4. head = SubSeq(text, 1, k - 1)
    <3>1. k # 0
      BY <2>2
    <3> HIDE DEF I, head
    <3> QED
      BY <1>1, <1>3, <2>1, <3>1
  <2> HIDE DEF head, I
  <2>5. head \in Strings /\ Len(head) = k - 1 /\ \A i \in 1..(k - 1) : head[i] = text[i]
    <3>1. 1 \in 1..(Len(text) + 1) /\ k - 1 \in 0..Len(text) /\ k - 1 \in Nat
      BY <2>2, SingleFacts
    <3>2. /\ head \in Strings /\ Len(head) = IF 1 <= k - 1 THEN ((k - 1) - 1) + 1 ELSE 0
          /\ \A i \in 1..Len(head) : head[i] = text[(1 + i) - 1]
      BY <2>4, <3>1, PartFacts
    <3> QED
      BY <3>1, <3>2
  <2> QED
    BY <2>2, <2>3, <2>5 DEF Lacks, head
<1> QED
  BY <1>2, <1>3

\* What Beyond returns of any text
LEMMA BeyondFacts ==
    ASSUME NEW text \in Strings, NEW n \in Nat, n <= Len(text)
    PROVE  /\ Beyond(text, n) \in Strings /\ Len(Beyond(text, n)) = Len(text) - n
           /\ \A i \in 1..(Len(text) - n) : Beyond(text, n)[i] = text[n + i]
<1>1. Beyond(text, n) = SubSeq(text, n + 1, Len(text))
  BY DEF Beyond
<1>2. Len(text) \in Nat /\ n + 1 \in 1..(Len(text) + 1) /\ Len(text) \in 0..Len(text)
  BY SingleFacts
<1> DEFINE part == SubSeq(text, n + 1, Len(text))
<1>3. /\ part \in Strings
      /\ Len(part) = IF n + 1 <= Len(text) THEN (Len(text) - (n + 1)) + 1 ELSE 0
      /\ \A i \in 1..Len(part) : part[i] = text[((n + 1) + i) - 1]
  BY <1>2, PartFacts
<1> HIDE DEF part
<1>4. Len(part) = Len(text) - n
  BY <1>2, <1>3
<1>5. \A i \in 1..(Len(text) - n) : ((n + 1) + i) - 1 = n + i
  BY <1>2
<1> QED
  BY <1>1, <1>3, <1>4, <1>5 DEF part

\* A prefix of some length leaves that much less.
LEMMA PrefixLength ==
    ASSUME NEW u, NEW v, IsPrefix(u, v)
    PROVE  Len(u) <= Len(v)
  BY DEF IsPrefix

\* The groups of any text
LEMMA AnyGroups ==
    ASSUME NEW text \in Strings
    PROVE  LET groups == Groups(text)
           IN  /\ groups.protocol \in Strings /\ Lacks(groups.protocol, {":", "/", "?", "#"})
               /\ groups.hostport \in Strings /\ Lacks(groups.hostport, {"/", "?", "#"})
               /\ groups.path \in Strings /\ Lacks(groups.path, {"?", "#"})
               /\ groups.parameters \in Strings
               /\ groups.hostport # <<>> => groups.path = <<>> \/ groups.path[1] = "/"
<1> DEFINE scheme == Before(text, {":", "/", "?", "#"})
           named == scheme # <<>> /\ IsPrefix(scheme \o <<":">>, text)
           rest == IF named THEN Beyond(text, Len(scheme) + 1) ELSE text
           hosted == IsPrefix(<<"/", "/">>, rest)
           hostport == IF hosted THEN Before(Beyond(rest, 2), {"/", "?", "#"}) ELSE <<>>
           location == IF hosted THEN Beyond(rest, 2 + Len(hostport)) ELSE rest
           path == Before(location, {"?", "#"})
           tail == Beyond(location, Len(path))
           query == Before(tail, {"#"})
           list == IF query = <<>> THEN <<>> ELSE Tail(query)
<1>1. Groups(text) = [protocol |-> IF named THEN scheme ELSE <<>>, hostport |-> hostport,
                      path |-> path, parameters |-> list,
                      fragment |-> Beyond(location, Len(path) + Len(query))]
  BY DEF Groups
<1>2. scheme \in Strings /\ Lacks(scheme, {":", "/", "?", "#"})
  BY BeforeFacts
<1>0. <<>> \in Strings /\ \A D : Lacks(<<>>, D)
  BY SingleFacts DEF Lacks
<1> HIDE DEF scheme
<1>3. rest \in Strings
  <2>1. CASE named
    <3>1. Len(scheme \o <<":">>) <= Len(text)
      BY <2>1, PrefixLength
    <3>2. Len(scheme \o <<":">>) = Len(scheme) + 1 /\ Len(scheme) + 1 \in Nat
      BY <1>2
    <3>3. Beyond(text, Len(scheme) + 1) \in Strings
      BY <3>1, <3>2, BeyondFacts
    <3> QED
      BY <2>1, <3>3
  <2>2. CASE ~named
    BY <2>2
  <2> QED
    BY <2>1, <2>2
<1> HIDE DEF named, rest
<1>4. /\ hostport \in Strings /\ Lacks(hostport, {"/", "?", "#"})
      /\ location \in Strings
      /\ hosted => location = <<>> \/ location[1] \in {"/", "?", "#"}
  <2>1. CASE hosted
    <3> DEFINE beyond == Beyond(rest, 2)
    <3>1. 2 <= Len(rest)
      BY <2>1, PrefixLength
    <3>2. beyond \in Strings /\ Len(beyond) = Len(rest) - 2
          /\ \A i \in 1..(Len(rest) - 2) : beyond[i] = rest[2 + i]
      BY <1>3, <3>1, BeyondFacts
    <3> HIDE DEF beyond
    <3>3. /\ hostport \in Strings /\ Lacks(hostport, {"/", "?", "#"})
          /\ Len(hostport) <= Len(beyond)
          /\ Len(hostport) < Len(beyond) => beyond[Len(hostport) + 1] \in {"/", "?", "#"}
      <4>1. hostport = Before(beyond, {"/", "?", "#"})
        BY <2>1 DEF beyond
      <4> HIDE DEF hostport
      <4> QED
        BY <3>2, <4>1, BeforeFacts
    <3>4. location = Beyond(rest, 2 + Len(hostport))
      BY <2>1
    <3> HIDE DEF hostport, location
    <3>5. Len(hostport) \in Nat /\ Len(rest) \in Nat /\ 2 + Len(hostport) \in Nat
          /\ 2 + Len(hostport) <= Len(rest)
      BY <1>3, <3>2, <3>3
    <3>6. /\ location \in Strings /\ Len(location) = Len(rest) - (2 + Len(hostport))
          /\ \A i \in 1..(Len(rest) - (2 + Len(hostport))) :
                location[i] = rest[(2 + Len(hostport)) + i]
      BY <1>3, <3>4, <3>5, BeyondFacts
    <3>7. location = <<>> \/ location[1] \in {"/", "?", "#"}
      <4> SUFFICES ASSUME location # <<>> PROVE location[1] \in {"/", "?", "#"}
        OBVIOUS
      <4>1. Len(location) > 0
        BY <3>6
      <4>2. location[1] = rest[(2 + Len(hostport)) + 1] /\ Len(hostport) + 1 \in 1..(Len(rest) - 2)
        BY <3>5, <3>6, <4>1
      <4>3. beyond[Len(hostport) + 1] = rest[2 + (Len(hostport) + 1)]
        BY <3>2, <4>2
      <4>4. (2 + Len(hostport)) + 1 = 2 + (Len(hostport) + 1) /\ Len(hostport) < Len(beyond)
        BY <3>2, <3>5, <4>2
      <4> QED
        BY <3>3, <4>2, <4>3, <4>4
    <3> QED
      BY <3>3, <3>6, <3>7
  <2>2. CASE ~hosted
    BY <1>0, <1>3, <2>2
  <2> QED
    BY <2>1, <2>2
<1>5. hostport # <<>> => hosted
  OBVIOUS
<1> HIDE DEF hosted, hostport, location
<1>6. path \in Strings /\ Lacks(path, {"?", "#"}) /\ Len(path) <= Len(location)
      /\ \A i \in 1..Len(path) : path[i] = location[i]
  BY <1>4, BeforeFacts
<1> HIDE DEF path
<1>7. tail \in Strings
  BY <1>4, <1>6, SingleFacts, BeyondFacts
<1> HIDE DEF tail
<1>8. query \in Strings /\ list \in Strings
  <2>1. query \in Strings
    BY <1>7, BeforeFacts
  <2> HIDE DEF query
  <2>2. CASE query # <<>>
    <3>1. Len(query) \in Nat /\ Len(query) > 0
      <4>1. query \in Seq(Tokens)
        BY <2>1 DEF Strings
      <4> QED
        BY <2>2, <4>1
    <3>2. Tail(query) = Beyond(query, 1)
      BY DEF Beyond
    <3>3. Beyond(query, 1) \in Strings
      BY <2>1, <3>1, BeyondFacts
    <3> QED
      BY <2>1, <2>2, <3>2, <3>3
  <2>3. CASE query = <<>>
    BY <1>0, <2>1, <2>3
  <2> QED
    BY <2>2, <2>3
<1> HIDE DEF query
<1>9. hostport # <<>> => path = <<>> \/ path[1] = "/"
  <2> SUFFICES ASSUME hostport # <<>>, path # <<>> PROVE path[1] = "/"
    OBVIOUS
  <2>1. Len(path) > 0 /\ 1 \in 1..Len(path) /\ path[1] = location[1] /\ location # <<>>
    BY <1>4, <1>6
  <2>2. location[1] \in {"/", "?", "#"}
    BY <1>4, <1>5, <2>1
  <2>3. path[1] \notin {"?", "#"}
    BY <1>6, <2>1 DEF Lacks
  <2> QED
    BY <2>1, <2>2, <2>3
<1> HIDE DEF list
<1> DEFINE protocol == IF named THEN scheme ELSE <<>>
<1>10. protocol \in Strings /\ Lacks(protocol, {":", "/", "?", "#"})
  BY <1>0, <1>2
<1> HIDE DEF protocol
<1>11. /\ Groups(text).protocol = protocol /\ Groups(text).hostport = hostport
       /\ Groups(text).path = path /\ Groups(text).parameters = list
  BY <1>1 DEF protocol
<1> QED
  BY <1>4, <1>6, <1>8, <1>9, <1>10, <1>11

\* Parsing any text gives a url that is well formed, with parameters of two words, and
\* that writing and parsing leave as it is.
LEMMA ParsedFormed ==
    ASSUME NEW text \in Strings, Succeeded(Parse(text))
    PROVE  LET place == Parse(text).value
           IN  /\ WellFormed(place) /\ Again(place, place.parameters) = place
               /\ place.parameters \subseteq WordTexts \X WordTexts
<1> DEFINE groups == Groups(text)
           host == Before(groups.hostport, {":"})
           numbers == Stoi(Beyond(groups.hostport, Len(host) + 1))
           found == ParsedParameters(groups.parameters)
           Made(n) == [protocol |-> groups.protocol, hostname |-> host, port |-> n,
                       path |-> groups.path, query |-> <<>>, parameters |-> found]
<1>1. /\ groups.protocol \in Strings /\ Lacks(groups.protocol, {":", "/", "?", "#"})
      /\ groups.hostport \in Strings /\ Lacks(groups.hostport, {"/", "?", "#"})
      /\ groups.path \in Strings /\ Lacks(groups.path, {"?", "#"})
      /\ groups.parameters \in Strings
      /\ groups.hostport # <<>> => groups.path = <<>> \/ groups.path[1] = "/"
  BY AnyGroups
<1>2. Parse(text) = IF host = groups.hostport THEN Build(Made(0))
                    ELSE IF numbers = {} THEN Failure("MalformedUrl")
                    ELSE Build(Made(Unsigned(CHOOSE n \in numbers : TRUE)))
  <2>1. Parse(text) = IF "\n" \in ToSet(groups.fragment) THEN Failure("MalformedUrl")
                      ELSE IF host = groups.hostport THEN Build(Made(0))
                      ELSE IF numbers = {} THEN Failure("MalformedUrl")
                      ELSE Build(Made(Unsigned(CHOOSE n \in numbers : TRUE)))
    BY ParseMeaning DEF Assembled
  <2> HIDE DEF groups, host, numbers, Made
  <2>2. ~Succeeded(Failure("MalformedUrl"))
    BY DEF Succeeded, Failure
  <2> QED
    BY <2>1, <2>2
<1> HIDE DEF groups
<1>3. /\ host \in Strings /\ Lacks(host, {":", "/", "?", "#"})
      /\ host # <<>> => groups.hostport # <<>>
  <2>1. /\ host \in Strings /\ Len(host) <= Len(groups.hostport)
        /\ \A i \in 1..Len(host) : host[i] = groups.hostport[i]
        /\ Lacks(host, {":"})
    BY <1>1, BeforeFacts
  <2> HIDE DEF host
  <2>2. Lacks(host, {":", "/", "?", "#"})
    <3>1. Len(host) \in Nat /\ Len(groups.hostport) \in Nat
      BY <1>1, <2>1, SingleFacts
    <3>2. \A i \in 1..Len(host) : i \in 1..Len(groups.hostport)
      BY <2>1, <3>1
    <3> QED
      BY <1>1, <2>1, <3>2 DEF Lacks
  <2>3. host # <<>> => groups.hostport # <<>>
    <3>1. host \in Seq(Tokens)
      BY <2>1 DEF Strings
    <3> QED
      BY <2>1, <3>1
  <2> QED
    BY <2>1, <2>2, <2>3
<1>4. /\ found \subseteq WordTexts \X WordTexts /\ IsFiniteSet(found)
      /\ \A p, q \in found : p[1] = q[1] => p = q
  BY <1>1, SingleFacts, ParsedFacts
<1>0. found \in SUBSET (Strings \X Strings)
  <2>1. WordTexts \subseteq Strings
    BY SingleFacts DEF WordTexts
  <2> HIDE DEF found
  <2> QED
    BY <1>4, <2>1
<1> HIDE DEF host, found
<1>5. \E n \in 0..(2 * IntMax + 1) : Parse(text) = Build(Made(n))
  <2>1. CASE host = groups.hostport
    <3>1. 0 \in 0..(2 * IntMax + 1)
      BY UrlAssumption
    <3> QED
      BY <1>2, <2>1, <3>1
  <2>2. CASE host # groups.hostport
    <3>1. numbers # {}
      BY <1>2, <2>2 DEF Succeeded, Failure
    <3>2. PICK n \in numbers : n = CHOOSE m \in numbers : TRUE
      BY <3>1
    <3>3. n \in Int
      BY UrlAssumption DEF Stoi
    <3>4. Unsigned(n) \in 0..(2 * IntMax + 1)
      <4> DEFINE m == 2 * (IntMax + 1)
      <4>1. m \in Nat /\ m > 0 /\ m - 1 = 2 * IntMax + 1
        BY UrlAssumption
      <4> HIDE DEF m
      <4>2. n % m \in 0..(m - 1)
        BY <3>3, <4>1
      <4> QED
        BY <4>1, <4>2 DEF Unsigned, m
    <3> HIDE DEF numbers, Made
    <3> QED
      BY <1>2, <2>2, <3>1, <3>2, <3>4
  <2> QED
    BY <2>1, <2>2
<1>6. PICK n \in 0..(2 * IntMax + 1) : Parse(text) = Build(Made(n))
  BY <1>5
<1> DEFINE place == Made(n)
<1>7. place.protocol # <<>> /\ place.hostname # <<>> /\ Parse(text).value = place
  <2> HIDE DEF Made
  <2>1. CASE place.protocol = <<>> \/ place.hostname = <<>>
    BY <1>6, <2>1 DEF Build, Succeeded, Failure
  <2>2. CASE ~(place.protocol = <<>> \/ place.hostname = <<>>)
    <3>1. Parse(text) = Success(place)
      BY <1>6, <2>2 DEF Build
    <3> QED
      BY <2>2, <3>1 DEF Success
  <2> QED
    BY <2>1, <2>2
<1>8. /\ place.protocol = groups.protocol /\ place.hostname = host /\ place.port = n
      /\ place.path = groups.path /\ place.query = <<>> /\ place.parameters = found
  OBVIOUS
<1>9. WellFormed(place)
  <2>1. place \in [protocol : Strings, hostname : Strings, port : 0..(2 * IntMax + 1),
                 path : Strings, query : Strings, parameters : SUBSET (Strings \X Strings)]
    <3> DEFINE protocol == groups.protocol
               path == groups.path
    <3>1. /\ protocol \in Strings /\ host \in Strings /\ path \in Strings
          /\ found \in SUBSET (Strings \X Strings) /\ <<>> \in Strings
      BY <1>0, <1>1, <1>3, SingleFacts, Zenon
    <3>2. place = [protocol |-> protocol, hostname |-> host, port |-> n, path |-> path,
                 query |-> <<>>, parameters |-> found]
      OBVIOUS
    <3> HIDE DEF protocol, path, place
    <3> QED
      BY <3>1, <3>2
  <2>2. ASSUME NEW s \in Strings, NEW D, Lacks(s, D) PROVE ToSet(s) \cap D = {}
    <3>1. \A i \in DOMAIN s : i \in 1..Len(s)
      BY DEF Strings
    <3> QED
      BY <2>2, <3>1 DEF ToSet, Lacks
  <2>3. ToSet(<<>>) = {}
    BY DEF ToSet
  <2>4. /\ ToSet(groups.protocol) \cap {":", "/", "?", "#"} = {}
        /\ ToSet(host) \cap {":", "/", "?", "#"} = {}
        /\ (ToSet(groups.path) \cup ToSet(<<>>)) \cap {"?", "#"} = {}
    <3>1. ToSet(groups.protocol) \cap {":", "/", "?", "#"} = {}
      BY <1>1, <2>2, Zenon
    <3>2. ToSet(host) \cap {":", "/", "?", "#"} = {}
      BY <1>3, <2>2, Zenon
    <3>3. ToSet(groups.path) \cap {"?", "#"} = {}
      BY <1>1, <2>2, Zenon
    <3> QED
      BY <2>3, <3>1, <3>2, <3>3
  <2>5. ASSUME NEW p \in found PROVE "#" \notin ToSet(p[1]) \cup ToSet(p[2])
    <3>1. PICK a \in Words, b \in Words : p = <<<<a>>, <<b>>>>
      BY <1>4 DEF WordTexts
    <3>2. ASSUME NEW c PROVE ToSet(<<c>>) = {c}
      <4>1. DOMAIN <<c>> = {1} /\ <<c>>[1] = c
        OBVIOUS
      <4> QED
        BY <4>1 DEF ToSet
    <3>3. p[1] = <<a>> /\ p[2] = <<b>> /\ a # "#" /\ b # "#"
      BY <3>1, TokenFacts
    <3>4. ToSet(p[1]) \cup ToSet(p[2]) = {a, b}
      BY <3>2, <3>3
    <3> QED
      BY <3>3, <3>4
  <2> HIDE DEF place
  <2> QED
    BY <1>0, <1>4, <1>7, <1>8, <2>1, <2>4, <2>5, Zenon DEF WellFormed
<1>10. Again(place, found) = place
  <2>1. groups.path = <<>> \/ groups.path[1] = "/"
    <3> HIDE DEF place
    <3>1. groups.hostport # <<>>
      BY <1>3, <1>7, <1>8, Zenon
    <3> QED
      BY <1>1, <3>1
  <2>3. <<>> \o groups.path \o <<>> = groups.path
    BY <1>1 DEF Strings
  <2> HIDE DEF place
  <2>4. Again(place, found) = Changed(place, groups.path, <<>>, found)
    <3>1. (IF place.path # <<>> /\ place.path[1] # "/" THEN <<"/">> ELSE <<>>) = <<>>
      BY <1>8, <2>1
    <3>2. (IF place.query # <<>> THEN <<"/">> \o place.query ELSE <<>>) = <<>>
      BY <1>8
    <3> QED
      BY <1>8, <2>3, <3>1, <3>2, Zenon DEF Again, Changed
  <2>5. place = Parts(groups.protocol, host, n, groups.path, <<>>, found)
    BY DEF place, Parts
  <2> HIDE DEF place
  <2> QED
    BY <2>4, <2>5, ExceptFacts
<1> HIDE DEF place
<1> QED
  BY <1>4, <1>7, <1>8, <1>9, <1>10

\* No step makes a url other than the ones applications make.
UrlInv == url \in Urls \cup {EmptyUrl}

LEMMA UrlInvariant == Spec => []UrlInv
<1>1. Init => UrlInv
  BY DEF Init, UrlInv
<1>2. ASSUME UrlInv, [Next]_vars PROVE UrlInv'
  <2> USE DEF UrlInv
  <2>1. CASE UNCHANGED url
    BY <1>2, <2>1
  <2>2. CASE Publish
    BY <2>2 DEF Publish
  <2>3. CASE Start \/ CallerStep
    BY <2>1, <2>3 DEF Start, CallerStep, Launch, Join, TerminateAll, IocStop, Wait,
                      restVars, connectVars
  <2>4. CASE Stop \/ Terminate
    BY <2>1, <2>4 DEF Stop, Terminate, DoStop, connectVars
  <2>5. ASSUME NEW n \in Runs, IoStep(n) \/ RunReturns(n) \/ Handlers(n) \/ Ask(n)
        PROVE  UNCHANGED url
    BY <2>5 DEF IoStep, RunReturns, Ask, SetStarted, Test, SetStopped, GetService, Go,
                Handlers, ReadAborted, restVars, connectVars
  <2>6. CASE RegisterFactory
    BY <1>2, <2>6 DEF RegisterFactory
  <2>7. CASE MakeUrl
    BY <1>2, <2>7 DEF MakeUrl
  <2>8. ASSUME NEW s \in Sessions, Connect(s) \/ CreateSession(s) \/ TerminateSession(s)
        PROVE  UrlInv'
    BY <1>2, <2>8 DEF Connect, CreateSession, TerminateSession, connectVars
  <2>9. CASE UNCHANGED vars
    BY <2>1, <2>9 DEF vars, restVars, connectVars
  <2> QED
    BY <1>2, <2>1, <2>2, <2>3, <2>4, <2>5, <2>6, <2>7, <2>8, <2>9 DEF Next
<1> QED
  BY <1>1, <1>2, PTL DEF Spec

\* UrlKept, seen from what was kept of the parameters
LEMMA KeptUrl ==
    ASSUME NEW text, NEW kept, Parse(text) = Success(Again(url, kept)), WellFormed(url)
    PROVE  /\ Succeeded(Parse(text)) /\ Parse(text).value = Again(url, kept)
           /\ Parse(text).value.parameters = kept
<1>1. Succeeded(Parse(text)) /\ Parse(text).value = Again(url, kept)
  BY DEF Succeeded, Success
<1>2. Again(url, kept).parameters = kept
  BY DEF Again, WellFormed
<1> QED
  BY <1>1, <1>2

\* A url that Url::toString has written, with its parameters in any order of the map, is
\* the same place when Url::parse has read it, with what is found in each of its
\* parameters: for urls of any parts that hold no separator which ends them.
THEOREM UrlKeptCorrect == Spec => []UrlKept
<1>1. UrlInv => UrlKept
  <2> SUFFICES ASSUME UrlInv, url # EmptyUrl PROVE UrlKept
    BY DEF UrlKept
  <2>1. WellFormed(url)
    BY UrlsAssumption DEF UrlInv
  <2>2. ASSUME NEW text \in Texts(url)
        PROVE  LET parsed == Parse(text)
                   kept == parsed.value.parameters
               IN  IF url.port > IntMax THEN parsed = Failure("MalformedUrl")
                   ELSE /\ Succeeded(parsed) /\ parsed.value = Again(url, kept)
                        /\ Kept(url.parameters, kept)
    BY <2>1, ParseFacts, KeptUrl
  <2> QED
    BY <2>2 DEF UrlKept, Again, Kept, WordTexts
<1> QED
  BY <1>1, UrlInvariant, PTL

\* Whatever text Url::parse accepts, the url it makes is well formed.  Written and
\* parsed once more it is the same again, if its port is an int, and refused if not, as
\* one that was parsed of a negative number is.
THEOREM ParsedUrlCorrect ==
    \A text \in Strings :
        Succeeded(Parse(text)) =>
            LET parsed == Parse(text).value
            IN  /\ WellFormed(parsed)
                /\ \A written \in Texts(parsed) :
                      Parse(written) = IF parsed.port <= IntMax THEN Success(parsed)
                                       ELSE Failure("MalformedUrl")
<1> SUFFICES ASSUME NEW text \in Strings, Succeeded(Parse(text))
             PROVE  LET parsed == Parse(text).value
                    IN  /\ WellFormed(parsed)
                        /\ \A written \in Texts(parsed) :
                              Parse(written) = IF parsed.port <= IntMax THEN Success(parsed)
                                               ELSE Failure("MalformedUrl")
  OBVIOUS
<1> DEFINE parsed == Parse(text).value
<1>1. /\ WellFormed(parsed) /\ Again(parsed, parsed.parameters) = parsed
      /\ parsed.parameters \subseteq WordTexts \X WordTexts
  BY ParsedFormed
<1> HIDE DEF parsed
<1>2. parsed.port \in Nat /\ IntMax \in Nat /\ \A p, q \in parsed.parameters : p[1] = q[1] => p = q
  BY <1>1, UrlAssumption DEF WellFormed
<1>3. ASSUME NEW written \in Texts(parsed)
      PROVE  Parse(written) = IF parsed.port <= IntMax THEN Success(parsed)
                              ELSE Failure("MalformedUrl")
  <2>1. CASE parsed.port > IntMax
    BY <1>1, <1>2, <2>1, ParseFacts
  <2>2. CASE ~(parsed.port > IntMax)
    <3>1. PICK kept : /\ Parse(written) = Success(Again(parsed, kept))
                      /\ Kept(parsed.parameters, kept)
      BY <1>1, <2>2, ParseFacts
    <3>2. kept = parsed.parameters
      BY <1>1, <1>2, <3>1, WordsKept
    <3> QED
      BY <1>1, <1>2, <2>2, <3>1, <3>2
  <2> QED
    BY <2>1, <2>2
<1> QED
  BY <1>1, <1>3 DEF parsed
=============================================================================
