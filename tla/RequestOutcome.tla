--------------------------- MODULE RequestOutcome ---------------------------
(***************************************************************************)
(* What Transport::request promises to the holder of one of the futures it *)
(* returns: the future is either answered by the peer or expires, once,    *)
(* and what it holds never changes afterwards.  A TcpTransport implements  *)
(* it with two maps, a mutex and the completion handlers of an io_context. *)
(***************************************************************************)
CONSTANT Requests   \* the messages passed to request()

VARIABLE promise    \* the state of the std::promise of each request

\* "none" is a request not issued yet, "pending" an unset promise.
Init == promise = [r \in Requests |-> "none"]

Issue(r) ==
    /\ promise[r] = "none"
    /\ promise' = [promise EXCEPT ![r] = "pending"]

Answer(r) ==
    /\ promise[r] = "pending"
    /\ promise' = [promise EXCEPT ![r] = "value"]

\* removeExpiredRequests may fail several promises in one call.
Expire(S) ==
    /\ S # {} /\ \A r \in S : promise[r] = "pending"
    /\ promise' = [r \in Requests |-> IF r \in S THEN "expired" ELSE promise[r]]

Next ==
    \/ \E r \in Requests : Issue(r) \/ Answer(r)
    \/ \E S \in SUBSET Requests : Expire(S)

Spec == Init /\ [][Next]_promise
=============================================================================
