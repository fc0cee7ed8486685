----------------------- MODULE MCPubSubMessageChannel -----------------------
(***************************************************************************)
(* Instance of PubSubMessageChannel for TLC: two threads, two sessions and *)
(* two messages.                                                           *)
(***************************************************************************)
EXTENDS PubSubMessageChannel

CONSTANTS t1, t2, s1, s2, m1, m2

TwoThreads == {t1, t2}
TwoSessions == {s1, s2}
TwoMessages == {m1, m2}
=============================================================================
