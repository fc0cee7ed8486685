--------------------------- MODULE MCTcpTransport ---------------------------
(***************************************************************************)
(* Instances of TcpTransport for TLC.                                      *)
(***************************************************************************)
EXTENDS TcpTransport, TLC

CONSTANTS t1, t2, io, m1, m2, m3

OneThread == {t1}
TwoThreads == {t1, t2}
TwoMessages == {m1, m2}
ThreeMessages == {m1, m2, m3}
NoMessages == {}
OneMessage == {m1}
NoThreads == {}

\* Threads that do the same, and messages sent the same way, may be exchanged.
Interchangeable ==
    Permutations(Threads) \cup Permutations(Requests) \cup Permutations(Msgs \ Requests)
=============================================================================
