--------------------------- MODULE SignalInterceptor ---------------------------
(***************************************************************************)
(* SignalInterceptor, on one thread that runs the io_context: the handlers *)
(* and the waits it has begun, and the handlers it has called.  A signal   *)
(* that arrives while nothing waits is kept by the signal_set.             *)
(***************************************************************************)
EXTENDS Integers, Sequences, SequencesExt, TLC, Outcomes

NewInterceptor == [handlers |-> <<>>, waits |-> 0, kept |-> <<>>, called |-> <<>>]

\* m_signal_set.add refuses what is not a signal.
AddSignalHandler(interceptor, signal, handler, is_signal) ==
    IF is_signal THEN Success([interceptor EXCEPT !.handlers = (signal :> handler) @@ @])
    ELSE Failure("SystemException")

\* The handler of async_wait: what the user's handler throws is swallowed, and nothing
\* waits for the next signal.
Completed(interceptor, signal, n) ==
    [interceptor EXCEPT !.called = @ \o [i \in 1..n |-> interceptor.handlers[signal]]]

\* run(), which a signal that was kept completes at once, whichever.
Intercept(interceptor) ==
    IF interceptor.kept = <<>> THEN {[interceptor EXCEPT !.waits = @ + 1]}
    ELSE {Completed([interceptor EXCEPT !.kept = RemoveAt(@, k)], interceptor.kept[k], 1) :
             k \in DOMAIN interceptor.kept}

\* A signal of the signal_set completes every wait.
Arrive(interceptor, signal) ==
    IF interceptor.waits = 0 THEN [interceptor EXCEPT !.kept = Append(@, signal)]
    ELSE Completed([interceptor EXCEPT !.waits = 0], signal, interceptor.waits)

\* The waits complete with an error, which calls no handler.
CancelIntercepting(interceptor) == [interceptor EXCEPT !.waits = 0]
=============================================================================
