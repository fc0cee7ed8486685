------------------------------- MODULE Utilities -------------------------------
(***************************************************************************)
(* ByteUtils and ThreadJoiner.                                             *)
(***************************************************************************)
EXTENDS Integers, Sequences, SequencesExt, Outcomes

-----------------------------------------------------------------------------
(* ByteUtils::swap, with bytes of base values.                             *)

BytesOf(n, width, base) == [i \in 1..width |-> (n \div base ^ (i - 1)) % base]
NumberOf(bytes, base) == FoldRight(LAMBDA byte, n : byte + base * n, bytes, 0)

\* Of an unsigned; a signed value is cast there and back.
SwapUnsigned(n, width, base) == NumberOf(Reverse(BytesOf(n, width, base)), base)
SwapSigned(n, width, base) ==
    LET swapped == SwapUnsigned(n % base ^ width, width, base)
    IN  IF 2 * swapped < base ^ width THEN swapped ELSE swapped - base ^ width

\* Of a floating-point value, the bytes it is stored in.
SwapStored(bytes) == Reverse(bytes)

-----------------------------------------------------------------------------
(* ThreadJoiner.  A thread is "joinable" or not; detach throws if it is not. *)

JoinThread(thread) ==
    IF thread = "joinable" THEN Success("joined") ELSE Failure("invalid_argument")

\* The threads before the first that throws are joined: what becomes of the container,
\* and whether the call throws.
JoinThreads(threads) ==
    LET i == SelectInSeq(threads, LAMBDA thread : ~Succeeded(JoinThread(thread)))
    IN  [left |-> [k \in DOMAIN threads |->
                      IF i = 0 \/ k < i THEN JoinThread(threads[k]).value ELSE threads[k]],
         throws |-> i # 0]

\* ~DeferredCall swallows the exception of its call; one that is moved from has none.
MadeCall(call) == [throws |-> FALSE, left |-> call.left]

\* The end of a ThreadJoiner of a container, and of one thread
ThreadJoinerOf(threads) == MadeCall(JoinThreads(threads))
ThreadJoinerOfOne(thread) == MadeCall(JoinThreads(<<thread>>))
=============================================================================
