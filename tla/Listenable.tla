------------------------------ MODULE Listenable ------------------------------
(***************************************************************************)
(* Listenable, the base of Transport: the list of listeners, as it is      *)
(* before and after each operation, and what an invocation gives each of   *)
(* them.  A shared pointer is the listener, or Null.                       *)
(***************************************************************************)
EXTENDS Sequences, SequencesExt, Outcomes

HasListeners(listeners) == listeners # <<>>
HasListener(listeners, listener) == listener \in ToSet(listeners)

\* A listener may be added more than once.
AddListener(listeners, listener, Null) ==
    IF listener = Null THEN Failure("InvalidArgument") ELSE Success(Append(listeners, listener))

\* mutate is applied first; if it throws, the listener is not added.
AddMutated(listeners, listener, Null, mutated) ==
    CASE listener = Null -> Failure("InvalidArgument")
      [] ~Succeeded(mutated) -> mutated
      [] OTHER -> Success(Append(listeners, mutated.value))

\* addListener<ConcreteListener>(args...), which makes the listener and returns it too.
AddNewListener(listeners, listener) == [listeners |-> Append(listeners, listener), added |-> listener]

\* The same with a mutator, which is applied to it before it is added.
AddNewMutated(listeners, mutated) ==
    IF Succeeded(mutated) THEN Success(AddNewListener(listeners, mutated.value)) ELSE mutated

\* Every listener is called, though others throw.  The argument is forwarded to each:
\* an action that takes it by value has taken an rvalue with the first call.
Invoke(listeners, argument, taken, left) ==
    [i \in DOMAIN listeners |->
        [listener |-> listeners[i], argument |-> IF taken /\ i > 1 THEN left ELSE argument]]

InvokeOnce(listeners, argument) ==
    IF HasListeners(listeners) THEN <<[listener |-> Head(listeners), argument |-> argument]>> ELSE <<>>

RemoveListener(listeners, listener) ==
    LET kept == SelectSeq(listeners, LAMBDA added : added # listener)
    IN  [listeners |-> kept, removed |-> Len(kept) < Len(listeners)]

RemoveListeners == <<>>
=============================================================================
