------------------------------ MODULE UtilityLaws ------------------------------
(***************************************************************************)
(* What the utilities compute, against what their users rely on, over      *)
(* small inputs.  TLC evaluates the assumptions.                           *)
(***************************************************************************)
EXTENDS Integers, Sequences, FiniteSets, SequencesExt, TLC,
    Outcomes, Listenable, PropertySet, JsonUtils, SignalInterceptor, Utilities

Maybes == {Nothing, Some(1), Some(2)}
Left == [value \in {1, 2} |-> 0]   \* of a value that was moved
Lists == BoundedSeq({"l1", "l2", "l3"}, 3)

\* map over what bind made is one bind; nothing comes of nothing.
ASSUME MapOfBind ==
    \A maybe \in Maybes, f \in [{1, 2} -> {Nothing, Some(1), Some(2)}] :
        LET next == [value \in {1, 2} |-> value + 1]
            both == [value \in {1, 2} |-> MapMaybe(next, f[value])]
        IN  /\ MapMaybe(next, BindMaybe(f, maybe)) = BindMaybe(both, maybe)
            /\ IsNone(maybe) => IsNone(BindMaybe(f, maybe)) /\ ~Succeeded(ValueOf(maybe))

\* Moving a Maybe<T&> leaves none behind, moving a Maybe<T> leaves one that still says
\* it has a value: it has to be assigned before it is asked again.
ASSUME MovedMaybe ==
    \A maybe \in Maybes :
        /\ IsNone(MoveOfReference(maybe).from)
        /\ IsSome(MoveOf(maybe, Left).from) <=> IsSome(maybe)
        /\ \A moved \in {MoveOf(maybe, Left), MoveOfReference(maybe), CopyOf(maybe)} : moved.to = maybe

\* References that are the same refer to the same value; those that are not may too.
ASSUME ReferencesCompared ==
    \A memory \in [{1, 2} -> {"u", "v"}], ref, other \in Maybes :
        /\ SameReference(ref, other) => Referenced(memory, ref) = Referenced(memory, other)
        /\ SameReference(CopyOfReference(ref).from, CopyOfReference(ref).to)
        /\ \A place \in {1, 2} : Referenced(memory, Refer(place)) = Success(memory[place])
        /\ \A value \in {"u", "v"} : RefersTo(memory, ref, value) <=> Referenced(memory, ref) = Success(value)
        /\ \A value \in {1, 2} : Holds(ref, value) <=> ValueOf(ref) = Success(value)

\* A Result never has both, and value() and error() throw on one that has neither.
ASSUME ResultHoldsOne ==
    \A result \in {Success("v"), Failure("e"), Neither} :
        /\ ~(Succeeded(result) /\ Failed(result))
        /\ Succeeded(result) <=> Succeeded(ResultValue(result))
        /\ Failed(result) <=> Succeeded(ResultError(result))

\* A listener that was added is called, as often as it was added, and one removal
\* undoes every addition and disturbs no other listener.
ASSUME ListenersKept ==
    \A list \in Lists, listener \in {"l1", "l2"} :
        LET added == AddListener(list, listener, "null").value
            removed == RemoveListener(added, listener)
            Times(l) == Cardinality({i \in DOMAIN list : list[i] = l})
            calls == Invoke(list, 5, FALSE, 0)
        IN  /\ HasListener(added, listener) /\ removed.removed
            /\ ~HasListener(removed.listeners, listener)
            /\ removed = [RemoveListener(list, listener) EXCEPT !.removed = TRUE]
            /\ RemoveListener(list, listener).removed <=> HasListener(list, listener)
            /\ Cardinality({i \in DOMAIN calls : calls[i].listener = listener}) = Times(listener)
            /\ InvokeOnce(list, 5) = SubSeq(calls, 1, Len(InvokeOnce(list, 5)))
            /\ ~Succeeded(AddListener(list, "null", "null"))
            /\ AddNewListener(list, listener).listeners = added
            /\ AddMutated(list, listener, "null", Success(listener)) = Success(added)
            /\ ~Succeeded(AddMutated(list, listener, "null", Failure("mutator")))
            /\ AddNewMutated(list, Success(listener)) = Success(AddNewListener(list, listener))
            /\ ~Succeeded(AddNewMutated(list, Failure("mutator")))
            /\ ~HasListeners(RemoveListeners)

\* Every listener is given the argument, unless it is an rvalue that the action takes by
\* value: then only the first is.
ASSUME ArgumentGiven ==
    \A list \in Lists, taken \in BOOLEAN :
        LET calls == Invoke(list, 5, taken, 0)
        IN  (\A i \in DOMAIN calls : calls[i].argument = 5) <=> (~taken \/ Len(list) <= 1)

Properties == UNION {[keys -> {Nothing, Property("int", 10), Property("string", 20)}] :
                               keys \in SUBSET {"a", "b"}}

\* A property that was set is found as its own type and no other, one that was removed is
\* valueless, and asking for it makes it present, without a value.
ASSUME PropertiesKept ==
    \A properties \in Properties, key \in {"a", "b"} :
        LET set == SetProperty(properties, key, Property("int", 10))
            removed == RemoveProperty(set, key).properties
        IN  /\ HasProperty(set, key) /\ As(PropertyOf(set, key), "int") = Success(10)
            /\ ~Succeeded(As(PropertyOf(set, key), "string"))
            /\ SafeAs(PropertyOf(set, key), "int") = Some(10)
            /\ SafeAsOr(PropertyOf(set, key), "string", 30) = 30
            /\ RemoveProperty(properties, key).removed <=> HasProperty(properties, key)
            /\ ~HasProperty(removed, key) /\ Valueless(PropertyOf(removed, key))
            /\ HasProperty(Asked(removed, key), key)
            /\ DOMAIN RemoveAllProperties = {}

\* findSessionByProperty finds a session by the properties it has, and leaves every
\* property of the sessions it asks as it is; asked again, it finds the same.
ASSUME FoundByItsProperty ==
    \A properties \in Properties, key, other \in {"a", "b"} :
        LET asked == Asked(properties, other)
        IN  /\ FoundByProperty(properties, key, "int", 10) <=>
                   HasProperty(properties, key) /\ properties[key] = Property("int", 10)
            /\ FoundByProperty(asked, key, "int", 10) <=> FoundByProperty(properties, key, "int", 10)

Members(values) == UNION {[names -> values] : names \in SUBSET {"a", "b"}}
Shallow == {Json(1), Json(2)} \cup {JsonObject(members) : members \in Members({Json(1)})}
JsonObjects == {JsonObject(members) : members \in Members(Shallow)}

\* Objects that merge have the members of both, and merging again changes nothing.  A
\* member on the right is what it becomes, unless it is an object on the left.
ASSUME MergeKeeps ==
    \A lhs, rhs \in JsonObjects :
        LET merged == Merged(lhs, rhs)
        IN  /\ MergeDone(lhs, rhs)
            /\ DOMAIN merged.members = DOMAIN lhs.members \cup DOMAIN rhs.members
            /\ Merged(merged, rhs) = merged
            /\ \A name \in DOMAIN rhs.members :
                   merged.members[name] # rhs.members[name] =>
                       name \in DOMAIN lhs.members /\ lhs.members[name].object

Handled == AddSignalHandler(AddSignalHandler(NewInterceptor, "INT", "h", TRUE).value,
                            "TERM", "k", TRUE).value

\* The interceptors with the number of times run() was called on each.
After[n \in 0..4] ==
    IF n = 0 THEN {<<Handled, 0>>}
    ELSE UNION {{<<Arrive(i[1], "INT"), i[2]>>, <<Arrive(i[1], "TERM"), i[2]>>,
                 <<CancelIntercepting(i[1]), i[2]>>}
                \cup {<<next, i[2] + 1>> : next \in Intercept(i[1])} : i \in After[n - 1]}

\* However run(), cancel() and signals follow each other, a handler is called at most once
\* for each run(), and a signal is kept only while nothing waits.  After the first signal
\* the second is not handled until run() is called again.
ASSUME OneSignalForEachRun ==
    /\ \A i \in After[4] :
           /\ Len(i[1].called) + i[1].waits <= i[2]
           /\ i[1].waits = 0 \/ i[1].kept = <<>>
    /\ \A i \in {Arrive(Arrive(j, "INT"), "TERM") : j \in Intercept(Handled)} :
           /\ i.called = <<"h">> /\ i.kept = <<"TERM">>
           /\ \A j \in Intercept(i) : j.called = <<"h", "k">>
    /\ ~Succeeded(AddSignalHandler(Handled, "none", "h", FALSE))

\* Swapping twice gives the number back, and what a big-endian machine stores of a
\* swapped number is what a little-endian one stores of the number.
ASSUME SwapIsItsOwnInverse ==
    \A width \in {1, 2, 4}, base \in {2, 4} :
        LET half == base ^ width \div 2
        IN  /\ \A n \in 0..base ^ width - 1 :
                   LET swapped == SwapUnsigned(n, width, base)
                   IN  /\ SwapUnsigned(swapped, width, base) = n
                       /\ Reverse(BytesOf(swapped, width, base)) = BytesOf(n, width, base)
                       /\ SwapStored(SwapStored(BytesOf(n, width, base))) = BytesOf(n, width, base)
            /\ \A n \in -half..half - 1 :
                   SwapSigned(SwapSigned(n, width, base), width, base) = n

\* A ThreadJoiner joins every thread of a container only if all of them can be joined:
\* the first that cannot leaves those after it as they are.
ASSUME ThreadsJoined ==
    \A threads \in BoundedSeq({"joinable", "not"}, 3) :
        LET ended == ThreadJoinerOf(threads)
        IN  /\ ~ended.throws
            /\ ThreadJoinerOfOne("joinable").left = <<"joined">>
            /\ "joinable" \notin ToSet(ended.left) <=>
                   \A i, k \in DOMAIN threads :
                       threads[k] = "joinable" /\ i < k => threads[i] = "joinable"
=============================================================================
