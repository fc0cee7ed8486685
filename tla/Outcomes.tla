------------------------------ MODULE Outcomes ------------------------------
(***************************************************************************)
(* Maybe and Result.  A Maybe is the sequence of the value it holds, if it *)
(* holds one; a Result holds a value or an error.  A function that throws  *)
(* is modelled as one that returns a Result.                               *)
(***************************************************************************)
EXTENDS Sequences

Nothing == <<>>
Some(value) == <<value>>
IsSome(maybe) == Len(maybe) = 1
IsNone(maybe) == maybe = <<>>

Success(value) == [holds |-> "value", value |-> value]
Failure(error) == [holds |-> "error", error |-> error]
Succeeded(result) == result.holds = "value"
Failed(result) == result.holds = "error"

-----------------------------------------------------------------------------
(* The rest of Maybe.                                                      *)

\* value() and operator*.
ValueOf(maybe) == IF IsNone(maybe) THEN Failure("InvalidOperation") ELSE Success(maybe[1])

Holds(maybe, value) == IsSome(maybe) /\ maybe[1] = value

MapMaybe(f, maybe) == IF IsSome(maybe) THEN Some(f[maybe[1]]) ELSE Nothing
BindMaybe(f, maybe) == IF IsSome(maybe) THEN f[maybe[1]] ELSE Nothing

\* A variant that is moved still holds a value: what the move left of it.
CopyOf(maybe) == [to |-> maybe, from |-> maybe]
MoveOf(maybe, left) == [to |-> maybe, from |-> MapMaybe(left, maybe)]

\* A Maybe<T&> holds the place of a value, compares places, and gives its place away.
Refer(place) == <<place>>
Refers(ref) == ref # <<>>
CopyOfReference(ref) == [to |-> ref, from |-> ref]
Referenced(memory, ref) == IF ~Refers(ref) THEN Failure("InvalidOperation") ELSE Success(memory[ref[1]])
RefersTo(memory, ref, value) == Refers(ref) /\ memory[ref[1]] = value
SameReference(ref, other) == ref = other
MoveOfReference(ref) == [to |-> ref, from |-> Nothing]

-----------------------------------------------------------------------------
(* The rest of Result.                                                     *)

\* One that is made without a value or an error.
Neither == [holds |-> "neither"]

\* value(), error() and operator->: std::get throws if the variant holds another.
ResultValue(result) == IF Succeeded(result) THEN Success(result.value) ELSE Failure("bad_variant_access")
ResultError(result) == IF Failed(result) THEN Success(result.error) ELSE Failure("bad_variant_access")
=============================================================================
