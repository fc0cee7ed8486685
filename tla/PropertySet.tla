------------------------------ MODULE PropertySet ------------------------------
(***************************************************************************)
(* The properties of a session.  A Property is a Maybe: nothing, or a      *)
(* value and its type.  A set of them is a function of the keys it has.    *)
(***************************************************************************)
EXTENDS Sequences, Functions, TLC, Outcomes

-----------------------------------------------------------------------------
(* Property.                                                               *)

Valueless(property) == IsNone(property)
OfType(property, type) == IsSome(property) /\ property[1].type = type
Property(type, value) == Some([type |-> type, value |-> value])

\* as<T>(), safe_as<T>(), safe_as(default_value) and ==, of a value of the type T.
As(property, type) ==
    IF OfType(property, type) THEN Success(property[1].value) ELSE Failure("bad_any_cast")
SafeAs(property, type) == IF OfType(property, type) THEN Some(property[1].value) ELSE Nothing
SafeAsOr(property, type, default_value) ==
    IF OfType(property, type) THEN property[1].value ELSE default_value
Equals(property, type, value) == OfType(property, type) /\ property[1].value = value

-----------------------------------------------------------------------------
(* PropertySet.                                                            *)

HasProperty(properties, key) == key \in DOMAIN properties

\* operator[]: asking for a property makes one that has no value.
Asked(properties, key) == properties @@ (key :> Nothing)
PropertyOf(properties, key) == Asked(properties, key)[key]
SetProperty(properties, key, property) == (key :> property) @@ properties

RemoveProperty(properties, key) ==
    [properties |-> Restrict(properties, DOMAIN properties \ {key}),
     removed |-> HasProperty(properties, key)]
RemoveAllProperties == <<>>

\* The predicate of findSessionByProperty, which asks.
FoundByProperty(properties, key, type, value) == Equals(PropertyOf(properties, key), type, value)
=============================================================================
