------------------------- MODULE CompositeSerializer -------------------------
(***************************************************************************)
(* Serializers that are composed: the context of a call names the one that *)
(* is to be used and holds the object it writes or reads, a stream of      *)
(* bytes or a JSON value.  A JSON value is the function of its members     *)
(* (null has none), a number or a string the sequence of its elements.     *)
(***************************************************************************)
EXTENDS BinarySerializer

\* SerializationContext::create, and the exception a call has thrown since
Context(serializer, io) == [tag |-> serializer, io |-> io, thrown |-> FALSE]

\* stream<Stream>() throws unless the context holds what the serializer works on.
HoldsStreamOf(serializer, context) == context.tag = serializer

\* A field has one serializer, which asks for its stream at once, or a composition,
\* which looks for the tag first.
SupportedBy(serializers, context) ==
    \E serializer \in serializers : HoldsStreamOf(serializer, context)

-----------------------------------------------------------------------------
(* JsonSerializer, and a user's Serializable of a name and an age.         *)

IsMember(json, name) == name \in DOMAIN json

\* json[name] = value
WithMember(json, name, value) ==
    [n \in DOMAIN json \cup {name} |-> IF n = name THEN value ELSE json[n]]
PutNumber(json, name, value) == WithMember(json, name, value)
PutString(json, name, value) == WithMember(json, name, value)

\* UserInfo::serialize, of the sequence of the name followed by the age
PutUserInfo(json, info) == PutNumber(PutString(json, "username", Front(info)), "age", <<Last(info)>>)

\* json[name] is null where there was no such member.
PutObject(json, name, object) ==
    WithMember(json, name,
               PutUserInfo(IF IsMember(json, name) THEN json[name] ELSE <<>>, object))

Put(kind, json, name, value) ==
    CASE kind = "number" -> PutNumber(json, name, value)
      [] kind = "sequence" -> PutString(json, name, value)
      [] kind = "object" -> PutObject(json, name, value)

\* A number is cast to the type of the field.
GetNumber(json, name) == <<json[name][1] % Base>>
GetString(json, name) == json[name]

\* UserInfo::deserialize
GetUserInfo(json) == GetString(json, "username") \o GetNumber(json, "age")
GetObject(json, name) == GetUserInfo(json[name])

Get(kind, json, name) ==
    CASE kind = "number" -> GetNumber(json, name)
      [] kind = "sequence" -> GetString(json, name)
      [] kind = "object" -> GetObject(json, name)

\* Get throws where checkMember does, for a member or a member of a member.
Gettable(kind, json, name) ==
    IsMember(json, name) /\ (kind = "object" => {"username", "age"} \subseteq DOMAIN json[name])

-----------------------------------------------------------------------------
(* CompositeSerializer.                                                    *)

\* The serializer of the context, for a value of some kind
SerializeUsing(context, kind, name, value) ==
    [context EXCEPT !.io = IF context.tag = "json" THEN Put(kind, @, name, value)
                           ELSE @ \o Written(kind, value)]

\* What a call before this one has thrown ends the whole.
Serialize(serializers, context, kind, name, value) ==
    IF ~context.thrown /\ SupportedBy(serializers, context)
    THEN SerializeUsing(context, kind, name, value)
    ELSE [context EXCEPT !.thrown = TRUE]

\* The value that is read, and the context after it
DeserializeUsing(context, kind, name, old) ==
    IF context.tag = "json"
    THEN IF Gettable(kind, context.io, name)
         THEN [value |-> Get(kind, context.io, name), context |-> context]
         ELSE [value |-> old, context |-> [context EXCEPT !.thrown = TRUE]]
    ELSE LET r == Read(kind, old, context.io)
         IN  [value |-> r.value, context |-> [context EXCEPT !.io = r.rest]]

Deserialize(serializers, context, kind, name, old) ==
    IF ~context.thrown /\ SupportedBy(serializers, context)
    THEN DeserializeUsing(context, kind, name, old)
    ELSE [value |-> old, context |-> [context EXCEPT !.thrown = TRUE]]
=============================================================================
