------------------------------- MODULE Messages -------------------------------
(***************************************************************************)
(* Message descriptors, the factories that keep them and the messages the  *)
(* factories create.  A set of fields, or of field descriptors, is a list  *)
(* and an index by name; the index always names the same elements, and is  *)
(* left out.  What remains is the order of the list, which is the order of *)
(* the fields on the wire: adding, copying and creating each change it.    *)
(***************************************************************************)
EXTENDS Sequences, SequencesExt, Integers

CONSTANTS
    Factories,   \* the factories of the processes that exchange messages
    Types,
    Names,       \* of fields
    Fields,      \* of each type, the names in the order of registerField, which throws
                 \* if one is there already
    Data,        \* the values each field may have
    Default,     \* the value each field is created with
    None

Values == UNION {Data[name] : name \in Names}

ASSUME MessagesAssumption ==
    /\ Fields \in [Types -> Seq(Names) \ {<<>>}] /\ \A t \in Types : IsInjective(Fields[t])
    /\ Default \in [Names -> Values]
    /\ None \notin Types

VARIABLES
    m_descriptors,   \* of each factory and type: [fields, odd], or None
    message          \* the one the application holds, or None

messageVars == <<m_descriptors, message>>

\* odd: whether the list of field descriptors, or the fields of the message, were
\* copied an odd number of times since registerField, or since it was created.
Descriptors == [fields : Seq(Names) \ {<<>>}, odd : BOOLEAN]
Messages == [type : Types, fields : Seq(Names), value : [Names -> Values],
             from : BOOLEAN, odd : BOOLEAN]

NoMessage == [type |-> None]
NoDescriptor == [fields |-> <<>>, odd |-> FALSE]

MessagesTypeOK ==
    /\ m_descriptors \in [Factories -> [Types -> Descriptors \cup {NoDescriptor}]]
    /\ message \in Messages \cup {NoMessage}

MessagesInit ==
    /\ m_descriptors = [p \in Factories |-> [t \in Types |-> NoDescriptor]]
    /\ message = NoMessage

-----------------------------------------------------------------------------
(* The lists.                                                              *)

\* FieldSet::add and addFieldDescriptor insert before the last element; a name
\* that is present is refused.
Added(list, name) ==
    IF name \in ToSet(list) THEN list
    ELSE IF list = <<>> THEN <<name>>
    ELSE Append(Append(Front(list), name), Last(list))

\* Adding the names of a list one by one to an empty one: the first stays last.
AddAll(list) == Append(Tail(list), Head(list))

\* FieldSet::assign and MessageDescriptor::copy insert each element in front of
\* the one they have copied before.
Copied_with_add(list) == AddAll(list)
Copied(list) == Reverse(list)

\* What configure makes of a new descriptor.
Configured(t) == [fields |-> AddAll(Fields[t]), odd |-> FALSE]
CopiedDescriptor_of_any(d) == [fields |-> Copied(d.fields), odd |-> ~d.odd]
CopiedDescriptor(d) ==
    IF d = NoDescriptor THEN d ELSE [fields |-> Copied(d.fields), odd |-> ~d.odd]

Known(p, t) == m_descriptors[p][t] # NoDescriptor
CreatedFields(p, t) == AddAll(m_descriptors[p][t].fields)

-----------------------------------------------------------------------------
(* MessageFactory.                                                         *)

\* addDescriptor(type, configure), or of a descriptor that is moved.  A type that
\* is there is not overwritten.
AddDescriptor(p, t) ==
    /\ ~Known(p, t)
    /\ m_descriptors' = [m_descriptors EXCEPT ![p][t] = Configured(t)]
    /\ UNCHANGED message

\* addDescriptor of a descriptor the caller keeps: the parameter is a copy.
AddCopiedDescriptor(p, t) ==
    /\ ~Known(p, t)
    /\ m_descriptors' = [m_descriptors EXCEPT ![p][t] = CopiedDescriptor(Configured(t))]
    /\ UNCHANGED message

\* p = q
CopyFactory(p, q) ==
    /\ p # q
    /\ m_descriptors' = [m_descriptors EXCEPT ![p] =
                            [t \in Types |-> CopiedDescriptor(m_descriptors[q][t])]]
    /\ UNCHANGED message

\* p = std::move(q), or swap
SwapFactories(p, q) ==
    /\ m_descriptors' = [m_descriptors EXCEPT ![p] = m_descriptors[q], ![q] = m_descriptors[p]]
    /\ UNCHANGED message

-----------------------------------------------------------------------------
(* Message.  A moved message keeps what it has.                            *)

CreateMessage(p, t) ==
    /\ Known(p, t)
    /\ message' = [type |-> t, fields |-> CreatedFields(p, t), value |-> Default,
                   from |-> m_descriptors[p][t].odd, odd |-> FALSE]
    /\ UNCHANGED m_descriptors

HasField(m, name) == name \in ToSet(m.fields)
Assigned(m, name, value) == [m EXCEPT !.value[name] = value]

\* field<T>(name) = value; a name the message does not have throws.
SetField(name, value) ==
    /\ message # NoMessage /\ HasField(message, name)
    /\ message' = Assigned(message, name, value)
    /\ UNCHANGED m_descriptors

\* clone(), which is what a PubSubMessageChannel sends.
CloneMessage ==
    /\ message # NoMessage
    /\ message' = [message EXCEPT !.fields = Copied(message.fields), !.odd = ~message.odd]
    /\ UNCHANGED m_descriptors

MessagesNext ==
    \/ \E p \in Factories, t \in Types :
          AddDescriptor(p, t) \/ AddCopiedDescriptor(p, t) \/ CreateMessage(p, t)
    \/ \E p, q \in Factories : CopyFactory(p, q) \/ SwapFactories(p, q)
    \/ \E name \in Names : \E value \in Data[name] : SetField(name, value)
    \/ CloneMessage

-----------------------------------------------------------------------------
(* Properties.                                                             *)

\* A message that was cloned an even number of times has its fields in the order
\* in which any factory creates them whose descriptors were copied as often, but
\* for an even number: how they were copied, moved and swapped does not matter.
SameLayout ==
    message # NoMessage /\ ~message.odd =>
        \A p \in Factories :
            Known(p, message.type) /\ m_descriptors[p][message.type].odd = message.from
                => CreatedFields(p, message.type) = message.fields
=============================================================================
