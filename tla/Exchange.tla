------------------------------- MODULE Exchange -------------------------------
(***************************************************************************)
(* A message on its way from one process to another: a factory creates it, *)
(* the application fills it, TcpTransport::writeMessage makes a frame of   *)
(* it, the other process creates a message from the bytes and dispatches   *)
(* it.  The chains of writes and reads around this are in TcpTransport.    *)
(*                                                                         *)
(* A frame as writeMessage builds it has no message type and a length that *)
(* counts itself, while readMessageLength and createMessageFromStream take *)
(* a length that does not and a type.  Between the processes there is thus *)
(* a peer that knows both, and passes on the fields as they are.           *)
(***************************************************************************)
EXTENDS Messages, CompositeSerializer, MessageDispatcher

CONSTANTS
    Kind,          \* of each field
    Serializers,   \* of each field, the ones that can write it
    Documents,     \* the JSON values an application may write a message into
    Receivers      \* the dispatchers a receiving process may have, the first asked

\* writeMessage needs the first; the second has no other kinds.
ASSUME ExchangeAssumption ==
    /\ Kind \in [Names -> Kinds]
    /\ Serializers \in [Names -> {{"binary"}, {"binary", "json"}}]
    /\ \A name \in Names :
          "json" \in Serializers[name] => Kind[name] \in {"number", "sequence", "object"}

\* A field has values of its kind, and no optional value to begin with.
ASSUME DataAssumption ==
    \A name \in Names :
        /\ \A value \in Data[name] \cup {Default[name]} : Fits(Kind[name], value)
        /\ Kind[name] = "optional" => Default[name] = <<>>

\* Filters and dispatchers as they are set up: a rule knows every type, a delegate is
\* a dispatcher.
Filters == [policy : Policies, permitted : Seq([Types -> Verdicts]),
            forbidden : Seq([Types -> Verdicts])]
ASSUME ReceiversAssumption ==
    \A dispatchers \in Receivers :
        /\ 1 \in DOMAIN dispatchers
        /\ \A i \in DOMAIN dispatchers :
              /\ dispatchers[i].filters \in Seq(Filters)
              /\ dispatchers[i].delegates \in Seq(DOMAIN dispatchers)

VARIABLES
    frame,         \* the last frame written: [sent, length, bytes, overrun], or None
    document,      \* the JSON a message was written to: [sent, context], or None
    received,      \* the message made of either: [fields, value, context], or None
    outcome        \* of dispatching it: [dispatchers, by, what], or None

vars == <<messageVars, frame, document, received, outcome>>

NoFrame == [sent |-> NoMessage]
NoDocument == [sent |-> NoMessage]
NothingReceived == [fields |-> <<>>]
NoOutcome == [what |-> None]

Init ==
    /\ MessagesInit
    /\ frame = NoFrame /\ document = NoDocument
    /\ received = NothingReceived /\ outcome = NoOutcome

-----------------------------------------------------------------------------
(* ValueField, and the FieldSet of a message, written and read.            *)

FieldSize(m, name) == Size(Kind[name], m.value[name])
SerializedSize(m) == FoldLeft(LAMBDA sum, name : sum + FieldSize(m, name), 0, m.fields)

WriteField(context, m, name) ==
    Serialize(Serializers[name], context, Kind[name], name, m.value[name])
Serialized(m, context) ==
    FoldLeft(LAMBDA written, name : WriteField(written, m, name), context, m.fields)

\* of a message m that is read from its context
ReadField(m, name) ==
    LET r == Deserialize(Serializers[name], m.context, Kind[name], name, m.value[name])
    IN  [m EXCEPT !.value[name] = r.value, !.context = r.context]

\* A new message that is read
ReadFields(fields, context) ==
    FoldLeft(ReadField, [fields |-> fields, value |-> Default, context |-> context], fields)

-----------------------------------------------------------------------------
(* TcpTransport::writeMessage.                                             *)

\* Each addend and the sum are cut to 16 bits.
FrameLength_of_fields(m) == SerializedSize(m) % (Base * Base)
FrameLength(m) == (2 + (SerializedSize(m) % (Base * Base))) % (Base * Base)

\* The buffer is as long as the frame is said to be, and everything that was
\* serialized is copied into it; the length of it is what is sent.
WriteMessage ==
    /\ message # NoMessage
    /\ LET data == ToBytes(FrameLength(message))
                \o Serialized(message, Context("binary", <<>>)).io
       IN  frame' = [sent |-> message, length |-> FrameLength(message),
                     bytes |-> SubSeq(data, 1, FrameLength(message)),
                     overrun |-> Len(data) > FrameLength(message)]
    /\ message' = NoMessage
    /\ UNCHANGED <<m_descriptors, document, received, outcome>>

-----------------------------------------------------------------------------
(* The receiving process, with the factory p.                              *)

Payload == SubSeq(frame.bytes, 3, Len(frame.bytes))

\* createMessageFromStream; there is no message of a type the factory does not know.
CreateMessageFromStream(p) ==
    /\ frame # NoFrame /\ received = NothingReceived
    /\ Known(p, frame.sent.type)
    /\ received' = ReadFields(CreatedFields(p, frame.sent.type), Context("binary", Payload))
    /\ UNCHANGED <<messageVars, frame, document, outcome>>

DispatchMessage ==
    /\ frame # NoFrame /\ received # NothingReceived /\ outcome = NoOutcome
    /\ \E dispatchers \in Receivers :
          LET d == Dispatch(dispatchers, 1, frame.sent.type)
          IN  outcome' = [dispatchers |-> dispatchers, by |-> d.by, what |-> d.what]
    /\ UNCHANGED <<messageVars, frame, document, received>>

-----------------------------------------------------------------------------
(* An application that keeps a message as JSON.                            *)

\* message->serialize(context).  A field without a JsonSerializer throws, and what
\* was written until then remains.
WriteDocument(json) ==
    /\ message # NoMessage
    /\ document' = [sent |-> message, context |-> Serialized(message, Context("json", json))]
    /\ message' = NoMessage
    /\ UNCHANGED <<m_descriptors, frame, received, outcome>>

\* A message the factory p creates, and message->deserialize(context)
RestoreMessage(p) ==
    /\ document # NoDocument /\ received = NothingReceived
    /\ Known(p, document.sent.type)
    /\ received' = ReadFields(CreatedFields(p, document.sent.type),
                              Context("json", document.context.io))
    /\ UNCHANGED <<messageVars, frame, document, outcome>>

\* Bound: one message at a time.
Idle == frame = NoFrame /\ document = NoDocument

Next ==
    \/ Idle /\ MessagesNext /\ UNCHANGED <<frame, document, received, outcome>>
    \/ WriteMessage
    \/ \E json \in Documents : WriteDocument(json)
    \/ \E p \in Factories : CreateMessageFromStream(p) \/ RestoreMessage(p)
    \/ DispatchMessage

Spec == Init /\ [][Next]_vars

-----------------------------------------------------------------------------
(* Properties.                                                             *)

\* What TcpTransport sends of a message is all of it, and the copy stays within
\* its buffer, unless the frame is longer than its length can say.
FrameHoldsMessage ==
    frame # NoFrame /\ 2 + SerializedSize(frame.sent) < Base * Base =>
        ~frame.overrun /\ Len(Payload) = SerializedSize(frame.sent)

\* A message that was cloned an even number of times is read as it was sent, and
\* to the last byte, by a factory whose descriptors were copied as often as the
\* sender's, but for an even number.  From a document it is read whatever was copied,
\* and whatever the document held before, unless writing it threw.
ReadAsSent ==
    [][\A p \in Factories :
          /\ CreateMessageFromStream(p) /\ ~frame.overrun /\ ~frame.sent.odd
             /\ m_descriptors[p][frame.sent.type].odd = frame.sent.from
                 => received'.value = frame.sent.value /\ received'.context.io = <<>>
          /\ RestoreMessage(p) /\ ~document.context.thrown
                 => received'.value = document.sent.value /\ ~received'.context.thrown]_vars

\* A handler is given a message only if every filter of its own dispatcher permits
\* it, whichever dispatcher was asked; one is rejected only if some filter does not;
\* and one that gets lost met a rule that throws, or nobody who handles its type.
HandledIfPermitted ==
    outcome # NoOutcome =>
        LET type == frame.sent.type
            dispatchers == outcome.dispatchers
            owner == dispatchers[outcome.by]
            Say(rules, verdict) == \E i \in DOMAIN rules : rules[i][type] = verdict
            Permits(filter) ==
                /\ filter.policy # "PermitAllExceptForbidden" => Say(filter.permitted, "yes")
                /\ filter.policy # "ForbidAllExceptPermitted" => ~Say(filter.forbidden, "yes")
            Throws(filter) == Say(filter.permitted, "throws") \/ Say(filter.forbidden, "throws")
            filters == ToSet(owner.filters)
        IN  CASE outcome.what = "rejected" -> \E f \in filters : ~Permits(f)
              [] outcome.what = "dropped" ->
                    \/ \E f \in filters : Throws(f)
                    \/ \A e \in {1} \cup ToSet(dispatchers[1].delegates) :
                          ~HasHandler(dispatchers[e], type)
              [] OTHER -> HasHandler(owner, type) /\ \A f \in filters : Permits(f)
=============================================================================
