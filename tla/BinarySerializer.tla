--------------------------- MODULE BinarySerializer ---------------------------
(***************************************************************************)
(* What BinarySerializer writes for a value and what it makes of the bytes *)
(* it reads.  A byte has Base values, a ContainerSize is two of them.  The *)
(* kinds are the specialisations of the template, over elements of a byte: *)
(* every value is the sequence of its elements, of an optional value none  *)
(* or one, of a pair and an array two, of an associative container its     *)
(* keys in their order, of an object a string and a number.                *)
(***************************************************************************)
EXTENDS Integers, Sequences, FiniteSets, SequencesExt

CONSTANTS
    Base,         \* 256
    Undefined     \* a value a read past the end leaves behind

ASSUME SerializerAssumption ==
    /\ Base \in Nat \ {0, 1}
    /\ Undefined \notin Seq(0..(Base - 1))

Kinds == {"number", "enum", "pair", "array", "optional", "sequence", "associative",
          "object"}

Increasing(keys) == \A i, j \in DOMAIN keys : i < j => keys[i] < keys[j]

\* What a value of some kind is.
Fits(kind, value) ==
    /\ value \in Seq(0..(Base - 1))
    /\ kind \in {"number", "enum"} => Len(value) = 1
    /\ kind \in {"pair", "array"} => Len(value) = 2
    /\ kind = "optional" => Len(value) \in {0, 1}
    /\ kind = "associative" => Increasing(value)
    /\ kind = "object" => Len(value) > 0

-----------------------------------------------------------------------------
(* serialize.                                                              *)

\* A ContainerSize, least byte first on every machine.  The cast drops the rest.
ToBytes(n) == <<n % Base, (n \div Base) % Base>>

WriteNumber(value) == value
WriteEnum(value) == value
WritePair(pair) == WriteNumber(<<pair[1]>>) \o WriteNumber(<<pair[2]>>)
WriteOptional(optional) == (IF optional = <<>> THEN <<0>> ELSE <<1>>) \o optional
WriteSequence(items) == ToBytes(Len(items)) \o items
WriteAssociative(items) == ToBytes(Len(items)) \o items
WriteArray(items) == ToBytes(Len(items)) \o items

\* A Serializable serializes its members.
WriteObject(object) == WriteSequence(Front(object)) \o WriteNumber(<<Last(object)>>)

\* binary::serialize
Written(kind, value) ==
    CASE kind = "number" -> WriteNumber(value)
      [] kind = "enum" -> WriteEnum(value)
      [] kind = "pair" -> WritePair(value)
      [] kind = "optional" -> WriteOptional(value)
      [] kind = "sequence" -> WriteSequence(value)
      [] kind = "associative" -> WriteAssociative(value)
      [] kind = "array" -> WriteArray(value)
      [] kind = "object" -> WriteObject(value)

-----------------------------------------------------------------------------
(* size, which does not look at what is written.                           *)

NumberSize == 1
PairSize == NumberSize + NumberSize
OptionalSize(optional) == NumberSize + Len(optional)
ContainerSize(items) == 2 + Len(items)
SequenceSize(items) == ContainerSize(items)
AssociativeSize(items) == ContainerSize(items)
ArraySize(items) == ContainerSize(items)
EnumSize == 1
ObjectSize(object) == SequenceSize(Front(object)) + NumberSize

\* binary::size
Size(kind, value) ==
    CASE kind = "number" -> NumberSize
      [] kind = "enum" -> EnumSize
      [] kind = "pair" -> PairSize
      [] kind = "optional" -> OptionalSize(value)
      [] kind = "object" -> ObjectSize(value)
      [] kind = "sequence" -> SequenceSize(value)
      [] kind = "associative" -> AssociativeSize(value)
      [] kind = "array" -> ArraySize(value)

-----------------------------------------------------------------------------
(* deserialize.  An uninitialised variable is read into, so a read the     *)
(* stream cannot satisfy leaves what it happens to hold, and every later   *)
(* read of the stream fails too.                                           *)

Broken == [value |-> Undefined, rest |-> <<>>]

Take(n, bytes) ==
    IF Len(bytes) < n THEN Broken
    ELSE [value |-> SubSeq(bytes, 1, n), rest |-> SubSeq(bytes, n + 1, Len(bytes))]

ReadNumber(bytes) == Take(1, bytes)
ReadEnum(bytes) == Take(1, bytes)
ReadPair(bytes) == Take(2, bytes)

\* One that is absent leaves the object as it is.
ReadOptional(old, bytes) ==
    LET present == ReadNumber(bytes)
    IN  CASE present = Broken -> Broken
          [] present.value = <<0>> -> [present EXCEPT !.value = old]
          [] OTHER -> ReadNumber(present.rest)

FromBytes_low(bytes) == bytes[1]
FromBytes(bytes) == bytes[1] + Base * bytes[2]

ReadSequence(bytes) ==
    LET count == Take(2, bytes)
    IN  IF count = Broken THEN Broken ELSE Take(FromBytes(count.value), count.rest)

\* The keys are inserted one by one.
Keys(items) ==
    CHOOSE keys \in [1..Cardinality(ToSet(items)) -> ToSet(items)] :
        ToSet(keys) = ToSet(items) /\ Increasing(keys)

ReadAssociative(bytes) ==
    LET items == ReadSequence(bytes)
    IN  IF items = Broken THEN Broken ELSE [items EXCEPT !.value = Keys(@)]

\* A build with assertions ends where an array of another size is read; the others
\* read on.
ReadArray(bytes) == Take(2, Take(2, bytes).rest)

ReadObject(bytes) ==
    LET name == ReadSequence(bytes)
        age == ReadNumber(name.rest)
    IN  IF age = Broken THEN Broken ELSE [age EXCEPT !.value = name.value \o @]

\* binary::deserialize into an object that holds old
Read(kind, old, bytes) ==
    CASE kind = "number" -> ReadNumber(bytes)
      [] kind = "enum" -> ReadEnum(bytes)
      [] kind = "pair" -> ReadPair(bytes)
      [] kind = "optional" -> ReadOptional(old, bytes)
      [] kind = "sequence" -> ReadSequence(bytes)
      [] kind = "associative" -> ReadAssociative(bytes)
      [] kind = "array" -> ReadArray(bytes)
      [] kind = "object" -> ReadObject(bytes)
=============================================================================
