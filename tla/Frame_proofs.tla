----------------------------- MODULE Frame_proofs -----------------------------
(***************************************************************************)
(* Proofs about the frame that TcpTransport::writeMessage makes of a       *)
(* message and about the message that is read of it.  The length of the    *)
(* frame is summed up from the sizes of the fields before they are         *)
(* written: size and serialize agree for a value of every kind, and so do  *)
(* the sum and the bytes of a whole message.  What is read of the bytes    *)
(* is the value they were written of, for every kind, then for a message   *)
(* field by field; and the same of a document, name by name.               *)
(***************************************************************************)
EXTENDS Exchange_proofs, SequenceTheorems, FiniteSetTheorems

-----------------------------------------------------------------------------
(* Folding over a sequence of any length.  The fold is a function on the   *)
(* subsets of the indices that is defined by itself; that there is one     *)
(* follows by an induction on the length.                                  *)

LEMMA UpTo ==
    ASSUME NEW n \in Nat, NEW S, 0 \in S, \A k \in 1..n : k - 1 \in S => k \in S
    PROVE  0..n \subseteq S
<1> DEFINE I == (0..n) \ S
<1> SUFFICES ASSUME I # {} PROVE FALSE
  OBVIOUS
<1>1. I \in SUBSET Nat
  OBVIOUS
<1>2. Min(I) \in I /\ \A j \in I : Min(I) <= j
  <2> HIDE DEF I
  <2> QED
    BY <1>1, MinFacts
<1>3. PICK k \in I : \A j \in I : k <= j
  BY <1>2
<1>4. k \in 1..n /\ k - 1 \in 0..n /\ k - 1 \notin I
  BY <1>3
<1> QED
  BY <1>3, <1>4

LEMMA MaxFacts ==
    ASSUME NEW n \in Nat, NEW s \in SUBSET (1..n), s # {}
    PROVE  Max(s) \in s /\ \A j \in s : j <= Max(s)
<1> DEFINE I == {n - x : x \in s}
<1>1. I \in SUBSET Nat /\ I # {}
  OBVIOUS
<1>2. Min(I) \in I /\ \A j \in I : Min(I) <= j
  <2> HIDE DEF I
  <2> QED
    BY <1>1, MinFacts
<1>3. PICK x \in s : Min(I) = n - x
  BY <1>2
<1>4. \A j \in s : n - x <= n - j
  BY <1>2, <1>3
<1>5. x \in s /\ \A j \in s : j <= x
  BY <1>4
<1> QED
  BY <1>5 DEF Max

\* The greatest of the first k indices
LEMMA MaxUpTo ==
    ASSUME NEW n \in Nat, NEW k \in 1..n, NEW s \in SUBSET (1..k), k \in s
    PROVE  Max(s) = k
<1>1. k \in Nat /\ s # {}
  OBVIOUS
<1>2. PICK x \in s : x = Max(s) /\ \A j \in s : j <= x
  BY <1>1, MaxFacts
<1> QED
  BY <1>2

\* The fold of step over the first n indices, as a function on their sets
FoldOf(f, n, base, step) ==
    \A s \in SUBSET (1..n) :
        f[s] = IF s = {} THEN base ELSE step[Max(s)][f[s \ {Max(s)}]]

LEMMA FoldExists ==
    ASSUME NEW n \in Nat, NEW V, NEW base \in V, NEW step \in [1..n -> [V -> V]]
    PROVE  \E f \in [SUBSET (1..n) -> V] : FoldOf(f, n, base, step)
<1> DEFINE S == {k \in 0..n : \E f \in [SUBSET (1..k) -> V] : FoldOf(f, k, base, step)}
<1>1. 0 \in S
  <2> DEFINE f == [s \in SUBSET (1..0) |-> base]
  <2>1. \A s \in SUBSET (1..0) : s = {}
    OBVIOUS
  <2>2. f \in [SUBSET (1..0) -> V] /\ FoldOf(f, 0, base, step)
    BY <2>1 DEF FoldOf
  <2>3. 0 \in 0..n
    OBVIOUS
  <2> HIDE DEF f
  <2> QED
    BY <2>2, <2>3
<1>2. ASSUME NEW k \in 1..n, k - 1 \in S
      PROVE  k \in S
  <2>0. k \in 0..n
    OBVIOUS
  <2>1. PICK f \in [SUBSET (1..(k - 1)) -> V] : FoldOf(f, k - 1, base, step)
    BY <1>2
  <2> DEFINE h == [s \in SUBSET (1..k) |-> IF k \in s THEN step[k][f[s \ {k}]] ELSE f[s]]
  <2>2. \A s \in SUBSET (1..k) : s \ {k} \in SUBSET (1..(k - 1))
    OBVIOUS
  <2>3. ASSUME NEW s \in SUBSET (1..k)
        PROVE  /\ h[s] \in V
               /\ h[s] = IF s = {} THEN base ELSE step[Max(s)][h[s \ {Max(s)}]]
    <3>1. CASE k \in s
      <4>1. Max(s) = k
        BY <3>1, MaxUpTo
      <4>2. h[s] = step[k][f[s \ {k}]] /\ h[s \ {k}] = f[s \ {k}]
        BY <2>2, <3>1
      <4>3. f[s \ {k}] \in V
        BY <2>2
      <4> HIDE DEF h
      <4> QED
        BY <3>1, <4>1, <4>2, <4>3
    <3>2. CASE k \notin s
      <4>1. s \in SUBSET (1..(k - 1)) /\ s \ {Max(s)} \in SUBSET (1..(k - 1))
        BY <2>2, <3>2
      <4>2. h[s] = f[s] /\ h[s \ {Max(s)}] = f[s \ {Max(s)}]
        BY <3>2, <4>1
      <4> HIDE DEF h
      <4> QED
        BY <2>1, <4>1, <4>2 DEF FoldOf
    <3> QED
      BY <3>1, <3>2
  <2>4. h \in [SUBSET (1..k) -> V] /\ FoldOf(h, k, base, step)
    BY <2>3 DEF FoldOf
  <2> HIDE DEF h
  <2> QED
    BY <2>0, <2>4
<1>3. n \in S
  <2> HIDE DEF S
  <2>1. \A k \in 1..n : k - 1 \in S => k \in S
    BY <1>2
  <2>2. 0..n \subseteq S
    BY <1>1, <2>1, UpTo, Zenon
  <2> QED
    BY <2>2
<1> QED
  BY <1>3

-----------------------------------------------------------------------------
(* One value and one field.                                                *)

Bytes == 0..(Base - 1)

LEMMA ToBytesFacts ==
    ASSUME NEW n \in Nat
    PROVE  ToBytes(n) \in Seq(Bytes) /\ Len(ToBytes(n)) = 2
<1>1. n % Base \in Bytes /\ (n \div Base) % Base \in Bytes
  BY SerializerAssumption DEF Bytes
<1> QED
  BY <1>1 DEF ToBytes

\* An object is written as its name and its age, and a sequence is the elements but
\* the last followed by the last.
LEMMA FrontAndLast ==
    ASSUME NEW value \in Seq(Bytes), Len(value) > 0
    PROVE  /\ Front(value) \in Seq(Bytes) /\ Len(Front(value)) = Len(value) - 1
           /\ Last(value) \in Bytes
           /\ Front(value) \o <<Last(value)>> = value
<1> DEFINE n == Len(value)
           front == SubSeq(value, 1, n - 1)
<1>1. n \in Nat /\ n > 0 /\ \A i \in 1..n : value[i] \in Bytes
  OBVIOUS
<1>2. Front(value) = front /\ Last(value) = value[n]
  BY DEF Front, Last
<1>3. /\ front \in Seq(Bytes)
      /\ Len(front) = IF 1 <= n - 1 THEN n - 1 - 1 + 1 ELSE 0
      /\ \A i \in 1..(n - 1 - 1 + 1) : front[i] = value[1 + i - 1]
  <2>1. 1 \in Int /\ n - 1 \in Int /\ \A i \in 1..(n - 1) : value[i] \in Bytes
    BY <1>1
  <2> HIDE DEF n
  <2> QED
    BY <2>1, SubSeqProperties
<1> HIDE DEF front
<1>4. Len(front) = n - 1 /\ \A i \in 1..(n - 1) : front[i] = value[i]
  <2>1. /\ (IF 1 <= n - 1 THEN n - 1 - 1 + 1 ELSE 0) = n - 1
        /\ n - 1 - 1 + 1 = n - 1
        /\ \A i \in 1..(n - 1) : 1 + i - 1 = i
    <3> HIDE DEF n
    <3> QED
      BY <1>1
  <2> HIDE DEF n
  <2> QED
    BY <1>3, <2>1
<1> DEFINE last == <<value[n]>>
           whole == front \o last
<1>5. last \in Seq(Bytes) /\ Len(last) = 1 /\ last[1] = value[n]
  BY <1>1
<1> HIDE DEF last
<1>6. /\ whole \in Seq(Bytes) /\ Len(whole) = Len(front) + Len(last)
      /\ \A i \in 1..(Len(front) + Len(last)) :
            whole[i] = IF i <= Len(front) THEN front[i] ELSE last[i - Len(front)]
  BY <1>3, <1>5, ConcatProperties
<1> HIDE DEF whole
<1>7. whole = value
  <2>1. Len(whole) = n
    BY <1>1, <1>4, <1>5, <1>6
  <2>2. \A i \in 1..n : whole[i] = value[i]
    BY <1>1, <1>4, <1>5, <1>6
  <2> HIDE DEF n
  <2> QED
    BY <1>6, <2>1, <2>2, SeqEqual DEF n
<1> QED
  BY <1>1, <1>2, <1>3, <1>4, <1>7 DEF whole, last

\* BinarySerializer::size is the number of bytes BinarySerializer::serialize writes,
\* for a value of every kind.
LEMMA WrittenFacts ==
    ASSUME NEW kind \in Kinds, NEW value, Fits(kind, value)
    PROVE  /\ Written(kind, value) \in Seq(Bytes)
           /\ Size(kind, value) \in Nat
           /\ Len(Written(kind, value)) = Size(kind, value)
<1>1. value \in Seq(Bytes) /\ Len(value) \in Nat
  BY DEF Fits, Bytes
<1>2. 0 \in Bytes /\ 1 \in Bytes
  BY SerializerAssumption DEF Bytes
<1>3. ASSUME NEW items \in Seq(Bytes)
      PROVE  /\ ToBytes(Len(items)) \o items \in Seq(Bytes)
             /\ Len(ToBytes(Len(items)) \o items) = 2 + Len(items)
  <2> DEFINE count == ToBytes(Len(items))
  <2>1. Len(items) \in Nat
    OBVIOUS
  <2>2. count \in Seq(Bytes) /\ Len(count) = 2
    BY <2>1, ToBytesFacts
  <2> HIDE DEF count
  <2>3. count \o items \in Seq(Bytes) /\ Len(count \o items) = Len(count) + Len(items)
    BY <2>2, ConcatProperties
  <2> QED
    BY <2>2, <2>3 DEF count
<1>4. CASE kind \in {"number", "enum"}
  BY <1>1, <1>4 DEF Fits, Written, WriteNumber, WriteEnum, Size, NumberSize, EnumSize
<1>5. CASE kind = "pair"
  <2>0. Len(value) = 2
    BY <1>5 DEF Fits
  <2>1. value[1] \in Bytes /\ value[2] \in Bytes
    BY <1>1, <2>0
  <2>2. <<value[1]>> \o <<value[2]>> \in Seq(Bytes) /\ Len(<<value[1]>> \o <<value[2]>>) = 2
    BY <2>1
  <2> QED
    BY <1>5, <2>2 DEF Written, WritePair, WriteNumber, Size, PairSize, NumberSize
<1>6. CASE kind = "optional"
  <2>1. \A b \in Bytes : <<b>> \o value \in Seq(Bytes) /\ Len(<<b>> \o value) = 1 + Len(value)
    BY <1>1
  <2> QED
    BY <1>1, <1>2, <1>6, <2>1 DEF Written, WriteOptional, Size, OptionalSize, NumberSize
<1>7. CASE kind \in {"sequence", "associative", "array"}
  BY <1>1, <1>3, <1>7
  DEF Written, WriteSequence, WriteAssociative, WriteArray,
      Size, SequenceSize, AssociativeSize, ArraySize, ContainerSize
<1>8. CASE kind = "object"
  <2>1. Len(value) > 0
    BY <1>8 DEF Fits
  <2>2. Front(value) \in Seq(Bytes) /\ Len(Front(value)) = Len(value) - 1
        /\ Last(value) \in Bytes
    BY <1>1, <2>1, FrontAndLast
  <2> DEFINE name == ToBytes(Len(Front(value))) \o Front(value)
  <2>3. name \in Seq(Bytes) /\ Len(name) = 2 + Len(Front(value))
    BY <1>3, <2>2
  <2>4. /\ Written(kind, value) = name \o <<Last(value)>>
        /\ Size(kind, value) = 2 + Len(Front(value)) + 1
    BY <1>8 DEF Written, WriteObject, WriteSequence, WriteNumber,
                Size, ObjectSize, SequenceSize, ContainerSize, NumberSize
  <2> HIDE DEF name
  <2>5. name \o <<Last(value)>> \in Seq(Bytes) /\ Len(name \o <<Last(value)>>) = Len(name) + 1
    BY <2>2, <2>3
  <2> QED
    BY <2>2, <2>3, <2>4, <2>5
<1> QED
  BY <1>4, <1>5, <1>6, <1>7, <1>8 DEF Kinds

\* The context that writeMessage serializes into
WireContexts == [tag : {"binary"}, io : Seq(Bytes), thrown : {FALSE}]
FittingMessage(m) == m \in Messages /\ \A name \in Names : Fits(Kind[name], m.value[name])

\* Serializer::serialize, through whichever composition the field has.
LEMMA WriteFieldBytes ==
    ASSUME NEW m, FittingMessage(m), NEW name \in Names, NEW context \in WireContexts
    PROVE  WriteField(context, m, name)
               = [context EXCEPT !.io = context.io \o Written(Kind[name], m.value[name])]
<1>1. "binary" \in Serializers[name]
  BY ExchangeAssumption
<1> QED
  BY <1>1 DEF WriteField, Serialize, SerializeUsing, SupportedBy, HoldsStreamOf, WireContexts

\* What it adds to a stream is as long as it says.
LEMMA WriteFieldFacts ==
    ASSUME NEW m, FittingMessage(m), NEW name \in Names, NEW context \in WireContexts
    PROVE  /\ WriteField(context, m, name) \in WireContexts
           /\ FieldSize(m, name) \in Nat
           /\ Len(WriteField(context, m, name).io) = Len(context.io) + FieldSize(m, name)
<1> DEFINE written == Written(Kind[name], m.value[name])
<1>1. Kind[name] \in Kinds
  BY ExchangeAssumption
<1>2. written \in Seq(Bytes) /\ FieldSize(m, name) \in Nat /\ Len(written) = FieldSize(m, name)
  BY <1>1, WrittenFacts DEF FittingMessage, FieldSize
<1>3. WriteField(context, m, name) = [context EXCEPT !.io = context.io \o written]
  BY WriteFieldBytes
<1> HIDE DEF written
<1>4. context.io \in Seq(Bytes)
  BY DEF WireContexts
<1>5. context.io \o written \in Seq(Bytes)
      /\ Len(context.io \o written) = Len(context.io) + Len(written)
  BY <1>2, <1>4
<1> QED
  BY <1>2, <1>3, <1>5 DEF WireContexts

-----------------------------------------------------------------------------
(* The message.                                                            *)

\* The sum of the sizes: FieldSet::size.
LEMMA SizeFold ==
    ASSUME NEW m, FittingMessage(m)
    PROVE  \E sum : /\ sum[1..0] = 0
                    /\ \A k \in 1..Len(m.fields) :
                          sum[1..k] = sum[1..(k - 1)] + FieldSize(m, m.fields[k])
                    /\ SerializedSize(m) = sum[1..Len(m.fields)]
<1> DEFINE n == Len(m.fields)
           Body(f) == [s \in SUBSET DOMAIN m.fields |->
                          IF s = {} THEN 0
                          ELSE f[s \ {Max(s)}] + FieldSize(m, m.fields[Max(s)])]
           sum == CHOOSE f : f = Body(f)
<1>1. SerializedSize(m) = sum[DOMAIN m.fields]
  BY DEF SerializedSize, FoldLeft, MapThenFoldSet
<1>2. n \in Nat /\ DOMAIN m.fields = 1..n /\ \A i \in 1..n : m.fields[i] \in Names
  BY DEF FittingMessage, Messages
<1>3. \A i \in 1..n : FieldSize(m, m.fields[i]) \in Nat
  BY <1>2, WrittenFacts, ExchangeAssumption DEF FittingMessage, FieldSize
<1>4. \E f : f = Body(f)
  <2> DEFINE step == [i \in 1..n |-> [v \in Nat |-> v + FieldSize(m, m.fields[i])]]
  <2>1. step \in [1..n -> [Nat -> Nat]]
    BY <1>3
  <2>2. PICK f \in [SUBSET (1..n) -> Nat] : FoldOf(f, n, 0, step)
    <3>1. n \in Nat /\ 0 \in Nat
      BY <1>2
    <3> HIDE DEF n, step
    <3> QED
      BY <2>1, <3>1, FoldExists
  <2>3. ASSUME NEW s \in SUBSET (1..n), s # {}
        PROVE  f[s] = f[s \ {Max(s)}] + FieldSize(m, m.fields[Max(s)])
    <3>1. Max(s) \in 1..n
      BY <1>2, <2>3, MaxFacts
    <3>2. s \ {Max(s)} \in SUBSET (1..n)
      OBVIOUS
    <3> QED
      BY <2>2, <2>3, <3>1, <3>2 DEF FoldOf
  <2>4. {} \in SUBSET (1..n)
    OBVIOUS
  <2>5. f[{}] = 0
    BY <2>2, <2>4 DEF FoldOf
  <2> QED
    BY <1>2, <2>3, <2>5
<1>5. sum = Body(sum)
  <2> HIDE DEF Body
  <2> QED
    BY <1>4
<1> HIDE DEF sum
<1>6. sum[1..0] = 0
  BY <1>5
<1>7. ASSUME NEW k \in 1..n
      PROVE  sum[1..k] = sum[1..(k - 1)] + FieldSize(m, m.fields[k])
  <2>1. 1..k \in SUBSET (1..n) /\ 1..k # {} /\ (1..k) \ {k} = 1..(k - 1) /\ k \in 1..k
    BY <1>2
  <2>2. Max(1..k) = k
    BY <1>2, <2>1, MaxUpTo
  <2> QED
    BY <1>2, <1>5, <2>1, <2>2
<1> QED
  BY <1>1, <1>2, <1>6, <1>7

\* The fields written one by one, into any context.
LEMMA WrittenFold ==
    ASSUME NEW m, m.fields \in Seq(Names), NEW context
    PROVE  \E written : /\ written[1..0] = context
                        /\ \A k \in 1..Len(m.fields) :
                              written[1..k] = WriteField(written[1..(k - 1)], m, m.fields[k])
                        /\ Serialized(m, context) = written[1..Len(m.fields)]
<1> DEFINE n == Len(m.fields)
           Step(c, i) == WriteField(c, m, m.fields[i])
           Body(k, f) == [s \in SUBSET (1..k) |->
                             IF s = {} THEN context ELSE Step(f[s \ {Max(s)}], Max(s))]
           written == CHOOSE f : f = Body(n, f)
<1>1. n \in Nat /\ DOMAIN m.fields = 1..n
  OBVIOUS
<1>2. Serialized(m, context) = written[1..n]
  BY <1>1 DEF Serialized, FoldLeft, MapThenFoldSet
<1> HIDE DEF Step
<1>3. \E f : f = Body(n, f)
  <2> DEFINE S == {k \in 0..n : \E f : f = Body(k, f)}
  <2>1. 0 \in S
    <3> DEFINE f == [s \in SUBSET (1..0) |-> context]
    <3>1. \A s \in SUBSET (1..0) : s = {}
      OBVIOUS
    <3>2. f = Body(0, f)
      BY <3>1
    <3> QED
      BY <1>1, <3>2
  <2>2. ASSUME NEW k \in 1..n, k - 1 \in S PROVE k \in S
    <3>0. k \in 0..n
      BY <1>1
    <3>1. PICK f : f = Body(k - 1, f)
      BY <2>2
    <3> DEFINE h == [s \in SUBSET (1..k) |-> IF k \in s THEN Step(f[s \ {k}], k) ELSE f[s]]
    <3>2. \A s \in SUBSET (1..k) : s \ {k} \in SUBSET (1..(k - 1))
      BY <1>1
    <3>3. ASSUME NEW s \in SUBSET (1..k)
          PROVE  h[s] = IF s = {} THEN context ELSE Step(h[s \ {Max(s)}], Max(s))
      <4>1. CASE k \in s
        <5>1. Max(s) = k
          BY <1>1, <4>1, MaxUpTo
        <5>2. h[s] = Step(f[s \ {k}], k) /\ h[s \ {k}] = f[s \ {k}]
          BY <3>2, <4>1
        <5> HIDE DEF h
        <5> QED
          BY <4>1, <5>1, <5>2
      <4>2. CASE k \notin s
        <5>1. s \in SUBSET (1..(k - 1)) /\ s \ {Max(s)} \in SUBSET (1..(k - 1))
          BY <3>2, <4>2
        <5>2. h[s] = f[s] /\ h[s \ {Max(s)}] = f[s \ {Max(s)}]
          BY <4>2, <5>1
        <5>3. f[s] = IF s = {} THEN context ELSE Step(f[s \ {Max(s)}], Max(s))
          BY <3>1, <5>1
        <5> HIDE DEF h
        <5> QED
          BY <5>2, <5>3
      <4> QED
        BY <4>1, <4>2
    <3>4. h = Body(k, h)
      <4>1. h = [s \in SUBSET (1..k) |-> h[s]]
        OBVIOUS
      <4> HIDE DEF h
      <4> QED
        BY <3>3, <4>1
    <3> HIDE DEF h, Body
    <3> QED
      BY <3>0, <3>4
  <2>3. n \in S
    <3> HIDE DEF S, n
    <3>1. \A k \in 1..n : k - 1 \in S => k \in S
      BY <2>2
    <3>2. 0..n \subseteq S
      BY <1>1, <2>1, <3>1, UpTo, Zenon
    <3> QED
      BY <1>1, <3>2
  <2> QED
    BY <2>3
<1>4. written = Body(n, written)
  <2> HIDE DEF Body
  <2> QED
    BY <1>3
<1> HIDE DEF written
<1>5. written[1..0] = context
  BY <1>4
<1>6. ASSUME NEW k \in 1..n
      PROVE  written[1..k] = Step(written[1..(k - 1)], k)
  <2>1. 1..k \in SUBSET (1..n) /\ 1..k # {} /\ (1..k) \ {k} = 1..(k - 1) /\ k \in 1..k
    <3> HIDE DEF n
    <3> QED
      BY <1>1
  <2>2. Max(1..k) = k
    BY <1>1, <2>1, MaxUpTo
  <2> QED
    BY <1>1, <1>4, <2>1, <2>2
<1> QED
  BY <1>2, <1>5, <1>6 DEF Step

\* What writeMessage says beforehand of a message is what it serializes of it.
LEMMA SerializedFacts ==
    ASSUME NEW m, FittingMessage(m)
    PROVE  LET io == Serialized(m, Context("binary", <<>>)).io
           IN  io \in Seq(Bytes) /\ Len(io) = SerializedSize(m)
<1> DEFINE n == Len(m.fields)
<1>1. n \in Nat /\ m.fields \in Seq(Names) /\ \A i \in 1..n : m.fields[i] \in Names
  BY DEF FittingMessage, Messages
<1>2. PICK sum : /\ sum[1..0] = 0
                 /\ \A k \in 1..n : sum[1..k] = sum[1..(k - 1)] + FieldSize(m, m.fields[k])
                 /\ SerializedSize(m) = sum[1..n]
  BY SizeFold
<1>3. PICK written :
         /\ written[1..0] = Context("binary", <<>>)
         /\ \A k \in 1..n : written[1..k] = WriteField(written[1..(k - 1)], m, m.fields[k])
         /\ Serialized(m, Context("binary", <<>>)) = written[1..n]
  BY <1>1, WrittenFold
<1> DEFINE S == {k \in 0..n : /\ written[1..k] \in WireContexts
                              /\ Len(written[1..k].io) = sum[1..k]}
<1>4. 0 \in S
  <2>1. Context("binary", <<>>) \in WireContexts /\ Context("binary", <<>>).io = <<>>
    BY DEF Context, WireContexts
  <2>2. 0 \in 0..n
    BY <1>1
  <2> QED
    BY <1>2, <1>3, <2>1, <2>2
<1>5. \A k \in 1..n : k - 1 \in S => k \in S
  <2> SUFFICES ASSUME NEW k \in 1..n, k - 1 \in S PROVE k \in S
    OBVIOUS
  <2>1. written[1..(k - 1)] \in WireContexts /\ Len(written[1..(k - 1)].io) = sum[1..(k - 1)]
    OBVIOUS
  <2>2. m.fields[k] \in Names
    BY <1>1
  <2>3. /\ written[1..k] \in WireContexts
        /\ Len(written[1..k].io) = sum[1..(k - 1)] + FieldSize(m, m.fields[k])
    BY <1>3, <2>1, <2>2, WriteFieldFacts
  <2> QED
    BY <1>1, <1>2, <2>3
<1>6. n \in S
  <2> HIDE DEF S, n
  <2>1. 0..n \subseteq S
    BY <1>1, <1>4, <1>5, UpTo, Zenon
  <2> QED
    BY <1>1, <2>1
<1> QED
  BY <1>2, <1>3, <1>6 DEF WireContexts

-----------------------------------------------------------------------------
(* The frame.                                                              *)

FrameOf(m) ==
    LET data == ToBytes(FrameLength(m)) \o Serialized(m, Context("binary", <<>>)).io
    IN  [sent |-> m, length |-> FrameLength(m), bytes |-> SubSeq(data, 1, FrameLength(m)),
         overrun |-> Len(data) > FrameLength(m)]

\* The values of the message an application holds, and of the one that was sent, have
\* what their kinds have.
Framed ==
    /\ message # NoMessage => FittingMessage(message)
    /\ frame # NoFrame => FittingMessage(frame.sent) /\ frame = FrameOf(frame.sent)

LEMMA FramedStep == MessagesTypeOK' /\ Framed /\ [Next]_vars => Framed'
<1> SUFFICES ASSUME MessagesTypeOK', Framed, [Next]_vars PROVE Framed'
  OBVIOUS
<1>1. ASSUME UNCHANGED frame,
             message' # NoMessage =>
                 \A name \in Names : Fits(Kind[name], message'.value[name])
      PROVE  Framed'
  BY <1>1 DEF Framed, MessagesTypeOK, FittingMessage
<1>2. ASSUME NEW p \in Factories, NEW t \in Types, CreateMessage(p, t), UNCHANGED frame
      PROVE  Framed'
  BY <1>1, <1>2, DataAssumption DEF CreateMessage
<1>3. ASSUME NEW name \in Names, NEW value \in Data[name], SetField(name, value),
             UNCHANGED frame
      PROVE  Framed'
  <2>1. FittingMessage(message) /\ message' = [message EXCEPT !.value[name] = value]
    BY <1>3 DEF SetField, Assigned, Framed
  <2>2. Fits(Kind[name], value)
    BY DataAssumption
  <2>3. \A other \in Names : Fits(Kind[other], message'.value[other])
    BY <2>1, <2>2 DEF FittingMessage, Messages
  <2> QED
    BY <1>1, <1>3, <2>3
<1>4. ASSUME CloneMessage, UNCHANGED frame
      PROVE  Framed'
  <2>1. FittingMessage(message) /\ message'.value = message.value
    BY <1>4 DEF CloneMessage, Framed, FittingMessage, Messages
  <2> QED
    BY <1>1, <1>4, <2>1 DEF FittingMessage
<1>5. CASE WriteMessage
  <2>1. frame' = FrameOf(message) /\ message' = NoMessage /\ FittingMessage(message)
    BY <1>5 DEF WriteMessage, FrameOf, Framed
  <2>2. frame'.sent = message
    BY <2>1 DEF FrameOf
  <2> QED
    BY <2>1, <2>2 DEF Framed
<1>6. ASSUME UNCHANGED frame, message' = message \/ message' = NoMessage
      PROVE  Framed'
  BY <1>6 DEF Framed
<1> QED
  BY <1>2, <1>3, <1>4, <1>5, <1>6
  DEF Next, MessagesNext, AddDescriptor, AddCopiedDescriptor, CopyFactory, SwapFactories,
      WriteDocument, CreateMessageFromStream, RestoreMessage, DispatchMessage, vars,
      messageVars

LEMMA FramedInvariant == Spec => []Framed
<1>1. Init => Framed
  BY DEF Init, MessagesInit, Framed
<1> QED
  BY <1>1, FramedStep, MessagesTypeCorrect, PTL DEF Spec

\* What the receiver gets of a frame whose buffer was not overrun.
LEMMA FrameFacts ==
    ASSUME Framed, frame # NoFrame
    PROVE  /\ 2 + SerializedSize(frame.sent) < Base * Base =>
                 /\ ~frame.overrun
                 /\ Payload = Serialized(frame.sent, Context("binary", <<>>)).io
           /\ ~frame.overrun => 2 + SerializedSize(frame.sent) < Base * Base
           /\ SerializedSize(frame.sent) \in Nat
<1> DEFINE size == SerializedSize(frame.sent)
           max == Base * Base
           io == Serialized(frame.sent, Context("binary", <<>>)).io
           length == FrameLength(frame.sent)
           count == ToBytes(length)
           data == count \o io
<1>1. io \in Seq(Bytes) /\ Len(io) = size /\ size \in Nat
  BY SerializedFacts DEF Framed
<1>2. max \in Nat /\ max > 0
  BY SerializerAssumption
<1>3. length \in Nat /\ length < max /\ (2 + size < max => length = 2 + size)
  <2>1. length = (2 + (size % max)) % max
    BY DEF FrameLength
  <2> HIDE DEF max, size, length
  <2> QED
    BY <1>1, <1>2, <2>1
<1>4. count \in Seq(Bytes) /\ Len(count) = 2
  BY <1>3, ToBytesFacts
<1> HIDE DEF io, count, size, max, length
<1>5. /\ data \in Seq(Bytes) /\ Len(data) = 2 + size
      /\ \A i \in 1..(2 + size) : data[i] = IF i <= 2 THEN count[i] ELSE io[i - 2]
  <2>1. /\ data \in Seq(Bytes) /\ Len(data) = Len(count) + Len(io)
        /\ \A i \in 1..(Len(count) + Len(io)) :
              data[i] = IF i <= Len(count) THEN count[i] ELSE io[i - Len(count)]
    BY <1>1, <1>4, ConcatProperties
  <2> HIDE DEF data
  <2> QED
    BY <1>1, <1>4, <2>1
<1>6. frame.bytes = SubSeq(data, 1, length) /\ frame.overrun = (Len(data) > length)
  <2>1. \A m : /\ FrameOf(m).bytes =
                     SubSeq(ToBytes(FrameLength(m)) \o Serialized(m, Context("binary", <<>>)).io,
                            1, FrameLength(m))
               /\ FrameOf(m).overrun =
                     (Len(ToBytes(FrameLength(m)) \o Serialized(m, Context("binary", <<>>)).io)
                        > FrameLength(m))
    BY DEF FrameOf
  <2>2. PICK m : m = frame.sent
    OBVIOUS
  <2>3. frame = FrameOf(m)
    BY <2>2 DEF Framed
  <2>4. frame.bytes = FrameOf(m).bytes /\ frame.overrun = FrameOf(m).overrun
    BY <2>3
  <2> QED
    BY <2>1, <2>2, <2>4 DEF data, count, io, length
<1> HIDE DEF data
<1>7. ASSUME 2 + size < max PROVE ~frame.overrun /\ Payload = io
  <2>1. ~(Len(data) > length)
    BY <1>1, <1>3, <1>5, <1>7
  <2>2. ~frame.overrun
    BY <1>6, <2>1, Zenon
  <2>3. frame.bytes = data
    BY <1>1, <1>3, <1>5, <1>6, <1>7
  <2>4. Payload = io
    <3> DEFINE last == 2 + size
               rest == SubSeq(data, 3, last)
    <3>1. Payload = rest /\ last \in Nat /\ \A i \in 3..last : i \in 1..Len(data)
      BY <1>1, <1>5, <2>3 DEF Payload
    <3>2. /\ rest \in Seq(Bytes) /\ Len(rest) = IF 3 <= last THEN last - 3 + 1 ELSE 0
          /\ \A i \in 1..(last - 3 + 1) : rest[i] = data[3 + i - 1]
      <4> HIDE DEF last
      <4>1. 3 \in Int /\ last \in Int /\ \A i \in 3..last : data[i] \in Bytes
        BY <1>5, <3>1, ElementOfSeq
      <4> QED
        BY <4>1, SubSeqProperties
    <3> HIDE DEF rest
    <3>3. Len(rest) = size
      BY <1>1, <3>2
    <3>4. \A i \in 1..size : rest[i] = io[i]
      <4> SUFFICES ASSUME NEW i \in 1..size PROVE rest[i] = io[i]
        OBVIOUS
      <4>1. /\ i \in 1..(last - 3 + 1) /\ 3 + i - 1 = i + 2
            /\ i + 2 \in 1..(2 + size) /\ ~(i + 2 <= 2) /\ (i + 2) - 2 = i
        BY <1>1
      <4> QED
        BY <1>5, <3>2, <4>1
    <3>5. rest = io
      BY <1>1, <3>2, <3>3, <3>4, SeqEqual
    <3> QED
      BY <3>1, <3>5
  <2> QED
    BY <2>2, <2>4
<1>8. ASSUME ~frame.overrun PROVE 2 + size < max
  <2>1. ~(Len(data) > length)
    BY <1>6, <1>8, Zenon
  <2> QED
    BY <1>1, <1>2, <1>3, <1>5, <2>1
<1> QED
  BY <1>1, <1>7, <1>8 DEF io, size, max

\* TcpTransport::writeMessage sends all of a message, in a buffer that is long enough,
\* whenever the length of the frame fits its two bytes: the sizes the fields announce
\* are the bytes they write.
THEOREM FrameCorrect == Spec => []FrameHoldsMessage
<1>1. Framed => FrameHoldsMessage
  <2> SUFFICES ASSUME Framed, frame # NoFrame, 2 + SerializedSize(frame.sent) < Base * Base
               PROVE  ~frame.overrun /\ Len(Payload) = SerializedSize(frame.sent)
    BY DEF FrameHoldsMessage
  <2>1. Len(Serialized(frame.sent, Context("binary", <<>>)).io) = SerializedSize(frame.sent)
    BY SerializedFacts DEF Framed
  <2> QED
    BY <2>1, FrameFacts
<1> QED
  BY <1>1, FramedInvariant, PTL

-----------------------------------------------------------------------------
(* Reading what was written.                                               *)

LEMMA TakeFacts ==
    ASSUME NEW v \in Seq(Bytes), NEW rest \in Seq(Bytes)
    PROVE  /\ Take(Len(v), v \o rest) = [value |-> v, rest |-> rest]
           /\ Take(Len(v), v \o rest) # Broken
<1> DEFINE all == v \o rest
<1>1. /\ all \in Seq(Bytes) /\ Len(all) = Len(v) + Len(rest)
      /\ \A i \in 1..(Len(v) + Len(rest)) :
            all[i] = IF i <= Len(v) THEN v[i] ELSE rest[i - Len(v)]
  BY ConcatProperties
<1>2. Len(v) \in Nat /\ Len(rest) \in Nat
  OBVIOUS
<1> HIDE DEF all
<1>3. SubSeq(all, 1, Len(v)) = v
  BY <1>1, <1>2
<1>4. SubSeq(all, Len(v) + 1, Len(all)) = rest
  BY <1>1, <1>2
<1>5. Take(Len(v), all) = [value |-> v, rest |-> rest]
  <2>1. ~(Len(all) < Len(v))
    BY <1>1, <1>2
  <2> QED
    BY <1>3, <1>4, <2>1, Zenon DEF Take
<1>6. [value |-> v, rest |-> rest] # Broken
  BY SerializerAssumption DEF Broken, Bytes
<1> QED
  BY <1>5, <1>6 DEF all

LEMMA Reassociated ==
    ASSUME NEW u \in Seq(Bytes), NEW v \in Seq(Bytes), NEW w \in Seq(Bytes)
    PROVE  (u \o v) \o w = u \o (v \o w) /\ v \o w \in Seq(Bytes)
<1>1. v \o w \in Seq(Bytes)
  BY ConcatProperties
<1>2. (u \o v) \o w = u \o (v \o w)
  BY ConcatAssociative
<1> QED
  BY <1>1, <1>2

\* What readMessageLength, and a container that is read, make of a count.
LEMMA FromBytesToBytes ==
    ASSUME NEW n \in Nat, n < Base * Base
    PROVE  FromBytes(ToBytes(n)) = n
<1> DEFINE q == n \div Base
<1>1. Base \in Nat /\ Base > 0
  BY SerializerAssumption
<1>2. q \in Nat /\ n = Base * q + (n % Base) /\ n % Base \in 0..(Base - 1)
  BY <1>1
<1> HIDE DEF q
<1>3. q < Base
  <2> SUFFICES ASSUME q >= Base PROVE FALSE
    BY <1>1, <1>2
  <2>1. Base * q >= Base * Base
    BY <1>1, <1>2
  <2>2. Base * q \in Nat /\ Base * Base \in Nat
    BY <1>1, <1>2
  <2> QED
    BY <1>2, <2>1, <2>2
<1>4. q % Base = q
  BY <1>1, <1>2, <1>3
<1>5. FromBytes(ToBytes(n)) = (n % Base) + Base * (q % Base)
  BY DEF FromBytes, ToBytes, q
<1> QED
  BY <1>1, <1>2, <1>4, <1>5

\* A container of n elements that is read after its count
LEMMA ReadSequenceFacts ==
    ASSUME NEW items \in Seq(Bytes), Len(items) < Base * Base, NEW rest \in Seq(Bytes)
    PROVE  /\ ReadSequence((ToBytes(Len(items)) \o items) \o rest)
                 = [value |-> items, rest |-> rest]
           /\ ReadSequence((ToBytes(Len(items)) \o items) \o rest) # Broken
<1> DEFINE count == ToBytes(Len(items))
           more == items \o rest
<1>1. Len(items) \in Nat
  OBVIOUS
<1>2. count \in Seq(Bytes) /\ Len(count) = 2 /\ FromBytes(count) = Len(items)
  BY <1>1, ToBytesFacts, FromBytesToBytes
<1>3. more \in Seq(Bytes)
  OBVIOUS
<1>4. Take(Len(items), more) = [value |-> items, rest |-> rest]
      /\ Take(Len(items), more) # Broken
  BY TakeFacts
<1>5. (count \o items) \o rest = count \o more
  <2> HIDE DEF count
  <2> QED
    BY <1>2, Reassociated, Zenon
<1> HIDE DEF count, more
<1>6. Take(2, count \o more) = [value |-> count, rest |-> more] /\ Take(2, count \o more) # Broken
  BY <1>2, <1>3, TakeFacts
<1>7. ReadSequence(count \o more) = Take(Len(items), more)
  BY <1>2, <1>6 DEF ReadSequence
<1> QED
  BY <1>4, <1>5, <1>7 DEF count

\* Inserting keys that are in order one by one into an empty container restores them.
LEMMA KeysFacts ==
    ASSUME NEW items \in Seq(Bytes), Increasing(items)
    PROVE  Keys(items) = items
<1> DEFINE n == Len(items)
           T == ToSet(items)
           Ordered(keys) == ToSet(keys) = T /\ Increasing(keys)
<1>1. n \in Nat /\ DOMAIN items = 1..n /\ \A i \in 1..n : items[i] \in Int
  BY SerializerAssumption DEF Bytes
<1>2. T = {items[i] : i \in 1..n}
  BY <1>1 DEF ToSet
<1>3. items \in [1..n -> T]
  BY <1>2
<1>4. \A i, j \in 1..n : items[i] = items[j] => i = j
  BY <1>1 DEF Increasing
<1>5. Cardinality(T) = n
  <2>1. items \in Bijection(1..n, T)
    BY <1>2, <1>3, <1>4 DEF Bijection, Injection, Surjection, IsInjective
  <2>2. ExistsBijection(1..n, T)
    BY <2>1 DEF ExistsBijection
  <2>3. IsFiniteSet(1..n) /\ Cardinality(1..n) = n
    BY <1>1, FS_Interval
  <2> HIDE DEF n, T
  <2> QED
    BY <2>2, <2>3, FS_Bijection
<1>6. Keys(items) = CHOOSE keys \in [1..n -> T] : Ordered(keys)
  BY <1>5 DEF Keys
<1>7. Ordered(items)
  OBVIOUS
<1> DEFINE keys == Keys(items)
<1>8. keys \in [1..n -> T] /\ Ordered(keys)
  <2> HIDE DEF Ordered, T, n
  <2> QED
    BY <1>3, <1>6, <1>7
<1>9. DOMAIN keys = 1..n /\ T = {keys[i] : i \in 1..n}
  BY <1>8 DEF ToSet
<1> HIDE DEF keys
<1> DEFINE I == {i \in 1..n : keys[i] # items[i]}
<1>10. I = {}
  <2> SUFFICES ASSUME I # {} PROVE FALSE
    OBVIOUS
  <2>1. I \in SUBSET Nat
    BY <1>1
  <2>2. Min(I) \in I /\ \A j \in I : Min(I) <= j
    <3> HIDE DEF I
    <3> QED
      BY <2>1, MinFacts
  <2>3. PICK i \in I : \A j \in I : i <= j
    BY <2>2
  <2>4. \A j \in 1..n : j < i => keys[j] = items[j]
    BY <1>1, <2>3
  <2>5. PICK j \in 1..n : keys[j] = items[i]
    BY <1>2, <1>9, <2>3
  <2>6. PICK k \in 1..n : items[k] = keys[i]
    BY <1>2, <1>9, <2>3
  <2>7. i \in 1..n /\ keys[i] # items[i] /\ keys[i] \in Int /\ items[i] \in Int
    BY <1>1, <2>3, <2>6
  <2>8. j > i
    <3>1. j # i
      BY <2>5, <2>7
    <3>2. j < i => FALSE
      BY <1>1, <1>4, <2>4, <2>5, <2>7
    <3> QED
      BY <2>7, <3>1, <3>2
  <2>9. k > i
    <3>1. k # i
      BY <2>6, <2>7
    <3>2. k < i => FALSE
      <4> SUFFICES ASSUME k < i PROVE FALSE
        OBVIOUS
      <4>1. keys[k] = items[k]
        BY <2>4
      <4>2. keys[k] < keys[i]
        BY <1>8, <1>9, <2>7 DEF Increasing
      <4> QED
        BY <2>6, <2>7, <4>1, <4>2
    <3> QED
      BY <2>7, <3>1, <3>2
  <2>10. keys[i] < items[i]
    BY <1>8, <1>9, <2>5, <2>7, <2>8 DEF Increasing
  <2>11. items[i] < keys[i]
    BY <1>1, <2>6, <2>7, <2>9 DEF Increasing
  <2> QED
    BY <2>7, <2>10, <2>11
<1>11. \A i \in 1..n : keys[i] = items[i]
  BY <1>10
<1>12. keys = items
  <2>1. \A f, g \in [1..n -> T] : (\A i \in 1..n : f[i] = g[i]) => f = g
    OBVIOUS
  <2> HIDE DEF n, T
  <2> QED
    BY <1>3, <1>8, <1>11, <2>1
<1> QED
  BY <1>12 DEF keys

\* binary::deserialize makes of what binary::serialize has written the same value,
\* and leaves what follows.
LEMMA ReadFacts ==
    ASSUME NEW kind \in Kinds, NEW value, Fits(kind, value), Len(value) < Base * Base,
           NEW old, kind = "optional" /\ value = <<>> => old = <<>>,
           NEW rest \in Seq(Bytes)
    PROVE  Read(kind, old, Written(kind, value) \o rest) = [value |-> value, rest |-> rest]
<1>1. value \in Seq(Bytes) /\ Len(value) \in Nat
  BY DEF Fits, Bytes
<1>2. 0 \in Bytes /\ 1 \in Bytes
  BY SerializerAssumption DEF Bytes
<1>3. CASE kind \in {"number", "enum"}
  <2>1. Len(value) = 1
    BY <1>3 DEF Fits
  <2>2. Take(1, value \o rest) = [value |-> value, rest |-> rest]
    BY <1>1, <2>1, TakeFacts
  <2>3. Written(kind, value) = value
    BY <1>3 DEF Written, WriteNumber, WriteEnum
  <2>4. \A bytes : Read(kind, old, bytes) = Take(1, bytes)
    BY <1>3 DEF Read, ReadNumber, ReadEnum
  <2> QED
    BY <2>2, <2>3, <2>4
<1>4. CASE kind = "pair"
  <2>0. Len(value) = 2
    BY <1>4 DEF Fits
  <2>1. Len(value) = 2 /\ value[1] \in Bytes /\ value[2] \in Bytes
    <3>1. 1 \in 1..Len(value) /\ 2 \in 1..Len(value)
      BY <2>0
    <3> QED
      BY <1>1, <2>0, <3>1, ElementOfSeq
  <2>2. <<value[1]>> \o <<value[2]>> = value
    BY <1>1, <2>1
  <2>3. Take(2, value \o rest) = [value |-> value, rest |-> rest]
    BY <1>1, <2>1, TakeFacts
  <2> QED
    BY <1>4, <2>2, <2>3 DEF Written, WritePair, WriteNumber, Read, ReadPair
<1>5. CASE kind = "optional"
  <2> DEFINE present(b) == [value |-> <<b>>, rest |-> value \o rest]
  <2>1. ASSUME NEW b \in Bytes
        PROVE  ReadNumber((<<b>> \o value) \o rest) = present(b) /\ present(b) # Broken
    <3>1. <<b>> \in Seq(Bytes) /\ Len(<<b>>) = 1 /\ value \o rest \in Seq(Bytes)
      BY <1>1
    <3>2. (<<b>> \o value) \o rest = <<b>> \o (value \o rest)
      BY <1>1, <3>1, Reassociated
    <3>3. Take(1, <<b>> \o (value \o rest)) = present(b)
          /\ Take(1, <<b>> \o (value \o rest)) # Broken
      BY <3>1, TakeFacts
    <3> QED
      BY <3>2, <3>3 DEF ReadNumber
  <2>2. CASE value = <<>>
    <3>1. <<>> \o rest = rest
      OBVIOUS
    <3>2. Read(kind, old, Written(kind, value) \o rest)
             = ReadOptional(old, (<<0>> \o value) \o rest)
      BY <1>5, <2>2 DEF Written, WriteOptional, Read
    <3>3. ReadOptional(old, (<<0>> \o value) \o rest) = [value |-> old, rest |-> value \o rest]
      <4> DEFINE all == (<<0>> \o value) \o rest
      <4>1. ReadNumber(all) = present(0) /\ present(0) # Broken
        BY <1>2, <2>1
      <4> HIDE DEF all, present
      <4>2. present(0).value = <<0>> => ReadOptional(old, all) = [present(0) EXCEPT !.value = old]
        BY <4>1, Zenon DEF ReadOptional
      <4> QED
        BY <4>2 DEF all, present
    <3> QED
      BY <1>5, <2>2, <3>1, <3>2, <3>3
  <2>3. CASE value # <<>>
    <3>1. Len(value) = 1
      BY <1>1, <1>5, <2>3 DEF Fits
    <3>2. Read(kind, old, Written(kind, value) \o rest)
             = ReadOptional(old, (<<1>> \o value) \o rest)
      BY <1>5, <2>3 DEF Written, WriteOptional, Read
    <3>3. <<1>> # <<0>>
      OBVIOUS
    <3>4. ReadOptional(old, (<<1>> \o value) \o rest) = ReadNumber(value \o rest)
      <4> DEFINE all == (<<1>> \o value) \o rest
      <4>1. ReadNumber(all) = present(1) /\ present(1) # Broken
        BY <1>2, <2>1
      <4> HIDE DEF all, present
      <4>2. present(1).value # <<0>> => ReadOptional(old, all) = ReadNumber(present(1).rest)
        BY <4>1, Zenon DEF ReadOptional
      <4> QED
        BY <3>3, <4>2 DEF all, present
    <3>5. Take(1, value \o rest) = [value |-> value, rest |-> rest]
      BY <1>1, <3>1, TakeFacts
    <3> QED
      BY <3>2, <3>4, <3>5 DEF ReadNumber
  <2> QED
    BY <2>2, <2>3
<1>6. CASE kind = "sequence"
  BY <1>1, <1>6, ReadSequenceFacts DEF Written, WriteSequence, Read
<1>7. CASE kind = "associative"
  <2>1. Keys(value) = value
    BY <1>1, <1>7, KeysFacts DEF Fits
  <2>2. ReadAssociative((ToBytes(Len(value)) \o value) \o rest) = [value |-> value, rest |-> rest]
    BY <1>1, <2>1, ReadSequenceFacts DEF ReadAssociative
  <2> QED
    BY <1>7, <2>2 DEF Written, WriteAssociative, Read
<1>8. CASE kind = "array"
  <2> DEFINE count == ToBytes(Len(value))
  <2>1. Len(value) = 2
    BY <1>8 DEF Fits
  <2>2. count \in Seq(Bytes) /\ Len(count) = 2
    BY <1>1, ToBytesFacts
  <2> HIDE DEF count
  <2>3. (count \o value) \o rest = count \o (value \o rest) /\ value \o rest \in Seq(Bytes)
    BY <1>1, <2>2, Reassociated, Zenon
  <2>4. Take(2, count \o (value \o rest)) = [value |-> count, rest |-> value \o rest]
    BY <2>2, <2>3, TakeFacts
  <2>5. Take(2, value \o rest) = [value |-> value, rest |-> rest]
    BY <1>1, <2>1, TakeFacts
  <2>6. ReadArray((count \o value) \o rest) = [value |-> value, rest |-> rest]
    <3>1. Take(2, count \o (value \o rest)).rest = value \o rest
      BY <2>4
    <3> QED
      BY <2>3, <2>5, <3>1, Zenon DEF ReadArray
  <2> QED
    BY <1>8, <2>6 DEF Written, WriteArray, Read, count
<1>9. CASE kind = "object"
  <2>1. Len(value) > 0
    BY <1>9 DEF Fits
  <2> DEFINE front == Front(value)
             last == <<Last(value)>>
             name == ToBytes(Len(front)) \o front
  <2>2. /\ front \in Seq(Bytes) /\ Len(front) < Base * Base
        /\ last \in Seq(Bytes) /\ Len(last) = 1 /\ front \o last = value
    <3>1. \A m \in Nat : Len(value) < m => Len(value) - 1 < m
      BY <1>1
    <3>2. Base * Base \in Nat
      BY SerializerAssumption
    <3> QED
      BY <1>1, <2>1, <3>1, <3>2, FrontAndLast
  <2> HIDE DEF front, last
  <2>3. name \in Seq(Bytes)
    <3>1. ToBytes(Len(front)) \in Seq(Bytes)
      BY <2>2, ToBytesFacts
    <3> QED
      BY <2>2, <3>1
  <2>4. ReadSequence(name \o (last \o rest)) = [value |-> front, rest |-> last \o rest]
    <3>1. last \o rest \in Seq(Bytes)
      BY <2>2
    <3> QED
      BY <2>2, <3>1, ReadSequenceFacts
  <2>5. (name \o last) \o rest = name \o (last \o rest)
    <3> HIDE DEF name
    <3> QED
      BY <2>2, <2>3, Reassociated, Zenon
  <2> HIDE DEF name
  <2>6. Take(1, last \o rest) = [value |-> last, rest |-> rest] /\ Take(1, last \o rest) # Broken
    BY <2>2, TakeFacts
  <2>7. ReadObject((name \o last) \o rest) = [value |-> value, rest |-> rest]
    <3> DEFINE age == [value |-> last, rest |-> rest]
    <3>1. /\ ReadSequence(name \o (last \o rest)).value = front
          /\ ReadSequence(name \o (last \o rest)).rest = last \o rest
      BY <2>4
    <3>2. ReadNumber(last \o rest) = age /\ age # Broken
      BY <2>6 DEF ReadNumber
    <3>3. [age EXCEPT !.value = front \o @] = [value |-> front \o last, rest |-> rest]
      <4>1. age.value = last /\ \A x : [age EXCEPT !.value = x] = [value |-> x, rest |-> rest]
        OBVIOUS
      <4> HIDE DEF age
      <4> QED
        BY <4>1
    <3> HIDE DEF age
    <3>4. ReadObject(name \o (last \o rest)) = [age EXCEPT !.value = front \o @]
      BY <3>1, <3>2, Zenon DEF ReadObject
    <3> QED
      BY <2>2, <2>5, <3>3, <3>4
  <2> QED
    BY <1>9, <2>7
    DEF Written, WriteObject, WriteSequence, WriteNumber, Read, name, front, last
<1> QED
  BY <1>3, <1>4, <1>5, <1>6, <1>7, <1>8, <1>9 DEF Kinds

\* The fields of a new message read one by one, from any context.
LEMMA ReadFold ==
    ASSUME NEW fields \in Seq(Names), NEW context
    PROVE  \E read : /\ read[1..0] = [fields |-> fields, value |-> Default, context |-> context]
                     /\ \A k \in 1..Len(fields) :
                           read[1..k] = ReadField(read[1..(k - 1)], fields[k])
                     /\ ReadFields(fields, context) = read[1..Len(fields)]
<1> DEFINE n == Len(fields)
           new == [fields |-> fields, value |-> Default, context |-> context]
           Step(c, i) == ReadField(c, fields[i])
           Body(k, f) == [s \in SUBSET (1..k) |->
                             IF s = {} THEN new ELSE Step(f[s \ {Max(s)}], Max(s))]
           read == CHOOSE f : f = Body(n, f)
<1>1. n \in Nat /\ DOMAIN fields = 1..n
  OBVIOUS
<1>2. ReadFields(fields, context) = read[1..n]
  BY <1>1 DEF ReadFields, FoldLeft, MapThenFoldSet
<1> HIDE DEF Step, new
<1>3. \E f : f = Body(n, f)
  <2> DEFINE S == {k \in 0..n : \E f : f = Body(k, f)}
  <2>1. 0 \in S
    <3> DEFINE f == [s \in SUBSET (1..0) |-> new]
    <3>1. \A s \in SUBSET (1..0) : s = {}
      OBVIOUS
    <3>2. f = Body(0, f)
      BY <3>1
    <3> QED
      BY <1>1, <3>2
  <2>2. ASSUME NEW k \in 1..n, k - 1 \in S PROVE k \in S
    <3>0. k \in 0..n
      BY <1>1
    <3>1. PICK f : f = Body(k - 1, f)
      BY <2>2
    <3> DEFINE h == [s \in SUBSET (1..k) |-> IF k \in s THEN Step(f[s \ {k}], k) ELSE f[s]]
    <3>2. \A s \in SUBSET (1..k) : s \ {k} \in SUBSET (1..(k - 1))
      BY <1>1
    <3>3. ASSUME NEW s \in SUBSET (1..k)
          PROVE  h[s] = IF s = {} THEN new ELSE Step(h[s \ {Max(s)}], Max(s))
      <4>1. CASE k \in s
        <5>1. Max(s) = k
          BY <1>1, <4>1, MaxUpTo
        <5>2. h[s] = Step(f[s \ {k}], k) /\ h[s \ {k}] = f[s \ {k}]
          BY <3>2, <4>1
        <5> HIDE DEF h
        <5> QED
          BY <4>1, <5>1, <5>2
      <4>2. CASE k \notin s
        <5>1. s \in SUBSET (1..(k - 1)) /\ s \ {Max(s)} \in SUBSET (1..(k - 1))
          BY <3>2, <4>2
        <5>2. h[s] = f[s] /\ h[s \ {Max(s)}] = f[s \ {Max(s)}]
          BY <4>2, <5>1
        <5>3. f[s] = IF s = {} THEN new ELSE Step(f[s \ {Max(s)}], Max(s))
          BY <3>1, <5>1
        <5> HIDE DEF h
        <5> QED
          BY <5>2, <5>3
      <4> QED
        BY <4>1, <4>2
    <3>4. h = Body(k, h)
      <4>1. h = [s \in SUBSET (1..k) |-> h[s]]
        OBVIOUS
      <4> HIDE DEF h
      <4> QED
        BY <3>3, <4>1
    <3> HIDE DEF h, Body
    <3> QED
      BY <3>0, <3>4
  <2>3. n \in S
    <3> HIDE DEF S, n
    <3>1. \A k \in 1..n : k - 1 \in S => k \in S
      BY <2>2
    <3>2. 0..n \subseteq S
      BY <1>1, <2>1, <3>1, UpTo, Zenon
    <3> QED
      BY <1>1, <3>2
  <2> QED
    BY <2>3
<1>4. read = Body(n, read)
  <2> HIDE DEF Body
  <2> QED
    BY <1>3
<1> HIDE DEF read
<1>5. read[1..0] = new
  BY <1>4
<1>6. ASSUME NEW k \in 1..n
      PROVE  read[1..k] = Step(read[1..(k - 1)], k)
  <2>1. 1..k \in SUBSET (1..n) /\ 1..k # {} /\ (1..k) \ {k} = 1..(k - 1) /\ k \in 1..k
    <3> HIDE DEF n
    <3> QED
      BY <1>1
  <2>2. Max(1..k) = k
    BY <1>1, <2>1, MaxUpTo
  <2> QED
    BY <1>1, <1>4, <2>1, <2>2
<1> QED
  BY <1>2, <1>5, <1>6 DEF Step, new

-----------------------------------------------------------------------------
(* A message that is read again.                                           *)

\* The values of a new message once k fields of m were read into it
ReadUpTo(m, k) ==
    [name \in Names |-> IF \E i \in 1..k : m.fields[i] = name THEN m.value[name] ELSE Default[name]]

\* The fields a message does not have are those of a new one.
OthersDefault(m) == \A name \in Names \ ToSet(m.fields) : m.value[name] = Default[name]

LEMMA ReadUpToFacts ==
    ASSUME NEW m \in Messages
    PROVE  /\ ReadUpTo(m, 0) = Default
           /\ OthersDefault(m) => ReadUpTo(m, Len(m.fields)) = m.value
           /\ \A k \in 1..Len(m.fields) :
                 ReadUpTo(m, k) =
                     [ReadUpTo(m, k - 1) EXCEPT ![m.fields[k]] = m.value[m.fields[k]]]
<1> DEFINE n == Len(m.fields)
<1>1. /\ n \in Nat /\ DOMAIN m.fields = 1..n
      /\ m.value \in [Names -> Values] /\ \A i \in 1..n : m.fields[i] \in Names
  BY DEF Messages
<1>2. ReadUpTo(m, 0) = Default
  <2>1. \A name \in Names : ReadUpTo(m, 0)[name] = Default[name]
    BY DEF ReadUpTo
  <2> QED
    BY <2>1, MessagesAssumption DEF ReadUpTo
<1>3. ASSUME OthersDefault(m) PROVE ReadUpTo(m, n) = m.value
  <2>1. ASSUME NEW name \in Names PROVE ReadUpTo(m, n)[name] = m.value[name]
    <3>1. name \in ToSet(m.fields) <=> \E i \in 1..n : m.fields[i] = name
      BY <1>1 DEF ToSet
    <3> HIDE DEF n
    <3> QED
      BY <1>3, <3>1 DEF ReadUpTo, OthersDefault
  <2> QED
    BY <1>1, <2>1 DEF ReadUpTo
<1>4. ASSUME NEW k \in 1..n
      PROVE  ReadUpTo(m, k) = [ReadUpTo(m, k - 1) EXCEPT ![m.fields[k]] = m.value[m.fields[k]]]
  <2>1. k \in 1..k /\ \A i : i \in 1..k <=> i = k \/ i \in 1..(k - 1)
    <3> HIDE DEF n
    <3> QED
      BY <1>1
  <2>2. m.fields[k] \in Names
    BY <1>1
  <2> DEFINE old == ReadUpTo(m, k - 1)
             new == [old EXCEPT ![m.fields[k]] = m.value[m.fields[k]]]
  <2>3. ASSUME NEW name \in Names PROVE ReadUpTo(m, k)[name] = new[name]
    <3>1. CASE name = m.fields[k]
      BY <2>1, <2>2, <3>1 DEF ReadUpTo
    <3>2. CASE name # m.fields[k]
      <4>1. (\E i \in 1..k : m.fields[i] = name) <=> \E i \in 1..(k - 1) : m.fields[i] = name
        BY <2>1, <3>2
      <4> QED
        BY <3>2, <4>1 DEF ReadUpTo
    <3> QED
      BY <3>1, <3>2
  <2> QED
    BY <2>3 DEF ReadUpTo
<1> QED
  BY <1>2, <1>3, <1>4

\* A field that is read: ValueField::deserialize.
LEMMA ReadFieldFacts ==
    ASSUME NEW m \in Messages, NEW k \in 1..Len(m.fields), NEW fields, NEW context, NEW after,
           Deserialize(Serializers[m.fields[k]], context, Kind[m.fields[k]], m.fields[k],
                       ReadUpTo(m, k - 1)[m.fields[k]])
               = [value |-> m.value[m.fields[k]], context |-> after]
    PROVE  ReadField([fields |-> fields, value |-> ReadUpTo(m, k - 1), context |-> context],
                     m.fields[k])
               = [fields |-> fields, value |-> ReadUpTo(m, k), context |-> after]
<1> DEFINE name == m.fields[k]
           old == ReadUpTo(m, k - 1)
           v == m.value[name]
           r == Deserialize(Serializers[name], context, Kind[name], name, old[name])
           M == [fields |-> fields, value |-> old, context |-> context]
<1>1. ReadUpTo(m, k) = [old EXCEPT ![name] = v]
  BY ReadUpToFacts
<1>2. r.value = v /\ r.context = after
  OBVIOUS
<1>3. M.value = old /\ M.context = context
  OBVIOUS
<1>4. ReadField(M, name) = [M EXCEPT !.value[name] = r.value, !.context = r.context]
  BY <1>3 DEF ReadField
<1> HIDE DEF r, name, old, v
<1>5. ReadField(M, name)
         = [fields |-> fields, value |-> [old EXCEPT ![name] = v], context |-> after]
  BY <1>2, <1>4
<1> QED
  BY <1>1, <1>5 DEF name, old, v

LEMMA ContextFacts ==
    ASSUME NEW tag, NEW x
    PROVE  Context(tag, x).tag = tag /\ ~Context(tag, x).thrown /\ Context(tag, x).io = x
<1>1. Context(tag, x).tag = tag /\ Context(tag, x).io = x
  BY DEF Context
<1>2. ~Context(tag, x).thrown
  BY DEF Context
<1> QED
  BY <1>1, <1>2

LEMMA ContextExcept ==
    ASSUME NEW tag, NEW x, NEW y
    PROVE  /\ [Context(tag, x) EXCEPT !.io = y] = Context(tag, y)
           /\ [Context(tag, x) EXCEPT !.thrown = TRUE] = [tag |-> tag, io |-> x, thrown |-> TRUE]
<1>1. \A b, c : /\ [[tag |-> tag, io |-> x, thrown |-> b] EXCEPT !.io = y]
                     = [tag |-> tag, io |-> y, thrown |-> b]
                /\ [[tag |-> tag, io |-> x, thrown |-> b] EXCEPT !.thrown = c]
                     = [tag |-> tag, io |-> x, thrown |-> c]
  OBVIOUS
<1> QED
  BY <1>1, Zenon DEF Context

\* What follows the same bytes is the same.
LEMMA SameRest ==
    ASSUME NEW v \in Seq(Bytes), NEW r \in Seq(Bytes), NEW s \in Seq(Bytes), v \o r = v \o s
    PROVE  r = s
<1>1. /\ Len(v \o r) = Len(v) + Len(r)
      /\ \A i \in 1..(Len(v) + Len(r)) :
            (v \o r)[i] = IF i <= Len(v) THEN v[i] ELSE r[i - Len(v)]
  BY ConcatProperties
<1>2. /\ Len(v \o s) = Len(v) + Len(s)
      /\ \A i \in 1..(Len(v) + Len(s)) :
            (v \o s)[i] = IF i <= Len(v) THEN v[i] ELSE s[i - Len(v)]
  BY ConcatProperties
<1>3. Len(v) \in Nat /\ Len(r) \in Nat /\ Len(s) \in Nat
  OBVIOUS
<1>4. Len(r) = Len(s)
  BY <1>1, <1>2, <1>3
<1>5. ASSUME NEW i \in 1..Len(r) PROVE r[i] = s[i]
  <2>1. /\ Len(v) + i \in 1..(Len(v) + Len(r)) /\ ~(Len(v) + i <= Len(v))
        /\ (Len(v) + i) - Len(v) = i
    BY <1>3
  <2> QED
    BY <1>1, <1>2, <1>4, <2>1
<1> QED
  BY <1>4, <1>5, SeqEqual

\* No value is longer than what is written of it.
LEMMA LengthFacts ==
    ASSUME NEW kind \in Kinds, NEW value, Fits(kind, value)
    PROVE  Len(value) <= Len(Written(kind, value))
<1>1. Len(value) \in Nat
  BY DEF Fits
<1>2. Len(Written(kind, value)) = Size(kind, value)
  BY WrittenFacts
<1>3. CASE kind = "object"
  <2>1. Len(value) > 0 /\ value \in Seq(Bytes)
    BY <1>3 DEF Fits, Bytes
  <2>2. Len(Front(value)) = Len(value) - 1
    BY <2>1, FrontAndLast
  <2>3. Size(kind, value) = 2 + Len(Front(value)) + 1
    BY <1>3 DEF Size, ObjectSize, SequenceSize, ContainerSize, NumberSize
  <2> QED
    BY <1>1, <1>2, <2>2, <2>3
<1>4. CASE kind \in {"number", "enum", "pair"}
  <2>1. kind = "pair" => Len(value) = 2 /\ Size(kind, value) = 2
    BY DEF Fits, Size, PairSize, NumberSize
  <2>2. kind # "pair" => Len(value) = 1 /\ Size(kind, value) = 1
    BY <1>4 DEF Fits, Size, NumberSize, EnumSize
  <2> QED
    BY <1>2, <2>1, <2>2
<1>5. CASE kind = "optional"
  <2>1. Size(kind, value) = 1 + Len(value)
    BY <1>5 DEF Size, OptionalSize, NumberSize
  <2> QED
    BY <1>1, <1>2, <2>1
<1>6. CASE kind \in {"sequence", "associative", "array"}
  <2>1. Size(kind, value) = 2 + Len(value)
    BY <1>6 DEF Size, SequenceSize, AssociativeSize, ArraySize, ContainerSize
  <2> QED
    BY <1>1, <1>2, <2>1
<1> QED
  BY <1>3, <1>4, <1>5, <1>6 DEF Kinds

\* A message is read from the bytes that were written of it, to the last.
LEMMA WireRead ==
    ASSUME NEW m, FittingMessage(m), OthersDefault(m), SerializedSize(m) < Base * Base,
           \A name \in Names : Kind[name] = "optional" => Default[name] = <<>>
    PROVE  LET wire == Context("binary", Serialized(m, Context("binary", <<>>)).io)
           IN  ReadFields(m.fields, wire)
                   = [fields |-> m.fields, value |-> m.value, context |-> Context("binary", <<>>)]
<1> DEFINE n == Len(m.fields)
           empty == Context("binary", <<>>)
           all == Serialized(m, empty).io
           W(k) == Written(Kind[m.fields[k]], m.value[m.fields[k]])
           Message(k, rest) ==
               [fields |-> m.fields, value |-> ReadUpTo(m, k), context |-> Context("binary", rest)]
<1>1. /\ m \in Messages /\ m.fields \in Seq(Names) /\ n \in Nat
      /\ \A i \in 1..n : m.fields[i] \in Names
      /\ \A name \in Names : Fits(Kind[name], m.value[name]) /\ Kind[name] \in Kinds
      /\ \A name \in Names : "binary" \in Serializers[name]
  BY ExchangeAssumption DEF FittingMessage, Messages
<1>2. PICK written :
         /\ written[1..0] = empty
         /\ \A k \in 1..n : written[1..k] = WriteField(written[1..(k - 1)], m, m.fields[k])
         /\ Serialized(m, empty) = written[1..n]
  BY <1>1, WrittenFold
<1>3. PICK read :
         /\ read[1..0] = Message(0, all)
         /\ \A k \in 1..n : read[1..k] = ReadField(read[1..(k - 1)], m.fields[k])
         /\ ReadFields(m.fields, Context("binary", all)) = read[1..n]
  <2>1. [fields |-> m.fields, value |-> Default, context |-> Context("binary", all)]
           = Message(0, all)
    BY <1>1, ReadUpToFacts
  <2> HIDE DEF all, Message
  <2> QED
    BY <1>1, <2>1, ReadFold
<1>4. \A k \in 1..n : W(k) \in Seq(Bytes)
  BY <1>1, WrittenFacts
<1> HIDE DEF W
\* The bytes after each field
<1>5. \A k \in 0..n : written[1..k] \in WireContexts
  <2> DEFINE S == {k \in 0..n : written[1..k] \in WireContexts}
  <2>1. 0 \in S
    <3>1. empty \in WireContexts /\ 0 \in 0..n
      BY <1>1 DEF Context, WireContexts
    <3> HIDE DEF empty
    <3> QED
      BY <1>2, <3>1
  <2>2. \A k \in 1..n : k - 1 \in S => k \in S
    <3> SUFFICES ASSUME NEW k \in 1..n, k - 1 \in S PROVE k \in S
      OBVIOUS
    <3>1. written[1..k] \in WireContexts
      <4>1. m.fields[k] \in Names /\ written[1..(k - 1)] \in WireContexts
        BY <1>1
      <4>2. WriteField(written[1..(k - 1)], m, m.fields[k]) \in WireContexts
        BY <4>1, WriteFieldFacts
      <4> QED
        BY <1>2, <4>2
    <3> QED
      BY <1>1, <3>1
  <2>3. 0..n \subseteq S
    <3> HIDE DEF S, n
    <3> QED
      BY <1>1, <2>1, <2>2, UpTo, Zenon
  <2> QED
    BY <2>3
<1>6. \A k \in 1..n : written[1..k].io = written[1..(k - 1)].io \o W(k)
  <2> SUFFICES ASSUME NEW k \in 1..n PROVE written[1..k].io = written[1..(k - 1)].io \o W(k)
    OBVIOUS
  <2>1. k - 1 \in 0..n
    BY <1>1
  <2>2. m.fields[k] \in Names /\ written[1..(k - 1)] \in WireContexts
    BY <1>1, <1>5, <2>1
  <2> DEFINE before == written[1..(k - 1)]
  <2>3. written[1..k] = [before EXCEPT !.io = before.io \o W(k)]
    <3>1. before \in WireContexts
      BY <2>2
    <3>2. written[1..k] = WriteField(before, m, m.fields[k])
      BY <1>2
    <3> HIDE DEF before
    <3> QED
      BY <2>2, <3>1, <3>2, WriteFieldBytes, Zenon DEF W
  <2> HIDE DEF before
  <2> QED
    BY <2>2, <2>3 DEF WireContexts, before
<1>7. \A k \in 0..n : written[1..k].io \in Seq(Bytes)
  BY <1>5 DEF WireContexts
<1>8. \A k \in 0..n : \E rest \in Seq(Bytes) : written[1..k].io \o rest = all
  <2> DEFINE S == {j \in 0..n : \E rest \in Seq(Bytes) : written[1..(n - j)].io \o rest = all}
  <2>1. 0 \in S
    <3>0. n - 0 = n /\ 0 \in 0..n /\ n \in 0..n
      BY <1>1
    <3>1. all = written[1..n].io /\ written[1..n].io \in Seq(Bytes)
      BY <1>2, <1>7, <3>0
    <3>2. <<>> \in Seq(Bytes) /\ written[1..n].io \o <<>> = all
      BY <3>1
    <3> HIDE DEF all, n
    <3> QED
      BY <3>0, <3>2
  <2>2. \A j \in 1..n : j - 1 \in S => j \in S
    <3> SUFFICES ASSUME NEW j \in 1..n, j - 1 \in S PROVE j \in S
      OBVIOUS
    <3> DEFINE k == n - (j - 1)
               before == written[1..(k - 1)].io
               one == W(k)
    <3>1. k \in 1..n /\ k - 1 = n - j /\ k - 1 \in 0..n /\ k \in 0..n /\ j \in 0..n
      <4> HIDE DEF n
      <4> QED
        BY <1>1
    <3>2. PICK rest \in Seq(Bytes) : written[1..k].io \o rest = all
      OBVIOUS
    <3> HIDE DEF k, all
    <3>3. before \in Seq(Bytes) /\ one \in Seq(Bytes) /\ written[1..k].io = before \o one
      BY <1>4, <1>6, <1>7, <3>1
    <3> HIDE DEF before, one
    <3>4. (before \o one) \o rest = before \o (one \o rest) /\ one \o rest \in Seq(Bytes)
      BY <3>3, Reassociated, Zenon
    <3>5. before \o (one \o rest) = all
      BY <3>2, <3>3, <3>4
    <3> HIDE DEF n
    <3> QED
      BY <3>1, <3>4, <3>5 DEF before
  <2>3. 0..n \subseteq S
    <3> HIDE DEF S, n
    <3> QED
      BY <1>1, <2>1, <2>2, UpTo, Zenon
  <2>4. \A k \in 0..n : n - k \in 0..n /\ n - (n - k) = k
    BY <1>1
  <2> HIDE DEF all, n
  <2> QED
    BY <2>3, <2>4
\* What is read of each field
<1>9. all \in Seq(Bytes) /\ all = written[1..n].io /\ Len(all) < Base * Base
  <2>1. n \in 0..n
    BY <1>1
  <2>2. Len(all) = SerializedSize(m)
    BY SerializedFacts
  <2> QED
    BY <1>2, <1>7, <2>1, <2>2
<1>10. ASSUME NEW k \in 1..n, NEW rest \in Seq(Bytes),
              W(k) \o rest \in Seq(Bytes), Len(W(k)) < Base * Base
       PROVE  ReadField(Message(k - 1, W(k) \o rest), m.fields[k]) = Message(k, rest)
  <2> DEFINE name == m.fields[k]
             value == m.value[name]
             old == ReadUpTo(m, k - 1)[name]
             before == Context("binary", W(k) \o rest)
             after == Context("binary", rest)
  <2>1. name \in Names /\ Kind[name] \in Kinds /\ Fits(Kind[name], value)
        /\ "binary" \in Serializers[name]
    BY <1>1
  <2>2. Len(value) < Base * Base
    <3>1. Len(value) <= Len(W(k)) /\ Len(value) \in Nat /\ Len(W(k)) \in Nat
      BY <1>4, <2>1, LengthFacts DEF W, Fits
    <3>2. Base * Base \in Nat
      BY SerializerAssumption
    <3> HIDE DEF value
    <3> QED
      BY <1>10, <3>1, <3>2
  <2>3. Kind[name] = "optional" /\ value = <<>> => old = <<>>
    BY <2>1 DEF ReadUpTo
  <2>4. Read(Kind[name], old, W(k) \o rest) = [value |-> value, rest |-> rest]
    BY <2>1, <2>2, <2>3, ReadFacts DEF W
  <2>5. Deserialize(Serializers[name], before, Kind[name], name, old)
           = [value |-> value, context |-> after]
    <3>1. before.tag = "binary" /\ ~before.thrown /\ before.io = W(k) \o rest
          /\ [before EXCEPT !.io = rest] = after
      <4>1. before.tag = "binary" /\ ~before.thrown /\ before.io = W(k) \o rest
        BY ContextFacts, Zenon
      <4>2. [before EXCEPT !.io = rest] = after
        BY ContextExcept
      <4> QED
        BY <4>1, <4>2
    <3>2. Deserialize(Serializers[name], before, Kind[name], name, old)
             = DeserializeUsing(before, Kind[name], name, old)
      BY <2>1, <3>1, Zenon DEF Deserialize, SupportedBy, HoldsStreamOf
    <3>3. DeserializeUsing(before, Kind[name], name, old)
             = LET r == Read(Kind[name], old, before.io)
               IN  [value |-> r.value, context |-> [before EXCEPT !.io = r.rest]]
      BY <3>1 DEF DeserializeUsing
    <3> HIDE DEF before, after, name, value, old
    <3> QED
      BY <2>4, <3>1, <3>2, <3>3
  <2> HIDE DEF before, after
  <2>6. ReadField([fields |-> m.fields, value |-> ReadUpTo(m, k - 1), context |-> before], name)
           = [fields |-> m.fields, value |-> ReadUpTo(m, k), context |-> after]
    <3>1. m \in Messages /\ k \in 1..Len(m.fields)
      BY <1>1
    <3> HIDE DEF n
    <3> QED
      BY <2>5, <3>1, ReadFieldFacts
  <2> QED
    BY <2>6 DEF before, after
<1>11. \A k \in 0..n : \E rest \in Seq(Bytes) :
          read[1..k] = Message(k, rest) /\ written[1..k].io \o rest = all
  <2> DEFINE S == {k \in 0..n : \E rest \in Seq(Bytes) :
                      read[1..k] = Message(k, rest) /\ written[1..k].io \o rest = all}
  <2>1. 0 \in S
    <3>1. written[1..0].io = <<>> /\ 0 \in 0..n
      BY <1>1, <1>2 DEF Context
    <3>2. <<>> \o all = all
      BY <1>9
    <3> HIDE DEF all, Message
    <3> QED
      BY <1>3, <1>9, <3>1, <3>2
  <2>2. ASSUME NEW k \in 1..n, k - 1 \in S PROVE k \in S
    <3> DEFINE before == written[1..(k - 1)].io
               one == W(k)
    <3>1. k \in 0..n /\ k - 1 \in 0..n
      <4> HIDE DEF n
      <4> QED
        BY <1>1
    <3>2. PICK r \in Seq(Bytes) : read[1..(k - 1)] = Message(k - 1, r) /\ before \o r = all
      BY <2>2
    <3>3. PICK rest \in Seq(Bytes) : written[1..k].io \o rest = all
      BY <1>8, <3>1
    <3>4. before \in Seq(Bytes) /\ one \in Seq(Bytes) /\ written[1..k].io = before \o one
      BY <1>4, <1>6, <1>7, <3>1
    <3> HIDE DEF all, before, one, Message
    <3>5. (before \o one) \o rest = before \o (one \o rest) /\ one \o rest \in Seq(Bytes)
      BY <3>4, Reassociated, Zenon
    <3>6. r = one \o rest
      <4>1. before \o r = before \o (one \o rest)
        BY <3>2, <3>3, <3>4, <3>5
      <4> QED
        BY <3>4, <3>5, <4>1, SameRest
    <3>7. Len(one) < Base * Base
      <4>1. Len(all) = Len(before) + Len(r) /\ Len(r) = Len(one) + Len(rest)
        BY <3>2, <3>4, <3>6, ConcatProperties
      <4>2. Len(before) \in Nat /\ Len(one) \in Nat /\ Len(rest) \in Nat
        BY <3>4
      <4>3. Base * Base \in Nat
        BY SerializerAssumption
      <4> QED
        BY <1>9, <4>1, <4>2, <4>3
    <3>8. read[1..k] = Message(k, rest)
      <4>1. read[1..k] = ReadField(read[1..(k - 1)], m.fields[k])
        BY <1>3
      <4> QED
        BY <1>10, <3>2, <3>5, <3>6, <3>7, <4>1 DEF one
    <3> HIDE DEF n
    <3> QED
      BY <3>1, <3>3, <3>8
  <2>3. 0..n \subseteq S
    <3> HIDE DEF S, n
    <3> QED
      BY <1>1, <2>1, <2>2, UpTo, Zenon
  <2> HIDE DEF all, Message
  <2> QED
    BY <2>3
<1>12. read[1..n] = Message(n, <<>>)
  <2>1. n \in 0..n
    BY <1>1
  <2>2. PICK rest \in Seq(Bytes) : read[1..n] = Message(n, rest) /\ written[1..n].io \o rest = all
    BY <1>11, <2>1
  <2> HIDE DEF all, Message
  <2>3. rest = <<>>
    BY <1>9, <2>2, ConcatSimplifications!idRight
  <2> QED
    BY <2>2, <2>3
<1>13. ReadUpTo(m, n) = m.value
  BY <1>1, ReadUpToFacts
<1> HIDE DEF all
<1> QED
  BY <1>3, <1>12, <1>13 DEF all

-----------------------------------------------------------------------------
(* The same of a document.                                                 *)

\* A JSON value that was given a member
GivenMember(new, json, name, value) ==
    /\ name \in DOMAIN new /\ new[name] = value
    /\ \A n \in DOMAIN json : n # name => n \in DOMAIN new /\ new[n] = json[n]

LEMMA WithMemberFacts ==
    ASSUME NEW json, NEW name, NEW value
    PROVE  GivenMember(WithMember(json, name, value), json, name, value)
  BY DEF WithMember, GivenMember

\* The field of that name is found in the document and has the value.
Holds(json, kind, name, value) == Gettable(kind, json, name) /\ Get(kind, json, name) = value

\* JsonSerializer finds again what it has put into a document, and leaves the rest.
LEMMA PutFacts ==
    ASSUME NEW kind \in {"number", "sequence", "object"}, NEW value, Fits(kind, value),
           NEW json, NEW name
    PROVE  /\ Holds(Put(kind, json, name, value), kind, name, value)
           /\ \A n \in DOMAIN json :
                 n # name => /\ n \in DOMAIN Put(kind, json, name, value)
                             /\ Put(kind, json, name, value)[n] = json[n]
<1>1. value \in Seq(Bytes) /\ Len(value) \in Nat
  BY DEF Fits, Bytes
<1>2. \A b \in Bytes : b % Base = b
  BY SerializerAssumption DEF Bytes
<1>3. CASE kind = "number"
  <2>1. Len(value) = 1
    BY <1>3 DEF Fits
  <2>2. value[1] % Base = value[1]
    BY <1>1, <1>2, <2>1
  <2>3. <<value[1]>> = value
    BY <1>1, <2>1
  <2> DEFINE new == WithMember(json, name, value)
  <2>4. GivenMember(new, json, name, value)
    BY WithMemberFacts
  <2>5. Put(kind, json, name, value) = new
    BY <1>3 DEF Put, PutNumber
  <2> HIDE DEF new
  <2>6. Holds(new, kind, name, value)
    BY <1>3, <2>2, <2>3, <2>4 DEF GivenMember, Holds, Gettable, IsMember, Get, GetNumber
  <2> QED
    BY <2>4, <2>5, <2>6 DEF GivenMember
<1>4. CASE kind = "sequence"
  <2> DEFINE new == WithMember(json, name, value)
  <2>4. GivenMember(new, json, name, value)
    BY WithMemberFacts
  <2>5. Put(kind, json, name, value) = new
    BY <1>4 DEF Put, PutString
  <2> HIDE DEF new
  <2>6. Holds(new, kind, name, value)
    BY <1>4, <2>4 DEF GivenMember, Holds, Gettable, IsMember, Get, GetString
  <2> QED
    BY <2>4, <2>5, <2>6 DEF GivenMember
<1>5. CASE kind = "object"
  <2> DEFINE old == IF IsMember(json, name) THEN json[name] ELSE <<>>
             front == Front(value)
             last == <<Last(value)>>
             named == WithMember(old, "username", front)
             info == WithMember(named, "age", last)
             new == WithMember(json, name, info)
  <2>1. Len(value) > 0
    BY <1>5 DEF Fits
  <2>2. front \o last = value /\ Last(value) \in Bytes
    BY <1>1, <2>1, FrontAndLast
  <2>3. <<last[1] % Base>> = last
    BY <1>2, <2>2
  <2>4. Put(kind, json, name, value) = new
    BY <1>5 DEF Put, PutObject, PutUserInfo, PutNumber, PutString
  <2> HIDE DEF old, front, last
  <2>5. GivenMember(named, old, "username", front)
    BY WithMemberFacts
  <2> HIDE DEF named
  <2>6. /\ info["username"] = front /\ info["age"] = last
        /\ "username" \in DOMAIN info /\ "age" \in DOMAIN info
    <3>1. GivenMember(info, named, "age", last)
      BY WithMemberFacts
    <3> QED
      BY <2>5, <3>1 DEF GivenMember
  <2> HIDE DEF info
  <2>7. GivenMember(new, json, name, info)
    BY WithMemberFacts
  <2> HIDE DEF new
  <2>8. Gettable(kind, new, name)
    BY <2>6, <2>7 DEF GivenMember, Gettable, IsMember
  <2>9. Get(kind, new, name) = value
    BY <1>5, <2>2, <2>3, <2>6, <2>7
    DEF GivenMember, Get, GetObject, GetUserInfo, GetString, GetNumber
  <2> QED
    BY <2>4, <2>7, <2>8, <2>9 DEF GivenMember, Holds
<1> QED
  BY <1>3, <1>4, <1>5

\* What a field of another name has is found as before.
LEMMA HoldsStill ==
    ASSUME NEW kind, NEW n, NEW value, NEW json, Holds(json, kind, n, value),
           NEW new, n \in DOMAIN new, new[n] = json[n],
           kind \in {"number", "sequence", "object"}
    PROVE  Holds(new, kind, n, value)
  BY DEF Holds, Gettable, IsMember, Get, GetNumber, GetString, GetObject

\* A field of m is found in a document.
Found(json, m, name) ==
    "json" \in Serializers[name] /\ Holds(json, Kind[name], name, m.value[name])

\* Every field is found in the document it was written to, unless that has thrown.
LEMMA DocumentWritten ==
    ASSUME NEW m, FittingMessage(m), NEW json, ~Serialized(m, Context("json", json)).thrown
    PROVE  \A i \in 1..Len(m.fields) :
              Found(Serialized(m, Context("json", json)).io, m, m.fields[i])
<1> DEFINE n == Len(m.fields)
           all == Serialized(m, Context("json", json))
           Thrown(x) == [tag |-> "json", io |-> x, thrown |-> TRUE]
           FoundTo(x, k) == \A i \in 1..k : Found(x, m, m.fields[i])
<1>1. /\ m.fields \in Seq(Names) /\ n \in Nat /\ \A i \in 1..n : m.fields[i] \in Names
      /\ \A name \in Names : Fits(Kind[name], m.value[name])
      /\ \A name \in Names :
            "json" \in Serializers[name] => Kind[name] \in {"number", "sequence", "object"}
  BY ExchangeAssumption DEF FittingMessage, Messages
<1>2. PICK written :
         /\ written[1..0] = Context("json", json)
         /\ \A k \in 1..n : written[1..k] = WriteField(written[1..(k - 1)], m, m.fields[k])
         /\ all = written[1..n]
  BY <1>1, WrittenFold
<1>3. ASSUME NEW k \in 1..n, NEW x
      PROVE  /\ \E y : WriteField(Thrown(x), m, m.fields[k]) = Thrown(y)
             /\ FoundTo(x, k - 1) =>
                   \E y : \/ WriteField(Context("json", x), m, m.fields[k]) = Thrown(y)
                          \/ /\ WriteField(Context("json", x), m, m.fields[k]) = Context("json", y)
                             /\ FoundTo(y, k)
  <2> DEFINE name == m.fields[k]
             kind == Kind[name]
             value == m.value[name]
             y == Put(kind, x, name, value)
             before == Context("json", x)
  <2>0. name \in Names
    BY <1>1
  <2>1. Thrown(x).thrown /\ [Thrown(x) EXCEPT !.thrown = TRUE] = Thrown(x)
    <3>1. \A b, c : [[tag |-> "json", io |-> x, thrown |-> b] EXCEPT !.thrown = c]
                      = [tag |-> "json", io |-> x, thrown |-> c]
      OBVIOUS
    <3>2. Thrown(x).thrown
      OBVIOUS
    <3> QED
      BY <3>1, <3>2, Zenon
  <2>2. WriteField(Thrown(x), m, name) = Thrown(x)
    BY <2>1, Zenon DEF WriteField, Serialize
  <2>3. /\ before.tag = "json" /\ ~before.thrown /\ before.io = x
        /\ [before EXCEPT !.thrown = TRUE] = Thrown(x)
        /\ [before EXCEPT !.io = y] = Context("json", y)
    <3>1. before.tag = "json" /\ ~before.thrown /\ before.io = x
      BY ContextFacts, Zenon
    <3>2. /\ [before EXCEPT !.thrown = TRUE] = Thrown(x)
          /\ [before EXCEPT !.io = y] = Context("json", y)
      BY ContextExcept
    <3> QED
      BY <3>1, <3>2
  <2>4. CASE "json" \notin Serializers[name]
    <3>1. WriteField(before, m, name) = Thrown(x)
      BY <2>3, <2>4 DEF WriteField, Serialize, SupportedBy, HoldsStreamOf
    <3> QED
      BY <2>2, <3>1
  <2>5. CASE "json" \in Serializers[name]
    <3>1. kind \in {"number", "sequence", "object"} /\ Fits(kind, value)
      BY <1>1, <2>0, <2>5
    <3>2. WriteField(before, m, name) = Context("json", y)
      <4>1. WriteField(before, m, name) = SerializeUsing(before, kind, name, value)
        BY <2>3, <2>5, Zenon DEF WriteField, Serialize, SupportedBy, HoldsStreamOf
      <4>2. SerializeUsing(before, kind, name, value) = [before EXCEPT !.io = y]
        BY <2>3 DEF SerializeUsing
      <4> QED
        BY <2>3, <4>1, <4>2
    <3>3. /\ Holds(y, kind, name, value)
          /\ \A other \in DOMAIN x : other # name => other \in DOMAIN y /\ y[other] = x[other]
      BY <3>1, PutFacts
    <3> HIDE DEF y
    <3>4. ASSUME FoundTo(x, k - 1), NEW i \in 1..k
          PROVE  Found(y, m, m.fields[i])
      <4>1. CASE m.fields[i] = name
        BY <2>5, <3>3, <4>1 DEF Found
      <4>2. CASE m.fields[i] # name
        <5> DEFINE other == m.fields[i]
        <5>1. i \in 1..(k - 1) /\ i \in 1..n
          <6>1. i # k
            BY <4>2
          <6> HIDE DEF n
          <6> QED
            BY <1>1, <6>1
        <5>2. other \in Names /\ "json" \in Serializers[other]
              /\ Holds(x, Kind[other], other, m.value[other])
          BY <1>1, <3>4, <5>1 DEF Found
        <5>3. Kind[other] \in {"number", "sequence", "object"} /\ other \in DOMAIN x
          BY <1>1, <5>2 DEF Holds, Gettable, IsMember
        <5>4. other \in DOMAIN y /\ y[other] = x[other]
          BY <3>3, <4>2, <5>3
        <5> HIDE DEF other
        <5>5. Holds(y, Kind[other], other, m.value[other])
          BY <5>2, <5>3, <5>4, HoldsStill
        <5> QED
          BY <5>2, <5>5 DEF other, Found
      <4> QED
        BY <4>1, <4>2
    <3> HIDE DEF Thrown, before
    <3>5. FoundTo(x, k - 1) => FoundTo(y, k)
      BY <3>4
    <3> QED
      BY <2>2, <3>2, <3>5 DEF before
  <2> QED
    BY <2>4, <2>5
<1> HIDE DEF Thrown, FoundTo
<1>4. \A k \in 0..n : \E x : \/ written[1..k] = Thrown(x)
                            \/ /\ written[1..k] = Context("json", x)
                               /\ FoundTo(x, k)
  <2> DEFINE S == {k \in 0..n : \E x : \/ written[1..k] = Thrown(x)
                                       \/ /\ written[1..k] = Context("json", x)
                                          /\ FoundTo(x, k)}
  <2>1. 0 \in S
    <3>1. 0 \in 0..n /\ \A x : FoundTo(x, 0)
      BY <1>1 DEF FoundTo
    <3> HIDE DEF n
    <3> QED
      BY <1>2, <3>1
  <2>2. ASSUME NEW k \in 1..n, k - 1 \in S PROVE k \in S
    <3>1. k \in 0..n
      BY <1>1
    <3>2. PICK x : \/ written[1..(k - 1)] = Thrown(x)
                   \/ /\ written[1..(k - 1)] = Context("json", x)
                      /\ FoundTo(x, k - 1)
      BY <2>2
    <3>3. written[1..k] = WriteField(written[1..(k - 1)], m, m.fields[k])
      BY <1>2
    <3>4. CASE written[1..(k - 1)] = Thrown(x)
      BY <1>3, <3>1, <3>3, <3>4
    <3>5. CASE /\ written[1..(k - 1)] = Context("json", x)
               /\ FoundTo(x, k - 1)
      <4>1. PICK y : \/ WriteField(Context("json", x), m, m.fields[k]) = Thrown(y)
                     \/ /\ WriteField(Context("json", x), m, m.fields[k]) = Context("json", y)
                        /\ FoundTo(y, k)
        BY <1>3, <3>5
      <4>2. \/ written[1..k] = Thrown(y)
            \/ written[1..k] = Context("json", y) /\ FoundTo(y, k)
        BY <3>3, <3>5, <4>1
      <4> HIDE DEF n
      <4> QED
        BY <3>1, <4>2
    <3> QED
      BY <3>2, <3>4, <3>5
  <2>3. 0..n \subseteq S
    <3> HIDE DEF S, n
    <3> QED
      BY <1>1, <2>1, <2>2, UpTo, Zenon
  <2> QED
    BY <2>3
<1>5. FoundTo(all.io, n)
  <2>1. n \in 0..n
    BY <1>1
  <2>2. PICK x : \/ all = Thrown(x)
                 \/ all = Context("json", x) /\ FoundTo(x, n)
    BY <1>2, <1>4, <2>1
  <2>3. all # Thrown(x)
    <3>1. Thrown(x).thrown
      BY DEF Thrown
    <3> HIDE DEF all
    <3>2. ~all.thrown
      BY DEF all
    <3> QED
      BY <3>1, <3>2, Zenon
  <2>4. Context("json", x).io = x
    BY DEF Context
  <2> HIDE DEF all
  <2> QED
    BY <2>2, <2>3, <2>4
<1> QED
  BY <1>5 DEF FoundTo

\* A message is read from a document that has all its fields.
LEMMA DocumentRead ==
    ASSUME NEW m \in Messages, OthersDefault(m), NEW json,
           \A i \in 1..Len(m.fields) : Found(json, m, m.fields[i])
    PROVE  ReadFields(m.fields, Context("json", json))
               = [fields |-> m.fields, value |-> m.value, context |-> Context("json", json)]
<1> DEFINE n == Len(m.fields)
           Message(k) == [fields |-> m.fields, value |-> ReadUpTo(m, k),
                          context |-> Context("json", json)]
<1>1. m.fields \in Seq(Names) /\ n \in Nat
  BY DEF Messages
<1>2. PICK read :
         /\ read[1..0] = Message(0)
         /\ \A k \in 1..n : read[1..k] = ReadField(read[1..(k - 1)], m.fields[k])
         /\ ReadFields(m.fields, Context("json", json)) = read[1..n]
  <2>1. [fields |-> m.fields, value |-> Default, context |-> Context("json", json)] = Message(0)
    BY ReadUpToFacts
  <2> HIDE DEF Message
  <2> QED
    BY <1>1, <2>1, ReadFold
<1>3. ASSUME NEW k \in 1..n PROVE ReadField(Message(k - 1), m.fields[k]) = Message(k)
  <2> DEFINE name == m.fields[k]
             value == m.value[name]
             old == ReadUpTo(m, k - 1)[name]
             context == Context("json", json)
  <2>1. /\ "json" \in Serializers[name]
        /\ Gettable(Kind[name], json, name) /\ Get(Kind[name], json, name) = value
    BY DEF Found, Holds
  <2>2. context.tag = "json" /\ ~context.thrown /\ context.io = json
    <3>1. /\ Context("json", json).tag = "json" /\ Context("json", json).io = json
          /\ ~Context("json", json).thrown
      BY ContextFacts, Zenon
    <3> QED
      BY <3>1, Zenon
  <2> HIDE DEF context
  <2>3. Deserialize(Serializers[name], context, Kind[name], name, old)
           = DeserializeUsing(context, Kind[name], name, old)
    BY <2>1, <2>2, Zenon DEF Deserialize, SupportedBy, HoldsStreamOf
  <2>4. DeserializeUsing(context, Kind[name], name, old) = [value |-> value, context |-> context]
    BY <2>1, <2>2 DEF DeserializeUsing
  <2>5. m \in Messages /\ k \in 1..Len(m.fields)
    BY <1>1
  <2>6. ReadField([fields |-> m.fields, value |-> ReadUpTo(m, k - 1), context |-> context], name)
           = [fields |-> m.fields, value |-> ReadUpTo(m, k), context |-> context]
    BY <2>3, <2>4, <2>5, ReadFieldFacts
  <2> QED
    BY <2>6 DEF context
<1>4. \A k \in 0..n : read[1..k] = Message(k)
  <2> DEFINE S == {k \in 0..n : read[1..k] = Message(k)}
  <2>1. 0 \in S
    BY <1>1, <1>2
  <2>2. \A k \in 1..n : k - 1 \in S => k \in S
    <3> SUFFICES ASSUME NEW k \in 1..n, k - 1 \in S PROVE k \in S
      OBVIOUS
    <3>1. k \in 0..n
      BY <1>1
    <3> HIDE DEF Message
    <3> QED
      BY <1>2, <1>3, <3>1
  <2>3. 0..n \subseteq S
    <3> HIDE DEF S, n
    <3> QED
      BY <1>1, <2>1, <2>2, UpTo, Zenon
  <2> QED
    BY <2>3
<1>5. read[1..n] = Message(n) /\ ReadUpTo(m, n) = m.value
  <2>1. n \in 0..n
    BY <1>1
  <2>2. ReadUpTo(m, n) = m.value
    BY <1>1, ReadUpToFacts
  <2> HIDE DEF Message
  <2> QED
    BY <1>4, <2>1, <2>2
<1> QED
  BY <1>2, <1>5

-----------------------------------------------------------------------------
(* The frame, the document and the message that is read of either.         *)

\* Neither copying nor creating loses a field or adds one.
LEMMA SameFields ==
    ASSUME NEW t \in Types, NEW from \in BOOLEAN, NEW odd \in BOOLEAN
    PROVE  ToSet(LaidOut(t, from, odd)) = ToSet(Fields[t])
<1>1. ASSUME NEW list \in Seq(Names) \ {<<>>}
      PROVE  ToSet(Copied(list)) = ToSet(list) /\ Copied(list) \in Seq(Names) \ {<<>>}
  <2> DEFINE n == Len(list)
  <2>1. n \in Nat /\ DOMAIN list = 1..n
    OBVIOUS
  <2>2. Copied(list) = [i \in 1..n |-> list[(n - i) + 1]]
    BY DEF Copied, Reverse
  <2>3. \A i \in 1..n : (n - i) + 1 \in 1..n /\ (n - ((n - i) + 1)) + 1 = i
    <3> HIDE DEF n
    <3> QED
      BY <2>1
  <2> HIDE DEF n
  <2>4. /\ ToSet(Copied(list)) = {list[(n - i) + 1] : i \in 1..n}
        /\ ToSet(list) = {list[i] : i \in 1..n}
    BY <2>1, <2>2 DEF ToSet
  <2>5. \A i \in 1..n : list[i] \in {list[(n - j) + 1] : j \in 1..n}
    BY <2>3
  <2>6. ToSet(Copied(list)) = ToSet(list)
    BY <2>3, <2>4, <2>5
  <2> QED
    BY <2>6, CopiedTwice
<1>2. ASSUME NEW list \in Seq(Names) \ {<<>>}
      PROVE  ToSet(AddAll(list)) = ToSet(list) /\ AddAll(list) \in Seq(Names) \ {<<>>}
  <2> DEFINE n == Len(list)
             all == AddAll(list)
  <2>1. n \in Nat /\ n > 0 /\ DOMAIN list = 1..n
    OBVIOUS
  <2>2. Tail(list) \in Seq(Names) /\ Len(Tail(list)) = n - 1
        /\ \A i \in 1..(n - 1) : Tail(list)[i] = list[i + 1]
    OBVIOUS
  <2>3. /\ DOMAIN all = 1..n
        /\ \A i \in 1..n : all[i] = IF i = n THEN list[1] ELSE list[i + 1]
    <3> DEFINE tail == Tail(list)
               head == Head(list)
    <3>1. head \in Names /\ head = list[1]
      BY <2>1
    <3>2. tail \in Seq(Names) /\ Len(tail) = n - 1 /\ \A i \in 1..(n - 1) : tail[i] = list[i + 1]
      BY <2>2
    <3> HIDE DEF tail, head, n
    <3>3. /\ Append(tail, head) \in Seq(Names) /\ Len(Append(tail, head)) = n
          /\ \A i \in 1..(n - 1) : Append(tail, head)[i] = tail[i]
          /\ Append(tail, head)[n] = head
      BY <2>1, <3>1, <3>2
    <3>4. all = Append(tail, head)
      BY DEF AddAll, tail, head
    <3> QED
      BY <2>1, <3>1, <3>2, <3>3, <3>4
  <2> HIDE DEF n, all
  <2>4. \A i \in 1..n : all[i] \in {list[j] : j \in 1..n}
    BY <2>1, <2>3
  <2>5. \A j \in 1..n : list[j] \in {all[i] : i \in 1..n}
    <3> SUFFICES ASSUME NEW j \in 1..n PROVE list[j] \in {all[i] : i \in 1..n}
      OBVIOUS
    <3>1. CASE j = 1
      BY <2>1, <2>3, <3>1
    <3>2. CASE j # 1
      <4>1. j - 1 \in 1..n /\ j - 1 # n /\ (j - 1) + 1 = j
        BY <2>1, <3>2
      <4> QED
        BY <2>3, <4>1
    <3> QED
      BY <3>1, <3>2
  <2>6. ToSet(all) = ToSet(list)
    BY <2>1, <2>3, <2>4, <2>5 DEF ToSet
  <2> QED
    BY <2>6, AddAllType DEF all
<1>3. Fields[t] \in Seq(Names) \ {<<>>}
  BY MessagesAssumption
<1> DEFINE D == DescribedAs(t, from).fields
<1>4. ToSet(D) = ToSet(Fields[t]) /\ D \in Seq(Names) \ {<<>>}
  BY <1>1, <1>2, <1>3 DEF DescribedAs
<1> HIDE DEF D
<1> QED
  BY <1>1, <1>2, <1>4 DEF LaidOut, D

\* What is sent has the fields of its type in the order it was created and cloned in,
\* and nothing in what is not among them.
Laid(m) == OthersDefault(m) /\ m.fields = LaidOut(m.type, m.from, m.odd)

Kept ==
    /\ message # NoMessage => OthersDefault(message)
    /\ frame # NoFrame => Laid(frame.sent)
    /\ document # NoDocument =>
          /\ FittingMessage(document.sent) /\ Laid(document.sent)
          /\ \E json : document.context = Serialized(document.sent, Context("json", json))

LEMMA KeptStep == LayoutByCopies /\ Framed /\ Kept /\ [Next]_vars => Kept'
<1> SUFFICES ASSUME LayoutByCopies, Framed, Kept, [Next]_vars PROVE Kept'
  OBVIOUS
<1>1. ASSUME UNCHANGED <<frame, document>>, message' # NoMessage => OthersDefault(message')
      PROVE  Kept'
  BY <1>1 DEF Kept
<1>2. ASSUME NEW p \in Factories, NEW t \in Types, CreateMessage(p, t),
             UNCHANGED <<frame, document>>
      PROVE  Kept'
  BY <1>1, <1>2 DEF CreateMessage, OthersDefault
<1>3. ASSUME NEW name \in Names, NEW value \in Data[name], SetField(name, value),
             UNCHANGED <<frame, document>>
      PROVE  Kept'
  <2>1. /\ message \in Messages /\ OthersDefault(message)
        /\ name \in ToSet(message.fields) /\ message' = [message EXCEPT !.value[name] = value]
    BY <1>3 DEF SetField, HasField, Assigned, Kept, LayoutByCopies
  <2>2. /\ message'.fields = message.fields
        /\ \A other \in Names : other # name => message'.value[other] = message.value[other]
    BY <2>1 DEF Messages
  <2> QED
    BY <1>1, <1>3, <2>1, <2>2 DEF OthersDefault
<1>4. ASSUME CloneMessage, UNCHANGED <<frame, document>>
      PROVE  Kept'
  <2>1. /\ message \in Messages /\ OthersDefault(message)
        /\ message.fields = LaidOut(message.type, message.from, message.odd)
        /\ message' = [message EXCEPT !.fields = Copied(message.fields), !.odd = ~message.odd]
    BY <1>4 DEF CloneMessage, Kept, LayoutByCopies
  <2>2. message'.value = message.value /\ message'.fields = Copied(message.fields)
    BY <2>1 DEF Messages
  <2>3. ToSet(message'.fields) = ToSet(message.fields)
    <3>1. message.type \in Types /\ message.from \in BOOLEAN /\ message.odd \in BOOLEAN
      BY <2>1 DEF Messages
    <3>2. \/ message.odd = TRUE /\ message'.fields = LaidOut(message.type, message.from, FALSE)
          \/ message.odd = FALSE /\ message'.fields = LaidOut(message.type, message.from, TRUE)
      BY <2>1, <2>2, <3>1, LaidOutType
    <3> QED
      BY <2>1, <3>1, <3>2, SameFields
  <2> QED
    BY <1>1, <1>4, <2>1, <2>2, <2>3 DEF OthersDefault
<1>5. CASE WriteMessage
  <2>1. frame'.sent = message /\ message' = NoMessage /\ Laid(message) /\ UNCHANGED document
    BY <1>5 DEF WriteMessage, Kept, LayoutByCopies, Laid
  <2> QED
    BY <2>1 DEF Kept
<1>6. ASSUME NEW json \in Documents, WriteDocument(json) PROVE Kept'
  <2>1. /\ document'.sent = message /\ message' = NoMessage /\ Laid(message)
        /\ FittingMessage(message) /\ UNCHANGED frame
        /\ document'.context = Serialized(message, Context("json", json))
    BY <1>6 DEF WriteDocument, Kept, Framed, LayoutByCopies, Laid
  <2> QED
    BY <2>1 DEF Kept
<1>7. ASSUME UNCHANGED <<frame, document, message>> PROVE Kept'
  BY <1>7 DEF Kept
<1> QED
  BY <1>2, <1>3, <1>4, <1>5, <1>6, <1>7
  DEF Next, MessagesNext, AddDescriptor, AddCopiedDescriptor, CopyFactory, SwapFactories,
      CreateMessageFromStream, RestoreMessage, DispatchMessage, vars, messageVars

LEMMA KeptInvariant == Spec => []Kept
<1>1. Init => Kept
  BY DEF Init, MessagesInit, Kept
<1> QED
  BY <1>1, KeptStep, LayoutInvariant, FramedInvariant, PTL DEF Spec

\* A message that was cloned an even number of times is read from its frame as it was
\* sent, and to the last byte, by a factory whose descriptors were copied as often as
\* the sender's, but for an even number: what ValueField::deserialize makes of the bytes
\* that ValueField::serialize has written is the same value, of whichever kind.  From a
\* document it is read whatever was copied, unless writing it threw.
THEOREM ReadAsSentCorrect == Spec => ReadAsSent
<1> DEFINE Inv == LayoutByCopies /\ Framed /\ Kept
           Restores(p) ==
               /\ CreateMessageFromStream(p) /\ ~frame.overrun /\ ~frame.sent.odd
                  /\ m_descriptors[p][frame.sent.type].odd = frame.sent.from
                      => received'.value = frame.sent.value /\ received'.context.io = <<>>
               /\ RestoreMessage(p) /\ ~document.context.thrown
                      => received'.value = document.sent.value /\ ~received'.context.thrown
<1>1. ASSUME Inv, NEW p \in Factories PROVE Restores(p)
  <2>1. ASSUME CreateMessageFromStream(p), ~frame.overrun, ~frame.sent.odd,
               m_descriptors[p][frame.sent.type].odd = frame.sent.from
        PROVE  received'.value = frame.sent.value /\ received'.context.io = <<>>
    <3>1. PICK m : m = frame.sent
      OBVIOUS
    <3>2. /\ FittingMessage(m) /\ Laid(m) /\ m \in Messages /\ Known(p, m.type)
          /\ received' = ReadFields(CreatedFields(p, m.type), Context("binary", Payload))
      BY <1>1, <2>1, <3>1 DEF CreateMessageFromStream, Framed, Kept, FittingMessage
    <3>3. CreatedFields(p, m.type) = m.fields
      <4>1. m.type \in Types /\ m.from \in BOOLEAN /\ m.odd = FALSE
        BY <2>1, <3>1, <3>2 DEF Messages
      <4>2. m_descriptors[p][m.type] = DescribedAs(m.type, m.from)
        BY <1>1, <2>1, <3>1, <3>2, <4>1 DEF LayoutByCopies
      <4> QED
        BY <3>2, <4>1, <4>2 DEF Laid, LaidOut, CreatedFields
    <3>4. /\ SerializedSize(m) < Base * Base
          /\ Payload = Serialized(m, Context("binary", <<>>)).io
      <4>1. /\ 2 + SerializedSize(m) < Base * Base /\ SerializedSize(m) \in Nat
            /\ Payload = Serialized(m, Context("binary", <<>>)).io
        BY <1>1, <2>1, <3>1, FrameFacts DEF CreateMessageFromStream
      <4>2. \A max, size \in Nat : 2 + size < max => size < max
        OBVIOUS
      <4>3. Base * Base \in Nat
        BY SerializerAssumption
      <4> QED
        BY <4>1, <4>2, <4>3
    <3>5. \A name \in Names : Kind[name] = "optional" => Default[name] = <<>>
      BY DataAssumption
    <3>6. ReadFields(m.fields, Context("binary", Payload))
             = [fields |-> m.fields, value |-> m.value, context |-> Context("binary", <<>>)]
      BY <3>2, <3>4, <3>5, WireRead DEF Laid
    <3>7. Context("binary", <<>>).io = <<>>
      BY DEF Context
    <3> QED
      BY <3>1, <3>2, <3>3, <3>6, <3>7
  <2>2. ASSUME RestoreMessage(p), ~document.context.thrown
        PROVE  received'.value = document.sent.value /\ ~received'.context.thrown
    <3>1. PICK m : m = document.sent
      OBVIOUS
    <3> DEFINE fields == CreatedFields(p, m.type)
               json == document.context.io
               read == [m EXCEPT !.fields = fields]
    <3>2. /\ FittingMessage(m) /\ Laid(m) /\ m \in Messages /\ Known(p, m.type)
          /\ received' = ReadFields(fields, Context("json", json))
      BY <1>1, <2>2, <3>1 DEF RestoreMessage, Kept, FittingMessage
    <3>3. \A i \in 1..Len(m.fields) : Found(json, m, m.fields[i])
      <4>1. PICK old : document.context = Serialized(m, Context("json", old))
        BY <1>1, <2>2, <3>1 DEF RestoreMessage, Kept
      <4>2. ~Serialized(m, Context("json", old)).thrown
        BY <2>2, <4>1, Zenon
      <4> QED
        BY <3>2, <4>1, <4>2, DocumentWritten
    <3>4. fields \in Seq(Names) /\ ToSet(fields) = ToSet(m.fields)
      <4>1. m.type \in Types /\ m.from \in BOOLEAN /\ m.odd \in BOOLEAN
        BY <3>2 DEF Messages
      <4>2. PICK from \in BOOLEAN : m_descriptors[p][m.type] = DescribedAs(m.type, from)
        BY <1>1, <3>2, <4>1 DEF LayoutByCopies, Known, Descriptors
      <4>3. FALSE \in BOOLEAN /\ fields = LaidOut(m.type, from, FALSE)
        BY <4>2 DEF LaidOut, CreatedFields
      <4>4. m.fields = LaidOut(m.type, m.from, m.odd)
        BY <3>2 DEF Laid
      <4> HIDE DEF fields
      <4> QED
        BY <4>1, <4>3, <4>4, LaidOutType, SameFields
    <3> HIDE DEF fields, json
    <3>5. read \in Messages /\ read.fields = fields /\ read.value = m.value
      BY <3>2, <3>4 DEF Messages
    <3> HIDE DEF read
    <3>6. OthersDefault(read)
      BY <3>2, <3>4, <3>5 DEF Laid, OthersDefault
    <3>7. \A i \in 1..Len(read.fields) : Found(json, read, read.fields[i])
      <4>1. \A name \in ToSet(m.fields) : Found(json, m, name)
        <5>1. DOMAIN m.fields = 1..Len(m.fields)
          BY <3>2 DEF Messages
        <5> QED
          BY <3>3, <5>1 DEF ToSet
      <4>2. \A i \in 1..Len(fields) : fields[i] \in ToSet(m.fields)
        <5>1. DOMAIN fields = 1..Len(fields)
          BY <3>4
        <5> QED
          BY <3>4, <5>1 DEF ToSet
      <4> QED
        BY <3>5, <4>1, <4>2 DEF Found
    <3>8. ReadFields(read.fields, Context("json", json))
             = [fields |-> read.fields, value |-> read.value, context |-> Context("json", json)]
      BY <3>5, <3>6, <3>7, DocumentRead
    <3>9. received'.value = m.value /\ received'.context = Context("json", json)
      BY <3>2, <3>5, <3>8
    <3>10. ~Context("json", json).thrown
      BY ContextFacts
    <3>11. ~received'.context.thrown
      BY <3>9, <3>10, Zenon
    <3> QED
      BY <3>1, <3>9, <3>11
  <2> QED
    BY <2>1, <2>2, Zenon
<1>2. Inv => \A p \in Factories : Restores(p)
  <2> HIDE DEF Inv, Restores
  <2> QED
    BY <1>1
<1> QED
  BY <1>2, LayoutInvariant, FramedInvariant, KeptInvariant, PTL DEF ReadAsSent
=============================================================================
