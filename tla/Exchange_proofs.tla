--------------------------- MODULE Exchange_proofs ---------------------------
(***************************************************************************)
(* Proofs about Exchange: the order of the fields of every descriptor and  *)
(* every message depends on nothing but how often it was copied.           *)
(***************************************************************************)
EXTENDS Exchange, TLAPS, WellFoundedInduction

-----------------------------------------------------------------------------
(* The lists.                                                              *)

\* Copying a list twice restores it: FieldSet::assign and MessageDescriptor::copy
\* each insert in front.
LEMMA CopiedTwice ==
    ASSUME NEW S, NEW list \in Seq(S) \ {<<>>}
    PROVE  Copied(list) \in Seq(S) \ {<<>>} /\ Copied(Copied(list)) = list
<1> DEFINE n == Len(list)
           r == Copied(list)
<1>1. n \in Nat /\ n > 0 /\ list \in [1..n -> S]
  OBVIOUS
<1>2. r = [i \in 1..n |-> list[(n - i) + 1]]
  BY DEF Copied, Reverse
<1>3. r \in [1..n -> S]
  BY <1>1, <1>2
<1>4. r \in Seq(S) /\ Len(r) = n
  BY <1>1, <1>3
<1>5. Copied(r) = [i \in 1..n |-> r[(n - i) + 1]]
  BY <1>4 DEF Copied, Reverse
<1>6. \A i \in 1..n : r[(n - i) + 1] = list[i]
  BY <1>1, <1>2
<1>7. Copied(r) = list
  BY <1>1, <1>5, <1>6
<1> QED
  BY <1>1, <1>4, <1>7

\* Adding the elements of a list to an empty one yields a list of them.
LEMMA AddAllType ==
    ASSUME NEW S, NEW list \in Seq(S) \ {<<>>}
    PROVE  AddAll(list) \in Seq(S) \ {<<>>}
<1>1. Tail(list) \in Seq(S) /\ Head(list) \in S
  OBVIOUS
<1>2. AddAll(list) \in Seq(S) /\ Len(AddAll(list)) > 0
  BY <1>1 DEF AddAll
<1> QED
  BY <1>2

-----------------------------------------------------------------------------
(* The inductive invariant.                                                *)

\* A descriptor of type t whose fields were copied an odd or an even number of times
DescribedAs(t, odd) ==
    [fields |-> IF odd THEN Copied(AddAll(Fields[t])) ELSE AddAll(Fields[t]), odd |-> odd]

\* The fields of a message of type t
LaidOut(t, from, odd) ==
    IF odd THEN Copied(AddAll(DescribedAs(t, from).fields)) ELSE AddAll(DescribedAs(t, from).fields)

LayoutByCopies ==
    /\ m_descriptors \in [Factories -> [Types -> Descriptors \cup {NoDescriptor}]]
    /\ \A p \in Factories, t \in Types :
          Known(p, t) => m_descriptors[p][t] = DescribedAs(t, m_descriptors[p][t].odd)
    /\ message \in Messages \cup {NoMessage}
    /\ message # NoMessage =>
          message.fields = LaidOut(message.type, message.from, message.odd)

\* A copy of a descriptor has the fields in the opposite order, and was copied once more.
LEMMA CopyOf ==
    ASSUME NEW list, list # <<>>, NEW b \in BOOLEAN
    PROVE  CopiedDescriptor([fields |-> list, odd |-> b]) = [fields |-> Copied(list), odd |-> ~b]
<1>1. [fields |-> list, odd |-> b] # NoDescriptor
  BY DEF NoDescriptor
<1> QED
  BY <1>1, Zenon DEF CopiedDescriptor

LEMMA DescribedType ==
    ASSUME NEW t \in Types, NEW odd \in BOOLEAN
    PROVE  /\ DescribedAs(t, odd) \in Descriptors
           /\ DescribedAs(t, odd) # NoDescriptor
           /\ CopiedDescriptor(DescribedAs(t, TRUE)) = DescribedAs(t, FALSE)
           /\ CopiedDescriptor(DescribedAs(t, FALSE)) = DescribedAs(t, TRUE)
<1> DEFINE F == AddAll(Fields[t])
<1>1. F \in Seq(Names) \ {<<>>}
  BY MessagesAssumption, AddAllType
<1>2. Copied(F) \in Seq(Names) \ {<<>>} /\ Copied(Copied(F)) = F
  BY <1>1, CopiedTwice
<1> HIDE DEF F
<1>3. DescribedAs(t, TRUE) = [fields |-> Copied(F), odd |-> TRUE]
  BY DEF DescribedAs, F
<1>4. DescribedAs(t, FALSE) = [fields |-> F, odd |-> FALSE]
  BY DEF DescribedAs, F
<1>5. DescribedAs(t, TRUE) \in Descriptors /\ DescribedAs(t, FALSE) \in Descriptors
  <2>1. \A list \in Seq(Names) \ {<<>>}, b \in BOOLEAN :
           [fields |-> list, odd |-> b] \in Descriptors
    BY DEF Descriptors
  <2> QED
    BY <1>1, <1>2, <1>3, <1>4, <2>1
<1>6. \A d \in Descriptors : d # NoDescriptor
  BY DEF Descriptors, NoDescriptor
<1>7. CopiedDescriptor([fields |-> Copied(F), odd |-> TRUE]) = [fields |-> F, odd |-> FALSE]
  <2>1. CopiedDescriptor([fields |-> Copied(F), odd |-> TRUE]) = [fields |-> F, odd |-> ~TRUE]
    BY <1>2, CopyOf, Zenon
  <2> QED
    BY <2>1, Zenon
<1>8. CopiedDescriptor([fields |-> F, odd |-> FALSE]) = [fields |-> Copied(F), odd |-> TRUE]
  <2>1. CopiedDescriptor([fields |-> F, odd |-> FALSE]) = [fields |-> Copied(F), odd |-> ~FALSE]
    BY <1>1, CopyOf, Zenon
  <2> QED
    BY <2>1, Zenon
<1>9. odd = TRUE \/ odd = FALSE
  OBVIOUS
<1> QED
  BY <1>3, <1>4, <1>5, <1>6, <1>7, <1>8, <1>9, Zenon

LEMMA LaidOutType ==
    ASSUME NEW t \in Types, NEW from \in BOOLEAN, NEW odd \in BOOLEAN
    PROVE  /\ LaidOut(t, from, odd) \in Seq(Names)
           /\ Copied(LaidOut(t, from, TRUE)) = LaidOut(t, from, FALSE)
           /\ Copied(LaidOut(t, from, FALSE)) = LaidOut(t, from, TRUE)
<1> DEFINE G == AddAll(DescribedAs(t, from).fields)
<1>1. DescribedAs(t, from).fields \in Seq(Names) \ {<<>>}
  BY DescribedType DEF Descriptors
<1>2. G \in Seq(Names) \ {<<>>}
  BY <1>1, AddAllType
<1>3. Copied(G) \in Seq(Names) \ {<<>>} /\ Copied(Copied(G)) = G
  BY <1>2, CopiedTwice
<1> QED
  BY <1>2, <1>3 DEF LaidOut

-----------------------------------------------------------------------------
LEMMA LayoutInit == Init => LayoutByCopies
  BY DEF Init, MessagesInit, LayoutByCopies, Known

LEMMA LayoutStep == LayoutByCopies /\ [Next]_vars => LayoutByCopies'
<1> SUFFICES ASSUME LayoutByCopies, [Next]_vars
             PROVE  LayoutByCopies'
  OBVIOUS
<1>0. TRUE \in BOOLEAN /\ FALSE \in BOOLEAN
  OBVIOUS
<1>1. ASSUME NEW p \in Factories, NEW t \in Types,
             NEW D \in Descriptors, D = DescribedAs(t, D.odd),
             m_descriptors' = [m_descriptors EXCEPT ![p][t] = D], UNCHANGED message
      PROVE  LayoutByCopies'
  BY <1>1 DEF LayoutByCopies, Known
<1>2. ASSUME NEW p \in Factories, NEW t \in Types, AddDescriptor(p, t)
      PROVE  LayoutByCopies'
  <2>1. Configured(t) = DescribedAs(t, FALSE)
    BY DEF Configured, DescribedAs
  <2> QED
    BY <1>1, <1>2, <2>1, DescribedType DEF AddDescriptor, Configured
<1>3. ASSUME NEW p \in Factories, NEW t \in Types, AddCopiedDescriptor(p, t)
      PROVE  LayoutByCopies'
  <2>1. Configured(t) = DescribedAs(t, FALSE)
    BY DEF Configured, DescribedAs
  <2>2. CopiedDescriptor(Configured(t)) = DescribedAs(t, TRUE)
    BY <2>1, DescribedType
  <2>3. DescribedAs(t, TRUE).odd = TRUE
    BY DEF DescribedAs
  <2> QED
    BY <1>1, <1>3, <2>2, <2>3, DescribedType DEF AddCopiedDescriptor
<1>4. ASSUME NEW p \in Factories, NEW q \in Factories, CopyFactory(p, q)
      PROVE  LayoutByCopies'
  <2> DEFINE C(t) == CopiedDescriptor(m_descriptors[q][t])
  <2>1. m_descriptors' = [m_descriptors EXCEPT ![p] = [t \in Types |-> C(t)]]
        /\ UNCHANGED message
    BY <1>4 DEF CopyFactory
  <2>2. ASSUME NEW t \in Types
        PROVE  /\ C(t) \in Descriptors \cup {NoDescriptor}
               /\ C(t) # NoDescriptor => C(t) = DescribedAs(t, C(t).odd)
    <3>1. CASE m_descriptors[q][t] = NoDescriptor
      BY <3>1 DEF CopiedDescriptor
    <3>2. CASE m_descriptors[q][t] # NoDescriptor
      <4> DEFINE odd == m_descriptors[q][t].odd
      <4>1. m_descriptors[q][t] = DescribedAs(t, odd) /\ odd \in BOOLEAN
        BY <3>2 DEF LayoutByCopies, Known, Descriptors
      <4>2. \E other \in BOOLEAN : C(t) = DescribedAs(t, other)
        <5>1. CASE odd = TRUE
          BY <4>1, <5>1, <1>0, DescribedType
        <5>2. CASE odd = FALSE
          BY <4>1, <5>2, <1>0, DescribedType
        <5> QED
          BY <4>1, <5>1, <5>2
      <4>3. PICK other \in BOOLEAN : C(t) = DescribedAs(t, other)
        BY <4>2
      <4>4. DescribedAs(t, other).odd = other
        BY DEF DescribedAs
      <4> QED
        BY <4>3, <4>4, DescribedType
    <3> QED
      BY <3>1, <3>2
  <2> HIDE DEF C
  <2> QED
    BY <2>1, <2>2 DEF LayoutByCopies, Known
<1>5. ASSUME NEW p \in Factories, NEW q \in Factories, SwapFactories(p, q)
      PROVE  LayoutByCopies'
  BY <1>5 DEF SwapFactories, LayoutByCopies, Known
<1>6. ASSUME NEW p \in Factories, NEW t \in Types, CreateMessage(p, t)
      PROVE  LayoutByCopies'
  <2> DEFINE odd == m_descriptors[p][t].odd
             m == [type |-> t, fields |-> CreatedFields(p, t), value |-> Default,
                   from |-> odd, odd |-> FALSE]
  <2>1. m_descriptors[p][t] = DescribedAs(t, odd) /\ odd \in BOOLEAN
    BY <1>6 DEF CreateMessage, LayoutByCopies, Known, Descriptors
  <2>2. CreatedFields(p, t) = LaidOut(t, odd, FALSE)
    BY <2>1 DEF CreatedFields, LaidOut
  <2>3. CreatedFields(p, t) \in Seq(Names)
    BY <2>1, <2>2, LaidOutType
  <2>4. m \in Messages
    BY <2>1, <2>3, MessagesAssumption DEF Messages
  <2>5. message' = m /\ UNCHANGED m_descriptors
    BY <1>6 DEF CreateMessage
  <2> QED
    BY <2>2, <2>4, <2>5 DEF LayoutByCopies, Known
<1>7. ASSUME NEW name \in Names, NEW value \in Data[name], SetField(name, value)
      PROVE  LayoutByCopies'
  <2>1. value \in Values
    BY DEF Values
  <2>2. message \in Messages /\ message' = [message EXCEPT !.value[name] = value]
        /\ UNCHANGED m_descriptors
    BY <1>7 DEF SetField, Assigned, LayoutByCopies
  <2>3. message' \in Messages
    BY <2>1, <2>2 DEF Messages
  <2>4. message'.fields = message.fields /\ message'.type = message.type
        /\ message'.from = message.from /\ message'.odd = message.odd
    BY <2>2 DEF Messages
  <2>5. message.fields = LaidOut(message.type, message.from, message.odd)
    BY <1>7 DEF SetField, Assigned, LayoutByCopies
  <2> QED
    BY <2>2, <2>3, <2>4, <2>5 DEF LayoutByCopies, Known
<1>8. ASSUME CloneMessage
      PROVE  LayoutByCopies'
  <2>1. message \in Messages /\ message.fields = LaidOut(message.type, message.from, message.odd)
        /\ UNCHANGED m_descriptors
    BY <1>8 DEF CloneMessage, LayoutByCopies
  <2>2. message' = [message EXCEPT !.fields = Copied(message.fields), !.odd = ~message.odd]
    BY <1>8 DEF CloneMessage
  <2>3. message.type \in Types /\ message.from \in BOOLEAN /\ message.odd \in BOOLEAN
    BY <2>1 DEF Messages
  <2>4. PICK other \in BOOLEAN : other = ~message.odd
    OBVIOUS
  <2>5. Copied(message.fields) = LaidOut(message.type, message.from, other)
    <3>1. CASE message.odd = TRUE
      <4>1. other = FALSE
        BY <2>4, <3>1
      <4> QED
        BY <2>1, <2>3, <3>1, <4>1, <1>0, LaidOutType
    <3>2. CASE message.odd = FALSE
      <4>1. other = TRUE
        BY <2>4, <3>2
      <4> QED
        BY <2>1, <2>3, <3>2, <4>1, <1>0, LaidOutType
    <3> QED
      BY <2>3, <3>1, <3>2
  <2>6. Copied(message.fields) \in Seq(Names)
    BY <2>3, <2>5, LaidOutType
  <2>7. message' = [message EXCEPT !.fields = Copied(message.fields), !.odd = other]
    BY <2>2, <2>4
  <2>8. message' \in Messages
    BY <2>1, <2>6, <2>7 DEF Messages
  <2>9. message'.fields = Copied(message.fields) /\ message'.type = message.type
        /\ message'.from = message.from /\ message'.odd = other
    BY <2>1, <2>7 DEF Messages
  <2> QED
    BY <2>1, <2>5, <2>8, <2>9 DEF LayoutByCopies, Known
<1>9. CASE WriteMessage
  BY <1>9 DEF WriteMessage, LayoutByCopies, Known
<1>10. ASSUME NEW json \in Documents, WriteDocument(json)
       PROVE  LayoutByCopies'
  BY <1>10 DEF WriteDocument, LayoutByCopies, Known
<1>11. CASE UNCHANGED messageVars
  BY <1>11 DEF messageVars, LayoutByCopies, Known
<1> QED
  BY <1>2, <1>3, <1>4, <1>5, <1>6, <1>7, <1>8, <1>9, <1>10,
     <1>11
  DEF Next, MessagesNext, CreateMessageFromStream, RestoreMessage, DispatchMessage, vars

-----------------------------------------------------------------------------
(* The theorems.                                                           *)

\* LayoutByCopies is an invariant.
THEOREM LayoutInvariant == Spec => []LayoutByCopies
  BY LayoutInit, LayoutStep, PTL DEF Spec

\* The descriptors of the factories and the message keep their types.
THEOREM MessagesTypeCorrect == Spec => []MessagesTypeOK
<1>1. LayoutByCopies => MessagesTypeOK
  BY DEF LayoutByCopies, MessagesTypeOK
<1> QED
  BY <1>1, LayoutInvariant, PTL

\* A message that was cloned an even number of times has its fields in the order in
\* which every factory of the same parity of copies creates them (SameLayout).
THEOREM SameLayoutCorrect == Spec => []SameLayout
<1>1. LayoutByCopies => SameLayout
  <2> SUFFICES ASSUME LayoutByCopies, message # NoMessage, ~message.odd,
                      NEW p \in Factories, Known(p, message.type),
                      m_descriptors[p][message.type].odd = message.from
               PROVE  CreatedFields(p, message.type) = message.fields
    BY DEF SameLayout
  <2>1. message \in Messages /\ message.type \in Types /\ message.odd \in BOOLEAN
    BY DEF LayoutByCopies, Messages
  <2>2. m_descriptors[p][message.type] = DescribedAs(message.type, message.from)
    BY <2>1 DEF LayoutByCopies
  <2>3. message.fields = AddAll(DescribedAs(message.type, message.from).fields)
    BY <2>1 DEF LayoutByCopies, LaidOut
  <2> QED
    BY <2>2, <2>3 DEF CreatedFields
<1> QED
  BY <1>1, LayoutInvariant, PTL

-----------------------------------------------------------------------------
(***************************************************************************)
(* Dispatching.  First the index that a search returns: the least of those *)
(* it looks for.                                                           *)
(***************************************************************************)
LEMMA MinFacts ==
    ASSUME NEW I \in SUBSET Nat, I # {}
    PROVE  Min(I) \in I /\ \A j \in I : Min(I) <= j
<1> DEFINE R == {ss \in Nat \X Nat : ss[1] < ss[2]}
<1>1. IsWellFoundedOn(R, Nat)
  BY NatLessThanWellFounded DEF OpToRel
<1> HIDE DEF R
<1>2. PICK x \in I : \A y \in I : ~(<<y, x>> \in R)
  BY <1>1, WFMin
<1>3. \A y \in I : x <= y
  <2> SUFFICES ASSUME NEW y \in I, y < x PROVE FALSE
    OBVIOUS
  <2>1. <<y, x>> \in R
    BY DEF R
  <2> QED
    BY <1>2, <2>1
<1> QED
  BY <1>3 DEF Min

Says(rules, type, verdict) == \E i \in DOMAIN rules : rules[i][type] = verdict

\* std::any_of over the rules.
LEMMA SatisfiesFacts ==
    ASSUME NEW rules \in Seq([Types -> Verdicts]), NEW type \in Types
    PROVE  /\ Satisfies(type, rules) \in Verdicts
           /\ Satisfies(type, rules) = "no" =>
                 ~Says(rules, type, "yes") /\ ~Says(rules, type, "throws")
           /\ Satisfies(type, rules) # "no" => Says(rules, type, Satisfies(type, rules))
<1> DEFINE I == {i \in 1..Len(rules) : rules[i][type] # "no"}
<1>1. /\ I = {} => Satisfies(type, rules) = "no"
      /\ I # {} /\ Min(I) # 0 => Satisfies(type, rules) = rules[Min(I)][type]
  BY DEF Satisfies, SelectInSeq
<1>2. I # {} => Min(I) \in I
  <2>1. I \in SUBSET Nat
    OBVIOUS
  <2> HIDE DEF I
  <2> QED
    BY <2>1, MinFacts
<1>3. DOMAIN rules = 1..Len(rules) /\ \A i \in DOMAIN rules : rules[i][type] \in Verdicts
  OBVIOUS
<1>4. CASE I = {}
  BY <1>1, <1>3, <1>4 DEF Says, Verdicts
<1>5. CASE I # {}
  <2> HIDE DEF I
  <2>1. Min(I) \in DOMAIN rules /\ rules[Min(I)][type] # "no" /\ Min(I) # 0
    BY <1>2, <1>3, <1>5 DEF I
  <2> QED
    BY <1>1, <1>3, <1>5, <2>1 DEF Says
<1> QED
  BY <1>4, <1>5

Permits(filter, type) ==
    /\ filter.policy # "PermitAllExceptForbidden" => Says(filter.permitted, type, "yes")
    /\ filter.policy # "ForbidAllExceptPermitted" => ~Says(filter.forbidden, type, "yes")
Throws(filter, type) ==
    Says(filter.permitted, type, "throws") \/ Says(filter.forbidden, type, "throws")

\* What a filter says: RuleBasedMessageFilter::matches.
Judged(filter, type, verdict) ==
    /\ verdict \in Verdicts
    /\ verdict = "yes" => Permits(filter, type)
    /\ verdict = "no" => ~Permits(filter, type)
    /\ verdict = "throws" => Throws(filter, type)

LEMMA MatchesFacts ==
    ASSUME NEW filter \in Filters, NEW type \in Types
    PROVE  Judged(filter, type, Matches(filter, type))
<1> DEFINE permitted == Satisfies(type, filter.permitted)
           forbidden == Satisfies(type, filter.forbidden)
<1>1. /\ filter.policy \in Policies
      /\ filter.permitted \in Seq([Types -> Verdicts])
      /\ filter.forbidden \in Seq([Types -> Verdicts])
  BY DEF Filters
<1>2. /\ permitted \in Verdicts /\ forbidden \in Verdicts
      /\ permitted = "no" => ~Says(filter.permitted, type, "yes")
      /\ forbidden = "no" => ~Says(filter.forbidden, type, "yes")
      /\ permitted # "no" => Says(filter.permitted, type, permitted)
      /\ forbidden # "no" => Says(filter.forbidden, type, forbidden)
  BY <1>1, SatisfiesFacts
<1>3. Negation["yes"] = "no" /\ Negation["no"] = "yes" /\ Negation["throws"] = "throws"
  BY DEF Negation
<1>4. Matches(filter, type) =
         IF filter.policy = "PermitAllExceptForbidden" THEN Negation[forbidden]
         ELSE IF filter.policy = "ForbidAllExceptPermitted" THEN permitted
         ELSE IF permitted = "yes" THEN Negation[forbidden] ELSE permitted
  BY DEF Matches
<1> HIDE DEF permitted, forbidden
<1> QED
  BY <1>1, <1>2, <1>3, <1>4 DEF Judged, Permits, Throws, Verdicts, Policies

\* MessageFilterChain::matches.
LEMMA ChainFacts ==
    ASSUME NEW filters \in Seq(Filters), NEW type \in Types
    PROVE  /\ ChainMatches(filters, type) \in Verdicts
           /\ ChainMatches(filters, type) = "yes" =>
                 \A f \in ToSet(filters) : Permits(f, type)
           /\ ChainMatches(filters, type) = "no" =>
                 \E f \in ToSet(filters) : ~Permits(f, type)
           /\ ChainMatches(filters, type) = "throws" =>
                 \E f \in ToSet(filters) : Throws(f, type)
<1> DEFINE I == {i \in 1..Len(filters) : Matches(filters[i], type) # "yes"}
<1>1. /\ I = {} => ChainMatches(filters, type) = "yes"
      /\ I # {} /\ Min(I) # 0 => ChainMatches(filters, type) = Matches(filters[Min(I)], type)
  BY DEF ChainMatches, SelectInSeq
<1>2. I # {} => Min(I) \in I
  <2>1. I \in SUBSET Nat
    OBVIOUS
  <2> HIDE DEF I
  <2> QED
    BY <2>1, MinFacts
<1>3. /\ DOMAIN filters = 1..Len(filters)
      /\ ToSet(filters) = {filters[i] : i \in DOMAIN filters}
      /\ \A i \in DOMAIN filters : filters[i] \in Filters
  BY DEF ToSet
<1>4. \A i \in DOMAIN filters : Judged(filters[i], type, Matches(filters[i], type))
  BY <1>3, MatchesFacts
<1>5. CASE I = {}
  <2>1. \A i \in DOMAIN filters : Matches(filters[i], type) = "yes"
    BY <1>3, <1>5
  <2>2. \A i \in DOMAIN filters : Permits(filters[i], type)
    BY <1>4, <2>1 DEF Judged
  <2> QED
    BY <1>1, <1>3, <1>5, <2>2 DEF Verdicts
<1>6. CASE I # {}
  <2> DEFINE k == Min(I)
             v == Matches(filters[k], type)
  <2>1. k \in DOMAIN filters /\ v # "yes" /\ k # 0
    BY <1>2, <1>3, <1>6
  <2>2. ChainMatches(filters, type) = v
    BY <1>1, <1>6, <2>1
  <2>3. Judged(filters[k], type, v) /\ filters[k] \in ToSet(filters)
    BY <1>3, <1>4, <2>1
  <2> HIDE DEF k, v
  <2> QED
    BY <2>1, <2>2, <2>3 DEF Judged
<1> QED
  BY <1>5, <1>6

\* What becomes of a message that the dispatcher of number by is to handle
Handled(dispatchers, by, type, what) ==
    LET filters == ToSet(dispatchers[by].filters) IN
    /\ what = "rejected" => \E f \in filters : ~Permits(f, type)
    /\ what = "dropped" => \E f \in filters : Throws(f, type)
    /\ what \notin {"rejected", "dropped"} => \A f \in filters : Permits(f, type)

LEMMA HandleFacts ==
    ASSUME NEW dispatchers \in Receivers, NEW i \in DOMAIN dispatchers, NEW type \in Types
    PROVE  /\ Handle(dispatchers, i, type).by = i
           /\ Handled(dispatchers, i, type, Handle(dispatchers, i, type).what)
<1> DEFINE verdict == ChainMatches(dispatchers[i].filters, type)
           what == Handle(dispatchers, i, type).what
<1>1. dispatchers[i].filters \in Seq(Filters)
  BY ReceiversAssumption
<1>2. /\ Handle(dispatchers, i, type).by = i
      /\ verdict = "yes" => what \in {"failed", "handled"}
      /\ verdict = "no" => what = "rejected"
      /\ verdict = "throws" => what = "dropped"
  BY DEF Handle
<1> HIDE DEF verdict, what
<1>3. verdict \in Verdicts
  BY <1>1, ChainFacts DEF verdict
<1>4. Handled(dispatchers, i, type, what)
  <2>1. CASE verdict = "yes"
    BY <1>1, <1>2, <2>1, ChainFacts DEF verdict, Handled
  <2>2. CASE verdict = "no"
    BY <1>1, <1>2, <2>2, ChainFacts DEF verdict, Handled
  <2>3. CASE verdict = "throws"
    BY <1>1, <1>2, <2>3, ChainFacts DEF verdict, Handled
  <2> QED
    BY <1>3, <2>1, <2>2, <2>3 DEF Verdicts
<1> QED
  BY <1>2, <1>4 DEF what

\* MessageDispatcher::doDispatch, of the dispatcher that is asked first.
LEMMA DispatchFacts ==
    ASSUME NEW dispatchers \in Receivers, NEW type \in Types
    PROVE  LET d == Dispatch(dispatchers, 1, type) IN
           \/ /\ d.by \in DOMAIN dispatchers
              /\ HasHandler(dispatchers[d.by], type)
              /\ Handled(dispatchers, d.by, type, d.what)
           \/ /\ d.what = "dropped"
              /\ \A e \in {1} \cup ToSet(dispatchers[1].delegates) :
                    ~HasHandler(dispatchers[e], type)
<1> DEFINE asked == dispatchers[1]
           I == {i \in 1..Len(asked.delegates) : HasHandler(dispatchers[asked.delegates[i]], type)}
<1>1. 1 \in DOMAIN dispatchers /\ asked.delegates \in Seq(DOMAIN dispatchers)
  BY ReceiversAssumption
<1>2. I # {} => Min(I) \in I
  <2>1. I \in SUBSET Nat
    OBVIOUS
  <2> HIDE DEF I
  <2> QED
    BY <2>1, MinFacts
<1>3. CASE HasHandler(asked, type)
  <2>1. Dispatch(dispatchers, 1, type) = Handle(dispatchers, 1, type)
    BY <1>3 DEF Dispatch
  <2> QED
    BY <1>1, <1>3, <2>1, HandleFacts
<1>4. CASE ~HasHandler(asked, type) /\ I # {}
  <2> DEFINE e == asked.delegates[Min(I)]
  <2>1. Min(I) # 0 /\ e \in DOMAIN dispatchers /\ HasHandler(dispatchers[e], type)
    <3>1. PICK k \in I : k = Min(I)
      BY <1>2, <1>4
    <3>2. k \in 1..Len(asked.delegates) /\ HasHandler(dispatchers[asked.delegates[k]], type)
      OBVIOUS
    <3>3. k # 0 /\ asked.delegates[k] \in DOMAIN dispatchers
      BY <1>1, <3>2
    <3> QED
      BY <3>1, <3>2, <3>3
  <2>2. Dispatch(dispatchers, 1, type) = Handle(dispatchers, e, type)
    BY <1>4, <2>1 DEF Dispatch, SelectInSeq
  <2> HIDE DEF e
  <2> QED
    BY <2>1, <2>2, HandleFacts
<1>5. CASE ~HasHandler(asked, type) /\ I = {}
  <2>1. Dispatch(dispatchers, 1, type) = Dropped(1)
    BY <1>5 DEF Dispatch, SelectInSeq
  <2>2. \A e \in ToSet(asked.delegates) : ~HasHandler(dispatchers[e], type)
    BY <1>1, <1>5 DEF ToSet
  <2> QED
    BY <1>5, <2>1, <2>2 DEF Dropped
<1> QED
  BY <1>3, <1>4, <1>5

-----------------------------------------------------------------------------
\* One message is on its way at a time, and an outcome is that of the last frame.
Dispatched ==
    LET type == frame.sent.type
        d == Dispatch(outcome.dispatchers, 1, type)
    IN  /\ outcome.dispatchers \in Receivers
        /\ outcome.by = d.by /\ outcome.what = d.what

OneMessage ==
    /\ frame # NoFrame => frame.sent \in Messages /\ message = NoMessage
    /\ outcome # NoOutcome => frame # NoFrame /\ Dispatched

LEMMA OneMessageStep ==
    MessagesTypeOK /\ OneMessage /\ [Next]_vars => OneMessage'
<1> SUFFICES ASSUME MessagesTypeOK, OneMessage, [Next]_vars PROVE OneMessage'
  OBVIOUS
<1>0. \A x, y, z : [sent |-> x, length |-> y, bytes |-> z, overrun |-> TRUE] # NoFrame
                   /\ [sent |-> x, length |-> y, bytes |-> z, overrun |-> FALSE] # NoFrame
  BY DEF NoFrame
<1>1. CASE Idle /\ MessagesNext /\ UNCHANGED <<frame, document, received, outcome>>
  BY <1>1 DEF Idle, OneMessage
<1>2. CASE WriteMessage
  <2>1. frame = NoFrame /\ outcome = NoOutcome /\ message \in Messages
    BY <1>2 DEF WriteMessage, OneMessage, MessagesTypeOK
  <2>2. frame'.sent = message /\ message' = NoMessage /\ outcome' = outcome
    BY <1>2 DEF WriteMessage
  <2> QED
    BY <2>1, <2>2 DEF OneMessage
<1>3. CASE DispatchMessage
  <2>1. PICK dispatchers \in Receivers :
           LET d == Dispatch(dispatchers, 1, frame.sent.type)
           IN  outcome' = [dispatchers |-> dispatchers, by |-> d.by, what |-> d.what]
    BY <1>3 DEF DispatchMessage
  <2> DEFINE d == Dispatch(dispatchers, 1, frame.sent.type)
  <2>3. outcome'.dispatchers = dispatchers /\ outcome'.by = d.by /\ outcome'.what = d.what
    BY <2>1
  <2>4. frame # NoFrame /\ UNCHANGED <<frame, message>>
    BY <1>3 DEF DispatchMessage, messageVars
  <2> QED
    BY <2>3, <2>4 DEF OneMessage, Dispatched, d
<1>4. ASSUME UNCHANGED <<frame, outcome>>, message' = message \/ message' = NoMessage PROVE OneMessage'
  BY <1>4 DEF OneMessage, Dispatched
<1> QED
  BY <1>1, <1>2, <1>3, <1>4
  DEF Next, WriteDocument, CreateMessageFromStream, RestoreMessage, vars, messageVars

LEMMA OneMessageInvariant == Spec => []OneMessage
<1>1. Init => OneMessage
  BY DEF Init, OneMessage
<1> QED
  BY <1>1, OneMessageStep, MessagesTypeCorrect, PTL DEF Spec

\* MessageDispatcher, RuleBasedMessageFilter and MessageFilterChain together: a
\* handler is given a message only if all filters of its own dispatcher permit it, a
\* rejected message is one they do not permit, and a message is dropped only for a rule
\* that throws or for want of a handler.
THEOREM DispatchCorrect == Spec => []HandledIfPermitted
<1>1. OneMessage => HandledIfPermitted
  <2> SUFFICES ASSUME OneMessage, outcome # NoOutcome PROVE HandledIfPermitted
    BY DEF HandledIfPermitted
  <2> DEFINE type == frame.sent.type
             dispatchers == outcome.dispatchers
             owner == dispatchers[outcome.by]
  <2>1. /\ type \in Types /\ dispatchers \in Receivers
        /\ \/ /\ HasHandler(owner, type)
              /\ Handled(dispatchers, outcome.by, type, outcome.what)
           \/ /\ outcome.what = "dropped"
              /\ \A e \in {1} \cup ToSet(dispatchers[1].delegates) :
                    ~HasHandler(dispatchers[e], type)
    BY DispatchFacts DEF OneMessage, Dispatched, Messages
  <2> QED
    BY <2>1 DEF HandledIfPermitted, Handled, Permits, Throws, Says
<1> QED
  BY <1>1, OneMessageInvariant, PTL
=============================================================================
