------------------------------ MODULE MCExchange ------------------------------
(***************************************************************************)
(* Instance of Exchange for TLC: two processes, two types of message whose *)
(* fields have all kinds, bytes of four values.                            *)
(***************************************************************************)
EXTENDS Exchange

CONSTANTS p, q, A, B, n1, n2, n3, n4, n5, n6, n7, n8, n9

TwoFactories == {p, q}
TwoTypes == {A, B}
NineNames == {n1, n2, n3, n4, n5, n6, n7, n8, n9}

FieldsOfTypes == (A :> <<n1, n2, n8>>) @@ (B :> <<n3, n4, n5, n6, n7, n9>>)
KindOfNames == (n1 :> "number") @@ (n2 :> "sequence") @@ (n3 :> "optional")
               @@ (n4 :> "associative") @@ (n5 :> "array") @@ (n6 :> "pair") @@ (n7 :> "enum")
               @@ (n8 :> "object") @@ (n9 :> "number")
SerializersOfNames ==
    [n \in NineNames |-> IF n \in {n1, n2, n8, n9} THEN {"binary", "json"} ELSE {"binary"}]

\* With the seven elements and one of n8 the frame has its greatest length, with two
\* of n8 one more.
DataOfNames ==
    (n1 :> {<<0>>, <<3>>}) @@ (n2 :> {<<>>, <<2, 1, 3, 0, 0, 1, 2>>})
    @@ (n3 :> {<<>>, <<2>>}) @@ (n4 :> {<<>>, <<1, 3>>})
    @@ (n5 :> {<<0, 0>>, <<3, 2>>}) @@ (n6 :> {<<1, 2>>}) @@ (n7 :> {<<2>>})
    @@ (n8 :> {<<3>>, <<2, 1>>}) @@ (n9 :> {<<1>>})
DefaultOfNames ==
    [n \in NineNames |-> CASE n \in {n1, n7, n8, n9} -> <<0>>
                           [] n \in {n5, n6} -> <<0, 0>>
                           [] OTHER -> <<>>]

\* Nothing, or what remains of another message with a member of its object that
\* this one does not write.
NewAndUsedDocuments ==
    {<<>>, (n1 :> <<1>>) @@ (n8 :> [username |-> <<1, 1>>, age |-> <<2>>, nickname |-> <<3>>])}

\* What AddAll says of the loop that creates the fields of a message.
ASSUME CreationAssumption ==
    \A t \in TwoTypes :
        FoldLeft(LAMBDA list, name : Added(list, name), <<>>, FieldsOfTypes[t])
            = AddAll(FieldsOfTypes[t])

-----------------------------------------------------------------------------
(* The first dispatcher handles A and has the second for B, whose handler    *)
(* throws.  One of them has filters.                                       *)

OnlyA == [t \in TwoTypes |-> IF t = A THEN "yes" ELSE "no"]
OnlyB == [t \in TwoTypes |-> IF t = B THEN "yes" ELSE "no"]
Fails == [t \in TwoTypes |-> "throws"]

AnyFilter ==
    {Permit(Permit(Forbid(NewFilter(policy), forbidden), OnlyA), permitted) :
        policy \in Policies,
        permitted \in {OnlyB, Fails}, forbidden \in {OnlyA, OnlyB}}

First == AddDelegatedDispatcher(AddHandler(NewDispatcher, A, "returns"), 2)
Second == AddHandler(NewDispatcher, B, "throws")
FirstOrSecondFilters ==
    {<<AddFilter(First, x), Second>> : x \in AnyFilter}
    \cup {<<First, AddFilter(AddFilter(Second, NewFilter("PermitAllExceptForbidden")), x)>> :
             x \in AnyFilter}
=============================================================================
