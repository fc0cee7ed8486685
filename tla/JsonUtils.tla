------------------------------- MODULE JsonUtils -------------------------------
(***************************************************************************)
(* JsonUtils::merge.  A Json::Value is an object, which has members by     *)
(* name, or another value.                                                 *)
(***************************************************************************)
EXTENDS TLC

Json(value) == [object |-> FALSE, value |-> value]
JsonObject(members) == [object |-> TRUE, members |-> members]

\* What lhs is afterwards.  What merge returns for a member is not looked at: a member
\* that is an object on the left only stays as it is.
RECURSIVE Merged(_, _)
Merged(lhs, rhs) ==
    LET Member(name) ==
            CASE name \notin DOMAIN rhs.members -> lhs.members[name]
              [] name \in DOMAIN lhs.members /\ lhs.members[name].object ->
                     Merged(lhs.members[name], rhs.members[name])
              [] OTHER -> rhs.members[name]
    IN  IF lhs.object /\ rhs.object
        THEN JsonObject([name \in DOMAIN lhs.members \cup DOMAIN rhs.members |-> Member(name)])
        ELSE lhs

MergeDone(lhs, rhs) == lhs.object /\ rhs.object
=============================================================================
