-------------------------- MODULE MessageDispatcher --------------------------
(***************************************************************************)
(* MessageDispatchers, their handlers, delegates and filters.  All of them *)
(* are set up before messages arrive: a dispatcher is a record that its    *)
(* operations map to another, and dispatching a message of a type has an   *)
(* outcome.  A rule is the verdict it gives on each type.                  *)
(***************************************************************************)
EXTENDS Integers, Sequences, SequencesExt

Verdicts == {"yes", "no", "throws"}

-----------------------------------------------------------------------------
(* RuleBasedMessageFilter.                                                 *)

Policies == {"ExactMatchingToAccessList", "PermitAllExceptForbidden", "ForbidAllExceptPermitted"}

NewFilter(policy) == [policy |-> policy, permitted |-> <<>>, forbidden |-> <<>>]
Permit(filter, rule) == [filter EXCEPT !.permitted = Append(@, rule)]
Forbid(filter, rule) == [filter EXCEPT !.forbidden = Append(@, rule)]

\* std::any_of stops at the first rule that says yes or throws.
Satisfies(type, rules) ==
    LET i == SelectInSeq(rules, LAMBDA rule : rule[type] # "no")
    IN  IF i = 0 THEN "no" ELSE rules[i][type]

Negation == [yes |-> "no", no |-> "yes", throws |-> "throws"]

Matches_permitted_first(filter, type) ==
    LET permitted == Satisfies(type, filter.permitted)
        forbidden == Satisfies(type, filter.forbidden)
    IN  CASE filter.policy = "PermitAllExceptForbidden" -> Negation[forbidden]
          [] filter.policy = "ForbidAllExceptPermitted" -> permitted
          [] OTHER -> IF permitted = "no" THEN Negation[forbidden] ELSE permitted
Matches(filter, type) ==
    LET permitted == Satisfies(type, filter.permitted)
        forbidden == Satisfies(type, filter.forbidden)
    IN  CASE filter.policy = "PermitAllExceptForbidden" -> Negation[forbidden]
          [] filter.policy = "ForbidAllExceptPermitted" -> permitted
          [] OTHER -> IF permitted = "yes" THEN Negation[forbidden] ELSE permitted

\* MessageFilterChain::matches stops at the first filter that does not match.
ChainMatches(filters, type) ==
    LET i == SelectInSeq(filters, LAMBDA filter : Matches(filter, type) # "yes")
    IN  IF i = 0 THEN "yes" ELSE Matches(filters[i], type)

-----------------------------------------------------------------------------
(* MessageDispatcher.  A handler returns or throws.                        *)

NewDispatcher == [handlers |-> <<>>, delegates |-> <<>>, filters |-> <<>>]
AddHandler(d, type, handler) == [d EXCEPT !.handlers = (type :> handler) @@ @]
AddDelegatedDispatcher(d, e) == [d EXCEPT !.delegates = Append(@, e)]
AddFilter(d, filter) == [d EXCEPT !.filters = Append(@, filter)]

HasHandler(d, type) == type \in DOMAIN d.handlers

\* The handler's own dispatcher filters, and exceptions are swallowed.
Handle(dispatchers, i, type) ==
    LET asked == dispatchers[i]
        verdict == ChainMatches(asked.filters, type)
    IN  [by |-> i,
         what |-> CASE verdict = "yes" -> IF asked.handlers[type] = "throws" THEN "failed" ELSE "handled"
                    [] verdict = "no" -> "rejected"
                    [] OTHER -> "dropped"]

Dropped(i) == [by |-> i, what |-> "dropped"]

\* doDispatch: the first delegate with a handler of its own is asked if there is none.
Dispatch_filtered_here(dispatchers, i, type) ==
    IF HasHandler(dispatchers[i], type) THEN Handle(dispatchers, i, type) ELSE Dropped(i)
Dispatch(dispatchers, i, type) ==
    LET asked == dispatchers[i]
        k == SelectInSeq(asked.delegates, LAMBDA e : HasHandler(dispatchers[e], type))
    IN  IF HasHandler(asked, type) THEN Handle(dispatchers, i, type)
        ELSE IF k # 0 THEN Handle(dispatchers, asked.delegates[k], type)
        ELSE Dropped(i)
=============================================================================
