---------------------------- MODULE FilterRules ----------------------------
(***************************************************************************)
(* The evaluation of a traffic filter (services/firewall.rs): the groups   *)
(* of rules of a policy become a postfix expression, which the library     *)
(* rpn-predicate-interpreter evaluates with a stack.                       *)
(***************************************************************************)
EXTENDS Naturals, Sequences

CONSTANTS FrRules,        \* rules on offer: [field, condition, values]
          FrCountries,    \* countries an address may have
          FrAddresses,
          FrMaxGroups, FrMaxRules    \* bounds on a policy

VARIABLES frPolicy,       \* [kind, groups]
          frCtx,          \* FilterContext: [ip, country]
          frAt,           \* the token evaluated next
          frStack

frVars == <<frPolicy, frCtx, frAt, frStack>>

\* evaluate_predicate, compare_str, compare_ip: a rule about a country does
\* not match an address whose country is unknown, whatever its condition.
FaultyRuleMatches(rule, ctx) ==
    CASE rule.condition = "equal" -> ctx.country \in rule.values
      [] rule.condition = "not_equal" -> ctx.country \notin rule.values
      [] rule.condition = "contains" -> ctx.ip \in rule.values
      [] rule.condition = "not_contains" -> ctx.ip \notin rule.values
RuleMatches(rule, ctx) ==
    /\ rule.field = "country" => ctx.country # "unknown"
    /\ CASE rule.condition = "equal" -> ctx.country \in rule.values
         [] rule.condition = "not_equal" -> ctx.country \notin rule.values
         [] rule.condition = "contains" -> ctx.ip \in rule.values
         [] rule.condition = "not_contains" -> ctx.ip \notin rule.values

\* to_postfix: the place of the token after `at' in the expression.  After its
\* first rule each rule of a group is followed by an And, after the first
\* group each group by an Or.  The place past the last group is the end.
Place(gi, ri, op) == [gi |-> gi, ri |-> ri, op |-> op]

FaultyToPostfix(groups, at) ==
    IF at.op = "predicate" /\ at.gi + at.ri > 2 THEN Place(at.gi, at.ri, "and")
    ELSE IF at.ri < Len(groups[at.gi]) THEN Place(at.gi, at.ri + 1, "predicate")
    ELSE Place(at.gi + 1, 1, "predicate")
ToPostfix(groups, at) ==
    IF at.op = "predicate" /\ at.ri > 1 THEN Place(at.gi, at.ri, "and")
    ELSE IF at.ri < Len(groups[at.gi]) THEN Place(at.gi, at.ri + 1, "predicate")
    ELSE IF at.op # "or" /\ at.gi > 1 THEN Place(at.gi, at.ri, "or")
    ELSE Place(at.gi + 1, 1, "predicate")

RuleLists == UNION {[1..n -> FrRules] : n \in 1..FrMaxRules}

\* FilterPolicy::validate leaves no empty list of groups, and no empty group.
RulesInit ==
    /\ frPolicy \in [kind : {"block", "allow"}, groups : UNION {[1..n -> RuleLists] : n \in 1..FrMaxGroups}]
    /\ frCtx \in [ip : FrAddresses, country : FrCountries \cup {"unknown"}]
    /\ frAt = Place(1, 1, "predicate")
    /\ frStack = <<>>

Done == frAt.gi > Len(frPolicy.groups)

\* PostfixExpression::evaluate, one token
EvaluateToken ==
    LET n == Len(frStack) IN
    /\ ~Done
    /\ frStack' = IF frAt.op = "predicate"
                  THEN Append(frStack, RuleMatches(frPolicy.groups[frAt.gi][frAt.ri], frCtx))
                  ELSE Append(SubSeq(frStack, 1, n - 2),
                              IF frAt.op = "and" THEN frStack[n - 1] /\ frStack[n] ELSE frStack[n - 1] \/ frStack[n])
    /\ frAt' = ToPostfix(frPolicy.groups, frAt)
    /\ UNCHANGED <<frPolicy, frCtx>>

RulesNext == EvaluateToken
RulesSpec == RulesInit /\ [][RulesNext]_frVars

PolicyAllows == IF frPolicy.kind = "block" THEN ~frStack[1] ELSE frStack[1]

-----------------------------------------------------------------------------
\* The expression means what the editor shows: groups are alternatives, and a
\* group matches when all its rules do.
PostfixIsOrOfAnds ==
    Done => frStack = <<\E gi \in DOMAIN frPolicy.groups :
                           \A ri \in DOMAIN frPolicy.groups[gi] : RuleMatches(frPolicy.groups[gi][ri], frCtx)>>

\* Rules about countries alone, and a country that is unknown: a block list
\* lets the traffic pass and an allow list does not (ServiceToml: "unknown ->
\* allow", "unknown -> deny"), also when the rules are negated.
UnknownFollowsKind ==
    (/\ Done /\ frCtx.country = "unknown"
     /\ \A gi \in DOMAIN frPolicy.groups : \A ri \in DOMAIN frPolicy.groups[gi] :
            frPolicy.groups[gi][ri].field = "country")
        => PolicyAllows = (frPolicy.kind = "block")

\* A policy is the disjunction of its groups, a group the conjunction of its
\* rules, and what is unknown never widens it (firewall.rs).
RulesMeanOrOfAnds == PostfixIsOrOfAnds /\ UnknownFollowsKind
=============================================================================
