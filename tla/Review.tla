------------------------------- MODULE Review -------------------------------
(***************************************************************************)
(* What a review promises, without saying how it is computed: the changes   *)
(* of the plan are considered in plan order, one at a time, and a change    *)
(* that belongs in the review enters the report with the set of all rules   *)
(* that match it and the highest of their severities.  Data sources never   *)
(* belong, a no-op belongs when a rule matches it, and everything else      *)
(* does, changes with an unknown action included.                           *)
(***************************************************************************)
EXTENDS RuleMatch

CONSTANTS
    Plans,    \* sequences of planned changes
    RuleSets  \* sequences of rules, as the rules file lists them

VARIABLES
    plan,    \* the changes under review
    rules,   \* the loaded rules
    next,    \* the change to consider next
    report   \* the results so far

rvars == <<plan, rules, next, report>>

Matching(rs, c) == {k \in DOMAIN rs : Match(rs[k], c)}

Belongs(rs, c) ==
    /\ c.mode # "data"
    /\ c.action = "no-op" => Matching(rs, c) # {}

\* s is the highest severity among the rules ks, None if there are none.
IsHighest(rs, ks, s) ==
    IF ks = {} THEN s = None
    ELSE /\ \E k \in ks : rs[k].severity = s
         /\ \A k \in ks : rs[k].severity <= s

RInit ==
    /\ plan \in Plans
    /\ rules \in RuleSets
    /\ next = 1
    /\ report = << >>

Leave ==
    /\ next <= Len(plan)
    /\ ~Belongs(rules, plan[next])
    /\ next' = next + 1
    /\ UNCHANGED <<plan, rules, report>>

Enter ==
    /\ next <= Len(plan)
    /\ Belongs(rules, plan[next])
    /\ next' = next + 1
    /\ \E s \in Severities :
         /\ IsHighest(rules, Matching(rules, plan[next]), s)
         /\ report' =
              Append(report, [change   |-> plan[next],
                              matched  |-> {rules[k].id : k \in Matching(rules, plan[next])},
                              severity |-> s])
    /\ UNCHANGED <<plan, rules>>

RNext == Leave \/ Enter

RSafety == RInit /\ [][RNext]_rvars
RSpec == RSafety /\ WF_rvars(RNext)

=============================================================================
