------------------------------ MODULE Classify ------------------------------
(***************************************************************************)
(* internal/classify/classify.go: Classify evaluates every rule against     *)
(* every change.  One action per turn of its two loops.                     *)
(***************************************************************************)
EXTENDS RuleMatch

CONSTANTS
    Plans,    \* sequences of planned changes
    RuleSets  \* sequences of rules, as the rules file lists them

\* plan.Parse returns typed changes and rules.Load typed rules.
ASSUME InputsAreTyped == Plans \subseteq Seq(Changes) /\ RuleSets \subseteq Seq(Rules)

\* rules.Load rejects a file in which two rules have one id.
ASSUME IdsAreUnique ==
    \A rs \in RuleSets : \A k, l \in DOMAIN rs : rs[k].id = rs[l].id => k = l

VARIABLES
    pc,     \* "changes": at the head of the outer loop; "rules": of the inner one
    plan,   \* the argument changes
    rules,  \* set.Rules
    i,      \* index of the change at hand
    j,      \* index of the rule at hand
    res,    \* the Result being built for the change at hand
    out     \* the Results so far

vars == <<pc, plan, rules, i, j, res, out>>

\* What Match records of a rule; every predicate gives a detail when it holds.
Hit(r) ==
    [id |-> r.id, severity |-> r.severity, block |-> r.block, detail |-> r.predicate # {}]
Hits == [id : RuleIDs, severity : Severities \ {None}, block : BOOLEAN, detail : BOOLEAN]

NoResult == [matches |-> << >>, severity |-> None]
Matched(result) == Len(result.matches) > 0

\* AddMatch where the last match decides the severity.
AddMatchLastWins(result, r) ==
    [matches |-> Append(result.matches, Hit(r)), severity |-> r.severity]

\* AddMatch that adds the severities up.
AddMatchAddsUp(result, r) ==
    [matches  |-> Append(result.matches, Hit(r)),
     severity |-> result.severity + r.severity]

\* AddMatch that puts the newest match first.
AddMatchInFront(result, r) ==
    [matches  |-> <<Hit(r)>> \o result.matches,
     severity |-> IF r.severity > result.severity THEN r.severity ELSE result.severity]

AddMatch(result, r) ==
    [matches  |-> Append(result.matches, Hit(r)),
     severity |-> IF r.severity > result.severity THEN r.severity ELSE result.severity]

\* Dropped without the exception for a no-op a rule matched.
DroppedAlways(c, result) == c.action = "no-op"

Dropped(c, result) == c.action = "no-op" /\ ~Matched(result)

Init ==
    /\ pc = "changes"
    /\ plan \in Plans
    /\ rules \in RuleSets
    /\ i = 1 /\ j = 1
    /\ res = NoResult
    /\ out = << >>

SkipData ==
    /\ pc = "changes" /\ i <= Len(plan)
    /\ plan[i].mode = "data"
    /\ i' = i + 1
    /\ UNCHANGED <<pc, plan, rules, j, res, out>>

StartChange ==
    /\ pc = "changes" /\ i <= Len(plan)
    /\ plan[i].mode # "data"
    /\ pc' = "rules"
    /\ j' = 1
    /\ res' = NoResult
    /\ UNCHANGED <<plan, rules, i, out>>

TryRule ==
    /\ pc = "rules" /\ j <= Len(rules)
    /\ res' = IF Match(rules[j], plan[i]) THEN AddMatch(res, rules[j]) ELSE res
    /\ j' = j + 1
    /\ UNCHANGED <<pc, plan, rules, i, out>>

DropNoOp ==
    /\ pc = "rules" /\ j > Len(rules)
    /\ Dropped(plan[i], res)
    /\ i' = i + 1
    /\ pc' = "changes"
    /\ UNCHANGED <<plan, rules, j, res, out>>

Keep ==
    /\ pc = "rules" /\ j > Len(rules)
    /\ ~Dropped(plan[i], res)
    /\ out' = Append(out, [change   |-> plan[i],
                           matches  |-> res.matches,
                           severity |-> res.severity])
    /\ i' = i + 1
    /\ pc' = "changes"
    /\ UNCHANGED <<plan, rules, j, res>>

Next == SkipData \/ StartChange \/ TryRule \/ DropNoOp \/ Keep

Spec == Init /\ [][Next]_vars /\ WF_vars(Next)

-----------------------------------------------------------------------------
(* Properties *)

\* The state has the shape of the Go variables, and the indices stay in
\* their loops.
TypeOK ==
    /\ pc \in {"changes", "rules"}
    /\ plan \in Plans /\ rules \in RuleSets
    /\ i \in 1 .. Len(plan) + 1
    /\ j \in 1 .. Len(rules) + 1
    /\ pc = "rules" => i <= Len(plan)
    /\ res \in [matches : Seq(Hits), severity : Severities]
    /\ out \in Seq([change : Changes, matches : Seq(Hits), severity : Severities])

\* A result's severity is the highest of its matches, and None exactly when
\* there is no match, while the result is built and after (Result.Severity).
Highest(matches, severity) ==
    /\ severity = None <=> matches = << >>
    /\ severity # None => \E m \in DOMAIN matches : matches[m].severity = severity
    /\ \A m \in DOMAIN matches : matches[m].severity <= severity

SeverityIsHighest ==
    /\ Highest(res.matches, res.severity)
    /\ \A k \in DOMAIN out : Highest(out[k].matches, out[k].severity)

\* Matches are listed in the order of the rules file and no rule is listed
\* twice.
Place(id) == CHOOSE k \in DOMAIN rules : rules[k].id = id

MatchesFollowTheRules ==
    \A k \in DOMAIN out :
        \A m, n \in DOMAIN out[k].matches :
            m < n => Place(out[k].matches[m].id) < Place(out[k].matches[n].id)

-----------------------------------------------------------------------------
(* Refinement: the loops implement the abstract review. *)

Reported(result) ==
    [change   |-> result.change,
     matched  |-> {result.matches[m].id : m \in DOMAIN result.matches},
     severity |-> result.severity]

R == INSTANCE Review WITH
        next <- i,
        report <- [k \in DOMAIN out |-> Reported(out[k])]

\* Classify keeps the promise of Review: every change that belongs in the
\* review is reported, once, in plan order, with all the rules that match it
\* and the highest severity; nothing else is, and the whole plan is reviewed.
ReviewsEveryChange == R!RSpec

=============================================================================
