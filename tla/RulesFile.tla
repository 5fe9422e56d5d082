------------------------------ MODULE RulesFile ------------------------------
(***************************************************************************)
(* A decoded rules file (rawFile of internal/rules/rules.go) and what it    *)
(* means: which changes each of its rules speaks of, and when it is in      *)
(* order.                                                                   *)
(*                                                                          *)
(* A list of the file is {} when the field is not there (a nil slice) and   *)
(* {l} when it is there with the elements l, of which there may be none.    *)
(***************************************************************************)
EXTENDS RuleMatch

CONSTANTS
    GlobMatches,  \* what Glob matches: a function from patterns to sets of strings
    Registry  \* a function from predicate names to the changes they judge true

NoName == ""  \* a string field that is not set, and the empty pattern
Verdicts == {"approve", "needs-attention", "block"}

\* Lists hold patterns and names; what else a field may hold is up to Load.
RawRule(rr) ==
    /\ rr = [id |-> rr.id, severity |-> rr.severity, verdict |-> rr.verdict,
             types |-> rr.types, actions |-> rr.actions,
             addresses |-> rr.addresses, predicate |-> rr.predicate]
    /\ rr.id \in RuleIDs \cup {NoName}
    /\ rr.types \subseteq SUBSET DOMAIN GlobMatches
    /\ rr.addresses \subseteq SUBSET DOMAIN GlobMatches
    /\ \A l1, l2 \in rr.types : l1 = l2
    /\ \A l1, l2 \in rr.addresses : l1 = l2
    /\ \A l1, l2 \in rr.actions : l1 = l2

RawFile(f) ==
    /\ f = [decodes |-> f.decodes, version |-> f.version,
            destructive |-> f.destructive, other |-> f.other, rules |-> f.rules]
    /\ f.decodes \in {"yes", "empty", "invalid"}
    /\ f.rules \in Seq({f.rules[k] : k \in DOMAIN f.rules})
    /\ \A k \in DOMAIN f.rules : RawRule(f.rules[k])

ASSUME RegistryIsTyped ==
    /\ NoName \notin RuleIDs \cup DOMAIN Registry
    /\ \A n \in DOMAIN Registry : Registry[n] \subseteq Changes

\* What a rule of the file says of a change: every field that is there must
\* match.
Says(rr, c) ==
    /\ \A patterns \in rr.types : \E p \in patterns : c.type \in GlobMatches[p]
    /\ \A names \in rr.actions : c.action \in names
    /\ \A patterns \in rr.addresses : \E p \in patterns : c.address \in GlobMatches[p]
    /\ rr.predicate # NoName =>
         rr.predicate \in DOMAIN Registry /\ c \in Registry[rr.predicate]

\* A rule that cannot stand in any file: an unset or unknown name where one
\* is needed, a list without a usable element, or no selector at all.
IllFormed(rr) ==
    \/ rr.id = NoName
    \/ rr.severity \notin {"low", "medium", "high"}
    \/ rr.verdict \notin {NoName, "block"}
    \/ {} \in rr.types \cup rr.actions \cup rr.addresses
    \/ NoName \in UNION (rr.types \cup rr.addresses)
    \/ ~(UNION rr.actions \subseteq Actions \ {"unknown"})
    \/ rr.predicate # NoName /\ rr.predicate \notin DOMAIN Registry
    \/ {rr.types, rr.actions, rr.addresses} = {{}} /\ rr.predicate = NoName

\* The rules no file with f's other rules can have, and its invalid verdicts.
BadRulesIn(f) ==
    {k \in DOMAIN f.rules :
        \/ IllFormed(f.rules[k])
        \/ f.rules[k].id # NoName
             /\ \E l \in 1 .. k - 1 : f.rules[l].id = f.rules[k].id}

BadVerdictIn(f) == ~({f.destructive, f.other} \subseteq Verdicts \cup {NoName})

\* Load accepts f.
InOrder(f) ==
    /\ f.decodes = "yes" /\ f.version = 1
    /\ BadRulesIn(f) = {} /\ ~BadVerdictIn(f)

=============================================================================
