------------------------------ MODULE RuleMatch ------------------------------
(***************************************************************************)
(* Planned changes, compiled rules, and when a rule selects a change        *)
(* (internal/rules/rules.go, Rule.Match).                                   *)
(*                                                                          *)
(* A selector of a rule is a set: {} when the rule does not set it, which   *)
(* Load guarantees is the only way for it to be empty.  A glob is the set   *)
(* of the strings it matches (module Glob has the matcher itself), and a    *)
(* predicate the set of the changes it judges true.                         *)
(***************************************************************************)
EXTENDS Naturals, Sequences, FiniteSets

CONSTANTS
    Types,      \* resource types
    Addresses,  \* resource addresses
    RuleIDs,    \* ids of rules
    Bodies      \* what else a change has: its values, its markers, where it moved from

Modes == {"managed", "data"}
Actions == {"no-op", "create", "read", "update", "delete", "replace", "forget", "unknown"}

\* Severities in their order; None is the zero value.
None == 0
Low == 1
Medium == 2
High == 3
Severities == {None, Low, Medium, High}

Changes ==
    [mode : Modes, action : Actions, type : Types, address : Addresses, body : Bodies]

Rules ==
    [id : RuleIDs, severity : Severities \ {None}, block : BOOLEAN,
     types : SUBSET SUBSET Types, actions : SUBSET (Actions \ {"unknown"}),
     addresses : SUBSET SUBSET Addresses, predicate : SUBSET SUBSET Changes]

\* The numbers in S, a finite set of them, in order.
Ascending[S \in SUBSET Nat] ==
    LET numbered(k) == {n \in S : Cardinality({m \in S : m <= n}) = k}
    IN  [k \in 1 .. Cardinality(S) |-> CHOOSE n \in numbered(k) : TRUE]

AnyGlob(globs, s) == \E g \in globs : s \in g

\* Match that lets any one selector decide.
MatchAnySelector(r, c) ==
    \/ AnyGlob(r.types, c.type)
    \/ c.action \in r.actions
    \/ AnyGlob(r.addresses, c.address)
    \/ \E holds \in r.predicate : c \in holds

Match(r, c) ==
    /\ r.types = {} \/ AnyGlob(r.types, c.type)
    /\ r.actions = {} \/ c.action \in r.actions
    /\ r.addresses = {} \/ AnyGlob(r.addresses, c.address)
    /\ r.predicate = {} \/ \E holds \in r.predicate : c \in holds

=============================================================================
