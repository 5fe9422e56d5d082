------------------------------ MODULE DiffEntry ------------------------------
(***************************************************************************)
(* Leaves and entries of a diff (internal/plan/diff.go): how a leaf is      *)
(* rendered, what an entry holds, and the diff of a change as one function  *)
(* from its paths to their entries, which is what predicates work on.       *)
(* Module ChangeDiff computes it the way Change.Diff does.                  *)
(***************************************************************************)
EXTENDS PlanTree, TLC

Absent == "absent"  \* the empty string of DiffEntry
KnownAfterApply == "(known after apply)"
SensitiveValue == "(sensitive)"
Placeholders == {Absent, KnownAfterApply, SensitiveValue, "{}", "[]", "null"}

ASSUME LiteralsAreNoPlaceholders ==
    (Strings \cup Atoms) \cap Placeholders = {}

NoMarks == [p \in {<< >>} |-> "null"]

\* Literal that does not know the empty containers.
LiteralOfScalar(raw) == raw

\* A scalar's literal is unambiguous (strings are quoted), so the scalar itself
\* stands for it.
Literal(raw) ==
    IF raw = "map" THEN "{}" ELSE IF raw = "list" THEN "[]" ELSE raw

\* render: sensitive wins over unknown.
Render(leaf) ==
    IF leaf.sensitive THEN SensitiveValue
    ELSE IF leaf.unknown THEN KnownAfterApply
    ELSE Literal(leaf.raw)

Leaves ==
    [raw : Strings \cup Atoms \cup Containers \cup {"null"},
     unknown : BOOLEAN, sensitive : BOOLEAN]

IsNull(leaf) == leaf.raw = "null" /\ ~leaf.unknown

NoEntry ==
    [before |-> Absent, after |-> Absent, changed |-> FALSE, unknown |-> FALSE,
     beforeSensitive |-> FALSE, afterSensitive |-> FALSE,
     beforeNull |-> FALSE, afterNull |-> FALSE]

Shown == Strings \cup Atoms \cup Placeholders
Entry ==
    [before : Shown, after : Shown, changed : BOOLEAN, unknown : BOOLEAN,
     beforeSensitive : BOOLEAN, afterSensitive : BOOLEAN,
     beforeNull : BOOLEAN, afterNull : BOOLEAN]

\* The values of string leaves that are marked on their own side.
SecretsIn(leaves) ==
    {leaves[p].raw : p \in {q \in DOMAIN leaves : leaves[q].sensitive}}
        \cap (Strings \ {EmptyString})

Hide(shown, secret) == IF shown # Absent /\ secret THEN SensitiveValue ELSE shown

-----------------------------------------------------------------------------
(* The diff in one piece. *)

BeforeLeaves(c) == Flatten(c.before, NoMarks, c.beforeSensitive)
AfterLeaves(c) == Flatten(c.after, c.afterUnknown, c.afterSensitive)

\* What one side of an entry shows.
Side(leaves, p, hidden) ==
    IF p \in DOMAIN leaves THEN Hide(Render(leaves[p]), hidden) ELSE Absent

Diff(c) ==
    LET old == BeforeLeaves(c)
        new == AfterLeaves(c)
        secrets == SecretsIn(old) \cup SecretsIn(new)
        is(leaves, p, property) == p \in DOMAIN leaves /\ leaves[p][property]
        marked(p) == is(old, p, "sensitive") \/ is(new, p, "sensitive")
        repeats(leaves, p) == p \in DOMAIN leaves /\ leaves[p].raw \in secrets
        null(leaves, p) == p \in DOMAIN leaves /\ IsNull(leaves[p])
    IN  [p \in DOMAIN old \cup DOMAIN new |->
            [before          |-> Side(old, p, marked(p) \/ repeats(old, p)),
             after           |-> Side(new, p, marked(p) \/ repeats(new, p)),
             changed         |-> \/ p \notin DOMAIN old \cap DOMAIN new
                                 \/ new[p].unknown
                                 \/ old[p].raw # new[p].raw,
             unknown         |-> is(new, p, "unknown"),
             beforeSensitive |-> is(old, p, "sensitive"),
             afterSensitive  |-> is(new, p, "sensitive"),
             beforeNull      |-> null(old, p),
             afterNull       |-> null(new, p)]]

=============================================================================
