------------------------------ MODULE PlanTree ------------------------------
(***************************************************************************)
(* The JSON values of a plan and the marker structures beside them          *)
(* (internal/plan/walk.go, raw.go and the flattening half of diff.go).      *)
(*                                                                          *)
(* A decoded JSON value is a tree.  It is represented by the function from  *)
(* the paths that exist in it to what stands at each path: "map", "list",   *)
(* "null", a string of Strings, or another scalar of Atoms (numbers and     *)
(* booleans).  A marker structure (after_unknown, before_sensitive,         *)
(* after_sensitive) is a tree of "map", "list", "true", "false" and "null". *)
(* The domain is finite and prefix-closed, only containers have something   *)
(* below them, lists at indices and maps at keys, and the root <<>> is      *)
(* always there: a value that is absent from the plan and a JSON null are   *)
(* both Go's nil.                                                           *)
(*                                                                          *)
(* A path is a sequence of segments.  Object keys are numbered in their     *)
(* alphabetical order; list indices are numbers already (toIndex accepts    *)
(* several Go number types, which all denote the same index).               *)
(***************************************************************************)
EXTENDS Naturals, Sequences, FiniteSets

CONSTANTS
    Strings,      \* the string scalars that occur in values
    EmptyString,  \* the string ""
    Atoms         \* the scalars that are not strings: numbers and booleans

Containers == {"map", "list"}
Flags == {"true", "false"}

ASSUME ValuesAreDisjoint ==
    /\ EmptyString \in Strings
    /\ Strings \cap Atoms = {}
    /\ (Strings \cup Atoms) \cap (Containers \cup Flags \cup {"null"}) = {}

Key(n) == [index |-> FALSE, at |-> n]
Index(i) == [index |-> TRUE, at |-> i]

Upto(path, n) == SubSeq(path, 1, n)
Covers(p, q) == Len(p) <= Len(q) /\ Upto(q, Len(p)) = p
Children(tree, p) == {q \in DOMAIN tree : Len(q) = Len(p) + 1 /\ Covers(p, q)}
At(tree, p) == IF p \in DOMAIN tree THEN tree[p] ELSE "null"

Segments == [index : BOOLEAN, at : Nat]
Tree(tree, nodes) ==
    /\ tree = [p \in DOMAIN tree |-> tree[p]]
    /\ << >> \in DOMAIN tree
    /\ DOMAIN tree \subseteq Seq(Segments) /\ IsFiniteSet(DOMAIN tree)
    /\ \A p \in DOMAIN tree :
         /\ tree[p] \in nodes
         /\ \A n \in 0 .. Len(p) - 1 :
              /\ Upto(p, n) \in DOMAIN tree /\ tree[Upto(p, n)] \in Containers
              /\ p[n + 1].index <=> tree[Upto(p, n)] = "list"

IsValue(v) == Tree(v, Strings \cup Atoms \cup Containers \cup {"null"})
IsMarker(m) == Tree(m, Flags \cup Containers \cup {"null"})

-----------------------------------------------------------------------------
(* walk.go: a path is marked by the node at which the walk along it stops. *)

\* The walk has taken n segments and cannot take another.
StopsAt(marks, path, n) ==
    /\ \A m \in 0 .. n : Upto(path, m) \in DOMAIN marks
    /\ n = Len(path) \/ Upto(path, n + 1) \notin DOMAIN marks

Marked(marks, path) ==
    \E n \in 0 .. Len(path) :
        StopsAt(marks, path, n) /\ marks[Upto(path, n)] = "true"

-----------------------------------------------------------------------------
(* raw.go and diff.go step into markers with child instead, where a bool    *)
(* stands for everything below it: the walk stays at the first one it       *)
(* meets.  Descend is the set of the one node it ends at, or {} for nil.    *)

\* Descend with a child that loses a bool instead of propagating it.
DescendForgettingFlags(marks, path) ==
    {p \in {path} : \A m \in 0 .. Len(p) : Upto(p, m) \in DOMAIN marks}

Descend(marks, path) ==
    {Upto(path, n) : n \in
        {k \in 0 .. Len(path) :
            /\ \A m \in 0 .. k : Upto(path, m) \in DOMAIN marks
            /\ \A m \in 0 .. k - 1 : marks[Upto(path, m)] \notin Flags
            /\ k = Len(path) \/ marks[Upto(path, k)] \in Flags}}

Flagged(marks, path) == \E at \in Descend(marks, path) : marks[at] = "true"

AnyMarkedBelow(marks, path) ==
    \E at \in Descend(marks, path) :
        \E q \in DOMAIN marks : Covers(at, q) /\ marks[q] = "true"

\* A change: the two values and the three marker structures.
TouchesSensitive(c, path) ==
    \E marks \in {c.beforeSensitive, c.afterSensitive} :
        Marked(marks, path) \/ AnyMarkedBelow(marks, path)

\* A reader returns {} for "not ok", and otherwise the one value it found,
\* told by what stands at its root.
Lookup(v, path) == IF path \in DOMAIN v THEN {v[path]} ELSE {}

\* RawBefore that forgets that a secret may lie below the path.
RawBeforeAtPathOnly(c, path) ==
    IF Marked(c.beforeSensitive, path) \/ Marked(c.afterSensitive, path)
    THEN {} ELSE Lookup(c.before, path)

RawBefore(c, path) ==
    IF TouchesSensitive(c, path) THEN {} ELSE Lookup(c.before, path)

RawAfter(c, path) ==
    IF \/ TouchesSensitive(c, path)
       \/ Marked(c.afterUnknown, path)
       \/ AnyMarkedBelow(c.afterUnknown, path)
    THEN {} ELSE Lookup(c.after, path)

-----------------------------------------------------------------------------
(* diff.go, flatten: the nodes walk visits below p.  An unknown node ends   *)
(* the walk; otherwise it goes to the keys or indices of the value, to      *)
(* those of an unknown marker of the same shape, and below an absent value  *)
(* to whatever the marker has.                                              *)

\* Below without the marker's own keys and indices.
BelowInValueOnly(v, unk, p) == IF Flagged(unk, p) THEN {} ELSE Children(v, p)

Below(v, unk, p) ==
    IF Flagged(unk, p) THEN {}
    ELSE Children(v, p)
            \cup (IF At(v, p) \in {"null", At(unk, p)} THEN Children(unk, p) ELSE {})

Visited(v, unk) ==
    {p \in DOMAIN v \cup DOMAIN unk :
        \A n \in 1 .. Len(p) : Upto(p, n) \in Below(v, unk, Upto(p, n - 1))}

\* A root that is null or an empty container yields no leaf at all.
IsLeaf(v, unk, p) ==
    /\ Below(v, unk, p) = {}
    /\ \/ p # << >>
       \/ Flagged(unk, p)
       \/ At(v, p) \notin Containers \cup {"null"}

Leaf(v, unk, sens, p) ==
    [raw       |-> IF Flagged(unk, p) THEN "null" ELSE At(v, p),
     unknown   |-> Flagged(unk, p),
     sensitive |-> Flagged(sens, p)]

Flatten(v, unk, sens) ==
    [p \in {q \in Visited(v, unk) : IsLeaf(v, unk, q)} |-> Leaf(v, unk, sens, p)]

=============================================================================
