------------------------------- MODULE MCTrees -------------------------------
(***************************************************************************)
(* Values and markers for TLC: constructors of trees, and which markers     *)
(* Terraform can put beside a value.                                        *)
(***************************************************************************)
EXTENDS DiffEntry

Scalar(x) == << >> :> x
Node(kind, kids) ==
    [p \in {<< >>} \cup UNION {{<<s>> \o q : q \in DOMAIN kids[s]} : s \in DOMAIN kids} |->
        IF p = << >> THEN kind ELSE kids[p[1]][Tail(p)]]

Map(kids) == Node("map", kids)
List(elems) == Node("list", [s \in {Index(i - 1) : i \in DOMAIN elems} |-> elems[s.at + 1]])

Null == Scalar("null")
Yes == Scalar("true")
No == Scalar("false")

\* after_unknown has a true where the value has nothing, and its containers
\* stand over a container of the same kind, or over nothing when there is a
\* true in them.
UnknownFits(m, v) ==
    \A p \in DOMAIN m :
        /\ m[p] = "true"  => p \notin DOMAIN v \/ v[p] = "null"
        /\ m[p] = "false" => p \in DOMAIN v
        /\ m[p] \in Containers =>
              \/ At(v, p) = m[p]
              \/ At(v, p) = "null" /\ AnyMarkedBelow(m, p)

\* A sensitivity marker mirrors the value, and may mark what is unknown.
SensitiveFits(m, v, unk) ==
    \A p \in DOMAIN m :
        /\ m[p] \in Containers \cup {"false"} => p \in DOMAIN v
        /\ m[p] \in Containers => v[p] = m[p]
        /\ m[p] = "true" => p \in DOMAIN v \/ Marked(unk, p)

BeforesOver(values, marks) ==
    {<<v, s>> \in values \X marks : SensitiveFits(s, v, NoMarks)}

AftersOver(values, unknowns, marks) ==
    UNION {{<<v, u, s>> : s \in {m \in marks : SensitiveFits(m, v, u)}}
             : <<v, u>> \in {x \in values \X unknowns : UnknownFits(x[2], x[1])}}

=============================================================================
