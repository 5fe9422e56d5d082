-------------------------------- MODULE Glob --------------------------------
(***************************************************************************)
(* rules.Glob (internal/rules/rules.go): the greedy matcher of the type and *)
(* address selectors.  A pattern is the sequence of its literal parts, the  *)
(* parts strings.Split cuts it into at every "*"; a string is a sequence of *)
(* characters, of which the first `at` ones have been consumed.             *)
(***************************************************************************)
EXTENDS Naturals, Sequences

CONSTANTS
    Chars,     \* characters other than "*"
    Patterns,  \* patterns, as sequences of literal parts
    Subjects   \* the strings patterns are matched against

ASSUME GlobInputs ==
    /\ Patterns \subseteq Seq(Seq(Chars)) \ {<< >>}
    /\ Subjects \subseteq Seq(Chars)

VARIABLES
    pc,     \* "start", "middle" (the loop over the inner parts) or "done"
    parts,  \* the parts of the pattern
    s,      \* the string
    at,     \* how many characters of s the parts before m have consumed
    m,      \* the part to find next
    ok      \* the result

vars == <<pc, parts, s, at, m, ok>>

\* part stands in s right after the first p characters.
OccursAt(part, p) ==
    /\ p + Len(part) <= Len(s)
    /\ \A k \in 1 .. Len(part) : s[p + k] = part[k]

\* FoundAt that takes the last occurrence instead of the first.
FoundAtLast(part, p) ==
    OccursAt(part, p) /\ \A q \in p + 1 .. Len(s) : ~OccursAt(part, q)

\* strings.Index on the rest of s.
FoundAt(part, p) ==
    OccursAt(part, p) /\ \A q \in at .. p - 1 : ~OccursAt(part, q)

\* EndsWith on the whole string, where the suffix may reach back into
\* characters that are consumed already.
EndsWithAnywhere(part) ==
    Len(part) <= Len(s) /\ OccursAt(part, Len(s) - Len(part))

EndsWith(part) ==
    at + Len(part) <= Len(s) /\ OccursAt(part, Len(s) - Len(part))

Init ==
    /\ pc = "start"
    /\ parts \in Patterns
    /\ s \in Subjects
    /\ at = 0 /\ m = 1 /\ ok = FALSE

Decide(result) ==
    /\ ok' = result
    /\ pc' = "done"
    /\ UNCHANGED <<parts, s, at, m>>

Whole ==
    /\ pc = "start" /\ Len(parts) = 1
    /\ Decide(parts[1] = s)

NoPrefix ==
    /\ pc = "start" /\ Len(parts) > 1
    /\ ~OccursAt(parts[1], 0)
    /\ Decide(FALSE)

Prefix ==
    /\ pc = "start" /\ Len(parts) > 1
    /\ OccursAt(parts[1], 0)
    /\ at' = Len(parts[1])
    /\ m' = 2
    /\ pc' = "middle"
    /\ UNCHANGED <<parts, s, ok>>

NoMiddle ==
    /\ pc = "middle" /\ m < Len(parts)
    /\ \A p \in at .. Len(s) : ~OccursAt(parts[m], p)
    /\ Decide(FALSE)

\* After that also consumes a character for the "*".
AfterStar(part, p) == p + Len(part) + 1

After(part, p) == p + Len(part)

Middle ==
    /\ pc = "middle" /\ m < Len(parts)
    /\ \E p \in at .. Len(s) :
         FoundAt(parts[m], p) /\ at' = After(parts[m], p)
    /\ m' = m + 1
    /\ UNCHANGED <<pc, parts, s, ok>>

Suffix ==
    /\ pc = "middle" /\ m = Len(parts)
    /\ Decide(EndsWith(parts[m]))

Next == Whole \/ NoPrefix \/ Prefix \/ NoMiddle \/ Middle \/ Suffix

Spec == Init /\ [][Next]_vars /\ WF_vars(Next)

-----------------------------------------------------------------------------
(* Properties *)

\* The consumed part never runs past the string, and the loop stays inside
\* the pattern (the slicing of s in Glob is in bounds).
TypeOK ==
    /\ pc \in {"start", "middle", "done"}
    /\ parts \in Patterns /\ s \in Subjects
    /\ at \in 0 .. Len(s)
    /\ m \in 1 .. Len(parts)
    /\ pc = "middle" => m > 1
    /\ ok \in BOOLEAN

\* What it means that s matches the pattern: the parts can be placed in s one
\* after the other, the first at the start and the last at the end, with any
\* run of characters between them.
Placements ==
    {f \in [1 .. Len(parts) -> 0 .. Len(s)] :
        /\ f[1] = 0
        /\ \A k \in 1 .. Len(parts) : OccursAt(parts[k], f[k])
        /\ \A k \in 1 .. Len(parts) - 1 : f[k] + Len(parts[k]) <= f[k + 1]
        /\ f[Len(parts)] + Len(parts[Len(parts)]) = Len(s)}

\* Glob returns true exactly for the strings that match: one pass without
\* backtracking misses no match and accepts no string whose prefix and suffix
\* would have to overlap.
GlobIsExact == pc = "done" => (ok <=> Placements # {})

\* Taking the first occurrence of each part never loses a match: in every
\* placement the parts still to find lie in what is not consumed yet.
GreedyLosesNoMatch == pc = "middle" => \A f \in Placements : at <= f[m]

=============================================================================
