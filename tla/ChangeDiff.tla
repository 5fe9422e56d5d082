----------------------------- MODULE ChangeDiff -----------------------------
(***************************************************************************)
(* Change.Diff of internal/plan/diff.go: the two values of a change are     *)
(* flattened to leaves, the leaves are merged into entries, changed paths   *)
(* are marked, whatever is sensitive or repeats a sensitive value is        *)
(* masked, and the entries are sorted by path.  One action per loop of the  *)
(* function; entries are keyed by their path, as byKey keys them by         *)
(* pathKey.                                                                 *)
(***************************************************************************)
EXTENDS DiffEntry

CONSTANT Changes  \* the changes Diff is called on

\* Values and markers are decoded JSON, and terraform show writes a part of
\* the new value that is unknown as null or not at all.
ASSUME PlanIsWellFormed ==
    \A c \in Changes :
        /\ IsValue(c.before) /\ IsMarker(c.beforeSensitive)
        /\ IsValue(c.after) /\ IsMarker(c.afterUnknown) /\ IsMarker(c.afterSensitive)
        /\ \A p \in DOMAIN c.after : Marked(c.afterUnknown, p) => c.after[p] = "null"

\* terraform show derives markers from the values they stand beside.  What it
\* marks sensitive is a part of the value or unknown itself; an unknown marker
\* has what the value has or something unknown, and its containers stand over
\* one of their kind or over nothing.
ASSUME MarkersFitValues ==
    \A c \in Changes :
        /\ DOMAIN c.beforeSensitive \subseteq DOMAIN c.before
        /\ \A p \in DOMAIN c.afterSensitive :
             p \in DOMAIN c.after \/ At(c.afterUnknown, p) = "true"
        /\ \A p \in DOMAIN c.afterUnknown :
             /\ p \in DOMAIN c.after \/ AnyMarkedBelow(c.afterUnknown, p)
             /\ c.afterUnknown[p] \in Containers
                  => At(c.after, p) \in {"null", c.afterUnknown[p]}

VARIABLES
    pc,       \* the loop Diff is about to run
    change,   \* the receiver c
    before,   \* leaves of c.Before, by path
    after,    \* leaves of c.After, by path
    entries,  \* byKey: the entry of each path
    out       \* the sorted result, as the sequence of its paths

vars == <<pc, change, before, after, entries, out>>

EntryAt(p) == IF p \in DOMAIN entries THEN entries[p] ELSE NoEntry

\* Indices as text, for LessSegmentAsText: of two numbers below 100 the one
\* that is less as text is less when the shorter one is filled up with a zero.
Padded(n) == IF n < 10 THEN 10 * n ELSE n

\* LessSegment that compares indices as text.
LessSegmentAsText(s, t) ==
    IF s.index /\ t.index
    THEN \/ Padded(s.at) < Padded(t.at)
         \/ Padded(s.at) = Padded(t.at) /\ s.at < t.at
    ELSE IF s.index = t.index THEN s.at < t.at ELSE s.index

\* lessPath: indices before keys, indices by number, keys by name, and a
\* path before its extensions.
LessSegment(s, t) ==
    IF s.index = t.index THEN s.at < t.at ELSE s.index

\* LessPath that sorts shorter paths first.
LessPathByLength(p, q) ==
    \/ Len(p) < Len(q)
    \/ /\ Len(p) = Len(q)
       /\ \E n \in 1 .. Len(p) :
            Upto(p, n - 1) = Upto(q, n - 1) /\ LessSegment(p[n], q[n])

LessPath(p, q) ==
    \/ \E n \in 1 .. Len(p) :
          /\ n <= Len(q)
          /\ Upto(p, n - 1) = Upto(q, n - 1)
          /\ LessSegment(p[n], q[n])
    \/ Len(p) < Len(q) /\ Covers(p, q)

-----------------------------------------------------------------------------
Init ==
    /\ pc = "flatten"
    /\ change \in Changes
    /\ before = << >> /\ after = << >> /\ entries = << >> /\ out = << >>

FlattenBoth ==
    /\ pc = "flatten"
    /\ before' = Flatten(change.before, NoMarks, change.beforeSensitive)
    /\ after' = Flatten(change.after, change.afterUnknown, change.afterSensitive)
    /\ pc' = "before"
    /\ UNCHANGED <<change, entries, out>>

WithBefore(e, leaf) ==
    [e EXCEPT !.before = Render(leaf),
              !.beforeNull = IsNull(leaf),
              !.beforeSensitive = leaf.sensitive]

\* WithAfter that takes what is not known yet for a null.
WithAfterNull(e, leaf, changed) ==
    [e EXCEPT !.after = Render(leaf),
              !.afterNull = (leaf.raw = "null"),
              !.afterSensitive = leaf.sensitive,
              !.unknown = leaf.unknown,
              !.changed = changed]

WithAfter(e, leaf, changed) ==
    [e EXCEPT !.after = Render(leaf),
              !.afterNull = IsNull(leaf),
              !.afterSensitive = leaf.sensitive,
              !.unknown = leaf.unknown,
              !.changed = changed]

ReadBefore ==
    /\ pc = "before"
    /\ entries' =
         [p \in DOMAIN before |-> WithBefore(EntryAt(p), before[p])]
    /\ pc' = "after"
    /\ UNCHANGED <<change, before, after, out>>

ChangedAfter(p) ==
    p \notin DOMAIN before \/ after[p].unknown \/ before[p].raw # after[p].raw

ReadAfter ==
    /\ pc = "after"
    /\ entries' =
         [p \in DOMAIN entries \cup DOMAIN after |->
            IF p \in DOMAIN after
            THEN WithAfter(EntryAt(p), after[p], ChangedAfter(p))
            ELSE entries[p]]
    /\ pc' = "removed"
    /\ UNCHANGED <<change, before, after, out>>

\* Removed that looks for paths that lie under an unknown block as well.
RemovedUnlessUnknown ==
    {p \in DOMAIN before \ DOMAIN after : ~Flagged(change.afterUnknown, p)}

Removed == DOMAIN before \ DOMAIN after

MarkRemoved ==
    /\ pc = "removed"
    /\ entries' =
         [p \in DOMAIN entries |->
            IF p \in Removed THEN [entries[p] EXCEPT !.changed = TRUE] ELSE entries[p]]
    /\ pc' = "mask"
    /\ UNCHANGED <<change, before, after, out>>

\* Secrets that only looks at the values after the change.
SecretsAfter == SecretsIn(after)

Secrets == SecretsIn(before) \cup SecretsIn(after)

Echoes(leaves) == {p \in DOMAIN leaves : leaves[p].raw \in Secrets}

\* Masked that hides each side by its own marker only.
MaskedBySide(e, p) ==
    [e EXCEPT !.before = Hide(e.before, e.beforeSensitive \/ p \in Echoes(before)),
              !.after = Hide(e.after, e.afterSensitive \/ p \in Echoes(after))]

Masked(e, p) ==
    LET marked == e.beforeSensitive \/ e.afterSensitive
    IN  [e EXCEPT !.before = Hide(e.before, marked \/ p \in Echoes(before)),
                  !.after = Hide(e.after, marked \/ p \in Echoes(after))]

Mask ==
    /\ pc = "mask"
    /\ entries' = [p \in DOMAIN entries |-> Masked(entries[p], p)]
    /\ pc' = "sort"
    /\ UNCHANGED <<change, before, after, out>>

Rank(p) == Cardinality({q \in DOMAIN entries : LessPath(q, p)})

Sort ==
    /\ pc = "sort"
    /\ out' = [i \in 1 .. Cardinality(DOMAIN entries) |->
                 CHOOSE p \in DOMAIN entries : Rank(p) = i - 1]
    /\ pc' = "done"
    /\ UNCHANGED <<change, before, after, entries>>

Next == FlattenBoth \/ ReadBefore \/ ReadAfter \/ MarkRemoved \/ Mask \/ Sort

Spec == Init /\ [][Next]_vars /\ WF_vars(Next)

-----------------------------------------------------------------------------
(* Properties *)

Done == pc = "done"

\* The state has the shape the Go declarations give it.
TypeOK ==
    /\ pc \in {"flatten", "before", "after", "removed", "mask", "sort", "done"}
    /\ change \in Changes
    /\ \A p \in DOMAIN before : before[p] \in Leaves
    /\ \A p \in DOMAIN after : after[p] \in Leaves
    /\ \A p \in DOMAIN entries : entries[p] \in Entry

\* The loops compute the diff in one piece: what an entry holds depends on the
\* leaves of the two sides at its path and on all secrets of the change, and
\* not on the order in which sides were read, paths marked and values masked.
DiffIsExact == Done => entries = Diff(change)

\* The strings that stand at a path one of the sensitivity markers covers,
\* each marker over the value of its own side.
SecretValues ==
    ({change.before[p] : p \in {q \in DOMAIN change.before :
                                  Marked(change.beforeSensitive, q)}}
       \cup {change.after[p] : p \in {q \in DOMAIN change.after :
                                  Marked(change.afterSensitive, q)}})
        \cap (Strings \ {EmptyString})

\* No entry of the finished diff shows a value that is marked sensitive
\* anywhere in the change, however it came to be copied to another path and
\* whichever side it stands on (the echo masking of Diff).
NoSecretShown ==
    Done => \A p \in DOMAIN entries :
              {entries[p].before, entries[p].after} \cap SecretValues = {}

\* A path that is a leaf on both sides and that either marker covers is shown
\* on neither side, so a value that just became sensitive does not appear in
\* its old form (the masking loop of Diff against Marked of walk.go).
MarkedLeavesAreMasked ==
    Done => \A p \in DOMAIN before \cap DOMAIN after :
              (\/ Marked(change.beforeSensitive, p)
               \/ Marked(change.afterSensitive, p))
                => entries[p].before = SensitiveValue /\ entries[p].after = SensitiveValue

\* What a diff leaves out: a root that is null or an empty container.
Content(v) ==
    [p \in {q \in DOMAIN v : q # << >> \/ v[q] \in Strings \cup Atoms} |-> v[p]]

\* An entry of the diff is marked changed exactly when the two values differ
\* or a part of the new one is unknown: no change is hidden and none is
\* invented, whatever shape the values have (Changed over flattened leaves
\* against the trees themselves).
ChangedIffDifferent ==
    Done => ((\E p \in DOMAIN entries : entries[p].changed)
              <=> \/ Content(change.before) # Content(change.after)
                  \/ \E q \in DOMAIN change.afterUnknown : change.afterUnknown[q] = "true")

\* Every path whose new value is unknown, itself or as part of an unknown
\* block, is reported as changed.
UnknownIsChanged ==
    Done => \A p \in DOMAIN entries :
              Marked(change.afterUnknown, p) => entries[p].changed

\* The value readers and the diff agree, although they walk the markers with
\* different functions: a path the diff calls sensitive cannot be read, and a
\* value that can be read stands in the diff, unless it repeats a secret.
ReadersAgreeWithDiff ==
    Done => \A p \in DOMAIN entries :
              LET e == entries[p]
              IN  /\ e.beforeSensitive \/ e.afterSensitive
                       => RawBefore(change, p) = {} /\ RawAfter(change, p) = {}
                  /\ p \in DOMAIN before /\ RawBefore(change, p) # {}
                       => e.before \in {Render(before[p]), SensitiveValue}
                            /\ RawBefore(change, p) = {before[p].raw}
                  /\ RawAfter(change, p) # {} => ~e.unknown
                  /\ p \in DOMAIN before \cap DOMAIN after
                       /\ e.before \notin Placeholders
                       => RawBefore(change, p) = {e.before}

\* A value a reader hands to a predicate has no secret and nothing unknown in
\* it, at any depth: asking for the parent block reads no secret either.
ReadableValuesAreClean ==
    Done =>
      /\ \A p \in DOMAIN change.before \cup DOMAIN change.after :
            RawBefore(change, p) # {} \/ RawAfter(change, p) # {} =>
              \A q \in DOMAIN change.before \cup DOMAIN change.after :
                 Covers(p, q) => /\ ~Marked(change.beforeSensitive, q)
                                 /\ ~Marked(change.afterSensitive, q)
      /\ \A p \in DOMAIN change.after :
            RawAfter(change, p) # {} =>
              \A q \in DOMAIN change.after :
                 Covers(p, q) => ~Marked(change.afterUnknown, q)

\* The result lists each entry once, and the entries below one block stand
\* together: between two paths of a block there is no path of another.
BlocksStayTogether ==
    Done =>
      /\ {out[i] : i \in DOMAIN out} = DOMAIN entries
      /\ \A i, j, k \in DOMAIN out :
           i < j /\ j < k =>
             /\ out[i] # out[j]
             /\ \A n \in 0 .. Len(out[i]) :
                  Covers(Upto(out[i], n), out[k]) => Covers(Upto(out[i], n), out[j])

\* What stands below the elements of a list is listed in the order of the
\* elements, however many there are: the tenth comes after the second (lessPath
\* compares indices as numbers, at whatever depth the list stands).
ListsAreInOrder ==
    Done => \A i, j \in DOMAIN out : \A n \in 1 .. Len(out[i]) :
              /\ n <= Len(out[j]) /\ Upto(out[i], n - 1) = Upto(out[j], n - 1)
              /\ out[i][n].index /\ out[j][n].index
              /\ out[i][n].at < out[j][n].at
              => i < j

-----------------------------------------------------------------------------
(* Statements of the documentation the code does not keep. *)

\* README.md: a value that is sensitive before or after is masked on both
\* sides.  Diff applies this to paths that have a leaf on both sides only.
MaskedOnBothSides ==
    Done => \A p \in DOMAIN entries :
              (\/ Marked(change.beforeSensitive, p)
               \/ Marked(change.afterSensitive, p))
                => {entries[p].before, entries[p].after} \cap (Strings \cup Atoms) = {}

\* README.md: a value that equals a sensitive value of the change is hidden.
\* The old value of a path that becomes sensitive is sensitive, but its copies
\* are shown.
OldValuesOfSensitivePathsAreHidden ==
    Done => \A p \in DOMAIN before :
              p \in DOMAIN after /\ after[p].sensitive
                /\ before[p].raw \in Strings \ {EmptyString}
                => \A q \in DOMAIN entries :
                     before[p].raw \notin {entries[q].before, entries[q].after}

=============================================================================
