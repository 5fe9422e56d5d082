-------------------------- MODULE ChangeDiffProofs --------------------------
(***************************************************************************)
(* Proofs about Change.Diff for every set of well-formed changes, of any    *)
(* depth and size: every property of module ChangeDiff that the code keeps. *)
(***************************************************************************)
EXTENDS ChangeDiff, PlanTreeProofs

-----------------------------------------------------------------------------
(* The inductive invariant: what the entries hold between two loops. *)

Flattened ==
    /\ before = Flatten(change.before, NoMarks, change.beforeSensitive)
    /\ after = Flatten(change.after, change.afterUnknown, change.afterSensitive)

BeforeSide(e, p) ==
    IF p \in DOMAIN before
    THEN e.before = Render(before[p]) /\ e.beforeSensitive = before[p].sensitive
    ELSE e.before = Absent /\ e.beforeSensitive = FALSE

AfterSide(e, p) ==
    IF p \in DOMAIN after
    THEN e.after = Render(after[p]) /\ e.afterSensitive = after[p].sensitive
    ELSE e.after = Absent /\ e.afterSensitive = FALSE

NoAfterSide(e) == e.after = Absent /\ e.afterSensitive = FALSE

\* What may stand on one side of a masked entry.
SafeSide(shown, leaves, p) ==
    \/ shown \in {Absent, SensitiveValue}
    \/ /\ p \in DOMAIN leaves
       /\ shown = Render(leaves[p])
       /\ ~leaves[p].sensitive
       /\ p \notin Echoes(leaves)

SafeEntry(e, p) ==
    /\ SafeSide(e.before, before, p)
    /\ SafeSide(e.after, after, p)
    /\ p \in DOMAIN before \cap DOMAIN after
         /\ (before[p].sensitive \/ after[p].sensitive)
         => e.before = SensitiveValue /\ e.after = SensitiveValue

IInv ==
    /\ TypeOK
    /\ pc # "flatten" => Flattened
    /\ pc \in {"flatten", "before"} => DOMAIN entries = {}
    /\ pc = "after" =>
         /\ DOMAIN entries = DOMAIN before
         /\ \A p \in DOMAIN entries : BeforeSide(entries[p], p) /\ NoAfterSide(entries[p])
    /\ pc \in {"removed", "mask"} =>
         /\ DOMAIN entries = DOMAIN before \cup DOMAIN after
         /\ \A p \in DOMAIN entries : BeforeSide(entries[p], p) /\ AfterSide(entries[p], p)
    /\ pc \in {"sort", "done"} =>
         /\ DOMAIN entries = DOMAIN before \cup DOMAIN after
         /\ \A p \in DOMAIN entries : SafeEntry(entries[p], p)

\* The receiver of Diff is made of values and markers.
LEMMA ChangeIsWellFormed ==
    ASSUME TypeOK
    PROVE  /\ IsValue(change.before) /\ IsMarker(change.beforeSensitive)
           /\ IsValue(change.after) /\ IsMarker(change.afterUnknown)
           /\ IsMarker(change.afterSensitive)
           /\ \A p \in DOMAIN change.after :
                Marked(change.afterUnknown, p) => change.after[p] = "null"
  BY PlanIsWellFormed DEF TypeOK

\* The first loop sets the before side of an entry and keeps the after side.
LEMMA WithBeforeType ==
    ASSUME NEW e \in Entry, NEW leaf \in Leaves
    PROVE  /\ WithBefore(e, leaf) \in Entry
           /\ WithBefore(e, leaf).before = Render(leaf)
           /\ WithBefore(e, leaf).beforeSensitive = leaf.sensitive
           /\ WithBefore(e, leaf).beforeNull = IsNull(leaf)
           /\ WithBefore(e, leaf).after = e.after
           /\ WithBefore(e, leaf).afterSensitive = e.afterSensitive
           /\ WithBefore(e, leaf).afterNull = e.afterNull
           /\ WithBefore(e, leaf).unknown = e.unknown
  <1>1. Render(leaf) \in Shown /\ IsNull(leaf) \in BOOLEAN /\ leaf.sensitive \in BOOLEAN
    BY RenderType DEF IsNull, Leaves
  <1> QED
    BY <1>1 DEF WithBefore, Entry

\* The second loop sets the after side of an entry and keeps the before side.
LEMMA WithAfterType ==
    ASSUME NEW e \in Entry, NEW leaf \in Leaves, NEW changed \in BOOLEAN
    PROVE  /\ WithAfter(e, leaf, changed) \in Entry
           /\ WithAfter(e, leaf, changed).before = e.before
           /\ WithAfter(e, leaf, changed).beforeSensitive = e.beforeSensitive
           /\ WithAfter(e, leaf, changed).beforeNull = e.beforeNull
           /\ WithAfter(e, leaf, changed).after = Render(leaf)
           /\ WithAfter(e, leaf, changed).afterSensitive = leaf.sensitive
           /\ WithAfter(e, leaf, changed).afterNull = IsNull(leaf)
           /\ WithAfter(e, leaf, changed).unknown = leaf.unknown
           /\ WithAfter(e, leaf, changed).changed = changed
  <1>1. /\ Render(leaf) \in Shown /\ IsNull(leaf) \in BOOLEAN
        /\ leaf.sensitive \in BOOLEAN /\ leaf.unknown \in BOOLEAN
    BY RenderType DEF IsNull, Leaves
  <1> QED
    BY <1>1 DEF WithAfter, Entry

\* The initial states satisfy IInv.
LEMMA InitIInv == Init => IInv
  <1> SUFFICES ASSUME Init PROVE IInv
    OBVIOUS
  <1>1. TypeOK
    BY DEF Init, TypeOK
  <1> QED
    BY <1>1 DEF Init, IInv

-----------------------------------------------------------------------------
(* Every loop preserves the invariant. *)

\* FlattenBoth preserves IInv.
LEMMA FlattenBothIInv == IInv /\ FlattenBoth => IInv'
  <1> SUFFICES ASSUME IInv, FlattenBoth PROVE IInv'
    OBVIOUS
  <1> USE DEF FlattenBoth
  <1>1. IsValue(change.before) /\ IsValue(change.after)
    BY ChangeIsWellFormed DEF IInv
  <1>2. \A p \in DOMAIN before' : before'[p] \in Leaves
    BY <1>1, FlattenType
  <1>3. \A p \in DOMAIN after' : after'[p] \in Leaves
    BY <1>1, FlattenType
  <1>4. TypeOK'
    BY <1>2, <1>3 DEF IInv, TypeOK
  <1>5. Flattened'
    BY DEF Flattened
  <1>6. DOMAIN entries' = {}
    BY DEF IInv
  <1> QED
    BY <1>4, <1>5, <1>6 DEF IInv

\* ReadBefore preserves IInv.
LEMMA ReadBeforeIInv == IInv /\ ReadBefore => IInv'
  <1> SUFFICES ASSUME IInv, ReadBefore PROVE IInv'
    OBVIOUS
  <1> USE DEF ReadBefore
  <1>1. Flattened'
    BY DEF IInv, Flattened
  <1>2. DOMAIN entries' = DOMAIN before
    OBVIOUS
  <1>3. ASSUME NEW p \in DOMAIN before
        PROVE  /\ entries'[p] \in Entry
               /\ entries'[p].before = Render(before[p])
               /\ entries'[p].beforeSensitive = before[p].sensitive
               /\ NoAfterSide(entries'[p])
    <2>1. entries'[p] = WithBefore(NoEntry, before[p])
      BY DEF IInv, EntryAt
    <2>2. before[p] \in Leaves
      BY DEF IInv, TypeOK
    <2>3. NoEntry.after = Absent /\ NoEntry.afterSensitive = FALSE
      BY DEF NoEntry
    <2> QED
      BY <2>1, <2>2, <2>3, NoEntryType, WithBeforeType DEF NoAfterSide
  <1>4. TypeOK'
    BY <1>2, <1>3 DEF IInv, TypeOK
  <1> QED
    BY <1>1, <1>2, <1>3, <1>4 DEF IInv, BeforeSide

\* ReadAfter preserves IInv.
LEMMA ReadAfterIInv == IInv /\ ReadAfter => IInv'
  <1> SUFFICES ASSUME IInv, ReadAfter PROVE IInv'
    OBVIOUS
  <1> USE DEF ReadAfter
  <1>1. Flattened'
    BY DEF IInv, Flattened
  <1>2. DOMAIN entries' = DOMAIN before \cup DOMAIN after
    BY DEF IInv
  <1>3. ASSUME NEW p \in DOMAIN before \cup DOMAIN after
        PROVE  /\ EntryAt(p) \in Entry
               /\ BeforeSide(EntryAt(p), p)
               /\ NoAfterSide(EntryAt(p))
    <2>1. CASE p \in DOMAIN entries
      BY <2>1 DEF IInv, TypeOK, EntryAt
    <2>2. CASE p \notin DOMAIN entries
      BY <2>2, NoEntryType DEF IInv, EntryAt, BeforeSide, NoAfterSide, NoEntry
    <2> QED
      BY <2>1, <2>2
  <1>4. ASSUME NEW p \in DOMAIN before \cup DOMAIN after
        PROVE  /\ entries'[p] \in Entry
               /\ BeforeSide(entries'[p], p)
               /\ AfterSide(entries'[p], p)
    <2>1. CASE p \in DOMAIN after
      <3>1. entries'[p] = WithAfter(EntryAt(p), after[p], ChangedAfter(p))
        BY <1>2, <2>1
      <3>2. after[p] \in Leaves
        BY <2>1 DEF IInv, TypeOK
      <3>3. ChangedAfter(p) \in BOOLEAN
        BY <2>1, <3>2 DEF Leaves, ChangedAfter
      <3>4. /\ entries'[p] \in Entry
            /\ entries'[p].before = EntryAt(p).before
            /\ entries'[p].beforeSensitive = EntryAt(p).beforeSensitive
            /\ entries'[p].after = Render(after[p])
            /\ entries'[p].afterSensitive = after[p].sensitive
        BY <1>3, <3>1, <3>2, <3>3, WithAfterType
      <3> QED
        BY <1>3, <2>1, <3>4 DEF BeforeSide, AfterSide
    <2>2. CASE p \notin DOMAIN after
      <3>1. p \in DOMAIN entries /\ entries'[p] = entries[p] /\ EntryAt(p) = entries[p]
        BY <2>2 DEF IInv, EntryAt
      <3> QED
        BY <1>3, <2>2, <3>1 DEF AfterSide, NoAfterSide
    <2> QED
      BY <2>1, <2>2
  <1>5. TypeOK'
    BY <1>2, <1>4 DEF IInv, TypeOK
  <1>6. \A p \in DOMAIN entries' : (BeforeSide(entries[p], p) /\ AfterSide(entries[p], p))'
    BY <1>2, <1>4 DEF BeforeSide, AfterSide
  <1> QED
    BY <1>1, <1>2, <1>5, <1>6 DEF IInv

\* MarkRemoved preserves IInv.
LEMMA MarkRemovedIInv == IInv /\ MarkRemoved => IInv'
  <1> SUFFICES ASSUME IInv, MarkRemoved PROVE IInv'
    OBVIOUS
  <1> USE DEF MarkRemoved
  <1>1. Flattened'
    BY DEF IInv, Flattened
  <1>2. DOMAIN entries' = DOMAIN entries
    OBVIOUS
  <1>3. ASSUME NEW p \in DOMAIN entries
        PROVE  /\ entries'[p] \in Entry
               /\ entries'[p].before = entries[p].before
               /\ entries'[p].beforeSensitive = entries[p].beforeSensitive
               /\ entries'[p].after = entries[p].after
               /\ entries'[p].afterSensitive = entries[p].afterSensitive
    <2>1. entries[p] \in Entry
      BY DEF IInv, TypeOK
    <2>2. entries'[p] \in {entries[p], [entries[p] EXCEPT !.changed = TRUE]}
      OBVIOUS
    <2> QED
      BY <2>1, <2>2 DEF Entry
  <1>4. TypeOK'
    BY <1>2, <1>3 DEF IInv, TypeOK
  <1>5. \A p \in DOMAIN entries' : (BeforeSide(entries[p], p) /\ AfterSide(entries[p], p))'
    BY <1>2, <1>3 DEF IInv, BeforeSide, AfterSide
  <1> QED
    BY <1>1, <1>2, <1>4, <1>5 DEF IInv

\* The masking loop keeps an entry an entry, and hides by either marker.
LEMMA MaskedType ==
    ASSUME NEW e \in Entry, NEW p
    PROVE  /\ Masked(e, p) \in Entry
           /\ Masked(e, p).before =
                Hide(e.before, e.beforeSensitive \/ e.afterSensitive \/ p \in Echoes(before))
           /\ Masked(e, p).after =
                Hide(e.after, e.beforeSensitive \/ e.afterSensitive \/ p \in Echoes(after))
  <1>1. \A secret : Hide(e.before, secret) \in Shown /\ Hide(e.after, secret) \in Shown
    BY DEF Hide, Entry, Shown, Placeholders
  <1> QED
    BY <1>1 DEF Masked, Entry

\* Mask preserves IInv.
LEMMA MaskIInv == IInv /\ Mask => IInv'
  <1> SUFFICES ASSUME IInv, Mask PROVE IInv'
    OBVIOUS
  <1> USE DEF Mask
  <1>1. Flattened'
    BY DEF IInv, Flattened
  <1>2. DOMAIN entries' = DOMAIN entries /\ DOMAIN entries = DOMAIN before \cup DOMAIN after
    BY DEF IInv
  <1>3. ASSUME NEW p \in DOMAIN entries
        PROVE  entries'[p] \in Entry /\ SafeEntry(entries'[p], p)
    <2> DEFINE e == entries[p]
               marked == e.beforeSensitive \/ e.afterSensitive
    <2>1. e \in Entry /\ BeforeSide(e, p) /\ AfterSide(e, p)
      BY DEF IInv, TypeOK
    <2>2. /\ entries'[p] \in Entry
          /\ entries'[p].before = Hide(e.before, marked \/ p \in Echoes(before))
          /\ entries'[p].after = Hide(e.after, marked \/ p \in Echoes(after))
      BY <2>1, MaskedType
    <2>3. SafeSide(entries'[p].before, before, p)
      BY <2>1, <2>2 DEF BeforeSide, SafeSide, Hide
    <2>4. SafeSide(entries'[p].after, after, p)
      BY <2>1, <2>2 DEF AfterSide, SafeSide, Hide
    <2>5. ASSUME p \in DOMAIN before \cap DOMAIN after,
                 before[p].sensitive \/ after[p].sensitive
          PROVE  entries'[p].before = SensitiveValue /\ entries'[p].after = SensitiveValue
      <3>1. before[p] \in Leaves /\ after[p] \in Leaves
        BY <2>5 DEF IInv, TypeOK
      <3>2. marked /\ e.before # Absent /\ e.after # Absent
        BY <2>1, <2>5, <3>1, RenderIsPresent DEF BeforeSide, AfterSide
      <3> QED
        BY <2>2, <3>2 DEF Hide
    <2> QED
      BY <2>2, <2>3, <2>4, <2>5 DEF SafeEntry
  <1>4. TypeOK'
    BY <1>2, <1>3 DEF IInv, TypeOK
  <1>5. before' = before /\ after' = after
    OBVIOUS
  <1>6. Echoes(before)' = Echoes(before) /\ Echoes(after)' = Echoes(after)
    BY <1>5 DEF Echoes, Secrets, SecretsIn
  <1>7. \A p \in DOMAIN entries' : SafeEntry(entries[p], p)'
    BY <1>2, <1>3, <1>5, <1>6 DEF SafeEntry, SafeSide
  <1> QED
    BY <1>1, <1>2, <1>4, <1>7 DEF IInv

\* Sort preserves IInv.
LEMMA SortIInv == IInv /\ Sort => IInv'
  <1> SUFFICES ASSUME IInv, Sort PROVE IInv'
    OBVIOUS
  <1> USE DEF Sort
  <1>1. TypeOK' /\ Flattened'
    BY DEF IInv, TypeOK, Flattened
  <1>2. \A p \in DOMAIN entries' : SafeEntry(entries[p], p)'
    BY DEF IInv, SafeEntry, SafeSide, Echoes, Secrets, SecretsIn
  <1> QED
    BY <1>1, <1>2 DEF IInv

\* A step that changes nothing preserves IInv.
LEMMA StutterIInv == IInv /\ UNCHANGED vars => IInv'
  BY DEF IInv, vars, TypeOK, Flattened, BeforeSide, AfterSide, NoAfterSide,
         SafeEntry, SafeSide, Echoes, Secrets, SecretsIn

\* IInv is an invariant of the specification: it holds at first and every
\* action preserves it.
THEOREM SpecIInv == Spec => []IInv
  <1>1. IInv /\ [Next]_vars => IInv'
    BY FlattenBothIInv, ReadBeforeIInv, ReadAfterIInv, MarkRemovedIInv, MaskIInv,
       SortIInv, StutterIInv DEF Next
  <1> QED
    BY InitIInv, <1>1, PTL DEF Spec

-----------------------------------------------------------------------------
(* What follows from the invariant. *)

\* The control state, the leaves and the entries keep the shape the Go
\* declarations give them, for every plan.
THEOREM TypeCorrect == Spec => []TypeOK
  <1>1. IInv => TypeOK
    BY DEF IInv
  <1> QED
    BY <1>1, SpecIInv, PTL

\* A leaf of both sides that either marker covers is shown on neither side.
THEOREM MarkedLeavesMasked == Spec => []MarkedLeavesAreMasked
  <1>1. IInv => MarkedLeavesAreMasked
    <2> SUFFICES ASSUME IInv, Done, NEW p \in DOMAIN before \cap DOMAIN after,
                        \/ Marked(change.beforeSensitive, p)
                        \/ Marked(change.afterSensitive, p)
                 PROVE  entries[p].before = SensitiveValue /\ entries[p].after = SensitiveValue
      BY DEF MarkedLeavesAreMasked
    <2>1. Flattened /\ SafeEntry(entries[p], p)
      BY DEF IInv, Done
    <2>2. p \in DOMAIN change.before \cup {q \in DOMAIN NoMarks : TRUE}
      BY <2>1 DEF Flattened, Flatten, Visited
    <2>3. p \in Seq(Segments)
      BY <2>2, ChangeIsWellFormed, NoMarksIsMarker DEF IInv, IsValue, IsMarker, Tree
    <2>4. /\ before[p].sensitive = Flagged(change.beforeSensitive, p)
          /\ after[p].sensitive = Flagged(change.afterSensitive, p)
      BY <2>1 DEF Flattened, Flatten, Leaf
    <2>5. before[p].sensitive \/ after[p].sensitive
      BY <2>3, <2>4, MarkedIsFlagged, ChangeIsWellFormed DEF IInv
    <2> QED
      BY <2>1, <2>5 DEF SafeEntry
  <1> QED
    BY <1>1, SpecIInv, PTL

\* Every sensitive string of the change is collected as a secret.
LEMMA SecretsAreCollected == IInv /\ Done => SecretValues \subseteq Secrets
  <1> SUFFICES ASSUME IInv, Done, NEW s \in SecretValues PROVE s \in Secrets
    OBVIOUS
  <1>1. Flattened /\ s \in Strings \ {EmptyString}
    BY DEF IInv, Done, SecretValues
  <1>2. ASSUME NEW p \in DOMAIN change.before, Marked(change.beforeSensitive, p),
               s = change.before[p]
        PROVE  s \in SecretsIn(before)
    <2>1. p \in Seq(Segments)
      BY ChangeIsWellFormed DEF IInv, IsValue, Tree
    <2>2. /\ p \in DOMAIN before
          /\ before[p].raw = s
          /\ before[p].sensitive = Marked(change.beforeSensitive, p)
      BY <1>1, <1>2, <2>1, ScalarsAreLeaves, NoMarksIsMarker, ChangeIsWellFormed
         DEF IInv, Flattened
    <2> QED
      BY <1>1, <1>2, <2>2 DEF SecretsIn
  <1>3. ASSUME NEW p \in DOMAIN change.after, Marked(change.afterSensitive, p),
               s = change.after[p]
        PROVE  s \in SecretsIn(after)
    <2>1. ~Marked(change.afterUnknown, p)
      BY <1>1, <1>3, ChangeIsWellFormed, ValuesAreDisjoint DEF IInv
    <2>2. /\ p \in DOMAIN after
          /\ after[p].raw = s
          /\ after[p].sensitive = Marked(change.afterSensitive, p)
      BY <1>1, <1>3, <2>1, ScalarsAreLeaves, ChangeIsWellFormed DEF IInv, Flattened
    <2> QED
      BY <1>1, <1>3, <2>2 DEF SecretsIn
  <1> QED
    BY <1>1, <1>2, <1>3 DEF SecretValues, Secrets

\* No entry of a finished diff shows a sensitive string, wherever in the
\* change it was copied to.
THEOREM NoSecretIsShown == Spec => []NoSecretShown
  <1>1. ASSUME IInv, Done, NEW s \in SecretValues, NEW leaves \in {before, after},
               NEW p, NEW shown, SafeSide(shown, leaves, p)
        PROVE  shown # s
    <2>1. s \in Strings /\ s \notin Placeholders /\ s \in Secrets
      BY <1>1, SecretsAreCollected, LiteralsAreNoPlaceholders DEF SecretValues
    <2>2. CASE shown \in {Absent, SensitiveValue}
      BY <2>1, <2>2 DEF Placeholders
    <2>3. CASE /\ p \in DOMAIN leaves /\ shown = Render(leaves[p])
               /\ ~leaves[p].sensitive /\ p \notin Echoes(leaves)
      <3>1. leaves[p].raw # s
        BY <2>1, <2>3 DEF Echoes
      <3>2. shown \in Placeholders \cup {leaves[p].raw}
        BY <2>3 DEF Render, Literal, Placeholders
      <3> QED
        BY <2>1, <3>1, <3>2
    <2> QED
      BY <1>1, <2>2, <2>3 DEF SafeSide
  <1>2. IInv => NoSecretShown
    <2> SUFFICES ASSUME IInv, Done, NEW p \in DOMAIN entries, NEW s \in SecretValues
                 PROVE  entries[p].before # s /\ entries[p].after # s
      BY DEF NoSecretShown
    <2>1. SafeSide(entries[p].before, before, p) /\ SafeSide(entries[p].after, after, p)
      BY DEF IInv, Done, SafeEntry
    <2> QED
      BY <1>1, <2>1
  <1> QED
    BY <1>2, SpecIInv, PTL

-----------------------------------------------------------------------------
(* The loops compute the diff in one piece. *)

Paths == DOMAIN before \cup DOMAIN after

\* An entry after each loop.
ReadOnce(p) == IF p \in DOMAIN before THEN WithBefore(NoEntry, before[p]) ELSE NoEntry
ReadTwice(p) ==
    IF p \in DOMAIN after THEN WithAfter(ReadOnce(p), after[p], ChangedAfter(p)) ELSE ReadOnce(p)
Finished(p) == IF p \in Removed THEN [ReadTwice(p) EXCEPT !.changed = TRUE] ELSE ReadTwice(p)

EInv ==
    /\ pc \in {"flatten", "before"} => entries = << >>
    /\ pc = "after" => entries = [p \in DOMAIN before |-> ReadOnce(p)]
    /\ pc = "removed" => entries = [p \in Paths |-> ReadTwice(p)]
    /\ pc = "mask" => entries = [p \in Paths |-> Finished(p)]
    /\ pc \in {"sort", "done"} => entries = [p \in Paths |-> Masked(Finished(p), p)]

\* Every loop preserves EInv: it makes of each entry what the next one expects.
LEMMA NextEInv == IInv /\ EInv /\ [Next]_vars => EInv'
  <1> SUFFICES ASSUME IInv, EInv, [Next]_vars PROVE EInv'
    OBVIOUS
  <1>1. CASE FlattenBoth
    BY <1>1 DEF FlattenBoth, EInv
  <1>2. CASE ReadBefore
    <2>1. \A p \in DOMAIN before : EntryAt(p) = NoEntry
      BY <1>2 DEF ReadBefore, EInv, EntryAt
    <2>2. entries' = [p \in DOMAIN before |-> ReadOnce(p)]
      BY <1>2, <2>1 DEF ReadBefore, ReadOnce
    <2> QED
      BY <1>2, <2>2 DEF ReadBefore, EInv, ReadOnce
  <1>3. CASE ReadAfter
    <2>1. DOMAIN entries \cup DOMAIN after = Paths
      BY <1>3 DEF ReadAfter, EInv, Paths
    <2>2. \A p \in Paths : EntryAt(p) = ReadOnce(p)
      BY <1>3 DEF ReadAfter, EInv, Paths, EntryAt, ReadOnce
    <2>3. \A p \in Paths : p \notin DOMAIN after => entries[p] = ReadOnce(p)
      BY <1>3 DEF ReadAfter, EInv, Paths
    <2>4. entries' = [p \in Paths |-> ReadTwice(p)]
      BY <1>3, <2>1, <2>2, <2>3 DEF ReadAfter, ReadTwice
    <2> QED
      BY <1>3, <2>4 DEF ReadAfter, EInv, Paths, ReadTwice, ReadOnce, ChangedAfter
  <1>4. CASE MarkRemoved
    <2>1. entries' = [p \in Paths |-> Finished(p)]
      BY <1>4 DEF MarkRemoved, EInv, Finished
    <2> QED
      BY <1>4, <2>1 DEF MarkRemoved, EInv, Paths, Finished, Removed, ReadTwice, ReadOnce,
                        ChangedAfter
  <1>5. CASE Mask
    <2>1. entries' = [p \in Paths |-> Masked(Finished(p), p)]
      BY <1>5 DEF Mask, EInv
    <2>2. UNCHANGED <<before, after>>
      BY <1>5 DEF Mask
    <2>3. [p \in Paths |-> Masked(Finished(p), p)]' = [p \in Paths |-> Masked(Finished(p), p)]
      BY <2>2 DEF Paths, Finished, Removed, ReadTwice, ReadOnce, ChangedAfter, Masked, Echoes,
                  Secrets, SecretsIn
    <2> QED
      BY <1>5, <2>1, <2>3 DEF Mask, EInv
  <1>6. CASE Sort \/ UNCHANGED vars
    <2>1. UNCHANGED <<before, after, entries>>
      BY <1>6 DEF Sort, vars
    <2>2. /\ [p \in Paths |-> Masked(Finished(p), p)]' = [p \in Paths |-> Masked(Finished(p), p)]
          /\ [p \in Paths |-> Finished(p)]' = [p \in Paths |-> Finished(p)]
          /\ [p \in Paths |-> ReadTwice(p)]' = [p \in Paths |-> ReadTwice(p)]
          /\ [p \in DOMAIN before |-> ReadOnce(p)]' = [p \in DOMAIN before |-> ReadOnce(p)]
      BY <2>1 DEF Paths, Finished, Removed, ReadTwice, ReadOnce, ChangedAfter, Masked, Echoes,
                  Secrets, SecretsIn
    <2>3. pc' = pc \/ (pc = "sort" /\ pc' = "done")
      BY <1>6 DEF Sort, vars
    <2> QED
      BY <2>1, <2>2, <2>3 DEF EInv
  <1> QED
    BY <1>1, <1>2, <1>3, <1>4, <1>5, <1>6 DEF Next

\* The fields of an entry that all loops but the last have seen.
LEMMA FinishedType ==
    ASSUME IInv, NEW p \in Paths
    PROVE  LET e == Finished(p)
           IN  /\ e \in Entry
               /\ IF p \in DOMAIN before
                  THEN /\ e.before = Render(before[p])
                       /\ e.beforeSensitive = before[p].sensitive
                       /\ e.beforeNull = IsNull(before[p])
                  ELSE e.before = Absent /\ ~e.beforeSensitive /\ ~e.beforeNull
               /\ IF p \in DOMAIN after
                  THEN /\ e.after = Render(after[p])
                       /\ e.afterSensitive = after[p].sensitive
                       /\ e.afterNull = IsNull(after[p])
                       /\ e.unknown = after[p].unknown
                       /\ e.changed = ChangedAfter(p)
                  ELSE /\ e.after = Absent /\ ~e.afterSensitive /\ ~e.afterNull
                       /\ ~e.unknown /\ e.changed
  <1>1. /\ p \in DOMAIN before => before[p] \in Leaves
        /\ p \in DOMAIN after => after[p] \in Leaves /\ ChangedAfter(p) \in BOOLEAN
    BY DEF IInv, TypeOK, Leaves, ChangedAfter
  <1>2. /\ NoEntry \in Entry /\ NoEntry.before = Absent /\ NoEntry.after = Absent
        /\ ~NoEntry.beforeSensitive /\ ~NoEntry.beforeNull /\ ~NoEntry.unknown
        /\ ~NoEntry.afterSensitive /\ ~NoEntry.afterNull
    BY NoEntryType DEF NoEntry
  <1>3. LET e == ReadOnce(p)
        IN  /\ e \in Entry
            /\ IF p \in DOMAIN before
               THEN /\ e.before = Render(before[p])
                    /\ e.beforeSensitive = before[p].sensitive
                    /\ e.beforeNull = IsNull(before[p])
               ELSE e.before = Absent /\ ~e.beforeSensitive /\ ~e.beforeNull
            /\ e.after = Absent /\ ~e.afterSensitive /\ ~e.afterNull /\ ~e.unknown
    BY <1>1, <1>2, WithBeforeType DEF ReadOnce
  <1>4. CASE p \in DOMAIN after
    <2>1. Finished(p) = WithAfter(ReadOnce(p), after[p], ChangedAfter(p))
      BY <1>4 DEF Finished, ReadTwice, Removed
    <2> QED
      BY <1>1, <1>3, <1>4, <2>1, WithAfterType
  <1>5. CASE p \notin DOMAIN after
    <2>1. Finished(p) = [ReadOnce(p) EXCEPT !.changed = TRUE]
      BY <1>5 DEF Finished, ReadTwice, Removed, Paths
    <2> QED
      BY <1>3, <1>5, <2>1 DEF Entry
  <1> QED
    BY <1>4, <1>5

\* The fields of an entry of Diff, over the leaves the loops work on.
LEMMA DiffType ==
    ASSUME IInv, Flattened, NEW p \in Paths
    PROVE  LET d == Diff(change)[p]
               old == p \in DOMAIN before
               new == p \in DOMAIN after
               marked == (old /\ before[p].sensitive) \/ (new /\ after[p].sensitive)
           IN  /\ d \in Entry
               /\ d.before = Side(before, p, marked \/ p \in Echoes(before))
               /\ d.after = Side(after, p, marked \/ p \in Echoes(after))
               /\ d.changed <=> \/ p \notin DOMAIN before \cap DOMAIN after
                                \/ after[p].unknown
                                \/ before[p].raw # after[p].raw
               /\ d.unknown <=> new /\ after[p].unknown
               /\ d.beforeSensitive <=> old /\ before[p].sensitive
               /\ d.afterSensitive <=> new /\ after[p].sensitive
               /\ d.beforeNull <=> old /\ IsNull(before[p])
               /\ d.afterNull <=> new /\ IsNull(after[p])
  <1>1. IsChange(change) /\ p \in DOMAIN BeforeLeaves(change) \cup DOMAIN AfterLeaves(change)
    BY ChangeIsWellFormed DEF IInv, IsChange, Flattened, BeforeLeaves, AfterLeaves, Paths
  <1>2. before = BeforeLeaves(change) /\ after = AfterLeaves(change)
    BY DEF Flattened, BeforeLeaves, AfterLeaves
  <1>3. /\ p \in Echoes(before)
             <=> p \in DOMAIN before /\ before[p].raw \in SecretsIn(before) \cup SecretsIn(after)
        /\ p \in Echoes(after)
             <=> p \in DOMAIN after /\ after[p].raw \in SecretsIn(before) \cup SecretsIn(after)
    BY DEF Echoes, Secrets
  <1> QED
    BY <1>1, <1>2, <1>3, DiffFields

\* The finished entry of a path is the one Diff gives it.
LEMMA FinishedIsDiff ==
    ASSUME IInv, Flattened, NEW p \in Paths
    PROVE  Masked(Finished(p), p) = Diff(change)[p]
  <1> DEFINE e == Finished(p)
             d == Diff(change)[p]
             m == Masked(Finished(p), p)
  <1>1. e \in Entry /\ d \in Entry /\ m \in Entry
    BY FinishedType, DiffType, MaskedType
  <1>2. /\ m.changed = e.changed /\ m.unknown = e.unknown
        /\ m.beforeSensitive = e.beforeSensitive /\ m.afterSensitive = e.afterSensitive
        /\ m.beforeNull = e.beforeNull /\ m.afterNull = e.afterNull
    BY <1>1 DEF Masked, Entry
  <1>3. /\ e.changed <=> d.changed
        /\ e.unknown <=> d.unknown
        /\ e.beforeSensitive <=> d.beforeSensitive
        /\ e.afterSensitive <=> d.afterSensitive
        /\ e.beforeNull <=> d.beforeNull
        /\ e.afterNull <=> d.afterNull
    BY FinishedType, DiffType DEF ChangedAfter, Paths
  <1>4. m.before = d.before /\ m.after = d.after
    BY <1>1, <1>3, FinishedType, DiffType, MaskedType DEF Side, Hide
  <1> HIDE DEF e, d, m
  <1>5. m = d
    BY <1>1, <1>2, <1>3, <1>4 DEF Entry
  <1> QED
    BY <1>5 DEF m, d

\* What Diff returns does not depend on the order in which its loops read the
\* sides, mark paths and mask values.
THEOREM DiffExact == Spec => []DiffIsExact
  <1>1. Init => EInv
    BY DEF Init, EInv
  <1>2. IInv /\ EInv => DiffIsExact
    <2> SUFFICES ASSUME IInv, EInv, Done PROVE entries = Diff(change)
      BY DEF DiffIsExact
    <2>1. Flattened /\ entries = [p \in Paths |-> Masked(Finished(p), p)]
      BY DEF IInv, EInv, Done
    <2>2. Diff(change) = [p \in Paths |-> Diff(change)[p]]
      BY <2>1 DEF Flattened, Diff, BeforeLeaves, AfterLeaves, Paths
    <2> QED
      BY <2>1, <2>2, FinishedIsDiff
  <1> QED
    BY <1>1, <1>2, NextEInv, SpecIInv, PTL DEF Spec

-----------------------------------------------------------------------------
(* What the rules rely on. *)

\* A path whose new value is unknown, itself or under an unknown block, is
\* reported as changed, whether or not the walk of the new value reached it.
THEOREM UnknownChanges == Spec => []UnknownIsChanged
  <1>1. IInv /\ EInv => UnknownIsChanged
    <2> SUFFICES ASSUME IInv, EInv, Done, NEW p \in DOMAIN entries,
                        Marked(change.afterUnknown, p)
                 PROVE  entries[p].changed
      BY DEF UnknownIsChanged
    <2>1. Flattened /\ p \in Paths /\ entries[p] = Masked(Finished(p), p)
      BY DEF IInv, EInv, Done, Paths
    <2>2. p \in DOMAIN after => after[p].unknown = Flagged(change.afterUnknown, p)
      BY <2>1 DEF Flattened, Flatten, Leaf
    <2>3. p \in DOMAIN change.before \cup DOMAIN NoMarks
                 \cup DOMAIN change.after \cup DOMAIN change.afterUnknown
      BY <2>1 DEF Paths, Flattened, Flatten, Visited
    <2>4. p \in Seq(Segments)
      BY <2>3, ChangeIsWellFormed, NoMarksIsMarker DEF IInv, IsValue, IsMarker, Tree
    <2>5. Flagged(change.afterUnknown, p)
      BY <2>4, MarkedIsFlagged, ChangeIsWellFormed DEF IInv
    <2>6. Diff(change)[p].changed
      BY <2>1, <2>2, <2>5, DiffType
    <2> QED
      BY <2>1, <2>6, FinishedIsDiff
  <1>2. Init => EInv
    BY DEF Init, EInv
  <1> QED
    BY <1>1, <1>2, NextEInv, SpecIInv, PTL DEF Spec

\* What a reader hands to a predicate has no secret and nothing unknown in it,
\* at any depth.
THEOREM ReadersReadNoSecret == Spec => []ReadableValuesAreClean
  <1>1. TypeOK => ReadableValuesAreClean
    <2> SUFFICES ASSUME TypeOK PROVE ReadableValuesAreClean
      OBVIOUS
    <2> DEFINE both == DOMAIN change.before \cup DOMAIN change.after
    <2>1. both \subseteq Seq(Segments)
      BY ChangeIsWellFormed DEF IsValue, Tree
    <2>2. ASSUME NEW p \in both, NEW q \in both, Covers(p, q), ~TouchesSensitive(change, p)
          PROVE  ~Marked(change.beforeSensitive, q) /\ ~Marked(change.afterSensitive, q)
      BY <2>1, <2>2, MarkAtOrBelow, ChangeIsWellFormed DEF TouchesSensitive
    <2>3. ASSUME NEW p \in both, RawBefore(change, p) # {} \/ RawAfter(change, p) # {}
          PROVE  ~TouchesSensitive(change, p)
      BY <2>3 DEF RawBefore, RawAfter
    <2>4. ASSUME NEW p \in DOMAIN change.after, NEW q \in DOMAIN change.after, Covers(p, q),
                 RawAfter(change, p) # {}
          PROVE  ~Marked(change.afterUnknown, q)
      BY <2>1, <2>4, MarkAtOrBelow, ChangeIsWellFormed DEF RawAfter
    <2> QED
      BY <2>2, <2>3, <2>4 DEF ReadableValuesAreClean
  <1> QED
    BY <1>1, TypeCorrect, PTL

-----------------------------------------------------------------------------
(* The readers and the diff. *)

\* The markers of the receiver fit its values.
LEMMA MarkersFit ==
    ASSUME TypeOK
    PROVE  /\ DOMAIN change.beforeSensitive \subseteq DOMAIN change.before
           /\ \A p \in DOMAIN change.afterSensitive :
                p \in DOMAIN change.after \/ At(change.afterUnknown, p) = "true"
           /\ \A p \in DOMAIN change.afterUnknown :
                /\ p \in DOMAIN change.after \/ AnyMarkedBelow(change.afterUnknown, p)
                /\ change.afterUnknown[p] \in Containers
                     => At(change.after, p) \in {"null", change.afterUnknown[p]}
  BY MarkersFitValues DEF TypeOK

\* A sensitivity marker that fits its value marks nothing below a leaf.
LEMMA NoMarkBelowLeaf ==
    ASSUME NEW v, IsValue(v), NEW unk, IsMarker(unk), NEW sens, IsMarker(sens),
           \A q \in DOMAIN v : Marked(unk, q) => v[q] = "null",
           \A q \in DOMAIN sens : q \in DOMAIN v \/ At(unk, q) = "true",
           \A q \in DOMAIN unk : unk[q] \in Containers => At(v, q) \in {"null", unk[q]},
           NEW p \in DOMAIN Flatten(v, unk, sens), ~Marked(sens, p)
    PROVE  ~AnyMarkedBelow(sens, p)
  <1> SUFFICES ASSUME AnyMarkedBelow(sens, p) PROVE FALSE
    OBVIOUS
  <1>1. p \in Seq(Segments) /\ Below(v, unk, p) = {}
    BY LeafFields DEF Flatten, IsLeaf
  <1>2. PICK q \in DOMAIN sens : Covers(p, q) /\ Len(p) < Len(q) /\ sens[q] = "true"
    BY <1>1, MarkIsBelow
  <1>3. CASE q \in DOMAIN v
    <2>1. /\ p \in DOMAIN v /\ v[p] \in Containers
          /\ Children(v, p) # {}
      BY <1>1, <1>2, <1>3, AboveIsContainer DEF IsValue
    <2>2. ~Flagged(unk, p)
      BY <1>1, <2>1, MarkedIsFlagged DEF Containers
    <2> QED
      BY <1>1, <2>1, <2>2 DEF Below
  <1>4. CASE At(unk, q) = "true"
    <2>1. q \in DOMAIN unk
      BY <1>4 DEF At
    <2>2. /\ p \in DOMAIN unk /\ unk[p] \in Containers
          /\ Children(unk, p) # {}
          /\ \A n \in 0 .. Len(p) : unk[Upto(p, n)] \in Containers
      BY <1>1, <1>2, <2>1, AboveIsContainer DEF IsMarker
    <2>3. ~Flagged(unk, p)
      BY <2>2 DEF Flagged, Descend, Containers
    <2>4. At(v, p) \in {"null", At(unk, p)}
      BY <2>2 DEF At
    <2> QED
      BY <1>1, <2>2, <2>3, <2>4 DEF Below
  <1> QED
    BY <1>2, <1>3, <1>4

\* What can be read stands in the diff, and what the diff shows of a path of
\* both sides can be read: the two functions that walk markers for a value
\* mean the same.
THEOREM ReadersAgree == Spec => []ReadersAgreeWithDiff
  <1>1. ASSUME IInv, EInv, Done, NEW p \in DOMAIN entries
        PROVE  LET e == entries[p]
               IN  /\ e.beforeSensitive \/ e.afterSensitive
                        => RawBefore(change, p) = {} /\ RawAfter(change, p) = {}
                   /\ p \in DOMAIN before /\ RawBefore(change, p) # {}
                        => e.before \in {Render(before[p]), SensitiveValue}
                             /\ RawBefore(change, p) = {before[p].raw}
                   /\ RawAfter(change, p) # {} => ~e.unknown
                   /\ p \in DOMAIN before \cap DOMAIN after
                        /\ e.before \notin Placeholders
                        => RawBefore(change, p) = {e.before}
    <2> DEFINE e == entries[p]
               marked == \/ p \in DOMAIN before /\ before[p].sensitive
                         \/ p \in DOMAIN after /\ after[p].sensitive
    <2>1. Flattened /\ p \in Paths /\ e = Diff(change)[p]
      BY <1>1, FinishedIsDiff DEF IInv, EInv, Done, Paths
    <2>2. IsChange(change) /\ before = BeforeLeaves(change) /\ after = AfterLeaves(change)
      BY <1>1, <2>1, ChangeIsWellFormed DEF IInv, IsChange, Flattened, BeforeLeaves, AfterLeaves
    <2>3. /\ e.before = Side(before, p, marked \/ p \in Echoes(before))
          /\ e.unknown <=> p \in DOMAIN after /\ after[p].unknown
          /\ e.beforeSensitive <=> p \in DOMAIN before /\ before[p].sensitive
          /\ e.afterSensitive <=> p \in DOMAIN after /\ after[p].sensitive
      BY <1>1, <2>1, DiffType
    <2>4. ASSUME p \in DOMAIN before
          PROVE  /\ p \in Seq(Segments) /\ before[p] \in Leaves
                 /\ before[p].raw = At(change.before, p)
                 /\ ~before[p].unknown
                 /\ before[p].sensitive = Marked(change.beforeSensitive, p)
      BY <2>2, <2>4, SideLeaves
    <2>5. ASSUME p \in DOMAIN after
          PROVE  /\ after[p].unknown = Marked(change.afterUnknown, p)
                 /\ after[p].sensitive = Marked(change.afterSensitive, p)
      BY <2>2, <2>5, SideLeaves
    <2>6. e.beforeSensitive \/ e.afterSensitive
            => RawBefore(change, p) = {} /\ RawAfter(change, p) = {}
      BY <2>3, <2>4, <2>5 DEF RawBefore, RawAfter, TouchesSensitive
    <2>7. p \in DOMAIN before /\ RawBefore(change, p) # {}
            => e.before \in {Render(before[p]), SensitiveValue}
                 /\ RawBefore(change, p) = {before[p].raw}
      BY <2>3, <2>4 DEF RawBefore, Lookup, At, Side, Hide
    <2>8. RawAfter(change, p) # {} => ~e.unknown
      BY <2>3, <2>5 DEF RawAfter
    <2>9. ASSUME p \in DOMAIN before \cap DOMAIN after, e.before \notin Placeholders
          PROVE  RawBefore(change, p) = {e.before}
      <3>1. /\ e.before = Render(before[p]) /\ ~before[p].sensitive /\ ~after[p].sensitive
        BY <2>3, <2>4, <2>9, RenderIsPresent DEF Side, Hide, Placeholders
      <3>2. e.before = before[p].raw /\ before[p].raw \in Strings \cup Atoms
        BY <2>4, <2>9, <3>1 DEF Render, Literal, Placeholders, Leaves, Containers
      <3>3. p \in DOMAIN change.before /\ change.before[p] = e.before
        BY <2>4, <2>9, <3>2, ValuesAreDisjoint DEF At
      <3>4. ~Marked(change.beforeSensitive, p) /\ ~Marked(change.afterSensitive, p)
        BY <2>4, <2>5, <2>9, <3>1
      <3>5. ~AnyMarkedBelow(change.beforeSensitive, p)
        <4>1. /\ \A q \in DOMAIN change.before : Marked(NoMarks, q) => change.before[q] = "null"
              /\ \A q \in DOMAIN NoMarks : NoMarks[q] \notin Containers
          BY <2>2, NoMarksIsMarker DEF IsChange, IsValue, Tree, NoMarks, Containers
        <4>2. DOMAIN change.beforeSensitive \subseteq DOMAIN change.before
          BY <1>1, MarkersFit DEF IInv
        <4> QED
          BY <2>2, <2>9, <3>4, <4>1, <4>2, NoMarksIsMarker, NoMarkBelowLeaf
             DEF IsChange, BeforeLeaves
      <3>6. ~AnyMarkedBelow(change.afterSensitive, p)
        <4>1. \A q \in DOMAIN change.after :
                Marked(change.afterUnknown, q) => change.after[q] = "null"
          BY <1>1, ChangeIsWellFormed DEF IInv
        <4>2. /\ \A q \in DOMAIN change.afterSensitive :
                   q \in DOMAIN change.after \/ At(change.afterUnknown, q) = "true"
              /\ \A q \in DOMAIN change.afterUnknown : change.afterUnknown[q] \in Containers
                   => At(change.after, q) \in {"null", change.afterUnknown[q]}
          BY <1>1, MarkersFit DEF IInv
        <4> QED
          BY <2>2, <2>9, <3>4, <4>1, <4>2, NoMarkBelowLeaf DEF IsChange, AfterLeaves
      <3> QED
        BY <3>3, <3>4, <3>5, <3>6 DEF RawBefore, Lookup, TouchesSensitive
    <2> QED
      BY <2>6, <2>7, <2>8, <2>9
  <1>2. IInv /\ EInv => ReadersAgreeWithDiff
    BY <1>1 DEF ReadersAgreeWithDiff
  <1>3. Init => EInv
    BY DEF Init, EInv
  <1> QED
    BY <1>2, <1>3, NextEInv, SpecIInv, PTL DEF Spec

-----------------------------------------------------------------------------
(* A change is reported exactly when there is one. *)

\* Among finitely many paths there is a longest one: a smallest set without
\* one would have one when any of its paths is taken away.
LEMMA LongestPath ==
    ASSUME NEW S, IsFiniteSet(S), S \subseteq Seq(Segments), S # {}
    PROVE  \E l \in S : \A q \in S : Len(q) <= Len(l)
  <1> DEFINE Longest(T, l) == l \in T /\ \A q \in T : Len(q) <= Len(l)
             Bad(T) == T \subseteq S /\ T # {} /\ \A l : ~Longest(T, l)
             sizes == {n \in Nat : \E T \in SUBSET S : Bad(T) /\ Cardinality(T) = n}
  <1> SUFFICES ASSUME Bad(S) PROVE FALSE
    OBVIOUS
  <1>1. \A T \in SUBSET S : IsFiniteSet(T) /\ Cardinality(T) \in Nat
    BY FS_Subset, FS_CardinalityType
  <1>2. Cardinality(S) \in sizes
    BY <1>1
  <1> HIDE DEF Bad
  <1>3. PICK m \in sizes : \A k \in sizes : m <= k
    <2>1. sizes \subseteq Nat /\ sizes # {}
      BY <1>2
    <2> HIDE DEF sizes
    <2> QED
      BY <2>1, LeastNatural
  <1>4. PICK T \in SUBSET S : Bad(T) /\ Cardinality(T) = m
    BY <1>3
  <1>5. PICK x : x \in T
    BY <1>4 DEF Bad
  <1>6. Cardinality(T \ {x}) = m - 1 /\ m - 1 \in Nat /\ T \ {x} \in SUBSET S
    <2>1. T \ {x} \in SUBSET S
      OBVIOUS
    <2>2. IsFiniteSet(T) /\ Cardinality(T \ {x}) \in Nat
      BY <1>1, <2>1
    <2>3. Cardinality(T \ {x}) = Cardinality(T) - 1
      BY <1>5, <2>2, FS_RemoveElement
    <2> QED
      BY <1>4, <2>1, <2>2, <2>3
  <1>7. ~Bad(T \ {x})
    <2>1. m - 1 \notin sizes
      BY <1>3, <1>6
    <2> QED
      BY <1>6, <2>1
  <1>8. \A q \in T : Len(q) \in Nat
    BY LenProperties
  <1>9. CASE T \ {x} = {}
    <2>1. \A q \in T : q = x
      BY <1>9
    <2>2. Longest(T, x)
      BY <1>5, <1>8, <2>1
    <2> QED
      BY <1>4, <2>2 DEF Bad
  <1>10. CASE T \ {x} # {}
    <2>1. PICK l : Longest(T \ {x}, l)
      BY <1>6, <1>7, <1>10 DEF Bad
    <2>2. l \in T /\ Len(l) \in Nat /\ Len(x) \in Nat
      BY <1>5, <1>8, <2>1
    <2>3. CASE Len(x) <= Len(l)
      BY <1>4, <2>1, <2>2, <2>3 DEF Bad
    <2>4. CASE Len(l) < Len(x)
      <3>1. \A q \in T : Len(q) <= Len(x)
        BY <1>8, <2>1, <2>2, <2>4
      <3> QED
        BY <1>4, <1>5, <3>1 DEF Bad
    <2> QED
      BY <2>2, <2>3, <2>4
  <1> QED
    BY <1>9, <1>10

\* A path at which a value of which everything is known has a leaf.
Ends(v, p) ==
    /\ p \in DOMAIN v /\ Children(v, p) = {}
    /\ p # << >> \/ v[p] \notin Containers \cup {"null"}

\* Every path of a value but the root has a leaf at it or below it.
LEMMA EndsBelow ==
    ASSUME NEW v, IsValue(v), NEW p \in DOMAIN v, p # << >>
    PROVE  \E l : Ends(v, l) /\ Covers(p, l)
  <1> DEFINE S == {q \in DOMAIN v : Covers(p, q)}
  <1>1. DOMAIN v \subseteq Seq(Segments) /\ IsFiniteSet(DOMAIN v)
    BY DEF IsValue, Tree
  <1>2. p \in Seq(Segments) /\ Len(p) \in Nat /\ Len(p) # 0 /\ Covers(p, p)
    <2>1. p \in Seq(Segments) /\ Len(p) \in Nat
      BY <1>1, LenProperties
    <2>2. Len(p) = 0 => p = << >>
      BY <2>1, EmptySeq
    <2> QED
      BY <2>1, <2>2, PrefixOfPrefix DEF Covers
  <1>3. S \in SUBSET DOMAIN v /\ p \in S
    BY <1>2
  <1>4. IsFiniteSet(S)
    BY <1>1, <1>3, FS_Subset
  <1>5. PICK l \in S : \A q \in S : Len(q) <= Len(l)
    BY <1>1, <1>3, <1>4, LongestPath
  <1>6. l \in DOMAIN v /\ Covers(p, l) /\ l \in Seq(Segments) /\ Len(l) \in Nat
    BY <1>1, <1>5, LenProperties
  <1>7. ASSUME NEW q \in Children(v, l) PROVE FALSE
    <2>1. q \in DOMAIN v /\ Len(q) = Len(l) + 1 /\ Covers(l, q) /\ q \in Seq(Segments)
      BY <1>1 DEF Children
    <2>2. Len(l) \in 0 .. Len(q) /\ Len(p) \in 0 .. Len(l) /\ Upto(q, Len(l)) = l
      BY <1>2, <1>6, <2>1 DEF Covers
    <2>3. Upto(q, Len(p)) = Upto(l, Len(p))
      BY <2>1, <2>2, PrefixOfPrefix
    <2>4. Covers(p, q)
      BY <1>2, <1>6, <2>1, <2>2, <2>3 DEF Covers
    <2> QED
      BY <1>5, <1>6, <2>1, <2>4
  <1>8. l # << >>
    BY <1>2, <1>6 DEF Covers
  <1> QED
    BY <1>6, <1>7, <1>8 DEF Ends

\* Two values with the same leaves have the same paths, and a container on one
\* side is the same container on the other.
LEMMA SameEndsSamePaths ==
    ASSUME NEW v, IsValue(v), NEW w, IsValue(w),
           \A l : Ends(v, l) => Ends(w, l) /\ v[l] = w[l],
           NEW p \in DOMAIN v, p # << >>
    PROVE  p \in DOMAIN w /\ v[p] = w[p]
  <1>1. PICK l : Ends(v, l) /\ Covers(p, l)
    BY EndsBelow
  <1>2. l \in DOMAIN v /\ l \in DOMAIN w /\ v[l] = w[l]
    BY <1>1 DEF Ends
  <1>3. p \in Seq(Segments) /\ l \in Seq(Segments) /\ Len(p) \in Nat /\ Len(l) \in Nat
    BY <1>2, LenProperties DEF IsValue, Tree
  <1>4. CASE Len(p) < Len(l)
    <2>1. v[p] \in Containers /\ (l[Len(p) + 1].index <=> v[p] = "list")
      BY <1>1, <1>2, <1>3, <1>4, AboveIsContainer DEF IsValue
    <2>2. p \in DOMAIN w /\ w[p] \in Containers /\ (l[Len(p) + 1].index <=> w[p] = "list")
      BY <1>1, <1>2, <1>3, <1>4, AboveIsContainer DEF IsValue
    <2> QED
      BY <2>1, <2>2 DEF Containers
  <1>5. CASE ~(Len(p) < Len(l))
    <2>1. p = l
      BY <1>1, <1>3, <1>5, PrefixOfPrefix DEF Covers
    <2> QED
      BY <1>2, <2>1
  <1> QED
    BY <1>4, <1>5

\* What a value has besides an empty root.
LEMMA ContentAt ==
    ASSUME NEW v
    PROVE  /\ DOMAIN Content(v) = {p \in DOMAIN v : p # << >> \/ v[p] \in Strings \cup Atoms}
           /\ \A p \in DOMAIN Content(v) : Content(v)[p] = v[p]
           /\ Content(v) = [p \in DOMAIN Content(v) |-> Content(v)[p]]
  BY DEF Content

\* A scalar has nothing below it.
LEMMA ScalarsEnd ==
    ASSUME NEW v, IsValue(v), NEW p \in DOMAIN v, v[p] \in Strings \cup Atoms
    PROVE  Ends(v, p)
  <1>1. ASSUME NEW q \in Children(v, p) PROVE FALSE
    <2>1. p \in Seq(Segments) /\ q \in DOMAIN v /\ Covers(p, q) /\ Len(q) = Len(p) + 1
      BY DEF IsValue, Tree, Children
    <2>2. v[p] \in Containers
      BY <2>1, LenProperties, AboveIsContainer DEF IsValue
    <2> QED
      BY <2>2, ValuesAreDisjoint
  <1> QED
    BY <1>1, ValuesAreDisjoint DEF Ends

\* Values differ exactly when their leaves do.
LEMMA SameContent ==
    ASSUME NEW v, IsValue(v), NEW w, IsValue(w)
    PROVE  Content(v) = Content(w)
             <=> \A l : /\ Ends(v, l) <=> Ends(w, l)
                        /\ Ends(v, l) => v[l] = w[l]
  <1>1. ASSUME \A l : (Ends(v, l) <=> Ends(w, l)) /\ (Ends(v, l) => v[l] = w[l])
        PROVE  Content(v) = Content(w)
    <2>1. ASSUME NEW x, IsValue(x), NEW y, IsValue(y),
                 \A l : Ends(x, l) => Ends(y, l) /\ x[l] = y[l],
                 NEW p \in DOMAIN Content(x)
          PROVE  p \in DOMAIN Content(y) /\ Content(x)[p] = Content(y)[p]
      <3>1. p \in DOMAIN x /\ Content(x)[p] = x[p] /\ (p # << >> \/ x[p] \in Strings \cup Atoms)
        BY <2>1, ContentAt
      <3>2. p \in DOMAIN y /\ x[p] = y[p]
        <4>1. CASE p # << >>
          BY <2>1, <3>1, <4>1, SameEndsSamePaths
        <4>2. CASE x[p] \in Strings \cup Atoms
          BY <2>1, <3>1, <4>2, ScalarsEnd DEF Ends
        <4> QED
          BY <3>1, <4>1, <4>2
      <3> QED
        BY <2>1, <3>1, <3>2, ContentAt
    <2>2. /\ \A l : Ends(v, l) => Ends(w, l) /\ v[l] = w[l]
          /\ \A l : Ends(w, l) => Ends(v, l) /\ w[l] = v[l]
      BY <1>1
    <2>3. \A p \in DOMAIN Content(v) : p \in DOMAIN Content(w) /\ Content(v)[p] = Content(w)[p]
      BY <2>1, <2>2
    <2>4. \A p \in DOMAIN Content(w) : p \in DOMAIN Content(v)
      BY <2>1, <2>2
    <2>5. /\ Content(v) = [p \in DOMAIN Content(v) |-> Content(v)[p]]
          /\ Content(w) = [p \in DOMAIN Content(w) |-> Content(w)[p]]
      BY ContentAt
    <2>6. DOMAIN Content(v) = DOMAIN Content(w)
      BY <2>3, <2>4
    <2> QED
      BY <2>3, <2>5, <2>6
  <1>2. ASSUME NEW x, IsValue(x), NEW y, IsValue(y), Content(x) = Content(y), NEW l, Ends(x, l)
        PROVE  Ends(y, l) /\ x[l] = y[l]
    <2>1. l \in DOMAIN Content(x)
      <3>1. x[l] \in Strings \cup Atoms \cup Containers \cup {"null"}
        BY <1>2 DEF Ends, IsValue, Tree
      <3> QED
        BY <1>2, <3>1, ContentAt DEF Ends
    <2>2. /\ l \in DOMAIN y /\ x[l] = y[l]
          /\ l # << >> \/ y[l] \in Strings \cup Atoms
      <3>1. l \in DOMAIN Content(y) /\ x[l] = Content(x)[l]
        BY <1>2, <2>1, ContentAt
      <3>2. /\ l \in DOMAIN y /\ Content(y)[l] = y[l]
            /\ l # << >> \/ y[l] \in Strings \cup Atoms
        BY <3>1, ContentAt
      <3> QED
        BY <1>2, <3>1, <3>2
    <2>3. ASSUME NEW q \in Children(y, l) PROVE q \in Children(x, l)
      <3>1. q \in DOMAIN y /\ Len(q) = Len(l) + 1 /\ Covers(l, q) /\ l \in Seq(Segments)
        BY <1>2, <2>2 DEF Children, IsValue, Tree
      <3>2. q # << >>
        <4>1. Len(l) \in Nat /\ Len(<< >>) = 0
          BY <3>1, LenProperties
        <4> QED
          BY <3>1, <4>1
      <3>3. q \in DOMAIN x
        BY <1>2, <3>1, <3>2, ContentAt
      <3> QED
        BY <3>1, <3>3 DEF Children
    <2> QED
      BY <1>2, <2>2, <2>3, ValuesAreDisjoint DEF Ends
  <1> QED
    BY <1>1, <1>2

\* When nothing is unknown, the leaves of a value are the paths it ends at.
LEMMA KnownLeaves ==
    ASSUME NEW v, IsValue(v), NEW unk, IsMarker(unk), NEW sens,
           DOMAIN unk \subseteq DOMAIN v, \A q \in DOMAIN unk : unk[q] # "true"
    PROVE  /\ \A p : p \in DOMAIN Flatten(v, unk, sens) <=> Ends(v, p)
           /\ \A p \in DOMAIN Flatten(v, unk, sens) :
                /\ Flatten(v, unk, sens)[p].raw = v[p]
                /\ ~Flatten(v, unk, sens)[p].unknown
  <1>1. \A p : ~Flagged(unk, p)
    BY DEF Flagged, Descend
  <1>2. \A p : Below(v, unk, p) = Children(v, p)
    BY <1>1 DEF Below, Children
  <1>3. ASSUME NEW p \in DOMAIN v, NEW n \in 1 .. Len(p)
        PROVE  Upto(p, n) \in Children(v, Upto(p, n - 1))
    <2>1. p \in Seq(Segments) /\ Len(p) \in Nat
      BY LenProperties DEF IsValue, Tree
    <2>2. n \in 0 .. Len(p) /\ n - 1 \in 0 .. n /\ n - 1 \in 0 .. Len(p) /\ Len(p) \in 0 .. Len(p)
      BY <2>1
    <2>3. Len(Upto(p, n)) = n /\ Len(Upto(p, n - 1)) = n - 1 /\ Upto(p, Len(p)) = p
      BY <2>1, <2>2, PrefixOfPrefix
    <2>4. Covers(Upto(p, n - 1), Upto(p, n))
      BY <2>1, <2>2, PrefixIsCovered
    <2>5. Upto(p, n) \in DOMAIN v
      BY <2>1, <2>2, <2>3 DEF IsValue, Tree
    <2> QED
      BY <2>2, <2>3, <2>4, <2>5 DEF Children
  <1>4. Visited(v, unk) = DOMAIN v
    BY <1>2, <1>3 DEF Visited
  <1>5. \A p : p \in DOMAIN Flatten(v, unk, sens) <=> Ends(v, p)
    BY <1>1, <1>2, <1>4 DEF Flatten, IsLeaf, Ends, At
  <1>6. \A p \in DOMAIN Flatten(v, unk, sens) : Flatten(v, unk, sens)[p] = Leaf(v, unk, sens, p)
    BY DEF Flatten
  <1>7. \A p \in DOMAIN v : Leaf(v, unk, sens, p).raw = v[p] /\ ~Leaf(v, unk, sens, p).unknown
    BY <1>1 DEF Leaf, At
  <1> QED
    BY <1>5, <1>6, <1>7 DEF Ends

\* What is unknown is a leaf, when the walk can reach it along the marker.
LEMMA UnknownIsLeaf ==
    ASSUME NEW v, NEW unk, IsMarker(unk), NEW sens,
           \A p \in DOMAIN unk : unk[p] \in Containers => At(v, p) \in {"null", unk[p]},
           NEW q \in DOMAIN unk, unk[q] = "true"
    PROVE  q \in DOMAIN Flatten(v, unk, sens) /\ Flatten(v, unk, sens)[q].unknown
  <1>1. q \in Seq(Segments) /\ Len(q) \in Nat
    BY LenProperties DEF IsMarker, Tree
  <1>2. Len(q) \in 0 .. Len(q) /\ Upto(q, Len(q)) = q
    BY <1>1, PrefixOfPrefix
  <1>3. \A n \in 0 .. Len(q) : Upto(q, n) \in DOMAIN unk
    BY <1>1, <1>2 DEF IsMarker, Tree
  <1>4. \A n \in 0 .. Len(q) - 1 : unk[Upto(q, n)] \in Containers
    BY DEF IsMarker, Tree
  <1>5. Flagged(unk, q)
    <2>1. q \in Descend(unk, q)
      BY <1>2, <1>3, <1>4 DEF Descend, Containers, Flags
    <2> QED
      BY <2>1 DEF Flagged
  <1>6. ASSUME NEW n \in 1 .. Len(q)
        PROVE  Upto(q, n) \in Below(v, unk, Upto(q, n - 1))
    <2> DEFINE p == Upto(q, n - 1)
    <2>1. n \in 0 .. Len(q) /\ n - 1 \in 0 .. n /\ n - 1 \in 0 .. Len(q) /\ n - 1 \in 0 .. Len(q) - 1
      BY <1>1
    <2>2. /\ p \in Seq(Segments) /\ Len(p) = n - 1 /\ Len(Upto(q, n)) = n
          /\ \A m \in 0 .. n - 1 : Upto(p, m) = Upto(q, m)
      BY <1>1, <2>1, PrefixOfPrefix
    <2>3. Covers(p, Upto(q, n))
      BY <1>1, <2>1, PrefixIsCovered
    <2>4. Upto(q, n) \in Children(unk, p)
      BY <1>3, <2>1, <2>2, <2>3 DEF Children
    <2>5. ~Flagged(unk, p)
      <3>1. \A m \in 0 .. Len(p) : unk[Upto(p, m)] \in Containers
        BY <1>1, <1>4, <2>1, <2>2
      <3> QED
        BY <3>1 DEF Flagged, Descend, Containers
    <2>6. At(v, p) \in {"null", At(unk, p)}
      BY <1>3, <1>4, <2>1 DEF At
    <2> QED
      BY <2>4, <2>5, <2>6 DEF Below
  <1>7. q \in Visited(v, unk)
    BY <1>6 DEF Visited
  <1>8. IsLeaf(v, unk, q)
    BY <1>5 DEF IsLeaf, Below
  <1>9. q \in DOMAIN Flatten(v, unk, sens) /\ Flatten(v, unk, sens)[q] = Leaf(v, unk, sens, q)
    BY <1>7, <1>8 DEF Flatten
  <1> QED
    BY <1>5, <1>9 DEF Leaf

\* A change of a value shows as a changed entry, and a changed entry shows a
\* change of a value, whatever shapes the two sides have.
THEOREM ChangedExact == Spec => []ChangedIffDifferent
  <1>1. ASSUME IInv, EInv, Done
        PROVE  (\E p \in DOMAIN entries : entries[p].changed)
                 <=> \/ Content(change.before) # Content(change.after)
                     \/ \E q \in DOMAIN change.afterUnknown : change.afterUnknown[q] = "true"
    <2> DEFINE unk == change.afterUnknown
               differ(p) == \/ p \notin DOMAIN before \cap DOMAIN after
                            \/ after[p].unknown
                            \/ before[p].raw # after[p].raw
    <2>1. Flattened /\ DOMAIN entries = Paths /\ \A p \in Paths : entries[p] = Diff(change)[p]
      BY <1>1, FinishedIsDiff DEF IInv, EInv, Done, Paths
    <2>2. \A p \in Paths : entries[p].changed <=> differ(p)
      BY <1>1, <2>1, DiffType
    <2>3. /\ IsValue(change.before) /\ IsValue(change.after) /\ IsMarker(unk)
          /\ IsMarker(change.beforeSensitive) /\ IsMarker(change.afterSensitive)
      BY <1>1, ChangeIsWellFormed DEF IInv
    <2>4. \A p \in DOMAIN unk :
            /\ p \in DOMAIN change.after \/ AnyMarkedBelow(unk, p)
            /\ unk[p] \in Containers => At(change.after, p) \in {"null", unk[p]}
      BY <1>1, MarkersFit DEF IInv
    <2>5. ASSUME NEW q \in DOMAIN unk, unk[q] = "true"
          PROVE  \E p \in DOMAIN entries : entries[p].changed
      <3>1. q \in DOMAIN after /\ after[q].unknown
        BY <2>1, <2>3, <2>4, <2>5, UnknownIsLeaf DEF Flattened
      <3> QED
        BY <2>1, <2>2, <3>1 DEF Paths
    <2>6. ASSUME \A q \in DOMAIN unk : unk[q] # "true"
          PROVE  (\E p \in DOMAIN entries : entries[p].changed)
                   <=> Content(change.before) # Content(change.after)
      <3>1. DOMAIN unk \subseteq DOMAIN change.after
        BY <2>4, <2>6 DEF AnyMarkedBelow
      <3>2. /\ \A p : p \in DOMAIN after <=> Ends(change.after, p)
            /\ \A p \in DOMAIN after : after[p].raw = change.after[p] /\ ~after[p].unknown
        BY <2>1, <2>3, <2>6, <3>1, KnownLeaves DEF Flattened
      <3>3. DOMAIN NoMarks \subseteq DOMAIN change.before /\ \A q \in DOMAIN NoMarks : NoMarks[q] # "true"
        BY <2>3 DEF NoMarks, IsValue, Tree
      <3>4. /\ \A p : p \in DOMAIN before <=> Ends(change.before, p)
            /\ \A p \in DOMAIN before : before[p].raw = change.before[p]
        BY <2>1, <2>3, <3>3, NoMarksIsMarker, KnownLeaves DEF Flattened
      <3>5. (\A p \in Paths : ~differ(p))
              <=> \A p : /\ Ends(change.before, p) <=> Ends(change.after, p)
                         /\ Ends(change.before, p) => change.before[p] = change.after[p]
        BY <3>2, <3>4 DEF Paths
      <3>6. (\A p \in Paths : ~differ(p)) <=> Content(change.before) = Content(change.after)
        BY <2>3, <3>5, SameContent
      <3> HIDE DEF differ
      <3> QED
        BY <2>1, <2>2, <3>6
    <2> QED
      BY <2>5, <2>6
  <1>2. IInv /\ EInv => ChangedIffDifferent
    BY <1>1 DEF ChangedIffDifferent
  <1>3. Init => EInv
    BY DEF Init, EInv
  <1> QED
    BY <1>2, <1>3, NextEInv, SpecIInv, PTL DEF Spec

-----------------------------------------------------------------------------
(* The order of the entries. *)

\* How one path comes before another, segment by segment.
Agree(p, q, n) == \A i \in 1 .. n : p[i] = q[i]
LessAt(p, q, n) ==
    n \in 1 .. Len(p) /\ n <= Len(q) /\ Agree(p, q, n - 1) /\ LessSegment(p[n], q[n])
ProperPrefix(p, q) == Len(p) < Len(q) /\ Agree(p, q, Len(p))

\* Prefixes are equal when their segments are.
LEMMA UptoIsAgree ==
    ASSUME NEW p \in Seq(Segments), NEW q \in Seq(Segments), NEW n \in Nat,
           n <= Len(p), n <= Len(q)
    PROVE  Upto(p, n) = Upto(q, n) <=> Agree(p, q, n)
  <1>1. n \in 0 .. Len(p) /\ n \in 0 .. Len(q)
    BY LenProperties
  <1>2. /\ Upto(p, n) \in Seq(Segments) /\ Len(Upto(p, n)) = n
        /\ Upto(q, n) \in Seq(Segments) /\ Len(Upto(q, n)) = n
    BY <1>1, PrefixOfPrefix
  <1>3. \A i \in 1 .. n : Upto(p, n)[i] = p[i] /\ Upto(q, n)[i] = q[i]
    BY <1>1 DEF Upto
  <1>4. (\A i \in 1 .. n : Upto(p, n)[i] = Upto(q, n)[i]) => Upto(p, n) = Upto(q, n)
    BY <1>2, SeqEqual
  <1> QED
    BY <1>3, <1>4 DEF Agree

\* LessPath, segment by segment.
LEMMA LessPathIs ==
    ASSUME NEW p \in Seq(Segments), NEW q \in Seq(Segments)
    PROVE  LessPath(p, q) <=> (\E n \in Nat : LessAt(p, q, n)) \/ ProperPrefix(p, q)
  <1>1. Len(p) \in Nat /\ Len(q) \in Nat
    BY LenProperties
  <1>2. ASSUME NEW n \in 1 .. Len(p), n <= Len(q)
        PROVE  Upto(p, n - 1) = Upto(q, n - 1) <=> Agree(p, q, n - 1)
    BY <1>1, <1>2, UptoIsAgree
  <1>3. Len(p) < Len(q) => (Covers(p, q) <=> Agree(p, q, Len(p)))
    BY <1>1, UptoIsAgree, PrefixOfPrefix DEF Covers
  <1> QED
    BY <1>1, <1>2, <1>3 DEF LessPath, LessAt, ProperPrefix

\* Segments are ordered.
LEMMA SegmentsAreOrdered ==
    /\ \A s \in Segments : ~LessSegment(s, s)
    /\ \A s, t, u \in Segments : LessSegment(s, t) /\ LessSegment(t, u) => LessSegment(s, u)
    /\ \A s, t \in Segments : s = t \/ LessSegment(s, t) \/ LessSegment(t, s)
  <1>1. \A s \in Segments : s.index \in BOOLEAN /\ s.at \in Nat
    BY DEF Segments
  <1>2. \A s, t \in Segments : s.index = t.index /\ s.at = t.at => s = t
    BY DEF Segments
  <1> QED
    BY <1>1, <1>2 DEF LessSegment

\* Of two different paths one comes first.
LEMMA PathsAreTotal ==
    ASSUME NEW p \in Seq(Segments), NEW q \in Seq(Segments), p # q
    PROVE  LessPath(p, q) \/ LessPath(q, p)
  <1> DEFINE D == {i \in 1 .. Len(p) : i <= Len(q) /\ p[i] # q[i]}
  <1>1. Len(p) \in Nat /\ Len(q) \in Nat
    BY LenProperties
  <1>2. CASE D # {}
    <2>1. PICK m \in D : \A k \in D : m <= k
      <3>1. D \subseteq Nat
        BY <1>1
      <3> HIDE DEF D
      <3> QED
        BY <1>2, <3>1, LeastNatural
    <2>2. m \in 1 .. Len(p) /\ m \in 1 .. Len(q) /\ m \in Nat /\ p[m] # q[m]
      BY <1>1, <2>1
    <2>3. Agree(p, q, m - 1) /\ Agree(q, p, m - 1)
      BY <1>1, <2>1, <2>2 DEF Agree
    <2>4. p[m] \in Segments /\ q[m] \in Segments
      BY <2>2
    <2>5. LessSegment(p[m], q[m]) \/ LessSegment(q[m], p[m])
      BY <2>2, <2>4, SegmentsAreOrdered
    <2> QED
      BY <1>1, <2>2, <2>3, <2>5, LessPathIs DEF LessAt
  <1>3. CASE D = {}
    <2>1. \A i \in 1 .. Len(p) : i <= Len(q) => p[i] = q[i]
      BY <1>3
    <2>2. Len(p) # Len(q)
      BY <1>1, <2>1, SeqEqual
    <2>3. ProperPrefix(p, q) \/ ProperPrefix(q, p)
      BY <1>1, <2>1, <2>2 DEF ProperPrefix, Agree
    <2> QED
      BY <2>3, LessPathIs
  <1> QED
    BY <1>2, <1>3

\* The order is transitive.
LEMMA PathsAreTransitive ==
    ASSUME NEW p \in Seq(Segments), NEW q \in Seq(Segments), NEW r \in Seq(Segments),
           LessPath(p, q), LessPath(q, r)
    PROVE  LessPath(p, r)
  <1>1. Len(p) \in Nat /\ Len(q) \in Nat /\ Len(r) \in Nat
    BY LenProperties
  <1>2. ASSUME NEW n \in Nat, LessAt(p, q, n), NEW m \in Nat, LessAt(q, r, m)
        PROVE  \E k \in Nat : LessAt(p, r, k)
    <2>1. CASE n < m
      <3>1. q[n] = r[n] /\ n <= Len(r) /\ Agree(p, r, n - 1)
        BY <1>1, <1>2, <2>1 DEF LessAt, Agree
      <3> QED
        BY <1>2, <3>1 DEF LessAt
    <2>2. CASE n = m
      <3>1. n \in 1 .. Len(p) /\ n \in 1 .. Len(q) /\ n \in 1 .. Len(r) /\ Agree(p, r, n - 1)
        BY <1>1, <1>2, <2>2 DEF LessAt, Agree
      <3>2. p[n] \in Segments /\ q[n] \in Segments /\ r[n] \in Segments
        BY <3>1
      <3>3. LessSegment(p[n], r[n])
        BY <1>2, <2>2, <3>2, SegmentsAreOrdered DEF LessAt
      <3> QED
        BY <3>1, <3>3 DEF LessAt
    <2>3. CASE m < n
      <3>1. p[m] = q[m] /\ m \in 1 .. Len(p) /\ Agree(p, r, m - 1)
        BY <1>1, <1>2, <2>3 DEF LessAt, Agree
      <3> QED
        BY <1>2, <3>1 DEF LessAt
    <2> QED
      BY <2>1, <2>2, <2>3
  <1>3. ASSUME NEW n \in Nat, LessAt(p, q, n), ProperPrefix(q, r)
        PROVE  LessAt(p, r, n)
    <2>1. q[n] = r[n] /\ n <= Len(r) /\ Agree(p, r, n - 1)
      BY <1>1, <1>3 DEF LessAt, ProperPrefix, Agree
    <2> QED
      BY <1>3, <2>1 DEF LessAt
  <1>4. ASSUME ProperPrefix(p, q), NEW m \in Nat, LessAt(q, r, m)
        PROVE  LessAt(p, r, m) \/ ProperPrefix(p, r)
    <2>1. CASE m <= Len(p)
      <3>1. p[m] = q[m] /\ m \in 1 .. Len(p) /\ Agree(p, r, m - 1)
        BY <1>1, <1>4, <2>1 DEF LessAt, ProperPrefix, Agree
      <3> QED
        BY <1>4, <3>1 DEF LessAt
    <2>2. CASE Len(p) < m
      BY <1>1, <1>4, <2>2 DEF LessAt, ProperPrefix, Agree
    <2> QED
      BY <1>1, <2>1, <2>2
  <1>5. ASSUME ProperPrefix(p, q), ProperPrefix(q, r)
        PROVE  ProperPrefix(p, r)
    BY <1>1, <1>5 DEF ProperPrefix, Agree
  <1> QED
    BY <1>2, <1>3, <1>4, <1>5, LessPathIs

\* No path comes before itself.
LEMMA PathsAreIrreflexive ==
    ASSUME NEW p \in Seq(Segments)
    PROVE  ~LessPath(p, p)
  <1>1. Len(p) \in Nat /\ ~ProperPrefix(p, p)
    BY LenProperties DEF ProperPrefix
  <1>2. \A n \in Nat : ~LessAt(p, p, n)
    <2>1. \A n \in 1 .. Len(p) : p[n] \in Segments
      OBVIOUS
    <2> QED
      BY <2>1, SegmentsAreOrdered DEF LessAt
  <1> QED
    BY <1>1, <1>2, LessPathIs

\* What comes between two paths of a block is a path of the block.
LEMMA BlocksAreConvex ==
    ASSUME NEW x \in Seq(Segments), NEW y \in Seq(Segments), NEW z \in Seq(Segments),
           LessPath(x, y), LessPath(y, z),
           NEW n \in 0 .. Len(x), Covers(Upto(x, n), z)
    PROVE  Covers(Upto(x, n), y)
  <1>1. Len(x) \in Nat /\ Len(y) \in Nat /\ Len(z) \in Nat /\ n \in Nat /\ n <= Len(x)
    BY LenProperties
  <1>2. Len(Upto(x, n)) = n
    BY PrefixOfPrefix
  <1>3. n <= Len(z) /\ Agree(z, x, n)
    BY <1>1, <1>2, UptoIsAgree DEF Covers
  <1>4. SUFFICES n <= Len(y) /\ Agree(y, x, n)
    BY <1>1, <1>2, UptoIsAgree DEF Covers
  <1>5. CASE ProperPrefix(x, y)
    BY <1>1, <1>5 DEF ProperPrefix, Agree
  <1>6. ASSUME NEW m \in Nat, LessAt(x, y, m) PROVE n <= Len(y) /\ Agree(y, x, n)
    <2>1. /\ m \in 1 .. Len(x) /\ m \in 1 .. Len(y)
          /\ LessSegment(x[m], y[m]) /\ \A i \in 1 .. m - 1 : x[i] = y[i]
      BY <1>1, <1>6 DEF LessAt, Agree
    <2>2. x[m] \in Segments /\ y[m] \in Segments
      BY <2>1
    <2>3. CASE n < m
      BY <1>1, <2>1, <2>3 DEF Agree
    <2>4. CASE m <= n
      <3>1. m \in 1 .. Len(z) /\ \A i \in 1 .. m : z[i] = x[i]
        BY <1>1, <1>3, <2>1, <2>4 DEF Agree
      <3>2. ~LessSegment(y[m], z[m]) /\ y[m] # z[m]
        BY <2>1, <2>2, <3>1, SegmentsAreOrdered
      <3>3. ~ProperPrefix(y, z)
        BY <1>1, <2>1, <3>2 DEF ProperPrefix, Agree
      <3>4. ASSUME NEW k \in Nat, LessAt(y, z, k) PROVE FALSE
        <4>1. k \in 1 .. Len(y) /\ LessSegment(y[k], z[k]) /\ \A i \in 1 .. k - 1 : y[i] = z[i]
          BY <3>4 DEF LessAt, Agree
        <4>2. CASE k < m
          <5>1. z[k] = y[k] /\ y[k] \in Segments
            BY <1>1, <2>1, <3>1, <4>1, <4>2
          <5> QED
            BY <4>1, <5>1, SegmentsAreOrdered
        <4>3. CASE k = m
          BY <3>2, <4>1, <4>3
        <4>4. CASE m < k
          BY <2>1, <3>2, <4>1, <4>4
        <4> QED
          BY <2>1, <4>2, <4>3, <4>4
      <3> QED
        BY <3>3, <3>4, LessPathIs
    <2> QED
      BY <1>1, <2>1, <2>3, <2>4
  <1> QED
    BY <1>5, <1>6, LessPathIs

\* How many paths of a set come before one of them.
Place(D, p) == Cardinality({q \in D : LessPath(q, p)})

\* The places of a finite set of paths are 0, 1, 2 and so on, in their order.
LEMMA PlacesAreNumbers ==
    ASSUME NEW D, IsFiniteSet(D), D \subseteq Seq(Segments)
    PROVE  /\ \A p \in D : Place(D, p) \in 0 .. Cardinality(D) - 1
           /\ \A p, q \in D : LessPath(p, q) => Place(D, p) < Place(D, q)
           /\ \A k \in 0 .. Cardinality(D) - 1 : \E p \in D : Place(D, p) = k
  <1> DEFINE n == Cardinality(D)
             earlier(p) == {q \in D : LessPath(q, p)}
             f == [p \in D |-> Place(D, p)]
  <1>1. n \in Nat
    BY FS_CardinalityType
  <1>2. ASSUME NEW p \in D
        PROVE  /\ earlier(p) \in SUBSET D /\ IsFiniteSet(earlier(p))
               /\ Cardinality(earlier(p)) \in Nat
    <2>1. earlier(p) \in SUBSET D
      OBVIOUS
    <2> HIDE DEF earlier
    <2> QED
      BY <2>1, FS_Subset, FS_CardinalityType
  <1>3. ASSUME NEW S \in SUBSET D, NEW T \in SUBSET D, S \subseteq T, NEW x \in T, x \notin S
        PROVE  Cardinality(S) < Cardinality(T)
    <2>1. IsFiniteSet(T) /\ S \in SUBSET T /\ S # T
      BY <1>3, FS_Subset
    <2>2. Cardinality(S) <= Cardinality(T) /\ Cardinality(S) # Cardinality(T)
      BY <2>1, FS_Subset
    <2>3. Cardinality(S) \in Nat /\ Cardinality(T) \in Nat
      BY <2>1, FS_Subset, FS_CardinalityType
    <2> QED
      BY <2>2, <2>3
  <1>4. ASSUME NEW p \in D PROVE Place(D, p) \in 0 .. n - 1
    <2>1. p \notin earlier(p)
      BY PathsAreIrreflexive
    <2>2. Cardinality(earlier(p)) < n
      <3> HIDE DEF earlier
      <3> QED
        BY <1>2, <1>3, <2>1
    <2>3. Place(D, p) = Cardinality(earlier(p))
      BY DEF Place
    <2> HIDE DEF earlier, n
    <2> QED
      BY <1>1, <1>2, <2>2, <2>3
  <1>5. ASSUME NEW p \in D, NEW q \in D, LessPath(p, q) PROVE Place(D, p) < Place(D, q)
    <2>1. earlier(p) \subseteq earlier(q)
      BY <1>5, PathsAreTransitive
    <2>2. p \in earlier(q) /\ p \notin earlier(p)
      BY <1>5, PathsAreIrreflexive
    <2>3. Cardinality(earlier(p)) < Cardinality(earlier(q))
      <3> HIDE DEF earlier
      <3> QED
        BY <1>2, <1>3, <2>1, <2>2
    <2> QED
      BY <2>3 DEF Place
  <1>6. f \in Injection(D, 0 .. n - 1)
    <2>1. f \in [D -> 0 .. n - 1]
      BY <1>4
    <2>2. \A p, q \in D : f[p] = f[q] => p = q
      <3> SUFFICES ASSUME NEW p \in D, NEW q \in D, f[p] = f[q], p # q PROVE FALSE
        OBVIOUS
      <3>1. LessPath(p, q) \/ LessPath(q, p)
        BY PathsAreTotal
      <3>2. Place(D, p) = Place(D, q) /\ Place(D, p) \in Nat
        BY <1>1, <1>4
      <3> QED
        BY <1>5, <3>1, <3>2
    <2> QED
      BY <2>1, <2>2 DEF Injection, IsInjective
  <1>7. IsFiniteSet(0 .. n - 1) /\ Cardinality(0 .. n - 1) = n
    BY <1>1, FS_Interval
  <1>8. f \in Surjection(D, 0 .. n - 1)
    <2> HIDE DEF f
    <2> QED
      BY <1>6, <1>7, FS_Injection
  <1>9. \A k \in 0 .. n - 1 : \E p \in D : Place(D, p) = k
    BY <1>8 DEF Surjection
  <1> QED
    BY <1>4, <1>5, <1>9

\* The path at a place, and the paths in the order of their places.
PathAt(D, k) == CHOOSE p \in D : Place(D, p) = k
Sorted(D) == [i \in 1 .. Cardinality(D) |-> PathAt(D, i - 1)]

\* A sorted result lists the paths of the entries in the order of LessPath.
LEMMA SortedInOrder ==
    ASSUME NEW D, IsFiniteSet(D), D \subseteq Seq(Segments), NEW s, s = Sorted(D)
    PROVE  /\ \A i \in DOMAIN s : s[i] \in D
           /\ \A p \in D : \E i \in DOMAIN s : s[i] = p
           /\ \A i, j \in DOMAIN s : i < j => LessPath(s[i], s[j])
  <1>1. Cardinality(D) \in Nat /\ DOMAIN s = 1 .. Cardinality(D)
    BY FS_CardinalityType DEF Sorted
  <1>2. ASSUME NEW i \in DOMAIN s PROVE s[i] \in D /\ Place(D, s[i]) = i - 1
    <2>1. i - 1 \in 0 .. Cardinality(D) - 1
      BY <1>1
    <2>2. \E p \in D : Place(D, p) = i - 1
      BY <2>1, PlacesAreNumbers
    <2> QED
      BY <1>1, <2>2 DEF Sorted, PathAt
  <1>3. ASSUME NEW p \in D, NEW q \in D, Place(D, p) = Place(D, q) PROVE p = q
    <2>1. Place(D, p) \in 0 .. Cardinality(D) - 1
      BY PlacesAreNumbers
    <2>2. ~LessPath(p, q) /\ ~LessPath(q, p)
      BY <1>1, <1>3, <2>1, PlacesAreNumbers
    <2> QED
      BY <2>2, PathsAreTotal
  <1>4. ASSUME NEW p \in D PROVE \E i \in DOMAIN s : s[i] = p
    <2>1. Place(D, p) \in 0 .. Cardinality(D) - 1
      BY PlacesAreNumbers
    <2>2. PICK i \in DOMAIN s : Place(D, p) = i - 1
      <3>1. Place(D, p) + 1 \in DOMAIN s /\ Place(D, p) = (Place(D, p) + 1) - 1
        BY <1>1, <2>1
      <3> QED
        BY <3>1
    <2>3. s[i] = p
      BY <1>2, <1>3, <2>2
    <2> QED
      BY <2>3
  <1>5. ASSUME NEW i \in DOMAIN s, NEW j \in DOMAIN s, i < j PROVE LessPath(s[i], s[j])
    <2>1. s[i] \in D /\ s[j] \in D /\ Place(D, s[i]) = i - 1 /\ Place(D, s[j]) = j - 1
      BY <1>2
    <2>2. i - 1 < j - 1 /\ ~(j - 1 < i - 1) /\ i - 1 # j - 1
      BY <1>1, <1>5
    <2>3. s[i] # s[j]
      BY <2>1, <2>2
    <2>4. ~LessPath(s[j], s[i])
      BY <2>1, <2>2, PlacesAreNumbers
    <2> QED
      BY <2>1, <2>3, <2>4, PathsAreTotal
  <1> QED
    BY <1>2, <1>4, <1>5

\* A finished diff is the sorted one.
SInv == pc = "done" => out = Sorted(DOMAIN entries)

\* Every loop preserves SInv: the last one establishes it.
LEMMA NextSInv == IInv /\ SInv /\ [Next]_vars => SInv'
  <1> SUFFICES ASSUME SInv, [Next]_vars PROVE SInv'
    OBVIOUS
  <1>1. CASE FlattenBoth \/ ReadBefore \/ ReadAfter \/ MarkRemoved \/ Mask
    BY <1>1 DEF FlattenBoth, ReadBefore, ReadAfter, MarkRemoved, Mask, SInv
  <1>2. CASE Sort
    BY <1>2 DEF Sort, SInv, Rank, Place, PathAt, Sorted
  <1>3. CASE UNCHANGED vars
    BY <1>3 DEF vars, SInv
  <1> QED
    BY <1>1, <1>2, <1>3 DEF Next

\* The entries of a change are finitely many paths.
LEMMA EntriesAreFinite ==
    ASSUME IInv, Done
    PROVE  IsFiniteSet(DOMAIN entries) /\ DOMAIN entries \subseteq Seq(Segments)
  <1> DEFINE nodes == (DOMAIN change.before \cup DOMAIN NoMarks)
                        \cup (DOMAIN change.after \cup DOMAIN change.afterUnknown)
  <1>1. Flattened /\ DOMAIN entries = DOMAIN before \cup DOMAIN after
    BY DEF IInv, Done
  <1>2. DOMAIN entries \in SUBSET nodes
    BY <1>1 DEF Flattened, Flatten, Visited
  <1>3. /\ IsValue(change.before) /\ IsValue(change.after)
        /\ IsMarker(change.afterUnknown) /\ IsMarker(NoMarks)
    BY ChangeIsWellFormed, NoMarksIsMarker DEF IInv
  <1>4. nodes \subseteq Seq(Segments)
    BY <1>3 DEF IsValue, IsMarker, Tree
  <1>5. /\ IsFiniteSet(DOMAIN change.before) /\ IsFiniteSet(DOMAIN NoMarks)
        /\ IsFiniteSet(DOMAIN change.after) /\ IsFiniteSet(DOMAIN change.afterUnknown)
    BY <1>3 DEF IsValue, IsMarker, Tree
  <1>6. IsFiniteSet(nodes)
    BY <1>5, FS_Union
  <1> HIDE DEF nodes
  <1> QED
    BY <1>2, <1>4, <1>6, FS_Subset

\* The result lists every entry once, and the entries below one block stand
\* together: sorting is by a strict total order in which blocks are convex.
THEOREM BlocksTogether == Spec => []BlocksStayTogether
  <1>1. ASSUME IInv, SInv, Done PROVE BlocksStayTogether
    <2> DEFINE D == DOMAIN entries
    <2>1. IsFiniteSet(D) /\ D \subseteq Seq(Segments)
      BY <1>1, EntriesAreFinite
    <2>2. out = Sorted(D)
      BY <1>1 DEF SInv, Done
    <2> HIDE DEF D
    <2>3. /\ \A i \in DOMAIN out : out[i] \in D
          /\ \A p \in D : \E i \in DOMAIN out : out[i] = p
          /\ \A i, j \in DOMAIN out : i < j => LessPath(out[i], out[j])
      BY <2>1, <2>2, SortedInOrder
    <2>4. {out[i] : i \in DOMAIN out} = D
      BY <2>3
    <2>5. ASSUME NEW i \in DOMAIN out, NEW j \in DOMAIN out, NEW k \in DOMAIN out, i < j, j < k
          PROVE  /\ out[i] # out[j]
                 /\ \A n \in 0 .. Len(out[i]) :
                      Covers(Upto(out[i], n), out[k]) => Covers(Upto(out[i], n), out[j])
      <3>1. LessPath(out[i], out[j]) /\ LessPath(out[j], out[k])
        BY <2>3, <2>5
      <3>2. out[i] \in Seq(Segments) /\ out[j] \in Seq(Segments) /\ out[k] \in Seq(Segments)
        BY <2>1, <2>3
      <3>3. out[i] # out[j]
        BY <3>1, <3>2, PathsAreIrreflexive
      <3> QED
        BY <3>1, <3>2, <3>3, BlocksAreConvex
    <2> QED
      BY <2>4, <2>5 DEF BlocksStayTogether, D
  <1>2. IInv /\ SInv => BlocksStayTogether
    BY <1>1 DEF BlocksStayTogether
  <1>3. Init => SInv
    BY DEF Init, SInv
  <1> QED
    BY <1>2, <1>3, NextSInv, SpecIInv, PTL DEF Spec

\* The elements of a list are listed in their order, however long the list is:
\* a path of a later element never comes before one of an earlier element,
\* because the comparison of paths decides at their first difference.
THEOREM ListsInOrder == Spec => []ListsAreInOrder
  <1>1. ASSUME IInv, SInv, Done,
               NEW i \in DOMAIN out, NEW j \in DOMAIN out, NEW n \in 1 .. Len(out[i]),
               n <= Len(out[j]), Upto(out[i], n - 1) = Upto(out[j], n - 1),
               out[i][n].index, out[j][n].index, out[i][n].at < out[j][n].at
        PROVE  i < j
    <2> DEFINE D == DOMAIN entries
    <2>1. IsFiniteSet(D) /\ D \subseteq Seq(Segments)
      BY <1>1, EntriesAreFinite
    <2>2. out = Sorted(D)
      BY <1>1 DEF SInv, Done
    <2>3. DOMAIN out \subseteq Int
      BY <2>1, <2>2, FS_CardinalityType DEF Sorted
    <2> HIDE DEF D
    <2>4. /\ \A k \in DOMAIN out : out[k] \in D
          /\ \A k, l \in DOMAIN out : k < l => LessPath(out[k], out[l])
      BY <2>1, <2>2, SortedInOrder
    <2>5. out[i] \in Seq(Segments) /\ out[j] \in Seq(Segments)
      BY <2>1, <2>4
    <2>6. LessSegment(out[i][n], out[j][n])
      BY <1>1 DEF LessSegment
    <2>7. LessPath(out[i], out[j])
      BY <1>1, <2>6 DEF LessPath
    <2>8. i # j
      BY <2>5, <2>7, PathsAreIrreflexive
    <2>9. ~(j < i)
      BY <2>4, <2>5, <2>7, PathsAreTransitive, PathsAreIrreflexive
    <2> QED
      BY <2>3, <2>8, <2>9
  <1>2. IInv /\ SInv => ListsAreInOrder
    BY <1>1 DEF ListsAreInOrder
  <1>3. Init => SInv
    BY DEF Init, SInv
  <1> QED
    BY <1>2, <1>3, NextSInv, SpecIInv, PTL DEF Spec

=============================================================================
