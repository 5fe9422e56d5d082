------------------------- MODULE PredicateCallProofs -------------------------
(***************************************************************************)
(* Proofs about the calls of predicates, for every set of well-formed       *)
(* changes.                                                                 *)
(*                                                                          *)
(* Attributes: what is found by going through the entries of the diff is    *)
(* what the two values themselves say.                                      *)
(*                                                                          *)
(* widens_network_access, for addresses of any width: one prefix contains   *)
(* another exactly when its addresses do, one permission covers another     *)
(* exactly when its traffic does, and so what an update or replace is found *)
(* to widen is what no single earlier permission admits; what is found of a *)
(* new resource is what lets in an address of no private range; unknown     *)
(* sources are found; and when nothing is found, no message is let in that  *)
(* was not before.                                                          *)
(***************************************************************************)
EXTENDS PredicateCall, PlanTreeProofs

\* What each predicate answers.
Answer(name) ==
    CASE name = "was_moved" -> WasMoved(change)
      [] name = "changes_sensitive_attribute" -> ChangesSensitiveAttribute(change)
      [] name = "disables_encryption" -> DisablesEncryption(change)
      [] name = "removes_deletion_protection" -> RemovesDeletionProtection(change)
      [] name = "reduces_backup_retention" -> ReducesBackupRetention(change)
      [] name = "widens_network_access" -> WidensNetworkAccess(change)
      [] name = NoName -> {}

Registry ==
    {"was_moved", "changes_sensitive_attribute", "disables_encryption",
     "removes_deletion_protection", "reduces_backup_retention", "widens_network_access"}

\* A call answers about a change it was given.
Answered ==
    /\ change \in Calls
    /\ called \in Registry \cup {NoName}
    /\ found = Answer(called)

\* Answered is an invariant: a call happens once, and the change stays.
LEMMA SpecAnswered == Spec => []Answered
  <1>1. Init => Answered
    BY DEF Init, Answered, Answer, NoName
  <1>2. Answered /\ [Next]_vars => Answered'
    <2> SUFFICES ASSUME Answered, [Next]_vars PROVE Answered'
      OBVIOUS
    <2>1. ASSUME NEW name \in Registry, Call(name, Answer(name)) PROVE Answered'
      <3>1. Answer(name)' = Answer(name)
        BY <2>1 DEF Call, Answer
      <3> QED
        BY <2>1, <3>1 DEF Call, Answered
    <2>2. /\ Answer("was_moved") = WasMoved(change)
          /\ Answer("changes_sensitive_attribute") = ChangesSensitiveAttribute(change)
          /\ Answer("disables_encryption") = DisablesEncryption(change)
          /\ Answer("removes_deletion_protection") = RemovesDeletionProtection(change)
          /\ Answer("reduces_backup_retention") = ReducesBackupRetention(change)
          /\ Answer("widens_network_access") = WidensNetworkAccess(change)
      BY DEF Answer, NoName
    <2>3. CASE Next
      BY <2>1, <2>2, <2>3 DEF Next, CallWasMoved, CallSensitive, CallEncryption,
                              CallProtection, CallRetention, CallNetwork, Registry
    <2>4. CASE UNCHANGED vars
      BY <2>4 DEF vars, Answered, Answer
    <2> QED
      BY <2>3, <2>4
  <1> QED
    BY <1>1, <1>2, PTL DEF Spec

\* A call's change is one of a plan.
LEMMA CallIsChange == Answered => IsChange(change)
  BY CallsAreChanges DEF IsPlanned, Answered, IsChange

-----------------------------------------------------------------------------
(* Transitions. *)

\* A value that both readers return stands at its path on both sides, and no
\* marker touches it; and the other way round.
LEMMA ReadOnBothSides ==
    ASSUME NEW p
    PROVE  RawBefore(change, p) # {} /\ RawAfter(change, p) # {}
             <=> Readable(p) /\ p \in DOMAIN change.before /\ p \in DOMAIN change.after
  BY DEF RawBefore, RawAfter, Lookup, Readable

\* What the readers return when they return something.
LEMMA ReadValues ==
    ASSUME NEW p
    PROVE  /\ RawBefore(change, p) # {} => RawBefore(change, p) = {change.before[p]}
           /\ RawAfter(change, p) # {} => RawAfter(change, p) = {At(change.after, p)}
  BY DEF RawBefore, RawAfter, Lookup, At

\* A scalar that can be read on both sides and differs has a changed entry.
LEMMA DifferenceIsChanged ==
    ASSUME Answered, NEW p \in DOMAIN change.before, Readable(p),
           change.before[p] \in Strings \cup Atoms,
           At(change.after, p) \in Strings \cup Atoms,
           change.before[p] # At(change.after, p)
    PROVE  /\ p \in DOMAIN Diff(change) /\ Diff(change)[p].changed
           /\ p \in DOMAIN change.after
  <1>1. p \in DOMAIN change.after /\ At(change.after, p) = change.after[p]
    BY ValuesAreDisjoint DEF At
  <1>2. p \in Seq(Segments) /\ IsChange(change)
    BY CallIsChange DEF IsChange, IsValue, Tree
  <1>3. ~Marked(NoMarks, p) /\ ~Marked(change.afterUnknown, p) /\ IsMarker(NoMarks)
    BY <1>2, NoMarksIsMarker DEF Readable
  <1>4. p \in DOMAIN BeforeLeaves(change) /\ BeforeLeaves(change)[p].raw = change.before[p]
    BY <1>2, <1>3, ScalarsAreLeaves DEF BeforeLeaves, IsChange
  <1>5. p \in DOMAIN AfterLeaves(change) /\ AfterLeaves(change)[p].raw = change.after[p]
    BY <1>1, <1>2, <1>3, ScalarsAreLeaves DEF AfterLeaves, IsChange
  <1>6. Diff(change)[p].changed
    BY <1>1, <1>2, <1>4, <1>5, DiffFields
  <1>7. p \in DOMAIN Diff(change)
    BY <1>4 DEF Diff
  <1> QED
    BY <1>1, <1>6, <1>7

\* The flags found to go from true to false, and those found to go the other way.
LEMMA FlipsAreTransitions ==
    ASSUME Answered, NEW names
    PROVE  /\ Flips(change, names, TRUE, FALSE) = PathsWhere(names, TurnsOff)
           /\ Flips(change, names, FALSE, TRUE) = PathsWhere(names, TurnsOn)
  <1>1. ASSUME NEW from \in BOOLEAN, NEW p
        PROVE  p \in Flips(change, names, from, ~from)
                 <=> /\ p \in DOMAIN change.before /\ LastKey(p) \in names /\ Readable(p)
                     /\ {change.before[p], At(change.after, p)} \subseteq DOMAIN Boolean
                     /\ Boolean[change.before[p]] = from
                     /\ Boolean[At(change.after, p)] = ~from
    <2> DEFINE x == change.before[p]
               y == At(change.after, p)
    <2>1. ASSUME p \in Flips(change, names, from, ~from)
          PROVE  /\ p \in DOMAIN change.before /\ LastKey(p) \in names /\ Readable(p)
                 /\ {x, y} \subseteq DOMAIN Boolean
                 /\ Boolean[x] = from /\ Boolean[y] = ~from
      <3>1. LastKey(p) \in names /\ BoolTransition(change, p, from, ~from)
        BY <2>1 DEF Flips, ChangedAt
      <3>2. RawBefore(change, p) # {} /\ RawAfter(change, p) # {}
        BY <3>1 DEF BoolTransition
      <3>3. RawBefore(change, p) = {x} /\ RawAfter(change, p) = {y}
        BY <3>2, ReadValues
      <3> QED
        BY <3>1, <3>2, <3>3, ReadOnBothSides DEF BoolTransition
    <2>2. ASSUME /\ p \in DOMAIN change.before /\ LastKey(p) \in names /\ Readable(p)
                 /\ {x, y} \subseteq DOMAIN Boolean
                 /\ Boolean[x] = from /\ Boolean[y] = ~from
          PROVE  p \in Flips(change, names, from, ~from)
      <3>1. x \in Strings \cup Atoms /\ y \in Strings \cup Atoms /\ x # y
        BY <2>2, ConversionsAreTyped
      <3>2. p \in DOMAIN Diff(change) /\ Diff(change)[p].changed /\ p \in DOMAIN change.after
        BY <2>2, <3>1, DifferenceIsChanged
      <3>3. RawBefore(change, p) = {x} /\ RawAfter(change, p) = {y}
        BY <2>2, <3>2, ReadOnBothSides, ReadValues
      <3>4. BoolTransition(change, p, from, ~from)
        BY <2>2, <3>3 DEF BoolTransition
      <3> QED
        BY <2>2, <3>2, <3>4 DEF Flips, ChangedAt
    <2> QED
      BY <2>1, <2>2
  <1>2. \A p : p \in DOMAIN change.before
                 /\ {change.before[p], At(change.after, p)} \subseteq DOMAIN Boolean
                 => Boolean[change.before[p]] \in BOOLEAN /\ Boolean[At(change.after, p)] \in BOOLEAN
    BY ConversionsAreTyped
  <1>3. ASSUME NEW p
        PROVE  p \in Flips(change, names, TRUE, FALSE) <=> p \in PathsWhere(names, TurnsOff)
    BY <1>1, <1>2 DEF PathsWhere, TurnsOff
  <1>4. ASSUME NEW p
        PROVE  p \in Flips(change, names, FALSE, TRUE) <=> p \in PathsWhere(names, TurnsOn)
    BY <1>1, <1>2 DEF PathsWhere, TurnsOn, TurnsOff
  <1> QED
    BY <1>3, <1>4

\* The numbers found to decrease.
LEMMA DecreasesAreTransitions ==
    ASSUME Answered, NEW names
    PROVE  {p \in ChangedAt(Diff(change), names) : Decreases(change, p)}
             = PathsWhere(names, GetsLess)
  <1>1. ASSUME NEW p
        PROVE  p \in ChangedAt(Diff(change), names) /\ Decreases(change, p)
                 <=> p \in PathsWhere(names, GetsLess)
    <2> DEFINE x == change.before[p]
               y == At(change.after, p)
    <2>1. p \in PathsWhere(names, GetsLess)
            <=> /\ p \in DOMAIN change.before /\ LastKey(p) \in names /\ Readable(p)
                /\ x \in DOMAIN Number /\ y \in DOMAIN Number /\ Number[y] < Number[x]
      BY DEF PathsWhere, GetsLess
    <2>2. ASSUME p \in ChangedAt(Diff(change), names), Decreases(change, p)
          PROVE  p \in PathsWhere(names, GetsLess)
      <3>1. RawBefore(change, p) # {} /\ RawAfter(change, p) # {} /\ LastKey(p) \in names
        BY <2>2 DEF Decreases, ChangedAt
      <3>2. RawBefore(change, p) = {x} /\ RawAfter(change, p) = {y}
        BY <3>1, ReadValues
      <3> QED
        BY <2>1, <2>2, <3>1, <3>2, ReadOnBothSides DEF Decreases
    <2>3. ASSUME p \in PathsWhere(names, GetsLess)
          PROVE  p \in ChangedAt(Diff(change), names) /\ Decreases(change, p)
      <3>1. /\ x \in Strings \cup Atoms /\ y \in Strings \cup Atoms /\ x # y
            /\ p \in DOMAIN change.before /\ Readable(p)
        BY <2>1, <2>3, ConversionsAreTyped
      <3>2. p \in DOMAIN Diff(change) /\ Diff(change)[p].changed /\ p \in DOMAIN change.after
        BY <3>1, DifferenceIsChanged
      <3>3. RawBefore(change, p) = {x} /\ RawAfter(change, p) = {y}
        BY <3>1, <3>2, ReadOnBothSides, ReadValues
      <3> QED
        BY <2>1, <2>3, <3>2, <3>3 DEF ChangedAt, Decreases
    <2> QED
      BY <2>2, <2>3
  <1> QED
    BY <1>1

\* Findings of one kind.
Of(what, paths) == {Found(p, what) : p \in paths}

\* The paths of the findings of one kind among those of up to three.
LEMMA PathsOfKind ==
    ASSUME NEW what, NEW paths, NEW x, NEW xs, NEW y, NEW ys, x # what, y # what,
           found = Of(what, paths) \cup Of(x, xs) \cup Of(y, ys)
    PROVE  FoundPaths(what) = paths
  <1>1. \A p, w : Found(p, w).path = p /\ Found(p, w).what = w
    BY DEF Found
  <1>2. {g \in found : g.what = what} = Of(what, paths)
    BY <1>1 DEF Of
  <1> QED
    BY <1>1, <1>2 DEF FoundPaths, Of

\* What a call answers is exact about transitions.
LEMMA TransitionsOfAnswer == Answered => TransitionsAreExact
  <1> SUFFICES ASSUME Answered PROVE TransitionsAreExact
    OBVIOUS
  <1>1. ASSUME called = "disables_encryption"
        PROVE  FoundPaths("off") = PathsWhere(EncryptionFlags, TurnsOff)
    <2> DEFINE d == Diff(change)
               lost == {p \in ChangedAt(d, KmsKeys) : NonEmptyBefore(change, p)}
               removed == {p \in lost : EmptyAfter(change, d[p], p)}
               managed == {p \in lost \ removed : BecomesAwsManaged(change, p)}
               off == Flips(change, EncryptionFlags, TRUE, FALSE)
    <2>1. found = Of("off", off) \cup Of("removed", removed) \cup Of("aws", managed)
      BY <1>1 DEF Answered, Answer, DisablesEncryption, NoName, Of
    <2> HIDE DEF removed, managed, off
    <2>2. FoundPaths("off") = off
      BY <2>1, PathsOfKind
    <2> QED
      BY <2>2, FlipsAreTransitions DEF off
  <1>2. ASSUME called = "removes_deletion_protection"
        PROVE  /\ FoundPaths("off") = PathsWhere(DeletionProtection, TurnsOff)
               /\ FoundPaths("on") = PathsWhere({"force_destroy"}, TurnsOn)
    <2> DEFINE off == Flips(change, DeletionProtection, TRUE, FALSE)
               on == Flips(change, {"force_destroy"}, FALSE, TRUE)
    <2>1. found = Of("off", off) \cup Of("on", on) \cup Of("on", on)
      BY <1>2 DEF Answered, Answer, RemovesDeletionProtection, NoName, Of
    <2> HIDE DEF off, on
    <2>2. FoundPaths("off") = off
      BY <2>1, PathsOfKind
    <2>3. found = Of("on", on) \cup Of("off", off) \cup Of("off", off)
      BY <2>1
    <2>4. FoundPaths("on") = on
      BY <2>3, PathsOfKind
    <2> QED
      BY <2>2, <2>4, FlipsAreTransitions DEF off, on
  <1>3. ASSUME called = "reduces_backup_retention"
        PROVE  /\ FoundPaths("less") = PathsWhere(Retention, GetsLess)
               /\ FoundPaths("on") = PathsWhere(SkippedBackups, TurnsOn)
               /\ FoundPaths("off") =
                    {p \in PathsWhere({"enabled"}, TurnsOff) : IsRecovery(p)}
    <2> DEFINE less == {q \in ChangedAt(Diff(change), Retention) : Decreases(change, q)}
               on == Flips(change, SkippedBackups, FALSE, TRUE)
               off == {q \in Flips(change, {"enabled"}, TRUE, FALSE) : IsRecovery(q)}
    <2>1. found = Of("less", less) \cup Of("on", on) \cup Of("off", off)
      BY <1>3 DEF Answered, Answer, ReducesBackupRetention, NoName, Of
    <2> HIDE DEF less, on, off
    <2>2. FoundPaths("less") = less
      BY <2>1, PathsOfKind
    <2>3. found = Of("on", on) \cup Of("less", less) \cup Of("off", off)
      BY <2>1
    <2>4. FoundPaths("on") = on
      BY <2>3, PathsOfKind
    <2>5. found = Of("off", off) \cup Of("less", less) \cup Of("on", on)
      BY <2>1
    <2>6. FoundPaths("off") = off
      BY <2>5, PathsOfKind
    <2> QED
      BY <2>2, <2>4, <2>6, FlipsAreTransitions, DecreasesAreTransitions DEF less, on, off
  <1> QED
    BY <1>1, <1>2, <1>3 DEF TransitionsAreExact

\* Wherever an attribute can be read on both sides, at any depth of any
\* change, each listed transition is found and nothing else is.
THEOREM TransitionsExact == Spec => []TransitionsAreExact
  BY TransitionsOfAnswer, SpecAnswered, PTL

-----------------------------------------------------------------------------
(* Writes of sensitive values. *)

\* A sensitive entry has a marked leaf on one of its sides.
LEMMA SensitiveEntries ==
    ASSUME Answered, NEW p \in DOMAIN Diff(change)
    PROVE  /\ Sensitive(Diff(change)[p])
                <=> \/ p \in DOMAIN BeforeLeaves(change) /\ Marked(change.beforeSensitive, p)
                    \/ p \in DOMAIN AfterLeaves(change) /\ Marked(change.afterSensitive, p)
           /\ Diff(change)[p].changed <=> p \in ChangedPaths
           /\ Rewritten(Diff(change)[p])
                <=> /\ p \in DOMAIN AfterLeaves(change) /\ Marked(change.afterSensitive, p)
                    /\ ~IsNull(AfterLeaves(change)[p])
  <1> DEFINE old == BeforeLeaves(change)
             new == AfterLeaves(change)
             d == Diff(change)[p]
  <1>1. IsChange(change) /\ p \in DOMAIN old \cup DOMAIN new
    BY CallIsChange DEF Diff
  <1>2. /\ p \in DOMAIN old => old[p].sensitive = Marked(change.beforeSensitive, p)
        /\ p \in DOMAIN new => new[p] \in Leaves /\ new[p].sensitive = Marked(change.afterSensitive, p)
    BY <1>1, SideLeaves
  <1>3. /\ d.beforeSensitive <=> p \in DOMAIN old /\ old[p].sensitive
        /\ d.afterSensitive <=> p \in DOMAIN new /\ new[p].sensitive
        /\ d.afterNull <=> p \in DOMAIN new /\ IsNull(new[p])
        /\ d.changed <=> \/ p \notin DOMAIN old \cap DOMAIN new
                         \/ new[p].unknown
                         \/ old[p].raw # new[p].raw
    BY <1>1, DiffFields
  <1>4. p \in DOMAIN new /\ new[p].sensitive => d.after # Absent
    <2> SUFFICES ASSUME p \in DOMAIN new, new[p].sensitive PROVE d.after # Absent
      OBVIOUS
    <2>1. PICK secret \in BOOLEAN : d.after = Side(new, p, secret)
      BY <1>1, DiffFields
    <2>2. Render(new[p]) # Absent /\ SensitiveValue # Absent
      BY <1>2, RenderIsPresent DEF Absent, SensitiveValue
    <2> QED
      BY <2>1, <2>2 DEF Side, Hide
  <1> HIDE DEF old, new, d
  <1>5. Sensitive(d) <=> \/ p \in DOMAIN old /\ Marked(change.beforeSensitive, p)
                         \/ p \in DOMAIN new /\ Marked(change.afterSensitive, p)
    BY <1>2, <1>3 DEF Sensitive
  <1>6. d.changed <=> p \in ChangedPaths
    BY <1>1, <1>3 DEF ChangedPaths, old, new
  <1>7. Rewritten(d) <=> p \in DOMAIN new /\ Marked(change.afterSensitive, p) /\ ~IsNull(new[p])
    BY <1>2, <1>3, <1>4 DEF Rewritten
  <1> QED
    BY <1>5, <1>6, <1>7 DEF old, new, d

\* What a call answers is exact about writes of marked values.
LEMMA WritesOfAnswer == Answered => SensitiveWritesAreFound
  <1> DEFINE d == Diff(change)
             old == {p \in DOMAIN BeforeLeaves(change) : Marked(change.beforeSensitive, p)}
             new == {p \in DOMAIN AfterLeaves(change) : Marked(change.afterSensitive, p)}
             written == {p \in DOMAIN d :
                           \/ change.action = "update" /\ d[p].changed /\ Sensitive(d[p])
                           \/ change.action = "replace" /\ Rewritten(d[p])}
             rewritten == ChangedAt(d, WriteOnlyVersion)
  <1> SUFFICES ASSUME Answered, called = "changes_sensitive_attribute", change.mode # "data"
               PROVE  FoundPaths("written") =
                        CASE change.action = "replace" ->
                               {p \in new : ~IsNull(AfterLeaves(change)[p])}
                          [] change.action = "update" -> (old \cup new) \cap ChangedPaths
                          [] OTHER -> {}
    BY DEF SensitiveWritesAreFound
  <1>1. found = IF change.action \notin {"update", "replace"} THEN {}
                ELSE Of("written", written) \cup Of("rewritten", rewritten)
                       \cup Of("rewritten", rewritten)
    BY DEF Answered, Answer, ChangesSensitiveAttribute, NoName, Of
  <1>2. DOMAIN d = DOMAIN BeforeLeaves(change) \cup DOMAIN AfterLeaves(change)
    BY DEF Diff
  <1>3. CASE change.action = "replace"
    <2>1. written = {p \in new : ~IsNull(AfterLeaves(change)[p])}
      BY <1>2, <1>3, SensitiveEntries
    <2> HIDE DEF written, rewritten
    <2>2. FoundPaths("written") = written
      BY <1>1, <1>3, PathsOfKind
    <2> QED
      BY <1>3, <2>1, <2>2
  <1>4. CASE change.action = "update"
    <2>1. written = (old \cup new) \cap ChangedPaths
      BY <1>2, <1>4, SensitiveEntries DEF ChangedPaths
    <2> HIDE DEF written, rewritten
    <2>2. FoundPaths("written") = written
      BY <1>1, <1>4, PathsOfKind
    <2> QED
      BY <1>4, <2>1, <2>2
  <1>5. CASE change.action \notin {"update", "replace"}
    <2>1. FoundPaths("written") = {}
      BY <1>1, <1>5 DEF FoundPaths
    <2> QED
      BY <1>5, <2>1
  <1> QED
    BY <1>3, <1>4, <1>5

\* A replace is found to write every marked value that is not null, and an
\* update every changed one, whatever the diff masks.
THEOREM SensitiveWrites == Spec => []SensitiveWritesAreFound
  BY WritesOfAnswer, SpecAnswered, PTL

-----------------------------------------------------------------------------
(* Keys. *)

\* A readable path has a leaf after the change only if it is in the new value.
LEMMA ReadableLeaves ==
    ASSUME Answered, NEW p, Readable(p), p \in DOMAIN AfterLeaves(change)
    PROVE  p \in DOMAIN change.after
  <1>1. p \in DOMAIN change.after \cup DOMAIN change.afterUnknown
    BY CallIsChange, LeafFields DEF AfterLeaves, IsChange
  <1>2. ~AnyMarkedBelow(change.afterUnknown, p)
    BY DEF Readable
  <1> QED
    BY <1>1, <1>2, CallsAreChanges DEF IsPlanned, Answered

\* A key is found to be lost where it was set and can be read, and is not the
\* same after the change.
LEMMA LostKeys ==
    ASSUME Answered, NEW p, p \in DOMAIN change.before, Readable(p), LastKey(p) \in KmsKeys,
           change.before[p] \in Strings \ {EmptyString}, At(change.after, p) # change.before[p]
    PROVE  /\ p \in ChangedAt(Diff(change), KmsKeys) /\ NonEmptyBefore(change, p)
           /\ ~Diff(change)[p].unknown
           /\ p \notin DOMAIN change.after => Diff(change)[p].after = Absent
  <1>1. p \in Seq(Segments) /\ IsChange(change)
    BY CallIsChange DEF IsChange, IsValue, Tree
  <1>2. ~Marked(NoMarks, p) /\ ~Marked(change.afterUnknown, p) /\ IsMarker(NoMarks)
    BY <1>1, NoMarksIsMarker DEF Readable
  <1>3. p \in DOMAIN BeforeLeaves(change) /\ BeforeLeaves(change)[p].raw = change.before[p]
    BY <1>1, <1>2, ScalarsAreLeaves DEF BeforeLeaves, IsChange
  <1>4. p \in DOMAIN AfterLeaves(change) =>
          /\ AfterLeaves(change)[p].raw = At(change.after, p)
          /\ ~AfterLeaves(change)[p].unknown
    BY <1>1, <1>2, SideLeaves
  <1>5. Diff(change)[p].changed /\ ~Diff(change)[p].unknown
    BY <1>1, <1>3, <1>4, DiffFields
  <1>6. p \in DOMAIN Diff(change)
    BY <1>3 DEF Diff
  <1>7. NonEmptyBefore(change, p)
    BY DEF NonEmptyBefore, RawBefore, Lookup, Readable
  <1>8. ASSUME p \notin DOMAIN change.after PROVE Diff(change)[p].after = Absent
    <2>1. p \notin DOMAIN AfterLeaves(change)
      BY <1>8, ReadableLeaves
    <2> QED
      BY <1>1, <1>3, <2>1, DiffFields DEF Side
  <1> QED
    BY <1>5, <1>6, <1>7, <1>8 DEF ChangedAt

\* What a call answers is exact about keys.
LEMMA KeysOfAnswer == Answered => KeyChangesAreExact
  <1> DEFINE d == Diff(change)
             gone == At(change.after, << >>) = "null"
             lost == {p \in ChangedAt(d, KmsKeys) : NonEmptyBefore(change, p)}
             removed == {p \in lost : EmptyAfter(change, d[p], p)}
             managed == {p \in lost \ removed : BecomesAwsManaged(change, p)}
             off == Flips(change, EncryptionFlags, TRUE, FALSE)
  <1> SUFFICES ASSUME Answered, called = "disables_encryption"
               PROVE  /\ {p \in FoundPaths("removed") : Readable(p)} =
                           IF gone THEN {} ELSE PathsWhere(KmsKeys, LosesKey)
                      /\ FoundPaths("aws") = PathsWhere(KmsKeys, GoesToAws)
    BY DEF KeyChangesAreExact
  <1>1. found = Of("off", off) \cup Of("removed", removed) \cup Of("aws", managed)
    BY DEF Answered, Answer, DisablesEncryption, NoName, Of
  <1>2. FoundPaths("removed") = removed /\ FoundPaths("aws") = managed
    <2> HIDE DEF removed, managed, off
    <2>1. /\ found = Of("removed", removed) \cup Of("off", off) \cup Of("aws", managed)
          /\ found = Of("aws", managed) \cup Of("off", off) \cup Of("removed", removed)
      BY <1>1
    <2>2. FoundPaths("removed") = removed
      BY <2>1, PathsOfKind
    <2>3. FoundPaths("aws") = managed
      BY <2>1, PathsOfKind
    <2> QED
      BY <2>2, <2>3
  <1>3. ASSUME NEW p \in lost
        PROVE  /\ p \in DOMAIN change.before /\ LastKey(p) \in KmsKeys
               /\ ~TouchesSensitive(change, p)
               /\ RawBefore(change, p) = {change.before[p]}
               /\ change.before[p] \in Strings \ {EmptyString}
    BY DEF ChangedAt, NonEmptyBefore, RawBefore, Lookup
  <1>4. ASSUME NEW p PROVE p \in removed /\ Readable(p) <=> ~gone /\ p \in PathsWhere(KmsKeys, LosesKey)
    <2>1. ASSUME p \in removed, Readable(p) PROVE ~gone /\ p \in PathsWhere(KmsKeys, LosesKey)
      <3>1. /\ p \in DOMAIN change.before /\ LastKey(p) \in KmsKeys
            /\ change.before[p] \in Strings \ {EmptyString}
        BY <1>3, <2>1
      <3>2. ~gone /\ (RawAfter(change, p) = {} \/ RawAfter(change, p) \subseteq {"null", EmptyString})
        BY <2>1 DEF EmptyAfter
      <3>3. At(change.after, p) \in {"null", EmptyString}
        BY <2>1, <3>2 DEF Readable, RawAfter, Lookup, At
      <3> QED
        BY <2>1, <3>1, <3>2, <3>3 DEF PathsWhere, LosesKey
    <2>2. ASSUME ~gone, p \in PathsWhere(KmsKeys, LosesKey) PROVE p \in removed /\ Readable(p)
      <3>1. /\ p \in DOMAIN change.before /\ LastKey(p) \in KmsKeys /\ Readable(p)
            /\ change.before[p] \in Strings \ {EmptyString}
            /\ At(change.after, p) \in {"null", EmptyString}
        BY <2>2 DEF PathsWhere, LosesKey
      <3>2. At(change.after, p) # change.before[p]
        BY <3>1, ValuesAreDisjoint
      <3>3. p \in lost /\ ~d[p].unknown /\ (p \notin DOMAIN change.after => d[p].after = Absent)
        BY <3>1, <3>2, LostKeys
      <3>4. /\ RawAfter(change, p) = {} => p \notin DOMAIN change.after
            /\ RawAfter(change, p) # {} => RawAfter(change, p) = {At(change.after, p)}
        BY <3>1, ReadValues DEF Readable, RawAfter, Lookup
      <3>5. EmptyAfter(change, d[p], p)
        BY <2>2, <3>1, <3>3, <3>4 DEF EmptyAfter
      <3> QED
        BY <3>1, <3>3, <3>5
    <2> QED
      BY <2>1, <2>2
  <1>5. ASSUME NEW p PROVE p \in managed <=> p \in PathsWhere(KmsKeys, GoesToAws)
    <2>1. ASSUME p \in managed PROVE p \in PathsWhere(KmsKeys, GoesToAws)
      <3>1. /\ p \in DOMAIN change.before /\ LastKey(p) \in KmsKeys
            /\ RawBefore(change, p) = {change.before[p]}
            /\ change.before[p] \in Strings \ {EmptyString}
        BY <1>3, <2>1
      <3>2. RawAfter(change, p) \cap AwsManaged # {} /\ change.before[p] \notin AwsManaged
        BY <2>1, <3>1 DEF BecomesAwsManaged
      <3>3. At(change.after, p) \in AwsManaged
        BY <3>2, ReadValues
      <3>4. Readable(p)
        BY <3>1, <3>2, ReadOnBothSides
      <3> QED
        BY <3>1, <3>2, <3>3, <3>4 DEF PathsWhere, GoesToAws
    <2>2. ASSUME p \in PathsWhere(KmsKeys, GoesToAws) PROVE p \in managed
      <3>1. /\ p \in DOMAIN change.before /\ LastKey(p) \in KmsKeys /\ Readable(p)
            /\ change.before[p] \in Strings \ ({EmptyString} \cup AwsManaged)
            /\ At(change.after, p) \in AwsManaged
        BY <2>2 DEF PathsWhere, GoesToAws
      <3>2. p \in lost
        BY <3>1, LostKeys
      <3>3. At(change.after, p) \notin {"null", EmptyString}
        BY <3>1, ConversionsAreTyped, ValuesAreDisjoint
      <3>4. RawAfter(change, p) = {At(change.after, p)} /\ RawBefore(change, p) = {change.before[p]}
        BY <3>1, <3>3 DEF Readable, RawAfter, RawBefore, Lookup, At
      <3> QED
        BY <3>1, <3>2, <3>3, <3>4 DEF EmptyAfter, BecomesAwsManaged
    <2> QED
      BY <2>1, <2>2
  <1> HIDE DEF removed, managed
  <1> QED
    BY <1>2, <1>4, <1>5

\* A set key that is empty, null or gone after the change is found to be
\* removed and one that gives way to an AWS-managed key is found to, and no
\* other key is, unless it is unknown.
THEOREM KeyChanges == Spec => []KeyChangesAreExact
  BY KeysOfAnswer, SpecAnswered, PTL

-----------------------------------------------------------------------------
(* Address blocks. *)

Addresses(p) == {a \in IPs : InPrefix(a, p)}

\* What a prefix is made of.
LEMMA PrefixType ==
    ASSUME NEW p \in Prefixes
    PROVE  /\ p.v4 \in BOOLEAN /\ Width(p.v4) \in Nat
           /\ p.addr \in [1 .. Width(p.v4) -> {0, 1}]
           /\ p.bits \in 0 .. Width(p.v4)
  BY NetworkIsTyped DEF Prefixes, Address, Width

\* The address a prefix is written with is one of its addresses.
LEMMA OwnAddress ==
    ASSUME NEW p \in Prefixes
    PROVE  [v4 |-> p.v4, addr |-> p.addr] \in Addresses(p)
  BY PrefixType DEF Addresses, IPs, InPrefix, Address

\* prefixContains (a comparison of lengths and of the outer prefix's bits) is
\* containment of the sets of addresses, for any width.
THEOREM PrefixContainsIsExact ==
    ASSUME NEW outer \in Prefixes, NEW inner \in Prefixes
    PROVE  PrefixContains(outer, inner) <=> Addresses(inner) \subseteq Addresses(outer)
  <1> DEFINE w == Width(inner.v4)
  <1>1. ASSUME PrefixContains(outer, inner)
        PROVE  Addresses(inner) \subseteq Addresses(outer)
    <2> SUFFICES ASSUME NEW a \in IPs, InPrefix(a, inner) PROVE InPrefix(a, outer)
      BY DEF Addresses
    <2>1. \A n \in 1 .. outer.bits : n \in 1 .. inner.bits
      BY <1>1, PrefixType DEF PrefixContains
    <2> QED
      BY <1>1, <2>1 DEF InPrefix, PrefixContains
  <1>2. ASSUME Addresses(inner) \subseteq Addresses(outer)
        PROVE  PrefixContains(outer, inner)
    <2>1. /\ inner.v4 = outer.v4
          /\ \A n \in 1 .. outer.bits : inner.addr[n] = outer.addr[n]
      BY <1>2, OwnAddress DEF Addresses, InPrefix
    <2>2. outer.bits <= inner.bits
      <3> SUFFICES ASSUME ~(outer.bits <= inner.bits) PROVE FALSE
        OBVIOUS
      <3> DEFINE k == outer.bits
                 flipped == [n \in 1 .. w |-> IF n = k THEN 1 - inner.addr[n] ELSE inner.addr[n]]
                 a == [v4 |-> inner.v4, addr |-> flipped]
      <3>1. w \in Nat /\ k \in 1 .. w /\ inner.bits \in Nat /\ inner.bits < k
        BY <2>1, PrefixType
      <3>2. \A n \in 1 .. w : inner.addr[n] \in {0, 1}
        BY PrefixType
      <3>3. flipped \in [1 .. w -> {0, 1}]
        BY <3>2
      <3>4. a \in IPs
        BY <3>3, PrefixType DEF IPs, Address
      <3>5. \A n \in 1 .. inner.bits : flipped[n] = inner.addr[n]
        BY <3>1
      <3>6. a \in Addresses(inner)
        BY <3>4, <3>5 DEF Addresses, InPrefix
      <3>7. a.addr[k] = outer.addr[k]
        <4>1. a \in Addresses(outer) /\ k \in 1 .. outer.bits
          BY <1>2, <3>1, <3>6
        <4> HIDE DEF a
        <4> QED
          BY <4>1 DEF Addresses, InPrefix
      <3>8. a.addr[k] # inner.addr[k]
        BY <3>1, <3>2
      <3> QED
        BY <2>1, <3>1, <3>7, <3>8
    <2> QED
      BY <2>1, <2>2 DEF PrefixContains
  <1> QED
    BY <1>1, <1>2

-----------------------------------------------------------------------------
(* Sources. *)

IsSource(s) ==
    /\ s.unknown \in BOOLEAN
    /\ s.kind \in {"cidr", "group", "prefix list", "self"}
    /\ ~s.unknown =>
         /\ s.kind = "cidr" => s.prefix \in Prefixes
         /\ s.kind \in {"group", "prefix list"} => s.id \in Strings \ {EmptyString}
         /\ s.kind = "self" => s.id = NoName

\* An address is no member of a group or list.
LEMMA AddressesAreNoMembers == IPs \cap Members = {}
  <1> SUFFICES ASSUME NEW a \in IPs, a \in Members PROVE FALSE
    OBVIOUS
  <1>1. DOMAIN a = {"v4", "addr"}
    BY DEF IPs
  <1>2. DOMAIN a = {"kind", "id"}
    BY DEF Members
  <1>3. "v4" \notin {"kind", "id"}
    OBVIOUS
  <1> QED
    BY <1>1, <1>2, <1>3

\* The member a known source that is no prefix stands for.
LEMMA MemberOf ==
    ASSUME NEW s, IsSource(s), ~s.unknown, s.kind # "cidr"
    PROVE  /\ [kind |-> s.kind, id |-> s.id] \in HostsOf(s)
           /\ HostsOf(s) \subseteq Members
           /\ \A m \in HostsOf(s) : m.kind = s.kind /\ m.id = s.id
  <1>1. HostsOf(s) = {m \in Members : m.kind = s.kind /\ m.id = s.id}
    BY DEF HostsOf
  <1>2. [kind |-> s.kind, id |-> s.id] \in Members
    BY DEF IsSource, Members
  <1> QED
    BY <1>1, <1>2

\* The hosts of a known prefix.
LEMMA HostsOfPrefix ==
    ASSUME NEW s, IsSource(s), ~s.unknown, s.kind = "cidr"
    PROVE  /\ s.prefix \in Prefixes
           /\ HostsOf(s) \cap IPs = Addresses(s.prefix)
           /\ HostsOf(s) \cap Members = IF Everything(s) THEN Members ELSE {}
           /\ HostsOf(s) \subseteq IPs \cup Members
           /\ [v4 |-> s.prefix.v4, addr |-> s.prefix.addr] \in HostsOf(s)
  <1>1. s.prefix \in Prefixes
    BY DEF IsSource
  <1>2. HostsOf(s) = Addresses(s.prefix) \cup (IF Everything(s) THEN Members ELSE {})
    BY DEF HostsOf, HostsIn, Addresses, Everything
  <1>3. Addresses(s.prefix) \subseteq IPs
    BY DEF Addresses
  <1> QED
    BY <1>1, <1>2, <1>3, OwnAddress, AddressesAreNoMembers

\* A known source stands for some host, and an unknown one for none.
LEMMA KnownSourcesHaveHosts ==
    ASSUME NEW s, IsSource(s)
    PROVE  HostsOf(s) = {} <=> s.unknown
  <1>1. s.unknown => HostsOf(s) = {}
    BY DEF HostsOf
  <1> QED
    BY <1>1, MemberOf, HostsOfPrefix

\* A prefix of everything contains the prefixes of its family.
LEMMA EverythingContains ==
    ASSUME NEW b \in Prefixes, NEW s \in Prefixes, b.bits = 0
    PROVE  PrefixContains(b, s) <=> b.v4 = s.v4
  BY PrefixType DEF PrefixContains

\* sourceCovers says exactly that every host of the one source is a host of
\* the other.
LEMMA SourceCoversIsExact ==
    ASSUME NEW b, IsSource(b), NEW s, IsSource(s), ~s.unknown
    PROVE  SourceCovers(b, s) <=> HostsOf(s) \subseteq HostsOf(b)
  <1>1. CASE b.unknown
    <2>1. HostsOf(b) = {} /\ HostsOf(s) # {}
      BY <1>1, KnownSourcesHaveHosts
    <2> QED
      BY <1>1, <2>1 DEF SourceCovers
  <1>2. CASE ~b.unknown /\ b.kind = "cidr" /\ s.kind = "cidr"
    <2>1. SourceCovers(b, s) <=> PrefixContains(b.prefix, s.prefix)
      BY <1>2, HostsOfPrefix, EverythingContains DEF SourceCovers, Everything
    <2>2. Everything(s) /\ PrefixContains(b.prefix, s.prefix) => Everything(b)
      <3>1. b.prefix \in Prefixes /\ s.prefix \in Prefixes
        BY <1>2, HostsOfPrefix
      <3>2. b.prefix.bits \in Nat /\ s.prefix.bits \in Nat
        BY <3>1, PrefixType
      <3> QED
        BY <1>2, <3>2 DEF Everything, PrefixContains
    <2>3. PrefixContains(b.prefix, s.prefix)
            <=> Addresses(s.prefix) \subseteq Addresses(b.prefix)
      BY <1>2, HostsOfPrefix, PrefixContainsIsExact
    <2> QED
      BY <1>2, <2>1, <2>2, <2>3, HostsOfPrefix, AddressesAreNoMembers
  <1>3. CASE ~b.unknown /\ b.kind = "cidr" /\ s.kind # "cidr"
    <2>1. SourceCovers(b, s) <=> Everything(b)
      BY <1>3 DEF SourceCovers
    <2>2. [kind |-> s.kind, id |-> s.id] \in HostsOf(s) /\ HostsOf(s) \subseteq Members
      BY <1>3, MemberOf
    <2> QED
      BY <1>3, <2>1, <2>2, HostsOfPrefix
  <1>4. CASE ~b.unknown /\ b.kind # "cidr" /\ s.kind = "cidr"
    <2>1. ~SourceCovers(b, s)
      BY <1>4 DEF SourceCovers, Everything
    <2>2. PICK a \in HostsOf(s) : a \in IPs
      BY <1>4, HostsOfPrefix, OwnAddress DEF Addresses
    <2>3. a \notin HostsOf(b)
      BY <1>4, <2>2, MemberOf, AddressesAreNoMembers
    <2> QED
      BY <2>1, <2>2, <2>3
  <1>5. CASE ~b.unknown /\ b.kind # "cidr" /\ s.kind # "cidr"
    <2>1. SourceCovers(b, s) <=> s.kind = b.kind /\ s.id = b.id
      BY <1>5 DEF SourceCovers, Everything, IsSource
    <2>2. HostsOf(s) = {m \in Members : m.kind = s.kind /\ m.id = s.id}
            /\ HostsOf(b) = {m \in Members : m.kind = b.kind /\ m.id = b.id}
      BY <1>5 DEF HostsOf
    <2>3. [kind |-> s.kind, id |-> s.id] \in HostsOf(s)
      BY <1>5, MemberOf
    <2> QED
      BY <2>1, <2>2, <2>3
  <1> QED
    BY <1>1, <1>2, <1>3, <1>4, <1>5 DEF IsSource

-----------------------------------------------------------------------------
(* Permissions. *)

IsPerm(p) ==
    /\ p.proto \in Protocols \cup {"all"}
    /\ p.from \in Nat /\ p.to \in Nat /\ p.from <= p.to /\ p.to <= MaxPort
    /\ IsSource(p.src)

CoversPorts(b, p) ==
    b.proto = "all" \/ (b.proto = p.proto /\ b.from <= p.from /\ p.to <= b.to)

\* Protocols and ports are covered exactly when those of the one permission
\* are among those of the other.
LEMMA CoversPortsIsExact ==
    ASSUME NEW b, IsPerm(b), NEW p, IsPerm(p)
    PROVE  /\ PortsOf(p) # {}
           /\ CoversPorts(b, p) <=> PortsOf(p) \subseteq PortsOf(b)
  <1>1. p.from \in 0 .. MaxPort /\ p.to \in 0 .. MaxPort
    BY NetworkIsTyped DEF IsPerm
  <1>2. PICK x \in Protocols : x # b.proto
    BY SeveralProtocols
  <1>3. CASE p.proto = "all"
    <2>1. <<x, p.from>> \in PortsOf(p)
      BY <1>1, <1>3 DEF PortsOf
    <2>2. b.proto # "all" => <<x, p.from>> \notin PortsOf(b)
      BY <1>2 DEF PortsOf
    <2>3. b.proto = "all" => PortsOf(p) \subseteq PortsOf(b)
      BY DEF PortsOf
    <2>4. CoversPorts(b, p) <=> b.proto = "all"
      BY <1>3 DEF CoversPorts
    <2> QED
      BY <2>1, <2>2, <2>3, <2>4
  <1>4. CASE p.proto # "all"
    <2>1. p.proto \in Protocols
      BY <1>4 DEF IsPerm
    <2>2. <<p.proto, p.from>> \in PortsOf(p) /\ <<p.proto, p.to>> \in PortsOf(p)
      BY <1>1, <2>1 DEF PortsOf, IsPerm
    <2>3. ASSUME CoversPorts(b, p) PROVE PortsOf(p) \subseteq PortsOf(b)
      BY <1>4, <2>3 DEF CoversPorts, PortsOf, IsPerm
    <2>4. ASSUME PortsOf(p) \subseteq PortsOf(b) PROVE CoversPorts(b, p)
      BY <2>2, <2>4 DEF CoversPorts, PortsOf
    <2> QED
      BY <2>2, <2>3, <2>4
  <1> QED
    BY <1>3, <1>4

\* One permission covers another exactly when the source of that is known and
\* the one admits all traffic of the other.
LEMMA CoverIsTraffic ==
    ASSUME NEW b, IsPerm(b), NEW p, IsPerm(p)
    PROVE  CoversPorts(b, p) /\ SourceCovers(b.src, p.src)
             <=> ~p.src.unknown /\ TrafficOf(p) \subseteq TrafficOf(b)
  <1>1. CASE p.src.unknown
    BY <1>1 DEF SourceCovers
  <1>2. CASE ~p.src.unknown
    <2>1. PortsOf(p) # {} /\ (CoversPorts(b, p) <=> PortsOf(p) \subseteq PortsOf(b))
      BY CoversPortsIsExact
    <2>2. /\ HostsOf(p.src) # {}
          /\ SourceCovers(b.src, p.src) <=> HostsOf(p.src) \subseteq HostsOf(b.src)
      BY <1>2, KnownSourcesHaveHosts, SourceCoversIsExact DEF IsPerm
    <2>3. ASSUME TrafficOf(p) \subseteq TrafficOf(b)
          PROVE  PortsOf(p) \subseteq PortsOf(b) /\ HostsOf(p.src) \subseteq HostsOf(b.src)
      <3>1. \A t \in PortsOf(p), h \in HostsOf(p.src) :
              <<t, h>> \in PortsOf(b) \X HostsOf(b.src)
        BY <2>3 DEF TrafficOf
      <3>2. \A t \in PortsOf(p), h \in HostsOf(p.src) : t \in PortsOf(b) /\ h \in HostsOf(b.src)
        BY <3>1
      <3> QED
        BY <2>1, <2>2, <3>2
    <2>4. ASSUME PortsOf(p) \subseteq PortsOf(b), HostsOf(p.src) \subseteq HostsOf(b.src)
          PROVE  TrafficOf(p) \subseteq TrafficOf(b)
      BY <2>4 DEF TrafficOf
    <2> QED
      BY <1>2, <2>1, <2>2, <2>3, <2>4
  <1> QED
    BY <1>1, <1>2

-----------------------------------------------------------------------------
(* The permissions read from a side of a change. *)

Scalars == Strings \cup Atoms \cup Containers \cup {"null"}

\* What a reader reads is a node of one of the two values.
LEMMA ReadType ==
    ASSUME NEW c \in Calls, NEW after, NEW path
    PROVE  Read(Reader(c, after), path) \subseteq Scalars
  <1>1. /\ \A p \in DOMAIN c.before : c.before[p] \in Scalars
        /\ \A p \in DOMAIN c.after : c.after[p] \in Scalars
    BY CallsAreChanges DEF IsPlanned, IsValue, Tree, Scalars
  <1>2. RawBefore(c, path) \subseteq Scalars /\ RawAfter(c, path) \subseteq Scalars
    BY <1>1 DEF RawBefore, RawAfter, Lookup
  <1>3. Reader(c, after).change = c
    BY DEF Reader
  <1> QED
    BY <1>2, <1>3 DEF Read

\* Sources are typed, whatever was read.
LEMMA SourceType ==
    /\ \A kind \in {"cidr", "group", "prefix list", "self"} : IsSource(UnknownSource(kind))
    /\ IsSource(KnownSource("self"))
    /\ \A kind \in {"cidr", "group", "prefix list"}, s \in Strings \ {EmptyString} :
         IsSource(NewSource(kind, s))
  <1>1. \A kind \in {"cidr", "group", "prefix list", "self"} : IsSource(UnknownSource(kind))
    BY DEF IsSource, UnknownSource, KnownSource
  <1>2. IsSource(KnownSource("self"))
    BY DEF IsSource, KnownSource
  <1>3. ASSUME NEW s \in DOMAIN Cidr PROVE Masked(Cidr[s]) \in Prefixes
    <2>1. Cidr[s] \in Prefixes
      BY NetworkIsTyped
    <2> DEFINE p == Cidr[s]
               a == [n \in DOMAIN p.addr |-> IF n <= p.bits THEN p.addr[n] ELSE 0]
    <2>2. PICK f \in BOOLEAN : p \in [v4 : {f}, addr : Address(f), bits : 0 .. Width(f)]
      BY <2>1 DEF Prefixes
    <2>3. a \in Address(f)
      BY <2>2 DEF Address
    <2>4. Masked(p) = [p EXCEPT !.addr = a]
      BY DEF Masked
    <2>5. Masked(p) \in [v4 : {f}, addr : Address(f), bits : 0 .. Width(f)]
      BY <2>2, <2>3, <2>4
    <2> QED
      BY <2>5 DEF Prefixes
  <1>4. ASSUME NEW kind \in {"cidr", "group", "prefix list"}, NEW s \in Strings \ {EmptyString}
        PROVE  IsSource(NewSource(kind, s))
    BY <1>3 DEF IsSource, NewSource, UnknownSource, KnownSource
  <1> QED
    BY <1>1, <1>2, <1>4

\* The sources of a block are typed.
LEMMA SourcesType ==
    ASSUME NEW r, NEW schema, NEW block
    PROVE  \A s \in Sources(r, schema, block) : IsSource(s)
  <1>1. \A path : \A kind \in {"cidr", "group", "prefix list"} :
          \A s \in ScalarSources(r, path, kind) : IsSource(s)
    BY SourceType DEF ScalarSources
  <1>2. \A path : \A kind \in {"cidr", "group", "prefix list"} :
          \A s \in ListSources(r, path, kind) : IsSource(s)
    BY <1>1, SourceType DEF ListSources
  <1>3. \A path : \A s \in SelfSources(r, path) : IsSource(s)
    BY SourceType DEF SelfSources
  <1> QED
    BY <1>1, <1>2, <1>3 DEF Sources

\* A port range is the right way round, whatever the ports are.
LEMMA PortRangeType ==
    ASSUME NEW proto, NEW r, NEW path1, NEW path2
    PROVE  LET range == PortRange(proto, PortAt(r, path1, 0), PortAt(r, path2, MaxPort))
           IN  /\ range[1] \in Nat /\ range[2] \in Nat
               /\ range[1] <= range[2] /\ range[2] <= MaxPort
  <1>1. ASSUME NEW path, NEW end \in 0 .. MaxPort PROVE PortAt(r, path, end) \in 0 .. MaxPort
    <2> DEFINE ports == {Number[x] : x \in Read(r, path) \cap DOMAIN Number} \cap Nat
    <2>1. \A n \in ports : n \in 0 .. MaxPort
      BY NetworkIsTyped
    <2>2. ports # {} => (CHOOSE n \in ports : TRUE) \in ports
      OBVIOUS
    <2>3. PortAt(r, path, end) = IF ports = {} THEN end ELSE CHOOSE n \in ports : TRUE
      BY DEF PortAt
    <2> QED
      BY <2>1, <2>2, <2>3
  <1>2. PortAt(r, path1, 0) \in 0 .. MaxPort /\ PortAt(r, path2, MaxPort) \in 0 .. MaxPort
    BY <1>1, NetworkIsTyped
  <1> QED
    BY <1>2, NetworkIsTyped DEF PortRange

\* Permissions are typed.
LEMMA PermsType ==
    ASSUME NEW c \in Calls, NEW after, NEW schema
    PROVE  \A p \in Perms(Reader(c, after), schema) : IsPerm(p)
  <1> DEFINE r == Reader(c, after)
  <1>1. ASSUME NEW path PROVE ProtocolAt(r, path) \in Protocols \cup {"all"}
    <2>1. Read(r, path) # {} => (CHOOSE x \in Read(r, path) : TRUE) \in DOMAIN Protocol
      BY ReadType, NetworkIsTyped DEF Scalars
    <2> QED
      BY <2>1 DEF ProtocolAt, Protocols
  <1>2. \A where : IsPerm(UnknownPerm(where))
    <2> TAKE where
    <2> DEFINE src == UnknownSource("cidr")
    <2>1. IsSource(src)
      BY SourceType
    <2>2. UnknownPerm(where) = [where |-> where, proto |-> "all", from |-> 0, to |-> MaxPort,
                                src |-> src]
      BY DEF UnknownPerm, Permission
    <2> HIDE DEF src
    <2> QED
      BY <2>1, <2>2, NetworkIsTyped DEF IsPerm
  <1>3. ASSUME NEW block, NEW p \in BlockPerms(r, schema, block) PROVE IsPerm(p)
    <2> DEFINE at(name) == Append(block, KeyNamed[name])
               proto == ProtocolAt(r, at(schema.proto))
               range == PortRange(proto, PortAt(r, at(schema.from), 0),
                                         PortAt(r, at(schema.to), MaxPort))
    <2>1. PICK src \in Sources(r, schema, block) : p = Permission(block, proto, range, src)
      BY <1>3 DEF BlockPerms
    <2>2. /\ range[1] \in Nat /\ range[2] \in Nat
          /\ range[1] <= range[2] /\ range[2] <= MaxPort
      BY PortRangeType
    <2>3. proto \in Protocols \cup {"all"} /\ IsSource(src)
      BY <1>1, SourcesType
    <2> HIDE DEF proto, range
    <2> QED
      BY <2>1, <2>2, <2>3 DEF Permission, IsPerm
  <1> QED
    BY <1>2, <1>3 DEF Perms

-----------------------------------------------------------------------------
(* The predicate. *)

\* A schema's key is a segment.
LEMMA KeyType == \A name \in DOMAIN KeyNamed : KeyNamed[name] \in Segments
  <1> TAKE name \in DOMAIN KeyNamed
  <1>1. PICK n \in DOMAIN Names : KeyNamed[name] = Key(n)
    BY DEF KeyNamed
  <1>2. n \in Nat
    BY <1>1, NamesAreDistinct
  <1> QED
    BY <1>1, <1>2 DEF Key, Segments

\* A permission says where it stands.
LEMMA WhereType ==
    ASSUME NEW r, NEW type \in DOMAIN Schemas
    PROVE  \A p \in Perms(r, Schemas[type]) : p.where \in Seq(Segments)
  <1> DEFINE schema == Schemas[type]
             root == <<KeyNamed[schema.blocks]>>
  <1>1. ASSUME NEW block, NEW p \in BlockPerms(r, schema, block) PROVE p.where = block
    BY <1>1 DEF BlockPerms, Permission
  <1>2. CASE schema.blocks = NoName
    <2>1. << >> \in Seq(Segments)
      OBVIOUS
    <2> HIDE DEF schema
    <2>2. \A p \in Perms(r, schema) : p.where = << >>
      BY <1>1, <1>2 DEF Perms
    <2> QED
      BY <2>1, <2>2 DEF schema
  <1>3. CASE schema.blocks # NoName
    <2>1. root \in Seq(Segments)
      BY <1>3, KeyType, FieldsAreNamed DEF FieldsOf
    <2>2. \A i \in Indices(r, root) : Append(root, i) \in Seq(Segments)
      BY <2>1 DEF Indices
    <2>3. \A where : UnknownPerm(where).where = where
      BY DEF UnknownPerm, Permission
    <2> HIDE DEF schema, root
    <2>4. \A p \in Perms(r, schema) :
             p.where \in {root} \cup {Append(root, i) : i \in Indices(r, root)}
      BY <1>1, <1>3, <2>3 DEF Perms, root
    <2> QED
      BY <2>1, <2>2, <2>4 DEF schema
  <1> QED
    BY <1>2, <1>3

\* Every answer is made of findings or, for network access, of permissions
\* with a source and a port range that is the right way round.
THEOREM CallTypeCorrect == Spec => []TypeOK
  <1>1. Answered => TypeOK
    <2> SUFFICES ASSUME Answered PROVE TypeOK
      OBVIOUS
    <2>1. CASE called = "widens_network_access"
      <3>1. found = WidensNetworkAccess(change)
        BY <2>1 DEF Answered, Answer, NoName
      <3>2. ASSUME NEW p \in found
            PROVE  change.type \in DOMAIN Schemas /\ p \in NewPerms
        BY <3>1 DEF WidensNetworkAccess, NewPerms, Schema
      <3>3. ASSUME NEW p \in found PROVE IsPermission(p)
        <4>1. IsPerm(p) /\ p.where \in Seq(Segments)
          BY <3>2, PermsType, WhereType DEF Answered, NewPerms, Schema
        <4>2. 0 <= p.from /\ p.from <= p.to /\ p.to <= MaxPort
          BY <4>1 DEF IsPerm
        <4>3. IsSource(p.src)
          BY <4>1 DEF IsPerm
        <4> QED
          BY <4>1, <4>2, <4>3, Zenon DEF IsSource, IsPermission
      <3> QED
        BY <2>1, <3>3 DEF TypeOK
    <2>2. CASE called # "widens_network_access"
      <3> DEFINE kinds == {"moved", "written", "rewritten", "off", "on", "less", "removed", "aws"}
      <3>1. \A p \in DOMAIN Diff(change) : p \in Seq(Segments)
        BY CallIsChange, SideLeaves DEF Diff
      <3>2. \A p \in Seq(Segments), what \in kinds : Found(p, what) \in Findings
        BY DEF Found, Findings
      <3>3. \A names : ChangedAt(Diff(change), names) \subseteq Seq(Segments)
        BY <3>1 DEF ChangedAt
      <3>4. \A names, from, to : Flips(change, names, from, to) \subseteq Seq(Segments)
        BY <3>3 DEF Flips
      <3>5. WasMoved(change) \subseteq Findings
        <4>1. << >> \in Seq(Segments)
          OBVIOUS
        <4>2. Found(<< >>, "moved") \in Findings
          BY <3>2, <4>1
        <4> QED
          BY <4>2 DEF WasMoved
      <3>6. ChangesSensitiveAttribute(change) \subseteq Findings
        <4> DEFINE written == {p \in DOMAIN Diff(change) :
                                 \/ /\ change.action = "update"
                                    /\ Diff(change)[p].changed /\ Sensitive(Diff(change)[p])
                                 \/ change.action = "replace" /\ Rewritten(Diff(change)[p])}
                   rewritten == ChangedAt(Diff(change), WriteOnlyVersion)
        <4>1. written \subseteq Seq(Segments) /\ rewritten \subseteq Seq(Segments)
          BY <3>1, <3>3
        <4>2. ChangesSensitiveAttribute(change)
                \in {{}, {Found(p, "written") : p \in written}
                           \cup {Found(p, "rewritten") : p \in rewritten}}
          BY DEF ChangesSensitiveAttribute
        <4> HIDE DEF written, rewritten
        <4>3. /\ \A p \in written : Found(p, "written") \in Findings
              /\ \A p \in rewritten : Found(p, "rewritten") \in Findings
          BY <3>2, <4>1
        <4> QED
          BY <4>2, <4>3
      <3>7. DisablesEncryption(change) \subseteq Findings
        BY <3>2, <3>3, <3>4 DEF DisablesEncryption
      <3>8. RemovesDeletionProtection(change) \subseteq Findings
        BY <3>2, <3>4 DEF RemovesDeletionProtection
      <3>9. ReducesBackupRetention(change) \subseteq Findings
        BY <3>2, <3>3, <3>4 DEF ReducesBackupRetention
      <3>10. found \subseteq Findings
        BY <2>2, <3>5, <3>6, <3>7, <3>8, <3>9 DEF Answered, Answer, Registry
      <3> QED
        BY <2>2, <3>10 DEF TypeOK
    <2> QED
      BY <2>1, <2>2
  <1> QED
    BY <1>1, SpecAnswered, PTL

\* After an update or replace, what is found is exactly what has an unknown
\* source or more traffic than every single earlier permission.
THEOREM WideningExact == Spec => []WideningIsExact
  <1>1. Answered => WideningIsExact
    <2> SUFFICES ASSUME Answered, Widens({"update", "replace"})
                 PROVE  found = {p \in NewPerms :
                                   p.src.unknown
                                   \/ ~\E traffic \in {TrafficOf(b) : b \in OldPerms} :
                                         TrafficOf(p) \subseteq traffic}
      BY DEF WideningIsExact
    <2>1. found = {p \in NewPerms : ~CoveredBy(p, OldPerms)}
      BY DEF Answered, Answer, NoName, Widens, WidensNetworkAccess, NewPerms, OldPerms, Schema
    <2>2. ASSUME NEW p \in NewPerms
          PROVE  CoveredBy(p, OldPerms)
                   <=> /\ ~p.src.unknown
                       /\ \E b \in OldPerms : TrafficOf(p) \subseteq TrafficOf(b)
      <3>1. IsPerm(p) /\ \A b \in OldPerms : IsPerm(b)
        BY PermsType DEF Answered, NewPerms, OldPerms
      <3>2. CoveredBy(p, OldPerms)
              <=> \E b \in OldPerms : CoversPorts(b, p) /\ SourceCovers(b.src, p.src)
        BY DEF CoveredBy, CoversPorts
      <3> QED
        BY <3>1, <3>2, CoverIsTraffic
    <2> QED
      BY <2>1, <2>2
  <1> QED
    BY <1>1, SpecAnswered, PTL

-----------------------------------------------------------------------------
(* Public addresses. *)

\* A prefix all of whose addresses are private.
AllPrivate(p) == \A a \in Addresses(p) : ~IsPublic(a)

InPrivateRange(p) == \E q \in PrivateRanges : PrefixContains(q, p)

\* One half of a prefix.
Half(p, bit) ==
    [v4   |-> p.v4,
     addr |-> [n \in DOMAIN p.addr |-> IF n = p.bits + 1 THEN bit ELSE p.addr[n]],
     bits |-> p.bits + 1]

\* A half of a prefix is a prefix, and its addresses are among the prefix's.
LEMMA HalfType ==
    ASSUME NEW p \in Prefixes, p.bits < Width(p.v4), NEW bit \in {0, 1}
    PROVE  /\ Half(p, bit) \in Prefixes
           /\ Half(p, bit).v4 = p.v4
           /\ Half(p, bit).bits = p.bits + 1
           /\ Half(p, bit).addr[p.bits + 1] = bit
           /\ \A n \in 1 .. p.bits : Half(p, bit).addr[n] = p.addr[n]
           /\ Addresses(Half(p, bit)) \subseteq Addresses(p)
  <1> DEFINE a == [n \in DOMAIN p.addr |-> IF n = p.bits + 1 THEN bit ELSE p.addr[n]]
             h == Half(p, bit)
  <1>1. PICK f \in BOOLEAN : p \in [v4 : {f}, addr : Address(f), bits : 0 .. Width(f)]
    BY DEF Prefixes
  <1>2. /\ p.v4 = f /\ p.addr \in [1 .. Width(f) -> {0, 1}] /\ Width(f) \in Nat
        /\ p.bits \in Nat /\ p.bits + 1 \in 1 .. Width(f)
    BY <1>1, PrefixType
  <1>3. a \in Address(f) /\ a[p.bits + 1] = bit /\ \A n \in 1 .. p.bits : a[n] = p.addr[n]
    BY <1>2 DEF Address
  <1>4. h = [v4 |-> p.v4, addr |-> a, bits |-> p.bits + 1]
    BY DEF Half
  <1> HIDE DEF a, h
  <1>5. h \in [v4 : {f}, addr : Address(f), bits : 0 .. Width(f)]
    BY <1>1, <1>2, <1>3, <1>4
  <1>6. h.v4 = p.v4 /\ h.addr = a /\ h.bits = p.bits + 1
    BY <1>1, <1>4
  <1>7. h \in Prefixes
    BY <1>5 DEF Prefixes
  <1>8. Addresses(h) \subseteq Addresses(p)
    BY <1>2, <1>3, <1>6 DEF Addresses, InPrefix
  <1> QED
    BY <1>3, <1>6, <1>7, <1>8 DEF h

\* A prefix of which both halves lie in private ranges lies in one itself.
LEMMA HalvesInPrivateRanges ==
    ASSUME NEW p \in Prefixes, p.bits < Width(p.v4),
           InPrivateRange(Half(p, 0)), InPrivateRange(Half(p, 1))
    PROVE  InPrivateRange(p)
  <1> DEFINE k == p.bits + 1
  <1>1. PICK q \in PrivateRanges : PrefixContains(q, Half(p, 0))
    BY DEF InPrivateRange
  <1>2. PICK r \in PrivateRanges : PrefixContains(r, Half(p, 1))
    BY DEF InPrivateRange
  <1>3. /\ q.bits \in Nat /\ r.bits \in Nat /\ p.bits \in Nat
        /\ q.bits <= k /\ r.bits <= k /\ q.v4 = p.v4 /\ r.v4 = p.v4
    BY <1>1, <1>2, HalfType, PrefixType, NetworkIsTyped DEF PrefixContains
  <1>4. /\ \A n \in 1 .. q.bits : q.addr[n] = Half(p, 0).addr[n]
        /\ \A n \in 1 .. r.bits : r.addr[n] = Half(p, 1).addr[n]
    BY <1>1, <1>2 DEF PrefixContains
  <1>5. /\ Half(p, 0).addr[k] = 0 /\ \A n \in 1 .. p.bits : Half(p, 0).addr[n] = p.addr[n]
        /\ Half(p, 1).addr[k] = 1 /\ \A n \in 1 .. p.bits : Half(p, 1).addr[n] = p.addr[n]
    BY HalfType
  <1>6. CASE q.bits <= p.bits
    <2>1. PrefixContains(q, p)
      BY <1>3, <1>4, <1>5, <1>6 DEF PrefixContains
    <2> QED
      BY <2>1 DEF InPrivateRange
  <1>7. CASE r.bits <= p.bits
    <2>1. PrefixContains(r, p)
      BY <1>3, <1>4, <1>5, <1>7 DEF PrefixContains
    <2> QED
      BY <2>1 DEF InPrivateRange
  <1>8. CASE q.bits = k /\ r.bits = k
    <2>1. \A n \in 1 .. k - 1 : q.addr[n] = r.addr[n]
      BY <1>3, <1>4, <1>5, <1>8
    <2>2. k \in 1 .. k /\ q.addr[k] = 0 /\ r.addr[k] = 1
      BY <1>3, <1>4, <1>5, <1>8
    <2>3. q.v4 = r.v4 /\ q.bits = k /\ r.bits = k
      BY <1>3, <1>8
    <2> HIDE DEF k
    <2>4. \A n \in 1 .. k : q.addr[n] = r.addr[n]
      BY <2>1, <2>3, PrivateRangesAreApart
    <2> QED
      BY <2>2, <2>4
  <1> QED
    BY <1>3, <1>6, <1>7, <1>8

\* The addresses of a prefix are all private exactly when it lies in a private
\* range, whatever the ranges are: the longest counterexample would have a
\* half that is a longer one.
LEMMA PrivateIsInOneRange ==
    \A p \in Prefixes : AllPrivate(p) <=> InPrivateRange(p)
  <1>1. ASSUME NEW p \in Prefixes, InPrivateRange(p) PROVE AllPrivate(p)
    <2>1. PICK q \in PrivateRanges : PrefixContains(q, p)
      BY <1>1 DEF InPrivateRange
    <2>2. Addresses(p) \subseteq Addresses(q)
      BY <2>1, PrefixContainsIsExact, NetworkIsTyped
    <2> QED
      BY <2>2 DEF AllPrivate, IsPublic, Addresses
  <1> DEFINE Bad(p) == p \in Prefixes /\ AllPrivate(p) /\ ~InPrivateRange(p)
             free(p) == Width(p.v4) - p.bits
             bad == {p \in Prefixes : Bad(p)}
             T == {free(p) : p \in bad}
  <1>2. ASSUME bad # {} PROVE FALSE
    <2>1. T \subseteq Nat /\ T # {}
      BY <1>2, PrefixType
    <2>2. PICK m \in T : \A k \in T : m <= k
      <3> HIDE DEF T
      <3> QED
        BY <2>1, LeastNatural
    <2>3. PICK p \in bad : m = free(p)
      BY <2>2
    <2>4. p \in Prefixes /\ AllPrivate(p) /\ ~InPrivateRange(p) /\ free(p) \in Nat
      BY <2>3, PrefixType
    <2>5. CASE p.bits = Width(p.v4)
      <3>1. [v4 |-> p.v4, addr |-> p.addr] \in Addresses(p)
        BY <2>4, OwnAddress
      <3>2. PICK q \in PrivateRanges : InPrefix([v4 |-> p.v4, addr |-> p.addr], q)
        BY <2>4, <3>1 DEF AllPrivate, IsPublic
      <3>3. p.v4 = q.v4 /\ \A n \in 1 .. q.bits : p.addr[n] = q.addr[n]
        BY <3>2 DEF InPrefix
      <3>4. q.bits <= p.bits
        BY <2>5, <3>3, PrefixType, NetworkIsTyped
      <3> QED
        BY <2>4, <3>3, <3>4 DEF InPrivateRange, PrefixContains
    <2>6. CASE p.bits < Width(p.v4)
      <3>1. ASSUME NEW bit \in {0, 1} PROVE InPrivateRange(Half(p, bit))
        <4>1. /\ Half(p, bit) \in Prefixes /\ AllPrivate(Half(p, bit))
              /\ free(Half(p, bit)) = free(p) - 1
          BY <2>4, <2>6, HalfType, PrefixType DEF AllPrivate
        <4>2. SUFFICES ASSUME ~InPrivateRange(Half(p, bit)) PROVE FALSE
          OBVIOUS
        <4>3. free(Half(p, bit)) \in T
          BY <4>1, <4>2
        <4> HIDE DEF free
        <4>4. free(p) <= free(p) - 1
          BY <2>2, <2>3, <4>1, <4>3
        <4> QED
          BY <2>4, <4>4
      <3> QED
        BY <2>4, <2>6, <3>1, HalvesInPrivateRanges
    <2> QED
      BY <2>4, <2>5, <2>6, PrefixType
  <1> QED
    BY <1>1, <1>2

\* A new resource is found public exactly when some address that may get in is
\* in none of the private ranges, though it is compared with them one by one.
THEOREM PublicExact == Spec => []PublicIsExact
  <1>1. Answered => PublicIsExact
    <2> SUFFICES ASSUME Answered, Widens({"create"})
                 PROVE  found = {p \in NewPerms :
                                   /\ p.src.kind = "cidr"
                                   /\ \/ p.src.unknown
                                      \/ \E a \in HostsOf(p.src) \cap IPs : IsPublic(a)}
      BY DEF PublicIsExact
    <2>1. found = {p \in NewPerms : Public(p.src)}
      BY DEF Answered, Answer, NoName, Widens, WidensNetworkAccess, NewPerms, Schema
    <2>2. ASSUME NEW p \in NewPerms, p.src.kind = "cidr", ~p.src.unknown
          PROVE  Public(p.src) <=> \E a \in HostsOf(p.src) \cap IPs : IsPublic(a)
      <3>1. IsSource(p.src)
        BY PermsType DEF Answered, NewPerms, IsPerm
      <3>2. p.src.prefix \in Prefixes /\ HostsOf(p.src) \cap IPs = Addresses(p.src.prefix)
        BY <2>2, <3>1, HostsOfPrefix
      <3>3. Public(p.src) <=> ~InPrivateRange(p.src.prefix)
        BY <2>2 DEF Public, InPrivateRange
      <3> QED
        BY <3>2, <3>3, PrivateIsInOneRange DEF AllPrivate
    <2>3. ASSUME NEW p \in NewPerms, p.src.kind # "cidr" \/ p.src.unknown
          PROVE  Public(p.src) <=> p.src.kind = "cidr"
      BY <2>3 DEF Public
    <2> QED
      BY <2>1, <2>2, <2>3
  <1> QED
    BY <1>1, SpecAnswered, PTL

-----------------------------------------------------------------------------
(* Unknown sources. *)

\* A leaf that is unknown until apply is present and cannot be read.
LEMMA UnknownLeaf ==
    ASSUME Answered, NEW p \in DOMAIN AfterLeaves(change), AfterLeaves(change)[p].unknown
    PROVE  LET r == Reader(change, TRUE)
           IN  /\ p \in Seq(Segments)
               /\ p \in DOMAIN r.diff /\ Present(r.diff[p], r.after)
               /\ IsUnknown(r, p)
               /\ Unreadable(r, p)
  <1> DEFINE r == Reader(change, TRUE)
             new == AfterLeaves(change)
  <1>1. IsChange(change) /\ p \in Seq(Segments) /\ new[p] \in Leaves
    BY CallIsChange, SideLeaves
  <1>2. r.change = change /\ r.after = TRUE /\ r.diff = Diff(change)
    BY DEF Reader
  <1>3. p \in DOMAIN Diff(change)
    BY DEF Diff
  <1>4. Diff(change)[p].unknown
    BY <1>1, DiffFields
  <1>5. Diff(change)[p].after # Absent
    <2>1. PICK secret \in BOOLEAN : Diff(change)[p].after = Side(new, p, secret)
      BY <1>1, DiffFields
    <2>2. Render(new[p]) # Absent /\ SensitiveValue # Absent
      BY <1>1, RenderIsPresent DEF Absent, SensitiveValue
    <2> QED
      BY <2>1, <2>2 DEF Side, Hide
  <1> HIDE DEF r, new
  <1>6. Present(r.diff[p], r.after)
    BY <1>2, <1>5 DEF Present
  <1>7. IsUnknown(r, p)
    BY <1>2, <1>3, <1>4 DEF IsUnknown
  <1>8. Unreadable(r, p)
    BY <1>2, <1>3, <1>4, <1>6 DEF Unreadable, HasLeaf, Read
  <1> QED
    BY <1>1, <1>2, <1>3, <1>6, <1>7, <1>8 DEF r

\* An index on the path to something present is found.
LEMMA IndexOnPath ==
    ASSUME NEW r, NEW p \in Seq(Segments), p \in DOMAIN r.diff, Present(r.diff[p], r.after),
           NEW n \in 1 .. Len(p), p[n].index
    PROVE  p[n] \in Indices(r, Upto(p, n - 1))
  <1> DEFINE q == Upto(p, n - 1)
  <1>1. n - 1 \in 0 .. Len(p) /\ Len(p) \in 0 .. Len(p) /\ Len(q) = n - 1 /\ Len(p) > n - 1
    BY PrefixOfPrefix
  <1>2. Covers(q, p)
    BY <1>1, PrefixIsCovered, PrefixOfPrefix
  <1>3. p[n] \in Segments
    BY NextPrefix
  <1> HIDE DEF q
  <1>4. p \in {x \in DOMAIN r.diff : Len(x) > Len(q) /\ Covers(q, x) /\ Present(r.diff[x], r.after)}
    BY <1>1, <1>2
  <1>5. p[Len(q) + 1] = p[n]
    BY <1>1
  <1> QED
    BY <1>3, <1>4, <1>5 DEF Indices, q

\* No list of groups or prefix lists is a field of addresses as well.
LEMMA FieldKinds ==
    \A type \in DOMAIN Schemas :
        (Schemas[type].groupLists \cup Schemas[type].prefixLists)
          \cap (Schemas[type].cidrLists \cup Schemas[type].cidrs) = {}
  <1> DEFINE apart(s) == (s.groupLists \cup s.prefixLists) \cap (s.cidrLists \cup s.cidrs) = {}
  <1>1. apart(Schemas["aws_security_group"])
    BY DEF Schemas, NoSchema
  <1>2. apart(Schemas["aws_security_group_rule"])
    BY DEF Schemas, NoSchema
  <1>3. apart(Schemas["aws_vpc_security_group_ingress_rule"])
    BY DEF Schemas, NoSchema
  <1>4. DOMAIN Schemas =
          {"aws_security_group", "aws_security_group_rule", "aws_vpc_security_group_ingress_rule"}
    BY DEF Schemas
  <1> QED
    BY <1>1, <1>2, <1>3, <1>4

\* The resources whose rules are blocks have no rules of another type.
LEMMA BlocksHaveNoType ==
    \A type \in DOMAIN Schemas : Schemas[type].blocks # NoName => Schemas[type].type = NoName
  <1>1. Schemas["aws_security_group"].type = NoName
    BY DEF Schemas, NoSchema
  <1>2. Schemas["aws_security_group_rule"].blocks = NoName
    BY DEF Schemas, NoSchema
  <1>3. Schemas["aws_vpc_security_group_ingress_rule"].blocks = NoName
    BY DEF Schemas, NoSchema
  <1>4. DOMAIN Schemas =
          {"aws_security_group", "aws_security_group_rule", "aws_vpc_security_group_ingress_rule"}
    BY DEF Schemas
  <1> QED
    BY <1>1, <1>2, <1>3, <1>4

\* A path leads to a field of a block, or to an element of it if it is a list.
InField(p, block, f) ==
    \/ p = Append(block, KeyNamed[f])
    \/ /\ f \in ListFields
       /\ \E n \in 1 .. Len(p) :
            p[n].index /\ n = Len(p) /\ Upto(p, n - 1) = Append(block, KeyNamed[f])

\* A path that holds a source ends in a field, of the resource or of a block of
\* it, or it is shorter than one that does.
LEMMA HeldFields ==
    ASSUME NEW p \in Seq(Segments), NEW fields, HoldsSource(p, fields)
    PROVE  /\ Schema.blocks = NoName => \E f \in fields : InField(p, << >>, f)
           /\ Schema.blocks # NoName =>
                /\ p[1] = KeyNamed[Schema.blocks]
                /\ Len(p) \in 1 .. 4
                /\ Len(p) >= 2 => p[2].index
                /\ Len(p) >= 3 => \E f \in fields : InField(p, Upto(p, 2), f)
  <1>1. Len(p) \in Nat
    BY LenProperties
  <1>2. /\ Upto(p, 0) = << >> /\ Upto(p, Len(p)) = p
        /\ \A n \in 1 .. Len(p) : Upto(p, n) = Append(Upto(p, n - 1), p[n])
    BY <1>1, NextPrefix, PrefixOfPrefix
  <1>3. ASSUME NEW n \in {1, 3}, NEW f \in fields, Len(p) = n, p[n] = KeyNamed[f]
        PROVE  InField(p, Upto(p, n - 1), f)
    <2>1. n \in 1 .. Len(p)
      BY <1>3
    <2>2. Upto(p, n) = Append(Upto(p, n - 1), p[n])
      BY <1>2, <2>1
    <2>3. Upto(p, n) = p
      BY <1>2, <1>3
    <2> QED
      BY <1>3, <2>2, <2>3 DEF InField
  <1>4. ASSUME NEW n \in {1, 3}, NEW f \in fields \cap ListFields, Len(p) = n + 1,
               p[n + 1].index, p[n] = KeyNamed[f]
        PROVE  InField(p, Upto(p, n - 1), f)
    <2>1. Upto(p, n) = Append(Upto(p, n - 1), p[n]) /\ n + 1 \in 1 .. Len(p) /\ n + 1 - 1 = n
      BY <1>1, <1>2, <1>4
    <2> QED
      BY <1>4, <2>1 DEF InField
  <1>5. CASE Schema.blocks = NoName
    <2>1. \/ Len(p) = 1 /\ \E f \in fields : p[1] = KeyNamed[f]
          \/ /\ Len(p) = 2 /\ p[1 + 1].index
             /\ \E f \in fields \cap ListFields : p[1] = KeyNamed[f]
      BY <1>1, <1>5 DEF HoldsSource
    <2>2. Upto(p, 1 - 1) = << >>
      BY <1>2
    <2> QED
      BY <1>3, <1>4, <1>5, <2>1, <2>2
  <1>6. CASE Schema.blocks # NoName
    <2> DEFINE field == \E f \in fields : p[3] = KeyNamed[f]
               element == p[3 + 1].index /\ \E f \in fields \cap ListFields : p[3] = KeyNamed[f]
    <2>1. /\ Len(p) >= 1 => p[1] = KeyNamed[Schema.blocks]
          /\ Len(p) >= 2 => p[2].index
      BY <1>6 DEF HoldsSource
    <2>2. (CASE Len(p) = 3 -> field
             [] Len(p) = 3 + 1 -> element
             [] OTHER -> Len(p) \in 1 .. 3)
      BY <1>6 DEF HoldsSource
    <2>3. field => \E f \in fields : Len(p) = 3 => InField(p, Upto(p, 3 - 1), f)
      BY <1>3
    <2>4. element => \E f \in fields : Len(p) = 3 + 1 => InField(p, Upto(p, 3 - 1), f)
      BY <1>4
    <2> HIDE DEF field, element
    <2>5. \/ Len(p) = 3 /\ field
          \/ Len(p) = 3 + 1 /\ element
          \/ Len(p) \in {1, 2}
      BY <1>1, <2>2
    <2>6. 3 - 1 = 2
      OBVIOUS
    <2>7. Len(p) >= 3 => \E f \in fields : InField(p, Upto(p, 2), f)
      <3>1. CASE Len(p) = 3 /\ field
        <4>1. \E f \in fields : InField(p, Upto(p, 3 - 1), f)
          BY <2>3, <3>1
        <4> QED
          BY <2>6, <4>1
      <3>2. CASE Len(p) = 3 + 1 /\ element
        <4>1. \E f \in fields : InField(p, Upto(p, 3 - 1), f)
          BY <2>4, <3>2
        <4> QED
          BY <2>6, <4>1
      <3>3. CASE Len(p) \in {1, 2}
        <4>1. \A l \in {1, 2} : ~(l >= 3)
          OBVIOUS
        <4> QED
          BY <3>3, <4>1
      <3> QED
        BY <2>5, <3>1, <3>2, <3>3
    <2> QED
      BY <1>6, <2>1, <2>5, <2>7
  <1> QED
    BY <1>5, <1>6

\* A field or an element of a list that is unknown gives its block an unknown source.
LEMMA UnknownSourceOfBlock ==
    ASSUME Answered, NEW p \in DOMAIN AfterLeaves(change), AfterLeaves(change)[p].unknown,
           NEW block, NEW f, change.type \in DOMAIN Schemas,
           f \in SourceFields, InField(p, block, f)
    PROVE  \E kind \in {"cidr", "group", "prefix list", "self"} :
              /\ UnknownSource(kind) \in Sources(Reader(change, TRUE), Schema, block)
              /\ f \in CidrFields => kind = "cidr"
  <1> DEFINE r == Reader(change, TRUE)
             at == Append(block, KeyNamed[f])
  <1>1. /\ p \in Seq(Segments) /\ p \in DOMAIN r.diff /\ Present(r.diff[p], r.after)
        /\ IsUnknown(r, p) /\ Unreadable(r, p)
    BY UnknownLeaf
  <1> HIDE DEF r
  <1>2. ASSUME NEW kind PROVE UnknownSource(kind) \in ScalarSources(r, p, kind)
    BY <1>1 DEF ScalarSources
  <1>3. ASSUME f \in ListFields, NEW kind PROVE UnknownSource(kind) \in ListSources(r, at, kind)
    <2>1. CASE IsUnknown(r, at)
      BY <2>1 DEF ListSources
    <2>2. CASE ~IsUnknown(r, at)
      <3>1. p # at
        BY <1>1, <2>2
      <3>2. PICK n \in 1 .. Len(p) : p[n].index /\ n = Len(p) /\ Upto(p, n - 1) = at
        BY <3>1 DEF InField
      <3> HIDE DEF at
      <3>3. p[n] \in Indices(r, at)
        BY <1>1, <3>2, IndexOnPath
      <3>4. p = Append(at, p[n])
        <4>1. Upto(p, n) = Append(Upto(p, n - 1), p[n])
          BY <1>1, NextPrefix
        <4>2. Upto(p, Len(p)) = p
          BY <1>1, PrefixOfPrefix, LenProperties
        <4> QED
          BY <3>2, <4>1, <4>2
      <3>5. UnknownSource(kind) \in ScalarSources(r, Append(at, p[n]), kind)
        BY <1>2, <3>4
      <3> QED
        BY <2>2, <3>3, <3>5 DEF ListSources
    <2> QED
      BY <2>1, <2>2
  <1>4. CASE f \in Schema.cidrLists
    <2>1. UnknownSource("cidr") \in ListSources(r, at, "cidr")
      BY <1>3, <1>4 DEF ListFields
    <2> QED
      BY <1>4, <2>1 DEF Sources, r
  <1>5. CASE f \in Schema.groupLists
    <2>1. UnknownSource("group") \in ListSources(r, at, "group")
      BY <1>3, <1>5 DEF ListFields
    <2>2. f \notin CidrFields
      BY <1>5, FieldKinds DEF CidrFields, Schema
    <2> QED
      BY <1>5, <2>1, <2>2 DEF Sources, r
  <1>6. CASE f \in Schema.prefixLists
    <2>1. UnknownSource("prefix list") \in ListSources(r, at, "prefix list")
      BY <1>3, <1>6 DEF ListFields
    <2>2. f \notin CidrFields
      BY <1>6, FieldKinds DEF CidrFields, Schema
    <2> QED
      BY <1>6, <2>1, <2>2 DEF Sources, r
  <1>7. CASE f \in SourceFields \ ListFields /\ p = at
    <2>1. CASE f \in CidrFields
      <3>1. f \in Schema.cidrs
        BY <1>7, <2>1 DEF CidrFields, ListFields
      <3> QED
        BY <1>2, <1>7, <3>1 DEF Sources, r
    <2>2. CASE f \in Schema.groups \ CidrFields
      BY <1>2, <1>7, <2>2 DEF Sources, r
    <2>3. CASE f \in Schema.prefix \ CidrFields
      BY <1>2, <1>7, <2>3 DEF Sources, r
    <2>4. CASE f \in Schema.self \ CidrFields
      <3>1. UnknownSource("self") \in SelfSources(r, at)
        BY <1>1, <1>7 DEF SelfSources
      <3> QED
        BY <2>4, <3>1 DEF Sources, r
    <2> QED
      BY <1>7, <2>1, <2>2, <2>3, <2>4 DEF SourceFields
  <1> QED
    BY <1>4, <1>5, <1>6, <1>7 DEF ListFields, InField

\* An unknown source is found, unless it is a group or list of a new resource.
LEMMA UnknownSourceIsFound ==
    ASSUME Answered, Widens({"create", "update", "replace"}), NEW p \in NewPerms,
           p.src.unknown, change.action = "create" => p.src.kind = "cidr"
    PROVE  p \in found
  <1>1. CASE change.action = "create"
    <2>1. found = {x \in NewPerms : Public(x.src)}
      BY <1>1 DEF Answered, Answer, NoName, Widens, WidensNetworkAccess, NewPerms, Schema
    <2> QED
      BY <1>1, <2>1 DEF Public
  <1>2. CASE change.action \in {"update", "replace"}
    <2>1. found = {x \in NewPerms : ~CoveredBy(x, OldPerms)}
      BY <1>2 DEF Answered, Answer, NoName, Widens, WidensNetworkAccess, NewPerms, OldPerms, Schema
    <2> QED
      BY <2>1 DEF CoveredBy, SourceCovers
  <1> QED
    BY <1>1, <1>2 DEF Widens

\* An ingress attribute, a block or a source that is unknown until apply is
\* found, wherever in the resource it is.
THEOREM UnknownSources == Spec => []UnknownSourcesAreFound
  <1>1. Answered => UnknownSourcesAreFound
    <2> DEFINE r == Reader(change, TRUE)
               fields == IF change.action = "create" THEN CidrFields ELSE SourceFields
    <2> SUFFICES ASSUME Answered, Widens({"create", "update", "replace"}),
                        Schema.type # NoName => ~IsEgress(r, <<KeyNamed[Schema.type]>>),
                        NEW p \in DOMAIN AfterLeaves(change),
                        AfterLeaves(change)[p].unknown, HoldsSource(p, fields)
                 PROVE  found # {}
      BY DEF UnknownSourcesAreFound
    <2>1. /\ p \in Seq(Segments) /\ p \in DOMAIN r.diff /\ Present(r.diff[p], r.after)
          /\ IsUnknown(r, p) /\ Len(p) \in Nat
      BY UnknownLeaf, LenProperties
    <2>2. /\ Upto(p, 0) = << >> /\ Upto(p, Len(p)) = p
          /\ \A n \in 1 .. Len(p) : Upto(p, n) = Append(Upto(p, n - 1), p[n])
      BY <2>1, NextPrefix, PrefixOfPrefix
    <2>3. NewPerms = Perms(r, Schema) /\ change.type \in DOMAIN Schemas
      BY DEF NewPerms, Widens
    <2> HIDE DEF r
    <2>4. ASSUME NEW block, NEW src \in Sources(r, Schema, block),
                 Schema.type = NoName \/ block = << >>
          PROVE  \E x \in BlockPerms(r, Schema, block) : x.src = src
      <3>1. ~(Schema.type # NoName /\ IsEgress(r, Append(block, KeyNamed[Schema.type])))
        <4>1. Append(<< >>, KeyNamed[Schema.type]) = <<KeyNamed[Schema.type]>>
          OBVIOUS
        <4> QED
          BY <2>4, <4>1
      <3> DEFINE at(name) == Append(block, KeyNamed[name])
                 proto == ProtocolAt(r, at(Schema.proto))
                 range == PortRange(proto, PortAt(r, at(Schema.from), 0),
                                    PortAt(r, at(Schema.to), MaxPort))
      <3>2. Permission(block, proto, range, src) \in BlockPerms(r, Schema, block)
        <4> HIDE DEF Schema
        <4> QED
          BY <3>1 DEF BlockPerms
      <3>3. Permission(block, proto, range, src).src = src
        BY DEF Permission
      <3> QED
        BY <3>2, <3>3
    <2>5. ASSUME NEW block, NEW f \in fields, InField(p, block, f)
          PROVE  \E src \in Sources(r, Schema, block) :
                    src.unknown /\ (change.action = "create" => src.kind = "cidr")
      <3>1. f \in SourceFields /\ (change.action = "create" => f \in CidrFields)
        BY DEF SourceFields
      <3>2. PICK kind \in {"cidr", "group", "prefix list", "self"} :
               /\ UnknownSource(kind) \in Sources(r, Schema, block)
               /\ f \in CidrFields => kind = "cidr"
        BY <2>3, <2>5, <3>1, UnknownSourceOfBlock DEF r
      <3>3. UnknownSource(kind).unknown /\ UnknownSource(kind).kind = kind
        BY DEF UnknownSource, KnownSource
      <3> QED
        BY <3>1, <3>2, <3>3
    <2>6. \A where : LET x == UnknownPerm(where) IN x.src.unknown /\ x.src.kind = "cidr"
      BY DEF UnknownPerm, Permission, UnknownSource, KnownSource
    <2> SUFFICES \E x \in NewPerms :
                    x.src.unknown /\ (change.action = "create" => x.src.kind = "cidr")
      BY UnknownSourceIsFound
    <2> HIDE DEF fields
    <2>7. CASE Schema.blocks = NoName
      <3>1. PICK f \in fields : InField(p, << >>, f)
        BY <2>1, <2>7, HeldFields
      <3>2. PICK src \in Sources(r, Schema, << >>) :
               src.unknown /\ (change.action = "create" => src.kind = "cidr")
        BY <2>5, <3>1
      <3>3. PICK x \in BlockPerms(r, Schema, << >>) : x.src = src
        BY <2>4
      <3>4. x \in NewPerms
        BY <2>3, <2>7 DEF Perms
      <3> QED
        BY <3>2, <3>3, <3>4
    <2>8. CASE Schema.blocks # NoName
      <3> DEFINE root == <<KeyNamed[Schema.blocks]>>
                 block == Append(root, p[2])
      <3>1. Schema.type = NoName
        BY <2>3, <2>8, BlocksHaveNoType DEF Schema
      <3>2. /\ p[1] = KeyNamed[Schema.blocks]
            /\ Len(p) \in 1 .. 4
            /\ Len(p) >= 2 => p[2].index
            /\ Len(p) >= 3 => \E f \in fields : InField(p, Upto(p, 2), f)
        BY <2>1, <2>8, HeldFields
      <3>3. Upto(p, 1) = root
        <4>1. Upto(p, 1) = Append(Upto(p, 1 - 1), p[1]) /\ Upto(p, 1 - 1) = << >>
          BY <2>2, <3>2
        <4> QED
          BY <3>2, <4>1
      <3>4. CASE IsUnknown(r, root)
        <4>1. UnknownPerm(root) \in NewPerms
          BY <2>3, <2>8, <3>4 DEF Perms
        <4> QED
          BY <2>6, <4>1
      <3>5. CASE ~IsUnknown(r, root)
        <4>1. Len(p) # 1
          <5>1. Len(p) = 1 => p = root
            BY <2>2, <3>3
          <5> HIDE DEF root
          <5> QED
            BY <2>1, <3>5, <5>1
        <4>2. p[2].index /\ Upto(p, 2) = block /\ 2 \in 1 .. Len(p) /\ Upto(p, 2 - 1) = root
          <5>1. Len(p) \in 1 .. 4 /\ 2 - 1 = 1
            BY <3>2
          <5>2. 2 \in 1 .. Len(p)
            BY <2>1, <4>1, <5>1
          <5>3. Upto(p, 2) = Append(Upto(p, 2 - 1), p[2])
            BY <2>2, <5>2
          <5>4. p[2].index
            BY <3>2, <5>2
          <5>5. Upto(p, 2 - 1) = root
            BY <3>3, <5>1
          <5> HIDE DEF root
          <5>6. Upto(p, 2) = block
            BY <5>3, <5>5
          <5> QED
            BY <5>2, <5>4, <5>5, <5>6
        <4> HIDE DEF block, root
        <4>3. p[2] \in Indices(r, root)
          BY <2>1, <4>2, IndexOnPath
        <4>4. CASE IsUnknown(r, block)
          <5>1. UnknownPerm(block) \in NewPerms
            BY <2>3, <2>8, <3>5, <4>3, <4>4 DEF Perms, root, block
          <5> QED
            BY <2>6, <5>1
        <4>5. CASE ~IsUnknown(r, block)
          <5>1. Len(p) # 2
            BY <2>1, <2>2, <4>2, <4>5
          <5>2. PICK f \in fields : InField(p, block, f)
            BY <3>2, <4>1, <4>2, <5>1
          <5>3. PICK src \in Sources(r, Schema, block) :
                   src.unknown /\ (change.action = "create" => src.kind = "cidr")
            BY <2>5, <5>2
          <5>4. PICK x \in BlockPerms(r, Schema, block) : x.src = src
            BY <2>4, <3>1
          <5>5. x \in NewPerms
            BY <2>3, <2>8, <3>5, <4>3, <4>5, <5>4 DEF Perms, root, block
          <5> QED
            BY <5>3, <5>4, <5>5
        <4> QED
          BY <4>4, <4>5
      <3> QED
        BY <3>4, <3>5
    <2> QED
      BY <2>7, <2>8
  <1> QED
    BY <1>1, SpecAnswered, PTL

-----------------------------------------------------------------------------
(* Traffic that is let in: from a value to its leaf, its source, its         *)
(* permission, and back on the other side of the change.                    *)

ValueOf(after) == IF after THEN change.after ELSE change.before

\* Whatever a reader reads stands in the value it reads from.
LEMMA ReadFromValue ==
    ASSUME NEW after \in BOOLEAN, NEW q, NEW x \in Read(Reader(change, after), q)
    PROVE  /\ q \in DOMAIN ValueOf(after) /\ x = ValueOf(after)[q]
           /\ Read(Reader(change, after), q) = {x}
  <1> DEFINE r == Reader(change, after)
  <1>1. r.change = change /\ r.after = after
    BY DEF Reader
  <1> HIDE DEF r
  <1>2. Read(r, q) \in {{}, RawBefore(change, q), RawAfter(change, q)}
    BY <1>1 DEF Read
  <1>3. Read(r, q) \subseteq Lookup(ValueOf(after), q)
    BY <1>1 DEF Read, RawBefore, RawAfter, ValueOf
  <1>4. x \in Lookup(ValueOf(after), q)
    BY <1>3 DEF r
  <1>5. q \in DOMAIN ValueOf(after) /\ Lookup(ValueOf(after), q) = {x}
    BY <1>4 DEF Lookup
  <1>6. x \in Read(r, q)
    BY DEF r
  <1> QED
    BY <1>3, <1>4, <1>5, <1>6 DEF Lookup, r

\* A scalar of either value is a leaf that its reader sees.
LEMMA ScalarHasLeaf ==
    ASSUME Answered, NEW after \in BOOLEAN, NEW q \in DOMAIN ValueOf(after),
           ValueOf(after)[q] \in Strings \cup Atoms
    PROVE  LET r == Reader(change, after)
           IN  /\ q \in Seq(Segments)
               /\ HasLeaf(r, q) /\ q \in DOMAIN r.diff /\ Present(r.diff[q], r.after)
               /\ after => ~Marked(change.afterUnknown, q)
  <1> DEFINE r == Reader(change, after)
             old == BeforeLeaves(change)
             new == AfterLeaves(change)
  <1>1. /\ IsChange(change)
        /\ IsValue(change.before) /\ IsValue(change.after)
        /\ IsMarker(change.afterUnknown)
        /\ IsMarker(change.beforeSensitive) /\ IsMarker(change.afterSensitive)
    BY CallIsChange, CallsAreChanges DEF IsPlanned, Answered
  <1>2. q \in Seq(Segments)
    BY <1>1 DEF ValueOf, IsValue, Tree
  <1>3. r.change = change /\ r.after = after /\ r.diff = Diff(change)
    BY DEF Reader
  <1>4. SensitiveValue # Absent
    BY DEF Absent, SensitiveValue
  <1>5. CASE after
    <2>1. change.after[q] # "null" /\ q \in DOMAIN change.after
      BY <1>5, ValuesAreDisjoint DEF ValueOf
    <2>2. ~Marked(change.afterUnknown, q)
      BY <2>1, CallsAreChanges DEF IsPlanned, Answered
    <2>3. q \in DOMAIN new
      BY <1>1, <1>5, <2>1, <2>2, ScalarsAreLeaves DEF ValueOf, AfterLeaves
    <2>4. q \in DOMAIN Diff(change)
      BY <2>3 DEF Diff
    <2>5. PICK hidden \in BOOLEAN : Diff(change)[q].after = Side(new, q, hidden)
      BY <1>1, <2>3, DiffFields
    <2>6. Render(new[q]) # Absent
      BY <1>1, <2>3, SideLeaves, RenderIsPresent
    <2>7. Diff(change)[q].after # Absent
      BY <1>4, <2>3, <2>5, <2>6 DEF Side, Hide
    <2> HIDE DEF r, new
    <2> QED
      BY <1>2, <1>3, <1>5, <2>2, <2>4, <2>7 DEF Present, HasLeaf, r
  <1>6. CASE ~after
    <2>1. q \in DOMAIN change.before /\ change.before[q] \in Strings \cup Atoms
      BY <1>6 DEF ValueOf
    <2>2. IsMarker(NoMarks) /\ ~Marked(NoMarks, q)
      BY <1>2, NoMarksIsMarker
    <2>3. q \in DOMAIN old
      BY <1>1, <2>1, <2>2, ScalarsAreLeaves DEF BeforeLeaves
    <2>4. q \in DOMAIN Diff(change)
      BY <2>3 DEF Diff
    <2>5. PICK hidden \in BOOLEAN : Diff(change)[q].before = Side(old, q, hidden)
      BY <1>1, <2>3, DiffFields
    <2>6. Render(old[q]) # Absent
      BY <1>1, <2>3, SideLeaves, RenderIsPresent
    <2>7. Diff(change)[q].before # Absent
      BY <1>4, <2>3, <2>5, <2>6 DEF Side, Hide
    <2> HIDE DEF r, old
    <2> QED
      BY <1>2, <1>3, <1>6, <2>4, <2>7 DEF Present, HasLeaf, r
  <1> QED
    BY <1>5, <1>6

Kinds == {"cidr", "group", "prefix list", "self"}

\* The fields of a kind of source, lists and others.
ListsOf(kind) ==
    CASE kind = "cidr" -> Schema.cidrLists
      [] kind = "group" -> Schema.groupLists
      [] kind = "prefix list" -> Schema.prefixLists
      [] kind = "self" -> {}
SinglesOf(kind) ==
    CASE kind = "cidr" -> Schema.cidrs
      [] kind = "group" -> Schema.groups
      [] kind = "prefix list" -> Schema.prefix
      [] kind = "self" -> Schema.self

\* Where value v keeps the sources of a kind of a block.
Place(v, block, kind, q) ==
    \/ \E f \in ListsOf(kind) : q \in Items(v, Append(block, KeyNamed[f]))
    \/ \E f \in SinglesOf(kind) : q = Append(block, KeyNamed[f])

\* What says something about a source of a kind, and the source it stands for.
Mentions(kind, x) ==
    IF kind = "self" THEN x \in Atoms \cap DOMAIN Boolean /\ Boolean[x]
    ELSE x \in Strings \ {EmptyString}
SourceFrom(kind, x) == IF kind = "self" THEN KnownSource("self") ELSE NewSource(kind, x)

\* A known source a value mentions is a typed one of its kind.
LEMMA MentionedSource ==
    ASSUME NEW kind \in Kinds, NEW x, Mentions(kind, x)
    PROVE  /\ IsSource(SourceFrom(kind, x)) /\ SourceFrom(kind, x).kind = kind
           /\ kind # "cidr" => ~SourceFrom(kind, x).unknown
           /\ kind = "cidr" => (SourceFrom(kind, x).unknown <=> x \notin DOMAIN Cidr)
  <1>1. CASE kind = "self"
    BY <1>1, SourceType DEF SourceFrom, KnownSource
  <1>2. CASE kind # "self"
    <2>1. x \in Strings \ {EmptyString} /\ SourceFrom(kind, x) = NewSource(kind, x)
      BY <1>2 DEF Mentions, SourceFrom
    <2>2. IsSource(NewSource(kind, x))
      BY <1>2, <2>1, SourceType DEF Kinds
    <2>3. NewSource(kind, x).kind = kind
      BY DEF NewSource, KnownSource, UnknownSource
    <2>4. NewSource(kind, x).unknown <=> kind = "cidr" /\ x \notin DOMAIN Cidr
      BY DEF NewSource, KnownSource, UnknownSource
    <2> QED
      BY <1>2, <2>1, <2>2, <2>3, <2>4
  <1> QED
    BY <1>1, <1>2

\* The hosts of an address block are those of its masked prefix.
LEMMA HostsOfCidr ==
    ASSUME NEW s \in DOMAIN Cidr
    PROVE  HostsOf(NewSource("cidr", s)) = HostsIn(Cidr[s])
  <1>1. Cidr[s] \in Prefixes
    BY NetworkIsTyped
  <1> DEFINE p == Cidr[s]
             m == Masked(p)
             src == NewSource("cidr", s)
  <1>2. src.prefix = m /\ ~src.unknown /\ src.kind = "cidr"
    BY DEF NewSource, KnownSource
  <1>3. HostsOf(src) = HostsIn(m)
    BY <1>2 DEF HostsOf
  <1>4. p.addr \in [1 .. Width(p.v4) -> {0, 1}] /\ p.bits \in 0 .. Width(p.v4) /\ Width(p.v4) \in Nat
    BY <1>1, PrefixType
  <1>5. PICK f \in BOOLEAN : p \in [v4 : {f}, addr : Address(f), bits : 0 .. Width(f)]
    BY <1>1 DEF Prefixes
  <1>6. m.v4 = p.v4 /\ m.bits = p.bits
          /\ m.addr = [n \in DOMAIN p.addr |-> IF n <= p.bits THEN p.addr[n] ELSE 0]
    BY <1>5 DEF Masked
  <1>7. \A n \in 1 .. p.bits : m.addr[n] = p.addr[n]
    BY <1>4, <1>6
  <1>8. \A a : InPrefix(a, m) <=> InPrefix(a, p)
    BY <1>6, <1>7 DEF InPrefix
  <1> HIDE DEF m, p
  <1>9. HostsIn(m) = HostsIn(p)
    BY <1>6, <1>8 DEF HostsIn
  <1> QED
    BY <1>3, <1>9 DEF p

\* The hosts a block of a value admits are those of the sources it mentions.
LEMMA AdmittedBySources ==
    ASSUME NEW v, NEW block, NEW h
    PROVE  h \in HostsAdmitted(v, block, Schema)
             <=> \E kind \in Kinds : \E q \in DOMAIN v :
                    /\ Place(v, block, kind, q) /\ Mentions(kind, v[q])
                    /\ h \in HostsOf(SourceFrom(kind, v[q]))
  <1> DEFINE cidrs == Elements(v, block, Schema.cidrLists) \cup Fields(v, block, Schema.cidrs)
             groups == Elements(v, block, Schema.groupLists) \cup Fields(v, block, Schema.groups)
             lists == Elements(v, block, Schema.prefixLists) \cup Fields(v, block, Schema.prefix)
             self == \E f \in Schema.self :
                       Field(v, block, f) \in DOMAIN Boolean \cap Atoms /\ Boolean[Field(v, block, f)]
             by(kind) == \E q \in DOMAIN v :
                           /\ Place(v, block, kind, q) /\ Mentions(kind, v[q])
                           /\ h \in HostsOf(SourceFrom(kind, v[q]))
  <1>1. h \in HostsAdmitted(v, block, Schema)
          <=> \/ \E s \in cidrs \cap DOMAIN Cidr : h \in HostsIn(Cidr[s])
              \/ h \in Members /\ h.kind = "group" /\ h.id \in groups \ {EmptyString}
              \/ h \in Members /\ h.kind = "prefix list" /\ h.id \in lists \ {EmptyString}
              \/ h \in Members /\ h.kind = "self" /\ self
    <2>1. \A p : HostsIn(p) \subseteq Hosts
      BY DEF HostsIn, Hosts
    <2>2. Members \subseteq Hosts
      BY DEF Hosts
    <2> QED
      BY <2>1, <2>2 DEF HostsAdmitted
  <1>2. "null" \notin Strings /\ \A p : Items(v, p) \subseteq DOMAIN v
    BY ValuesAreDisjoint DEF Items, Children
  <1>3. \A s : /\ s \in cidrs <=> \E q \in DOMAIN v : Place(v, block, "cidr", q) /\ s = v[q] /\ s \in Strings
               /\ s \in groups <=> \E q \in DOMAIN v : Place(v, block, "group", q) /\ s = v[q] /\ s \in Strings
               /\ s \in lists <=> \E q \in DOMAIN v : Place(v, block, "prefix list", q) /\ s = v[q] /\ s \in Strings
    <2>1. \A q :
            /\ Place(v, block, "cidr", q)
                 <=> \/ \E f \in Schema.cidrLists : q \in Items(v, Append(block, KeyNamed[f]))
                     \/ \E f \in Schema.cidrs : q = Append(block, KeyNamed[f])
            /\ Place(v, block, "group", q)
                 <=> \/ \E f \in Schema.groupLists : q \in Items(v, Append(block, KeyNamed[f]))
                     \/ \E f \in Schema.groups : q = Append(block, KeyNamed[f])
            /\ Place(v, block, "prefix list", q)
                 <=> \/ \E f \in Schema.prefixLists : q \in Items(v, Append(block, KeyNamed[f]))
                     \/ \E f \in Schema.prefix : q = Append(block, KeyNamed[f])
      BY DEF Place, ListsOf, SinglesOf
    <2> HIDE DEF Schema
    <2>2. ASSUME NEW s
          PROVE  s \in cidrs <=> \E q \in DOMAIN v :
                                Place(v, block, "cidr", q) /\ s = v[q] /\ s \in Strings
      <3>1. s \in cidrs
              <=> \E q \in DOMAIN v :
                    /\ \/ \E f \in Schema.cidrLists : q \in Items(v, Append(block, KeyNamed[f]))
                       \/ \E f \in Schema.cidrs : q = Append(block, KeyNamed[f])
                    /\ s = v[q] /\ s \in Strings
        BY <1>2 DEF Elements, Fields, Field, At
      <3> QED
        BY <2>1, <3>1
    <2>3. ASSUME NEW s
          PROVE  s \in groups <=> \E q \in DOMAIN v :
                                Place(v, block, "group", q) /\ s = v[q] /\ s \in Strings
      <3>1. s \in groups
              <=> \E q \in DOMAIN v :
                    /\ \/ \E f \in Schema.groupLists : q \in Items(v, Append(block, KeyNamed[f]))
                       \/ \E f \in Schema.groups : q = Append(block, KeyNamed[f])
                    /\ s = v[q] /\ s \in Strings
        BY <1>2 DEF Elements, Fields, Field, At
      <3> QED
        BY <2>1, <3>1
    <2>4. ASSUME NEW s
          PROVE  s \in lists <=> \E q \in DOMAIN v :
                                Place(v, block, "prefix list", q) /\ s = v[q] /\ s \in Strings
      <3>1. s \in lists
              <=> \E q \in DOMAIN v :
                    /\ \/ \E f \in Schema.prefixLists : q \in Items(v, Append(block, KeyNamed[f]))
                       \/ \E f \in Schema.prefix : q = Append(block, KeyNamed[f])
                    /\ s = v[q] /\ s \in Strings
        BY <1>2 DEF Elements, Fields, Field, At
      <3> QED
        BY <2>1, <3>1
    <2> QED
      BY <2>2, <2>3, <2>4
  <1>4. self <=> \E q \in DOMAIN v : Place(v, block, "self", q) /\ Mentions("self", v[q])
    <2>1. "null" \notin Atoms
      BY ValuesAreDisjoint
    <2>2. \A f : LET q == Append(block, KeyNamed[f])
                 IN  Field(v, block, f) = IF q \in DOMAIN v THEN v[q] ELSE "null"
      BY DEF Field, At
    <2>3. \A q : Place(v, block, "self", q) <=> \E f \in Schema.self : q = Append(block, KeyNamed[f])
      BY DEF Place, ListsOf, SinglesOf
    <2>4. \A x : Mentions("self", x) <=> x \in Atoms \cap DOMAIN Boolean /\ Boolean[x]
      BY DEF Mentions
    <2> QED
      BY <2>1, <2>2, <2>3, <2>4
  <1> HIDE DEF cidrs, groups, lists, self
  <1>5. (\E s \in cidrs \cap DOMAIN Cidr : h \in HostsIn(Cidr[s])) <=> by("cidr")
    <2>1. \A s \in DOMAIN Cidr : s \in Strings \ {EmptyString}
      BY NetworkIsTyped
    <2>2. \A x : Mentions("cidr", x) <=> x \in Strings \ {EmptyString}
      BY DEF Mentions
    <2>3. \A x : SourceFrom("cidr", x) = NewSource("cidr", x)
      BY DEF SourceFrom
    <2>4. \A s \in DOMAIN Cidr : HostsOf(NewSource("cidr", s)) = HostsIn(Cidr[s])
      BY HostsOfCidr
    <2>5. \A s : s \notin DOMAIN Cidr => HostsOf(NewSource("cidr", s)) = {}
      BY DEF HostsOf, NewSource, UnknownSource, KnownSource
    <2>6. \A x : Mentions("cidr", x) /\ h \in HostsOf(SourceFrom("cidr", x))
                   <=> x \in DOMAIN Cidr /\ h \in HostsIn(Cidr[x])
      BY <2>1, <2>2, <2>3, <2>4, <2>5
    <2>7. \A s \in DOMAIN Cidr : s \in cidrs <=> \E q \in DOMAIN v : Place(v, block, "cidr", q) /\ s = v[q]
      BY <1>3, <2>1
    <2> QED
      BY <2>6, <2>7
  <1>6. ASSUME NEW kind \in {"group", "prefix list"}, NEW x \in Strings \ {EmptyString}
        PROVE  h \in HostsOf(SourceFrom(kind, x)) <=> h \in Members /\ h.kind = kind /\ h.id = x
    BY DEF HostsOf, SourceFrom, NewSource, KnownSource
  <1>7. \A kind \in {"group", "prefix list"} : \A x : Mentions(kind, x) <=> x \in Strings \ {EmptyString}
    BY DEF Mentions
  <1>8. (h \in Members /\ h.kind = "group" /\ h.id \in groups \ {EmptyString}) <=> by("group")
    BY <1>3, <1>6, <1>7
  <1>9. (h \in Members /\ h.kind = "prefix list" /\ h.id \in lists \ {EmptyString}) <=> by("prefix list")
    BY <1>3, <1>6, <1>7
  <1>10. (h \in Members /\ h.kind = "self" /\ self) <=> by("self")
    <2>1. \A x : SourceFrom("self", x) = KnownSource("self")
      BY DEF SourceFrom
    <2>2. HostsOf(KnownSource("self")) = {m \in Members : m.kind = "self" /\ m.id = NoName}
      BY DEF HostsOf, KnownSource
    <2>3. \A m \in Members : m.kind = "self" => m.id = NoName
      BY DEF Members
    <2> QED
      BY <1>4, <2>1, <2>2, <2>3
  <1> QED
    BY <1>1, <1>5, <1>8, <1>9, <1>10 DEF Kinds

\* A list that stands in a value and an element of it.
LEMMA ElementOfList ==
    ASSUME NEW v, IsValue(v), NEW at, NEW q \in Items(v, at)
    PROVE  /\ q \in DOMAIN v /\ q \in Seq(Segments) /\ Len(q) \in 1 .. Len(q)
           /\ at \in DOMAIN v /\ v[at] = "list"
           /\ q[Len(q)].index /\ Upto(q, Len(q) - 1) = at /\ q = Append(at, q[Len(q)])
  <1>1. q \in DOMAIN v /\ Len(q) = Len(at) + 1 /\ Covers(at, q) /\ At(v, at) = "list"
    BY DEF Items, Children
  <1>2. at \in DOMAIN v /\ v[at] = "list"
    BY <1>1 DEF At
  <1>3. at \in Seq(Segments) /\ q \in Seq(Segments)
    BY <1>1, <1>2 DEF IsValue, Tree
  <1>4. Len(at) \in Nat /\ Len(q) \in Nat
    BY <1>3, LenProperties
  <1>5. Len(at) < Len(q) /\ Len(q) - 1 = Len(at) /\ Len(q) \in 1 .. Len(q)
    BY <1>1, <1>4
  <1>6. Upto(q, Len(q) - 1) = at
    BY <1>1, <1>5 DEF Covers
  <1>7. q[Len(at) + 1].index <=> v[at] = "list"
    BY <1>1, <1>3, <1>5, AboveIsContainer DEF IsValue
  <1>8. Upto(q, Len(q)) = Append(Upto(q, Len(q) - 1), q[Len(q)])
    BY <1>3, <1>5, NextPrefix
  <1>9. Upto(q, Len(q)) = q
    BY <1>3, <1>4, PrefixOfPrefix
  <1> QED
    BY <1>1, <1>2, <1>3, <1>5, <1>6, <1>7, <1>8, <1>9

\* A path with one more segment.
LEMMA LongerPath ==
    ASSUME NEW p \in Seq(Segments), NEW s \in Segments
    PROVE  LET q == Append(p, s)
           IN  /\ q \in Seq(Segments) /\ Len(q) = Len(p) + 1 /\ Len(p) \in Nat
               /\ q[Len(q)] = s /\ Upto(q, Len(p)) = p /\ Covers(p, q)
  <1> DEFINE q == Append(p, s)
             n == Len(q)
  <1>1. q \in Seq(Segments) /\ n = Len(p) + 1 /\ Len(p) \in Nat /\ q[n] = s
    OBVIOUS
  <1>2. n \in 1 .. n /\ n - 1 = Len(p) /\ n \in Nat /\ n - 1 \in 0 .. n
    BY <1>1
  <1> HIDE DEF q
  <1>3. Upto(q, n) = Append(Upto(q, n - 1), q[n]) /\ Upto(q, n) = q /\ Upto(q, n - 1) \in Seq(Segments)
    BY <1>1, <1>2, NextPrefix, PrefixOfPrefix
  <1>4. Append(Upto(q, n - 1), s) = Append(p, s)
    BY <1>1, <1>3 DEF q
  <1> HIDE DEF n
  <1>5. \A a, b \in Seq(Segments) : Append(a, s) = Append(b, s) => a = b
    <2> SUFFICES ASSUME NEW a \in Seq(Segments), NEW b \in Seq(Segments), Append(a, s) = Append(b, s)
                 PROVE  a = b
      OBVIOUS
    <2>1. Len(a) = Len(b) /\ \A m \in 1 .. Len(a) : Append(a, s)[m] = a[m] /\ Append(b, s)[m] = b[m]
      OBVIOUS
    <2> QED
      BY <2>1, SeqEqual
  <1>6. Upto(q, n - 1) = p
    BY <1>3, <1>4, <1>5
  <1> QED
    BY <1>1, <1>2, <1>6 DEF Covers, n, q

\* A source the new value mentions is one the reader makes out, if need be as
\* an unknown one.
LEMMA MentionedIsSource ==
    ASSUME Answered, NEW block, NEW kind \in Kinds, NEW q \in DOMAIN change.after,
           Place(change.after, block, kind, q), Mentions(kind, change.after[q])
    PROVE  \E src \in Sources(Reader(change, TRUE), Schema, block) :
              /\ src.kind = kind
              /\ src.unknown \/ src = SourceFrom(kind, change.after[q])
  <1> DEFINE r == Reader(change, TRUE)
             x == change.after[q]
  <1>1. IsValue(change.after) /\ x \in Strings \cup Atoms /\ change.after = ValueOf(TRUE)
    BY CallsAreChanges DEF IsPlanned, Answered, Mentions, ValueOf
  <1>2. q \in Seq(Segments) /\ HasLeaf(r, q) /\ q \in DOMAIN r.diff /\ Present(r.diff[q], r.after)
    BY <1>1, ScalarHasLeaf
  <1>3. Read(r, q) \in {{}, {x}}
    <2>1. \A y \in Read(r, q) : y = ValueOf(TRUE)[q] /\ Read(r, q) = {y}
      BY ReadFromValue
    <2>2. ValueOf(TRUE)[q] = x
      BY <1>1
    <2> HIDE DEF r, x
    <2> QED
      BY <2>1, <2>2
  <1>4. UnknownSource(kind).kind = kind /\ UnknownSource(kind).unknown
    BY DEF UnknownSource, KnownSource
  <1>5. SourceFrom(kind, x).kind = kind
    BY MentionedSource
  <1> HIDE DEF r, x
  <1>6. CASE kind = "self"
    <2>1. PICK f \in Schema.self : q = Append(block, KeyNamed[f])
      BY <1>6 DEF Place, ListsOf, SinglesOf
    <2>2. CASE Read(r, q) = {}
      <3>1. UnknownSource("self") \in SelfSources(r, q)
        BY <1>2, <2>2 DEF SelfSources, Unreadable
      <3>2. UnknownSource("self") \in Sources(r, Schema, block)
        BY <2>1, <3>1 DEF Sources
      <3> QED
        BY <1>4, <1>6, <3>2 DEF r, x
    <2>3. CASE Read(r, q) = {x}
      <3>1. x \in Atoms \cap DOMAIN Boolean /\ Boolean[x]
        BY <1>6 DEF Mentions, x
      <3>2. KnownSource("self") \in SelfSources(r, q)
        BY <2>3, <3>1 DEF SelfSources
      <3>3. KnownSource("self") \in Sources(r, Schema, block)
        BY <2>1, <3>2 DEF Sources
      <3> QED
        BY <1>5, <1>6, <3>3 DEF SourceFrom, r, x
    <2> QED
      BY <1>3, <2>2, <2>3
  <1>7. CASE kind # "self"
    <2>1. x \in Strings \ {EmptyString}
      BY <1>7 DEF Mentions, x
    <2>2. \E src \in ScalarSources(r, q, kind) :
             src.kind = kind /\ (src.unknown \/ src = SourceFrom(kind, x))
      <3>1. CASE Read(r, q) = {}
        <4>1. UnknownSource(kind) \in ScalarSources(r, q, kind)
          BY <1>2, <3>1 DEF ScalarSources, Unreadable
        <4> QED
          BY <1>4, <4>1
      <3>2. CASE Read(r, q) = {x}
        <4>1. NewSource(kind, x) \in ScalarSources(r, q, kind)
          BY <2>1, <3>2 DEF ScalarSources
        <4>2. NewSource(kind, x) = SourceFrom(kind, x)
          BY <1>7 DEF SourceFrom
        <4> QED
          BY <1>5, <4>1, <4>2
      <3> QED
        BY <1>3, <3>1, <3>2
    <2>3. ASSUME NEW f \in ListsOf(kind), q \in Items(change.after, Append(block, KeyNamed[f]))
          PROVE  \E src \in ListSources(r, Append(block, KeyNamed[f]), kind) :
                    src.kind = kind /\ (src.unknown \/ src = SourceFrom(kind, x))
      <3> DEFINE at == Append(block, KeyNamed[f])
      <3> HIDE DEF at
      <3>4. q \in Items(change.after, at)
        BY <2>3 DEF at
      <3>1. q[Len(q)].index /\ Upto(q, Len(q) - 1) = at /\ q = Append(at, q[Len(q)])
              /\ Len(q) \in 1 .. Len(q)
        <4>1. IsValue(change.after)
          BY <1>1
        <4> QED
          BY <3>4, <4>1, ElementOfList
      <3>2. CASE IsUnknown(r, at)
        <4>1. UnknownSource(kind) \in ListSources(r, at, kind)
          BY <3>2 DEF ListSources
        <4> QED
          BY <1>4, <4>1 DEF at
      <3>3. CASE ~IsUnknown(r, at)
        <4>1. q[Len(q)] \in Indices(r, at)
          BY <1>2, <3>1, IndexOnPath
        <4>2. ScalarSources(r, q, kind) \subseteq ListSources(r, at, kind)
          BY <3>1, <3>3, <4>1 DEF ListSources
        <4> QED
          BY <2>2, <4>2 DEF at
      <3> QED
        BY <3>2, <3>3
    <2>4. \A f \in ListsOf(kind) :
             ListSources(r, Append(block, KeyNamed[f]), kind) \subseteq Sources(r, Schema, block)
      BY <1>7 DEF Sources, ListsOf, Kinds
    <2>5. \A f \in SinglesOf(kind) :
             ScalarSources(r, Append(block, KeyNamed[f]), kind) \subseteq Sources(r, Schema, block)
      BY <1>7 DEF Sources, SinglesOf, Kinds
    <2> QED
      BY <2>2, <2>3, <2>4, <2>5 DEF Place, r, x
  <1> QED
    BY <1>6, <1>7

\* The fields of a source have keys.
LEMMA FieldIsKey ==
    ASSUME change.type \in DOMAIN Schemas, NEW kind \in Kinds,
           NEW f \in ListsOf(kind) \cup SinglesOf(kind)
    PROVE  KeyNamed[f] \in Segments /\ ~KeyNamed[f].index
  <1>1. f \in FieldsOf(Schema)
    BY DEF FieldsOf, ListsOf, SinglesOf, Kinds
  <1>2. f \in DOMAIN KeyNamed
    BY <1>1, FieldsAreNamed DEF Schema
  <1>3. KeyNamed[f] \in Segments
    BY <1>2, KeyType
  <1>4. ~KeyNamed[f].index
    BY <1>2 DEF KeyNamed, Key
  <1> QED
    BY <1>3, <1>4

\* And a known source of the old side is one the old value mentions.
LEMMA SourceIsMentioned ==
    ASSUME Answered, change.type \in DOMAIN Schemas, NEW block \in Seq(Segments),
           NEW src \in Sources(Reader(change, FALSE), Schema, block), ~src.unknown
    PROVE  \E kind \in Kinds : \E q \in DOMAIN change.before :
              /\ Place(change.before, block, kind, q) /\ Mentions(kind, change.before[q])
              /\ src = SourceFrom(kind, change.before[q])
  <1> DEFINE r == Reader(change, FALSE)
  <1>1. IsValue(change.before) /\ change.before = ValueOf(FALSE) /\ r.after = FALSE
    BY CallsAreChanges DEF IsPlanned, Answered, ValueOf, Reader
  <1>2. \A q : \A x \in Read(r, q) : q \in DOMAIN change.before /\ x = change.before[q]
    BY <1>1, ReadFromValue
  <1> HIDE DEF r
  <1>3. \A kind : UnknownSource(kind).unknown
    BY DEF UnknownSource, KnownSource
  <1>4. ASSUME NEW kind \in Kinds \ {"self"}, NEW q, src \in ScalarSources(r, q, kind)
        PROVE  /\ q \in DOMAIN change.before /\ Mentions(kind, change.before[q])
               /\ src = SourceFrom(kind, change.before[q])
    <2>1. PICK x \in Read(r, q) \cap (Strings \ {EmptyString}) : src = NewSource(kind, x)
      BY <1>3, <1>4 DEF ScalarSources
    <2> QED
      BY <1>2, <2>1 DEF Mentions, SourceFrom
  <1>5. ASSUME NEW kind \in Kinds \ {"self"}, NEW f \in ListsOf(kind),
               src \in ListSources(r, Append(block, KeyNamed[f]), kind)
        PROVE  \E q \in DOMAIN change.before :
                  /\ Place(change.before, block, kind, q) /\ Mentions(kind, change.before[q])
                  /\ src = SourceFrom(kind, change.before[q])
    <2> DEFINE at == Append(block, KeyNamed[f])
    <2> HIDE DEF at
    <2>1. ~IsUnknown(r, at)
      BY <1>1 DEF IsUnknown
    <2>2. PICK i \in Indices(r, at) : src \in ScalarSources(r, Append(at, i), kind)
      BY <1>5, <2>1 DEF ListSources, at
    <2>3. Append(at, i) \in DOMAIN change.before /\ Mentions(kind, change.before[Append(at, i)])
            /\ src = SourceFrom(kind, change.before[Append(at, i)])
      BY <1>4, <2>2
    <2>4. Append(at, i) \in Items(change.before, at)
      <3> DEFINE q == Append(at, i)
      <3>1. i \in Segments /\ i.index
        BY <2>2 DEF Indices
      <3>2. at \in Seq(Segments)
        <4>1. KeyNamed[f] \in Segments
          BY FieldIsKey
        <4> QED
          BY <4>1 DEF at
      <3>3. q \in Seq(Segments) /\ Len(q) = Len(at) + 1 /\ q[Len(q)] = i /\ Len(at) \in Nat
              /\ Covers(at, q)
        BY <3>1, <3>2, LongerPath
      <3>4. q \in DOMAIN change.before
        BY <2>3
      <3> HIDE DEF q
      <3>5. /\ at \in DOMAIN change.before
            /\ q[Len(at) + 1].index <=> change.before[at] = "list"
        <4>1. Tree(change.before, Strings \cup Atoms \cup Containers \cup {"null"})
          BY <1>1 DEF IsValue
        <4>2. Len(at) < Len(q)
          BY <3>3
        <4> QED
          BY <3>2, <3>3, <3>4, <4>1, <4>2, AboveIsContainer
      <3>6. At(change.before, at) = "list"
        BY <3>1, <3>3, <3>5 DEF At
      <3> QED
        BY <3>3, <3>4, <3>6 DEF Items, Children, q
    <2> QED
      BY <2>3, <2>4 DEF Place, at
  <1>6. ASSUME NEW q, src \in SelfSources(r, q)
        PROVE  /\ q \in DOMAIN change.before /\ Mentions("self", change.before[q])
               /\ src = SourceFrom("self", change.before[q])
    <2>1. PICK x \in Read(r, q) \cap Atoms \cap DOMAIN Boolean : Boolean[x] /\ src = KnownSource("self")
      BY <1>3, <1>6 DEF SelfSources
    <2> QED
      BY <1>2, <2>1 DEF Mentions, SourceFrom
  <1>7. \/ \E kind \in Kinds \ {"self"} : \E f \in ListsOf(kind) :
              src \in ListSources(r, Append(block, KeyNamed[f]), kind)
        \/ \E kind \in Kinds \ {"self"} : \E f \in SinglesOf(kind) :
              src \in ScalarSources(r, Append(block, KeyNamed[f]), kind)
        \/ \E f \in SinglesOf("self") : src \in SelfSources(r, Append(block, KeyNamed[f]))
    BY DEF Sources, ListsOf, SinglesOf, Kinds, r
  <1>8. CASE \E kind \in Kinds \ {"self"} : \E f \in ListsOf(kind) :
                src \in ListSources(r, Append(block, KeyNamed[f]), kind)
    BY <1>5, <1>8
  <1>9. CASE \E kind \in Kinds \ {"self"} : \E f \in SinglesOf(kind) :
                src \in ScalarSources(r, Append(block, KeyNamed[f]), kind)
    BY <1>4, <1>9 DEF Place
  <1>10. CASE \E f \in SinglesOf("self") : src \in SelfSources(r, Append(block, KeyNamed[f]))
    BY <1>6, <1>10 DEF Place, Kinds
  <1> QED
    BY <1>7, <1>8, <1>9, <1>10

-----------------------------------------------------------------------------
(* Messages: those of a permission against those of the block it is for.    *)

\* The messages of a permission: ports say nothing about ICMP.
PermMessages(p) ==
    {m \in Messages :
        \/ p.proto = "all"
        \/ /\ m.proto = p.proto
           /\ m.proto \notin Icmp => p.from <= m.at[1] /\ m.at[1] <= p.to}

ProtoOf(r, block) == ProtocolAt(r, Append(block, KeyNamed[Schema.proto]))
FromOf(r, block) == PortAt(r, Append(block, KeyNamed[Schema.from]), 0)
ToOf(r, block) == PortAt(r, Append(block, KeyNamed[Schema.to]), MaxPort)
RangeOf(r, block) == PortRange(ProtoOf(r, block), FromOf(r, block), ToOf(r, block))
PermOf(r, block, src) == Permission(block, ProtoOf(r, block), RangeOf(r, block), src)

\* What a message is made of.
LEMMA MessageType ==
    ASSUME NEW m \in Messages
    PROVE  /\ m.proto \in Protocols /\ m.proto # "all"
           /\ m.at[1] \in Nat /\ m.at[1] <= MaxPort
           /\ m.proto \notin Icmp => m.at[2] = m.at[1]
  <1>0. MaxPort \in Nat
    BY NetworkIsTyped
  <1>1. CASE m \in [proto : Protocols \cap Icmp, at : (0 .. MaxPort) \X (0 .. MaxPort)]
    <2>1. m.proto \in Protocols \cap Icmp /\ m.at \in (0 .. MaxPort) \X (0 .. MaxPort)
      BY <1>1
    <2>2. m.at[1] \in 0 .. MaxPort
      BY <2>1
    <2> QED
      BY <1>0, <2>1, <2>2 DEF Protocols
  <1>2. CASE m \in [proto : Protocols \ Icmp, at : {<<n, n>> : n \in 0 .. MaxPort}]
    <2>1. m.proto \in Protocols /\ m.at \in {<<n, n>> : n \in 0 .. MaxPort}
      BY <1>2
    <2>2. PICK n \in 0 .. MaxPort : m.at = <<n, n>>
      BY <2>1
    <2> QED
      BY <1>0, <2>1, <2>2 DEF Protocols
  <1> QED
    BY <1>1, <1>2 DEF Messages

\* A port is the number that stands in the value, or the end of the range.
LEMMA PortOfValue ==
    ASSUME NEW after \in BOOLEAN, NEW path, NEW end \in {0, MaxPort}
    PROVE  LET port == PortAt(Reader(change, after), path, end)
               x == At(ValueOf(after), path)
           IN  /\ port \in Nat /\ port <= MaxPort
               /\ port = end \/ (Given(x) /\ port = Number[x])
               /\ Given(x) /\ Read(Reader(change, after), path) # {} => port = Number[x]
  <1> DEFINE r == Reader(change, after)
             x == At(ValueOf(after), path)
             ports == {Number[y] : y \in Read(r, path) \cap DOMAIN Number} \cap Nat
  <1>1. MaxPort \in Nat /\ \A y \in DOMAIN Number : Number[y] \in Int /\ Number[y] <= MaxPort
    BY NetworkIsTyped, ConversionsAreTyped
  <1>2. \A y \in Read(r, path) : y = x /\ Read(r, path) = {x}
    BY ReadFromValue DEF At
  <1>3. PortAt(r, path, end) = IF ports = {} THEN end ELSE CHOOSE n \in ports : TRUE
    BY DEF PortAt
  <1> HIDE DEF x, r
  <1>4. \A n \in ports : Given(x) /\ n = Number[x] /\ n \in Nat /\ n <= MaxPort
    BY <1>1, <1>2 DEF Given
  <1>5. Given(x) /\ Read(r, path) # {} => Number[x] \in ports
    BY <1>1, <1>2 DEF Given
  <1> HIDE DEF ports
  <1>6. ports # {} => PortAt(r, path, end) \in ports
    BY <1>3
  <1> QED
    BY <1>1, <1>3, <1>4, <1>5, <1>6 DEF x, r

\* The protocol of a permission is that of the value, or any.
LEMMA ProtocolOfValue ==
    ASSUME NEW after \in BOOLEAN, NEW path
    PROVE  LET r == Reader(change, after)
           IN  \/ Read(r, path) = {} /\ ProtocolAt(r, path) = "all"
               \/ /\ Read(r, path) # {} /\ path \in DOMAIN ValueOf(after)
                  /\ ProtocolAt(r, path) = Protocol[ValueOf(after)[path]]
  <1> DEFINE r == Reader(change, after)
             x == ValueOf(after)[path]
  <1>1. CASE Read(r, path) = {}
    BY <1>1 DEF ProtocolAt
  <1>2. CASE Read(r, path) # {}
    <2>1. path \in DOMAIN ValueOf(after) /\ Read(r, path) = {x}
      BY <1>2, ReadFromValue
    <2>2. (CHOOSE y \in {x} : TRUE) = x
      OBVIOUS
    <2> HIDE DEF x, r
    <2>3. ProtocolAt(r, path) = Protocol[x]
      BY <2>1, <2>2 DEF ProtocolAt
    <2> QED
      BY <1>2, <2>1, <2>3 DEF x, r
  <1> QED
    BY <1>1, <1>2

\* Every schema has a protocol and ports.
LEMMA RangesHaveNames ==
    \A type \in DOMAIN Schemas :
        /\ Schemas[type].proto # NoName
        /\ Schemas[type].from # NoName /\ Schemas[type].to # NoName
  <1> DEFINE named(schema) == schema.proto # NoName /\ schema.from # NoName /\ schema.to # NoName
  <1>1. named(Schemas["aws_security_group"])
    BY DEF Schemas, NoSchema, NoName
  <1>2. named(Schemas["aws_security_group_rule"])
    BY DEF Schemas, NoSchema, NoName
  <1>3. named(Schemas["aws_vpc_security_group_ingress_rule"])
    BY DEF Schemas, NoSchema, NoName
  <1>4. DOMAIN Schemas =
          {"aws_security_group", "aws_security_group_rule", "aws_vpc_security_group_ingress_rule"}
    BY DEF Schemas
  <1> QED
    BY <1>1, <1>2, <1>3, <1>4

\* Every message a new block is for is one of its permission.
LEMMA NewMessages ==
    ASSUME Answered, change.type \in DOMAIN Schemas,
           NEW block \in Blocks(change.after, Schema), At(change.after, block) = "map",
           NEW m \in MessagesOf(change.after, block, Schema), NEW src
    PROVE  m \in PermMessages(PermOf(Reader(change, TRUE), block, src))
  <1> DEFINE r == Reader(change, TRUE)
             path == Append(block, KeyNamed[Schema.proto])
             proto == ProtoOf(r, block)
             from == FromOf(r, block)
             to == ToOf(r, block)
             p == PermOf(r, block, src)
  <1>1. m \in Messages /\ MaxPort \in Nat
    BY NetworkIsTyped DEF MessagesOf
  <1>2. p.proto = proto /\ p.from = RangeOf(r, block)[1] /\ p.to = RangeOf(r, block)[2]
    BY DEF PermOf, Permission
  <1>3. change.after = ValueOf(TRUE) /\ TRUE \in BOOLEAN
    BY DEF ValueOf
  <1>4. CASE Read(r, path) = {}
    BY <1>1, <1>2, <1>4 DEF ProtoOf, ProtocolAt, PermMessages
  <1>5. CASE Read(r, path) # {}
    <2> DEFINE x == change.after[path]
    <2>1. path \in DOMAIN change.after /\ proto = Protocol[x]
      BY <1>3, <1>5, ProtocolOfValue DEF ProtoOf
    <2>2. x # "null"
      <3>1. SUFFICES ASSUME x = "null" PROVE FALSE
        OBVIOUS
      <3>2. Lookup(change.after, path) = {"null"}
        BY <2>1, <3>1 DEF Lookup
      <3>3. Marked(change.afterUnknown, path)
        BY <3>2, RequiredFieldsAreGiven DEF GivesRequired, Answered, Schema
      <3>4. Read(r, path) = {}
        BY <3>3 DEF Read, RawAfter, Reader
      <3> QED
        BY <1>5, <3>4
    <2>3. Field(change.after, block, Schema.proto) = x
      BY <2>1 DEF Field, At
    <2>4. CASE proto = "all"
      BY <1>1, <1>2, <2>4 DEF PermMessages
    <2>5. CASE proto # "all"
      <3>1. m.proto = proto /\ Within(change.after, block, Schema, m)
        BY <2>1, <2>2, <2>3, <2>5 DEF MessagesOf
      <3>2. ASSUME m.proto \notin Icmp
            PROVE  RangeOf(r, block)[1] <= m.at[1] /\ m.at[1] <= RangeOf(r, block)[2]
        <4>1. /\ from \in Nat /\ from <= MaxPort
              /\ from = 0 \/ (Given(Field(change.after, block, Schema.from))
                                /\ from = Number[Field(change.after, block, Schema.from)])
          BY <1>3, PortOfValue DEF FromOf, Field
        <4>2. /\ to \in Nat /\ to <= MaxPort
              /\ to = MaxPort \/ (Given(Field(change.after, block, Schema.to))
                                    /\ to = Number[Field(change.after, block, Schema.to)])
          BY <1>3, PortOfValue DEF ToOf, Field
        <4>3. m.at[1] \in Nat /\ m.at[1] <= MaxPort /\ m.at[2] = m.at[1]
          BY <1>1, <3>2, MessageType
        <4>4. /\ Given(Field(change.after, block, Schema.from))
                   => Number[Field(change.after, block, Schema.from)] <= m.at[1]
              /\ Given(Field(change.after, block, Schema.to))
                   => m.at[2] <= Number[Field(change.after, block, Schema.to)]
          BY <3>1, <3>2 DEF Within
        <4>5. RangeOf(r, block) \in {<<0, MaxPort>>, <<from, to>>}
          BY DEF RangeOf, PortRange
        <4> HIDE DEF from, to, r
        <4>6. from <= m.at[1]
          BY <4>1, <4>3, <4>4
        <4>7. m.at[1] <= to
          BY <4>2, <4>3, <4>4
        <4>8. CASE RangeOf(r, block) = <<0, MaxPort>>
          BY <4>3, <4>8
        <4>9. CASE RangeOf(r, block) = <<from, to>>
          BY <4>6, <4>7, <4>9
        <4> QED
          BY <4>5, <4>8, <4>9
      <3> QED
        BY <1>1, <1>2, <3>1, <3>2 DEF PermMessages
    <2> QED
      BY <2>4, <2>5
  <1> QED
    BY <1>4, <1>5

\* Every message of the permission of a plain old block is one the block is for.
LEMMA OldMessages ==
    ASSUME Answered, change.type \in DOMAIN Schemas, NEW block, IsPlain(block), NEW src,
           NEW m \in PermMessages(PermOf(Reader(change, FALSE), block, src))
    PROVE  m \in MessagesOf(change.before, block, Schema)
  <1> DEFINE r == Reader(change, FALSE)
             path == Append(block, KeyNamed[Schema.proto])
             x == Field(change.before, block, Schema.proto)
             xFrom == Field(change.before, block, Schema.from)
             xTo == Field(change.before, block, Schema.to)
             proto == ProtoOf(r, block)
             from == FromOf(r, block)
             to == ToOf(r, block)
             p == PermOf(r, block, src)
  <1>1. m \in Messages /\ MaxPort \in Nat
    BY NetworkIsTyped DEF PermMessages
  <1>2. p.proto = proto /\ p.from = RangeOf(r, block)[1] /\ p.to = RangeOf(r, block)[2]
    BY DEF PermOf, Permission
  <1>3. change.before = ValueOf(FALSE) /\ FALSE \in BOOLEAN /\ IsValue(change.before)
    BY CallsAreChanges DEF IsPlanned, ValueOf, Answered
  <1>4. Schema.proto # NoName /\ Schema.from # NoName /\ Schema.to # NoName
    BY RangesHaveNames DEF Schema
  <1>5. ASSUME NEW name \in {Schema.proto, Schema.from, Schema.to},
               Field(change.before, block, name) \in Strings \cup Atoms
        PROVE  Read(r, Append(block, KeyNamed[name])) # {}
    <2> DEFINE q == Append(block, KeyNamed[name])
    <2>1. ~TouchesSensitive(change, q)
      BY <1>4 DEF IsPlain, PlainRule
    <2>2. "null" \notin Strings \cup Atoms
      BY ValuesAreDisjoint
    <2>3. q \in DOMAIN change.before /\ change.before[q] \in Strings \cup Atoms
      BY <1>5, <2>2 DEF Field, At
    <2>4. HasLeaf(r, q)
      BY <1>3, <2>3, ScalarHasLeaf
    <2>5. Read(r, q) = Lookup(change.before, q)
      BY <2>1, <2>4 DEF Read, RawBefore, Reader
    <2> QED
      BY <2>3, <2>5 DEF Lookup
  <1>6. CASE x = "null" \/ Protocol[x] = "all"
    BY <1>1, <1>6 DEF MessagesOf
  <1>7. CASE x # "null" /\ Protocol[x] # "all"
    <2>1. x \notin Containers
      BY DEF IsPlain, PlainRule
    <2>2. x \in Strings \cup Atoms
      <3>1. x \in Strings \cup Atoms \cup Containers \cup {"null"}
        BY <1>3, <1>7 DEF Field, At, IsValue, Tree
      <3> QED
        BY <1>7, <2>1, <3>1
    <2>3. Read(r, path) # {}
      BY <1>5, <2>2
    <2>4. proto = Protocol[x]
      BY <1>3, <2>3, ProtocolOfValue DEF ProtoOf, Field, At
    <2>5. m.proto = Protocol[x] /\ (m.proto \notin Icmp => p.from <= m.at[1] /\ m.at[1] <= p.to)
      BY <1>2, <1>7, <2>4 DEF PermMessages
    <2>6. CASE m.proto \in Icmp
      <3>1. ~Given(xFrom) /\ ~Given(xTo)
        BY <2>5, <2>6 DEF IsPlain, PlainRule
      <3>2. Within(change.before, block, Schema, m)
        BY <2>6, <3>1 DEF Within
      <3> QED
        BY <1>1, <2>5, <3>2 DEF MessagesOf
    <2>7. CASE m.proto \notin Icmp
      <3>1. \A y : Given(y) => y \in Strings \cup Atoms /\ Number[y] \in Int
        BY ConversionsAreTyped DEF Given
      <3>2. /\ from \in Nat /\ from <= MaxPort
            /\ from = IF Given(xFrom) THEN Number[xFrom] ELSE 0
        <4>1. Given(xFrom) => Read(r, Append(block, KeyNamed[Schema.from])) # {}
          BY <1>5, <3>1
        <4> QED
          BY <1>3, <4>1, PortOfValue DEF FromOf, Field
      <3>3. /\ to \in Nat /\ to <= MaxPort
            /\ to = IF Given(xTo) THEN Number[xTo] ELSE MaxPort
        <4>1. Given(xTo) => Read(r, Append(block, KeyNamed[Schema.to])) # {}
          BY <1>5, <3>1
        <4> QED
          BY <1>3, <4>1, PortOfValue DEF ToOf, Field
      <3>4. Given(xFrom) /\ Given(xTo) => Number[xFrom] <= Number[xTo]
        BY <1>7 DEF IsPlain, PlainRule
      <3>5. from <= to
        <4> HIDE DEF from, to, xFrom, xTo
        <4> QED
          BY <1>1, <3>2, <3>3, <3>4
      <3>6. RangeOf(r, block) = <<from, to>>
        <4>1. ~(from > to)
          <5> HIDE DEF from, to
          <5> QED
            BY <3>2, <3>3, <3>5
        <4> QED
          BY <1>7, <2>4, <4>1 DEF RangeOf, PortRange
      <3>7. from <= m.at[1] /\ m.at[1] <= to
        <4>1. p.from = from /\ p.to = to
          <5> HIDE DEF from, to, p, r
          <5> QED
            BY <1>2, <3>6
        <4> QED
          BY <2>5, <2>7, <4>1
      <3>8. m.at[2] = m.at[1]
        BY <1>1, <2>7, MessageType
      <3>9. Within(change.before, block, Schema, m)
        BY <2>7, <3>2, <3>3, <3>7, <3>8 DEF Within
      <3> QED
        BY <1>1, <2>5, <3>9 DEF MessagesOf
    <2> QED
      BY <2>6, <2>7
  <1> QED
    BY <1>6, <1>7

\* A permission that covers the ports of another is for all of its messages.
LEMMA CoveredMessages ==
    ASSUME NEW b, IsPerm(b), NEW p, IsPerm(p), CoversPorts(b, p), NEW m \in PermMessages(p)
    PROVE  m \in PermMessages(b)
  <1>1. m \in Messages /\ m.at[1] \in Nat
    BY MessageType DEF PermMessages
  <1>2. /\ b.from \in Nat /\ b.to \in Nat /\ p.from \in Nat /\ p.to \in Nat
    BY DEF IsPerm
  <1>3. CASE b.proto = "all"
    BY <1>1, <1>3 DEF PermMessages
  <1>4. CASE b.proto # "all"
    <2>1. b.proto = p.proto /\ b.from <= p.from /\ p.to <= b.to
      BY <1>4 DEF CoversPorts
    <2>2. m.proto = p.proto /\ (m.proto \notin Icmp => p.from <= m.at[1] /\ m.at[1] <= p.to)
      BY <1>4, <2>1 DEF PermMessages
    <2> QED
      BY <1>1, <1>2, <2>1, <2>2 DEF PermMessages
  <1> QED
    BY <1>3, <1>4

-----------------------------------------------------------------------------
(* Blocks: where a source is, there is its block and its permission.        *)

\* A path where a source of a block may be lies below the block.
LEMMA PlaceIsBelow ==
    ASSUME change.type \in DOMAIN Schemas, NEW v, IsValue(v), NEW block \in Seq(Segments),
           NEW kind \in Kinds, NEW q \in DOMAIN v, Place(v, block, kind, q)
    PROVE  /\ Len(block) \in Nat /\ Len(block) < Len(q) /\ Len(q) \in Nat /\ Covers(block, q)
           /\ block \in DOMAIN v /\ v[block] = "map"
  <1>1. q \in Seq(Segments) /\ Tree(v, Strings \cup Atoms \cup Containers \cup {"null"})
    BY DEF IsValue, Tree
  <1>2. PICK f \in ListsOf(kind) \cup SinglesOf(kind) :
          LET at == Append(block, KeyNamed[f]) IN q = at \/ q \in Items(v, at)
    BY DEF Place
  <1> DEFINE at == Append(block, KeyNamed[f])
  <1>3. KeyNamed[f] \in Segments /\ ~KeyNamed[f].index
    BY FieldIsKey
  <1>4. /\ at \in Seq(Segments) /\ Len(at) = Len(block) + 1 /\ Len(block) \in Nat
        /\ at[Len(at)] = KeyNamed[f] /\ Covers(block, at) /\ Upto(at, Len(block)) = block
    BY <1>3, LongerPath
  <1> HIDE DEF at
  <1>5. at \in DOMAIN v
    BY <1>2, ElementOfList DEF at
  <1>6. block \in DOMAIN v /\ v[block] \in Containers /\ (at[Len(block) + 1].index <=> v[block] = "list")
    BY <1>1, <1>4, <1>5, AboveIsContainer
  <1>7. v[block] = "map"
    BY <1>3, <1>4, <1>6 DEF Containers
  <1>8. Len(block) < Len(q) /\ Len(q) \in Nat /\ Covers(block, q)
    <2>1. CASE q = at
      BY <1>4, <2>1
    <2>2. CASE q \in Items(v, at)
      <3>1. Len(q) = Len(at) + 1 /\ Covers(at, q)
        BY <2>2 DEF Items, Children
      <3>2. Len(q) \in Nat /\ Len(at) \in 0 .. Len(q) /\ Len(block) \in 0 .. Len(at)
        BY <1>4, <3>1
      <3>3. Upto(Upto(q, Len(at)), Len(block)) = Upto(q, Len(block))
        BY <1>1, <3>2, PrefixOfPrefix
      <3>4. Upto(q, Len(at)) = at
        BY <3>1 DEF Covers
      <3> QED
        BY <1>4, <3>1, <3>2, <3>3, <3>4 DEF Covers
    <2> QED
      BY <1>2, <2>1, <2>2 DEF at
  <1> QED
    BY <1>4, <1>6, <1>7, <1>8

\* What is unknown right below a root that is a map is a leaf.
LEMMA UnknownAttributeIsLeaf ==
    ASSUME Answered, NEW k \in Segments, ~k.index, Marked(change.afterUnknown, <<k>>),
           change.after[<< >>] = "map", ~Flagged(change.afterUnknown, << >>)
    PROVE  <<k>> \in DOMAIN AfterLeaves(change) /\ AfterLeaves(change)[<<k>>].unknown
  <1> DEFINE v == change.after
             unk == change.afterUnknown
             p == <<k>>
  <1>1. IsValue(v) /\ IsMarker(unk) /\ IsMarker(change.afterSensitive)
    BY CallsAreChanges DEF IsPlanned, Answered
  <1>2. << >> \in DOMAIN v /\ << >> \in DOMAIN unk
    BY <1>1 DEF IsValue, IsMarker, Tree
  <1>3. /\ p \in Seq(Segments) /\ Len(p) = 1 /\ Upto(p, 0) = << >> /\ Upto(p, 1) = p /\ p[1] = k
        /\ Covers(<< >>, p) /\ Len(<< >>) = 0 /\ << >> \in Seq(Segments)
    <2>1. p = Append(<< >>, k) /\ << >> \in Seq(Segments) /\ Len(<< >>) = 0
      OBVIOUS
    <2>2. p \in Seq(Segments) /\ Len(p) = 1 /\ p[1] = k
      OBVIOUS
    <2> HIDE DEF p
    <2>3. Covers(<< >>, p) /\ Upto(p, 0) = << >>
      BY <2>1, LongerPath
    <2>4. Len(p) \in Nat /\ Len(p) \in 0 .. Len(p)
      BY <2>2
    <2>5. Upto(p, Len(p)) = p
      BY <2>2, <2>4, PrefixOfPrefix
    <2> QED
      BY <2>1, <2>2, <2>3, <2>4, <2>5
  <1> HIDE DEF p, v, unk
  <1>4. PICK n \in 0 .. 1 : StopsAt(unk, p, n) /\ unk[Upto(p, n)] = "true"
    BY <1>3 DEF Marked, p, unk
  <1>5. n # 0
    <2>1. n = 0 => Flagged(unk, << >>)
      <3> SUFFICES ASSUME unk[<< >>] = "true" PROVE Flagged(unk, << >>)
        BY <1>3, <1>4
      <3>1. Upto(<< >>, 0) = << >>
        BY <1>3, NextPrefix
      <3>2. << >> \in Descend(unk, << >>)
        BY <1>2, <1>3, <3>1 DEF Descend, Flags
      <3> QED
        BY <3>2 DEF Flagged
    <2> QED
      BY <2>1 DEF unk
  <1>6. p \in DOMAIN unk /\ unk[p] = "true"
    BY <1>3, <1>4, <1>5 DEF StopsAt
  <1>7. unk[<< >>] = "map"
    <2>1. /\ unk[<< >>] \in Containers /\ (p[0 + 1].index <=> unk[<< >>] = "list")
      BY <1>1, <1>3, <1>6 DEF IsMarker, Tree
    <2> QED
      BY <1>3, <2>1 DEF Containers
  <1>8. p \in Below(v, unk, << >>)
    <2>1. p \in Children(unk, << >>)
      BY <1>3, <1>6 DEF Children
    <2>2. At(v, << >>) = "map" /\ At(unk, << >>) = "map"
      BY <1>2, <1>7 DEF At, v
    <2> QED
      BY <2>1, <2>2 DEF Below, unk
  <1>9. p \in Visited(v, unk)
    <2>1. \A m \in 1 .. Len(p) : Upto(p, m) = p /\ Upto(p, m - 1) = << >>
      BY <1>3
    <2> QED
      BY <1>6, <1>8, <2>1 DEF Visited
  <1>10. Flagged(unk, p)
    BY <1>1, <1>3, MarkedIsFlagged DEF p, unk
  <1>11. IsLeaf(v, unk, p)
    BY <1>10 DEF IsLeaf, Below
  <1>12. p \in DOMAIN AfterLeaves(change) /\ AfterLeaves(change)[p] = Leaf(v, unk, change.afterSensitive, p)
    BY <1>9, <1>11 DEF AfterLeaves, Flatten, v, unk
  <1> QED
    BY <1>10, <1>12 DEF Leaf, p

\* A rule that is ingress, or not known to be none, is read as ingress.
LEMMA NewRuleIsIngress ==
    ASSUME Answered, change.type \in DOMAIN Schemas, Schema.type # NoName,
           IsIngress(change.after, << >>, Schema), change.after[<< >>] = "map",
           ~Flagged(change.afterUnknown, << >>), << >> \in Blocks(change.after, Schema)
    PROVE  ~IsEgress(Reader(change, TRUE), Append(<< >>, KeyNamed[Schema.type]))
  <1> DEFINE r == Reader(change, TRUE)
             k == KeyNamed[Schema.type]
             p == Append(<< >>, k)
  <1>1. k \in Segments /\ ~k.index
    <2>1. Schema.type \in FieldsOf(Schema)
      BY DEF FieldsOf
    <2>2. Schema.type \in DOMAIN KeyNamed
      BY <2>1, FieldsAreNamed DEF Schema
    <2> QED
      BY <2>2, KeyType DEF KeyNamed, Key
  <1>2. p = <<k>>
    OBVIOUS
  <1>3. IsValue(change.after) /\ << >> \in DOMAIN change.after
    BY CallsAreChanges DEF IsPlanned, Answered, IsValue, Tree
  <1>4. Field(change.after, << >>, Schema.type) \in {"ingress", "null"}
    BY DEF IsIngress
  <1>5. CASE Field(change.after, << >>, Schema.type) = "null"
    <2>1. Marked(change.afterUnknown, p)
      <3>1. At(change.after, << >>) = "map"
        BY <1>3 DEF At
      <3> QED
        BY <1>5, <3>1, RequiredFieldsAreGiven DEF GivesRequired, Answered, Schema
    <2>2. p \in DOMAIN AfterLeaves(change) /\ AfterLeaves(change)[p].unknown
      BY <1>1, <1>2, <2>1, UnknownAttributeIsLeaf
    <2>3. Unreadable(r, p)
      BY <2>2, UnknownLeaf
    <2> QED
      BY <2>3 DEF IsEgress, Unreadable
  <1>6. CASE Field(change.after, << >>, Schema.type) = "ingress"
    <2>1. p \in DOMAIN change.after /\ change.after[p] = "ingress"
      BY <1>6 DEF Field, At
    <2>2. change.after[p] \in Strings \cup Atoms
      BY <1>3, <2>1 DEF IsValue, Tree, Containers
    <2>3. HasLeaf(r, p)
      BY <2>1, <2>2, ScalarHasLeaf DEF ValueOf
    <2>4. \A x \in Read(r, p) : x = "ingress"
      BY <2>1, ReadFromValue DEF ValueOf
    <2> QED
      BY <2>3, <2>4 DEF IsEgress
  <1> QED
    BY <1>4, <1>5, <1>6

\* A source of a new ingress block has its permission, unless the block is
\* found to be unknown.
LEMMA NewPermission ==
    ASSUME Answered, change.type \in DOMAIN Schemas,
           NEW block \in Blocks(change.after, Schema), IsIngress(change.after, block, Schema),
           NEW kind \in Kinds, NEW q \in DOMAIN change.after,
           Place(change.after, block, kind, q), Mentions(kind, change.after[q]),
           NEW src \in Sources(Reader(change, TRUE), Schema, block)
    PROVE  /\ At(change.after, block) = "map"
           /\ \/ \E p \in NewPerms : p.src.unknown /\ p.src.kind = "cidr"
              \/ PermOf(Reader(change, TRUE), block, src) \in NewPerms
  <1> DEFINE r == Reader(change, TRUE)
             v == change.after
  <1>1. IsValue(v) /\ v[q] \in Strings \cup Atoms /\ v = ValueOf(TRUE) /\ IsMarker(change.afterUnknown)
    BY CallsAreChanges DEF IsPlanned, Answered, Mentions, ValueOf
  <1>2. /\ q \in Seq(Segments) /\ q \in DOMAIN r.diff /\ Present(r.diff[q], r.after)
        /\ ~Marked(change.afterUnknown, q)
    BY <1>1, ScalarHasLeaf
  <1>3. Upto(q, 0) = << >> /\ 0 \in 0 .. Len(q)
    BY <1>2, NextPrefix, LenProperties
  <1>4. ~Flagged(change.afterUnknown, << >>)
    BY <1>1, <1>2, <1>3, FlaggedPrefixIsMarked
  <1>5. NewPerms = Perms(r, Schema)
    BY DEF NewPerms
  <1> HIDE DEF r
  <1>6. (Schema.type # NoName => ~IsEgress(r, Append(block, KeyNamed[Schema.type])))
          => PermOf(r, block, src) \in BlockPerms(r, Schema, block)
    <2> HIDE DEF Schema
    <2> QED
      BY DEF BlockPerms, PermOf, RangeOf, ProtoOf, FromOf, ToOf, r
  <1>7. CASE Schema.blocks = NoName
    <2>1. block = << >> /\ << >> \in Seq(Segments)
      BY <1>7 DEF Blocks
    <2>2. v[<< >>] = "map" /\ << >> \in DOMAIN v
      BY <1>1, <2>1, PlaceIsBelow
    <2>3. Schema.type # NoName => ~IsEgress(r, Append(block, KeyNamed[Schema.type]))
      BY <1>4, <2>1, <2>2, NewRuleIsIngress DEF r
    <2>4. PermOf(r, block, src) \in NewPerms
      BY <1>5, <1>6, <1>7, <2>1, <2>3 DEF Perms
    <2> QED
      BY <2>1, <2>2, <2>4 DEF At, r
  <1>8. CASE Schema.blocks # NoName
    <2> DEFINE root == <<KeyNamed[Schema.blocks]>>
               i == block[Len(block)]
    <2>1. block \in Items(v, root)
      BY <1>8 DEF Blocks
    <2> HIDE DEF root
    <2>2. /\ block \in Seq(Segments) /\ i.index /\ Len(block) \in 1 .. Len(block)
          /\ Upto(block, Len(block) - 1) = root /\ block = Append(root, i)
      <3>1. IsValue(v)
        BY <1>1
      <3> HIDE DEF v
      <3> QED
        BY <2>1, <3>1, ElementOfList
    <2> HIDE DEF i
    <2>3. v[block] = "map" /\ block \in DOMAIN v /\ Covers(block, q) /\ Len(block) < Len(q)
            /\ Len(q) \in Nat /\ Len(block) \in Nat
      BY <1>1, <2>2, PlaceIsBelow
    <2>4. Schema.type = NoName
      BY <1>8, BlocksHaveNoType DEF Schema
    <2>5. i \in Indices(r, root)
      <3> DEFINE n == Len(block)
      <3>1. n \in 1 .. Len(q) /\ n \in 0 .. Len(q) /\ n - 1 \in 0 .. n /\ Upto(q, n) = block /\ n \in 1 .. n
        BY <2>2, <2>3 DEF Covers
      <3>2. Upto(q, n) = Append(Upto(q, n - 1), q[n]) /\ Upto(q, n - 1) \in Seq(Segments) /\ q[n] \in Segments
        BY <1>2, <3>1, NextPrefix
      <3>3. Upto(q, n - 1) = root
        <4>1. Upto(Upto(q, n), n - 1) = Upto(q, n - 1)
          BY <1>2, <3>1, PrefixOfPrefix
        <4> QED
          BY <2>2, <3>1, <4>1
      <3>4. q[n] = i
        <4>1. block[Len(block)] = q[n]
          BY <3>1, <3>2, LongerPath
        <4> QED
          BY <4>1 DEF i
      <3> HIDE DEF n
      <3> QED
        BY <1>2, <2>2, <3>1, <3>3, <3>4, IndexOnPath
    <2>6. CASE IsUnknown(r, root)
      <3>1. UnknownPerm(root) \in NewPerms
        BY <1>5, <1>8, <2>6 DEF Perms, root
      <3>2. UnknownPerm(root).src.unknown /\ UnknownPerm(root).src.kind = "cidr"
        BY DEF UnknownPerm, Permission, UnknownSource, KnownSource
      <3> QED
        BY <2>3, <3>1, <3>2 DEF At
    <2>7. CASE ~IsUnknown(r, root) /\ IsUnknown(r, block)
      <3>1. UnknownPerm(block) \in NewPerms
        BY <1>5, <1>8, <2>2, <2>5, <2>7 DEF Perms, root
      <3>2. UnknownPerm(block).src.unknown /\ UnknownPerm(block).src.kind = "cidr"
        BY DEF UnknownPerm, Permission, UnknownSource, KnownSource
      <3> QED
        BY <2>3, <3>1, <3>2 DEF At
    <2>8. CASE ~IsUnknown(r, root) /\ ~IsUnknown(r, block)
      <3>1. BlockPerms(r, Schema, block) \subseteq NewPerms
        BY <1>5, <1>8, <2>2, <2>5, <2>8 DEF Perms, root
      <3> QED
        BY <1>6, <2>3, <2>4, <3>1 DEF At, r
    <2> QED
      BY <2>6, <2>7, <2>8
  <1> QED
    BY <1>7, <1>8

\* An old permission with a known source is that of a block that lets traffic in.
LEMMA OldBlock ==
    ASSUME Answered, change.type \in DOMAIN Schemas,
           \A block \in Blocks(change.before, Schema) : IsPlain(block),
           NEW b \in OldPerms, ~b.src.unknown
    PROVE  \E block \in Blocks(change.before, Schema) \cap Seq(Segments) :
             /\ IsIngress(change.before, block, Schema)
             /\ \E src \in Sources(Reader(change, FALSE), Schema, block) :
                   b = PermOf(Reader(change, FALSE), block, src)
  <1> DEFINE r == Reader(change, FALSE)
             v == change.before
  <1>1. IsValue(v) /\ OldPerms = Perms(r, Schema) /\ \A p : ~IsUnknown(r, p)
    BY CallsAreChanges DEF IsPlanned, Answered, OldPerms, Reader, IsUnknown
  <1>2. ASSUME NEW block, b \in BlockPerms(r, Schema, block)
        PROVE  /\ \E src \in Sources(r, Schema, block) : b = PermOf(r, block, src)
               /\ Schema.type # NoName => ~IsEgress(r, Append(block, KeyNamed[Schema.type]))
    <2> HIDE DEF Schema, r
    <2> QED
      BY <1>2 DEF BlockPerms, PermOf, RangeOf, ProtoOf, FromOf, ToOf
  <1>3. \A block, src : PermOf(r, block, src).src = src
    BY DEF PermOf, Permission
  <1>4. CASE Schema.blocks = NoName
    <2> DEFINE p == Append(<< >>, KeyNamed[Schema.type])
    <2>1. b \in BlockPerms(r, Schema, << >>)
      BY <1>1, <1>4 DEF Perms
    <2>2. << >> \in Blocks(v, Schema) \cap Seq(Segments) /\ IsPlain(<< >>)
      BY <1>4 DEF Blocks
    <2>3. Schema.type # NoName => Field(v, << >>, Schema.type) \in {"ingress", "null"}
      <3> SUFFICES ASSUME Schema.type # NoName PROVE At(v, p) \in {"ingress", "null"}
        BY DEF Field
      <3>1. HasLeaf(r, p) /\ Read(r, p) \subseteq {"ingress"}
        BY <1>2, <2>1 DEF IsEgress
      <3>2. ~TouchesSensitive(change, p)
        BY <2>2 DEF IsPlain, PlainRule
      <3>3. Read(r, p) = Lookup(v, p)
        BY <3>1, <3>2 DEF Read, RawBefore, Reader
      <3> QED
        BY <3>1, <3>3 DEF Lookup, At
    <2> QED
      BY <1>2, <2>1, <2>2, <2>3 DEF IsIngress
  <1>5. CASE Schema.blocks # NoName
    <2> DEFINE root == <<KeyNamed[Schema.blocks]>>
    <2>1. PICK i \in Indices(r, root) : b \in BlockPerms(r, Schema, Append(root, i))
      BY <1>1, <1>5 DEF Perms
    <2>2. root \in Seq(Segments)
      <3>1. Schema.blocks \in FieldsOf(Schema)
        BY <1>5 DEF FieldsOf
      <3>2. KeyNamed[Schema.blocks] \in Segments
        BY <3>1, FieldsAreNamed, KeyType DEF Schema
      <3> QED
        BY <3>2
    <2> DEFINE block == Append(root, i)
    <2>3. i \in Segments /\ i.index
      BY <2>1 DEF Indices
    <2>4. PICK src \in Sources(r, Schema, block) : b = PermOf(r, block, src)
      BY <1>2, <2>1
    <2>5. ~src.unknown
      BY <1>3, <2>4
    <2> HIDE DEF root
    <2>6. /\ block \in Seq(Segments) /\ Len(block) = Len(root) + 1 /\ Len(root) \in Nat
          /\ block[Len(block)] = i /\ Covers(root, block)
      BY <2>2, <2>3, LongerPath
    <2> HIDE DEF block
    <2>7. PICK kind \in Kinds : \E q \in DOMAIN v : Place(v, block, kind, q)
      BY <2>4, <2>5, <2>6, SourceIsMentioned
    <2>8. block \in DOMAIN v
      BY <1>1, <2>6, <2>7, PlaceIsBelow
    <2>9. root \in DOMAIN v /\ v[root] = "list"
      <3>1. Tree(v, Strings \cup Atoms \cup Containers \cup {"null"})
        BY <1>1 DEF IsValue
      <3>2. Len(root) < Len(block)
        BY <2>6
      <3>3. root \in DOMAIN v /\ (block[Len(root) + 1].index <=> v[root] = "list")
        BY <2>2, <2>6, <2>8, <3>1, <3>2, AboveIsContainer
      <3> QED
        BY <2>3, <2>6, <3>3
    <2>10. block \in Blocks(v, Schema)
      <3>1. At(v, root) = "list"
        BY <2>9 DEF At
      <3>2. block \in Items(v, root)
        BY <2>6, <2>8, <3>1 DEF Items, Children
      <3> QED
        BY <1>5, <3>2 DEF Blocks, root
    <2>11. IsIngress(v, block, Schema)
      BY <1>5, BlocksHaveNoType DEF Schema, IsIngress
    <2> QED
      BY <2>4, <2>6, <2>10, <2>11
  <1> QED
    BY <1>4, <1>5

\* What a block of the new value lets in has its permission, with the source
\* that is mentioned, or something unknown is found.
LEMMA LetIn ==
    ASSUME Answered, Widens({"create", "update", "replace"}), found = {},
           NEW block \in Blocks(change.after, Schema), IsIngress(change.after, block, Schema),
           NEW m \in MessagesOf(change.after, block, Schema),
           NEW h \in HostsAdmitted(change.after, block, Schema)
    PROVE  \E kind \in Kinds : \E x :
             LET known == SourceFrom(kind, x)
             IN  /\ Mentions(kind, x) /\ h \in HostsOf(known)
                 /\ \/ change.action = "create" /\ kind # "cidr"
                    \/ /\ ~known.unknown
                       /\ PermOf(Reader(change, TRUE), block, known) \in NewPerms
                       /\ m \in PermMessages(PermOf(Reader(change, TRUE), block, known))
  <1> DEFINE r == Reader(change, TRUE)
             v == change.after
  <1>1. change.type \in DOMAIN Schemas
    BY DEF Widens
  <1>2. PICK kind \in Kinds : \E q \in DOMAIN v :
           /\ Place(v, block, kind, q) /\ Mentions(kind, v[q])
           /\ h \in HostsOf(SourceFrom(kind, v[q]))
    BY AdmittedBySources
  <1>3. PICK q \in DOMAIN v :
           /\ Place(v, block, kind, q) /\ Mentions(kind, v[q])
           /\ h \in HostsOf(SourceFrom(kind, v[q]))
    BY <1>2
  <1> DEFINE known == SourceFrom(kind, v[q])
  <1>4. PICK src \in Sources(r, Schema, block) : src.kind = kind /\ (src.unknown \/ src = known)
    BY <1>3, MentionedIsSource
  <1>5. ASSUME NEW p \in NewPerms, p.src.unknown PROVE change.action = "create" /\ p.src.kind # "cidr"
    BY <1>5, UnknownSourceIsFound
  <1>6. At(v, block) = "map" /\ PermOf(r, block, src) \in NewPerms
    BY <1>1, <1>3, <1>5, NewPermission
  <1>7. PermOf(r, block, src).src = src
    BY DEF PermOf, Permission
  <1>8. CASE src.unknown
    BY <1>3, <1>4, <1>5, <1>6, <1>7, <1>8
  <1>9. CASE ~src.unknown
    <2>1. src = known
      BY <1>4, <1>9
    <2>2. m \in PermMessages(PermOf(r, block, known))
      BY <1>1, <1>6, NewMessages
    <2> QED
      BY <1>3, <1>6, <1>9, <2>1, <2>2
  <1> QED
    BY <1>8, <1>9

\* What a call answers misses nothing that is newly let in.
LEMMA IngressOfAnswer == Answered => NoIngressIsMissed
  <1>1. ASSUME Answered, Widens({"update", "replace"}), found = {},
               \A block \in Blocks(change.before, Schema) : IsPlain(block),
               NEW block \in Blocks(change.after, Schema), IsIngress(change.after, block, Schema),
               NEW m \in MessagesOf(change.after, block, Schema),
               NEW h \in HostsAdmitted(change.after, block, Schema)
        PROVE  <<m, h>> \in TrafficIn(change.before, Schema)
    <2> DEFINE r == Reader(change, TRUE)
               old == Reader(change, FALSE)
    <2>1. change.type \in DOMAIN Schemas /\ change.action \in {"update", "replace"}
            /\ Widens({"create", "update", "replace"}) /\ change \in Calls
      BY <1>1 DEF Widens, Answered
    <2>2. PICK kind \in Kinds : \E x :
             LET known == SourceFrom(kind, x)
             IN  /\ Mentions(kind, x) /\ h \in HostsOf(known)
                 /\ \/ change.action = "create" /\ kind # "cidr"
                    \/ /\ ~known.unknown /\ PermOf(r, block, known) \in NewPerms
                       /\ m \in PermMessages(PermOf(r, block, known))
      BY <1>1, <2>1, LetIn
    <2>3. PICK x : LET known == SourceFrom(kind, x)
                   IN  /\ Mentions(kind, x) /\ h \in HostsOf(known) /\ ~known.unknown
                       /\ PermOf(r, block, known) \in NewPerms
                       /\ m \in PermMessages(PermOf(r, block, known))
      BY <2>1, <2>2
    <2> DEFINE known == SourceFrom(kind, x)
               p == PermOf(r, block, known)
    <2>4. IsSource(known) /\ p.src = known
      BY <2>3, MentionedSource DEF PermOf, Permission
    <2>5. /\ found = {y \in NewPerms : ~CoveredBy(y, OldPerms)}
          /\ NewPerms = Perms(r, Schema) /\ OldPerms = Perms(old, Schema)
      BY <1>1, <2>1 DEF Answered, Answer, NoName, Widens, WidensNetworkAccess, NewPerms, OldPerms, Schema
    <2> HIDE DEF p, known, r, old
    <2>6. PICK b \in OldPerms : CoversPorts(b, p) /\ SourceCovers(b.src, p.src)
      BY <1>1, <2>3, <2>5 DEF CoveredBy, CoversPorts, p, known
    <2>7. IsPerm(b) /\ IsPerm(p)
      BY <2>1, <2>3, <2>5, <2>6, PermsType DEF r, old, p, known
    <2>8. h \in HostsOf(b.src) /\ ~b.src.unknown
      BY <2>3, <2>4, <2>6, <2>7, SourceCoversIsExact DEF IsPerm, SourceCovers, known
    <2>9. m \in PermMessages(b)
      BY <2>3, <2>6, <2>7, CoveredMessages DEF p, known
    <2>10. PICK place \in Blocks(change.before, Schema) \cap Seq(Segments) :
             /\ IsIngress(change.before, place, Schema)
             /\ \E src \in Sources(old, Schema, place) : b = PermOf(old, place, src)
      BY <1>1, <2>1, <2>6, <2>8, OldBlock DEF old
    <2>11. PICK src \in Sources(old, Schema, place) : b = PermOf(old, place, src)
      BY <2>10
    <2>12. b.src = src
      BY <2>11 DEF PermOf, Permission
    <2>13. h \in HostsAdmitted(change.before, place, Schema)
      <3>1. \E k \in Kinds : \E q \in DOMAIN change.before :
               /\ Place(change.before, place, k, q) /\ Mentions(k, change.before[q])
               /\ src = SourceFrom(k, change.before[q])
        BY <1>1, <2>1, <2>8, <2>10, <2>11, <2>12, SourceIsMentioned DEF old
      <3> QED
        BY <2>8, <2>12, <3>1, AdmittedBySources
    <2>14. m \in MessagesOf(change.before, place, Schema)
      BY <1>1, <2>1, <2>9, <2>10, <2>11, OldMessages DEF old
    <2> QED
      BY <2>10, <2>13, <2>14 DEF TrafficIn
  <1>2. ASSUME Answered, Widens({"create"}), found = {},
               NEW block \in Blocks(change.after, Schema), IsIngress(change.after, block, Schema),
               NEW m \in MessagesOf(change.after, block, Schema),
               NEW h \in HostsAdmitted(change.after, block, Schema), h \in IPs
        PROVE  ~IsPublic(h)
    <2> DEFINE r == Reader(change, TRUE)
    <2>1. change.type \in DOMAIN Schemas /\ change.action = "create"
            /\ Widens({"create", "update", "replace"})
      BY <1>2 DEF Widens
    <2>2. PICK kind \in Kinds : \E x :
             LET known == SourceFrom(kind, x)
             IN  /\ Mentions(kind, x) /\ h \in HostsOf(known)
                 /\ \/ change.action = "create" /\ kind # "cidr"
                    \/ /\ ~known.unknown /\ PermOf(r, block, known) \in NewPerms
                       /\ m \in PermMessages(PermOf(r, block, known))
      BY <1>2, <2>1, LetIn
    <2>3. PICK x : LET known == SourceFrom(kind, x)
                   IN  /\ Mentions(kind, x) /\ h \in HostsOf(known)
                       /\ \/ kind # "cidr"
                          \/ ~known.unknown /\ PermOf(r, block, known) \in NewPerms
      BY <2>2
    <2> DEFINE known == SourceFrom(kind, x)
               p == PermOf(r, block, known)
    <2>4. IsSource(known) /\ known.kind = kind /\ p.src = known
            /\ (kind # "cidr" => ~known.unknown)
      BY <2>3, MentionedSource DEF PermOf, Permission
    <2> HIDE DEF known, p, r
    <2>5. kind = "cidr"
      BY <1>2, <2>3, <2>4, MemberOf, AddressesAreNoMembers DEF known
    <2>6. ~known.unknown /\ p \in NewPerms
      BY <2>3, <2>5 DEF known, p
    <2>7. ~Public(known)
      <3>1. found = {y \in NewPerms : Public(y.src)}
        BY <1>2, <2>1 DEF Answered, Answer, NoName, Widens, WidensNetworkAccess, NewPerms, Schema
      <3> QED
        BY <1>2, <2>4, <2>6, <3>1
    <2>8. PICK range \in PrivateRanges : PrefixContains(range, known.prefix)
      BY <2>4, <2>5, <2>6, <2>7 DEF Public
    <2>9. range \in Prefixes /\ known.prefix \in Prefixes /\ h \in Addresses(known.prefix)
      BY <1>2, <2>3, <2>4, <2>5, <2>6, NetworkIsTyped, HostsOfPrefix DEF known
    <2>10. InPrefix(h, range)
      BY <2>8, <2>9, PrefixContainsIsExact DEF Addresses
    <2> QED
      BY <2>8, <2>10 DEF IsPublic
  <1>3. Answered => NoIngressIsMissed
    <2> SUFFICES ASSUME Answered PROVE NoIngressIsMissed
      OBVIOUS
    <2>1. ASSUME Widens({"update", "replace"}), found = {},
                 \A b \in Blocks(change.before, Schema) : IsPlain(b)
          PROVE  AllIsAdmittedBefore
      <3> SUFFICES ASSUME NEW t \in TrafficIn(change.after, Schema)
                   PROVE  t \in TrafficIn(change.before, Schema)
        BY DEF AllIsAdmittedBefore
      <3>1. PICK block \in Blocks(change.after, Schema) :
               /\ IsIngress(change.after, block, Schema)
               /\ t \in MessagesOf(change.after, block, Schema)
                        \X HostsAdmitted(change.after, block, Schema)
        BY DEF TrafficIn
      <3>2. PICK m \in MessagesOf(change.after, block, Schema),
                 h \in HostsAdmitted(change.after, block, Schema) : t = <<m, h>>
        BY <3>1
      <3> QED
        BY <1>1, <2>1, <3>1, <3>2
    <2>2. ASSUME Widens({"create"}), found = {}, NEW t \in TrafficIn(change.after, Schema), t[2] \in IPs
          PROVE  ~IsPublic(t[2])
      <3>1. PICK block \in Blocks(change.after, Schema) :
               /\ IsIngress(change.after, block, Schema)
               /\ t \in MessagesOf(change.after, block, Schema)
                        \X HostsAdmitted(change.after, block, Schema)
        BY DEF TrafficIn
      <3>2. t[1] \in MessagesOf(change.after, block, Schema)
              /\ t[2] \in HostsAdmitted(change.after, block, Schema)
        BY <3>1
      <3> QED
        BY <1>2, <2>2, <3>1, <3>2
    <2> QED
      BY <2>1, <2>2 DEF NoIngressIsMissed
  <1> QED
    BY <1>3

\* When nothing is found, whatever an updated resource lets in it let in
\* before, and what a new one lets in from an address is private.
THEOREM NoIngressMissed == Spec => []NoIngressIsMissed
  BY IngressOfAnswer, SpecAnswered, PTL

-----------------------------------------------------------------------------
(* What has to be found. *)

\* A readable value of the change relates so to what stands there after it.
Turned(Relates(_, _, _)) ==
    \E p \in DOMAIN change.before :
        Readable(p) /\ Relates(p, change.before[p], At(change.after, p))

EncryptionIsLost(p, x, y) ==
    \/ LastKey(p) \in EncryptionFlags /\ TurnsOff(x, y)
    \/ /\ LastKey(p) \in KmsKeys
       /\ GoesToAws(x, y) \/ (LosesKey(x, y) /\ At(change.after, << >>) # "null")

ProtectionIsLost(p, x, y) ==
    \/ LastKey(p) \in DeletionProtection /\ TurnsOff(x, y)
    \/ LastKey(p) \in {"force_destroy"} /\ TurnsOn(x, y)

RetentionIsLost(p, x, y) ==
    \/ LastKey(p) \in Retention /\ GetsLess(x, y)
    \/ LastKey(p) \in SkippedBackups /\ TurnsOn(x, y)
    \/ LastKey(p) = "enabled" /\ IsRecovery(p) /\ TurnsOff(x, y)

SecretIsWritten ==
    \E p \in DOMAIN change.after :
        /\ change.after[p] \in Strings \cup Atoms
        /\ Marked(change.afterSensitive, p)
        /\ change.action = "replace" \/ change.after[p] # At(change.before, p)

\* The values of the change oblige the predicate to find something.
Due ==
    \/ called = "disables_encryption" /\ Turned(EncryptionIsLost)
    \/ called = "removes_deletion_protection" /\ Turned(ProtectionIsLost)
    \/ called = "reduces_backup_retention" /\ Turned(RetentionIsLost)
    \/ /\ called = "changes_sensitive_attribute" /\ change.mode # "data"
       /\ change.action \in {"update", "replace"} /\ SecretIsWritten
    \/ /\ Widens({"update", "replace"})
       /\ \A block \in Blocks(change.before, Schema) : IsPlain(block)
       /\ ~AllIsAdmittedBefore
    \/ /\ Widens({"create"})
       /\ \E t \in TrafficIn(change.after, Schema) : t[2] \in IPs /\ IsPublic(t[2])

\* A marked scalar that is written is found to be.
LEMMA WrittenIsFound ==
    ASSUME Answered, called = "changes_sensitive_attribute", change.mode # "data",
           change.action \in {"update", "replace"}, SecretIsWritten
    PROVE  found # {}
  <1>1. PICK p \in DOMAIN change.after :
           /\ change.after[p] \in Strings \cup Atoms
           /\ Marked(change.afterSensitive, p)
           /\ change.action = "replace" \/ change.after[p] # At(change.before, p)
    BY DEF SecretIsWritten
  <1>2. IsChange(change) /\ p \in Seq(Segments)
    BY <1>1, CallIsChange DEF IsChange, IsValue, Tree
  <1>3. change.after[p] # "null" /\ ~Marked(change.afterUnknown, p)
    BY <1>1, ValuesAreDisjoint, CallsAreChanges DEF Answered, IsPlanned
  <1>4. p \in DOMAIN AfterLeaves(change) /\ AfterLeaves(change)[p].raw = change.after[p]
    BY <1>1, <1>2, <1>3, ScalarsAreLeaves DEF AfterLeaves, IsChange
  <1>5. ~IsNull(AfterLeaves(change)[p])
    BY <1>3, <1>4 DEF IsNull
  <1>6. p \in DOMAIN BeforeLeaves(change) => BeforeLeaves(change)[p].raw = At(change.before, p)
    BY <1>2, SideLeaves
  <1>7. ASSUME change.action = "update" PROVE p \in ChangedPaths
    BY <1>1, <1>4, <1>6, <1>7 DEF ChangedPaths
  <1>8. p \in FoundPaths("written")
    BY <1>1, <1>4, <1>5, <1>7, WritesOfAnswer DEF SensitiveWritesAreFound
  <1> QED
    BY <1>8 DEF FoundPaths

\* What the values oblige a predicate to find, it finds.
LEMMA DueIsFound == Answered /\ Due => found # {}
  <1> SUFFICES ASSUME Answered, Due PROVE found # {}
    OBVIOUS
  <1>1. \A what : FoundPaths(what) # {} => found # {}
    BY DEF FoundPaths
  <1>2. TransitionsAreExact /\ KeyChangesAreExact /\ NoIngressIsMissed
    BY TransitionsOfAnswer, KeysOfAnswer, IngressOfAnswer
  <1>3. CASE called = "disables_encryption" /\ Turned(EncryptionIsLost)
    <2>1. PICK p \in DOMAIN change.before :
             Readable(p) /\ EncryptionIsLost(p, change.before[p], At(change.after, p))
      BY <1>3 DEF Turned
    <2>2. \/ p \in PathsWhere(EncryptionFlags, TurnsOff)
          \/ p \in PathsWhere(KmsKeys, GoesToAws)
          \/ p \in PathsWhere(KmsKeys, LosesKey) /\ At(change.after, << >>) # "null"
      BY <2>1 DEF EncryptionIsLost, PathsWhere
    <2>3. \/ p \in FoundPaths("off") \/ p \in FoundPaths("aws")
          \/ p \in {q \in FoundPaths("removed") : Readable(q)}
      BY <1>2, <1>3, <2>2 DEF TransitionsAreExact, KeyChangesAreExact
    <2> QED
      BY <1>1, <2>3
  <1>4. CASE called = "removes_deletion_protection" /\ Turned(ProtectionIsLost)
    <2>1. PICK p \in DOMAIN change.before :
             Readable(p) /\ ProtectionIsLost(p, change.before[p], At(change.after, p))
      BY <1>4 DEF Turned
    <2>2. \/ p \in PathsWhere(DeletionProtection, TurnsOff)
          \/ p \in PathsWhere({"force_destroy"}, TurnsOn)
      BY <2>1 DEF ProtectionIsLost, PathsWhere
    <2>3. p \in FoundPaths("off") \/ p \in FoundPaths("on")
      BY <1>2, <1>4, <2>2 DEF TransitionsAreExact
    <2> QED
      BY <1>1, <2>3
  <1>5. CASE called = "reduces_backup_retention" /\ Turned(RetentionIsLost)
    <2>1. PICK p \in DOMAIN change.before :
             Readable(p) /\ RetentionIsLost(p, change.before[p], At(change.after, p))
      BY <1>5 DEF Turned
    <2>2. \/ p \in PathsWhere(Retention, GetsLess)
          \/ p \in PathsWhere(SkippedBackups, TurnsOn)
          \/ p \in PathsWhere({"enabled"}, TurnsOff) /\ IsRecovery(p)
      BY <2>1 DEF RetentionIsLost, PathsWhere
    <2>3. p \in FoundPaths("less") \/ p \in FoundPaths("on") \/ p \in FoundPaths("off")
      BY <1>2, <1>5, <2>2 DEF TransitionsAreExact
    <2> QED
      BY <1>1, <2>3
  <1>6. CASE /\ called = "changes_sensitive_attribute" /\ change.mode # "data"
             /\ change.action \in {"update", "replace"} /\ SecretIsWritten
    BY <1>6, WrittenIsFound
  <1>7. CASE /\ Widens({"update", "replace"})
             /\ \A block \in Blocks(change.before, Schema) : IsPlain(block)
             /\ ~AllIsAdmittedBefore
    BY <1>2, <1>7 DEF NoIngressIsMissed
  <1>8. CASE /\ Widens({"create"})
             /\ \E t \in TrafficIn(change.after, Schema) : t[2] \in IPs /\ IsPublic(t[2])
    BY <1>2, <1>8 DEF NoIngressIsMissed
  <1> QED
    BY <1>3, <1>4, <1>5, <1>6, <1>7, <1>8 DEF Due

=============================================================================
