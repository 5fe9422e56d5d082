--------------------------- MODULE PlanTreeProofs ---------------------------
(***************************************************************************)
(* Facts about values, markers and diffs that the proofs about Change.Diff  *)
(* and about the predicates share: for trees of any depth and size.         *)
(***************************************************************************)
EXTENDS DiffEntry, SequenceTheorems, FiniteSetTheorems, WellFoundedInduction, TLAPS

\* What holds of some number holds of a least one.
LEMMA LeastNatural ==
    ASSUME NEW T, T \subseteq Nat, T # {}
    PROVE  \E m \in T : \A k \in T : m <= k
  <1>1. PICK m \in T : \A k \in T : <<k, m>> \notin OpToRel(<, Nat)
    BY WFMin, NatLessThanWellFounded
  <1>2. \A k \in T : ~(k < m)
    BY <1>1 DEF OpToRel
  <1> QED
    BY <1>2

-----------------------------------------------------------------------------
(* Prefixes. *)

\* A prefix of a path is a path, and prefixes of it are prefixes of the path.
LEMMA PrefixOfPrefix ==
    ASSUME NEW p \in Seq(Segments), NEW n \in 0 .. Len(p)
    PROVE  /\ Upto(p, n) \in Seq(Segments)
           /\ Len(Upto(p, n)) = n
           /\ \A m \in 0 .. n : Upto(Upto(p, n), m) = Upto(p, m)
           /\ Upto(p, Len(p)) = p
  BY SMTT(30) DEF Upto

\* The shorter of two prefixes of a path covers the longer one.
LEMMA PrefixIsCovered ==
    ASSUME NEW p \in Seq(Segments), NEW n \in 0 .. Len(p), NEW m \in 0 .. n
    PROVE  Covers(Upto(p, m), Upto(p, n))
  BY PrefixOfPrefix DEF Covers

\* A prefix of a path is one segment longer than the prefix before it.
LEMMA NextPrefix ==
    ASSUME NEW p \in Seq(Segments)
    PROVE  /\ Upto(p, 0) = << >>
           /\ \A n \in 1 .. Len(p) : /\ p[n] \in Segments
                                     /\ Upto(p, n - 1) \in Seq(Segments)
                                     /\ Upto(p, n) = Append(Upto(p, n - 1), p[n])
  <1>1. Upto(p, 0) = << >>
    BY DEF Upto
  <1>2. ASSUME NEW n \in 1 .. Len(p)
        PROVE  /\ p[n] \in Segments
               /\ Upto(p, n - 1) \in Seq(Segments)
               /\ Upto(p, n) = Append(Upto(p, n - 1), p[n])
    <2> DEFINE q == Upto(p, n)
               r == Append(Upto(p, n - 1), p[n])
    <2>1. p[n] \in Segments
      OBVIOUS
    <2>2. n \in 0 .. Len(p) /\ n - 1 \in 0 .. Len(p)
      OBVIOUS
    <2>3. /\ q \in Seq(Segments) /\ Len(q) = n
          /\ Upto(p, n - 1) \in Seq(Segments) /\ Len(Upto(p, n - 1)) = n - 1
      BY <2>2, PrefixOfPrefix
    <2>4. r \in Seq(Segments) /\ Len(r) = n /\ r[n] = p[n]
      BY <2>1, <2>3
    <2>5. \A i \in 1 .. n : q[i] = p[i]
      BY DEF Upto
    <2>6. \A i \in 1 .. n - 1 : Upto(p, n - 1)[i] = p[i]
      BY DEF Upto
    <2>7. \A i \in 1 .. n : r[i] = p[i]
      BY <2>3, <2>4, <2>6
    <2> HIDE DEF q, r
    <2>8. q = r
      BY <2>3, <2>4, <2>5, <2>7, SeqEqual
    <2> QED
      BY <2>1, <2>3, <2>8 DEF q, r
  <1> QED
    BY <1>1, <1>2

-----------------------------------------------------------------------------
(* Walks over markers. *)

\* A flag met by a walk with child marks the whole path that continues it.
LEMMA FlaggedPrefixIsMarked ==
    ASSUME NEW m, IsMarker(m),
           NEW p \in Seq(Segments), NEW n \in 0 .. Len(p), Flagged(m, Upto(p, n))
    PROVE  Marked(m, p)
  <1> DEFINE r == Upto(p, n)
  <1>1. PICK k \in 0 .. Len(r) :
           /\ \A i \in 0 .. k : Upto(r, i) \in DOMAIN m
           /\ m[Upto(r, k)] = "true"
    BY DEF Flagged, Descend
  <1>2. r \in Seq(Segments) /\ Len(r) = n /\ k \in 0 .. n /\ k \in 0 .. Len(p)
    BY <1>1, PrefixOfPrefix
  <1>3. \A i \in 0 .. k : Upto(r, i) = Upto(p, i)
    BY <1>2, PrefixOfPrefix
  <1>4. (\A i \in 0 .. k : Upto(p, i) \in DOMAIN m) /\ m[Upto(p, k)] = "true"
    BY <1>1, <1>2, <1>3
  <1>5. k = Len(p) \/ Upto(p, k + 1) \notin DOMAIN m
    <2> SUFFICES ASSUME k # Len(p), Upto(p, k + 1) \in DOMAIN m PROVE FALSE
      OBVIOUS
    <2>1. k + 1 \in 0 .. Len(p) /\ k \in 0 .. k + 1
      BY <1>2
    <2>2. Len(Upto(p, k + 1)) = k + 1 /\ Upto(Upto(p, k + 1), k) = Upto(p, k)
      BY <2>1, PrefixOfPrefix
    <2>3. m[Upto(p, k)] \in Containers
      BY <1>2, <2>2 DEF IsMarker, Tree
    <2> QED
      BY <1>4, <2>3 DEF Containers
  <1> QED
    BY <1>2, <1>4, <1>5 DEF Marked, StopsAt

\* walk.go and the child walk of diff.go and raw.go mark the same paths.
LEMMA MarkedIsFlagged ==
    ASSUME NEW m, IsMarker(m), NEW p \in Seq(Segments)
    PROVE  Marked(m, p) <=> Flagged(m, p)
  <1>1. ASSUME Flagged(m, p) PROVE Marked(m, p)
    <2>1. Len(p) \in 0 .. Len(p) /\ Upto(p, Len(p)) = p
      BY PrefixOfPrefix, LenProperties
    <2> QED
      BY <1>1, <2>1, FlaggedPrefixIsMarked
  <1>2. ASSUME Marked(m, p) PROVE Flagged(m, p)
    <2>1. PICK n \in 0 .. Len(p) : StopsAt(m, p, n) /\ m[Upto(p, n)] = "true"
      BY <1>2 DEF Marked
    <2>2. \A i \in 0 .. n : Upto(p, i) \in DOMAIN m
      BY <2>1 DEF StopsAt
    <2>3. \A i \in 0 .. n - 1 : m[Upto(p, i)] \notin Flags
      <3> TAKE i \in 0 .. n - 1
      <3>1. i \in 0 .. n /\ n \in 0 .. n
        BY LenProperties
      <3>2. Upto(p, n) \in DOMAIN m /\ Len(Upto(p, n)) = n
        BY <2>2, <3>1, PrefixOfPrefix
      <3>3. Upto(Upto(p, n), i) = Upto(p, i)
        BY <3>1, PrefixOfPrefix
      <3>4. m[Upto(p, i)] \in Containers
        BY <3>2, <3>3 DEF IsMarker, Tree
      <3> QED
        BY <3>4 DEF Containers, Flags
    <2>4. Upto(p, n) \in Descend(m, p)
      BY <2>1, <2>2, <2>3 DEF Descend, Flags
    <2> QED
      BY <2>1, <2>4 DEF Flagged
  <1> QED
    BY <1>1, <1>2

\* A marked path has a mark on the way to any path above it, or below that.
LEMMA MarkAtOrBelow ==
    ASSUME NEW m, IsMarker(m), NEW p \in Seq(Segments), NEW q \in Seq(Segments),
           Covers(p, q), Marked(m, q)
    PROVE  Marked(m, p) \/ AnyMarkedBelow(m, p)
  <1>1. PICK n \in 0 .. Len(q) : StopsAt(m, q, n) /\ m[Upto(q, n)] = "true"
    BY DEF Marked
  <1>2. Len(p) \in 0 .. Len(q) /\ Upto(q, Len(p)) = p
    BY LenProperties DEF Covers
  <1>3. \A i \in 0 .. Len(p) : Upto(p, i) = Upto(q, i)
    BY <1>2, PrefixOfPrefix
  <1>4. CASE n <= Len(p)
    <2>1. n \in 0 .. Len(p) /\ Upto(p, n) = Upto(q, n)
      BY <1>2, <1>3, <1>4
    <2>2. \A i \in 0 .. n : Upto(p, i) \in DOMAIN m
      BY <1>1, <1>2, <1>3, <1>4 DEF StopsAt
    <2>3. n = Len(p) \/ Upto(p, n + 1) \notin DOMAIN m
      BY <1>1, <1>2, <1>3, <1>4 DEF StopsAt
    <2> QED
      BY <1>1, <2>1, <2>2, <2>3 DEF Marked, StopsAt
  <1>5. CASE n > Len(p)
    <2> DEFINE r == Upto(q, n)
    <2>1. r \in DOMAIN m /\ Len(r) = n /\ n \in 0 .. n
      BY <1>1, PrefixOfPrefix DEF StopsAt
    <2>2. Covers(p, r)
      BY <1>2, <1>5, PrefixIsCovered
    <2>3. \A i \in 0 .. Len(p) : Upto(p, i) \in DOMAIN m
      BY <1>1, <1>2, <1>3, <1>5 DEF StopsAt
    <2>4. \A i \in 0 .. Len(p) - 1 : m[Upto(p, i)] \notin Flags
      <3> TAKE i \in 0 .. Len(p) - 1
      <3>1. i \in 0 .. n - 1 /\ i \in 0 .. n /\ i \in 0 .. Len(p)
        BY <1>2, <1>5
      <3>2. Upto(r, i) = Upto(p, i)
        BY <1>1, <1>3, <3>1, PrefixOfPrefix
      <3>3. m[Upto(r, i)] \in Containers
        BY <2>1, <3>1 DEF IsMarker, Tree
      <3> QED
        BY <3>2, <3>3 DEF Containers, Flags
    <2>5. Len(p) \in 0 .. Len(p) /\ Upto(p, Len(p)) = p
      BY PrefixOfPrefix, LenProperties
    <2>6. p \in Descend(m, p)
      BY <2>3, <2>4, <2>5 DEF Descend
    <2> QED
      BY <1>1, <2>1, <2>2, <2>6 DEF AnyMarkedBelow
  <1> QED
    BY <1>1, <1>4, <1>5, LenProperties

-----------------------------------------------------------------------------
(* Flattening loses no scalar that is known, and marks it as walk.go does. *)

\* The nil marker Diff hands to flatten marks nothing.
LEMMA NoMarksIsMarker == IsMarker(NoMarks) /\ \A p \in Seq(Segments) : ~Marked(NoMarks, p)
  <1>1. << >> \in Seq(Segments) /\ Len(<< >>) = 0
    OBVIOUS
  <1>2. IsMarker(NoMarks)
    <2>1. \A x : IsFiniteSet({x})
      BY FS_Singleton
    <2>2. 0 .. 0 - 1 = {}
      OBVIOUS
    <2>3. DOMAIN NoMarks = {<< >>} /\ NoMarks[<< >>] = "null" /\ NoMarks = [p \in DOMAIN NoMarks |-> NoMarks[p]]
      BY DEF NoMarks
    <2> QED
      BY <1>1, <2>1, <2>2, <2>3 DEF IsMarker, Tree
  <1>3. \A p \in Seq(Segments) : ~Marked(NoMarks, p)
    <2> TAKE p \in Seq(Segments)
    <2>1. \A q \in DOMAIN NoMarks : NoMarks[q] # "true"
      BY DEF NoMarks
    <2> QED
      BY <2>1 DEF Marked, StopsAt
  <1> QED
    BY <1>2, <1>3

\* flatten finds every scalar whose path is not unknown, with the mark that
\* Marked gives it.
LEMMA ScalarsAreLeaves ==
    ASSUME NEW v, IsValue(v), NEW unk, IsMarker(unk), NEW sens, IsMarker(sens),
           NEW p \in DOMAIN v, v[p] \in Strings \cup Atoms, ~Marked(unk, p)
    PROVE  /\ p \in DOMAIN Flatten(v, unk, sens)
           /\ Flatten(v, unk, sens)[p].raw = v[p]
           /\ Flatten(v, unk, sens)[p].sensitive = Marked(sens, p)
  <1>1. p \in Seq(Segments) /\ Len(p) \in Nat
    BY LenProperties DEF IsValue, Tree
  <1>2. \A n \in 0 .. Len(p) : ~Flagged(unk, Upto(p, n))
    BY <1>1, FlaggedPrefixIsMarked
  <1>3. Upto(p, Len(p)) = p
    BY <1>1, PrefixOfPrefix
  <1>4. ~Flagged(unk, p)
    BY <1>1, <1>2, <1>3
  <1>5. p \in Visited(v, unk)
    <2>1. ASSUME NEW n \in 1 .. Len(p)
          PROVE  Upto(p, n) \in Below(v, unk, Upto(p, n - 1))
      <3>1. n \in 0 .. Len(p) /\ n - 1 \in 0 .. n /\ n - 1 \in 0 .. Len(p)
        BY <1>1
      <3>2. Len(Upto(p, n)) = n /\ Len(Upto(p, n - 1)) = n - 1
        BY <1>1, <3>1, PrefixOfPrefix
      <3>3. Covers(Upto(p, n - 1), Upto(p, n))
        BY <1>1, <3>1, PrefixIsCovered
      <3>4. Upto(p, n) \in DOMAIN v
        BY <1>1, <1>3, <3>1 DEF IsValue, Tree
      <3> QED
        BY <1>1, <1>2, <3>1, <3>2, <3>3, <3>4 DEF Below, Children
    <2> QED
      BY <2>1 DEF Visited
  <1>6. Children(v, p) = {}
    <2> SUFFICES ASSUME NEW q \in DOMAIN v, Len(q) = Len(p) + 1, Covers(p, q)
                 PROVE  FALSE
      BY DEF Children
    <2>1. Len(p) \in 0 .. Len(q) - 1 /\ Upto(q, Len(p)) = p
      BY <1>1 DEF Covers
    <2>2. v[p] \in Containers
      BY <2>1 DEF IsValue, Tree
    <2> QED
      BY <2>2, ValuesAreDisjoint
  <1>7. At(v, p) \notin {"null", At(unk, p)} \cup Containers
    <2>1. At(v, p) = v[p]
      BY DEF At
    <2>2. At(unk, p) \in Flags \cup Containers \cup {"null"}
      BY DEF At, IsMarker, Tree
    <2> QED
      BY <2>1, <2>2, ValuesAreDisjoint
  <1>8. IsLeaf(v, unk, p)
    BY <1>4, <1>6, <1>7 DEF IsLeaf, Below
  <1>9. p \in DOMAIN Flatten(v, unk, sens)
          /\ Flatten(v, unk, sens)[p] = Leaf(v, unk, sens, p)
    BY <1>5, <1>8 DEF Flatten
  <1>10. Leaf(v, unk, sens, p).raw = v[p]
    BY <1>4 DEF Leaf, At
  <1>11. Leaf(v, unk, sens, p).sensitive = Marked(sens, p)
    BY <1>1, MarkedIsFlagged DEF Leaf, Flagged, Marked
  <1> QED
    BY <1>9, <1>10, <1>11

-----------------------------------------------------------------------------
(* What stands above and below a path. *)

\* Everything above a node of a tree is a container of it, and the first step
\* from a path towards a node below it leads to a child.
LEMMA AboveIsContainer ==
    ASSUME NEW t, NEW nodes, Tree(t, nodes), NEW q \in DOMAIN t, NEW p \in Seq(Segments),
           Covers(p, q), Len(p) < Len(q)
    PROVE  /\ q \in Seq(Segments)
           /\ p \in DOMAIN t /\ t[p] \in Containers
           /\ Upto(q, Len(p) + 1) \in Children(t, p)
           /\ \A n \in 0 .. Len(p) : Upto(p, n) \in DOMAIN t /\ t[Upto(p, n)] \in Containers
           /\ q[Len(p) + 1].index <=> t[p] = "list"
  <1>1. q \in Seq(Segments) /\ Len(p) \in Nat /\ Len(q) \in Nat
    BY LenProperties DEF Tree
  <1>2. Len(p) \in 0 .. Len(q) - 1 /\ Len(p) \in 0 .. Len(q) /\ Upto(q, Len(p)) = p
    BY <1>1 DEF Covers
  <1>3. \A n \in 0 .. Len(q) - 1 :
          /\ Upto(q, n) \in DOMAIN t /\ t[Upto(q, n)] \in Containers
          /\ q[n + 1].index <=> t[Upto(q, n)] = "list"
    BY DEF Tree
  <1>4. \A n \in 0 .. Len(p) : Upto(p, n) = Upto(q, n)
    BY <1>1, <1>2, PrefixOfPrefix
  <1>5. \A n \in 0 .. Len(p) : Upto(p, n) \in DOMAIN t /\ t[Upto(p, n)] \in Containers
    BY <1>1, <1>2, <1>3, <1>4
  <1>6. Upto(q, Len(p) + 1) \in Children(t, p)
    <2> DEFINE r == Upto(q, Len(p) + 1)
    <2>1. Len(p) + 1 \in 0 .. Len(q) /\ Len(p) \in 0 .. Len(p) + 1
      BY <1>1, <1>2
    <2>2. Len(r) = Len(p) + 1 /\ Covers(p, r)
      BY <1>1, <1>2, <2>1, PrefixOfPrefix, PrefixIsCovered
    <2>3. r \in DOMAIN t
      <3>1. CASE Len(p) + 1 = Len(q)
        BY <1>1, <3>1, PrefixOfPrefix
      <3>2. CASE Len(p) + 1 # Len(q)
        BY <1>1, <1>2, <1>3, <3>2
      <3> QED
        BY <3>1, <3>2
    <2> QED
      BY <2>2, <2>3 DEF Children
  <1> QED
    BY <1>1, <1>2, <1>3, <1>5, <1>6

\* A mark that is not on the way to a path lies below it.
LEMMA MarkIsBelow ==
    ASSUME NEW m, IsMarker(m), NEW p \in Seq(Segments), AnyMarkedBelow(m, p), ~Marked(m, p)
    PROVE  \E q \in DOMAIN m : Covers(p, q) /\ Len(p) < Len(q) /\ m[q] = "true"
  <1>1. PICK at \in Descend(m, p) : \E q \in DOMAIN m : Covers(at, q) /\ m[q] = "true"
    BY DEF AnyMarkedBelow
  <1>2. PICK q \in DOMAIN m : Covers(at, q) /\ m[q] = "true"
    BY <1>1
  <1>3. PICK k \in 0 .. Len(p) :
          /\ at = Upto(p, k)
          /\ \A i \in 0 .. k : Upto(p, i) \in DOMAIN m
          /\ k = Len(p) \/ m[Upto(p, k)] \in Flags
    BY <1>1 DEF Descend
  <1>4. m[at] # "true"
    BY <1>1, MarkedIsFlagged DEF Flagged
  <1>5. at \in Seq(Segments) /\ q \in Seq(Segments) /\ Len(at) \in Nat /\ Len(q) \in Nat
    BY <1>3, PrefixOfPrefix, LenProperties DEF IsMarker, Tree
  <1>6. Len(at) < Len(q)
    <2>1. Len(at) = Len(q) => at = q
      BY <1>2, <1>5, PrefixOfPrefix DEF Covers
    <2> QED
      BY <1>2, <1>4, <1>5, <2>1 DEF Covers
  <1>7. m[at] \in Containers
    BY <1>2, <1>5, <1>6, AboveIsContainer DEF IsMarker
  <1>8. k = Len(p) /\ at = p
    BY <1>3, <1>7, PrefixOfPrefix DEF Containers, Flags
  <1> QED
    BY <1>2, <1>6, <1>8

-----------------------------------------------------------------------------
(* Leaves and entries. *)

\* flatten returns leaves.
LEMMA FlattenType ==
    ASSUME NEW v, IsValue(v), NEW unk, NEW sens
    PROVE  \A p \in DOMAIN Flatten(v, unk, sens) : Flatten(v, unk, sens)[p] \in Leaves
  <1> TAKE p \in DOMAIN Flatten(v, unk, sens)
  <1>1. Flatten(v, unk, sens)[p] = Leaf(v, unk, sens, p)
    BY DEF Flatten
  <1>2. At(v, p) \in Strings \cup Atoms \cup Containers \cup {"null"}
    BY DEF At, IsValue, Tree
  <1>3. Flagged(unk, p) \in BOOLEAN /\ Flagged(sens, p) \in BOOLEAN
    BY DEF Flagged
  <1> QED
    BY <1>1, <1>2, <1>3 DEF Leaf, Leaves

\* render returns a literal or a placeholder.
LEMMA RenderType == \A leaf \in Leaves : Render(leaf) \in Shown
  BY DEF Leaves, Render, Literal, Shown, Placeholders, Containers

\* A fresh entry is an entry.
LEMMA NoEntryType == NoEntry \in Entry
  BY DEF NoEntry, Entry, Shown, Placeholders

\* What render returns is never mistaken for an absent side.
LEMMA RenderIsPresent == \A leaf \in Leaves : Render(leaf) # Absent
  BY LiteralsAreNoPlaceholders
     DEF Leaves, Render, Literal, Absent, SensitiveValue, KnownAfterApply,
         Placeholders, Containers

\* What a change of a plan is made of.
IsChange(c) ==
    /\ IsValue(c.before) /\ IsMarker(c.beforeSensitive)
    /\ IsValue(c.after) /\ IsMarker(c.afterUnknown) /\ IsMarker(c.afterSensitive)

\* A leaf has a path, and the flags that Marked gives that path.
LEMMA LeafFields ==
    ASSUME NEW v, IsValue(v), NEW unk, IsMarker(unk), NEW sens, IsMarker(sens),
           NEW p \in DOMAIN Flatten(v, unk, sens)
    PROVE  /\ p \in Seq(Segments)
           /\ p \in DOMAIN v \cup DOMAIN unk
           /\ Flatten(v, unk, sens)[p] \in Leaves
           /\ Flatten(v, unk, sens)[p].raw =
                IF Marked(unk, p) THEN "null" ELSE At(v, p)
           /\ Flatten(v, unk, sens)[p].unknown = Marked(unk, p)
           /\ Flatten(v, unk, sens)[p].sensitive = Marked(sens, p)
  <1>1. p \in Visited(v, unk) /\ Flatten(v, unk, sens)[p] = Leaf(v, unk, sens, p)
    BY DEF Flatten
  <1>2. p \in DOMAIN v \cup DOMAIN unk
    BY <1>1 DEF Visited
  <1>3. p \in Seq(Segments)
    BY <1>2 DEF IsValue, IsMarker, Tree
  <1>4. Flagged(unk, p) = Marked(unk, p) /\ Flagged(sens, p) = Marked(sens, p)
    BY <1>3, MarkedIsFlagged DEF Flagged, Marked
  <1>5. /\ Leaf(v, unk, sens, p).raw = IF Marked(unk, p) THEN "null" ELSE At(v, p)
        /\ Leaf(v, unk, sens, p).unknown = Marked(unk, p)
        /\ Leaf(v, unk, sens, p).sensitive = Marked(sens, p)
    BY <1>4 DEF Leaf
  <1> QED
    BY <1>1, <1>2, <1>3, <1>5, FlattenType

\* The leaves of either side of a change.
LEMMA SideLeaves ==
    ASSUME NEW c, IsChange(c)
    PROVE  /\ \A p \in DOMAIN BeforeLeaves(c) :
                /\ p \in Seq(Segments) /\ BeforeLeaves(c)[p] \in Leaves
                /\ BeforeLeaves(c)[p].raw = At(c.before, p)
                /\ ~BeforeLeaves(c)[p].unknown
                /\ BeforeLeaves(c)[p].sensitive = Marked(c.beforeSensitive, p)
           /\ \A p \in DOMAIN AfterLeaves(c) :
                /\ p \in Seq(Segments) /\ AfterLeaves(c)[p] \in Leaves
                /\ AfterLeaves(c)[p].raw =
                     IF Marked(c.afterUnknown, p) THEN "null" ELSE At(c.after, p)
                /\ AfterLeaves(c)[p].unknown = Marked(c.afterUnknown, p)
                /\ AfterLeaves(c)[p].sensitive = Marked(c.afterSensitive, p)
  <1>1. ASSUME NEW p \in DOMAIN BeforeLeaves(c)
        PROVE  /\ p \in Seq(Segments) /\ BeforeLeaves(c)[p] \in Leaves
               /\ BeforeLeaves(c)[p].raw = At(c.before, p)
               /\ ~BeforeLeaves(c)[p].unknown
               /\ BeforeLeaves(c)[p].sensitive = Marked(c.beforeSensitive, p)
    <2>1. p \in Seq(Segments)
      BY <1>1, NoMarksIsMarker, LeafFields DEF BeforeLeaves, IsChange
    <2>2. ~Marked(NoMarks, p)
      BY <2>1, NoMarksIsMarker
    <2> QED
      BY <1>1, <2>2, NoMarksIsMarker, LeafFields DEF BeforeLeaves, IsChange
  <1>2. ASSUME NEW p \in DOMAIN AfterLeaves(c)
        PROVE  /\ p \in Seq(Segments) /\ AfterLeaves(c)[p] \in Leaves
               /\ AfterLeaves(c)[p].raw =
                    IF Marked(c.afterUnknown, p) THEN "null" ELSE At(c.after, p)
               /\ AfterLeaves(c)[p].unknown = Marked(c.afterUnknown, p)
               /\ AfterLeaves(c)[p].sensitive = Marked(c.afterSensitive, p)
    BY <1>2, LeafFields DEF AfterLeaves, IsChange
  <1> QED
    BY <1>1, <1>2

\* The fields of an entry of Diff, over the leaves of the two sides.
LEMMA DiffFields ==
    ASSUME NEW c, IsChange(c), NEW p \in DOMAIN BeforeLeaves(c) \cup DOMAIN AfterLeaves(c)
    PROVE  LET before == BeforeLeaves(c)
               after == AfterLeaves(c)
               secrets == SecretsIn(before) \cup SecretsIn(after)
               d == Diff(c)[p]
               old == p \in DOMAIN before
               new == p \in DOMAIN after
               marked == (old /\ before[p].sensitive) \/ (new /\ after[p].sensitive)
           IN  /\ d \in Entry
               /\ d.before = Side(before, p, marked \/ (old /\ before[p].raw \in secrets))
               /\ d.after = Side(after, p, marked \/ (new /\ after[p].raw \in secrets))
               /\ d.changed <=> \/ p \notin DOMAIN before \cap DOMAIN after
                                \/ after[p].unknown
                                \/ before[p].raw # after[p].raw
               /\ d.unknown <=> new /\ after[p].unknown
               /\ d.beforeSensitive <=> old /\ before[p].sensitive
               /\ d.afterSensitive <=> new /\ after[p].sensitive
               /\ d.beforeNull <=> old /\ IsNull(before[p])
               /\ d.afterNull <=> new /\ IsNull(after[p])
  <1> DEFINE before == BeforeLeaves(c)
             after == AfterLeaves(c)
             secrets == SecretsIn(before) \cup SecretsIn(after)
             marked == \/ p \in DOMAIN before /\ before[p].sensitive
                       \/ p \in DOMAIN after /\ after[p].sensitive
             oldHidden == marked \/ (p \in DOMAIN before /\ before[p].raw \in secrets)
             newHidden == marked \/ (p \in DOMAIN after /\ after[p].raw \in secrets)
             differ == \/ p \notin DOMAIN before \cap DOMAIN after
                       \/ after[p].unknown
                       \/ before[p].raw # after[p].raw
             d == Diff(c)[p]
  <1>1. d = [before          |-> Side(before, p, oldHidden),
             after           |-> Side(after, p, newHidden),
             changed         |-> differ,
             unknown         |-> p \in DOMAIN after /\ after[p].unknown,
             beforeSensitive |-> p \in DOMAIN before /\ before[p].sensitive,
             afterSensitive  |-> p \in DOMAIN after /\ after[p].sensitive,
             beforeNull      |-> p \in DOMAIN before /\ IsNull(before[p]),
             afterNull       |-> p \in DOMAIN after /\ IsNull(after[p])]
    BY DEF Diff
  <1>2. (\A q \in DOMAIN before : before[q] \in Leaves) /\ (\A q \in DOMAIN after : after[q] \in Leaves)
    BY SideLeaves
  <1> HIDE DEF before, after
  <1>3. \A secret : Side(before, p, secret) \in Shown /\ Side(after, p, secret) \in Shown
    BY <1>2, RenderType DEF Side, Hide, Shown, Placeholders
  <1>4. Side(before, p, oldHidden) \in Shown /\ Side(after, p, newHidden) \in Shown
    BY <1>3
  <1>5. d \in Entry
    <2> HIDE DEF d, oldHidden, newHidden
    <2> QED
      BY <1>1, <1>4 DEF Entry
  <1> HIDE DEF d
  <1>6. d.before = Side(before, p, oldHidden) /\ d.after = Side(after, p, newHidden)
    BY <1>1
  <1>7. d.changed = differ
    <2> HIDE DEF differ
    <2> QED
      BY <1>1
  <1>8. d.unknown = (p \in DOMAIN after /\ after[p].unknown)
    BY <1>1
  <1>9. d.beforeSensitive = (p \in DOMAIN before /\ before[p].sensitive)
    BY <1>1
  <1>10. d.afterSensitive = (p \in DOMAIN after /\ after[p].sensitive)
    BY <1>1
  <1>11. d.beforeNull = (p \in DOMAIN before /\ IsNull(before[p]))
    BY <1>1
  <1>12. d.afterNull = (p \in DOMAIN after /\ IsNull(after[p]))
    BY <1>1
  <1> QED
    BY <1>5, <1>6, <1>7, <1>8, <1>9, <1>10, <1>11, <1>12, Zenon DEF d, before, after

=============================================================================
