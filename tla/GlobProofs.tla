----------------------------- MODULE GlobProofs -----------------------------
(***************************************************************************)
(* Proof that Glob is exact for every pattern and every string: the greedy  *)
(* loop keeps a placement of the parts it has found, and no placement of    *)
(* the whole pattern lies before it.                                        *)
(***************************************************************************)
EXTENDS Glob, SequenceTheorems, TLAPS

\* A placement of the parts before m that ends where s is consumed to.
Partial ==
    {f \in [1 .. m - 1 -> 0 .. Len(s)] :
        /\ f[1] = 0
        /\ \A k \in 1 .. m - 1 : OccursAt(parts[k], f[k])
        /\ \A k \in 1 .. m - 2 : f[k] + Len(parts[k]) <= f[k + 1]
        /\ f[m - 1] + Len(parts[m - 1]) = at}

IInv ==
    /\ TypeOK
    /\ pc = "middle" => Partial # {}
    /\ GreedyLosesNoMatch
    /\ GlobIsExact

\* The pattern has at least one part, and parts and string are sequences.
LEMMA InputTypes ==
    ASSUME TypeOK
    PROVE  /\ Len(s) \in Nat /\ Len(parts) \in Nat /\ Len(parts) >= 1
           /\ s \in Seq(Chars) /\ at \in Nat /\ m \in Nat
           /\ \A k \in 1 .. Len(parts) : parts[k] \in Seq(Chars) /\ Len(parts[k]) \in Nat
  <1>1. s \in Seq(Chars) /\ parts \in Seq(Seq(Chars)) /\ parts # << >>
    BY GlobInputs DEF TypeOK
  <1>2. Len(s) \in Nat /\ Len(parts) \in Nat
    BY <1>1, LenProperties
  <1>3. Len(parts) >= 1
    BY <1>1, <1>2, EmptySeq
  <1>4. \A k \in 1 .. Len(parts) : parts[k] \in Seq(Chars) /\ Len(parts[k]) \in Nat
    BY <1>1, <1>2, LenProperties
  <1> QED
    BY <1>1, <1>2, <1>3, <1>4 DEF TypeOK

\* Placements depend on the pattern and the string alone.
LEMMA SameInputs ==
    ASSUME parts' = parts, s' = s
    PROVE  Placements' = Placements
  BY DEF Placements, OccursAt

\* The initial states satisfy IInv.
LEMMA InitIInv == Init => IInv
  <1> SUFFICES ASSUME Init PROVE IInv
    OBVIOUS
  <1>1. s \in Seq(Chars) /\ parts \in Seq(Seq(Chars)) /\ parts # << >>
    BY GlobInputs DEF Init
  <1>2. Len(s) \in Nat /\ Len(parts) \in Nat /\ Len(parts) >= 1
    BY <1>1, LenProperties, EmptySeq
  <1>3. at \in 0 .. Len(s) /\ m \in 1 .. Len(parts)
    BY <1>2 DEF Init
  <1>4. TypeOK
    BY <1>3 DEF Init, TypeOK
  <1> QED
    BY <1>4 DEF Init, IInv, GreedyLosesNoMatch, GlobIsExact

\* A result that is right leaves the invariant true.
LEMMA DecideIInv ==
    ASSUME IInv, NEW result \in BOOLEAN, Decide(result), result <=> Placements # {}
    PROVE  IInv'
  <1>1. TypeOK'
    BY DEF IInv, TypeOK, Decide
  <1>2. Placements' = Placements
    BY SameInputs DEF Decide
  <1>3. pc' = "done" /\ ok' = result
    BY DEF Decide
  <1> QED
    BY <1>1, <1>2, <1>3 DEF IInv, GreedyLosesNoMatch, GlobIsExact

\* Whole preserves IInv.
LEMMA WholeIInv == IInv /\ Whole => IInv'
  <1> SUFFICES ASSUME IInv, Whole PROVE IInv'
    OBVIOUS
  <1>1. /\ Len(parts) = 1 /\ Len(s) \in Nat /\ s \in Seq(Chars)
        /\ parts[1] \in Seq(Chars) /\ Len(parts[1]) \in Nat
    BY InputTypes DEF IInv, Whole
  <1>2. ASSUME parts[1] = s PROVE Placements # {}
    <2> DEFINE f == [k \in 1 .. Len(parts) |-> 0]
    <2>1. f \in [1 .. Len(parts) -> 0 .. Len(s)] /\ f[1] = 0
      BY <1>1
    <2>2. OccursAt(parts[1], 0)
      BY <1>1, <1>2 DEF OccursAt
    <2>3. f \in Placements
      BY <1>1, <1>2, <2>1, <2>2 DEF Placements
    <2> QED
      BY <2>3
  <1>3. ASSUME Placements # {} PROVE parts[1] = s
    <2>1. PICK f \in Placements : TRUE
      BY <1>3
    <2>2. Len(parts[1]) = Len(s) /\ OccursAt(parts[1], 0)
      BY <1>1, <2>1 DEF Placements
    <2>3. \A k \in 1 .. Len(s) : parts[1][k] = s[k]
      BY <1>1, <2>2 DEF OccursAt
    <2> QED
      BY <1>1, <2>2, <2>3, SeqEqual
  <1> QED
    BY <1>2, <1>3, DecideIInv DEF Whole

\* NoPrefix preserves IInv.
LEMMA NoPrefixIInv == IInv /\ NoPrefix => IInv'
  <1> SUFFICES ASSUME IInv, NoPrefix PROVE IInv'
    OBVIOUS
  <1>1. Placements = {}
    BY InputTypes DEF IInv, NoPrefix, Placements
  <1> QED
    BY <1>1, DecideIInv DEF NoPrefix

\* Prefix preserves IInv.
LEMMA PrefixIInv == IInv /\ Prefix => IInv'
  <1> SUFFICES ASSUME IInv, Prefix PROVE IInv'
    OBVIOUS
  <1>1. /\ Len(s) \in Nat /\ Len(parts) \in Nat /\ Len(parts) > 1
        /\ Len(parts[1]) \in Nat /\ OccursAt(parts[1], 0)
        /\ Len(parts[1]) <= Len(s)
    BY InputTypes DEF IInv, Prefix, OccursAt
  <1>2. TypeOK'
    BY <1>1 DEF IInv, TypeOK, Prefix
  <1>3. (Partial # {})'
    <2> DEFINE f == [k \in 1 .. 1 |-> 0]
    <2>1. f \in [1 .. m' - 1 -> 0 .. Len(s')] /\ f[1] = 0 /\ m' - 1 = 1 /\ m' - 2 = 0
      BY <1>1 DEF Prefix
    <2>2. OccursAt(parts[1], f[1])'
      BY <1>1 DEF Prefix, OccursAt
    <2>3. f \in Partial'
      BY <1>1, <2>1, <2>2 DEF Partial, Prefix
    <2> QED
      BY <2>3
  <1>4. GreedyLosesNoMatch'
    <2>1. Placements' = Placements
      BY SameInputs DEF Prefix
    <2>2. \A f \in Placements : Len(parts[1]) <= f[2]
      BY <1>1 DEF Placements
    <2> QED
      BY <2>1, <2>2 DEF GreedyLosesNoMatch, Prefix
  <1> QED
    BY <1>2, <1>3, <1>4 DEF IInv, GlobIsExact, Prefix

\* In the loop, every placement puts part m somewhere in the rest of s.
LEMMA PlacedInRest ==
    ASSUME IInv, pc = "middle", NEW f \in Placements
    PROVE  f[m] \in at .. Len(s) /\ OccursAt(parts[m], f[m])
  <1>1. at \in Nat /\ Len(s) \in Nat /\ m \in 1 .. Len(parts)
    BY InputTypes DEF IInv, TypeOK
  <1>2. f \in [1 .. Len(parts) -> 0 .. Len(s)] /\ OccursAt(parts[m], f[m])
    BY <1>1 DEF Placements
  <1>3. at <= f[m]
    BY DEF IInv, GreedyLosesNoMatch
  <1>4. f[m] \in 0 .. Len(s)
    BY <1>1, <1>2
  <1> QED
    BY <1>1, <1>2, <1>3, <1>4

\* NoMiddle preserves IInv.
LEMMA NoMiddleIInv == IInv /\ NoMiddle => IInv'
  <1> SUFFICES ASSUME IInv, NoMiddle PROVE IInv'
    OBVIOUS
  <1>1. Placements = {}
    BY PlacedInRest DEF NoMiddle
  <1> QED
    BY <1>1, DecideIInv DEF NoMiddle

\* A partial placement is extended by an occurrence in the rest of s.
LEMMA ExtendPartial ==
    ASSUME IInv, pc = "middle", NEW g \in Partial,
           NEW p \in at .. Len(s), OccursAt(parts[m], p)
    PROVE  \E f \in [1 .. m -> 0 .. Len(s)] :
               /\ f[1] = 0 /\ f[m] = p
               /\ \A k \in 1 .. m : OccursAt(parts[k], f[k])
               /\ \A k \in 1 .. m - 1 : f[k] + Len(parts[k]) <= f[k + 1]
  <1> DEFINE f == [k \in 1 .. m |-> IF k = m THEN p ELSE g[k]]
  <1>1. m \in Nat /\ m > 1 /\ at \in Nat /\ Len(s) \in Nat /\ p \in Nat /\ m <= Len(parts)
    BY InputTypes DEF IInv, TypeOK
  <1>2. /\ g \in [1 .. m - 1 -> 0 .. Len(s)] /\ g[1] = 0
        /\ \A k \in 1 .. m - 1 : OccursAt(parts[k], g[k])
        /\ \A k \in 1 .. m - 2 : g[k] + Len(parts[k]) <= g[k + 1]
        /\ g[m - 1] + Len(parts[m - 1]) = at
    BY DEF Partial
  <1>3. f \in [1 .. m -> 0 .. Len(s)] /\ f[1] = 0 /\ f[m] = p
    BY <1>1, <1>2
  <1>4. \A k \in 1 .. m : OccursAt(parts[k], f[k])
    BY <1>1, <1>2
  <1>5. ASSUME NEW k \in 1 .. m - 1 PROVE f[k] + Len(parts[k]) <= f[k + 1]
    <2>1. CASE k = m - 1
      BY <1>1, <1>2, <2>1
    <2>2. CASE k # m - 1
      BY <1>1, <1>2, <2>2
    <2> QED
      BY <2>1, <2>2
  <1> HIDE DEF f
  <1> QED
    BY <1>3, <1>4, <1>5

\* Middle preserves IInv.
LEMMA MiddleIInv == IInv /\ Middle => IInv'
  <1> SUFFICES ASSUME IInv, Middle PROVE IInv'
    OBVIOUS
  <1>1. PICK p \in at .. Len(s) : FoundAt(parts[m], p) /\ at' = p + Len(parts[m])
    BY DEF Middle, After
  <1>2. /\ m \in Nat /\ m > 1 /\ m < Len(parts) /\ Len(parts) \in Nat /\ at \in Nat
        /\ Len(s) \in Nat /\ p \in Nat /\ Len(parts[m]) \in Nat
        /\ pc = "middle" /\ m' = m + 1 /\ parts' = parts /\ s' = s /\ pc' = pc
    BY InputTypes DEF IInv, TypeOK, Middle
  <1>3. OccursAt(parts[m], p)
    BY <1>1 DEF FoundAt
  <1>4. TypeOK'
    BY <1>1, <1>2, <1>3 DEF IInv, TypeOK, Middle, OccursAt
  <1>5. (Partial # {})'
    <2>1. PICK g \in Partial : TRUE
      BY <1>2 DEF IInv
    <2>2. PICK f \in [1 .. m -> 0 .. Len(s)] :
            /\ f[1] = 0 /\ f[m] = p
            /\ \A k \in 1 .. m : OccursAt(parts[k], f[k])
            /\ \A k \in 1 .. m - 1 : f[k] + Len(parts[k]) <= f[k + 1]
      BY <1>2, <1>3, <2>1, ExtendPartial
    <2>3. m' - 1 = m /\ m' - 2 = m - 1
      BY <1>2
    <2>4. ASSUME NEW k \in 1 .. m PROVE OccursAt(parts[k], f[k])'
      BY <1>2, <2>2 DEF OccursAt
    <2>5. f \in Partial'
      BY <1>1, <1>2, <2>2, <2>3, <2>4 DEF Partial
    <2> QED
      BY <2>5
  <1>6. GreedyLosesNoMatch'
    <2>1. Placements' = Placements
      BY <1>2, SameInputs
    <2>2. ASSUME NEW f \in Placements PROVE at' <= f[m + 1]
      <3>1. f[m] \in at .. Len(s) /\ OccursAt(parts[m], f[m])
        BY <1>2, PlacedInRest
      <3>2. p <= f[m]
        BY <1>1, <1>2, <3>1 DEF FoundAt
      <3>3. m \in 1 .. Len(parts) - 1 /\ m + 1 \in 1 .. Len(parts)
        BY <1>2
      <3>4. f \in [1 .. Len(parts) -> 0 .. Len(s)]
        BY DEF Placements
      <3>5. f[m] + Len(parts[m]) <= f[m + 1]
        BY <3>3 DEF Placements
      <3>6. f[m + 1] \in Nat
        BY <1>2, <3>3, <3>4
      <3> QED
        BY <1>1, <1>2, <3>1, <3>2, <3>5, <3>6
    <2> QED
      BY <1>2, <2>1, <2>2 DEF GreedyLosesNoMatch
  <1> QED
    BY <1>2, <1>4, <1>5, <1>6 DEF IInv, GlobIsExact

\* Suffix preserves IInv.
LEMMA SuffixIInv == IInv /\ Suffix => IInv'
  <1> SUFFICES ASSUME IInv, Suffix PROVE IInv'
    OBVIOUS
  <1> DEFINE last == parts[m]
  <1>1. /\ m \in Nat /\ m > 1 /\ m = Len(parts) /\ at \in Nat
        /\ Len(s) \in Nat /\ Len(last) \in Nat /\ pc = "middle"
    BY InputTypes DEF IInv, TypeOK, Suffix
  <1>2. ASSUME EndsWith(last) PROVE Placements # {}
    <2>1. PICK g \in Partial : TRUE
      BY <1>1 DEF IInv
    <2> DEFINE p == Len(s) - Len(last)
    <2>2. p \in at .. Len(s) /\ OccursAt(last, p) /\ p + Len(last) = Len(s)
      BY <1>1, <1>2 DEF EndsWith
    <2> HIDE DEF p
    <2>3. PICK f \in [1 .. m -> 0 .. Len(s)] :
            /\ f[1] = 0 /\ f[m] = p
            /\ \A k \in 1 .. m : OccursAt(parts[k], f[k])
            /\ \A k \in 1 .. m - 1 : f[k] + Len(parts[k]) <= f[k + 1]
      BY <1>1, <2>1, <2>2, ExtendPartial
    <2>4. f \in Placements
      BY <1>1, <2>2, <2>3 DEF Placements
    <2> QED
      BY <2>4
  <1>3. ASSUME Placements # {} PROVE EndsWith(last)
    <2>1. PICK f \in Placements : TRUE
      BY <1>3
    <2>2. f[m] \in at .. Len(s) /\ OccursAt(last, f[m]) /\ f[m] + Len(last) = Len(s)
      BY <1>1, <2>1, PlacedInRest DEF Placements
    <2>3. f[m] = Len(s) - Len(last)
      BY <1>1, <2>2
    <2> QED
      BY <1>1, <2>2, <2>3 DEF EndsWith
  <1>4. EndsWith(last) \in BOOLEAN
    BY DEF EndsWith
  <1> QED
    BY <1>2, <1>3, <1>4, DecideIInv DEF Suffix

\* A step that changes nothing preserves IInv.
LEMMA StutterIInv == IInv /\ UNCHANGED vars => IInv'
  <1> SUFFICES ASSUME IInv, UNCHANGED vars PROVE IInv'
    OBVIOUS
  <1>1. Placements' = Placements
    BY SameInputs DEF vars
  <1>2. Partial' = Partial
    BY DEF vars, Partial, OccursAt
  <1> QED
    BY <1>1, <1>2 DEF IInv, vars, TypeOK, GreedyLosesNoMatch, GlobIsExact

\* IInv is an invariant of the specification: it holds at first and every
\* action preserves it.
THEOREM SpecIInv == Spec => []IInv
  <1>1. IInv /\ [Next]_vars => IInv'
    BY WholeIInv, NoPrefixIInv, PrefixIInv, NoMiddleIInv, MiddleIInv, SuffixIInv,
       StutterIInv DEF Next
  <1> QED
    BY InitIInv, <1>1, PTL DEF Spec

\* Glob never slices its string out of bounds.
THEOREM TypeCorrect == Spec => []TypeOK
  <1>1. IInv => TypeOK
    BY DEF IInv
  <1> QED
    BY <1>1, SpecIInv, PTL

\* For every pattern and every string, Glob returns true exactly when the
\* parts of the pattern can be placed in the string.
THEOREM GlobExact == Spec => []GlobIsExact
  <1>1. IInv => GlobIsExact
    BY DEF IInv
  <1> QED
    BY <1>1, SpecIInv, PTL

\* The first occurrence of a part never loses a match.
THEOREM GreedyComplete == Spec => []GreedyLosesNoMatch
  <1>1. IInv => GreedyLosesNoMatch
    BY DEF IInv
  <1> QED
    BY <1>1, SpecIInv, PTL

=============================================================================
