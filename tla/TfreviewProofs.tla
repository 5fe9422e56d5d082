--------------------------- MODULE TfreviewProofs ---------------------------
(***************************************************************************)
(* Proofs about the whole command, for every rules file, plan and call: its *)
(* stages hand each other what they rely on, and together they keep the     *)
(* safety half of the promise of Cli.  The invariants of RulesLoad and      *)
(* Classify are taken from the proofs about them.                           *)
(***************************************************************************)
EXTENDS Tfreview, FiniteSetTheorems, SequenceTheorems, WellFoundedInduction, TLAPS

LP == INSTANCE RulesLoadProofs
CP == INSTANCE ClassifyProofs WITH
        Plans <- Seq(Changes), RuleSets <- LoadedSets, plan <- changes

-----------------------------------------------------------------------------
(* The numbers in a set, in order. *)

Numbered(S, k) == {n \in S : Cardinality({m \in S : m <= n}) = k}

\* Ascending numbers the elements of a finite set.
LEMMA AscendingDef ==
    ASSUME NEW n \in Nat, NEW S \in SUBSET (1 .. n)
    PROVE  /\ IsFiniteSet(S) /\ Cardinality(S) \in Nat
           /\ S \in SUBSET Nat
           /\ Ascending[S] = [k \in 1 .. Cardinality(S) |-> CHOOSE m \in Numbered(S, k) : TRUE]
  <1>1. IsFiniteSet(1 .. n)
    BY FS_Interval
  <1>2. IsFiniteSet(S)
    BY <1>1, FS_Subset
  <1> QED
    BY <1>2, FS_CardinalityType DEF Ascending, Numbered

\* A number after all others comes last.
LEMMA AscendingNext ==
    ASSUME NEW n \in Nat, NEW S \in SUBSET (1 .. n)
    PROVE  Ascending[S \cup {n + 1}] = Append(Ascending[S], n + 1)
  <1> DEFINE T == S \cup {n + 1}
             c == Cardinality(S)
  <1>1. /\ IsFiniteSet(S) /\ c \in Nat /\ S \in SUBSET Nat
        /\ Ascending[S] = [k \in 1 .. c |-> CHOOSE m \in Numbered(S, k) : TRUE]
    BY AscendingDef
  <1>2. n + 1 \notin S
    OBVIOUS
  <1>3. Cardinality(T) = c + 1
    BY <1>1, <1>2, FS_AddElement
  <1>4. Ascending[T] = [k \in 1 .. c + 1 |-> CHOOSE m \in Numbered(T, k) : TRUE]
    <2>1. n + 1 \in Nat /\ T \in SUBSET (1 .. n + 1)
      OBVIOUS
    <2> HIDE DEF T
    <2> QED
      BY <1>3, <2>1, AscendingDef
  <1>5. ASSUME NEW x \in S
        PROVE  /\ {m \in T : m <= x} = {m \in S : m <= x}
               /\ Cardinality({m \in S : m <= x}) <= c
    <2>1. {m \in T : m <= x} = {m \in S : m <= x}
      OBVIOUS
    <2>2. {m \in S : m <= x} \in SUBSET S
      OBVIOUS
    <2> QED
      BY <1>1, <2>1, <2>2, FS_Subset
  <1>6. {m \in T : m <= n + 1} = T
    <2>1. \A x \in T : x <= n + 1
      OBVIOUS
    <2> HIDE DEF T
    <2> QED
      BY <2>1
  <1>7. ASSUME NEW k \in 1 .. c PROVE Numbered(T, k) = Numbered(S, k)
    <2>1. n + 1 \notin Numbered(T, k)
      <3>1. c + 1 # k
        BY <1>1
      <3> QED
        BY <1>3, <1>6, <3>1 DEF Numbered
    <2>2. ASSUME NEW x \in S PROVE x \in Numbered(T, k) <=> x \in Numbered(S, k)
      BY <1>5 DEF Numbered
    <2> QED
      BY <2>1, <2>2 DEF Numbered
  <1>8. Numbered(T, c + 1) = {n + 1}
    <2>1. n + 1 \in Numbered(T, c + 1)
      BY <1>3, <1>6 DEF Numbered
    <2>2. ASSUME NEW x \in S PROVE x \notin Numbered(T, c + 1)
      <3>1. Cardinality({m \in T : m <= x}) <= c
        BY <1>5
      <3>2. ~(c + 1 <= c)
        BY <1>1
      <3> HIDE DEF c
      <3> QED
        BY <3>1, <3>2 DEF Numbered
    <2> QED
      BY <2>1, <2>2 DEF Numbered
  <1> HIDE DEF T, c
  <1>9. Len(Ascending[S]) = c /\ Ascending[S] \in Seq({Ascending[S][k] : k \in 1 .. c})
    BY <1>1
  <1>10. Append(Ascending[S], n + 1)
           = [k \in 1 .. c + 1 |-> IF k <= c THEN Ascending[S][k] ELSE n + 1]
    BY <1>1, <1>9
  <1>11. ASSUME NEW k \in 1 .. c + 1
         PROVE  (CHOOSE m \in Numbered(T, k) : TRUE)
                  = IF k <= c THEN Ascending[S][k] ELSE n + 1
    <2>1. CASE k <= c
      BY <1>1, <1>7, <2>1
    <2>2. CASE k = c + 1
      BY <1>1, <1>8, <2>2
    <2> QED
      BY <1>1, <2>1, <2>2
  <1> DEFINE nth(k) == CHOOSE m \in Numbered(T, k) : TRUE
             is(k) == IF k <= c THEN Ascending[S][k] ELSE n + 1
  <1>12. [k \in 1 .. c + 1 |-> nth(k)] = [k \in 1 .. c + 1 |-> is(k)]
    <2>1. \A k \in 1 .. c + 1 : nth(k) = is(k)
      BY <1>11
    <2> HIDE DEF nth, is
    <2> QED
      BY <2>1
  <1> QED
    BY <1>4, <1>10, <1>12, Zenon DEF T

\* Numbering nothing gives nothing.
LEMMA AscendingEmpty == Ascending[{}] = << >>
  <1>1. {} \in SUBSET (1 .. 0) /\ 0 \in Nat
    OBVIOUS
  <1>2. Cardinality({}) = 0
    BY FS_EmptySet
  <1>3. Ascending[{}] = [k \in 1 .. Cardinality({}) |-> CHOOSE m \in Numbered({}, k) : TRUE]
    BY <1>1, AscendingDef
  <1> QED
    BY <1>2, <1>3

\* What is numbered are the elements of the set, each at some place.
EachOnce(S) ==
    /\ Ascending[S] \in Seq(S)
    /\ Len(Ascending[S]) = Cardinality(S)
    /\ \A m \in S : \E k \in DOMAIN Ascending[S] : Ascending[S][k] = m

\* Ascending numbers every set of numbers that has a bound: a set with the
\* least bound that it fails for would have a largest element to leave out.
LEMMA AscendingType == \A n \in Nat : \A S \in SUBSET (1 .. n) : EachOnce(S)
  <1> DEFINE bad == {n \in Nat : \E S \in SUBSET (1 .. n) : ~EachOnce(S)}
  <1>1. SUFFICES ASSUME bad # {} PROVE FALSE
    OBVIOUS
  <1>2. PICK n \in bad : \A k \in bad : <<k, n>> \notin OpToRel(<, Nat)
    <2>1. bad \subseteq Nat
      OBVIOUS
    <2> HIDE DEF bad
    <2> QED
      BY <1>1, <2>1, WFMin, NatLessThanWellFounded
  <1>3. n \in Nat /\ \A k \in Nat : k < n => \A S \in SUBSET (1 .. k) : EachOnce(S)
    BY <1>2 DEF OpToRel
  <1>4. PICK S \in SUBSET (1 .. n) : ~EachOnce(S)
    BY <1>2
  <1>5. ASSUME n = 0 PROVE FALSE
    <2>1. S = {}
      BY <1>4, <1>5
    <2> QED
      BY <1>4, <2>1, AscendingEmpty, FS_EmptySet DEF EachOnce
  <1>6. ASSUME n # 0 PROVE FALSE
    <2> DEFINE R == S \ {n}
    <2>1. n - 1 \in Nat /\ n - 1 < n /\ n - 1 + 1 = n /\ R \in SUBSET (1 .. n - 1)
      BY <1>3, <1>6
    <2>2. EachOnce(R)
      BY <1>3, <2>1
    <2>3. CASE n \notin S
      <3>1. R = S
        BY <2>3
      <3> QED
        BY <1>4, <2>2, <3>1
    <2>4. CASE n \in S
      <3>1. R \cup {n} = S
        BY <2>4
      <3>2. Ascending[S] = Append(Ascending[R], n)
        BY <2>1, <3>1, AscendingNext
      <3>3. Cardinality(S) = Cardinality(R) + 1
        BY <2>1, <3>1, AscendingDef, FS_AddElement
      <3> HIDE DEF R
      <3>4. Ascending[R] \in Seq(S)
        BY <2>2, <3>1 DEF EachOnce
      <3>5. /\ Append(Ascending[R], n) \in Seq(S)
            /\ Len(Append(Ascending[R], n)) = Len(Ascending[R]) + 1
            /\ \A k \in 1 .. Len(Ascending[R]) : Append(Ascending[R], n)[k] = Ascending[R][k]
            /\ Append(Ascending[R], n)[Len(Ascending[R]) + 1] = n
        BY <2>4, <3>4, AppendProperties
      <3>6. Len(Ascending[R]) \in Nat /\ DOMAIN Ascending[R] = 1 .. Len(Ascending[R])
            /\ DOMAIN Ascending[S] = 1 .. Len(Ascending[R]) + 1
        BY <3>2, <3>4, <3>5, LenProperties
      <3>7. ASSUME NEW m \in S PROVE \E k \in DOMAIN Ascending[S] : Ascending[S][k] = m
        <4>1. CASE m = n
          BY <3>2, <3>5, <3>6, <4>1
        <4>2. CASE m \in R
          <5>1. PICK k \in 1 .. Len(Ascending[R]) : Ascending[R][k] = m
            BY <2>2, <3>6, <4>2 DEF EachOnce
          <5>2. Ascending[S][k] = m
            BY <3>2, <3>5, <5>1
          <5>3. k \in DOMAIN Ascending[S]
            BY <3>6, <5>1
          <5> QED
            BY <5>2, <5>3
        <4> QED
          BY <3>1, <4>1, <4>2
      <3> QED
        BY <1>4, <2>2, <3>2, <3>3, <3>5, <3>7 DEF EachOnce
    <2> QED
      BY <2>3, <2>4
  <1> QED
    BY <1>5, <1>6

-----------------------------------------------------------------------------
(* The instances: what each module takes from the ones it extends is the    *)
(* same everywhere.                                                         *)

\* What Load relies on holds of the files the command may be given.
LEMMA LoadIsGivenFiles ==
    /\ \A f \in Files : LP!RawFile(f)
    /\ LP!NoName \notin RuleIDs \cup DOMAIN Registry
    /\ \A name \in DOMAIN Registry : Registry[name] \subseteq LP!Changes
  <1>1. \A f : L!RawFile(f) <=> LP!RawFile(f)
    BY DEF L!RawFile, LP!RawFile, L!RawRule, LP!RawRule, L!NoName, LP!NoName
  <1>2. L!NoName = LP!NoName /\ Changes = LP!Changes
    BY DEF L!NoName, LP!NoName, Changes, LP!Changes, Modes, LP!Modes, Actions, LP!Actions
  <1> QED
    BY <1>1, <1>2, InputsAreDecoded

\* What Classify relies on holds of the sets Load returns.
LEMMA ClassifyIsGivenSets ==
    /\ Seq(Changes) \subseteq Seq(CP!Changes) /\ LoadedSets \subseteq Seq(CP!Rules)
    /\ \A rs \in LoadedSets : \A k, l \in DOMAIN rs : rs[k].id = rs[l].id => k = l
  <1>1. Changes = CP!Changes
    BY DEF Changes, CP!Changes, Modes, CP!Modes, Actions, CP!Actions
  <1>2. Rules = CP!Rules
    BY <1>1 DEF Rules, CP!Rules, Actions, CP!Actions, Severities, CP!Severities,
                None, CP!None, Low, CP!Low, Medium, CP!Medium, High, CP!High
  <1> QED
    BY <1>1, <1>2 DEF LoadedSets

\* The loader proved about compiles rules as the command's does.
LEMMA SameCompiled == \A rr : L!Compiled(rr) = LP!Compiled(rr)
  BY DEF L!Compiled, LP!Compiled, L!SeverityOf, LP!SeverityOf, L!CompileGlobs, LP!CompileGlobs,
         L!BadGlobs, LP!BadGlobs, L!Selectable, LP!Selectable, L!Actions, LP!Actions,
         L!NoName, LP!NoName, L!High, LP!High, L!Medium, LP!Medium, L!Low, LP!Low,
         L!None, LP!None

\* It finds the same faults in a rule.
LEMMA SameFaults == \A rr : L!Faults(rr) = LP!Faults(rr)
  BY DEF L!Faults, LP!Faults, L!SeverityOf, LP!SeverityOf, L!BadGlobs, LP!BadGlobs,
         L!Selectable, LP!Selectable, L!Actions, LP!Actions, L!NoName, LP!NoName,
         L!High, LP!High, L!Medium, LP!Medium, L!Low, LP!Low, L!None, LP!None

\* The steps of Load are those its proofs are about.
LEMMA LoadIsLoad == (L!Init <=> LP!Init) /\ (L!Next <=> LP!Next)
  <1>1. L!Init <=> LP!Init
    BY DEF L!Init, LP!Init
  <1>2. L!DecodeFails <=> LP!DecodeFails
    BY DEF L!DecodeFails, LP!DecodeFails, L!Refuse, LP!Refuse
  <1>3. L!WrongVersion <=> LP!WrongVersion
    BY DEF L!WrongVersion, LP!WrongVersion, L!Refuse, LP!Refuse
  <1>4. L!ReadUnmatched <=> LP!ReadUnmatched
    BY DEF L!ReadUnmatched, LP!ReadUnmatched, L!NoName, LP!NoName, L!Verdicts, LP!Verdicts
  <1>5. L!CompileRule <=> LP!CompileRule
    BY SameCompiled, SameFaults DEF L!CompileRule, LP!CompileRule, L!Blame, LP!Blame,
       L!CompileErrors, LP!CompileErrors, L!Duplicate, LP!Duplicate, L!NoName, LP!NoName
  <1>6. L!RefuseAll <=> LP!RefuseAll
    BY DEF L!RefuseAll, LP!RefuseAll, L!Refuse, LP!Refuse
  <1>7. L!Accept <=> LP!Accept
    BY DEF L!Accept, LP!Accept
  <1> QED
    BY <1>1, <1>2, <1>3, <1>4, <1>5, <1>6, <1>7 DEF L!Next, LP!Next

\* The steps of Classify are those its proofs are about.
LEMMA ClassifyIsClassify == C!Next <=> CP!Next
  BY DEF C!Next, CP!Next, C!SkipData, CP!SkipData, C!StartChange, CP!StartChange,
         C!TryRule, CP!TryRule, C!DropNoOp, CP!DropNoOp, C!Keep, CP!Keep,
         C!AddMatch, CP!AddMatch, C!Dropped, CP!Dropped, C!Matched, CP!Matched,
         C!Match, CP!Match, C!AnyGlob, CP!AnyGlob, C!Hit, CP!Hit, C!NoResult, CP!NoResult,
         C!None, CP!None

\* A set of rules Load returns is one Classify can use, and its rules match,
\* are named and are ranked as the rules of the file are by Cli.
LEMMA LoadedRules ==
    ASSUME LP!IInv, lpc = "loaded"
    PROVE  /\ rules \in LoadedSets /\ DOMAIN rules = DOMAIN file.rules
           /\ \A k \in DOMAIN rules :
                /\ rules[k].id = file.rules[k].id
                /\ file.rules[k].severity \in DOMAIN K!Level
                /\ rules[k].severity = K!Level[file.rules[k].severity]
                /\ rules[k].predicate # {} <=> file.rules[k].predicate # K!NoName
                /\ \A c \in Changes : C!Match(rules[k], c) <=> K!Says(file.rules[k], c)
  <1>1. /\ LP!TypeOK /\ LP!IdsAreUnique /\ LP!LoadedRulesMatchAsWritten
    BY LP!TypesOfIInv, LP!LoadedIdsAreUnique, LP!LoadedRulesMatch, LoadIsGivenFiles
  <1>2. \A k \in 1 .. Len(rules) :
           /\ rules[k].id = file.rules[k].id
           /\ rules[k].severity = LP!SeverityOf(file.rules[k].severity)
           /\ file.rules[k].severity \in {"low", "medium", "high"}
           /\ rules[k].predicate # {} <=> file.rules[k].predicate # LP!NoName
    BY LP!LoadedFields, LoadIsGivenFiles
  <1>3. Rules = LP!Rules /\ Changes = LP!Changes
    BY DEF Rules, LP!Rules, Changes, LP!Changes, Modes, LP!Modes, Actions, LP!Actions,
           Severities, LP!Severities, None, LP!None, Low, LP!Low, Medium, LP!Medium,
           High, LP!High
  <1>4. rules \in Seq(Rules) /\ DOMAIN rules = 1 .. Len(rules)
    BY <1>1, <1>3, LenProperties DEF LP!TypeOK
  <1>5. rules \in LoadedSets
    BY <1>1, <1>4 DEF LP!IdsAreUnique, LoadedSets
  <1>6. \A r, c : LP!Match(r, c) <=> C!Match(r, c)
    BY DEF LP!Match, LP!AnyGlob, C!Match, C!AnyGlob
  <1>7. \A rr, c : LP!Says(rr, c) <=> K!Says(rr, c)
    BY DEF LP!Says, K!Says, LP!NoName, K!NoName
  <1>8. \A name \in {"low", "medium", "high"} :
           name \in DOMAIN K!Level /\ LP!SeverityOf(name) = K!Level[name]
    BY DEF K!Level, LP!SeverityOf, LP!Low, K!Low, LP!Medium, K!Medium, LP!High, K!High
  <1>9. DOMAIN file.rules = 1 .. Len(rules)
    <2>1. DOMAIN file.rules = 1 .. Len(file.rules) /\ file \in Files
      BY LP!FileType, LoadIsGivenFiles, <1>1 DEF LP!TypeOK
    <2> QED
      BY <1>1, <2>1 DEF LP!LoadedRulesMatchAsWritten
  <1>10. K!NoName = LP!NoName
    BY DEF K!NoName, LP!NoName
  <1>11. \A k \in 1 .. Len(rules) :
            \A c \in Changes : LP!Match(rules[k], c) <=> LP!Says(file.rules[k], c)
    BY <1>1, <1>3 DEF LP!LoadedRulesMatchAsWritten
  <1> QED
    BY <1>2, <1>4, <1>5, <1>6, <1>7, <1>8, <1>9, <1>10, <1>11

\* Load accepts the files Cli calls in order.
LEMMA AcceptedFiles ==
    LP!IInv => (lpc = "loaded" => K!InOrder(file)) /\ (lpc = "refused" => ~K!InOrder(file))
  <1>1. LP!InOrder(file) <=> K!InOrder(file)
    BY DEF LP!InOrder, K!InOrder, LP!BadRulesIn, K!BadRulesIn, LP!BadVerdictIn, K!BadVerdictIn,
           LP!IllFormed, K!IllFormed, LP!NoName, K!NoName, LP!Verdicts, K!Verdicts,
           LP!Actions, K!Actions
  <1> QED
    BY <1>1, LP!AcceptedIsInOrder, LoadIsGivenFiles

-----------------------------------------------------------------------------
(* Parsing: the changes are the mapped entries of the document, in order.   *)

\* MapActions names an actions array as Cli does, and nothing it maps an array
\* with a delete to is harmless.
LEMMA ActionIsMapped ==
    ASSUME NEW s \in Seq(STRING)
    PROVE  /\ K!ActionOf(s) = P!MapActions(s)
           /\ P!MapActions(s) \in Actions
           /\ (\E m \in DOMAIN s : s[m] = "delete") =>
                P!MapActions(s) \in {"delete", "replace", "unknown"}
  <1> DEFINE spelled(a) == s \in K!Spellings(a)
  <1>1. Len(s) \in Nat /\ DOMAIN s = 1 .. Len(s) /\ \A m \in 1 .. Len(s) : s[m] \in STRING
    BY LenProperties
  <1>2. K!Actions = Actions /\ Actions = P!Single \cup {"replace", "unknown"}
    BY DEF K!Actions, Actions, P!Single
  <1>3. /\ spelled("replace") <=> s \in {<<"delete", "create">>, <<"create", "delete">>}
        /\ ~spelled("unknown")
    BY DEF K!Spellings
  <1>4. ASSUME NEW a \in P!Single PROVE spelled(a) <=> Len(s) = 1 /\ s[1] = a
    <2>1. K!Spellings(a) = {<<a>>}
      BY <1>4 DEF K!Spellings, P!Single
    <2>2. s = <<a>> <=> Len(s) = 1 /\ s[1] = a
      BY <1>1
    <2> QED
      BY <2>1, <2>2
  <1>5. s \in {<<"delete", "create">>, <<"create", "delete">>} => Len(s) = 2
    OBVIOUS
  <1> HIDE DEF spelled
  <1>6. CASE Len(s) = 1 /\ s[1] \in P!Single
    <2>1. P!MapActions(s) = s[1]
      BY <1>6 DEF P!MapActions
    <2>2. \A a \in Actions : spelled(a) <=> a = s[1]
      BY <1>2, <1>3, <1>4, <1>5, <1>6
    <2>3. K!ActionOf(s) = s[1]
      BY <1>2, <1>6, <2>2 DEF K!ActionOf, spelled
    <2> QED
      BY <1>1, <1>2, <1>6, <2>1, <2>3
  <1>7. CASE s \in {<<"delete", "create">>, <<"create", "delete">>}
    <2>1. P!MapActions(s) = "replace"
      BY <1>5, <1>7 DEF P!MapActions
    <2>2. \A a \in Actions : spelled(a) <=> a = "replace"
      BY <1>2, <1>3, <1>4, <1>5, <1>7 DEF P!Single
    <2>3. K!ActionOf(s) = "replace"
      BY <1>2, <2>2 DEF K!ActionOf, spelled
    <2> QED
      BY <1>2, <2>1, <2>3
  <1>8. CASE /\ ~(Len(s) = 1 /\ s[1] \in P!Single)
             /\ s \notin {<<"delete", "create">>, <<"create", "delete">>}
    <2>1. P!MapActions(s) = "unknown"
      BY <1>8 DEF P!MapActions
    <2>2. \A a \in Actions : ~spelled(a)
      BY <1>2, <1>3, <1>4, <1>8
    <2>3. K!ActionOf(s) = "unknown"
      BY <1>2, <2>2 DEF K!ActionOf, spelled
    <2> QED
      BY <1>2, <2>1, <2>3
  <1> QED
    BY <1>6, <1>7, <1>8

\* The document is typed.
LEMMA EntryType ==
    ASSUME input \in Inputs
    PROVE  /\ Len(input.entries) \in Nat /\ DOMAIN input.entries = 1 .. Len(input.entries)
           /\ \A n \in DOMAIN input.entries :
                /\ K!ChangeAt(n) \in Changes
                /\ K!ChangeAt(n).mode = input.entries[n].mode
                /\ K!ChangeAt(n).address = input.entries[n].address
                /\ K!ChangeAt(n).action = P!MapActions(input.entries[n].actions)
                /\ input.entries[n].actions \in Seq(STRING)
  <1>1. P!PlanText(input)
    BY InputsAreDecoded
  <1>2. Len(input.entries) \in Nat /\ DOMAIN input.entries = 1 .. Len(input.entries)
    BY <1>1, LenProperties DEF P!PlanText
  <1>3. ASSUME NEW n \in DOMAIN input.entries
        PROVE  /\ K!ChangeAt(n) \in Changes
               /\ K!ChangeAt(n).mode = input.entries[n].mode
               /\ K!ChangeAt(n).address = input.entries[n].address
               /\ K!ChangeAt(n).action = P!MapActions(input.entries[n].actions)
               /\ input.entries[n].actions \in Seq(STRING)
    <2>1. /\ input.entries[n].mode \in Modes /\ input.entries[n].type \in Types
          /\ input.entries[n].address \in Addresses /\ input.entries[n].body \in Bodies
          /\ input.entries[n].actions \in Seq(STRING)
      <3> DEFINE E == [mode : P!Modes, type : Types, address : Addresses,
                       actions : Seq(STRING), body : Bodies,
                       index : P!Segments, paths : Seq(Seq(P!Segments))]
      <3>1. input.entries \in Seq(E)
        BY <1>1 DEF P!PlanText
      <3>2. input.entries[n] \in E
        <4> HIDE DEF E
        <4> QED
          BY <1>2, <3>1
      <3> QED
        BY <3>2 DEF Modes, P!Modes
    <2>2. K!ActionOf(input.entries[n].actions) \in Actions
      BY <2>1, ActionIsMapped
    <2> QED
      BY <2>1, <2>2, ActionIsMapped DEF K!ChangeAt, K!Entry, Changes
  <1> QED
    BY <1>2, <1>3

UnrecognisedUpTo(m) == {n \in 1 .. m : K!ChangeAt(n).action = "unknown"}

\* What Parse has read of the document so far.
PInv ==
    /\ input \in Inputs
    /\ ppc \in {"read", "changes", "parsed", "failed"}
    /\ changes \in Seq(Changes)
    /\ Len(changes) <= Len(input.entries)
    /\ \A n \in 1 .. Len(changes) : changes[n] = K!ChangeAt(n)
    /\ \E R : details \in Seq(R)
    /\ Len(details) = Len(changes)
    /\ warnings = Ascending[UnrecognisedUpTo(Len(changes))]
    /\ ppc = "failed" => ~(input.reads /\ input.text = "document" /\ input.version[1] = "1")
    /\ ppc \in {"changes", "parsed"} =>
         /\ input.reads /\ input.text = "document" /\ input.version[1] = "1"
         /\ errored = input.errored /\ complete = (input.complete # "false")
    /\ ppc = "parsed" => Len(changes) = Len(input.entries)

\* The reader starts with nothing read.
LEMMA InitPInv == P!Init => PInv
  <1> SUFFICES ASSUME P!Init PROVE PInv
    OBVIOUS
  <1>1. /\ input \in Inputs /\ changes = << >> /\ details = << >> /\ warnings = << >>
        /\ ppc = "read"
    BY DEF P!Init
  <1>2. Len(changes) = 0 /\ Len(details) = 0 /\ changes \in Seq(Changes) /\ details \in Seq({})
    BY <1>1, EmptySeq
  <1>3. UnrecognisedUpTo(Len(changes)) = {}
    BY <1>2 DEF UnrecognisedUpTo
  <1>4. warnings = Ascending[UnrecognisedUpTo(Len(changes))]
    BY <1>1, <1>3, AscendingEmpty
  <1>5. \E R : details \in Seq(R)
    BY <1>2
  <1> QED
    BY <1>1, <1>2, <1>4, <1>5, EntryType DEF PInv

\* The document stays what it is, and with it what Cli says of it.
LEMMA SameChanges ==
    ASSUME input' = input
    PROVE  /\ \A n : K!ChangeAt(n)' = K!ChangeAt(n)
           /\ \A m : UnrecognisedUpTo(m)' = UnrecognisedUpTo(m)
  <1>1. \A n : K!ChangeAt(n)' = K!ChangeAt(n)
    BY DEF K!ChangeAt, K!Entry
  <1> QED
    BY <1>1 DEF UnrecognisedUpTo

\* A further change is that of the next entry.
LEMMA MapChangePInv == PInv /\ P!MapChange => PInv'
  <1> SUFFICES ASSUME PInv, P!MapChange PROVE PInv'
    OBVIOUS
  <1> DEFINE n == Len(changes) + 1
             rc == input.entries[n]
             c == [mode |-> rc.mode, action |-> P!MapActions(rc.actions), type |-> rc.type,
                   address |-> rc.address, body |-> rc.body]
  <1>1. /\ input' = input /\ ppc' = ppc /\ ppc = "changes" /\ errored' = errored
        /\ complete' = complete /\ changes' = Append(changes, c)
        /\ Len(changes) < Len(input.entries)
    BY DEF P!MapChange
  <1>2. PICK d : details' = Append(details, d)
    BY DEF P!MapChange
  <1>3. warnings' = IF c.action = "unknown" THEN Append(warnings, n) ELSE warnings
    BY DEF P!MapChange
  <1>4. /\ changes \in Seq(Changes) /\ Len(changes) \in Nat /\ Len(input.entries) \in Nat
        /\ n \in DOMAIN input.entries /\ n \in 1 .. Len(input.entries)
    BY <1>1, EntryType, LenProperties DEF PInv
  <1>5. c = K!ChangeAt(n) /\ c \in Changes
    <2>1. K!ChangeAt(n) \in Changes /\ K!ChangeAt(n).action = P!MapActions(rc.actions)
      BY <1>4, EntryType DEF PInv
    <2>2. c = K!ChangeAt(n)
      BY <2>1 DEF K!ChangeAt, K!Entry
    <2> QED
      BY <2>1, <2>2
  <1>6. /\ \A m : K!ChangeAt(m)' = K!ChangeAt(m)
        /\ \A m : UnrecognisedUpTo(m)' = UnrecognisedUpTo(m)
    BY <1>1, SameChanges
  <1> HIDE DEF c
  <1>7. /\ changes' \in Seq(Changes) /\ Len(changes') = n
        /\ \A m \in 1 .. Len(changes) : changes'[m] = changes[m]
        /\ changes'[n] = c
    BY <1>1, <1>4, <1>5, AppendProperties
  <1>8. ASSUME NEW m \in 1 .. Len(changes') PROVE changes'[m] = K!ChangeAt(m)'
    <2>1. CASE m = n
      BY <1>5, <1>6, <1>7, <2>1
    <2>2. CASE m # n
      <3>1. m \in 1 .. Len(changes)
        BY <1>4, <1>7, <2>2
      <3> QED
        BY <1>6, <1>7, <3>1 DEF PInv
    <2> QED
      BY <2>1, <2>2
  <1>9. (\E R : details' \in Seq(R)) /\ Len(details') = n
    <2>1. PICK R : details \in Seq(R)
      BY DEF PInv
    <2>2. details \in Seq(R \cup {d})
      BY <2>1
    <2>3. Append(details, d) \in Seq(R \cup {d}) /\ Len(Append(details, d)) = Len(details) + 1
      BY <2>2, AppendProperties
    <2> QED
      BY <1>2, <2>3 DEF PInv
  <1>10. warnings' = Ascending[UnrecognisedUpTo(n)]
    <2> DEFINE U == UnrecognisedUpTo(Len(changes))
    <2>1. U \in SUBSET (1 .. Len(changes)) /\ warnings = Ascending[U]
      BY DEF UnrecognisedUpTo, PInv
    <2>2. CASE c.action = "unknown"
      <3>1. UnrecognisedUpTo(n) = U \cup {n}
        BY <1>4, <1>5, <2>2 DEF UnrecognisedUpTo
      <3> HIDE DEF U
      <3>2. Ascending[U \cup {n}] = Append(Ascending[U], n)
        BY <1>4, <2>1, AscendingNext
      <3> QED
        BY <1>3, <2>1, <2>2, <3>1, <3>2
    <2>3. CASE c.action # "unknown"
      <3>1. UnrecognisedUpTo(n) = U
        BY <1>4, <1>5, <2>3 DEF UnrecognisedUpTo
      <3> QED
        BY <1>3, <2>1, <2>3, <3>1
    <2> QED
      BY <2>2, <2>3
  <1>11. n <= Len(input.entries)
    BY <1>4
  <1> HIDE DEF n, rc
  <1> QED
    BY <1>1, <1>6, <1>7, <1>8, <1>9, <1>10, <1>11 DEF PInv

\* A step of Parse preserves PInv and leaves the document alone.
LEMMA NextPInv == PInv /\ P!Next => PInv' /\ input' = input
  <1> SUFFICES ASSUME PInv, P!Next PROVE PInv' /\ input' = input
    OBVIOUS
  <1>1. CASE P!ReadFails \/ P!Blank \/ P!BadJSON \/ P!BadVersion
    <2>1. /\ ppc' = "failed" /\ input' = input /\ changes' = changes /\ details' = details
          /\ warnings' = warnings
          /\ ~(input.reads /\ input.text = "document" /\ input.version[1] = "1")
      BY <1>1 DEF P!ReadFails, P!Blank, P!BadJSON, P!BadVersion, P!Fail, P!SupportedVersion
    <2> QED
      BY <2>1, SameChanges DEF PInv
  <1>2. CASE P!Decode
    <2>1. /\ ppc' = "changes" /\ input' = input /\ changes' = changes /\ details' = details
          /\ warnings' = warnings
          /\ input.reads /\ input.text = "document" /\ input.version[1] = "1"
          /\ errored' = input.errored /\ complete' = (input.complete # "false")
      BY <1>2 DEF P!Decode, P!SupportedVersion
    <2> QED
      BY <2>1, SameChanges DEF PInv
  <1>3. CASE P!MapChange
    BY <1>3, MapChangePInv DEF P!MapChange
  <1>4. CASE P!Finish
    <2>1. /\ ppc = "changes" /\ ppc' = "parsed" /\ input' = input /\ changes' = changes
          /\ details' = details /\ warnings' = warnings /\ errored' = errored
          /\ complete' = complete /\ Len(changes) = Len(input.entries)
      BY <1>4 DEF P!Finish
    <2> QED
      BY <2>1, SameChanges DEF PInv
  <1> QED
    BY <1>1, <1>2, <1>3, <1>4 DEF P!Next

\* A step of another stage preserves PInv.
LEMMA StutterPInv == PInv /\ UNCHANGED pvars => PInv'
  BY SameChanges DEF PInv, pvars

-----------------------------------------------------------------------------
(* Classifying: the results are those of the changes that are in the        *)
(* review, in order, each with the rules that match it, in order.           *)

Matching(n, m) == {k \in 1 .. m : C!Match(rules[k], changes[n])}
HitsOf(ks) == [m \in DOMAIN ks |-> C!Hit(rules[ks[m]])]

Reviewed(n) ==
    /\ changes[n].mode # "data"
    /\ changes[n].action = "no-op" => Matching(n, Len(rules)) # {}
ReviewedUpTo(m) == {n \in 1 .. m : Reviewed(n)}

IsResultOf(result, n) ==
    /\ result.change = changes[n]
    /\ result.matches = HitsOf(Ascending[Matching(n, Len(rules))])

OInv ==
    /\ pc = "rules" => changes[i].mode # "data" /\ res.matches = HitsOf(Ascending[Matching(i, j - 1)])
    /\ Len(out) = Cardinality(ReviewedUpTo(i - 1))
    /\ \A k \in 1 .. Len(out) : IsResultOf(out[k], Ascending[ReviewedUpTo(i - 1)][k])

\* The loops of Classify stay in range.
LEMMA ClassifyTypes ==
    ASSUME CP!IInv
    PROVE  /\ Len(changes) \in Nat /\ Len(rules) \in Nat
           /\ i \in 1 .. Len(changes) + 1 /\ j \in 1 .. Len(rules) + 1
           /\ i \in Nat /\ j \in Nat /\ i - 1 \in Nat /\ j - 1 \in Nat
           /\ pc = "rules" => i <= Len(changes)
           /\ res.matches \in Seq(CP!Hits)
           /\ \E R : out \in Seq(R)
           /\ \A k \in 1 .. Len(out) : out[k].severity \in Nat
  <1>1. CP!TypeOK
    BY DEF CP!IInv
  <1>2. Len(changes) \in Nat /\ Len(rules) \in Nat
    BY <1>1, CP!InputTypes, ClassifyIsGivenSets
  <1>3. /\ i \in 1 .. Len(changes) + 1 /\ j \in 1 .. Len(rules) + 1
        /\ pc = "rules" => i <= Len(changes)
    BY <1>1 DEF CP!TypeOK
  <1>4. res.matches \in Seq(CP!Hits)
    BY <1>1 DEF CP!TypeOK
  <1> DEFINE X == [change : CP!Changes, matches : Seq(CP!Hits), severity : CP!Severities]
  <1>5. out \in Seq(X)
    BY <1>1 DEF CP!TypeOK
  <1>6. \A k \in 1 .. Len(out) : out[k].severity \in Nat
    <2>1. \A x \in X : x.severity \in Nat
      BY DEF CP!Severities, CP!None, CP!Low, CP!Medium, CP!High
    <2> HIDE DEF X
    <2>2. \A k \in 1 .. Len(out) : out[k] \in X
      BY <1>5
    <2> QED
      BY <2>1, <2>2
  <1> QED
    BY <1>2, <1>3, <1>4, <1>5, <1>6

\* The numbers of matching rules, and the hits of them.
LEMMA MatchingType ==
    ASSUME NEW n, NEW m \in Nat
    PROVE  /\ Matching(n, m) \in SUBSET (1 .. m)
           /\ Ascending[Matching(n, m)] \in Seq(1 .. m)
           /\ Len(Ascending[Matching(n, m)]) = Cardinality(Matching(n, m))
           /\ Cardinality(Matching(n, m)) = 0 <=> Matching(n, m) = {}
  <1>1. Matching(n, m) \in SUBSET (1 .. m)
    BY DEF Matching
  <1> HIDE DEF Matching
  <1>2. EachOnce(Matching(n, m))
    BY <1>1, AscendingType
  <1>3. Cardinality(Matching(n, m)) = 0 <=> Matching(n, m) = {}
    BY <1>1, AscendingDef, FS_EmptySet
  <1>4. Seq(Matching(n, m)) \subseteq Seq(1 .. m)
    BY <1>1
  <1> QED
    BY <1>1, <1>2, <1>3, <1>4 DEF EachOnce

\* A further rule adds its hit, or leaves the hits as they are.
LEMMA HitsNext ==
    ASSUME NEW n, NEW m \in Nat
    PROVE  HitsOf(Ascending[Matching(n, m + 1)]) =
             IF C!Match(rules[m + 1], changes[n])
             THEN Append(HitsOf(Ascending[Matching(n, m)]), C!Hit(rules[m + 1]))
             ELSE HitsOf(Ascending[Matching(n, m)])
  <1>1. CASE C!Match(rules[m + 1], changes[n])
    <2> DEFINE ks == Ascending[Matching(n, m)]
               l == Len(ks)
    <2>1. Matching(n, m + 1) = Matching(n, m) \cup {m + 1}
      BY <1>1 DEF Matching
    <2>2. Ascending[Matching(n, m + 1)] = Append(ks, m + 1)
      BY <2>1, MatchingType, AscendingNext
    <2>3. ks \in Seq(Nat)
      <3>1. Seq(1 .. m) \subseteq Seq(Nat)
        OBVIOUS
      <3> QED
        BY <3>1, MatchingType
    <2> HIDE DEF ks
    <2>4. l \in Nat /\ DOMAIN ks = 1 .. l
      BY <2>3, LenProperties
    <2>5. Append(ks, m + 1) = [k \in 1 .. l + 1 |-> IF k = l + 1 THEN m + 1 ELSE ks[k]]
      BY <2>3
    <2>6. HitsOf(Append(ks, m + 1))
            = [k \in 1 .. l + 1 |-> IF k = l + 1 THEN C!Hit(rules[m + 1]) ELSE C!Hit(rules[ks[k]])]
      BY <2>5 DEF HitsOf
    <2>7. HitsOf(ks) = [k \in 1 .. l |-> C!Hit(rules[ks[k]])]
      BY <2>4 DEF HitsOf
    <2>8. HitsOf(ks) \in Seq({C!Hit(rules[ks[k]]) : k \in 1 .. l}) /\ Len(HitsOf(ks)) = l
      BY <2>4, <2>7
    <2> HIDE DEF l
    <2>9. Append(HitsOf(ks), C!Hit(rules[m + 1]))
            = [k \in 1 .. l + 1 |-> IF k = l + 1 THEN C!Hit(rules[m + 1]) ELSE HitsOf(ks)[k]]
      BY <2>8
    <2>10. \A k \in 1 .. l + 1 : k # l + 1 => HitsOf(ks)[k] = C!Hit(rules[ks[k]])
      BY <2>4, <2>7
    <2> QED
      BY <1>1, <2>2, <2>6, <2>9, <2>10 DEF ks
  <1>2. CASE ~C!Match(rules[m + 1], changes[n])
    <2>1. Matching(n, m + 1) = Matching(n, m)
      BY <1>2 DEF Matching
    <2> QED
      BY <1>2, <2>1
  <1> QED
    BY <1>1, <1>2

\* The changes in the review, in order.
LEMMA ReviewedType ==
    ASSUME NEW m \in Nat
    PROVE  /\ ReviewedUpTo(m) \in SUBSET (1 .. m)
           /\ EachOnce(ReviewedUpTo(m))
           /\ Ascending[ReviewedUpTo(m + 1)] =
                IF Reviewed(m + 1) THEN Append(Ascending[ReviewedUpTo(m)], m + 1)
                ELSE Ascending[ReviewedUpTo(m)]
           /\ Cardinality(ReviewedUpTo(m + 1)) =
                IF Reviewed(m + 1) THEN Cardinality(ReviewedUpTo(m)) + 1
                ELSE Cardinality(ReviewedUpTo(m))
  <1>1. ReviewedUpTo(m) \in SUBSET (1 .. m)
    BY DEF ReviewedUpTo
  <1>2. ReviewedUpTo(m + 1) =
          IF Reviewed(m + 1) THEN ReviewedUpTo(m) \cup {m + 1} ELSE ReviewedUpTo(m)
    BY DEF ReviewedUpTo
  <1>3. m + 1 \notin ReviewedUpTo(m)
    BY DEF ReviewedUpTo
  <1> HIDE DEF ReviewedUpTo, Reviewed
  <1>4. EachOnce(ReviewedUpTo(m))
    BY <1>1, AscendingType
  <1>5. Cardinality(ReviewedUpTo(m) \cup {m + 1}) = Cardinality(ReviewedUpTo(m)) + 1
    BY <1>1, <1>3, AscendingDef, FS_AddElement
  <1>6. Ascending[ReviewedUpTo(m) \cup {m + 1}] = Append(Ascending[ReviewedUpTo(m)], m + 1)
    BY <1>1, AscendingNext
  <1> QED
    BY <1>1, <1>2, <1>4, <1>5, <1>6

\* The plan and the rules stay what they are while Classify runs.
LEMMA SameReviewed ==
    ASSUME changes' = changes, rules' = rules
    PROVE  /\ \A n, m : Matching(n, m)' = Matching(n, m)
           /\ \A ks : HitsOf(ks)' = HitsOf(ks)
           /\ \A n : Reviewed(n)' <=> Reviewed(n)
           /\ \A m : ReviewedUpTo(m)' = ReviewedUpTo(m)
           /\ \A result, n : IsResultOf(result, n)' <=> IsResultOf(result, n)
  <1>1. \A n, m : Matching(n, m)' = Matching(n, m)
    BY DEF Matching
  <1>2. \A ks : HitsOf(ks)' = HitsOf(ks)
    BY DEF HitsOf
  <1>3. \A n : Reviewed(n)' <=> Reviewed(n)
    BY <1>1 DEF Reviewed
  <1>4. \A m : ReviewedUpTo(m)' = ReviewedUpTo(m)
    BY <1>3 DEF ReviewedUpTo
  <1>5. \A result, n : IsResultOf(result, n)' <=> IsResultOf(result, n)
    BY <1>1, <1>2 DEF IsResultOf
  <1> QED
    BY <1>1, <1>2, <1>3, <1>4, <1>5

\* A change that is left out leaves the results as they are.
LEMMA LeaveOInv ==
    ASSUME CP!IInv, OInv, changes' = changes, rules' = rules, pc' = "changes",
           i' = i + 1, out' = out, ~Reviewed(i)
    PROVE  OInv'
  <1>1. i \in Nat /\ i - 1 \in Nat /\ i - 1 + 1 = i /\ i' - 1 = i
    BY ClassifyTypes
  <1>2. /\ Cardinality(ReviewedUpTo(i)) = Cardinality(ReviewedUpTo(i - 1))
        /\ Ascending[ReviewedUpTo(i)] = Ascending[ReviewedUpTo(i - 1)]
    BY <1>1, ReviewedType
  <1>3. (ReviewedUpTo(i - 1))' = ReviewedUpTo(i)
    BY <1>1, SameReviewed
  <1> QED
    BY <1>2, <1>3, SameReviewed DEF OInv

\* StartChange preserves OInv: no rule is tried yet.
LEMMA StartChangeOInv == CP!IInv /\ OInv /\ C!StartChange => OInv'
  <1> SUFFICES ASSUME CP!IInv, OInv, C!StartChange PROVE OInv'
    OBVIOUS
  <1>1. /\ pc' = "rules" /\ j' = 1 /\ res' = C!NoResult /\ changes' = changes /\ rules' = rules
        /\ i' = i /\ out' = out /\ changes[i].mode # "data"
    BY DEF C!StartChange
  <1>2. Matching(i, 0) = {}
    BY DEF Matching
  <1>3. HitsOf(Ascending[Matching(i, 0)]) = << >>
    BY <1>2, AscendingEmpty DEF HitsOf
  <1>4. res'.matches = HitsOf(Ascending[Matching(i, j - 1)])'
    <2>1. j' - 1 = 0
      BY <1>1
    <2>2. HitsOf(Ascending[Matching(i, j - 1)])' = HitsOf(Ascending[Matching(i, 0)])
      BY <1>1, <2>1, SameReviewed
    <2>3. res'.matches = << >>
      BY <1>1 DEF C!NoResult
    <2> QED
      BY <1>3, <2>2, <2>3
  <1> QED
    BY <1>1, <1>4, SameReviewed DEF OInv

\* TryRule preserves OInv: a rule that matches adds its hit.
LEMMA TryRuleOInv == CP!IInv /\ OInv /\ C!TryRule => OInv'
  <1> SUFFICES ASSUME CP!IInv, OInv, C!TryRule PROVE OInv'
    OBVIOUS
  <1>1. /\ pc = "rules" /\ pc' = "rules" /\ j' = j + 1 /\ changes' = changes /\ rules' = rules
        /\ i' = i /\ out' = out
        /\ res' = IF C!Match(rules[j], changes[i]) THEN C!AddMatch(res, rules[j]) ELSE res
    BY DEF C!TryRule
  <1>2. j - 1 \in Nat /\ j - 1 + 1 = j /\ j' - 1 = j
    BY <1>1, ClassifyTypes
  <1>3. HitsOf(Ascending[Matching(i, j)]) =
          IF C!Match(rules[j], changes[i])
          THEN Append(HitsOf(Ascending[Matching(i, j - 1)]), C!Hit(rules[j]))
          ELSE HitsOf(Ascending[Matching(i, j - 1)])
    BY <1>2, HitsNext
  <1>4. res.matches = HitsOf(Ascending[Matching(i, j - 1)]) /\ changes[i].mode # "data"
    BY <1>1 DEF OInv
  <1>5. C!AddMatch(res, rules[j]).matches = Append(res.matches, C!Hit(rules[j]))
    BY DEF C!AddMatch
  <1>6. res'.matches = HitsOf(Ascending[Matching(i, j)])
    BY <1>1, <1>3, <1>4, <1>5
  <1>7. HitsOf(Ascending[Matching(i, j - 1)])' = HitsOf(Ascending[Matching(i, j)])
    BY <1>1, <1>2, SameReviewed
  <1> QED
    BY <1>1, <1>4, <1>6, <1>7, SameReviewed DEF OInv

\* When all rules are tried, the change is left out exactly if it is not in
\* the review.
LEMMA DroppedIsNotReviewed ==
    ASSUME CP!IInv, OInv, pc = "rules", j > Len(rules)
    PROVE  /\ j - 1 = Len(rules) /\ i \in 1 .. Len(changes)
           /\ C!Dropped(changes[i], res) <=> ~Reviewed(i)
  <1>1. /\ Len(rules) \in Nat /\ j \in 1 .. Len(rules) + 1 /\ i \in 1 .. Len(changes)
        /\ res.matches \in Seq(CP!Hits)
    BY ClassifyTypes
  <1>2. j - 1 = Len(rules)
    BY <1>1
  <1>3. res.matches = HitsOf(Ascending[Matching(i, Len(rules))]) /\ changes[i].mode # "data"
    BY <1>2 DEF OInv
  <1> DEFINE ks == Ascending[Matching(i, Len(rules))]
  <1>4. /\ Len(ks) \in Nat /\ DOMAIN ks = 1 .. Len(ks)
        /\ Len(ks) = 0 <=> Matching(i, Len(rules)) = {}
    BY <1>1, MatchingType, LenProperties
  <1> HIDE DEF ks
  <1>5. Len(HitsOf(ks)) = Len(ks)
    BY <1>4 DEF HitsOf
  <1>6. C!Matched(res) <=> Matching(i, Len(rules)) # {}
    BY <1>3, <1>4, <1>5 DEF C!Matched, ks
  <1> QED
    BY <1>1, <1>2, <1>3, <1>6 DEF C!Dropped, Reviewed

\* Keep preserves OInv: the result is that of the change at hand.
LEMMA KeepOInv == CP!IInv /\ OInv /\ C!Keep => OInv'
  <1> SUFFICES ASSUME CP!IInv, OInv, C!Keep PROVE OInv'
    OBVIOUS
  <1> DEFINE result == [change |-> changes[i], matches |-> res.matches, severity |-> res.severity]
             shown == Ascending[ReviewedUpTo(i - 1)]
  <1>1. /\ pc = "rules" /\ j > Len(rules) /\ ~C!Dropped(changes[i], res)
        /\ pc' = "changes" /\ i' = i + 1 /\ changes' = changes /\ rules' = rules
        /\ out' = Append(out, result)
    BY DEF C!Keep
  <1>2. i \in Nat /\ i - 1 \in Nat /\ i - 1 + 1 = i /\ i' - 1 = i
    BY <1>1, ClassifyTypes
  <1>3. Reviewed(i) /\ j - 1 = Len(rules)
    BY <1>1, DroppedIsNotReviewed
  <1>4. IsResultOf(result, i)
    BY <1>1, <1>3 DEF OInv, IsResultOf
  <1>5. /\ Cardinality(ReviewedUpTo(i)) = Cardinality(ReviewedUpTo(i - 1)) + 1
        /\ Ascending[ReviewedUpTo(i)] = Append(shown, i)
        /\ EachOnce(ReviewedUpTo(i - 1))
        /\ ReviewedUpTo(i - 1) \in SUBSET (1 .. i - 1)
    BY <1>2, <1>3, ReviewedType
  <1>6. shown \in Seq(Nat) /\ Len(shown) = Len(out)
    <2>1. ReviewedUpTo(i - 1) \subseteq Nat
      BY <1>5
    <2>2. Seq(ReviewedUpTo(i - 1)) \subseteq Seq(Nat)
      BY <2>1
    <2> QED
      BY <1>5, <2>2 DEF EachOnce, OInv
  <1>7. PICK R : out \in Seq(R)
    BY ClassifyTypes
  <1> HIDE DEF result, shown
  <1>8. out \in Seq(R \cup {result}) /\ Len(out) \in Nat
    BY <1>7, LenProperties
  <1>9. /\ Len(Append(out, result)) = Len(out) + 1
        /\ \A k \in 1 .. Len(out) : Append(out, result)[k] = out[k]
        /\ Append(out, result)[Len(out) + 1] = result
    BY <1>8, AppendProperties
  <1>10. /\ \A k \in 1 .. Len(out) : Append(shown, i)[k] = shown[k]
         /\ Append(shown, i)[Len(out) + 1] = i
    BY <1>2, <1>6, AppendProperties
  <1>11. ASSUME NEW k \in 1 .. Len(out) + 1
         PROVE  IsResultOf(Append(out, result)[k], Append(shown, i)[k])
    <2>1. CASE k = Len(out) + 1
      BY <1>4, <1>9, <1>10, <2>1
    <2>2. CASE k \in 1 .. Len(out)
      <3>1. IsResultOf(out[k], shown[k])
        BY <2>2 DEF OInv, shown
      <3> QED
        BY <1>9, <1>10, <2>2, <3>1
    <2>3. k = Len(out) + 1 \/ k \in 1 .. Len(out)
      BY <1>8
    <2> QED
      BY <2>1, <2>2, <2>3
  <1>12. (ReviewedUpTo(i - 1))' = ReviewedUpTo(i)
    BY <1>1, <1>2, SameReviewed
  <1>13. Len(out') = Cardinality(ReviewedUpTo(i))
    BY <1>1, <1>5, <1>9 DEF OInv
  <1>14. (\A k \in 1 .. Len(out) : IsResultOf(out[k], Ascending[ReviewedUpTo(i - 1)][k]))'
    <2>1. Ascending[ReviewedUpTo(i - 1)]' = Append(shown, i) /\ Len(out') = Len(out) + 1
      BY <1>1, <1>5, <1>9, <1>12
    <2>2. ASSUME NEW k \in 1 .. Len(out) + 1
          PROVE  IsResultOf(out[k], Ascending[ReviewedUpTo(i - 1)][k])'
      <3> PICK n : n = Append(shown, i)[k]
        OBVIOUS
      <3>1. out'[k].change = changes[n] /\ out'[k].matches = HitsOf(Ascending[Matching(n, Len(rules))])
        BY <1>1, <1>11 DEF IsResultOf
      <3>2. Ascending[ReviewedUpTo(i - 1)]'[k] = n
        BY <2>1
      <3>3. Matching(n, Len(rules))' = Matching(n, Len(rules))
        BY <1>1, SameReviewed
      <3>4. HitsOf(Ascending[Matching(n, Len(rules))])' = HitsOf(Ascending[Matching(n, Len(rules))])
        BY <1>1, <3>3, SameReviewed
      <3> QED
        BY <1>1, <3>1, <3>2, <3>4 DEF IsResultOf
    <2> QED
      BY <2>1, <2>2
  <1> QED
    BY <1>1, <1>12, <1>13, <1>14 DEF OInv

\* Every step of Classify preserves OInv.
LEMMA NextOInv == CP!IInv /\ OInv /\ C!Next => OInv' /\ changes' = changes /\ rules' = rules
  <1> SUFFICES ASSUME CP!IInv, OInv, C!Next PROVE OInv' /\ changes' = changes /\ rules' = rules
    OBVIOUS
  <1>1. CASE C!SkipData
    <2>1. ~Reviewed(i)
      BY <1>1 DEF C!SkipData, Reviewed
    <2> QED
      BY <1>1, <2>1, LeaveOInv DEF C!SkipData
  <1>2. CASE C!StartChange
    BY <1>2, StartChangeOInv DEF C!StartChange
  <1>3. CASE C!TryRule
    BY <1>3, TryRuleOInv DEF C!TryRule
  <1>4. CASE C!DropNoOp
    <2>1. ~Reviewed(i)
      BY <1>4, DroppedIsNotReviewed DEF C!DropNoOp
    <2> QED
      BY <1>4, <2>1, LeaveOInv DEF C!DropNoOp
  <1>5. CASE C!Keep
    BY <1>5, KeepOInv DEF C!Keep
  <1> QED
    BY <1>1, <1>2, <1>3, <1>4, <1>5 DEF C!Next

\* A step of another stage preserves OInv.
LEMMA StutterOInv == OInv /\ UNCHANGED <<cvars, changes, rules>> => OInv'
  BY SameReviewed DEF OInv, cvars

-----------------------------------------------------------------------------
(* The report is the review Cli describes. *)

\* The stages are done, and the report can be printed.
Finished ==
    /\ LP!IInv /\ lpc = "loaded"
    /\ PInv /\ ppc = "parsed"
    /\ CP!IInv /\ OInv /\ pc = "changes" /\ i > Len(changes)

\* The rules that match a change are those that speak of its entry, and the
\* changes that stay are those in the review.
LEMMA SameSelection ==
    ASSUME Finished
    PROVE  /\ Len(changes) \in Nat /\ i - 1 = Len(changes)
           /\ DOMAIN input.entries = 1 .. Len(changes)
           /\ \A n \in 1 .. Len(changes) : changes[n] = K!ChangeAt(n)
           /\ \A n \in 1 .. Len(changes) : K!Speaking(n) = Matching(n, Len(rules))
           /\ K!Shown = ReviewedUpTo(Len(changes))
           /\ K!Unrecognised = UnrecognisedUpTo(Len(changes))
  <1>1. /\ Len(changes) \in Nat /\ i - 1 = Len(changes) /\ Len(rules) \in Nat
    <2>1. /\ Len(changes) \in Nat /\ i \in 1 .. Len(changes) + 1 /\ i > Len(changes)
          /\ Len(rules) \in Nat
      BY ClassifyTypes DEF Finished
    <2> QED
      BY <2>1
  <1>2. /\ DOMAIN input.entries = 1 .. Len(changes)
        /\ \A n \in 1 .. Len(changes) : changes[n] = K!ChangeAt(n) /\ K!ChangeAt(n) \in Changes
    BY EntryType DEF Finished, PInv
  <1>3. /\ rules \in Seq(Rules) /\ DOMAIN rules = DOMAIN file.rules
        /\ \A k \in DOMAIN rules : \A c \in Changes :
             C!Match(rules[k], c) <=> K!Says(file.rules[k], c)
    BY LoadedRules DEF Finished, LoadedSets
  <1>4. DOMAIN file.rules = 1 .. Len(rules)
    BY <1>3, LenProperties
  <1>5. ASSUME NEW n \in 1 .. Len(changes) PROVE K!Speaking(n) = Matching(n, Len(rules))
    <2>1. \A k \in 1 .. Len(rules) :
             C!Match(rules[k], changes[n]) <=> K!Says(file.rules[k], K!ChangeAt(n))
      BY <1>2, <1>3, <1>4
    <2> QED
      BY <1>4, <2>1 DEF K!Speaking, Matching
  <1>6. \A n \in 1 .. Len(changes) : K!InReview(n) <=> Reviewed(n)
    BY <1>2, <1>5 DEF K!InReview, Reviewed
  <1> QED
    BY <1>1, <1>2, <1>5, <1>6 DEF K!Shown, K!Unrecognised, ReviewedUpTo, UnrecognisedUpTo

\* The highest of the severities of a result is the one Cli chooses.
LEMMA HighestIsChosen ==
    ASSUME NEW s \in Nat, NEW levels, \A l \in levels : l <= s, s \in levels,
           \A l \in levels : l \in Nat
    PROVE  s = CHOOSE l \in levels : \A l2 \in levels : l2 <= l
  <1>1. \A l \in levels : (\A l2 \in levels : l2 <= l) <=> l = s
    OBVIOUS
  <1> QED
    BY <1>1

\* A hit tells of its rule what Cli reads in the file.
LEMMA HitOfRule ==
    ASSUME Finished, NEW k \in 1 .. Len(rules)
    PROVE  /\ C!Hit(rules[k]).id = file.rules[k].id
           /\ C!Hit(rules[k]).severity = K!Level[file.rules[k].severity]
           /\ C!Hit(rules[k]).detail <=> file.rules[k].predicate # K!NoName
           /\ K!Level[file.rules[k].severity] \in Nat
  <1>1. rules \in Seq(Rules)
    BY LoadedRules DEF Finished, LoadedSets
  <1>2. k \in DOMAIN rules
    BY <1>1, LenProperties
  <1>3. /\ rules[k].id = file.rules[k].id
        /\ rules[k].severity = K!Level[file.rules[k].severity]
        /\ rules[k].predicate # {} <=> file.rules[k].predicate # K!NoName
        /\ file.rules[k].severity \in DOMAIN K!Level
    BY <1>2, LoadedRules DEF Finished
  <1>4. K!Level[file.rules[k].severity] \in Nat
    BY <1>3 DEF K!Level, K!Low, K!Medium, K!High
  <1>5. C!Hit(rules[k]).detail <=> rules[k].predicate # {}
    BY Zenon DEF C!Hit
  <1>6. C!Hit(rules[k]).id = rules[k].id /\ C!Hit(rules[k]).severity = rules[k].severity
    BY DEF C!Hit
  <1> QED
    BY <1>3, <1>4, <1>5, <1>6

\* Cli counts and orders as the command does.
LEMMA SameCardinality == \A S : K!Cardinality(S) = Cardinality(S)
  BY DEF K!Cardinality, Cardinality

\* It numbers sets alike.
LEMMA SameAscending == K!Ascending = Ascending
  <1> DEFINE numbered(S, k) == {n \in S : Cardinality({m \in S : m <= n}) = k}
             numberedThere(S, k) == {n \in S : K!Cardinality({m \in S : m <= n}) = k}
             nth(S, k) == CHOOSE m \in numbered(S, k) : TRUE
             nthThere(S, k) == CHOOSE m \in numberedThere(S, k) : TRUE
             order(S) == [k \in 1 .. Cardinality(S) |-> nth(S, k)]
             orderThere(S) == [k \in 1 .. K!Cardinality(S) |-> nthThere(S, k)]
  <1>1. \A S, k : numberedThere(S, k) = numbered(S, k)
    BY SameCardinality
  <1>2. \A S, k : nthThere(S, k) = nth(S, k)
    <2> HIDE DEF numbered, numberedThere
    <2> QED
      BY <1>1
  <1>3. \A S : orderThere(S) = order(S)
    <2> HIDE DEF nth, nthThere
    <2> QED
      BY <1>2, SameCardinality
  <1>4. Ascending = [S \in SUBSET Nat |-> order(S)]
    BY DEF Ascending
  <1>5. K!Ascending = [S \in SUBSET Nat |-> orderThere(S)]
    BY Zenon DEF K!Ascending
  <1> HIDE DEF order, orderThere
  <1> QED
    BY <1>3, <1>4, <1>5

\* Row prints of a result what Cli says of the entry.
LEMMA RowIsRow ==
    ASSUME Finished, NEW n \in 1 .. Len(changes), NEW r, IsResultOf(r, n),
           C!Highest(r.matches, r.severity), r.severity \in Nat
    PROVE  Row(r) = K!RowOf(n)
  <1> DEFINE ks == K!Ascending[K!Speaking(n)]
             told == Ascending[{m \in DOMAIN r.matches : r.matches[m].detail}]
             judged == K!Ascending[{m \in DOMAIN ks : file.rules[ks[m]].predicate # K!NoName}]
             levels == {K!None} \cup {K!Level[file.rules[ks[m]].severity] : m \in DOMAIN ks}
             chosen == CHOOSE l \in levels : \A l2 \in levels : l2 <= l
             idHere(m) == r.matches[m].id
             idThere(m) == file.rules[ks[m]].id
  <1>1. ks = Ascending[Matching(n, Len(rules))]
    BY SameSelection, SameAscending
  <1>2. Len(rules) \in Nat
    BY ClassifyTypes DEF Finished
  <1>3. /\ ks \in Seq(1 .. Len(rules)) /\ Len(ks) \in Nat /\ DOMAIN ks = 1 .. Len(ks)
        /\ \A m \in DOMAIN ks : ks[m] \in 1 .. Len(rules)
    <2>1. ks \in Seq(1 .. Len(rules))
      BY <1>1, <1>2, MatchingType
    <2> HIDE DEF ks
    <2> QED
      BY <2>1, LenProperties
  <1>4. /\ r.matches = [m \in DOMAIN ks |-> C!Hit(rules[ks[m]])]
        /\ r.change.address = K!Entry(n).address /\ r.change.action = K!ChangeAt(n).action
    <2>1. r.change = K!ChangeAt(n)
      BY SameSelection DEF IsResultOf
    <2> HIDE DEF ks
    <2> QED
      BY <1>1, <2>1 DEF IsResultOf, HitsOf, K!ChangeAt
  <1> HIDE DEF ks
  <1>5. DOMAIN r.matches = DOMAIN ks
    BY <1>4
  <1>6. ASSUME NEW m \in DOMAIN ks
        PROVE  /\ r.matches[m].id = file.rules[ks[m]].id
               /\ r.matches[m].severity = K!Level[file.rules[ks[m]].severity]
               /\ r.matches[m].detail <=> file.rules[ks[m]].predicate # K!NoName
               /\ K!Level[file.rules[ks[m]].severity] \in Nat
    <2>1. r.matches[m] = C!Hit(rules[ks[m]])
      BY <1>4
    <2>2. ks[m] \in 1 .. Len(rules)
      BY <1>3
    <2> QED
      BY <2>1, <2>2, HitOfRule
  <1>7. {m \in DOMAIN r.matches : r.matches[m].detail}
          = {m \in DOMAIN ks : file.rules[ks[m]].predicate # K!NoName}
    BY <1>5, <1>6
  <1>8. told = judged
    BY <1>7, SameAscending
  <1>9. \A d \in DOMAIN judged : judged[d] \in DOMAIN ks
    <2> DEFINE J == {m \in DOMAIN ks : file.rules[ks[m]].predicate # K!NoName}
    <2>1. J \in SUBSET (1 .. Len(ks)) /\ J \subseteq DOMAIN ks
      BY <1>3
    <2> HIDE DEF J
    <2>2. Ascending[J] \in Seq(J)
      BY <1>3, <2>1, AscendingType DEF EachOnce
    <2>3. \A d \in DOMAIN Ascending[J] : Ascending[J][d] \in J
      BY <2>2
    <2> QED
      BY <2>1, <2>3, SameAscending DEF J
  <1>10. r.severity = chosen
    <2>1. \A l \in levels : l \in Nat
      BY <1>6 DEF K!None
    <2>2. r.severity \in levels
      <3>1. CASE r.severity = C!None
        BY <3>1 DEF C!None, K!None
      <3>2. CASE r.severity # C!None
        BY <1>5, <1>6, <3>2 DEF C!Highest
      <3> QED
        BY <3>1, <3>2
    <2>3. ASSUME NEW l \in levels PROVE l <= r.severity
      <3>1. CASE l = K!None
        BY <3>1 DEF K!None
      <3>2. CASE \E m \in DOMAIN ks : l = K!Level[file.rules[ks[m]].severity]
        BY <1>5, <1>6, <3>2 DEF C!Highest
      <3> QED
        BY <3>1, <3>2
    <2> HIDE DEF levels
    <2> QED
      BY <2>1, <2>2, <2>3, HighestIsChosen
  <1>11. [m \in DOMAIN r.matches |-> idHere(m)] = [m \in DOMAIN ks |-> idThere(m)]
    <2>1. \A m \in DOMAIN ks : idHere(m) = idThere(m)
      BY <1>6
    <2> HIDE DEF idHere, idThere
    <2> QED
      BY <1>5, <2>1
  <1>12. [d \in DOMAIN told |-> idHere(told[d])] = [d \in DOMAIN judged |-> idThere(judged[d])]
    <2>1. \A d \in DOMAIN judged : idHere(judged[d]) = idThere(judged[d])
      BY <1>6, <1>9
    <2> HIDE DEF idHere, idThere, judged, told
    <2> QED
      BY <1>8, <2>1
  <1>13. Row(r) = [address |-> r.change.address, action |-> r.change.action,
                   severity |-> r.severity,
                   ids |-> [m \in DOMAIN r.matches |-> idHere(m)],
                   details |-> [d \in DOMAIN told |-> idHere(told[d])]]
    BY Zenon DEF Row
  <1>14. K!RowOf(n) = [address |-> K!Entry(n).address, action |-> K!ChangeAt(n).action,
                       severity |-> chosen,
                       ids |-> [m \in DOMAIN ks |-> idThere(m)],
                       details |-> [d \in DOMAIN judged |-> idThere(judged[d])]]
    BY Zenon DEF K!RowOf, ks
  <1> HIDE DEF told, judged, levels, chosen, idHere, idThere
  <1> QED
    BY <1>4, <1>10, <1>11, <1>12, <1>13, <1>14

\* The results have a row each, in the order of the entries in the review.
LEMMA RowsAreRows ==
    ASSUME Finished
    PROVE  [k \in DOMAIN out |-> Row(out[k])]
             = [k \in DOMAIN K!Ascending[K!Shown] |-> K!RowOf(K!Ascending[K!Shown][k])]
  <1> DEFINE shown == Ascending[ReviewedUpTo(Len(changes))]
             row(k) == Row(out[k])
             rowThere(k) == K!RowOf(shown[k])
  <1>1. /\ Len(changes) \in Nat /\ i - 1 = Len(changes)
        /\ K!Ascending[K!Shown] = shown
    BY SameSelection, SameAscending
  <1>2. /\ shown \in Seq(1 .. Len(changes)) /\ Len(shown) = Len(out)
    <2>1. /\ shown \in Seq(ReviewedUpTo(Len(changes)))
          /\ ReviewedUpTo(Len(changes)) \subseteq 1 .. Len(changes)
          /\ Len(shown) = Cardinality(ReviewedUpTo(Len(changes)))
      BY <1>1, ReviewedType DEF EachOnce
    <2>2. Seq(ReviewedUpTo(Len(changes))) \subseteq Seq(1 .. Len(changes))
      BY <2>1
    <2> QED
      BY <1>1, <2>1, <2>2 DEF Finished, OInv
  <1>3. DOMAIN out = 1 .. Len(out)
    <2>1. PICK R : out \in Seq(R)
      BY ClassifyTypes DEF Finished
    <2> QED
      BY <2>1, LenProperties
  <1> HIDE DEF shown
  <1>4. DOMAIN shown = 1 .. Len(out) /\ \A k \in 1 .. Len(out) : shown[k] \in 1 .. Len(changes)
    BY <1>2, LenProperties
  <1>5. ASSUME NEW k \in 1 .. Len(out) PROVE row(k) = rowThere(k)
    <2>1. IsResultOf(out[k], shown[k])
      BY <1>1 DEF Finished, OInv, shown
    <2>2. C!Highest(out[k].matches, out[k].severity)
      <3>1. CP!Highest(out[k].matches, out[k].severity)
        BY <1>3 DEF Finished, CP!IInv, CP!SeverityIsHighest
      <3> QED
        BY <3>1 DEF C!Highest, CP!Highest, C!None, CP!None
    <2>3. out[k].severity \in Nat
      BY ClassifyTypes DEF Finished
    <2> QED
      BY <1>4, <2>1, <2>2, <2>3, RowIsRow
  <1> HIDE DEF row, rowThere
  <1>6. [k \in DOMAIN out |-> row(k)] = [k \in DOMAIN shown |-> rowThere(k)]
    BY <1>3, <1>4, <1>5
  <1> QED
    BY <1>1, <1>6 DEF row, rowThere

\* Report is the review the rules file and the plan document call for.
LEMMA ReportIsReview == Finished => Report = K!Review
  <1> SUFFICES ASSUME Finished PROVE Report = K!Review
    OBVIOUS
  <1> DEFINE rows == [k \in DOMAIN out |-> Row(out[k])]
             rowsThere == [k \in DOMAIN K!Ascending[K!Shown] |->
                             K!RowOf(K!Ascending[K!Shown][k])]
             incomplete == ~complete
             incompleteThere == input.complete = "false"
             notShownThere == K!Cardinality((DOMAIN input.entries) \ K!Shown)
  <1>1. rows = rowsThere
    BY RowsAreRows
  <1>2. warnings = K!Ascending[K!Unrecognised]
    BY SameSelection, SameAscending DEF Finished, PInv
  <1>3. errored = input.errored /\ complete = (input.complete # "false")
    BY DEF Finished, PInv
  <1>4. incomplete = incompleteThere
    BY <1>3, Zenon
  <1>5. NotShown = notShownThere
    <2> DEFINE shown == ReviewedUpTo(Len(changes))
    <2>1. /\ Len(changes) \in Nat /\ i - 1 = Len(changes)
          /\ DOMAIN input.entries = 1 .. Len(changes) /\ K!Shown = shown
      BY SameSelection
    <2>2. shown \in SUBSET (1 .. Len(changes)) /\ Len(out) = Cardinality(shown)
      BY <2>1, ReviewedType DEF Finished, OInv
    <2> HIDE DEF shown
    <2>3. IsFiniteSet(1 .. Len(changes)) /\ Cardinality(1 .. Len(changes)) = Len(changes)
      <3> DEFINE n == Len(changes)
      <3>1. n \in Int /\ n \in Nat /\ 1 \in Int
        BY <2>1
      <3> HIDE DEF n
      <3>2. /\ IsFiniteSet(1 .. n)
            /\ Cardinality(1 .. n) = IF 1 > n THEN 0 ELSE n - 1 + 1
        BY <3>1, FS_Interval
      <3>3. (IF 1 > n THEN 0 ELSE n - 1 + 1) = n
        BY <3>1
      <3> QED
        BY <3>2, <3>3 DEF n
    <2>4. Cardinality((1 .. Len(changes)) \ shown)
            = Cardinality(1 .. Len(changes)) - Cardinality((1 .. Len(changes)) \cap shown)
      BY <2>3, FS_Difference
    <2>5. (1 .. Len(changes)) \cap shown = shown
      BY <2>2
    <2> QED
      BY <2>1, <2>2, <2>3, <2>4, <2>5, SameCardinality DEF NotShown
  <1>6. Report = [errored |-> errored, incomplete |-> incomplete, warnings |-> warnings,
                  rows |-> rows, notShown |-> NotShown]
    BY Zenon DEF Report
  <1>7. K!Review = [errored |-> input.errored, incomplete |-> incompleteThere,
                    warnings |-> K!Ascending[K!Unrecognised],
                    rows |-> rowsThere, notShown |-> notShownThere]
    BY Zenon DEF K!Review
  <1> HIDE DEF rows, rowsThere, incomplete, incompleteThere, notShownThere
  <1> QED
    BY <1>1, <1>2, <1>3, <1>4, <1>5, <1>6, <1>7

\* What Cli makes of the file and the document changes with these only.
LEMMA SameReview ==
    ASSUME file' = file, input' = input
    PROVE  /\ K!Review' = K!Review
           /\ K!InOrder(file)' <=> K!InOrder(file)
  <1> DEFINE shown(k) == K!RowOf(K!Ascending[K!Shown][k])
  <1>1. \A n : K!ChangeAt(n)' = K!ChangeAt(n) /\ K!Entry(n)' = K!Entry(n)
    BY DEF K!ChangeAt, K!Entry
  <1>2. \A n : K!Speaking(n)' = K!Speaking(n)
    BY <1>1 DEF K!Speaking
  <1>3. \A n : K!InReview(n)' <=> K!InReview(n)
    BY <1>1, <1>2 DEF K!InReview
  <1>4. K!Shown' = K!Shown /\ K!Unrecognised' = K!Unrecognised
    BY <1>1, <1>3 DEF K!Shown, K!Unrecognised
  <1>5. ASSUME NEW n PROVE K!RowOf(n)' = K!RowOf(n)
    <2> DEFINE ks == K!Ascending[K!Speaking(n)]
               judged == K!Ascending[{m \in DOMAIN ks : file.rules[ks[m]].predicate # K!NoName}]
               levels == {K!None} \cup {K!Level[file.rules[ks[m]].severity] : m \in DOMAIN ks}
               chosen == CHOOSE l \in levels : \A l2 \in levels : l2 <= l
               id(m) == file.rules[ks[m]].id
               ids == [m \in DOMAIN ks |-> id(m)]
               told == [d \in DOMAIN judged |-> id(judged[d])]
               row == [address |-> K!Entry(n).address, action |-> K!ChangeAt(n).action,
                       severity |-> chosen, ids |-> ids, details |-> told]
    <2>1. K!RowOf(n) = row
      BY Zenon DEF K!RowOf
    <2>2. K!RowOf(n)' = row'
      BY Zenon DEF K!RowOf
    <2>3. ks' = ks
      BY <1>2
    <2> HIDE DEF ks
    <2>4. judged' = judged /\ levels' = levels
      BY <2>3
    <2>5. ids' = ids
      BY <2>3
    <2>6. told' = told
      <3> HIDE DEF judged
      <3> QED
        BY <2>3, <2>4
    <2>7. chosen' = chosen
      <3> HIDE DEF levels
      <3> QED
        BY <2>4
    <2> HIDE DEF judged, levels, chosen, ids, told
    <2>8. row' = row
      BY <1>1, <2>5, <2>6, <2>7
    <2> HIDE DEF row
    <2> QED
      BY <2>1, <2>8, <2>2
  <1>6. [k \in DOMAIN K!Ascending[K!Shown] |-> shown(k)]'
          = [k \in DOMAIN K!Ascending[K!Shown] |-> shown(k)]
    BY <1>4, <1>5
  <1>7. K!Review' = K!Review
    BY <1>4, <1>6 DEF K!Review
  <1>8. K!InOrder(file)' <=> K!InOrder(file)
    BY DEF K!InOrder, K!BadRulesIn, K!BadVerdictIn
  <1> QED
    BY <1>7, <1>8

-----------------------------------------------------------------------------
(* The stages together. *)

\* What run has settled when it is in a stage.
TInv ==
    /\ phase \in {"args", "rules", "open", "parse", "classify", "printed", "exit"}
    /\ LP!IInv /\ PInv
    /\ phase = "args" => lpc = "decode"
    /\ phase \notin {"args", "exit"} => call.args = "good"
    /\ phase \in {"open", "parse", "classify", "printed"} \/ (phase = "rules" /\ lpc # "decode")
         => call.rules \in call.opens \cup {""}
    /\ phase \in {"open", "parse", "classify", "printed"} => lpc = "loaded"
    /\ phase \in {"parse", "classify", "printed"} =>
         call.plan \in call.opens \cup {""} /\ ~FromTerminal
    /\ phase \in {"args", "rules", "open", "parse"} =>
         pc = "changes" /\ i = 1 /\ j = 1 /\ res = C!NoResult /\ out = << >>
    /\ phase \in {"classify", "printed"} => ppc = "parsed" /\ CP!IInv /\ OInv
    /\ phase # "exit" => code = << >>
    /\ phase \in {"args", "rules", "open", "parse", "classify"} => stdout = << >>
    /\ phase = "printed" => stdout = <<K!Review>>
    /\ phase = "exit" => code \in {<<0>>, <<1>>, <<3>>, <<4>>} /\ stdout \in {<< >>, <<K!Review>>}

\* A stage that does not run keeps its invariant.
LEMMA OthersKeep ==
    /\ LP!IInv /\ UNCHANGED lvars => LP!IInv'
    /\ PInv /\ UNCHANGED pvars => PInv'
    /\ CP!IInv /\ OInv /\ UNCHANGED <<cvars, changes, rules>> => CP!IInv' /\ OInv'
    /\ file' = file /\ input' = input => K!Review' = K!Review
  <1>1. LP!IInv /\ UNCHANGED lvars => LP!IInv'
    BY LP!StutterIInv, LoadIsGivenFiles DEF lvars, LP!lvars
  <1>2. CP!IInv /\ OInv /\ UNCHANGED <<cvars, changes, rules>> => CP!IInv' /\ OInv'
    BY CP!StutterIInv, ClassifyIsGivenSets, StutterOInv DEF cvars, CP!vars
  <1> QED
    BY <1>1, <1>2, StutterPInv, SameReview

\* The initial state satisfies TInv.
LEMMA InitTInv == Init => TInv
  <1> SUFFICES ASSUME Init PROVE TInv
    OBVIOUS
  <1>1. LP!IInv
    BY LP!InitIInv, LoadIsGivenFiles, LoadIsLoad DEF Init
  <1>2. PInv
    BY InitPInv DEF Init
  <1> QED
    BY <1>1, <1>2 DEF Init, L!Init, TInv

\* Going to the next stage changes nothing else.
LEMMA GotoKeeps ==
    ASSUME TInv, NEW stage, Goto(stage)
    PROVE  /\ phase' = stage /\ UNCHANGED <<call, code, stdout, lpc, file, input, ppc>>
           /\ UNCHANGED <<pc, i, j, res, out, changes, rules>>
           /\ LP!IInv' /\ PInv' /\ FromTerminal' = FromTerminal
  <1>1. UNCHANGED <<runvars, lvars, pvars, cvars>> /\ phase' = stage
    BY DEF Goto
  <1> QED
    BY <1>1, OthersKeep DEF TInv, runvars, lvars, pvars, cvars, FromTerminal

\* An exit keeps TInv, if what is printed is all or nothing.
LEMMA ExitTInv ==
    ASSUME TInv, phase # "exit", phase # "printed" => stdout = << >>,
           NEW c \in {0, 1, 3, 4}, NEW m, Exit(c, m)
    PROVE  TInv'
  <1>1. UNCHANGED <<call, stdout, lvars, pvars, cvars>> /\ phase' = "exit" /\ code' = <<c>>
    BY DEF Exit
  <1>2. LP!IInv' /\ PInv' /\ K!Review' = K!Review
    BY <1>1, OthersKeep DEF TInv, lvars, pvars
  <1>3. stdout' \in {<< >>, <<K!Review'>>}
    BY <1>1, <1>2 DEF TInv
  <1> QED
    BY <1>1, <1>2, <1>3 DEF TInv

\* The loader keeps TInv.
LEMMA LoadRulesTInv == TInv /\ LoadRules => TInv' /\ file' = file
  <1> SUFFICES ASSUME TInv, LoadRules PROVE TInv' /\ file' = file
    OBVIOUS
  <1>1. /\ phase = "rules" /\ phase' = "rules" /\ call.rules \in call.opens \cup {""}
        /\ L!Next /\ UNCHANGED <<runvars, pvars, cvars>>
    BY DEF LoadRules
  <1>2. LP!IInv'
    BY <1>1, LoadIsLoad, LP!NextIInv, LoadIsGivenFiles DEF TInv
  <1>3. PInv'
    BY <1>1, OthersKeep DEF TInv
  <1>4. file' = file
    BY <1>1 DEF L!Next, L!DecodeFails, L!WrongVersion, L!ReadUnmatched, L!CompileRule,
                L!RefuseAll, L!Accept, L!Refuse
  <1> QED
    BY <1>1, <1>2, <1>3, <1>4 DEF TInv, runvars, cvars

\* The parser keeps TInv.
LEMMA ParseTInv == TInv /\ Parse => TInv' /\ input' = input
  <1> SUFFICES ASSUME TInv, Parse PROVE TInv' /\ input' = input
    OBVIOUS
  <1>1. /\ phase = "parse" /\ phase' = "parse"
        /\ P!Next /\ UNCHANGED <<runvars, lvars, cvars>>
    BY DEF Parse
  <1>2. PInv' /\ input' = input
    BY <1>1, NextPInv DEF TInv
  <1>3. LP!IInv'
    BY <1>1, OthersKeep DEF TInv
  <1> QED
    BY <1>1, <1>2, <1>3 DEF TInv, runvars, lvars, cvars, FromTerminal

\* Classify keeps TInv.
LEMMA ClassifyTInv == TInv /\ Classify => TInv'
  <1> SUFFICES ASSUME TInv, Classify PROVE TInv'
    OBVIOUS
  <1>1. /\ phase = "classify" /\ phase' = "classify" /\ C!Next
        /\ UNCHANGED <<runvars, lpc, file, seen, errs, unmatched, pvars>>
    BY DEF Classify
  <1>2. CP!IInv' /\ OInv' /\ rules' = rules
    <2>1. CP!IInv /\ OInv /\ CP!Next
      BY <1>1, ClassifyIsClassify DEF TInv
    <2> QED
      BY <1>1, <2>1, CP!NextIInv, ClassifyIsGivenSets, NextOInv
  <1>3. LP!IInv' /\ PInv'
    BY <1>1, <1>2, OthersKeep DEF TInv, lvars
  <1> QED
    BY <1>1, <1>2, <1>3 DEF TInv, runvars, pvars, FromTerminal

\* Classify starts on typed changes and rules, with nothing classified.
LEMMA PlanParsedTInv == TInv /\ PlanParsed => TInv'
  <1> SUFFICES ASSUME TInv, PlanParsed PROVE TInv'
    OBVIOUS
  <1>1. phase = "parse" /\ ppc = "parsed" /\ Goto("classify")
    BY DEF PlanParsed
  <1>2. CP!Init
    BY <1>1, LoadedRules DEF TInv, PInv, CP!Init, C!NoResult, CP!NoResult, C!None, CP!None
  <1>3. CP!IInv
    BY <1>2, CP!InitIInv, ClassifyIsGivenSets
  <1>4. OInv
    <2>1. i = 1 /\ pc = "changes" /\ out = << >>
      BY <1>1 DEF TInv
    <2>2. i - 1 = 0 /\ Len(out) = 0
      BY <2>1, EmptySeq
    <2>3. ReviewedUpTo(i - 1) = {}
      BY <2>2 DEF ReviewedUpTo
    <2> QED
      BY <2>1, <2>2, <2>3, FS_EmptySet DEF OInv
  <1>5. /\ phase' = "classify" /\ UNCHANGED <<call, code, stdout, lpc, file, input, ppc>>
        /\ LP!IInv' /\ PInv' /\ FromTerminal' = FromTerminal
        /\ UNCHANGED <<pc, i, j, res, out, changes, rules>>
    BY <1>1, GotoKeeps
  <1>6. CP!IInv' /\ OInv'
    BY <1>3, <1>4, <1>5, OthersKeep DEF cvars
  <1> QED
    BY <1>1, <1>5, <1>6 DEF TInv

\* What PrintPlan prints is the review.
LEMMA PrintPlanTInv == TInv /\ PrintPlan => TInv'
  <1> SUFFICES ASSUME TInv, PrintPlan PROVE TInv'
    OBVIOUS
  <1>1. /\ phase = "classify" /\ pc = "changes" /\ i > Len(changes)
        /\ phase' = "printed" /\ stdout' = <<Report>>
        /\ UNCHANGED <<call, code, message, lvars, pvars, cvars>>
    BY DEF PrintPlan
  <1>2. Finished
    BY <1>1 DEF TInv, Finished
  <1>3. Report = K!Review
    BY <1>2, ReportIsReview
  <1>4. LP!IInv' /\ PInv' /\ CP!IInv' /\ OInv' /\ K!Review' = K!Review
    BY <1>1, OthersKeep DEF TInv, lvars, pvars, cvars
  <1> QED
    BY <1>1, <1>3, <1>4 DEF TInv, lvars, pvars, FromTerminal

\* Every step of the command keeps TInv.
LEMMA NextTInv == TInv /\ [Next]_vars => TInv'
  <1> SUFFICES ASSUME TInv, [Next]_vars PROVE TInv'
    OBVIOUS
  <1>1. CASE ParseArgs
    <2>1. CASE \E c \in {0, 4} : Exit(c, "usage")
      BY <1>1, <2>1, ExitTInv DEF ParseArgs, TInv
    <2>2. CASE call.args = "good" /\ Goto("rules")
      <3>1. phase = "args"
        BY <1>1 DEF ParseArgs
      <3>2. /\ phase' = "rules" /\ UNCHANGED <<call, code, stdout, lpc, pc, i, j, res, out>>
            /\ LP!IInv' /\ PInv'
        BY <2>2, GotoKeeps
      <3> QED
        BY <2>2, <3>1, <3>2 DEF TInv
    <2> QED
      BY <1>1, <2>1, <2>2 DEF ParseArgs
  <1>2. CASE NoRulesFile
    <2>1. phase = "rules" /\ Exit(4, "rules file")
      BY <1>2 DEF NoRulesFile
    <2>2. stdout = << >>
      BY <2>1 DEF TInv
    <2> QED
      BY <2>1, <2>2, ExitTInv
  <1>3. CASE LoadRules
    BY <1>3, LoadRulesTInv
  <1>4. CASE RulesRefused
    BY <1>4, ExitTInv DEF RulesRefused, TInv
  <1>5. CASE RulesLoaded
    <2>1. phase = "rules" /\ lpc = "loaded" /\ Goto("open")
      BY <1>5 DEF RulesLoaded
    <2>2. /\ phase' = "open" /\ UNCHANGED <<call, code, stdout, lpc, pc, i, j, res, out>>
          /\ LP!IInv' /\ PInv'
      BY <2>1, GotoKeeps
    <2> QED
      BY <2>1, <2>2 DEF TInv
  <1>6. CASE OpenPlan
    <2>1. CASE \E m : Exit(3, m)
      BY <1>6, <2>1, ExitTInv DEF OpenPlan, TInv
    <2>2. CASE call.plan \in call.opens \cup {""} /\ ~FromTerminal /\ Goto("parse")
      <3>1. phase = "open"
        BY <1>6 DEF OpenPlan
      <3>2. /\ phase' = "parse" /\ UNCHANGED <<call, code, stdout, lpc, pc, i, j, res, out>>
            /\ LP!IInv' /\ PInv' /\ FromTerminal' = FromTerminal
        BY <2>2, GotoKeeps
      <3> QED
        BY <2>2, <3>1, <3>2 DEF TInv
    <2> QED
      BY <1>6, <2>1, <2>2 DEF OpenPlan
  <1>7. CASE Parse
    BY <1>7, ParseTInv
  <1>8. CASE PlanRefused
    BY <1>8, ExitTInv DEF PlanRefused, TInv
  <1>9. CASE PlanParsed
    BY <1>9, PlanParsedTInv
  <1>10. CASE Classify
    BY <1>10, ClassifyTInv
  <1>11. CASE PrintPlan
    BY <1>11, PrintPlanTInv
  <1>12. CASE Return
    <2>1. PlanCode \in {0, 1}
      BY DEF PlanCode
    <2> QED
      BY <1>12, <2>1, ExitTInv DEF Return
  <1>13. CASE UNCHANGED vars
    <2>1. UNCHANGED <<phase, call, code, stdout, lvars, pvars, cvars>>
      BY <1>13 DEF vars, runvars
    <2>2. LP!IInv' /\ PInv' /\ K!Review' = K!Review
      BY <2>1, OthersKeep DEF TInv, lvars, pvars
    <2>3. CP!IInv /\ OInv => CP!IInv' /\ OInv'
      BY <2>1, OthersKeep DEF lvars, pvars
    <2> QED
      BY <2>1, <2>2, <2>3 DEF TInv, lvars, pvars, cvars, FromTerminal
  <1> QED
    BY <1>1, <1>2, <1>3, <1>4, <1>5, <1>6, <1>7, <1>8, <1>9, <1>10, <1>11, <1>12, <1>13 DEF Next

\* TInv is an invariant of the specification: it holds at first and every
\* action keeps it.
THEOREM SpecTInv == Spec => []TInv
  BY InitTInv, NextTInv, PTL DEF Spec

\* Classify gets typed rules with ids of their own and typed changes, whatever
\* the rules file, the plan and the call are, and its state keeps its types.
THEOREM TypeCorrect == Spec => []TypeOK
  <1>1. ASSUME TInv PROVE TypeOK
    <2>1. L!TypeOK
      <3>1. LP!TypeOK
        BY <1>1, LP!TypesOfIInv, LoadIsGivenFiles DEF TInv
      <3>2. L!Rules = LP!Rules
        BY DEF L!Rules, LP!Rules, L!Changes, LP!Changes, L!Modes, LP!Modes,
               L!Actions, LP!Actions, L!Severities, LP!Severities, L!None, LP!None,
               L!Low, LP!Low, L!Medium, LP!Medium, L!High, LP!High
      <3> QED
        BY <3>1, <3>2 DEF L!TypeOK, LP!TypeOK, L!NoName, LP!NoName, L!Verdicts, LP!Verdicts
    <2>2. Len(changes) = Len(details)
      BY <1>1 DEF TInv, PInv
    <2>3. \A w \in DOMAIN warnings : warnings[w] \in DOMAIN changes
      <3> DEFINE U == UnrecognisedUpTo(Len(changes))
      <3>1. /\ changes \in Seq(Changes) /\ Len(changes) \in Nat
            /\ DOMAIN changes = 1 .. Len(changes)
        BY <1>1, LenProperties DEF TInv, PInv
      <3>2. U \in SUBSET (1 .. Len(changes)) /\ warnings = Ascending[U]
        BY <1>1 DEF TInv, PInv, UnrecognisedUpTo
      <3> HIDE DEF U
      <3>3. warnings \in Seq(U)
        BY <3>1, <3>2, AscendingType DEF EachOnce
      <3> QED
        BY <3>1, <3>2, <3>3
    <2>4. phase \in {"classify", "printed"} => C!TypeOK
      <3>1. SUFFICES ASSUME CP!TypeOK PROVE C!TypeOK
        BY <1>1 DEF TInv, CP!IInv
      <3>2. Changes = CP!Changes /\ C!Hits = CP!Hits /\ C!Severities = CP!Severities
        BY DEF Changes, CP!Changes, Modes, CP!Modes, Actions, CP!Actions, C!Hits, CP!Hits,
               C!Severities, CP!Severities, C!None, CP!None, C!Low, CP!Low,
               C!Medium, CP!Medium, C!High, CP!High
      <3>3. C!Changes = Changes
        BY DEF Changes, C!Changes, Modes, C!Modes, Actions, C!Actions
      <3> QED
        BY <3>1, <3>2, <3>3 DEF C!TypeOK, CP!TypeOK
    <2> QED
      BY <1>1, <2>1, <2>2, <2>3, <2>4 DEF TInv, TypeOK
  <1> QED
    BY <1>1, SpecTInv, PTL

\* The row of an entry in the review is on the report.
LEMMA ShownHasRow ==
    ASSUME input \in Inputs, NEW n \in K!Shown
    PROVE  \E k \in DOMAIN K!Review.rows : K!Review.rows[k] = K!RowOf(n)
  <1> DEFINE order == K!Ascending[K!Shown]
             row(k) == K!RowOf(order[k])
  <1>1. Len(input.entries) \in Nat /\ K!Shown \in SUBSET (1 .. Len(input.entries))
    BY EntryType DEF K!Shown
  <1>2. EachOnce(K!Shown)
    BY <1>1, AscendingType
  <1>3. PICK k \in DOMAIN order : order[k] = n
    BY <1>2, SameAscending DEF EachOnce
  <1>4. K!Review.rows = [l \in DOMAIN order |-> row(l)]
    BY Zenon DEF K!Review
  <1> HIDE DEF order
  <1> QED
    BY <1>3, <1>4

\* A report that is printed is the review Cli calls for.
LEMMA PrintedIsReview ==
    ASSUME TInv, NEW r \in DOMAIN stdout
    PROVE  stdout[r] = K!Review
  <1>1. stdout \in {<< >>, <<K!Review>>}
    BY DEF TInv
  <1> QED
    BY <1>1

\* No plan, rules file or call makes the command print a report on which a
\* managed resource the plan deletes is missing or called harmless.
THEOREM NoDestroyHidden == Spec => []NoDestroyIsHidden
  <1>1. ASSUME TInv PROVE NoDestroyIsHidden
    <2> SUFFICES ASSUME NEW r \in DOMAIN stdout, NEW n \in DOMAIN input.entries,
                        input.entries[n].mode = "managed",
                        \E m \in DOMAIN input.entries[n].actions :
                           input.entries[n].actions[m] = "delete"
                 PROVE  \E k \in DOMAIN stdout[r].rows :
                           /\ stdout[r].rows[k].address = input.entries[n].address
                           /\ stdout[r].rows[k].action \in {"delete", "replace", "unknown"}
      BY DEF NoDestroyIsHidden
    <2>1. stdout[r] = K!Review
      BY <1>1, PrintedIsReview
    <2>2. input \in Inputs
      BY <1>1 DEF TInv, PInv
    <2>3. /\ K!ChangeAt(n).mode = "managed"
          /\ K!ChangeAt(n).action \in {"delete", "replace", "unknown"}
      BY <2>2, EntryType, ActionIsMapped
    <2>4. n \in K!Shown
      BY <2>3 DEF K!Shown, K!InReview
    <2>5. K!RowOf(n).address = input.entries[n].address /\ K!RowOf(n).action = K!ChangeAt(n).action
      BY DEF K!RowOf, K!Entry
    <2> QED
      BY <2>1, <2>2, <2>3, <2>4, <2>5, ShownHasRow
  <1> QED
    BY <1>1, SpecTInv, PTL

-----------------------------------------------------------------------------
(* Refinement: every step is one of Cli, or one it does not see. *)

\* What Cli says of the file and of the plan, once a stage has looked.
LEMMA WhatIsAvailable ==
    ASSUME TInv
    PROVE  /\ phase \in {"open", "parse", "classify", "printed"} => K!RulesAvailable
           /\ phase = "rules" /\ lpc = "refused" => ~K!RulesAvailable
           /\ phase = "parse" /\ ppc = "failed" => ~K!PlanAvailable
           /\ phase = "printed" =>
                K!PlanAvailable /\ PlanCode = IF input.errored \/ input.complete = "false" THEN 1 ELSE 0
  <1>1. (lpc = "loaded" => K!InOrder(file)) /\ (lpc = "refused" => ~K!InOrder(file))
    BY AcceptedFiles DEF TInv
  <1>2. phase \in {"open", "parse", "classify", "printed"} => K!RulesAvailable
    BY <1>1 DEF TInv, K!RulesAvailable
  <1>3. phase = "rules" /\ lpc = "refused" => ~K!RulesAvailable
    BY <1>1 DEF K!RulesAvailable
  <1>4. phase = "parse" /\ ppc = "failed" => ~K!PlanAvailable
    BY DEF TInv, PInv, K!PlanAvailable
  <1>5. ASSUME phase = "printed" PROVE K!PlanAvailable
    <2>1. /\ call.plan \in call.opens \cup {""} /\ ~FromTerminal
          /\ input.reads /\ input.text = "document" /\ input.version[1] = "1"
      BY <1>5 DEF TInv, PInv
    <2> QED
      BY <2>1 DEF K!PlanAvailable, FromTerminal
  <1>6. ASSUME phase = "printed"
        PROVE  PlanCode = IF input.errored \/ input.complete = "false" THEN 1 ELSE 0
    <2>1. errored = input.errored /\ complete = (input.complete # "false")
      BY <1>6 DEF TInv, PInv
    <2>2. ~complete <=> input.complete = "false"
      BY <2>1, Zenon
    <2> QED
      BY <2>1, <2>2 DEF PlanCode
  <1> QED
    BY <1>2, <1>3, <1>4, <1>5, <1>6

\* A step that is not the last one answers nothing.
LEMMA StageIsHidden ==
    ASSUME phase # "exit", phase' # "exit", UNCHANGED <<call, file, input, code>>
    PROVE  UNCHANGED K!kvars
  BY DEF K!kvars

\* An exit is an answer with what is on stdout.
LEMMA ExitAnswers ==
    ASSUME TInv, phase # "exit", NEW c, NEW m, Exit(c, m)
    PROVE  K!Answer(c, stdout)
  <1>1. /\ phase' = "exit" /\ code' = <<c>> /\ UNCHANGED <<call, stdout, lvars, pvars>>
    BY DEF Exit
  <1>2. code = << >> /\ file' = file /\ input' = input
    BY <1>1 DEF TInv, lvars, pvars
  <1> QED
    BY <1>1, <1>2 DEF K!Answer

\* The initial state is one of Cli.
LEMMA InitRefines == Init => K!KInit
  BY DEF Init, L!Init, P!Init, K!KInit

\* Every step is one of Cli or leaves what it sees unchanged.
LEMMA StepRefines == TInv /\ [Next]_vars => [K!KNext]_(K!kvars)
  <1> SUFFICES ASSUME TInv, [Next]_vars PROVE K!KNext \/ UNCHANGED K!kvars
    OBVIOUS
  <1>1. CASE ParseArgs
    <2>1. phase = "args" /\ stdout = << >>
      BY <1>1 DEF ParseArgs, TInv
    <2>2. CASE call.args = "help" /\ Exit(0, "usage")
      BY <2>1, <2>2, ExitAnswers DEF K!KNext
    <2>3. CASE call.args = "bad" /\ Exit(4, "usage")
      BY <2>1, <2>3, ExitAnswers DEF K!KNext
    <2>4. CASE Goto("rules")
      BY <2>1, <2>4, GotoKeeps, StageIsHidden
    <2> QED
      BY <1>1, <2>2, <2>3, <2>4 DEF ParseArgs
  <1>2. CASE NoRulesFile
    <2>1. /\ phase = "rules" /\ call.rules \notin call.opens \cup {""}
          /\ Exit(4, "rules file")
      BY <1>2 DEF NoRulesFile
    <2>2. call.args = "good" /\ ~K!RulesAvailable /\ stdout = << >>
      BY <2>1 DEF TInv, K!RulesAvailable
    <2> QED
      BY <2>1, <2>2, ExitAnswers DEF K!KNext
  <1>3. CASE LoadRules
    <2>1. /\ phase = "rules" /\ phase' = "rules" /\ file' = file
          /\ UNCHANGED <<call, code, input>>
      BY <1>3, LoadRulesTInv DEF LoadRules, runvars, pvars
    <2> QED
      BY <2>1, StageIsHidden
  <1>4. CASE RulesRefused
    <2>1. phase = "rules" /\ lpc = "refused" /\ Exit(4, "rules")
      BY <1>4 DEF RulesRefused
    <2>2. call.args = "good" /\ stdout = << >>
      BY <2>1 DEF TInv
    <2>3. ~K!RulesAvailable
      BY <2>1, WhatIsAvailable
    <2> QED
      BY <2>1, <2>2, <2>3, ExitAnswers DEF K!KNext
  <1>5. CASE RulesLoaded
    BY <1>5, GotoKeeps, StageIsHidden DEF RulesLoaded
  <1>6. CASE OpenPlan
    <2>1. phase = "open" /\ call.args = "good" /\ stdout = << >> /\ K!RulesAvailable
      <3>1. phase = "open"
        BY <1>6 DEF OpenPlan
      <3>2. K!RulesAvailable
        BY <3>1, WhatIsAvailable
      <3> QED
        BY <3>1, <3>2 DEF TInv
    <2>2. CASE \E m : Exit(3, m) /\ (call.plan \notin call.opens \cup {""} \/ FromTerminal)
      <3>1. ~K!PlanAvailable
        BY <2>2 DEF K!PlanAvailable, FromTerminal
      <3> QED
        BY <2>1, <2>2, <3>1, ExitAnswers DEF K!KNext
    <2>3. CASE Goto("parse")
      BY <2>1, <2>3, GotoKeeps, StageIsHidden
    <2> QED
      BY <1>6, <2>2, <2>3 DEF OpenPlan
  <1>7. CASE Parse
    <2>1. /\ phase = "parse" /\ phase' = "parse" /\ input' = input
          /\ UNCHANGED <<call, code, file>>
      BY <1>7, ParseTInv DEF Parse, runvars, lvars
    <2> QED
      BY <2>1, StageIsHidden
  <1>8. CASE PlanRefused
    <2>1. phase = "parse" /\ ppc = "failed" /\ \E m : Exit(3, m)
      BY <1>8 DEF PlanRefused
    <2>2. call.args = "good" /\ stdout = << >>
      BY <2>1 DEF TInv
    <2>3. K!RulesAvailable /\ ~K!PlanAvailable
      BY <2>1, WhatIsAvailable
    <2> QED
      BY <2>1, <2>2, <2>3, ExitAnswers DEF K!KNext
  <1>9. CASE PlanParsed
    BY <1>9, GotoKeeps, StageIsHidden DEF PlanParsed
  <1>10. CASE Classify
    BY <1>10, StageIsHidden DEF Classify, runvars, pvars
  <1>11. CASE PrintPlan
    BY <1>11, StageIsHidden DEF PrintPlan, lvars, pvars
  <1>12. CASE Return
    <2>1. phase = "printed" /\ Exit(PlanCode, "none")
      BY <1>12 DEF Return
    <2>2. call.args = "good" /\ stdout = <<K!Review>>
      BY <2>1 DEF TInv
    <2>3. /\ K!RulesAvailable /\ K!PlanAvailable
          /\ PlanCode = IF input.errored \/ input.complete = "false" THEN 1 ELSE 0
      BY <2>1, WhatIsAvailable
    <2>4. K!Answer(PlanCode, <<K!Review>>)
      BY <2>1, <2>2, ExitAnswers
    <2> QED
      BY <2>2, <2>3, <2>4 DEF K!KNext
  <1>13. CASE UNCHANGED vars
    BY <1>13 DEF vars, runvars, lvars, pvars, K!kvars
  <1> QED
    BY <1>1, <1>2, <1>3, <1>4, <1>5, <1>6, <1>7, <1>8, <1>9, <1>10, <1>11, <1>12, <1>13 DEF Next

\* The command never answers anything but what Cli promises: the exit code
\* that says what was wrong first, and the review the rules file and the plan
\* document call for.
THEOREM CommandKeepsPromise == Spec => K!KSafety
  BY InitRefines, StepRefines, SpecTInv, PTL DEF Spec, K!KSafety

=============================================================================
