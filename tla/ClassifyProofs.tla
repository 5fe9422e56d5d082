--------------------------- MODULE ClassifyProofs ---------------------------
(***************************************************************************)
(* Proofs about Classify for plans and rules files of any length: types,    *)
(* the severity of every result, and that every step of the two loops is a  *)
(* step of the abstract review or leaves it unchanged.                      *)
(***************************************************************************)
EXTENDS Classify, SequenceTheorems, TLAPS

\* The rules tried so far that match the change at hand.
Tried == {k \in 1 .. j - 1 : Match(rules[k], plan[i])}

\* The result being built is exactly that of the rules tried so far.
ResultOfTried ==
    /\ plan[i].mode # "data"
    /\ {res.matches[m].id : m \in DOMAIN res.matches} = {rules[k].id : k \in Tried}
    /\ res.matches = << >> <=> Tried = {}
    /\ R!IsHighest(rules, Tried, res.severity)

IInv ==
    /\ TypeOK
    /\ SeverityIsHighest
    /\ pc = "rules" => ResultOfTried

\* The indices, the plan and the rules are typed whenever TypeOK holds.
LEMMA InputTypes ==
    ASSUME TypeOK
    PROVE  /\ plan \in Seq(Changes) /\ rules \in Seq(Rules)
           /\ Len(plan) \in Nat /\ Len(rules) \in Nat
           /\ i \in Nat /\ j \in Nat
  BY InputsAreTyped, LenProperties DEF TypeOK

\* A further match is appended, and the matches before it stay.
LEMMA AddMatchType ==
    ASSUME NEW result \in [matches : Seq(Hits), severity : Severities], NEW r \in Rules
    PROVE  /\ AddMatch(result, r) \in [matches : Seq(Hits), severity : Severities]
           /\ DOMAIN AddMatch(result, r).matches = 1 .. Len(result.matches) + 1
           /\ \A m \in DOMAIN result.matches :
                AddMatch(result, r).matches[m] = result.matches[m]
           /\ AddMatch(result, r).matches[Len(result.matches) + 1] = Hit(r)
  <1>1. Hit(r) \in Hits /\ r.severity \in Severities
    BY DEF Hit, Hits, Rules
  <1>2. result.matches \in Seq(Hits) /\ result.severity \in Severities
    OBVIOUS
  <1>3. AddMatch(result, r).matches = Append(result.matches, Hit(r))
    BY DEF AddMatch
  <1>4. AddMatch(result, r) \in [matches : Seq(Hits), severity : Severities]
    BY <1>1, <1>2, AppendProperties DEF AddMatch
  <1> QED
    BY <1>1, <1>2, <1>3, <1>4, AppendProperties, LenProperties

\* A match added to a result keeps its severity the highest.
LEMMA AddMatchHighest ==
    ASSUME NEW result \in [matches : Seq(Hits), severity : Severities], NEW r \in Rules,
           Highest(result.matches, result.severity)
    PROVE  Highest(AddMatch(result, r).matches, AddMatch(result, r).severity)
  <1> DEFINE new == AddMatch(result, r)
             n == Len(result.matches)
  <1>1. /\ DOMAIN result.matches = 1 .. n /\ n \in Nat
        /\ DOMAIN new.matches = 1 .. n + 1
        /\ \A m \in 1 .. n : new.matches[m] = result.matches[m]
        /\ new.matches[n + 1].severity = r.severity
    <2>1. result.matches \in Seq(Hits)
      OBVIOUS
    <2>2. DOMAIN result.matches = 1 .. n /\ n \in Nat
      BY <2>1, LenProperties
    <2>3. Hit(r).severity = r.severity
      BY DEF Hit
    <2> HIDE DEF n
    <2> QED
      BY <2>2, <2>3, AddMatchType DEF n
  <1>2. r.severity \in {Low, Medium, High} /\ result.severity \in Severities
    BY DEF Rules, Severities, None, Low, Medium, High
  <1>3. new.severity = IF r.severity > result.severity THEN r.severity ELSE result.severity
    BY DEF AddMatch
  <1>4. new.severity # None /\ new.matches # << >>
    BY <1>1, <1>2, <1>3 DEF Severities, None, Low, Medium, High
  <1>5. \E m \in DOMAIN new.matches : new.matches[m].severity = new.severity
    <2>1. CASE r.severity > result.severity
      BY <1>1, <1>3, <2>1
    <2>2. CASE ~(r.severity > result.severity)
      <3>1. result.severity # None /\ new.severity = result.severity
        BY <1>2, <1>3, <2>2 DEF Severities, None, Low, Medium, High
      <3>2. PICK m \in 1 .. n : result.matches[m].severity = result.severity
        BY <1>1, <3>1 DEF Highest
      <3> QED
        BY <1>1, <3>1, <3>2
    <2> QED
      BY <2>1, <2>2
  <1>6. \A m \in DOMAIN new.matches : new.matches[m].severity <= new.severity
    <2> TAKE m \in DOMAIN new.matches
    <2>1. CASE m = n + 1
      BY <1>1, <1>2, <1>3, <2>1 DEF Severities, None, Low, Medium, High
    <2>2. CASE m # n + 1
      <3>1. m \in 1 .. n /\ result.matches[m] \in Hits
        BY <1>1, <2>2
      <3>2. result.matches[m].severity <= result.severity
              /\ result.matches[m].severity \in Severities
        BY <1>1, <3>1 DEF Highest, Hits
      <3> QED
        BY <1>1, <1>2, <1>3, <3>1, <3>2 DEF Severities, None, Low, Medium, High
    <2> QED
      BY <2>1, <2>2
  <1> QED
    BY <1>4, <1>5, <1>6 DEF Highest

\* The result Classify starts a change with has the severity of no match.
LEMMA NoResultHighest ==
    /\ NoResult \in [matches : Seq(Hits), severity : Severities]
    /\ Highest(NoResult.matches, NoResult.severity)
  BY DEF NoResult, Highest, Severities

-----------------------------------------------------------------------------

\* The initial states satisfy IInv.
LEMMA InitIInv == Init => IInv
  <1> SUFFICES ASSUME Init PROVE IInv
    OBVIOUS
  <1>1. TypeOK
    BY InputsAreTyped, NoResultHighest, LenProperties DEF Init, TypeOK
  <1> QED
    BY <1>1, NoResultHighest DEF Init, IInv, SeverityIsHighest

\* SkipData preserves IInv.
LEMMA SkipDataIInv == IInv /\ SkipData => IInv'
  <1> SUFFICES ASSUME IInv, SkipData PROVE IInv'
    OBVIOUS
  <1>1. TypeOK'
    BY InputTypes DEF IInv, TypeOK, SkipData
  <1> QED
    BY <1>1 DEF IInv, SkipData, SeverityIsHighest

\* StartChange preserves IInv.
LEMMA StartChangeIInv == IInv /\ StartChange => IInv'
  <1> SUFFICES ASSUME IInv, StartChange PROVE IInv'
    OBVIOUS
  <1>1. TypeOK'
    BY InputTypes, NoResultHighest DEF IInv, TypeOK, StartChange
  <1>2. SeverityIsHighest'
    BY NoResultHighest DEF IInv, StartChange, SeverityIsHighest
  <1>3. ResultOfTried'
    <2>1. Tried' = {}
      BY DEF Tried, StartChange
    <2> QED
      BY <2>1 DEF StartChange, ResultOfTried, NoResult, R!IsHighest, R!None, None
  <1> QED
    BY <1>1, <1>2, <1>3 DEF IInv

\* What ResultOfTried says depends on nothing a step leaves unchanged.
LEMMA SameResult ==
    ASSUME ResultOfTried, Tried' = Tried, UNCHANGED <<plan, rules, i, res>>
    PROVE  ResultOfTried'
  <1>1. plan'[i'].mode # "data"
    BY DEF ResultOfTried
  <1>2. {res'.matches[m].id : m \in DOMAIN res'.matches} = {rules'[k].id : k \in Tried'}
    <2>1. {res'.matches[m].id : m \in DOMAIN res'.matches}
            = {res.matches[m].id : m \in DOMAIN res.matches}
      OBVIOUS
    <2>2. {rules'[k].id : k \in Tried'} = {rules[k].id : k \in Tried}
      OBVIOUS
    <2> QED
      BY <2>1, <2>2 DEF ResultOfTried
  <1>3. res'.matches = << >> <=> Tried' = {}
    BY DEF ResultOfTried
  <1>4. R!IsHighest(rules', Tried', res'.severity)
    BY DEF ResultOfTried
  <1> QED
    BY <1>1, <1>2, <1>3, <1>4 DEF ResultOfTried

\* TryRule preserves IInv.
LEMMA TryRuleIInv == IInv /\ TryRule => IInv'
  <1> SUFFICES ASSUME IInv, TryRule PROVE IInv'
    OBVIOUS
  <1> DEFINE r == rules[j]
  <1>1. /\ r \in Rules /\ j \in 1 .. Len(rules) /\ j \in Nat
        /\ res \in [matches : Seq(Hits), severity : Severities]
        /\ pc = "rules" /\ ResultOfTried /\ Highest(res.matches, res.severity)
    BY InputTypes DEF IInv, TypeOK, TryRule, SeverityIsHighest
  <1>2. CASE ~Match(r, plan[i])
    <2>1. Tried' = Tried
      BY <1>1, <1>2 DEF Tried, TryRule
    <2>2. TypeOK'
      BY <1>1, <1>2, InputTypes DEF IInv, TypeOK, TryRule
    <2>3. res' = res /\ out' = out /\ plan' = plan /\ rules' = rules /\ i' = i
      BY <1>2 DEF TryRule
    <2>4. SeverityIsHighest'
      BY <2>3 DEF IInv, SeverityIsHighest
    <2>5. ResultOfTried'
      BY <1>1, <2>1, <2>3, SameResult
    <2> QED
      BY <2>2, <2>4, <2>5 DEF IInv
  <1>3. CASE Match(r, plan[i])
    <2>1. Tried' = Tried \cup {j} /\ j \notin Tried
      BY <1>1, <1>3 DEF Tried, TryRule
    <2>2. res' = AddMatch(res, r)
      BY <1>3 DEF TryRule
    <2>3. TypeOK'
      <3>1. res' \in [matches : Seq(Hits), severity : Severities]
        BY <1>1, <2>2, AddMatchType
      <3>2. j' \in 1 .. Len(rules) + 1
        BY <1>1, InputTypes DEF IInv, TryRule
      <3> QED
        BY <3>1, <3>2 DEF IInv, TypeOK, TryRule
    <2>4. SeverityIsHighest'
      BY <1>1, <2>2, AddMatchHighest DEF IInv, TryRule, SeverityIsHighest
    <2>5. {res'.matches[m].id : m \in DOMAIN res'.matches} = {rules[k].id : k \in Tried'}
      <3> DEFINE n == Len(res.matches)
      <3>1. /\ DOMAIN res.matches = 1 .. n /\ n \in Nat
            /\ DOMAIN res'.matches = 1 .. n + 1
            /\ \A m \in 1 .. n : res'.matches[m] = res.matches[m]
            /\ res'.matches[n + 1].id = rules[j].id
        <4>1. res.matches \in Seq(Hits)
          BY <1>1
        <4>2. DOMAIN res.matches = 1 .. n /\ n \in Nat
          BY <4>1, LenProperties
        <4>3. Hit(r).id = rules[j].id
          BY DEF Hit
        <4> HIDE DEF n, r
        <4> QED
          BY <1>1, <2>2, <4>2, <4>3, AddMatchType DEF n
      <3>2. {res'.matches[m].id : m \in DOMAIN res'.matches}
              = {res.matches[m].id : m \in DOMAIN res.matches} \cup {rules[j].id}
        BY <3>1
      <3>3. {rules[k].id : k \in Tried'} = {rules[k].id : k \in Tried} \cup {rules[j].id}
        BY <2>1
      <3> QED
        BY <1>1, <3>2, <3>3 DEF ResultOfTried
    <2>6. res'.matches # << >>
      BY <1>1, <2>2, AddMatchType, LenProperties
    <2>7. R!IsHighest(rules, Tried', res'.severity)
      <3>1. res'.severity = IF r.severity > res.severity THEN r.severity ELSE res.severity
        BY <2>2 DEF AddMatch
      <3>2. R!IsHighest(rules, Tried, res.severity)
        BY <1>1 DEF ResultOfTried
      <3>3. \A k \in Tried : rules[k].severity \in Severities
        <4> TAKE k \in Tried
        <4>1. k \in 1 .. Len(rules) /\ rules \in Seq(Rules)
          BY <1>1, InputTypes DEF IInv, Tried
        <4>2. rules[k] \in Rules
          BY <4>1
        <4> QED
          BY <4>2 DEF Rules
      <3>4. r.severity \in {Low, Medium, High} /\ res.severity \in Severities
        BY <1>1 DEF Rules, Severities, None, Low, Medium, High
      <3> QED
        BY <2>1, <3>1, <3>2, <3>3, <3>4
           DEF R!IsHighest, R!None, Severities, None, Low, Medium, High
    <2>8. ResultOfTried'
      BY <1>1, <2>1, <2>5, <2>6, <2>7 DEF ResultOfTried, TryRule
    <2> QED
      BY <2>3, <2>4, <2>8 DEF IInv
  <1> QED
    BY <1>2, <1>3

\* DropNoOp preserves IInv.
LEMMA DropNoOpIInv == IInv /\ DropNoOp => IInv'
  <1> SUFFICES ASSUME IInv, DropNoOp PROVE IInv'
    OBVIOUS
  <1>1. TypeOK'
    BY InputTypes DEF IInv, TypeOK, DropNoOp
  <1> QED
    BY <1>1 DEF IInv, DropNoOp, SeverityIsHighest

\* The Result Keep appends.
Kept == [change |-> plan[i], matches |-> res.matches, severity |-> res.severity]

\* Keep appends the finished result and leaves the earlier ones alone.
LEMMA KeptType ==
    ASSUME IInv, Keep
    PROVE  /\ Kept \in [change : Changes, matches : Seq(Hits), severity : Severities]
           /\ out \in Seq([change : Changes, matches : Seq(Hits), severity : Severities])
           /\ DOMAIN out = 1 .. Len(out) /\ Len(out) \in Nat
           /\ DOMAIN out' = 1 .. Len(out) + 1 /\ Len(out') = Len(out) + 1
           /\ out' \in Seq([change : Changes, matches : Seq(Hits), severity : Severities])
           /\ \A k \in 1 .. Len(out) : out'[k] = out[k]
           /\ out'[Len(out) + 1] = Kept
  <1>1. plan[i] \in Changes
    BY InputTypes DEF IInv, TypeOK, Keep
  <1>2. Kept \in [change : Changes, matches : Seq(Hits), severity : Severities]
    BY <1>1 DEF IInv, TypeOK, Kept
  <1>3. out \in Seq([change : Changes, matches : Seq(Hits), severity : Severities])
    BY DEF IInv, TypeOK
  <1>4. out' = Append(out, Kept)
    BY DEF Keep, Kept
  <1> HIDE DEF Kept
  <1> QED
    BY <1>2, <1>3, <1>4, AppendProperties, LenProperties

\* Keep preserves IInv.
LEMMA KeepIInv == IInv /\ Keep => IInv'
  <1> SUFFICES ASSUME IInv, Keep PROVE IInv'
    OBVIOUS
  <1>1. TypeOK'
    BY KeptType, InputTypes DEF IInv, TypeOK, Keep
  <1>2. SeverityIsHighest'
    <2>1. Highest(Kept.matches, Kept.severity)
      BY DEF IInv, SeverityIsHighest, Kept
    <2>2. \A k \in DOMAIN out' : Highest(out'[k].matches, out'[k].severity)
      <3> TAKE k \in DOMAIN out'
      <3>1. k \in 1 .. Len(out) \/ k = Len(out) + 1
        BY KeptType
      <3>2. CASE k \in 1 .. Len(out)
        <4>1. out'[k] = out[k] /\ k \in DOMAIN out
          BY <3>2, KeptType
        <4> QED
          BY <4>1 DEF IInv, SeverityIsHighest
      <3>3. CASE k = Len(out) + 1
        <4>1. out'[k] = Kept
          BY <3>3, KeptType
        <4> QED
          BY <2>1, <4>1
      <3> QED
        BY <3>1, <3>2, <3>3
    <2> QED
      BY <2>2 DEF IInv, SeverityIsHighest, Keep, Highest
  <1> QED
    BY <1>1, <1>2 DEF IInv, Keep

\* A step that changes nothing preserves IInv.
LEMMA StutterIInv == IInv /\ UNCHANGED vars => IInv'
  <1> SUFFICES ASSUME IInv, UNCHANGED vars PROVE IInv'
    OBVIOUS
  <1>1. TypeOK' /\ SeverityIsHighest'
    BY DEF IInv, vars, TypeOK, SeverityIsHighest
  <1>2. (pc = "rules" => ResultOfTried)'
    <2>1. Tried' = Tried
      BY DEF vars, Tried
    <2> QED
      BY <2>1, SameResult DEF IInv, vars
  <1> QED
    BY <1>1, <1>2 DEF IInv

\* Every step of Classify preserves IInv.
LEMMA NextIInv == IInv /\ [Next]_vars => IInv'
  BY SkipDataIInv, StartChangeIInv, TryRuleIInv, DropNoOpIInv, KeepIInv, StutterIInv DEF Next

\* IInv is an invariant of the specification: it holds at first and every
\* action preserves it.
THEOREM SpecIInv == Spec => []IInv
  BY InitIInv, NextIInv, PTL DEF Spec

\* The loop indices stay in range and every result is typed, for plans and
\* rules files of any length.
THEOREM TypeCorrect == Spec => []TypeOK
  <1>1. IInv => TypeOK
    BY DEF IInv
  <1> QED
    BY <1>1, SpecIInv, PTL

\* The severity of every result, finished or being built, is the highest of
\* its matches.
THEOREM SeverityCorrect == Spec => []SeverityIsHighest
  <1>1. IInv => SeverityIsHighest
    BY DEF IInv
  <1> QED
    BY <1>1, SpecIInv, PTL

-----------------------------------------------------------------------------
(* The order of matches. *)

PlaceIn(set, id) == CHOOSE k \in DOMAIN set : set[k].id = id

\* Matches in the order of the rules of set, all of them before rule bound.
InOrder(set, matches, bound) ==
    \A n \in DOMAIN matches :
        /\ PlaceIn(set, matches[n].id) \in 1 .. bound - 1
        /\ \A m \in DOMAIN matches :
             m < n => PlaceIn(set, matches[m].id) < PlaceIn(set, matches[n].id)

OInv ==
    /\ pc = "rules" => InOrder(rules, res.matches, j)
    /\ \A k \in DOMAIN out : InOrder(rules, out[k].matches, Len(rules) + 1)

\* A match recorded of a rule leads back to that rule, as no other has its id.
LEMMA PlaceOfRule ==
    ASSUME IInv, pc = "rules", j <= Len(rules)
    PROVE  PlaceIn(rules, Hit(rules[j]).id) = j
  <1>1. j \in DOMAIN rules
    BY InputTypes, LenProperties DEF IInv, TypeOK
  <1>2. \A k \in DOMAIN rules : rules[k].id = rules[j].id <=> k = j
    BY <1>1, IdsAreUnique DEF IInv, TypeOK
  <1> QED
    BY <1>1, <1>2 DEF PlaceIn, Hit

\* A rule that matches comes after those that matched before it.
LEMMA TryRuleOInv == IInv /\ OInv /\ TryRule => OInv'
  <1> SUFFICES ASSUME IInv, OInv, TryRule PROVE OInv'
    OBVIOUS
  <1>1. /\ pc = "rules" /\ j \in 1 .. Len(rules) /\ j \in Nat /\ j' = j + 1
        /\ rules' = rules /\ out' = out /\ InOrder(rules, res.matches, j)
    BY InputTypes DEF IInv, TypeOK, OInv, TryRule
  <1>2. InOrder(rules, res'.matches, j + 1)
    <2>1. CASE ~Match(rules[j], plan[i])
      <3>1. res' = res
        BY <2>1 DEF TryRule
      <3> QED
        BY <1>1, <3>1 DEF InOrder
    <2>2. CASE Match(rules[j], plan[i])
      <3> DEFINE n == Len(res.matches)
                 place(m) == PlaceIn(rules, res'.matches[m].id)
      <3>1. /\ DOMAIN res.matches = 1 .. n /\ n \in Nat
            /\ DOMAIN res'.matches = 1 .. n + 1
            /\ \A m \in 1 .. n : res'.matches[m] = res.matches[m]
            /\ res'.matches[n + 1] = Hit(rules[j])
        <4>1. res \in [matches : Seq(Hits), severity : Severities] /\ rules[j] \in Rules
          BY <1>1, InputTypes DEF IInv, TypeOK
        <4>2. res' = AddMatch(res, rules[j])
          BY <2>2 DEF TryRule
        <4>3. DOMAIN res.matches = 1 .. n /\ n \in Nat
          BY <4>1, LenProperties
        <4> HIDE DEF n
        <4> QED
          BY <4>1, <4>2, <4>3, AddMatchType DEF n
      <3>2. place(n + 1) = j
        BY <1>1, <3>1, PlaceOfRule
      <3>3. \A m \in 1 .. n : place(m) \in 1 .. j - 1
        BY <1>1, <3>1 DEF InOrder
      <3>4. \A l \in 1 .. n, m \in 1 .. n : l < m => place(l) < place(m)
        BY <1>1, <3>1 DEF InOrder
      <3>5. n \in Nat /\ DOMAIN res'.matches = 1 .. n + 1
        BY <3>1
      <3>6. \A m \in 1 .. n + 1 :
              place(m) \in 1 .. j /\ \A l \in 1 .. n + 1 : l < m => place(l) < place(m)
        <4> HIDE DEF n, place
        <4> TAKE m \in 1 .. n + 1
        <4>1. CASE m = n + 1
          BY <1>1, <3>2, <3>3, <3>5, <4>1
        <4>2. CASE m \in 1 .. n
          BY <1>1, <3>3, <3>4, <3>5, <4>2
        <4> QED
          BY <3>5, <4>1, <4>2
      <3>7. (j + 1) - 1 = j
        BY <1>1
      <3> HIDE DEF n
      <3> QED
        BY <3>5, <3>6, <3>7 DEF InOrder
    <2> QED
      BY <2>1, <2>2
  <1> QED
    BY <1>1, <1>2 DEF OInv

\* Keep appends matches in order.
LEMMA KeepOInv == IInv /\ OInv /\ Keep => OInv'
  <1> SUFFICES ASSUME IInv, OInv, Keep PROVE OInv'
    OBVIOUS
  <1>1. pc = "rules" /\ pc' = "changes" /\ j = Len(rules) + 1 /\ rules' = rules
    <2>1. pc = "rules" /\ pc' = "changes" /\ j > Len(rules) /\ rules' = rules
      BY DEF Keep
    <2>2. j \in 1 .. Len(rules) + 1 /\ j \in Nat /\ Len(rules) \in Nat
      BY InputTypes DEF IInv, TypeOK
    <2> QED
      BY <2>1, <2>2
  <1>2. InOrder(rules, res.matches, Len(rules) + 1)
    BY <1>1 DEF OInv
  <1>3. ASSUME NEW k \in DOMAIN out' PROVE InOrder(rules, out'[k].matches, Len(rules) + 1)
    <2>1. CASE k = Len(out) + 1
      <3>1. out'[k].matches = res.matches
        BY <2>1, KeptType DEF Kept
      <3> QED
        BY <1>2, <3>1
    <2>2. CASE k \in 1 .. Len(out)
      <3>1. out'[k] = out[k] /\ k \in DOMAIN out
        BY <2>2, KeptType
      <3> QED
        BY <3>1 DEF OInv
    <2> QED
      BY <2>1, <2>2, KeptType
  <1> QED
    BY <1>1, <1>3 DEF OInv

\* The matches of every result are in the order of the rules file, and no rule
\* matches a change twice.
THEOREM MatchesInOrder == Spec => []MatchesFollowTheRules
  <1>1. Init => OInv
    BY DEF Init, OInv
  <1>2. IInv /\ OInv /\ [Next]_vars => OInv'
    <2> SUFFICES ASSUME IInv, OInv, [Next]_vars PROVE OInv'
      OBVIOUS
    <2>1. CASE SkipData
      BY <2>1 DEF SkipData, OInv
    <2>2. CASE DropNoOp
      BY <2>2 DEF DropNoOp, OInv
    <2>3. CASE StartChange
      BY <2>3 DEF StartChange, OInv, InOrder, NoResult
    <2>4. CASE UNCHANGED vars
      BY <2>4 DEF vars, OInv
    <2> QED
      BY <2>1, <2>2, <2>3, <2>4, TryRuleOInv, KeepOInv DEF Next
  <1>3. IInv /\ OInv => MatchesFollowTheRules
    BY DEF OInv, InOrder, MatchesFollowTheRules, Place, PlaceIn
  <1> QED
    BY <1>1, <1>2, <1>3, SpecIInv, PTL DEF Spec

-----------------------------------------------------------------------------
(* Refinement of the abstract review. *)

Report == [k \in DOMAIN out |-> Reported(out[k])]

\* When all rules have been tried, the result is the one Review asks for.
LEMMA AllRulesTried ==
    ASSUME IInv, pc = "rules", j > Len(rules)
    PROVE  /\ Tried = R!Matching(rules, plan[i])
           /\ R!Belongs(rules, plan[i]) <=> ~Dropped(plan[i], res)
           /\ i <= Len(plan)
  <1>1. j = Len(rules) + 1 /\ Len(rules) \in Nat /\ DOMAIN rules = 1 .. Len(rules)
    BY InputTypes, LenProperties DEF IInv, TypeOK
  <1>2. Tried = R!Matching(rules, plan[i])
    BY <1>1 DEF Tried, R!Matching, R!Match, R!AnyGlob, Match, AnyGlob
  <1>3. Matched(res) <=> Tried # {}
    <2>1. res.matches \in Seq(Hits)
      BY DEF IInv, TypeOK
    <2>2. Len(res.matches) > 0 <=> res.matches # << >>
      BY <2>1, EmptySeq, LenProperties
    <2> QED
      BY <2>2 DEF IInv, ResultOfTried, Matched
  <1> QED
    BY <1>2, <1>3 DEF IInv, TypeOK, ResultOfTried, R!Belongs, Dropped

\* Classify starts where a review starts.
LEMMA InitRefines == Init => R!RInit
  <1> SUFFICES ASSUME Init PROVE R!RInit
    OBVIOUS
  <1>1. [k \in DOMAIN out |-> Reported(out[k])] = << >>
    BY DEF Init
  <1> QED
    BY <1>1 DEF Init, R!RInit

\* A data source leaves the review.
LEMMA SkipDataRefines == IInv /\ SkipData => R!Leave
  BY DEF SkipData, R!Leave, R!Belongs

\* A no-op that no rule matched leaves the review.
LEMMA DropNoOpRefines == IInv /\ DropNoOp => R!Leave
  BY AllRulesTried DEF DropNoOp, R!Leave

\* What Keep appends is what the abstract review enters.
LEMMA KeepRefines == IInv /\ Keep => R!Enter
  <1> SUFFICES ASSUME IInv, Keep PROVE R!Enter
    OBVIOUS
  <1> DEFINE entry == [change   |-> plan[i],
                       matched  |-> {rules[k].id : k \in R!Matching(rules, plan[i])},
                       severity |-> res.severity]
             n == Len(out)
  <1>1. /\ pc = "rules" /\ j > Len(rules) /\ ResultOfTried /\ ~Dropped(plan[i], res)
        /\ i' = i + 1 /\ plan' = plan /\ rules' = rules
    BY DEF IInv, Keep
  <1>2. /\ Tried = R!Matching(rules, plan[i])
        /\ R!Belongs(rules, plan[i]) /\ i <= Len(plan)
    BY <1>1, AllRulesTried
  <1>3. res.severity \in R!Severities
          /\ R!IsHighest(rules, R!Matching(rules, plan[i]), res.severity)
    BY <1>1, <1>2 DEF IInv, TypeOK, ResultOfTried, Severities, R!Severities,
                      None, Low, Medium, High, R!None, R!Low, R!Medium, R!High
  <1>4. Reported(Kept) = entry
    BY <1>1, <1>2 DEF ResultOfTried, Reported, Kept
  <1>5. /\ DOMAIN out = 1 .. n /\ n \in Nat /\ DOMAIN out' = 1 .. n + 1
        /\ \A k \in 1 .. n : out'[k] = out[k]
        /\ out'[n + 1] = Kept
    BY KeptType
  <1>6. Report' = Append(Report, entry)
    <2> HIDE DEF entry, n
    <2>1. Report = [k \in 1 .. n |-> Reported(out[k])]
      BY <1>5 DEF Report
    <2>2. Report' = [k \in 1 .. n + 1 |-> Reported(out'[k])]
      BY <1>5 DEF Report, Reported
    <2>3. Len(Report) = n
      BY <1>5, <2>1
    <2>4. Append(Report, entry) =
            [k \in 1 .. n + 1 |-> IF k = n + 1 THEN entry ELSE Report[k]]
      BY <1>5, <2>1, <2>3
    <2>5. \A k \in 1 .. n + 1 :
            Reported(out'[k]) = IF k = n + 1 THEN entry ELSE Report[k]
      BY <1>4, <1>5, <2>1
    <2> QED
      BY <2>2, <2>4, <2>5
  <1> QED
    BY <1>1, <1>2, <1>3, <1>6 DEF R!Enter, Report

\* Every step of the loops is a step of the review or changes nothing in it.
LEMMA StepRefines == IInv /\ [Next]_vars => [R!RNext]_(R!rvars)
  <1> SUFFICES ASSUME IInv, [Next]_vars PROVE [R!RNext]_(R!rvars)
    OBVIOUS
  <1>1. CASE SkipData
    BY <1>1, SkipDataRefines DEF R!RNext
  <1>2. CASE StartChange
    BY <1>2 DEF StartChange, R!rvars
  <1>3. CASE TryRule
    BY <1>3 DEF TryRule, R!rvars
  <1>4. CASE DropNoOp
    BY <1>4, DropNoOpRefines DEF R!RNext
  <1>5. CASE Keep
    BY <1>5, KeepRefines DEF R!RNext
  <1>6. CASE UNCHANGED vars
    BY <1>6 DEF vars, R!rvars
  <1> QED
    BY <1>1, <1>2, <1>3, <1>4, <1>5, <1>6 DEF Next

\* The loops of Classify implement the abstract review, for plans and rules
\* files of any length: every change that belongs in the review is reported
\* once and in plan order, with all its rules and the highest severity.
THEOREM ClassifyImplementsReview == Spec => R!RSafety
  BY InitRefines, StepRefines, SpecIInv, PTL DEF Spec, R!RSafety

=============================================================================
