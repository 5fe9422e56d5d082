-------------------------- MODULE RulesLoadProofs --------------------------
(***************************************************************************)
(* Proofs about Load for every rules file: it refuses exactly the files     *)
(* with a bad rule or verdict and names every bad rule, and the rules it    *)
(* returns match what the file says they match.                             *)
(***************************************************************************)
EXTENDS RulesLoad, SequenceTheorems, TLAPS

-----------------------------------------------------------------------------
(* One rule. *)

\* compile reports a problem for exactly the ill-formed rules.
LEMMA FaultyIsIllFormed ==
    ASSUME NEW rr, RawRule(rr)
    PROVE  CompileErrors(rr) # {} <=> IllFormed(rr)
  <1>1. CompileErrors(rr) # {} <=>
          \/ Faults(rr).id \/ Faults(rr).severity \/ Faults(rr).verdict
          \/ Faults(rr).when \/ Faults(rr).types \/ Faults(rr).actions
          \/ Faults(rr).addresses \/ Faults(rr).predicate
    BY DEF CompileErrors, Faults
  <1>2. Faults(rr).severity <=> rr.severity \notin {"low", "medium", "high"}
    <2>1. Faults(rr).severity <=> SeverityOf(rr.severity) = None
      BY DEF Faults
    <2>2. CASE rr.severity \in {"low", "medium", "high"}
      BY <2>1, <2>2 DEF SeverityOf, None, Low, Medium, High
    <2>3. CASE rr.severity \notin {"low", "medium", "high"}
      BY <2>1, <2>3 DEF SeverityOf
    <2> QED
      BY <2>2, <2>3
  <1>3. Faults(rr).types \/ Faults(rr).addresses <=>
          {} \in rr.types \cup rr.addresses \/ NoName \in UNION (rr.types \cup rr.addresses)
    BY DEF Faults, BadGlobs
  <1>4. Faults(rr).actions <=>
          {} \in rr.actions \/ ~(UNION rr.actions \subseteq Actions \ {"unknown"})
    BY DEF Faults, Selectable
  <1>5. /\ Faults(rr).id <=> rr.id = NoName
        /\ Faults(rr).verdict <=> rr.verdict \notin {NoName, "block"}
        /\ Faults(rr).when <=> {rr.types, rr.actions, rr.addresses} = {{}} /\ rr.predicate = NoName
        /\ Faults(rr).predicate <=> rr.predicate # NoName /\ rr.predicate \notin DOMAIN Registry
    BY DEF Faults
  <1> QED
    BY <1>1, <1>2, <1>3, <1>4, <1>5 DEF IllFormed

\* A well-formed rule compiles to a rule that matches what it says.
LEMMA CompiledType ==
    ASSUME NEW rr, RawRule(rr), ~IllFormed(rr)
    PROVE  Compiled(rr) \in Rules
  <1>1. rr.id \in RuleIDs /\ SeverityOf(rr.severity) \in Severities \ {None}
    BY DEF RawRule, IllFormed, SeverityOf, Severities, None, Low, Medium, High
  <1>2. CompileGlobs(rr.types, Types) \in SUBSET SUBSET Types
    BY DEF CompileGlobs
  <1>3. CompileGlobs(rr.addresses, Addresses) \in SUBSET SUBSET Addresses
    BY DEF CompileGlobs
  <1>4. (UNION rr.actions) \cap Selectable \in SUBSET (Actions \ {"unknown"})
    BY DEF Selectable
  <1>5. (IF rr.predicate \in DOMAIN Registry THEN {Registry[rr.predicate]} ELSE {})
          \in SUBSET SUBSET Changes
    BY RegistryIsTyped
  <1> QED
    BY <1>1, <1>2, <1>3, <1>4, <1>5 DEF Compiled, Rules

\* The compiled globs of a field select what its list of patterns does, and
\* everything if there is no list.
LEMMA GlobsMatch ==
    ASSUME NEW list, NEW strings, NEW s \in strings, ~BadGlobs(list),
           \A l1, l2 \in list : l1 = l2
    PROVE  (CompileGlobs(list, strings) = {} \/ AnyGlob(CompileGlobs(list, strings), s)) <=>
             \A patterns \in list : \E p \in patterns : s \in GlobMatches[p]
  <1> DEFINE globs == {GlobMatches[p] \cap strings : p \in UNION list}
  <1>1. CompileGlobs(list, strings) = globs
    BY DEF CompileGlobs
  <1>2. CASE list = {}
    BY <1>1, <1>2
  <1>3. CASE list # {}
    <2>1. PICK l : l \in list
      BY <1>3
    <2>2. list = {l} /\ UNION list = l /\ l # {}
      BY <2>1 DEF BadGlobs
    <2>3. globs = {GlobMatches[p] \cap strings : p \in l}
      BY <2>2
    <2> HIDE DEF globs
    <2>4. \A p \in l : GlobMatches[p] \cap strings \in globs
      BY <2>3
    <2>5. \A g \in globs : \E p \in l : g = GlobMatches[p] \cap strings
      BY <2>3
    <2>6. globs # {}
      BY <2>2, <2>4
    <2>7. AnyGlob(globs, s) <=> \E p \in l : s \in GlobMatches[p]
      <3>1. ASSUME NEW p \in l, s \in GlobMatches[p] PROVE \E g \in globs : s \in g
        BY <2>4, <3>1
      <3>2. ASSUME NEW g \in globs, s \in g PROVE \E p \in l : s \in GlobMatches[p]
        BY <2>5, <3>2
      <3> QED
        BY <3>1, <3>2 DEF AnyGlob
    <2> QED
      BY <1>1, <2>2, <2>6, <2>7
  <1> QED
    BY <1>2, <1>3

\* A rule without a problem matches, once compiled, what it says in the file.
LEMMA CompiledMatches ==
    ASSUME NEW rr, RawRule(rr), ~IllFormed(rr), NEW c \in Changes
    PROVE  Match(Compiled(rr), c) <=> Says(rr, c)
  <1> DEFINE r == Compiled(rr)
  <1>1. c.type \in Types /\ c.address \in Addresses /\ c.action \in Actions
    BY DEF Changes
  <1>2. /\ ~BadGlobs(rr.types) /\ ~BadGlobs(rr.addresses)
        /\ \A l1, l2 \in rr.types : l1 = l2
        /\ \A l1, l2 \in rr.addresses : l1 = l2
    BY DEF RawRule, IllFormed, BadGlobs
  <1>3. (r.types = {} \/ AnyGlob(r.types, c.type)) <=>
          \A patterns \in rr.types : \E p \in patterns : c.type \in GlobMatches[p]
    BY <1>1, <1>2, GlobsMatch DEF Compiled
  <1>4. (r.addresses = {} \/ AnyGlob(r.addresses, c.address)) <=>
          \A patterns \in rr.addresses : \E p \in patterns : c.address \in GlobMatches[p]
    BY <1>1, <1>2, GlobsMatch DEF Compiled
  <1>5. (r.actions = {} \/ c.action \in r.actions) <=> \A names \in rr.actions : c.action \in names
    <2>1. r.actions = (UNION rr.actions) \cap (Actions \ {"unknown"})
      BY DEF Compiled, Selectable
    <2>2. UNION rr.actions \subseteq Actions \ {"unknown"} /\ {} \notin rr.actions
      BY DEF IllFormed
    <2>3. r.actions = UNION rr.actions
      BY <2>1, <2>2
    <2>4. CASE rr.actions = {}
      BY <2>3, <2>4
    <2>5. CASE rr.actions # {}
      <3>1. PICK names : names \in rr.actions
        BY <2>5
      <3>2. rr.actions = {names}
        BY <3>1 DEF RawRule
      <3>3. r.actions = names /\ names # {}
        BY <2>2, <2>3, <3>1, <3>2
      <3> QED
        BY <3>2, <3>3
    <2> QED
      BY <2>4, <2>5
  <1>6. (r.predicate = {} \/ \E holds \in r.predicate : c \in holds) <=>
          (rr.predicate # NoName =>
             rr.predicate \in DOMAIN Registry /\ c \in Registry[rr.predicate])
    BY RegistryIsTyped DEF IllFormed, Compiled
  <1> QED
    BY <1>3, <1>4, <1>5, <1>6 DEF Match, Says

-----------------------------------------------------------------------------
(* The loop.  The rules compiled so far are a prefix of the file's, the     *)
(* problems found are those of the prefix, and seen holds its ids.          *)

Bad(k) ==
    \/ IllFormed(file.rules[k])
    \/ file.rules[k].id # NoName /\ \E l \in 1 .. k - 1 : file.rules[l].id = file.rules[k].id

BadVerdict == BadVerdictIn(file)

Prefix ==
    /\ \A k \in 1 .. Len(rules) : rules[k] = Compiled(file.rules[k])
    /\ seen = {file.rules[k].id : k \in 1 .. Len(rules)}
    /\ \A k \in 1 .. Len(file.rules) :
         (\E e \in errs : e[1] = k) <=> k <= Len(rules) /\ Bad(k)
    /\ (\E e \in errs : e[1] = 0) <=> BadVerdict
    /\ ~BadVerdict => unmatched \in [destructive : Verdicts, other : Verdicts]

IInv ==
    /\ lpc \in {"decode", "rules", "loaded", "refused"}
    /\ file \in Files
    /\ \E R : rules \in Seq(R)
    /\ Len(rules) <= Len(file.rules)
    /\ \A e \in errs : e[1] \in 0 .. Len(file.rules)
    /\ seen \subseteq RuleIDs \cup {NoName}
    /\ unmatched \in [destructive : Verdicts \cup {NoName}, other : Verdicts \cup {NoName}]
    /\ lpc = "decode" => /\ rules = << >> /\ seen = {} /\ errs = {}
                         /\ unmatched \in [destructive : Verdicts, other : Verdicts]
    /\ lpc \in {"rules", "loaded"} => file.decodes = "yes" /\ file.version = 1 /\ Prefix
    /\ lpc \in {"loaded", "refused"} /\ file.decodes = "yes" /\ file.version = 1 =>
         Prefix /\ Len(rules) = Len(file.rules)
    /\ lpc = "loaded" => errs = {} /\ Len(rules) = Len(file.rules)
    /\ lpc = "refused" => errs # {}

\* The rules of a decoded file are a sequence of decoded rules.
LEMMA FileType ==
    ASSUME file \in Files
    PROVE  /\ RawFile(file) /\ Len(file.rules) \in Nat /\ DOMAIN file.rules = 1 .. Len(file.rules)
           /\ \A k \in 1 .. Len(file.rules) : RawRule(file.rules[k])
  <1>1. RawFile(file)
    BY FilesAreDecoded
  <1>2. Len(file.rules) \in Nat /\ DOMAIN file.rules = 1 .. Len(file.rules)
    BY <1>1, LenProperties DEF RawFile
  <1> QED
    BY <1>1, <1>2 DEF RawFile

\* The initial states satisfy IInv.
LEMMA InitIInv == Init => IInv
  <1> SUFFICES ASSUME Init PROVE IInv
    OBVIOUS
  <1>1. rules \in Seq({}) /\ Len(rules) = 0 /\ Len(file.rules) \in Nat
    BY FileType, EmptySeq DEF Init
  <1>2. \E R : rules \in Seq(R)
    BY <1>1
  <1> QED
    BY <1>1, <1>2 DEF Init, IInv, Verdicts

\* DecodeFails preserves IInv.
LEMMA DecodeFailsIInv == IInv /\ DecodeFails => IInv'
  <1> SUFFICES ASSUME IInv, DecodeFails PROVE IInv'
    OBVIOUS
  <1> QED
    BY FileType DEF IInv, DecodeFails, Refuse

\* WrongVersion preserves IInv.
LEMMA WrongVersionIInv == IInv /\ WrongVersion => IInv'
  <1> SUFFICES ASSUME IInv, WrongVersion PROVE IInv'
    OBVIOUS
  <1> QED
    BY FileType DEF IInv, WrongVersion, Refuse

\* ReadUnmatched preserves IInv.
LEMMA ReadUnmatchedIInv == IInv /\ ReadUnmatched => IInv'
  <1> SUFFICES ASSUME IInv, ReadUnmatched PROVE IInv'
    OBVIOUS
  <1>1. /\ lpc' = "rules" /\ file' = file /\ seen' = seen /\ rules' = rules
        /\ rules = << >> /\ seen = {} /\ Len(rules) = 0 /\ Len(file.rules) \in Nat
        /\ unmatched \in [destructive : Verdicts, other : Verdicts]
        /\ file.decodes = "yes" /\ file.version = 1
    BY FileType, EmptySeq DEF IInv, ReadUnmatched
  <1>2. \A e \in errs' : e[1] = 0
    BY DEF ReadUnmatched
  <1>3. (\E e \in errs' : e[1] = 0) <=> BadVerdict
    <2> DEFINE bad == {fd \in {"destructive", "other"} : file[fd] \notin Verdicts \cup {NoName}}
    <2>1. errs' = {<<0, fd>> : fd \in bad}
      BY DEF ReadUnmatched
    <2>2. bad # {} <=> BadVerdict
      BY DEF BadVerdict, BadVerdictIn
    <2>3. \A fd : <<0, fd>>[1] = 0
      OBVIOUS
    <2> HIDE DEF bad
    <2> QED
      BY <2>1, <2>2, <2>3
  <1>4. /\ unmatched' \in [destructive : Verdicts \cup {NoName}, other : Verdicts \cup {NoName}]
        /\ ~BadVerdict => unmatched' \in [destructive : Verdicts, other : Verdicts]
    BY <1>1 DEF ReadUnmatched, BadVerdict, BadVerdictIn
  <1>5. Prefix'
    BY <1>1, <1>2, <1>3, <1>4 DEF Prefix, BadVerdict
  <1> QED
    BY <1>1, <1>2, <1>4, <1>5 DEF IInv

\* CompileRule preserves IInv.
LEMMA CompileRuleIInv == IInv /\ CompileRule => IInv'
  <1> SUFFICES ASSUME IInv, CompileRule PROVE IInv'
    OBVIOUS
  <1> DEFINE k == Len(rules) + 1
             rr == file.rules[k]
             found == CompileErrors(rr) \cup (IF Duplicate(rr.id) THEN {"duplicate"} ELSE {})
  <1>1. PICK R : rules \in Seq(R)
    BY DEF IInv
  <1>2. /\ lpc = "rules" /\ lpc' = lpc /\ file' = file /\ unmatched' = unmatched
        /\ Len(rules) < Len(file.rules) /\ Prefix
        /\ rules' = Append(rules, Compiled(rr))
        /\ seen' = seen \cup {rr.id}
        /\ errs' = errs \cup {<<k, what>> : what \in found}
    BY DEF IInv, CompileRule, Blame
  <1>3. /\ Len(file.rules) \in Nat /\ Len(rules) \in Nat /\ k \in 1 .. Len(file.rules)
        /\ RawRule(rr) /\ file \in Files
    BY <1>1, <1>2, FileType, LenProperties DEF IInv
  <1>4. /\ rules' \in Seq(R \cup {Compiled(rr)}) /\ Len(rules') = k /\ rules'[k] = Compiled(rr)
        /\ \A l \in 1 .. Len(rules) : rules'[l] = rules[l]
    <2>1. rules \in Seq(R \cup {Compiled(rr)})
      BY <1>1
    <2> QED
      BY <1>2, <1>3, <2>1, AppendProperties
  <1>5. seen' = {file'.rules[l].id : l \in 1 .. Len(rules')}
    BY <1>2, <1>3, <1>4 DEF Prefix
  <1>6. found # {} <=> Bad(k)
    <2>1. Duplicate(rr.id) <=> rr.id # NoName /\ \E l \in 1 .. k - 1 : file.rules[l].id = rr.id
      BY <1>2, <1>3 DEF Duplicate, Prefix
    <2> QED
      BY <1>3, <2>1, FaultyIsIllFormed DEF Bad
  <1> HIDE DEF found, rr
  <1>7. \A l \in 1 .. Len(file.rules) :
          (\E e \in errs' : e[1] = l) <=> l <= k /\ Bad(l)
    <2> SUFFICES ASSUME NEW l \in 1 .. Len(file.rules)
                 PROVE  (\E e \in errs' : e[1] = l) <=> l <= k /\ Bad(l)
      OBVIOUS
    <2>1. (\E e \in errs : e[1] = l) <=> l <= Len(rules) /\ Bad(l)
      BY <1>2 DEF Prefix
    <2>2. CASE l = k
      <3>1. ~\E e \in errs : e[1] = k
        BY <1>3, <2>1, <2>2
      <3>2. \A what : <<k, what>>[1] = k
        OBVIOUS
      <3>3. (\E e \in errs' : e[1] = k) <=> found # {}
        <4>1. ASSUME NEW what \in found PROVE \E e \in errs' : e[1] = k
          <5>1. <<k, what>> \in errs'
            BY <1>2
          <5> QED
            BY <3>2, <5>1
        <4>2. ASSUME NEW e \in errs', e[1] = k PROVE found # {}
          BY <1>2, <3>1, <4>2
        <4> QED
          BY <4>1, <4>2
      <3> QED
        BY <1>3, <1>6, <2>2, <3>3
    <2>3. CASE l # k
      BY <1>2, <1>3, <2>1, <2>3
    <2> QED
      BY <2>2, <2>3
  <1>8. /\ (\E e \in errs' : e[1] = 0) <=> BadVerdict
        /\ \A e \in errs' : e[1] \in 0 .. Len(file.rules)
    BY <1>2, <1>3 DEF Prefix, IInv
  <1>9. Prefix'
    <2>1. \A l \in 1 .. Len(rules') : rules'[l] = Compiled(file'.rules[l])
      BY <1>2, <1>3, <1>4 DEF Prefix, rr
    <2>2. \A l : Bad(l)' <=> Bad(l)
      BY <1>2 DEF Bad
    <2>3. BadVerdict' <=> BadVerdict
      BY <1>2 DEF BadVerdict
    <2> QED
      BY <1>2, <1>4, <1>5, <1>7, <1>8, <2>1, <2>2, <2>3 DEF Prefix
  <1>10. seen' \subseteq RuleIDs \cup {NoName}
    BY <1>2, <1>3 DEF IInv, RawRule
  <1>11. (\E S : rules \in Seq(S))'
    BY <1>4
  <1> QED
    BY <1>2, <1>3, <1>4, <1>8, <1>9, <1>10, <1>11 DEF IInv

\* RefuseAll preserves IInv.
LEMMA RefuseAllIInv == IInv /\ RefuseAll => IInv'
  <1> SUFFICES ASSUME IInv, RefuseAll PROVE IInv'
    OBVIOUS
  <1>1. /\ lpc = "rules" /\ lpc' = "refused" /\ Len(rules) = Len(file.rules) /\ errs # {}
        /\ errs' = errs /\ file' = file /\ seen' = seen /\ unmatched' = unmatched /\ rules' = rules
    BY DEF RefuseAll, Refuse
  <1>2. Prefix /\ Prefix' = Prefix
    BY <1>1 DEF IInv, Prefix, Bad, BadVerdict
  <1> QED
    BY <1>1, <1>2 DEF IInv

\* Accept preserves IInv.
LEMMA AcceptIInv == IInv /\ Accept => IInv'
  <1> SUFFICES ASSUME IInv, Accept PROVE IInv'
    OBVIOUS
  <1>1. /\ lpc = "rules" /\ lpc' = "loaded" /\ Len(rules) = Len(file.rules) /\ errs = {}
        /\ errs' = errs /\ file' = file /\ seen' = seen /\ unmatched' = unmatched /\ rules' = rules
    BY DEF Accept
  <1>2. Prefix /\ Prefix' = Prefix
    BY <1>1 DEF IInv, Prefix, Bad, BadVerdict
  <1> QED
    BY <1>1, <1>2 DEF IInv

\* A step that changes nothing preserves IInv.
LEMMA StutterIInv == IInv /\ UNCHANGED lvars => IInv'
  <1> SUFFICES ASSUME IInv, UNCHANGED lvars PROVE IInv'
    OBVIOUS
  <1>1. Prefix' = Prefix
    BY DEF lvars, Prefix, Bad, BadVerdict
  <1> QED
    BY <1>1 DEF IInv, lvars

\* Every step of Load preserves IInv.
LEMMA NextIInv == IInv /\ [Next]_lvars => IInv'
  BY DecodeFailsIInv, WrongVersionIInv, ReadUnmatchedIInv, CompileRuleIInv, RefuseAllIInv,
     AcceptIInv, StutterIInv DEF Next

\* IInv is an invariant of the specification: it holds at first and every
\* action preserves it.
THEOREM SpecIInv == Spec => []IInv
  BY InitIInv, NextIInv, PTL DEF Spec

-----------------------------------------------------------------------------
(* What follows from the invariant. *)

\* In a loaded set every rule is one of the file, compiled, and not bad.
LEMMA LoadedIsClean ==
    ASSUME IInv, lpc = "loaded", NEW k \in 1 .. Len(rules)
    PROVE  /\ k \in 1 .. Len(file.rules) /\ RawRule(file.rules[k]) /\ ~Bad(k)
           /\ rules[k] = Compiled(file.rules[k])
  BY FileType DEF IInv, Prefix

\* The state is typed whenever IInv holds.
LEMMA TypesOfIInv == IInv => TypeOK
  <1> SUFFICES ASSUME IInv PROVE TypeOK
    OBVIOUS
  <1>1. ASSUME lpc = "loaded" PROVE rules \in Seq(Rules)
    <2>1. \A k \in 1 .. Len(rules) : rules[k] \in Rules
      BY <1>1, LoadedIsClean, CompiledType DEF Bad
    <2>2. PICK R : rules \in Seq(R)
      BY DEF IInv
    <2> QED
      BY <2>1, <2>2
  <1>2. lpc = "loaded" => unmatched \in [destructive : Verdicts, other : Verdicts]
    BY DEF IInv, Prefix
  <1> QED
    BY <1>1, <1>2 DEF IInv, TypeOK

\* A loaded rule keeps its id, its severity and whether it has a predicate.
LEMMA LoadedFields ==
    ASSUME IInv, lpc = "loaded", NEW k \in 1 .. Len(rules)
    PROVE  /\ rules[k].id = file.rules[k].id
           /\ rules[k].severity = SeverityOf(file.rules[k].severity)
           /\ file.rules[k].severity \in {"low", "medium", "high"}
           /\ rules[k].predicate # {} <=> file.rules[k].predicate # NoName
  <1>1. rules[k] = Compiled(file.rules[k]) /\ ~IllFormed(file.rules[k])
    BY LoadedIsClean DEF Bad
  <1> QED
    BY <1>1, RegistryIsTyped DEF Compiled, IllFormed

\* Load returns typed rules that have a severity, and two valid verdicts.
THEOREM TypeCorrect == Spec => []TypeOK
  BY TypesOfIInv, SpecIInv, PTL

\* A rule that is loaded is well-formed, so it matches what it says.
LEMMA LoadedRulesMatch == IInv => LoadedRulesMatchAsWritten
  <1> SUFFICES ASSUME IInv, lpc = "loaded" PROVE LoadedRulesMatchAsWritten
    BY DEF LoadedRulesMatchAsWritten
  <1>1. Len(rules) = Len(file.rules)
    BY DEF IInv
  <1>2. ASSUME NEW k \in 1 .. Len(rules)
        PROVE  /\ rules[k].id = file.rules[k].id
               /\ \A c \in Changes : Match(rules[k], c) <=> Says(file.rules[k], c)
    <2>1. /\ RawRule(file.rules[k]) /\ ~Bad(k) /\ rules[k] = Compiled(file.rules[k])
      BY LoadedIsClean
    <2>2. ~IllFormed(file.rules[k])
      BY <2>1 DEF Bad
    <2>3. rules[k].id = file.rules[k].id
      BY <2>1 DEF Compiled
    <2> QED
      BY <2>1, <2>2, <2>3, CompiledMatches
  <1> QED
    BY <1>1, <1>2 DEF LoadedRulesMatchAsWritten

\* A loaded rule matches exactly the changes the file says it matches.
THEOREM RulesMatchAsWritten == Spec => []LoadedRulesMatchAsWritten
  BY LoadedRulesMatch, SpecIInv, PTL

\* The later of two rules with one id is bad.
LEMMA LoadedIdsAreUnique == IInv => IdsAreUnique
  <1> SUFFICES ASSUME IInv, lpc = "loaded"
               PROVE  \A k, l \in 1 .. Len(rules) : rules[k].id = rules[l].id => k = l
    BY DEF IdsAreUnique
  <1>1. ASSUME NEW k \in 1 .. Len(rules), NEW l \in 1 .. Len(rules), k < l
        PROVE  rules[k].id # rules[l].id
    <2>1. rules[k] = Compiled(file.rules[k]) /\ rules[l] = Compiled(file.rules[l]) /\ ~Bad(l)
      BY LoadedIsClean
    <2>2. rules[k].id = file.rules[k].id /\ rules[l].id = file.rules[l].id
      BY <2>1 DEF Compiled
    <2>3. file.rules[l].id # NoName
      BY <2>1 DEF Bad, IllFormed
    <2>4. k \in 1 .. l - 1
      BY <1>1
    <2> QED
      BY <2>1, <2>2, <2>3, <2>4 DEF Bad
  <1>2. \A k, l \in 1 .. Len(rules) : k = l \/ k < l \/ l < k
    OBVIOUS
  <1> QED
    BY <1>1, <1>2

\* Loaded rules have distinct ids.
THEOREM UniqueIds == Spec => []IdsAreUnique
  BY LoadedIdsAreUnique, SpecIInv, PTL

\* The problems found name the bad rules of the prefix compiled so far.
LEMMA ProblemsNameBadRules == IInv => EveryBadRuleIsNamed
  <1> SUFFICES ASSUME IInv, lpc \in {"loaded", "refused"}, file.decodes = "yes",
                      file.version = 1
               PROVE  /\ {e[1] : e \in errs} \ {0} = BadRules
                      /\ lpc = "loaded" <=> BadRules = {} /\ ~BadVerdict
    BY DEF EveryBadRuleIsNamed, BadVerdict
  <1>1. /\ Prefix /\ Len(rules) = Len(file.rules) /\ Len(file.rules) \in Nat
        /\ \A e \in errs : e[1] \in 0 .. Len(file.rules)
        /\ BadRules = {k \in 1 .. Len(file.rules) : Bad(k)}
    BY FileType DEF IInv, BadRules, BadRulesIn, Bad
  <1>2. {e[1] : e \in errs} \ {0} = BadRules
    BY <1>1 DEF Prefix
  <1>3. errs = {} <=> BadRules = {} /\ ~BadVerdict
    BY <1>1, <1>2 DEF Prefix
  <1> QED
    BY <1>2, <1>3 DEF IInv

\* A file is refused exactly when it has to be, and every bad rule is named.
THEOREM BadRulesNamed == Spec => []EveryBadRuleIsNamed
  BY ProblemsNameBadRules, SpecIInv, PTL

\* Load accepts the files that are in order, and no others.
LEMMA AcceptedIsInOrder ==
    IInv => (lpc = "loaded" => InOrder(file)) /\ (lpc = "refused" => ~InOrder(file))
  BY ProblemsNameBadRules DEF IInv, EveryBadRuleIsNamed, InOrder, BadRules

=============================================================================
