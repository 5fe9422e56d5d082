------------------------------ MODULE RulesLoad ------------------------------
(***************************************************************************)
(* rules.Load (internal/rules/rules.go): a decoded rules file is checked    *)
(* and compiled to the rules Classify runs.  A bad rule does not stop the   *)
(* loop: problems are collected, and a file with any is refused as a whole. *)
(***************************************************************************)
EXTENDS RulesFile

CONSTANT Files  \* what the YAML decoder makes of rules files

ASSUME FilesAreDecoded == \A f \in Files : RawFile(f)

VARIABLES
    lpc,        \* what Load does next, or "loaded" or "refused"
    file,       \* the file being loaded
    seen,       \* the ids met so far
    errs,       \* the problems found, each with the number of its rule (0: no rule)
    unmatched,  \* set.Unmatched
    rules       \* set.Rules

lvars == <<lpc, file, seen, errs, unmatched, rules>>

-----------------------------------------------------------------------------
(* compile *)

SeverityOf(name) ==
    CASE name = "high" -> High [] name = "medium" -> Medium [] name = "low" -> Low
      [] OTHER -> None

\* BadGlobs that lets an empty list pass.
BadGlobsOnlyEmptyPattern(list) == \E l \in list : NoName \in l

\* compileGlobs refuses an empty list and an empty pattern.
BadGlobs(list) == \E l \in list : l = {} \/ NoName \in l

CompileGlobs(list, strings) ==
    IF BadGlobs(list) THEN {} ELSE {GlobMatches[p] \cap strings : p \in UNION list}

\* parseAction knows the names of all actions but "unknown".
Selectable == Actions \ {"unknown"}

Compiled(rr) ==
    [id |-> rr.id,
     severity |-> SeverityOf(rr.severity),
     block |-> rr.verdict = "block",
     types |-> CompileGlobs(rr.types, Types),
     actions |-> (UNION rr.actions) \cap Selectable,
     addresses |-> CompileGlobs(rr.addresses, Addresses),
     predicate |-> IF rr.predicate \in DOMAIN Registry THEN {Registry[rr.predicate]} ELSE {}]

\* Every check of compile, and whether rr fails it.
Faults(rr) ==
    [id |-> rr.id = NoName,
     severity |-> SeverityOf(rr.severity) = None,
     verdict |-> rr.verdict \notin {NoName, "block"},
     when |-> /\ rr.types = {} /\ rr.actions = {} /\ rr.addresses = {}
              /\ rr.predicate = NoName,
     types |-> BadGlobs(rr.types),
     actions |-> \E names \in rr.actions : names = {} \/ ~(names \subseteq Selectable),
     addresses |-> BadGlobs(rr.addresses),
     predicate |-> rr.predicate \notin DOMAIN Registry \cup {NoName}]

\* CompileErrors that lets any severity pass.
CompileErrorsButSeverity(rr) ==
    {what \in DOMAIN Faults(rr) \ {"severity"} : Faults(rr)[what]}

CompileErrors(rr) == {what \in DOMAIN Faults(rr) : Faults(rr)[what]}

-----------------------------------------------------------------------------
Init ==
    /\ lpc = "decode"
    /\ file \in Files
    /\ seen = {} /\ errs = {}
    /\ unmatched = [destructive |-> "needs-attention", other |-> "approve"]
    /\ rules = << >>

Refuse(problems) ==
    /\ lpc' = "refused"
    /\ errs' = problems
    /\ UNCHANGED <<file, seen, unmatched, rules>>

DecodeFails ==
    /\ lpc = "decode" /\ file.decodes # "yes"
    /\ Refuse({<<0, file.decodes>>})

WrongVersion ==
    /\ lpc = "decode" /\ file.decodes = "yes"
    /\ file.version # 1
    /\ Refuse({<<0, "version">>})

\* An invalid verdict is stored as the empty one.
ReadUnmatched ==
    /\ lpc = "decode" /\ file.decodes = "yes"
    /\ file.version = 1
    /\ LET given(v, default) ==
               IF v = NoName THEN default ELSE IF v \in Verdicts THEN v ELSE NoName
       IN  unmatched' = [destructive |-> given(file.destructive, unmatched.destructive),
                         other |-> given(file.other, unmatched.other)]
    /\ errs' = {<<0, field>> : field \in
                  {fd \in {"destructive", "other"} :
                     file[fd] \notin Verdicts \cup {NoName}}}
    /\ lpc' = "rules"
    /\ UNCHANGED <<file, seen, rules>>

\* Duplicate that compares with the rule before only.
DuplicateOfLast(id) == id # NoName /\ rules # << >> /\ rules[Len(rules)].id = id

Duplicate(id) == id # NoName /\ id \in seen

\* Blame that reports the first bad rule only.
BlameFirst(k, faults) == IF errs = {} THEN {<<k, what>> : what \in faults} ELSE errs

Blame(k, faults) == errs \cup {<<k, what>> : what \in faults}

CompileRule ==
    /\ lpc = "rules" /\ Len(rules) < Len(file.rules)
    /\ LET k == Len(rules) + 1
           rr == file.rules[k]
       IN  /\ rules' = Append(rules, Compiled(rr))
           /\ errs' = Blame(k, CompileErrors(rr)
                                 \cup IF Duplicate(rr.id) THEN {"duplicate"} ELSE {})
           /\ seen' = seen \cup {rr.id}
    /\ UNCHANGED <<lpc, file, unmatched>>

RefuseAll ==
    /\ lpc = "rules" /\ Len(rules) = Len(file.rules)
    /\ errs # {}
    /\ Refuse(errs)

Accept ==
    /\ lpc = "rules" /\ Len(rules) = Len(file.rules)
    /\ errs = {}
    /\ lpc' = "loaded"
    /\ UNCHANGED <<file, seen, errs, unmatched, rules>>

Next == DecodeFails \/ WrongVersion \/ ReadUnmatched \/ CompileRule \/ RefuseAll \/ Accept

Spec == Init /\ [][Next]_lvars /\ WF_lvars(Next)

-----------------------------------------------------------------------------
(* Properties *)

\* A set that Load returns is one Classify and the verdicts can use: compiled
\* rules have a severity and an id, and both unmatched verdicts are set.
TypeOK ==
    /\ lpc \in {"decode", "rules", "loaded", "refused"}
    /\ file \in Files
    /\ seen \subseteq RuleIDs \cup {NoName}
    /\ \A e \in errs : e[1] \in 0 .. Len(file.rules)
    /\ Len(rules) <= Len(file.rules)
    /\ unmatched \in [destructive : Verdicts \cup {NoName}, other : Verdicts \cup {NoName}]
    /\ lpc = "loaded" =>
         /\ rules \in Seq(Rules)
         /\ unmatched \in [destructive : Verdicts, other : Verdicts]

\* The rules that are loaded are those of the file, in its order, and each
\* matches exactly the changes it says it does: no field is lost between the
\* file and Match, where one that was emptied or not found would match
\* everything.
LoadedRulesMatchAsWritten ==
    lpc = "loaded" =>
      /\ Len(rules) = Len(file.rules)
      /\ \A k \in 1 .. Len(rules) :
           /\ rules[k].id = file.rules[k].id
           /\ \A c \in Changes : Match(rules[k], c) <=> Says(file.rules[k], c)

\* No two loaded rules have the same id, so the ids of a report tell them
\* apart.
IdsAreUnique ==
    lpc = "loaded" =>
      \A k, l \in 1 .. Len(rules) : rules[k].id = rules[l].id => k = l

BadRules == BadRulesIn(file)

\* A file that decodes and has the right version is refused exactly when it
\* must be, and the error names every bad rule and no good one.
EveryBadRuleIsNamed ==
    lpc \in {"loaded", "refused"} /\ file.decodes = "yes" /\ file.version = 1 =>
      /\ {e[1] : e \in errs} \ {0} = BadRules
      /\ lpc = "loaded" <=> BadRules = {} /\ ~BadVerdictIn(file)

=============================================================================
