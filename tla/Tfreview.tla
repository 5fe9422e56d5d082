------------------------------ MODULE Tfreview ------------------------------
(***************************************************************************)
(* run of cmd/tfreview/main.go: the command from its arguments to its exit  *)
(* code.  It loads the rules, opens the plan, parses it, classifies its     *)
(* changes and prints them; the three inner stages are the modules          *)
(* RulesLoad, PlanParse and Classify, which share the rules and the changes *)
(* with each other as run hands them on.                                    *)
(***************************************************************************)
EXTENDS RuleMatch

CONSTANTS
    Files, GlobMatches, Registry,  \* of RulesLoad
    Inputs,                    \* of PlanParse
    Embedded,                  \* the rules file built into the binary
    Calls                      \* ways the command is called

\* Paths are "" when the flag is not given.  A file opens or it does not.
ASSUME CallsAreTyped ==
    /\ Embedded \in Files
    /\ Calls \subseteq [args : {"good", "help", "bad"}, rules : STRING, plan : STRING,
                        opens : SUBSET STRING, terminal : BOOLEAN]

VARIABLES
    phase,    \* the stage run is in, or "exit"
    call,     \* the call
    code,     \* the exit code and
    stdout,   \* the report printed, each a sequence of at most one
    message,  \* what stderr says, "none" if nothing
    lpc, file, seen, errs, unmatched, rules,                                 \* RulesLoad
    ppc, input, problem, errored, complete, changes, details, warnings,       \* PlanParse
    pc, i, j, res, out                                                       \* Classify

L == INSTANCE RulesLoad
P == INSTANCE PlanParse

\* What Classify relies on: Load refuses a file in which two rules have one id.
LoadedSets ==
    {rs \in Seq(Rules) : \A k, l \in DOMAIN rs : rs[k].id = rs[l].id => k = l}
C == INSTANCE Classify WITH Plans <- Seq(Changes), RuleSets <- LoadedSets, plan <- changes

\* What RulesLoad and PlanParse assume.
ASSUME InputsAreDecoded ==
    /\ \A f \in Files : L!RawFile(f)
    /\ L!NoName \notin RuleIDs \cup DOMAIN Registry
    /\ \A n \in DOMAIN Registry : Registry[n] \subseteq Changes
    /\ \A t \in Inputs : P!PlanText(t)

lvars == <<lpc, file, seen, errs, unmatched, rules>>
pvars == <<ppc, input, problem, errored, complete, changes, details, warnings>>
cvars == <<pc, i, j, res, out>>  \* what Classify does not share
runvars == <<call, code, message, stdout>>
vars == <<phase, runvars, lvars, pvars, cvars>>

Init ==
    /\ phase = "args"
    /\ call \in Calls
    /\ code = << >> /\ message = "none" /\ stdout = << >>
    /\ L!Init
    /\ call.rules = "" => file = Embedded
    /\ P!Init
    /\ pc = "changes" /\ i = 1 /\ j = 1 /\ res = C!NoResult /\ out = << >>

Goto(stage) ==
    /\ phase' = stage
    /\ UNCHANGED <<runvars, lvars, pvars, cvars>>

Exit(c, m) ==
    /\ phase' = "exit"
    /\ code' = <<c>> /\ message' = m
    /\ UNCHANGED <<call, stdout, lvars, pvars, cvars>>

ParseArgs ==
    /\ phase = "args"
    /\ \/ call.args = "help" /\ Exit(0, "usage")
       \/ call.args = "bad" /\ Exit(4, "usage")
       \/ call.args = "good" /\ Goto("rules")

NoRulesFile ==
    /\ phase = "rules" /\ lpc = "decode"
    /\ call.rules \notin call.opens \cup {""}
    /\ Exit(4, "rules file")

LoadRules ==
    /\ phase = "rules"
    /\ call.rules \in call.opens \cup {""}
    /\ L!Next
    /\ UNCHANGED <<phase, runvars, pvars, cvars>>

RulesRefused == phase = "rules" /\ lpc = "refused" /\ Exit(4, "rules")
RulesLoaded == phase = "rules" /\ lpc = "loaded" /\ Goto("open")

\* FromTerminal that does not look.
NeverFromTerminal == FALSE

\* Reading a terminal would wait for a plan nobody types.
FromTerminal == call.plan = "" /\ call.terminal

OpenPlan ==
    /\ phase = "open"
    /\ IF call.plan \notin call.opens \cup {""} THEN Exit(3, "plan file")
       ELSE IF FromTerminal THEN Exit(3, "no plan on stdin")
       ELSE Goto("parse")

Parse ==
    /\ phase = "parse"
    /\ call.plan = "" => ~call.terminal  \* else the read does not return
    /\ P!Next
    /\ UNCHANGED <<phase, runvars, lvars, cvars>>

\* source is the plan's path, or "stdin".
Source == IF call.plan = "" THEN "stdin" ELSE call.plan

PlanRefused ==
    /\ phase = "parse" /\ ppc = "failed"
    /\ Exit(3, IF problem # "empty" THEN problem
               ELSE IF Source = "stdin" THEN "no plan on stdin" ELSE "empty plan file")

PlanParsed == phase = "parse" /\ ppc = "parsed" /\ Goto("classify")

Classify ==
    /\ phase = "classify"
    /\ C!Next
    /\ UNCHANGED <<phase, runvars, lpc, file, seen, errs, unmatched, pvars>>

-----------------------------------------------------------------------------
(* printPlan *)

\* A line of the table and the lines it has below it under "Details".
Row(r) ==
    LET told == Ascending[{m \in DOMAIN r.matches : r.matches[m].detail}]
        id(m) == r.matches[m].id
    IN  [address |-> r.change.address, action |-> r.change.action, severity |-> r.severity,
         ids |-> [m \in DOMAIN r.matches |-> id(m)],
         details |-> [d \in DOMAIN told |-> id(told[d])]]

\* NotShown that counts the data sources only.
NotShownData == Cardinality({n \in DOMAIN changes : changes[n].mode = "data"})

NotShown == Len(changes) - Len(out)

Report ==
    [errored |-> errored, incomplete |-> ~complete, warnings |-> warnings,
     rows |-> [k \in DOMAIN out |-> Row(out[k])], notShown |-> NotShown]

PrintPlan ==
    /\ phase = "classify" /\ pc = "changes" /\ i > Len(changes)
    /\ phase' = "printed"
    /\ stdout' = <<Report>>
    /\ UNCHANGED <<call, code, message, lvars, pvars, cvars>>

PlanCode == IF errored \/ ~complete THEN 1 ELSE 0

Return == phase = "printed" /\ Exit(PlanCode, "none")

Next ==
    \/ ParseArgs \/ NoRulesFile \/ LoadRules \/ RulesRefused \/ RulesLoaded
    \/ OpenPlan \/ Parse \/ PlanRefused \/ PlanParsed \/ Classify \/ PrintPlan \/ Return

Spec == Init /\ [][Next]_vars /\ WF_vars(Next)

-----------------------------------------------------------------------------
(* Properties *)

\* Each stage gets from the ones before what it relies on: typed rules with ids
\* of their own and typed changes by the time Classify runs, and Classify's own
\* state keeps its types on them.
TypeOK ==
    /\ phase \in {"args", "rules", "open", "parse", "classify", "printed", "exit"}
    /\ code \in {<< >>} \cup {<<c>> : c \in {0, 1, 3, 4}}
    /\ L!TypeOK
    /\ Len(changes) = Len(details)
    /\ \A w \in DOMAIN warnings : warnings[w] \in DOMAIN changes
    /\ phase \in {"classify", "printed"} => C!TypeOK

K == INSTANCE Cli WITH report <- IF phase = "exit" THEN stdout ELSE << >>

\* The stages together keep the promise of Cli: every call is answered, with
\* the exit code of the README's table and, when the plan could be read, the
\* review the rules file and the plan document call for, change by change.
KeepsItsPromise == K!KSpec

\* A managed resource the plan deletes, whatever else its actions say, is on
\* the printed report, and not as something harmless.
NoDestroyIsHidden ==
    \A r \in DOMAIN stdout :
        \A n \in DOMAIN input.entries :
            LET e == input.entries[n]
            IN  /\ e.mode = "managed"
                /\ \E m \in DOMAIN e.actions : e.actions[m] = "delete"
                =>
                  \E k \in DOMAIN stdout[r].rows :
                     /\ stdout[r].rows[k].address = e.address
                     /\ stdout[r].rows[k].action \in {"delete", "replace", "unknown"}

=============================================================================
