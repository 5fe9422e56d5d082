-------------------------------- MODULE Cli --------------------------------
(***************************************************************************)
(* What the command promises its caller, without its stages: it answers     *)
(* once, with an exit code that says what was wrong first (configuration,   *)
(* then input, then the plan itself), and it prints a report exactly when   *)
(* it could read the plan.  The report is stated from the rules file and    *)
(* the plan document alone.                                                 *)
(***************************************************************************)
EXTENDS RulesFile

CONSTANTS
    Files,     \* decoded rules files
    Inputs,    \* plan texts
    Embedded,  \* the rules file built into the binary
    Calls      \* ways the command is called

VARIABLES
    call,    \* the call
    file,    \* the rules file that is in force
    input,   \* the text the plan is read from
    code,    \* the exit code and
    report   \* the report, each a sequence of at most one

kvars == <<call, file, input, code, report>>

-----------------------------------------------------------------------------
(* The review of a plan document by a rules file. *)

Spellings(action) ==
    CASE action = "replace" -> {<<"delete", "create">>, <<"create", "delete">>}
      [] action = "unknown" -> {}
      [] OTHER -> {<<action>>}

ActionOf(array) ==
    IF \E a \in Actions : array \in Spellings(a)
    THEN CHOOSE a \in Actions : array \in Spellings(a)
    ELSE "unknown"

Level == [low |-> Low, medium |-> Medium, high |-> High]

Entry(n) == input.entries[n]
ChangeAt(n) ==
    [mode |-> Entry(n).mode, action |-> ActionOf(Entry(n).actions),
     type |-> Entry(n).type, address |-> Entry(n).address, body |-> Entry(n).body]

\* The numbers of the file's rules that speak of entry n.
Speaking(n) == {k \in DOMAIN file.rules : Says(file.rules[k], ChangeAt(n))}

InReview(n) ==
    /\ ChangeAt(n).mode # "data"
    /\ ChangeAt(n).action = "no-op" => Speaking(n) # {}

Shown == {n \in DOMAIN input.entries : InReview(n)}
Unrecognised == {n \in DOMAIN input.entries : ChangeAt(n).action = "unknown"}

RowOf(n) ==
    LET ks == Ascending[Speaking(n)]
        judged == Ascending[{m \in DOMAIN ks : file.rules[ks[m]].predicate # NoName}]
        id(m) == file.rules[ks[m]].id
        levels == {None} \cup {Level[file.rules[ks[m]].severity] : m \in DOMAIN ks}
    IN  [address |-> Entry(n).address,
         action |-> ChangeAt(n).action,
         severity |-> CHOOSE l \in levels : \A l2 \in levels : l2 <= l,
         ids |-> [m \in DOMAIN ks |-> id(m)],
         details |-> [d \in DOMAIN judged |-> id(judged[d])]]

Review ==
    LET shown == Ascending[Shown]
    IN  [errored |-> input.errored,
         incomplete |-> input.complete = "false",
         warnings |-> Ascending[Unrecognised],
         rows |-> [k \in DOMAIN shown |-> RowOf(shown[k])],
         notShown |-> Cardinality((DOMAIN input.entries) \ Shown)]

-----------------------------------------------------------------------------
RulesAvailable == call.rules \in call.opens \cup {""} /\ InOrder(file)

PlanAvailable ==
    /\ IF call.plan = "" THEN ~call.terminal ELSE call.plan \in call.opens
    /\ input.reads /\ input.text = "document" /\ input.version[1] = "1"

KInit ==
    /\ call \in Calls
    /\ file \in Files
    /\ call.rules = "" => file = Embedded
    /\ input \in Inputs
    /\ code = << >> /\ report = << >>

Answer(c, r) ==
    /\ code = << >>
    /\ code' = <<c>> /\ report' = r
    /\ UNCHANGED <<call, file, input>>

KNext ==
    \/ call.args = "help" /\ Answer(0, << >>)
    \/ /\ call.args = "bad" \/ (call.args = "good" /\ ~RulesAvailable)
       /\ Answer(4, << >>)
    \/ /\ call.args = "good" /\ RulesAvailable /\ ~PlanAvailable
       /\ Answer(3, << >>)
    \/ /\ call.args = "good" /\ RulesAvailable /\ PlanAvailable
       /\ Answer(IF input.errored \/ input.complete = "false" THEN 1 ELSE 0, <<Review>>)

KSafety == KInit /\ [][KNext]_kvars
KSpec == KSafety /\ WF_kvars(KNext)

=============================================================================
