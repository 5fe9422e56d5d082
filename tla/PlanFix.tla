------------------------------- MODULE PlanFix -------------------------------
(***************************************************************************)
(* The plan builder tests use (internal/planfix/planfix.go), on its own     *)
(* side of the JSON boundary, and plan.Parse on the other: a test makes a   *)
(* sequence of calls, JSON turns what they built into a document, and the   *)
(* parser reads it.  One action per method; setters of one field share one. *)
(***************************************************************************)
EXTENDS PlanAddress, FiniteSets

CONSTANTS
    Tests,     \* the sequences of calls of tests
    Instances  \* the instances whose addresses they write

VARIABLES
    test,      \* the calls of the test
    at,        \* how many of them were made
    phase,     \* "building", "panicked" or "parsing"
    plan,      \* the plan under construction
    state,     \* the prior state of the document: its modules, if it has any
    ppc, input, problem, errored, complete, changes, details, warnings  \* PlanParse

pvars == <<ppc, input, problem, errored, complete, changes, details, warnings>>
vars == <<test, at, phase, plan, state, pvars>>

P == INSTANCE PlanParse WITH
        Types <- {}, Addresses <- {}, RuleIDs <- {}, Bodies <- {}, Inputs <- {}

Nil == "nil"

New ==
    [version |-> <<"1", "2">>, errored |-> FALSE, complete |-> "absent",
     changes |-> << >>, prior |-> << >>]

\* Of the provider's name only whether it is the built-in one.
DefaultProvider(type) == IF type = <<"terraform_data">> THEN "builtin" ELSE "hashicorp"

\* OrCreate that takes the actions as they are given.
OrNothing(actions) == actions

OrCreate(actions) == IF actions = << >> THEN <<"create">> ELSE actions

NewResource(a, actions) ==
    [addr |-> a, actions |-> OrCreate(actions),
     provider |-> DefaultProvider(a.type), previous |-> << >>, reason |-> "", deposed |-> "",
     before |-> Nil, after |-> Nil, afterUnknown |-> Nil,
     beforeSensitive |-> Nil, afterSensitive |-> Nil, replacePaths |-> << >>,
     dependsOn |-> << >>, hasDependsOn |-> FALSE]

PriorOf(a, dependsOn) ==
    [addr |-> a, provider |-> DefaultProvider(a.type), values |-> "{}",
     sensitiveValues |-> "{}", dependsOn |-> dependsOn]

Init ==
    /\ test \in Tests
    /\ at = 0
    /\ phase = "building"
    /\ plan = New
    /\ state = {}
    /\ ppc = "waiting" /\ input = << >> /\ problem = "none"
    /\ errored = FALSE /\ complete = FALSE
    /\ changes = << >> /\ details = << >> /\ warnings = << >>

-----------------------------------------------------------------------------
(* The methods. *)

call == test[at + 1]

Make(op) ==
    /\ phase = "building" /\ at < Len(test) /\ call.op = op
    /\ at' = at + 1
    /\ UNCHANGED <<test, state, pvars>>

Built(p) == plan' = p /\ UNCHANGED phase
Panic == phase' = "panicked" /\ UNCHANGED plan

Resource ==
    /\ Make("Resource")
    /\ \/ \E a \in ParseAddress(call.text) :
            Built([plan EXCEPT !.changes = Append(@, NewResource(a, call.actions))])
       \/ ParseAddress(call.text) = {} /\ Panic

PriorResource ==
    /\ Make("PriorResource")
    /\ \/ \E a \in ParseAddress(call.text) :
            Built([plan EXCEPT !.prior = Append(@, PriorOf(a, call.dependsOn))])
       \/ ParseAddress(call.text) = {} /\ Panic

\* Before, After, AfterUnknown, BeforeSensitive, AfterSensitive, ActionReason,
\* Provider, Deposed, MovedFrom and ReplacePaths of the n-th resource.
SetField ==
    /\ Make("Set")
    /\ Built([plan EXCEPT !.changes[call.n][call.field] = call.value])

DependsOn ==
    /\ Make("DependsOn")
    /\ Built([plan EXCEPT !.changes[call.n].dependsOn = @ \o call.addresses,
                          !.changes[call.n].hasDependsOn = TRUE])

\* FormatVersion, Errored and Complete.
SetOption ==
    /\ Make("Option")
    /\ Built([plan EXCEPT ![call.field] = call.value])

-----------------------------------------------------------------------------
(* The document. *)

OrEmpty(v) == IF v = Nil THEN "{}" ELSE v

OrFalse(marks, value) ==
    IF marks # Nil THEN marks ELSE IF value = Nil THEN "false" ELSE "{}"

\* What the parser reads of a resource change; body is the rest of it.
ResourceChange(r) ==
    [mode |-> r.addr.mode, type |-> r.addr.type, address |-> AddressText(r.addr),
     actions |-> r.actions, index |-> r.addr.index, paths |-> r.replacePaths,
     body |-> [before |-> r.before, after |-> r.after,
               afterUnknown |-> OrEmpty(r.afterUnknown),
               beforeSensitive |-> OrFalse(r.beforeSensitive, r.before),
               afterSensitive |-> OrFalse(r.afterSensitive, r.after),
               module |-> r.addr.modulePath, name |-> r.addr.name, provider |-> r.provider,
               previous |-> r.previous, reason |-> r.reason, deposed |-> r.deposed]]

\* Existed that goes by the value before only.
ExistedWithValue(r) == r.before # Nil

Existed(r) == r.before # Nil \/ r.hasDependsOn

\* A resource being moved is in the prior state at its old address.
OldAddress(r) == IF r.previous = << >> THEN {r.addr} ELSE ParseAddress(r.previous)

Prior(r, a) ==
    LET values == OrEmpty(r.before)
    IN  [addr |-> a, provider |-> r.provider, values |-> values,
         sensitiveValues |-> OrFalse(r.beforeSensitive, values), dependsOn |-> r.dependsOn]

PriorResources ==
    LET existing == SelectSeq(plan.changes, Existed)
    IN  [i \in DOMAIN existing |->
            Prior(existing[i], CHOOSE a \in OldAddress(existing[i]) : TRUE)] \o plan.prior

\* A resource is put into the node of its module; the nodes on the way there
\* are made as they are needed.
Place(nodes, r) ==
    LET path == r.addr.modulePath
        way == {SubSeq(path, 1, i) : i \in 0 .. Len(path)}
        held(m) == IF m \in DOMAIN nodes THEN nodes[m] ELSE << >>
    IN  [m \in DOMAIN nodes \cup way |-> IF m = path THEN Append(held(m), r) ELSE held(m)]

PriorState ==
    IF PriorResources = << >> THEN {} ELSE {FoldLeft(Place, << >>, PriorResources)}

Document ==
    [reads |-> TRUE, text |-> "document", version |-> plan.version,
     errored |-> plan.errored, complete |-> plan.complete,
     entries |-> [k \in DOMAIN plan.changes |-> ResourceChange(plan.changes[k])]]

OldAddressIsBad == \E k \in DOMAIN plan.changes :
                      Existed(plan.changes[k]) /\ OldAddress(plan.changes[k]) = {}

JSONPanics ==
    /\ phase = "building" /\ at = Len(test) /\ OldAddressIsBad
    /\ Panic
    /\ UNCHANGED <<test, at, state, pvars>>

JSON ==
    /\ phase = "building" /\ at = Len(test) /\ ~OldAddressIsBad
    /\ phase' = "parsing"
    /\ state' = PriorState
    /\ input' = Document
    /\ ppc' = "read"
    /\ UNCHANGED <<test, at, plan, problem, errored, complete, changes, details, warnings>>

Parse == phase = "parsing" /\ P!Next /\ UNCHANGED <<test, at, phase, plan, state>>

Next ==
    \/ Resource \/ PriorResource \/ SetField \/ DependsOn \/ SetOption
    \/ JSONPanics \/ JSON \/ Parse

Spec == Init /\ [][Next]_vars

-----------------------------------------------------------------------------
(* What a test asked for, read off its calls. *)

Made(op) == {i \in 1 .. at : test[i].op = op}

\* The call that made the n-th resource, and the value its field is set to last.
CallOf(n) == test[CHOOSE i \in Made("Resource") :
                    Cardinality({j \in Made("Resource") : j <= i}) = n]
Given(n, field, default) ==
    LET sets == {i \in Made("Set") : test[i].n = n /\ test[i].field = field}
    IN  IF sets = {} THEN default ELSE test[Max(sets)].value
Option(field, default) ==
    LET sets == {i \in Made("Option") : test[i].field = field}
    IN  IF sets = {} THEN default ELSE test[Max(sets)].value

\* The instance an address is written for.
Meant == [t \in {WrittenAs(x) : x \in Instances} |-> CHOOSE x \in Instances : WrittenAs(x) = t]
Modules(x) == [k \in DOMAIN x.modules |-> x.modules[k].name \o WrittenIndex(x.modules[k].index)]

IsInstance(a, x) ==
    /\ a.modulePath = Modules(x)
    /\ a.mode = x.mode /\ a.type = x.type /\ a.name = x.name /\ a.index = x.index

OldText(n) ==
    LET previous == Given(n, "previous", << >>)
    IN  IF previous = << >> THEN CallOf(n).text ELSE previous

DependsOnGiven(n) ==
    LET calls == SelectSeq(SubSeq(test, 1, at), LAMBDA c : c.op = "DependsOn" /\ c.n = n)
    IN  FlattenSeq([i \in DOMAIN calls |-> calls[i].addresses])

\* What a test says existed before: resources with a value, or with recorded
\* dependencies, at the address they were moved from, and those it adds.
ExistedBefore ==
    {n \in DOMAIN plan.changes :
        \/ Given(n, "before", Nil) # Nil
        \/ \E i \in Made("DependsOn") : test[i].n = n}

-----------------------------------------------------------------------------
(* Properties *)

\* The state has the shape the Go declarations give it.
TypeOK ==
    /\ at \in 0 .. Len(test)
    /\ phase \in {"building", "panicked", "parsing"}
    /\ \A k \in DOMAIN plan.changes :
         LET r == plan.changes[k]
         IN  /\ r.actions # << >>
             /\ r.hasDependsOn \/ r.dependsOn = << >>
             /\ r.addr.index[1] \in {"null", "int", "string"}
    /\ Cardinality(state) <= 1
    /\ phase = "parsing" <=> ppc \in {"read", "changes", "parsed", "failed"}

\* The address Terraform writes for an instance is read back as that instance,
\* whatever its keys contain: dots, brackets, quotes and backslashes in a key
\* neither cut the address nor end the key (splitSteps and parseAddress).  A
\* test fails in the builder only on an address of another form: that of the
\* call it just made, or the old one of a resource that existed.
AddressesAreRead ==
    /\ \A n \in DOMAIN plan.changes :
         CallOf(n).text \in DOMAIN Meant
           => IsInstance(plan.changes[n].addr, Meant[CallOf(n).text])
    /\ phase = "panicked" =>
         \/ test[at].op \in {"Resource", "PriorResource"} /\ test[at].text \notin DOMAIN Meant
         \/ at = Len(test) /\ \E n \in ExistedBefore : OldText(n) \notin DOMAIN Meant

\* The prior state of a document holds what existed before the plan and nothing
\* else, each under the module its address names, and every module on the way
\* there, in whatever order the calls were made (priorState).
PriorStateIsComplete ==
    phase = "parsing" =>
        LET nodes == UNION {{<<m, tree[m]>> : m \in DOMAIN tree} : tree \in state}
            modules == {node[1] : node \in nodes}
            held == UNION {{<<node[1], node[2][i]>> : i \in DOMAIN node[2]} : node \in nodes}
        IN  /\ {<<AddressText(h[2].addr), h[2].values, h[2].dependsOn>> : h \in held}
                 = {<<OldText(n), OrEmpty(Given(n, "before", Nil)), DependsOnGiven(n)>> :
                      n \in ExistedBefore}
                     \cup {<<test[i].text, "{}", test[i].dependsOn>> : i \in Made("PriorResource")}
            /\ Cardinality(UNION {{<<node[1], i>> : i \in DOMAIN node[2]} : node \in nodes})
                 = Cardinality(ExistedBefore) + Cardinality(Made("PriorResource"))
            /\ \A h \in held :
                 LET text == AddressText(h[2].addr)
                 IN  text \in DOMAIN Meant => h[1] = Modules(Meant[text])
            /\ \A m \in modules : \A i \in 0 .. Len(m) : SubSeq(m, 1, i) \in modules
            /\ \A m \in modules : \E h \in held : IsPrefix(m, h[1])

\* What a test sets is what the program under test reads: the parser takes the
\* document of a builder for every supported version, and finds the resources
\* in their order, with the instance keys and replace paths as they were, a
\* number still a number and a string still a string (the JSON boundary).
BuiltPlansAreRead ==
    /\ ppc = "failed" => Option("version", <<"1", "2">>)[1] # "1"
    /\ ppc = "parsed" =>
         /\ errored = Option("errored", FALSE)
         /\ complete = (Option("complete", "absent") # "false")
         /\ Len(changes) = Cardinality(Made("Resource"))
         /\ \A n \in DOMAIN changes :
              LET c == changes[n]
                  given == CallOf(n).actions
                  text == CallOf(n).text
              IN  /\ details[n].raw = IF given = << >> THEN <<"create">> ELSE given
                  /\ details[n].replacePaths = Given(n, "replacePaths", << >>)
                  /\ \A field \in {"before", "after", "reason", "deposed", "previous"} :
                       c.body[field] = Given(n, field, plan.changes[n][field])
                  /\ text \in DOMAIN Meant =>
                       /\ c.address = text
                       /\ c.type = Meant[text].type /\ c.mode = Meant[text].mode
                       /\ details[n].index = Meant[text].index

=============================================================================
