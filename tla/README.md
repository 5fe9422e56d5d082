# tfreview in TLA+

`tfreview` reads the JSON of a Terraform plan, classifies its changes by rules
from a YAML file and prints a review. This directory holds TLA+ modules
translated from its Go source, TLC configurations that check them on small
instances, and TLAPS proofs of what matters most for every instance.

- [The system](#the-system): components, state, interactions, what is hard
- [The modules](#the-modules) and how they correspond to the code
- [The runs](#the-runs), their bounds and what they show
- [The proofs](#the-proofs)
- [Where documentation and code differ](#where-documentation-and-code-differ)
- [What is not modelled](#what-is-not-modelled) and [the plan](#the-plan)

Running it, in this directory:

    tlc -workers 2 -config Tfreview.cfg MCTfreview.tla
    tlapm ChangeDiffProofs.tla

`PROJECT.json` lists every run with its module and configuration, the lines of
source behind every definition, a mutant for every property, and the hazards the
properties are for.

## The system

One process, one goroutine, no persistent state: a pipeline of calls.

    run (cmd/tfreview/main.go)
     |- loadRules -> rules.Load        YAML -> compiled rules, or every problem
     |- open the plan file, or take stdin
     |- plan.Parse                     JSON -> changes and warnings, or an error
     |- classify.Classify              changes x rules -> results
     |    '- Rule.Match -> Glob        and the predicates of internal/predicates,
     |                                 which look at a change through
     |                                 Change.Diff, RawBefore and RawAfter
     |- printPlan
     '- exit code

    planfix (tests only)
     '- New, setters, JSON             -> a plan document for plan.Parse

| Component | State | Operations | Hard part | What makes it correct |
|---|---|---|---|---|
| `cmd/tfreview` | the stage, exit code, what has been printed | parse arguments, load, open, parse, classify, print, exit | several stages may fail; a terminal never ends | one answer to every call; the first failure decides the code; no report after a failure; the report is the one the two files call for |
| `internal/plan` parsing (`plan.go`, `action.go`) | the plan being built | `Parse`, `MapActions`, `checkFormatVersion`, `normIndex` | inputs of later Terraform versions; numbers kept as text | no change lost; unrecognised actions kept and never mistaken for something harmless; a key is the one of the document |
| `internal/plan` markers and readers (`walk.go`, `raw.go`) | none (functions of a change) | `Marked`, `child`, `RawBefore`, `RawAfter` | markers above, at and below a path, on two sides, walked by two different functions | no secret and nothing unknown is ever readable, not even through a parent block |
| `internal/plan` diff (`diff.go`) | leaves, entries by path, secrets | `Diff`: flatten, merge, mark removed, mask, sort | markers of another shape than the value; copies of secrets; one-sided markers | every change is reported and none invented; no secret shown |
| `internal/rules` loading | errors, ids seen, rules | `Load`, `compile`, `compileGlobs` | a selector lost on the way matches everything | a loaded rule means what the file says; every bad rule is named |
| `internal/rules` matching | the rest of the string | `Rule.Match`, `Glob` | greedy matching without backtracking | exactly the strings the pattern describes |
| `internal/rules` default rules (`default.yaml`) | none | ten rules over six predicates | rules and predicates decide a severity together | a change gets the severity the README promises for what happens to its values |
| `internal/classify` | the result being built, results | `Classify` | what may be dropped is known only after the rules ran | every change that belongs is reported once, in order, with all its rules and their highest severity |
| `internal/predicates` attributes (`predicates.go`) | none | five predicates over a diff | unknown and unreadable values, masks, changed or not | exactly the transitions the values make, and none from what cannot be read |
| `internal/predicates` network (`network.go`) | none | `widensNetworkAccess`: read both sides into permissions, compare them | permissions rebuilt from leaves; unknown and sensitive parts; coverage of port ranges and prefixes | no message is newly let in without a finding, and a finding names one that is |
| `internal/planfix` (`planfix.go`) | the plan being built | one method per setting, `JSON`, `priorState`, `parseAddress` | setters in any order; addresses whose keys have any characters | a test reads back what it set, and the prior state is the one the plan assumes |

Components interact by calls only. There is no concurrency, nothing is retried
and nothing survives a run, so what is hard here is not interleaving. It is that
several loops, each over its own partial view of the data (leaves by side,
markers by shape, errors by rule, changes by class), have to add up to a
statement about all of it, and that a stage can fail at many points. The one
liveness hazard is the read from a terminal.

The packages that `docs/design.md` plans (`graph`, `review`, `render`,
`intent`, `redact`, `llm`, `agent`) do not exist yet.

## The modules

| Module | Models | State and actions |
|---|---|---|
| `PlanTree` | `walk.go`, `raw.go`, `flatten` of `diff.go` | operators on trees. A decoded JSON value is the function from its paths to what stands there, so that walks are statements about prefixes of a path |
| `DiffEntry` | leaves, entries and `render` of `diff.go`; the diff as one function of a change | operators |
| `ChangeDiff` | `Change.Diff` | `before`, `after`: the leaves; `entries`: `byKey`; `out`. One action per loop: `FlattenBoth`, `ReadBefore`, `ReadAfter`, `MarkRemoved`, `Mask`, `Sort` |
| `RuleMatch` | `Rule.Match`, actions, severities | operators. A compiled selector is the set of globs it has, a glob the set of strings it matches, a predicate the set of changes it judges true |
| `Glob` | `rules.Glob` | `at`: how much of the string is consumed; `m`: the part to find. One action per way the function goes on or returns |
| `RulesFile` | a decoded rules file and what it means | constants and operators shared by the loader and by `Cli` |
| `RulesLoad` | `rules.Load` with `compile` | `errs`, `seen`, `unmatched`, `rules`. One action per early return, one per turn of the loop |
| `PlanParse` | `plan.Parse`, `MapActions`, `normIndex`, `normPaths` | `changes`, `details`, `warnings`. One action per error return, one per turn of the loop |
| `Review` | abstract: what a review promises | changes enter or leave the report one at a time |
| `Classify` | `classify.Classify` | `i`, `j`: the two loops; `res`, `out`. One action per turn |
| `Cli` | abstract: what the command promises | one step: the answer, stated from the two files |
| `Tfreview` | `run`, `loadRules`, `printPlan` | `phase`: the stage. Composes `RulesLoad`, `PlanParse` and `Classify`, which share `rules` and `changes` as `run` hands them on; their actions are steps of the stage that calls them |
| `Predicates` | `predicates.go` | operators: each predicate is a function from a change to its findings, and holds if there is one |
| `Network` | `network.go` | operators: `Reader`, `Sources`, `Perms`, `CoveredBy`, `WidensNetworkAccess` |
| `Traffic` | nothing: what predicates are measured by | what happens to a value, and the messages and hosts a security group admits, read off the resource without permissions or coverage; which changes a plan can have (`IsPlanned`, `GivesRequired`) |
| `PredicateCall` | `predicates.Registry` | `change`, `called`, `found`: one call of one predicate, one action each |
| `DefaultReview` | `default.yaml`, and the README's list of what it flags | `Tfreview` with that rules file, the modelled predicates as its registry, and values with markers in its plans |
| `PlanAddress` | `parseAddress`, `splitSteps` and `String` of `planfix.go` | operators on sequences of tokens |
| `PlanFix` | the builder of `planfix.go`, composed with `PlanParse` | `test`, `at`: the calls of a test and how many were made; `plan`, `state`. One action per method, setters of one field sharing one, and the actions of the parser on the document |

`MC*` modules give the constants their values; `*Proofs` modules hold the
theorems.

`Diff` occurs twice: `ChangeDiff` computes it loop by loop, and `DiffEntry`
states it in one piece. `DiffIsExact` says that they agree, and predicates use
the one in `DiffEntry`.

Abstractions worth knowing:

- **Strings.** Rules, types and addresses are opaque, and so are the scalars of
  a value, of which only equality and being an empty string matter. The places
  where characters matter are `Glob` and `PlanAddress`, which have them.
- **Rendering.** A scalar's literal is unambiguous (`strconv.Quote` for
  strings), so the scalar stands for it. Placeholders such as `(sensitive)` are
  values of their own; `LiteralsAreNoPlaceholders` says that no literal is one,
  which quoting guarantees.
- **Paths.** Keys are numbered in alphabetical order; indices are numbers. The
  Go types an index may have (`toIndex`) are not distinguished.
- **Plan JSON is well formed.** `PlanIsWellFormed` says of the input of `Diff`
  what `terraform show` guarantees: what is marked unknown is null or absent in
  the new value. `MarkersFitValues` adds that markers are derived from values:
  a sensitivity marker has no node the value does not have (or that is unknown),
  an unknown marker goes beyond the value only where something is unknown, and
  its containers stand over one of their kind or over nothing. A marker may
  still be `true` above, at or below any node, on either side. Only
  `ReadersAgreeWithDiff` and `ChangedIffDifferent` need this.
- **Trees are finite.** `Tree` has a finite domain that is closed under
  prefixes, with list indices below lists and keys below maps, as decoded JSON
  does.
- **Decoders are external.** YAML and JSON decoding is one step with three
  outcomes (decoded, empty, invalid), and the decoded file is an input.
- **Sets for lists.** The elements of a selector list are a set, since `Match`
  and `compile` do not depend on their order; the errors of a load are a set of
  rule and problem; permissions and findings are sets, since a predicate holds
  when there is one and its detail only lists them.
- **Conversions.** What a scalar is as a boolean (`asBool`), as a number, as a
  protocol (`fmt.Sprint` with `normProto`) and as an address block are the
  constants `Boolean`, `Number`, `Protocol` and `Cidr`, functions on the scalars
  that convert. The instances have a scalar for each case of the Go code: a
  boolean given as a string, `6` for `tcp`, `-1` for all protocols, an address
  without a length, a string that is no address.
- **Addresses of hosts** are bit sequences of `Width4` and `Width6` bits, and a
  prefix is one of them with a length. Ports go up to `MaxPort`.
- **Addresses of resources** are sequences of tokens: the characters `. [ ] " \`
  that `splitSteps` looks at, the digit `9`, and words for the letters between
  them. No word continues an escape, so escapes are those of quotes and
  backslashes.

## The runs

The runs except the three composed ones have the algorithm of one component as
their state machine and enumerate its inputs as initial states. `CHECK_DEADLOCK`
is off everywhere because every one of these programs ends.

| Run | Question | Bounds |
|---|---|---|
| `Diff` | `NoSecretShown`, `MarkedLeavesAreMasked`: does anything sensitive reach the diff, by its own path, the other side or a copy? `ReadersAgreeWithDiff`, `ReadableValuesAreClean`: do the readers of `raw.go` and the diff agree, and is what can be read clean at every depth? `ChangedIffDifferent`: is a change reported exactly when there is one? `UnknownIsChanged`; `BlocksStayTogether`, `ListsAreInOrder`: is the order usable? `DiffIsExact` | three families. Masking: two keys, three strings, blocks that are a scalar, a map or a list on either side independently, markers at the root, on blocks and on leaves of either side. Shapes: nulls, empty containers, lists of different length, blocks in lists, missing roots, unknown markers that go beyond the value. Long lists: eleven elements, scalars or blocks, at the root's key or in a block of a list |
| `Classify` | `ReviewsEveryChange`: do the loops implement `Review`? `SeverityIsHighest`, `MatchesFollowTheRules` | plans of up to two changes, lists of up to three of four overlapping rules |
| `Glob` | `GlobIsExact` against the definition of a match, `GreedyLosesNoMatch` | two letters, strings of up to four, patterns of up to four parts |
| `RulesLoad` | `LoadedRulesMatchAsWritten`: can a rule come to match more or less than it says? `IdsAreUnique`, `EveryBadRuleIsNamed` | all pairs of 16 rules, good ones and one for each problem; three rules for ids; all combinations of the fields above the rules |
| `Tfreview` | `KeepsItsPromise`: does the command implement `Cli`, with its liveness? `NoDestroyIsHidden` | calls that fail at each stage and at several, six rules files, plans of up to two entries with each kind of `actions` array, and each way a plan cannot be read |
| `Predicates` | `TransitionsAreExact`, `KeyChangesAreExact`, `SensitiveWritesAreFound`: does a predicate find the transitions the two trees make, at any depth, and no others? `WideningIsExact`, `PublicIsExact`: is the arithmetic of coverage containment of messages and hosts? `NoIngressIsMissed`: read off the resource, is nothing newly let in without a finding? `UnknownSourcesAreFound` | attributes at the root and in a block in a list, every pair of values of each type, markers on the root, the block and the leaf; security groups of up to two blocks with lists of up to two sources, rules of either kind; addresses of two bits and one bit, four ports, three protocols |
| `DefaultReview` | from the plan document to the printed row: is no change left out or less severe than the README's list has it (`NothingIsDownplayed`), and none more severe (`FlagsWhatTheReadmeSays`)? | each transition of the README's list and a harmless one beside it, under each action it can have, on stateful types, one that matches a pattern only, and others; values that are unknown, masked or null, whole bodies included |
| `PlanFix` | `AddressesAreRead`: is an address read as the instance it is written for, and none that is well written refused, not even the old one of a move? `PriorStateIsComplete`, `BuiltPlansAreRead`: is the document the one the calls asked for, and does the parser read it? | keys of up to two of six tokens, in resources and modules; every token sequence of up to three, alone and in brackets; up to three of ten setters in any order; two resources in the same or different modules with one or two prior ones |
| `MaskedOnBothSides`, `OldValuesOfSensitivePathsAreHidden`, `UnknownNeverMatches`, `NewIngressIsFound` | statements of the documentation that the code does not keep | those of the run they belong to; for `NewIngressIsFound` rules for one of four types and codes of ICMP each |

Why the bounds are enough to be interesting:

- A masking or shape error needs one path with a marker, one place for a copy
  and two sides, and the instances have two keys and two levels; the comparison
  of leaves is per path. An index compared as text is out of order first at ten.
- An accumulation error in `Classify` shows with two matches in either order,
  and with three one can stand between two others.
- A greedy match goes wrong first with two inner parts. The duplicate check
  needs two equal ids that are not neighbours, hence three rules.
- Containment of prefixes is decided at lengths 0, between, and full: two bits
  have all three and room for two disjoint prefixes below a third. One private
  range leaves public addresses beside it and prefixes that straddle its
  border. Containment of ranges needs a proper subrange, ranges that only
  meet, and disjoint ones: four ports have them, and 0 and the maximum are two
  of the four.
- A transition is lost or invented at one path; a block above it is needed for
  markers that lie above, and a sibling for secrets that are copied.
- An escape is misread at a quote after a backslash, and a key of two tokens
  has that and its reverse. Two setters of a field show which one wins, and a
  third shows that one in between does not matter. Modules are shared and
  nested with two resources, one of which is two modules deep.

Every property of a passing run has a mutant, a plausible slip in the code, that
the run's own bounds reveal.

Fairness is weak fairness of the whole next-state relation: a single goroutine
that can take a step takes one. `Tfreview` has it for the composed program. The
one step that may block in this code is the read of standard input: `Parse` is
not enabled when standard input is a terminal, and is when it is a pipe or a
file, whose other end is assumed to close. `KeepsItsPromise` fails if `run` does
not look for a terminal before it reads. Predicate calls and the plan builder
have safety properties only, and no fairness.

## The proofs

| Module | Theorems | Assumptions |
|---|---|---|
| `PlanTreeProofs` | lemmas about trees, walks, leaves and entries that the next three share | `ValuesAreDisjoint`, `LiteralsAreNoPlaceholders` |
| `ChangeDiffProofs` | `TypeCorrect`, `MarkedLeavesMasked`, `NoSecretIsShown`, `DiffExact`, `UnknownChanges`, `ReadersReadNoSecret`, `ReadersAgree`, `ChangedExact`, `BlocksTogether`, `ListsInOrder` | those, `PlanIsWellFormed`, `MarkersFitValues` |
| `PredicateCallProofs` | `TransitionsExact`, `SensitiveWrites`, `KeyChanges`, `PrefixContainsIsExact`, `CallTypeCorrect`, `WideningExact`, `PublicExact`, `UnknownSources`, `NoIngressMissed` | those of `PlanTreeProofs`, `CallsAreChanges`, `NamesAreDistinct`, `ConversionsAreTyped`, `NetworkIsTyped`, `FieldsAreNamed`, `PrivateRangesAreApart`, `SeveralProtocols`, `RequiredFieldsAreGiven` |
| `GlobProofs` | `TypeCorrect`, `GlobExact`, `GreedyComplete` | `GlobInputs` |
| `ClassifyProofs` | `TypeCorrect`, `SeverityCorrect`, `MatchesInOrder`, `ClassifyImplementsReview` | `InputsAreTyped`, `IdsAreUnique` |
| `RulesLoadProofs` | `TypeCorrect`, `RulesMatchAsWritten`, `UniqueIds`, `BadRulesNamed` | `RegistryIsTyped`, `FilesAreDecoded` |
| `TfreviewProofs` | `TypeCorrect`, `NoDestroyHidden`, `CommandKeepsPromise` | `CallsAreTyped`, `InputsAreDecoded`, `RegistryIsTyped` |
| `DefaultReviewProofs` | `NothingDownplayed` | those of `PredicateCallProofs` and `TfreviewProofs`, with `ChangesArePlanned` for what calls are given; `DefaultIsEmbedded`, `RegistryIsOfPredicates` |

All are for arbitrary constants: any values and markers, addresses of any
width, patterns and strings, plans and rules, files and predicates. TLC
evaluates every assumption on the instances of the runs. They are what the code
or its inputs guarantee:

- `ValuesAreDisjoint`, `NamesAreDistinct`, `NetworkIsTyped`, `InputsAreTyped`,
  `GlobInputs`, `CallsAreTyped` and the like are the types of the Go program:
  a JSON scalar is a string, another literal or null, no two keys are one, a
  port is at most 65535, and what `asBool` and `number` accept converts to a
  boolean or a number.
- `PlanIsWellFormed`, `CallsAreChanges`, `MarkersFitValues`, `FilesAreDecoded`,
  `InputsAreDecoded` and `ChangesArePlanned` are what the decoders and `terraform
  show` hand over; the last says of the entries of a plan what `CallsAreChanges`
  and `RequiredFieldsAreGiven` say of the changes predicates are called with.
- `DefaultIsEmbedded` and `RegistryIsOfPredicates` are the two facts that make
  the command the shipped one: its rules file is `default.yaml` and its registry
  has the modelled predicates. A pattern that is a plain name matches that name,
  which `GlobExact` is about.
- `FieldsAreNamed` (every field of `sgSchemas` has a key) and
  `PrivateRangesAreApart` (no two of the private ranges are the halves of a
  larger one) are facts about the two tables in `network.go`.
- `RequiredFieldsAreGiven` is from the provider's schemas: the protocol of a
  rule and the type of an `aws_security_group_rule` are required, so a new value
  has no type, or a null protocol, only while that is unknown. Without it a rule
  that has no type would be no ingress to the code, and be ingress to `Traffic`.
- `IdsAreUnique` is discharged by `RulesLoadProofs!UniqueIds`: `Tfreview` hands
  `Classify` what `Load` returned, and `TfreviewProofs` proves that this is so.

How the proofs go:

- **ChangeDiff.** None of the properties is inductive: they speak of the end of
  a run in terms of the receiver, while the loops work on leaves. `IInv` says
  after each loop what every entry has from each side (`BeforeSide`,
  `AfterSide`) and, once `Mask` ran, that a side is absent, hidden, or the
  rendering of a leaf that neither is marked nor echoes a secret (`SafeEntry`).
  What connects leaves to the receiver are lemmas about the walks:
  `MarkedIsFlagged` and `FlaggedPrefixIsMarked` (a path `Marked` says yes to is
  one `child` descends to a true on, and conversely for its prefix), and
  `ScalarsAreLeaves` (a scalar of a value is a leaf of its flattening). From
  the latter every secret of the change is among the collected `secrets`
  (`SecretsAreCollected`), and masking its echoes hides it everywhere.
  `EInv` says exactly what every entry is after each loop, as a function of the
  leaves (`ReadOnce`, `ReadTwice`, `Finished`); the last of these, masked, is
  the entry of `Diff` (`FinishedIsDiff`). So whatever is checked of predicates
  over `Diff` holds of the program's loops. `MarkAtOrBelow` is why a reader may
  look at a path's own markers and those below it only, and `NoMarkBelowLeaf`
  why a leaf it can read is one the diff does not hide.
  `ChangedExact` compares two trees by their ends: every node has an end, a
  scalar or an empty container, at it or below it (`EndsBelow`, from the longest
  path of a finite set), so trees with the same ends have the same paths
  (`SameEndsSamePaths`) and the same content.
  `BlocksTogether` needs that the comparison of paths is a total order
  (`PathsAreTotal`, `PathsAreTransitive`) and that a block is an interval of it
  (`BlocksAreConvex`); `SInv` says that the sort puts every path where as many
  are less as stand before it. `ListsInOrder` follows: the first index in which
  two paths differ decides between them.
- **Predicates.** A call has one step, so `Answered` is the invariant: the
  findings are those of the predicate called. What has to be shown is about
  trees: a readable scalar is a leaf on its side, and the two leaves of a
  transition make an entry that is changed (`DifferenceIsChanged`), so that
  going by the changed entries of the diff loses nothing (`FlipsAreTransitions`,
  `DecreasesAreTransitions`, `LostKeys`).
- **Network.** `PrefixContainsIsExact` flips the last bit of an outer prefix
  that is too long, and so finds an address outside of it. `SourceCoversIsExact`
  is the case analysis over kinds of sources, and `CoverIsTraffic` puts it
  together with protocols and ports; both directions need that a permission
  admits something (`KnownSourcesHaveHosts`, `CoversPortsIsExact`), and that
  there is more than one protocol. `PermsType` shows that what the reader
  rebuilds from a diff is such a permission whatever it reads, with ports in
  order and prefixes typed.
  `PublicExact` is about a prefix that no private range contains: were all its
  addresses private, there would be a longest such prefix, whose halves both lie
  in ranges, and these would be halves of one (`HalvesInPrivateRanges`,
  `PrivateIsInOneRange`).
  `UnknownSources` follows an unknown leaf to the field, list or block it is in,
  and that to an unknown source or permission, which nothing covers.
  `NoIngressMissed` goes all the way round. What a new block lets in comes from
  a source that its value mentions (`AdmittedBySources`); the scalar there is a
  leaf of the diff (`ScalarHasLeaf`), the leaf a source (`MentionedIsSource`),
  the source a permission of the block (`NewPermission`) that is for every
  message the block is for (`NewMessages`), or something unknown would have been
  found. Nothing was, so an old permission covers it (`CoveredMessages`,
  `SourceCoversIsExact`). That is one of a block of the old value (`OldBlock`)
  that mentions its source (`SourceIsMentioned`), and which, being plain, is for
  all messages the permission is for (`OldMessages`).
  `DueIsFound` sums these up from one side: whatever the values oblige a
  predicate to find, it finds. It and what it rests on (`TransitionsOfAnswer`,
  `WritesOfAnswer`, `KeysOfAnswer`, `IngressOfAnswer`) are about any answered
  call, so that they can be used outside of a run of calls.
- **Glob.** Exactness needs more than what the loop returns. `IInv` keeps a
  placement of the parts consumed so far that ends at `at` (soundness), and
  that in every placement of the whole pattern the next part lies at `at` or
  beyond (completeness); `FoundAt` taking the first occurrence is what
  preserves the second.
- **Classify.** `IInv` says that `res` has exactly the rules before `j` that
  match, in order, with the highest of their severities. At the end of the
  inner loop that is the record `Review` adds, so `Keep` maps to `Enter`,
  `SkipData` and `DropNoOp` to `Leave`, and the other steps stutter. `OInv`
  adds where the matches come from, which unique ids make a function of the
  id; `RulesLoadProofs!UniqueIds` is what discharges that assumption.
- **RulesLoad.** `IInv` says that the compiled rules are those of the file read
  so far, and that the rules named in `errs` are the bad ones among them.
  `FaultyIsIllFormed` shows that the checks of `compile` find every ill-formed
  rule, and `CompiledMatches` that a rule without a fault matches what its file
  says. Both speak of one rule, for all globs and predicates.
- **Tfreview.** The stages are proved about in their own modules, and their
  theorems are used through `INSTANCE`: `TInv` has the invariant of the stage
  that runs and what each finished stage handed on. `PInv` says that the parser
  has mapped the entries so far, each with its action, none lost; `OInv` that
  the classifier's report so far is that of the changes so far, in the terms of
  `Cli`, whose rules are numbers into the file (`Ascending` lists a set of them
  in order, and grows at its end: `AscendingNext`). So the report of a run is
  the review its two files call for (`ReportIsReview`), and every step of the
  command is one of `Cli` or hidden from it (`StepRefines`).

- **DefaultReview.** `NothingDownplayed` joins the two halves of the project.
  The theorems about calls speak of one call of one predicate, while the command
  asks predicates about all changes of a plan. So `DefaultReviewProofs` takes
  `PredicateCallProofs` as an instance whose one call is a failing one, if there
  is any (`FailingCall`): a predicate and a change that obliges it to find
  something, which it does not. The assumptions of the instance follow from
  `ChangesArePlanned` (`CallsAreGiven`), and `DueIsFound` contradicts the call;
  so every predicate finds what it owes on every change (`OwedIsFound`) and the
  rules that name it match (`HoldsWhenFound`, through the registry).
  From there on it is about rules. `RuleSpeaks`: a rule of `default.yaml` whose
  selectors and predicate hold is among those that match in `Cli`'s reading of
  the file. `RowIsAsSevere`: a review is as severe as each of them. By cases over
  the README's list some rule of at least the documented severity speaks
  (`DocumentedIsSpoken`). `CommandKeepsPromise` says that the rules in force are
  those of the file (`SpecDefaultInForce`) and `PrintedIsReview` that what is
  printed is the review they call for, with a row for each change.

Where a statement about all trees, prefixes or sets of numbers calls for
induction, the proofs take a least counterexample instead (`LeastNatural`).

Only model-checked:

- the liveness halves of `ReviewsEveryChange` and `KeepsItsPromise`, which are
  beyond the prover;
- `FlagsWhatTheReadmeSays`, the other direction of `NothingDownplayed`. It is
  about the values of its instance: what is unknown or unreadable is flagged by
  some predicates to be safe, the README's list has no place for that, and an
  address may occur twice in a plan that no Terraform writes; so it is not true
  of every plan;
- the properties of `PlanFix`. Its addresses are read and its documents built
  with folds, and what a fold yields for all inputs needs induction over data:
  the induction theorems of the library take an operator, which no installed
  prover can instantiate.

## Where documentation and code differ

Four statements have a run in which TLC refutes them; `PROJECT.json` quotes the
lines.

- **One-sided markers** (`diff.go:123`, `MaskedOnBothSides`): a path marked on
  one side is masked on both only if both sides have a leaf at that very path.
  If the marked scalar was or becomes a block, the other side's values are
  shown.
- **Copies of old values** (`diff.go:103`, `OldValuesOfSensitivePathsAreHidden`):
  the old value of a path that becomes sensitive is masked there, but its copies
  elsewhere are shown.
- **Keys below an unknown block** (`predicates.go:266`, `UnknownNeverMatches`):
  when a block is unknown as a whole, the diff has no new leaf at the key's
  path, and the key is reported as removed although it may still be there.
- **ICMP ranges** (`network.go:141`, `NewIngressIsFound`): `from_port` and
  `to_port` of an ICMP rule are a type and a code. An old rule whose type is
  greater than its code, such as type 3 code 0, is a range that is the wrong way
  round. It is read as the full range, which then covers a new rule for any
  other type or code from its sources, such as type 0 code 0.

Differences without a run, of which the models have the behaviour of the code:

- Readers do not know of copies (`raw.go:9`): what the diff masks as the copy of
  a secret, a predicate can read. Details print of what is read only numbers,
  ports, protocols, sources and the names of AWS-managed key aliases.
- A wrong version is reported without the file's other problems (`rules.go:154`),
  although all are to be reported together (`rules.go:141`). `EveryBadRuleIsNamed`
  is about files of the right version.
- A data source whose actions are not recognised is warned of as flagged for
  attention (`plan.go:143`) and then dropped like every data source
  (`classify.go:51`). `docs/design.md` has a sentence for each of the two
  (lines 131 and 277).
- `changes_sensitive_attribute` counts the marker of a side only where that side
  has a leaf (`predicates.go:55`). When a map becomes sensitive as a whole and
  loses an element in the same update, the element's path changed and is marked,
  and is not found. `SensitiveWritesAreFound` goes by marked leaves.
- A file named `stdin` gets, when it is empty, the message about an empty
  standard input (`main.go:85`).
- The plan builder does not read the old address of a resource that did not
  exist before, so a bad one stays unnoticed (`planfix.go:218`).
- The plan builder accepts a name with an unopened bracket such as `sg.]web[9`,
  since only the depth at the end is looked at (`planfix.go`, `splitSteps`).

## What is not modelled

- The bytes: YAML and JSON decoding, the flag package's parsing of arguments,
  the table layout, the wording of messages and details.
- The Go types an index may have in `replace_paths` and in walks (`toIndex`):
  they denote the same index.
- Fields that are only copied: meanings, action reasons, names, and provider
  names beyond being the built-in one.
- Of the plan builder's document, the Terraform version, the empty
  configuration, and the order of modules.
- Errors of writes to standard output, which the code ignores.
- The packages that are only designed, which have no code.

## The plan

Done, in this order: `PlanTree` and `ChangeDiff` (what must not leak), `RuleMatch`,
`Review` and `Classify` (what must not be lost), `Glob`, `RulesFile` and
`RulesLoad` (what a rules file means), `PlanParse`, `Cli` and `Tfreview` (the
command), the first four proof modules; then `DiffEntry`, `Predicates`,
`Network`, `Traffic` and `PredicateCall` (what a rule's predicate answers),
`DefaultReview` (what the built-in rules flag), `PlanAddress` and `PlanFix` (what
tests build); then the remaining proofs: `PlanTreeProofs`, `PredicateCallProofs`,
`TfreviewProofs`, the rest of `ChangeDiffProofs`, and `DefaultReviewProofs`, which
joins them.

What could follow:

1. `PlanFix`: the parts of its properties that do not depend on what the folds
   compute, that is its type, the order and fields of what a test built, and
   what the parser makes of it.
2. An upper bound to go with `NothingDownplayed`, for plans in which everything
   is known and readable and no address occurs twice.
