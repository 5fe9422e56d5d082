------------------------------ MODULE PlanParse ------------------------------
(***************************************************************************)
(* plan.Parse (internal/plan/plan.go) and MapActions (action.go): plan JSON *)
(* becomes a list of changes, or an error.  Of a change only the fields     *)
(* that rules and the report look at are kept: Changes of RuleMatch, and    *)
(* beside them the actions array, the instance key and the replace paths.   *)
(***************************************************************************)
EXTENDS RuleMatch, Integers

\* The texts Parse may be given.
CONSTANT Inputs

\* A segment of a path or an instance key, decoded with numbers kept as text:
\* a number that is an int, another number, a string, or nothing.
Segments == ({"number", "string"} \X STRING) \cup ({"int"} \X Int) \cup {<<"null">>}

\* What can be read, what it is as JSON, and what the document says; the
\* version is cut at its dots.
PlanText(t) ==
    /\ t = [reads |-> t.reads, text |-> t.text, version |-> t.version,
            errored |-> t.errored, complete |-> t.complete, entries |-> t.entries]
    /\ t.reads \in BOOLEAN
    /\ t.text \in {"blank", "malformed", "document", "followed"}
    /\ t.version \in Seq(STRING) \ {<< >>}
    /\ t.errored \in BOOLEAN /\ t.complete \in {"absent", "true", "false"}
    /\ t.entries \in Seq([mode : Modes, type : Types, address : Addresses,
                          actions : Seq(STRING), body : Bodies,
                          index : Segments, paths : Seq(Seq(Segments))])

VARIABLES
    ppc,       \* "read", "changes", "parsed" or "failed"
    input,     \* the text on the reader
    problem,   \* the error returned, or "none"
    errored,   \* Plan.Errored
    complete,  \* Plan.Complete
    changes,   \* Plan.Changes
    details,   \* RawActions, CreateBeforeDestroy, Index, ReplacePaths of each
    warnings   \* the changes Plan.Warnings is about, by number

pvars == <<ppc, input, problem, errored, complete, changes, details, warnings>>

Single == {"no-op", "create", "read", "update", "delete", "forget"}

\* MapActions that goes by the last action of the array.
MapActionsByLast(actions) ==
    IF actions # << >> /\ actions[Len(actions)] \in Single
    THEN actions[Len(actions)] ELSE "unknown"

MapActions(actions) ==
    IF Len(actions) = 1 /\ actions[1] \in Single THEN actions[1]
    ELSE IF actions \in {<<"delete", "create">>, <<"create", "delete">>} THEN "replace"
    ELSE "unknown"

\* NormIndex that keeps every number as the text it has in the document.
NormIndexToText(v) == IF v[1] \in {"int", "number"} THEN <<"string", v[2]>> ELSE v

NormIndex(v) == IF v[1] = "number" THEN <<"string", v[2]>> ELSE v

NormPaths(paths) ==
    [i \in DOMAIN paths |-> [j \in DOMAIN paths[i] |-> NormIndex(paths[i][j])]]

Init ==
    /\ ppc = "read"
    /\ input \in Inputs
    /\ problem = "none"
    /\ errored = FALSE /\ complete = FALSE
    /\ changes = << >> /\ details = << >> /\ warnings = << >>

Fail(error) ==
    /\ ppc' = "failed"
    /\ problem' = error
    /\ UNCHANGED <<input, errored, complete, changes, details, warnings>>

ReadFails == ppc = "read" /\ ~input.reads /\ Fail("unreadable")

Blank == ppc = "read" /\ input.reads /\ input.text = "blank" /\ Fail("empty")

BadJSON ==
    /\ ppc = "read" /\ input.reads
    /\ input.text \in {"malformed", "followed"}
    /\ Fail("invalid")

\* checkFormatVersion; a missing version is the empty string.
SupportedVersion(version) == version[1] = "1"

BadVersion ==
    /\ ppc = "read" /\ input.reads /\ input.text = "document"
    /\ ~SupportedVersion(input.version)
    /\ Fail("version")

Decode ==
    /\ ppc = "read" /\ input.reads /\ input.text = "document"
    /\ SupportedVersion(input.version)
    /\ errored' = input.errored
    /\ complete' = (input.complete # "false")
    /\ ppc' = "changes"
    /\ UNCHANGED <<input, problem, changes, details, warnings>>

MapChange ==
    /\ ppc = "changes" /\ Len(changes) < Len(input.entries)
    /\ LET n == Len(changes) + 1
           rc == input.entries[n]
           action == MapActions(rc.actions)
       IN  /\ changes' = Append(changes, [mode |-> rc.mode, action |-> action,
                                          type |-> rc.type, address |-> rc.address,
                                          body |-> rc.body])
           /\ details' = Append(details, [raw |-> rc.actions,
                                          createBeforeDestroy |->
                                              rc.actions = <<"create", "delete">>,
                                          index |-> NormIndex(rc.index),
                                          replacePaths |-> NormPaths(rc.paths)])
           /\ warnings' = IF action = "unknown" THEN Append(warnings, n) ELSE warnings
    /\ UNCHANGED <<ppc, input, problem, errored, complete>>

Finish ==
    /\ ppc = "changes" /\ Len(changes) = Len(input.entries)
    /\ ppc' = "parsed"
    /\ UNCHANGED <<input, problem, errored, complete, changes, details, warnings>>

Next == ReadFails \/ Blank \/ BadJSON \/ BadVersion \/ Decode \/ MapChange \/ Finish

=============================================================================
