----------------------------- MODULE MCTfreview -----------------------------
(***************************************************************************)
(* Runs of the command for TLC: calls that fail at each stage, a few rules  *)
(* files with and without problems, and plans of up to two entries with     *)
(* every kind of actions array.                                             *)
(***************************************************************************)
EXTENDS Tfreview

MCTypes == {"db", "sg"}
MCAddresses == {"web", "old"}
MCRuleIDs == {"destroys", "moved"}

MCGlobMatches == [p \in {"", "d*", "*"} |-> CASE p = "" -> {} [] p = "d*" -> {"db"}
                                          [] p = "*" -> {"db", "sg", "web", "old"}]
MCRegistry == [n \in {"was_moved"} |-> {c \in Changes : c.address = "web"}]

Destroys ==
    [id |-> "destroys", severity |-> "high", verdict |-> "", types |-> {{"d*"}},
     actions |-> {{"delete", "replace"}}, addresses |-> {}, predicate |-> ""]
Moved ==
    [id |-> "moved", severity |-> "low", verdict |-> "", types |-> {},
     actions |-> {}, addresses |-> {}, predicate |-> "was_moved"]

FileOf(rs) ==
    [decodes |-> "yes", version |-> 1, destructive |-> "", other |-> "", rules |-> rs]

MCEmbedded == FileOf(<<Moved, Destroys>>)
MCFiles ==
    {MCEmbedded, FileOf(<< >>), FileOf(<<Destroys>>),
     FileOf(<<[Moved EXCEPT !.severity = ""]>>), FileOf(<<Moved, Moved>>),
     [FileOf(<< >>) EXCEPT !.decodes = "empty"]}

Call(args, rs, p, opens, terminal) ==
    [args |-> args, rules |-> rs, plan |-> p, opens |-> opens, terminal |-> terminal]

MCCalls ==
    {Call(args, "", "", {}, FALSE) : args \in {"help", "bad"}}
      \cup {Call("good", rs, p, opens, terminal) :
              rs \in {"", "r.yaml"}, p \in {"", "p.json"},
              opens \in {{"r.yaml", "p.json"}, {"r.yaml"}, {}}, terminal \in BOOLEAN}
      \cup {Call("good", "", "stdin", {"stdin"}, FALSE)}

EntryOf(mode, actions, type, address) ==
    [mode |-> mode, actions |-> actions, type |-> type, address |-> address, body |-> "b",
     index |-> <<"null">>, paths |-> << >>]

Entries ==
    {EntryOf("managed", actions, "db", "old") :
       actions \in {<<"no-op">>, <<"update">>, <<"delete", "create">>,
                    <<"delete", "update">>, <<"replace">>, << >>}}
      \cup {EntryOf("managed", <<"no-op">>, "sg", "web"), EntryOf("managed", <<"delete">>, "db", "web"),
            EntryOf("data", <<"read">>, "db", "web"), EntryOf("data", <<"grow">>, "db", "old")}

Plan(entries) ==
    [reads |-> TRUE, text |-> "document", version |-> <<"1", "2">>,
     errored |-> FALSE, complete |-> "absent", entries |-> entries]

Pairs == {<<EntryOf("managed", <<"delete", "update">>, "db", "old"),
            EntryOf("managed", <<"no-op">>, "sg", "web")>>,
          <<EntryOf("data", <<"read">>, "db", "web"), EntryOf("managed", <<"delete">>, "db", "web")>>,
          <<EntryOf("managed", <<"no-op">>, "db", "old"),
            EntryOf("managed", <<"create", "delete">>, "sg", "old")>>}

MCInputs ==
    {Plan(es) : es \in {<< >>} \cup [1 .. 1 -> Entries] \cup Pairs}
      \cup {[Plan(<< >>) EXCEPT !.errored = b, !.complete = c] :
              b \in BOOLEAN, c \in {"true", "false"}}
      \cup {[Plan(<< >>) EXCEPT !.text = t] : t \in {"blank", "malformed", "followed"}}
      \cup {[Plan(<< >>) EXCEPT !.version = v] : v \in {<<"">>, <<"10", "0">>, <<"", "5">>}}
      \cup {[Plan(<< >>) EXCEPT !.reads = FALSE]}

=============================================================================
