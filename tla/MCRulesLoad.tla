---------------------------- MODULE MCRulesLoad ----------------------------
(***************************************************************************)
(* Rules files for TLC: every pair of rules, each with at most one problem  *)
(* of every kind Load knows, and the files of three good rules whose ids    *)
(* may repeat; the fields above the rules vary on their own.                *)
(***************************************************************************)
EXTENDS RulesLoad

MCTypes == {"db", "sg"}
MCAddresses == {"web"}
MCRuleIDs == {"a", "b"}

MCGlobMatches == [p \in {"", "d*", "*"} |-> CASE p = "" -> {} [] p = "d*" -> {"db"}
                                          [] p = "*" -> {"db", "sg", "web"}]
MCRegistry == [n \in {"was_moved"} |-> {c \in Changes : c.type = "sg"}]

Plain ==
    [id |-> "a", severity |-> "high", verdict |-> "", types |-> {{"d*"}},
     actions |-> {}, addresses |-> {}, predicate |-> ""]

GoodRules ==
    {Plain,
     [Plain EXCEPT !.severity = "low", !.verdict = "block", !.actions = {{"create", "delete"}}],
     [Plain EXCEPT !.types = {}, !.addresses = {{"*"}}, !.severity = "medium"],
     [Plain EXCEPT !.types = {}, !.predicate = "was_moved"],
     [Plain EXCEPT !.id = "b", !.types = {{"d*", "*"}}, !.predicate = "was_moved"]}

FaultyRules ==
    {[Plain EXCEPT !.id = ""],
     [Plain EXCEPT !.severity = ""],
     [Plain EXCEPT !.severity = "huge"],
     [Plain EXCEPT !.verdict = "approve"],
     [Plain EXCEPT !.types = {}],
     [Plain EXCEPT !.types = {{}}],
     [Plain EXCEPT !.types = {{"", "d*"}}],
     [Plain EXCEPT !.addresses = {{}}],
     [Plain EXCEPT !.actions = {{}}],
     [Plain EXCEPT !.actions = {{"create", "unknown"}}],
     [Plain EXCEPT !.predicate = "nope"]}

FileOf(rs) ==
    [decodes |-> "yes", version |-> 1, destructive |-> "", other |-> "", rules |-> rs]

RuleLists ==
    UNION {[1 .. n -> GoodRules \cup FaultyRules] : n \in 0 .. 2}
      \cup {<<Plain, [Plain EXCEPT !.id = "b"], [Plain EXCEPT !.id = x]>> : x \in {"a", "b"}}

MCFiles ==
    {FileOf(rs) : rs \in RuleLists}
      \cup {[FileOf(<<r>>) EXCEPT !.version = 2] : r \in {Plain, [Plain EXCEPT !.id = ""]}}
      \cup {[FileOf(<<r>>) EXCEPT !.destructive = v, !.other = w] :
              r \in {Plain, [Plain EXCEPT !.id = ""]},
              v \in {"", "block", "ignore"}, w \in {"", "approve", "ignore"}}
      \cup {[FileOf(<< >>) EXCEPT !.decodes = d] : d \in {"empty", "invalid"}}

=============================================================================
