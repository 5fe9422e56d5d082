----------------------------- MODULE MCClassify -----------------------------
(***************************************************************************)
(* Small reviews for TLC: plans of up to two changes that differ in mode,   *)
(* action and type, and rules files of up to three rules that overlap.      *)
(***************************************************************************)
EXTENDS Classify

MCTypes == {"db", "sg"}
MCAddresses == {"web"}
MCRuleIDs == {"destroys", "moved", "any_db", "block_all"}

Planned(mode, action, type) ==
    [mode |-> mode, action |-> action, type |-> type, address |-> "web", body |-> "b"]

Few ==
    {Planned(m, a, t) : m \in Modes, a \in {"no-op", "delete"}, t \in MCTypes}
      \cup {Planned("managed", "unknown", "db")}

Rule(id, severity, block) ==
    [id |-> id, severity |-> severity, block |-> block,
     types |-> {}, actions |-> {}, addresses |-> {}, predicate |-> {}]

Destroys == [Rule("destroys", High, FALSE) EXCEPT !.types = {{"db"}, {}}, !.actions = {"delete"}]
Moved == [Rule("moved", Low, FALSE) EXCEPT !.actions = {"no-op"},
                                            !.predicate = {{c \in Few : c.type = "sg"}}]
AnyDB == [Rule("any_db", Medium, FALSE) EXCEPT !.types = {{"db"}}]
BlockAll == [Rule("block_all", Low, TRUE) EXCEPT !.addresses = {{"web"}}]

FewRules == {Destroys, Moved, AnyDB, BlockAll}

MCPlans == UNION {[1 .. n -> Few] : n \in 0 .. 2}
MCRuleSets ==
    {rs \in UNION {[1 .. n -> FewRules] : n \in 0 .. 3} :
        \A k, l \in DOMAIN rs : rs[k].id = rs[l].id => k = l}

=============================================================================
