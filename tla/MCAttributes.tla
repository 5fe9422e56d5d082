---------------------------- MODULE MCAttributes ----------------------------
(***************************************************************************)
(* Changes of attributes for TLC: one at the root or in a nested block,     *)
(* with transitions of every kind and markers on every part; and sensitive  *)
(* maps with a copy of the secret beside them.                              *)
(***************************************************************************)
EXTENDS MCPredicates

At1(name, v) == Map(KeyNamed[name] :> v)
In(name, v) == Map(KeyNamed["block"] :> List(<<Map(KeyNamed[name] :> v)>>))
Under(name, vs) == {At1(name, v) : v \in vs} \cup {In(name, v) : v \in vs}

Gone == {Map(<< >>), Map(KeyNamed["block"] :> List(<< >>))}
Marks(name) ==
    {No, Yes, At1("block", Yes), At1("block", List(<<Yes>>))} \cup Under(name, {Yes})

\* Every pair of values, plain; and a few with every marker.
Values(name, vs) == Under(name, vs) \cup Gone
AttributeCalls(name, vs, few) ==
    Changed({Plain(v) : v \in Values(name, vs)}, {PlainAfter(v) : v \in Values(name, vs)},
            {"update"}, "db")
      \cup Changed(BeforesOver(Under(name, {few}), Marks(name)),
                   AftersOver(Values(name, vs), {No}, Marks(name)), {"update"}, "db")
      \cup Changed({Plain(v) : v \in Under(name, {few})},
                   AftersOver(Values(name, vs), Marks(name), {No}), {"update"}, "db")
      \cup Changed({Plain(v) : v \in Values(name, vs)}, {PlainAfter(Null)}, {"delete"}, "db")

FlagValues == {S("True"), S("jtrue"), S("jfalse"), S("cmk"), Null}
FlagCalls ==
    AttributeCalls("encrypted", FlagValues, S("jtrue"))
      \cup AttributeCalls("force_destroy", {S("jtrue"), S("jfalse"), Null}, S("jfalse"))
NumberCalls ==
    AttributeCalls("backup_retention_period", {S("n0"), S("n1"), S("True"), Null}, S("n1"))
KeyValues == {S("cmk"), S("alias/aws/rds"), S(""), Null, List(<<S("cmk")>>)}
KeyCalls == AttributeCalls("kms_key_id", KeyValues, S("cmk"))

RecoveryCalls ==
    LET pitr(v) == Map(KeyNamed["point_in_time_recovery"] :> List(<<At1("enabled", v)>>))
        values == {pitr(v) : v \in {S("jtrue"), S("jfalse")}}
                    \cup {At1("enabled", v) : v \in {S("jtrue"), S("jfalse")}}
    IN  Changed({Plain(v) : v \in values}, {PlainAfter(v) : v \in values}, {"update"}, "db")

\* Sensitive maps and scalars, with a copy of the secret beside them.
WriteCalls ==
    LET tags(v, w) == Map(KeyNamed["tags"] :> v @@ KeyNamed["password_wo_version"] :> w)
        key == KeyNamed["encrypted"]
        kids == {S("secret"), Null, Map(<< >>), Map(key :> S("secret")),
                 Map(key :> S("secret") @@ KeyNamed["type"] :> S("cmk"))}
        values == {tags(v, w) : v \in kids, w \in {S("n1"), S("secret")}}
        marks == {No, Yes, Map(KeyNamed["tags"] :> Yes), Map(KeyNamed["tags"] :> Map(key :> Yes))}
        changes == Changed(BeforesOver(values, marks), AftersOver(values, {No, Map(KeyNamed["tags"] :> Yes)}, marks),
                           {"update", "replace"}, "db")
    IN  changes \cup {[c EXCEPT !.mode = "data", !.previous = "old"] : c \in
                         {x \in changes : x.after = x.before}}

AttributeFamily == FlagCalls \cup NumberCalls \cup KeyCalls \cup RecoveryCalls \cup WriteCalls

=============================================================================
