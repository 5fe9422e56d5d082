-------------------------- MODULE MCDefaultReview --------------------------
(***************************************************************************)
(* Plans for the command with its own rules: every transition the README    *)
(* lists and some that are harmless or cannot be read, under every action   *)
(* it can come with, on types that are stateful, that match a pattern only, *)
(* or are neither.                                                          *)
(***************************************************************************)
EXTENDS DefaultReview, MCScalars

MCTypes ==
    {"aws_db_instance", "aws_elasticache_cluster", "aws_iam_role", "aws_security_group"}
MCAddresses == {"web"}
MCRuleIDs ==
    {"stateful-destroy", "sg-ingress-widened", "encryption-disabled",
     "deletion-protection-removed", "backup-retention-reduced", "sensitive-attribute-changed",
     "moved-then-replaced", "moved", "removed-from-state", "new-resource"}
MCGlobMatches ==
    [p \in StatefulTypes \cup DOMAIN Schemas |->
        IF p = "aws_elasticache_*" THEN {"aws_elasticache_cluster"} ELSE {p}]

-----------------------------------------------------------------------------
(* Bodies, by kind and by the old and new value of an attribute.          *)

Turns ==
    {<<"kept", "encrypted", x, y>> : x, y \in {"jtrue", "jfalse"}}
      \cup {<<"kept", "kms_key_id", "cmk", y>> : y \in {"", "cmk", "alias/aws/rds", "secret"}}
      \cup {<<"kept", "deletion_protection", "jtrue", "jfalse">>,
            <<"kept", "force_destroy", "jfalse", "True">>,
            <<"kept", "backup_retention_period", "n2", "n0">>,
            <<"kept", "backup_retention_period", "n0", "n2">>,
            <<"kept", "skip_final_snapshot", "jfalse", "jtrue">>,
            <<"kept", "point_in_time_recovery", "jtrue", "jfalse">>,
            <<"kept", "encrypted", "jtrue", "null">>,
            <<"kept", "tags", "cmk", "cmk">>}
      \cup {<<"unknown", "encrypted", "jtrue", "null">>, <<"unknown", "kms_key_id", "cmk", "null">>,
            <<"masked", "encrypted", "jtrue", "jfalse">>}
      \cup {<<"secret", "tags", "secret", y>> : y \in {"secret", "cmk"}}
      \cup {<<"moved", "tags", "cmk", "cmk">>, <<"moved", "encrypted", "jtrue", "jfalse">>}

\* An ingress block by its source and its first port.
Groups == {<<cidr, from>> : cidr \in {"10/1", "01/2", "00/1"}, from \in {"n1", "n2"}}
GroupTurns == {<<"kept", "ingress", x, y>> : x, y \in Groups}
NewGroups == {<<"made", "ingress", x, x>> : x \in Groups}
NewOnes == {<<"made", "tags", "cmk", "cmk">>}
LostOnes == {<<"lost", "tags", "cmk", "cmk">>, <<"lost", "kms_key_id", "cmk", "cmk">>}

Value(name, x) ==
    Map(KeyNamed[name] :>
        CASE name = "point_in_time_recovery" -> List(<<Map(KeyNamed["enabled"] :> S(x))>>)
          [] name = "ingress" -> List(<<Map(KeyNamed["protocol"] :> S("tcp") @@ KeyNamed["from_port"] :> S(x[2]) @@
                        KeyNamed["to_port"] :> S("n2") @@
                        KeyNamed["cidr_blocks"] :> List(<<S(x[1])>>))>>)
          [] OTHER -> S(x))

Marks(b, kinds) == IF b[1] \in kinds THEN Map(KeyNamed[b[2]] :> Yes) ELSE No

Body(b) ==
    [before |-> IF b[1] = "made" THEN Null ELSE Value(b[2], b[3]),
     after |-> IF b[1] = "lost" THEN Null ELSE Value(b[2], b[4]),
     afterUnknown |-> Marks(b, {"unknown"}), beforeSensitive |-> Marks(b, {"masked"}),
     afterSensitive |-> Marks(b, {"secret", "masked"}),
     previous |-> IF b[1] = "moved" THEN "older" ELSE NoName]

MCBodies == {Body(b) : b \in Turns \cup GroupTurns \cup NewGroups \cup NewOnes \cup LostOnes}

-----------------------------------------------------------------------------
Planned(actions, types, bodies) ==
    [mode : {"managed"}, action : actions, type : types, address : MCAddresses,
     body : {Body(b) : b \in bodies}]

StillMoved == {b \in Turns : b[2] = "tags" /\ b[1] # "secret"}

MCChanges ==
    Planned(Rewrites, MCTypes \ {"aws_security_group"}, Turns)
      \cup Planned(Rewrites, {"aws_security_group"}, GroupTurns)
      \cup Planned({"create"}, {"aws_security_group"}, NewGroups)
      \cup Planned({"create"}, {"aws_db_instance"}, NewOnes)
      \cup Planned({"delete", "forget"}, MCTypes, LostOnes)
      \cup Planned({"no-op"}, MCTypes, StillMoved)
      \cup Planned({"unknown"}, {"aws_iam_role"}, StillMoved)
      \cup {[c EXCEPT !.mode = "data"] : c \in Planned({"read"}, {"aws_iam_role"}, StillMoved)}

\* The predicates on these changes.  What gives a constant its value TLC
\* evaluates once, but only where it is named itself: hence two names.
CONSTANT Holds
MCHolds == PredicateSets(MCChanges)
MCRegistry == MCHolds

\* How a plan document says what happens.
Arrays(action) ==
    CASE action = "replace" -> {<<"delete", "create">>, <<"create", "delete">>}
      [] action = "unknown" -> {<<"delete", "update">>}
      [] OTHER -> {<<action>>}

Entries ==
    UNION {{[mode |-> c.mode, actions |-> a, type |-> c.type, address |-> c.address,
             body |-> c.body, index |-> <<"null">>, paths |-> << >>] : a \in Arrays(c.action)} : c \in MCChanges}

MCInputs ==
    {[reads |-> TRUE, text |-> "document", version |-> <<"1", "2">>,
      errored |-> FALSE, complete |-> "absent", entries |-> <<e>>] : e \in Entries}

MCFiles == {DefaultFile}

MCCalls ==
    {[args |-> "good", rules |-> "", plan |-> "p.json", opens |-> {"p.json"}, terminal |-> FALSE]}

=============================================================================
