----------------------------- MODULE MCScalars -----------------------------
(***************************************************************************)
(* Names and scalars for TLC, wherever predicates are called.  Addresses    *)
(* have two bits in one family and one in the other, and there are four     *)
(* ports.                                                                   *)
(***************************************************************************)
EXTENDS Traffic, MCTrees

MCNames ==
    <<"backup_retention_period", "block", "cidr_blocks", "cidr_ipv4", "cidr_ipv6",
      "deletion_protection", "enabled", "encrypted", "force_destroy", "from_port", "ingress",
      "ip_protocol", "ipv6_cidr_blocks", "kms_key_id", "password_wo_version",
      "point_in_time_recovery", "prefix_list_id", "prefix_list_ids", "protocol",
      "referenced_security_group_id", "security_groups", "self", "skip_final_snapshot",
      "source_security_group_id", "tags", "to_port", "type">>

MCStrings ==
    {"", "True", "cmk", "alias/aws/rds", "secret", "tcp", "6", "icmp", "-1", "ingress",
     "egress", "0.0.0.0/0", "00/1", "01/2", "10/1", "11", "junk", "::/0", "sg1", "sg2"}
MCAtoms == {"jtrue", "jfalse", "n-1", "n0", "n1", "n2", "n3"}

MCBoolean == [x \in {"True", "jtrue", "jfalse"} |-> x \in {"True", "jtrue"}]
MCNumber == "n-1" :> -1 @@ "n0" :> 0 @@ "n1" :> 1 @@ "n2" :> 2 @@ "n3" :> 3
MCAwsManaged == {"alias/aws/rds"}

\* No value here is a protocol but these.
MCProtocol ==
    [x \in MCStrings \cup MCAtoms \cup {"map", "list", "null"} |->
        CASE x = "-1" -> "all" [] x \in {"tcp", "6"} -> "tcp"
          [] x = "icmp" -> "icmp" [] OTHER -> "other"]

V4(a, bits) == [v4 |-> TRUE, addr |-> a, bits |-> bits]
MCCidr ==
    "0.0.0.0/0" :> V4(<<0, 0>>, 0) @@ "00/1" :> V4(<<0, 0>>, 1) @@ "01/2" :> V4(<<0, 1>>, 2)
      @@ "10/1" :> V4(<<1, 1>>, 1) @@ "11" :> V4(<<1, 1>>, 2)
      @@ "::/0" :> [v4 |-> FALSE, addr |-> <<0>>, bits |-> 0]
MCPrivateRanges == {V4(<<1, 0>>, 1), [v4 |-> FALSE, addr |-> <<1>>, bits |-> 1]}

S(x) == Scalar(x)

=============================================================================
