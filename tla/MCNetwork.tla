----------------------------- MODULE MCNetwork -----------------------------
(***************************************************************************)
(* Changes of the three resources of network access for TLC: permissions    *)
(* of every kind before and after, and markers on their parts.              *)
(***************************************************************************)
EXTENDS MCPredicates

\* A rule resource with one permission; a field that is Null is left out.
Attributes(kids) == Map([k \in {k \in DOMAIN kids : kids[k] # Null} |-> kids[k]])

Ports == {<<Null, Null>>, <<S("n0"), S("n3")>>, <<S("n1"), S("n2")>>, <<S("n2"), S("n2")>>,
          <<S("n3"), S("n0")>>, <<S("n-1"), S("n-1")>>, <<S("n1"), S("n-1")>>}
Talks == {<<proto, ports>> : proto \in {S("tcp"), S("icmp"), S("-1")}, ports \in Ports}

VpcRule(talk, field, source) ==
    Attributes(KeyNamed["ip_protocol"] :> talk[1] @@ KeyNamed["from_port"] :> talk[2][1] @@
            KeyNamed["to_port"] :> talk[2][2] @@ KeyNamed[field] :> source)

VpcSources ==
    {<<"cidr_ipv4", S(x)>> : x \in {"0.0.0.0/0", "00/1", "01/2", "10/1", "11", "junk"}}
      \cup {<<"cidr_ipv6", S("::/0")>>, <<"prefix_list_id", S("sg1")>>, <<"cidr_ipv4", S("")>>}
      \cup {<<"referenced_security_group_id", S(x)>> : x \in {"sg1", "sg2"}}

VpcRules == {VpcRule(t, s[1], s[2]) : t \in Talks, s \in VpcSources}
VpcType == "aws_vpc_security_group_ingress_rule"

\* Coverage: every talk with two sources, and every source with two talks.
VpcCalls ==
    LET few(talks, sources) == {VpcRule(t, s[1], s[2]) : t \in talks, s \in sources}
        talk2 == {<<S("tcp"), <<S("n1"), S("n2")>>>>, <<S("-1"), <<Null, Null>>>>}
        source2 == {<<"cidr_ipv4", S("00/1")>>, <<"cidr_ipv4", S("01/2")>>}
        among(values, actions) ==
            Changed({Plain(v) : v \in values}, {PlainAfter(v) : v \in values}, actions, VpcType)
    IN  among(few(Talks, source2), {"update"})
          \cup among(few(talk2, VpcSources), {"replace", "delete"})
          \cup Changed({Plain(Null)}, {PlainAfter(v) : v \in VpcRules}, {"create"}, VpcType)

\* Rules for one type and code of ICMP each: an echo reply (0 and 0), and what
\* is unreachable (3), the network (0), the host (1) or the port (3).
IcmpCalls ==
    LET kinds == {<<S("n0"), S("n0")>>} \cup {<<S("n3"), S(code)>> : code \in {"n0", "n1", "n3"}}
        rules == {VpcRule(<<S("icmp"), kind>>, "cidr_ipv4", S(x)) :
                     kind \in kinds, x \in {"00/1", "01/2", "10/1"}}
    IN  Changed({Plain(v) : v \in rules}, {PlainAfter(v) : v \in rules}, {"update"}, VpcType)

\* Markers on each field of a rule, before and after.
MarkOf(f) == {No, Map(KeyNamed[f] :> Yes)}
MarkedVpcCalls ==
    LET values == {VpcRule(t, s[1], s[2]) :
                     t \in {<<S("tcp"), <<S("n1"), S("n2")>>>>, <<S("-1"), <<Null, Null>>>>,
                            <<S("icmp"), <<S("n3"), S("n0")>>>>, <<Null, <<S("n1"), Null>>>>},
                     s \in {<<"cidr_ipv4", S("00/1")>>, <<"cidr_ipv4", Null>>}}
        marks == UNION {MarkOf(f) : f \in {"ip_protocol", "from_port", "cidr_ipv4"}}
        afters == AftersOver(values, marks, {No}) \cup AftersOver(values, {No}, marks)
    IN  Changed(BeforesOver(values, marks), afters, {"update"}, VpcType)
          \cup Changed({Plain(Null)}, afters, {"create"}, VpcType)

\* Security groups of up to two blocks, each with lists of sources.
Block(talk, cidrs, groups, self) ==
    Attributes(KeyNamed["protocol"] :> talk[1] @@ KeyNamed["from_port"] :> talk[2][1] @@
            KeyNamed["to_port"] :> talk[2][2] @@ KeyNamed["cidr_blocks"] :> cidrs @@
            KeyNamed["security_groups"] :> groups @@ KeyNamed["self"] :> self)
GroupBlocks ==
    LET tcp == <<S("6"), <<S("n1"), S("n2")>>>>
    IN  {Block(tcp, cidrs, List(<< >>), S("jfalse")) :
           cidrs \in {List(<<S("00/1")>>), List(<<S("01/2"), S("11")>>), Null}}
          \cup {Block(tcp, List(<< >>), groups, self) :
                  groups \in {List(<<S("sg1"), S("sg2")>>), List(<<S("sg1")>>), Null},
                  self \in {S("jtrue"), Null}}
          \cup {Block(<<S("-1"), <<S("n0"), S("n0")>>>>, List(<<S("0.0.0.0/0")>>), Null, S("True"))}
Group(blocks) == Map(KeyNamed["ingress"] :> List(blocks))
Groups(n) == {Group(bs) : bs \in UNION {[1 .. k -> GroupBlocks] : k \in 0 .. n}}
GroupMarks ==
    LET inner == {Map(KeyNamed["cidr_blocks"] :> Yes), Map(KeyNamed["self"] :> Yes),
                  Map(KeyNamed["cidr_blocks"] :> List(<<No, Yes>>)),
                  Map(KeyNamed["security_groups"] :> List(<<Yes>>))}
    IN  {No, Map(KeyNamed["ingress"] :> Yes), Map(KeyNamed["ingress"] :> List(<<Yes>>)),
         Map(KeyNamed["ingress"] :> List(<<Map(<< >>), Yes>>))}
          \cup {Map(KeyNamed["ingress"] :> List(<<m>>)) : m \in inner}
GroupCalls ==
    LET marked == AftersOver(Groups(1) \cup {Map(<< >>)}, GroupMarks, {No})
                    \cup AftersOver(Groups(1), {No}, GroupMarks)
    IN  Changed({Plain(v) : v \in Groups(2)},
                {PlainAfter(Group(<<b>>)) : b \in GroupBlocks}, {"update"}, "aws_security_group")
          \cup Changed({Plain(Group(<<b>>)) : b \in GroupBlocks}, marked, {"update"}, "aws_security_group")
          \cup Changed({Plain(Null)}, marked, {"create"}, "aws_security_group")

\* Rules of either direction, of which one or the source may be unreadable.
Rule(type, cidr, self) ==
    Attributes(KeyNamed["type"] :> S(type) @@ KeyNamed["protocol"] :> S("tcp") @@
            KeyNamed["from_port"] :> S("n1") @@ KeyNamed["to_port"] :> S("n2") @@
            KeyNamed["cidr_blocks"] :> List(<<S(cidr)>>) @@ KeyNamed["self"] :> self)
RuleCalls ==
    LET rules == {Rule(t, c, s) : t \in {"ingress", "egress"}, c \in {"00/1", "01/2"},
                                  s \in {S("jtrue"), Null}}
        marks == MarkOf("type") \cup MarkOf("self")
        afters == AftersOver(rules, MarkOf("self"), marks)
    IN  Changed(BeforesOver(rules, marks), afters, {"update"}, "aws_security_group_rule")
          \cup Changed({Plain(Null)}, afters, {"create"}, "aws_security_group_rule")

NetworkFamily == VpcCalls \cup MarkedVpcCalls \cup GroupCalls \cup RuleCalls

=============================================================================
