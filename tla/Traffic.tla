------------------------------ MODULE Traffic ------------------------------
(***************************************************************************)
(* What the answers of predicates are measured by: what happens to a value, *)
(* and what a security group admits, stated without permissions or coverage *)
(* as the set of messages from hosts, read off the resource itself.         *)
(***************************************************************************)
EXTENDS Network

\* What can happen to an attribute, told by its old and new value.
TurnsOff(x, y) == {x, y} \subseteq DOMAIN Boolean /\ Boolean[x] /\ ~Boolean[y]
TurnsOn(x, y) == TurnsOff(y, x)
GetsLess(x, y) == {x, y} \subseteq DOMAIN Number /\ Number[y] < Number[x]

-----------------------------------------------------------------------------
(* Messages and hosts. *)

\* The protocols a message may have.
Protocols == {Protocol[x] : x \in DOMAIN Protocol} \ {"all"}

\* A rule for one protocol is not a rule for all of them.
ASSUME SeveralProtocols == \E x, y \in Protocols : x # y

Icmp == {"icmp", "icmpv6"}

\* A message of ICMP has a type and a code, any other one has a port.
Messages ==
    [proto : Protocols \cap Icmp, at : (0 .. MaxPort) \X (0 .. MaxPort)]
      \cup [proto : Protocols \ Icmp, at : {<<n, n>> : n \in 0 .. MaxPort}]

IPs == UNION {[v4 : {f}, addr : Address(f)] : f \in BOOLEAN}

\* A host by its address, or as a member of a group or prefix list.
Members ==
    [kind : {"group", "prefix list"}, id : Strings \ {EmptyString}]
    \cup [kind : {"self"}, id : {NoName}]
Hosts == IPs \cup Members

InPrefix(a, p) == a.v4 = p.v4 /\ \A n \in 1 .. p.bits : a.addr[n] = p.addr[n]

\* A prefix of all addresses of a family lets every member in as well.
HostsIn(p) ==
    {a \in IPs : InPrefix(a, p)} \cup (IF p.bits = 0 THEN Members ELSE {})

-----------------------------------------------------------------------------
(* The traffic of a permission, as its detail describes it. *)

HostsOf(src) ==
    IF src.unknown THEN {}
    ELSE IF src.kind = "cidr" THEN HostsIn(src.prefix)
    ELSE {m \in Members : m.kind = src.kind /\ m.id = src.id}

PortsOf(p) ==
    {t \in Protocols \X (0 .. MaxPort) :
        p.proto = "all" \/ (t[1] = p.proto /\ p.from <= t[2] /\ t[2] <= p.to)}

TrafficOf(p) == PortsOf(p) \X HostsOf(p.src)

-----------------------------------------------------------------------------
(* The traffic of a resource value v, block by block. *)

\* The elements of the list at p.
Items(v, p) == IF At(v, p) = "list" THEN Children(v, p) ELSE {}

Blocks(v, schema) ==
    IF schema.blocks = NoName THEN {<< >>} ELSE Items(v, <<KeyNamed[schema.blocks]>>)

Field(v, block, name) == At(v, Append(block, KeyNamed[name]))

\* The strings of a list, and of a field.
Elements(v, block, names) ==
    {v[q] : q \in UNION {Items(v, Append(block, KeyNamed[f])) : f \in names}} \cap Strings
Fields(v, block, names) == {Field(v, block, f) : f \in names} \cap Strings

\* A bound that is missing or negative is open.
Given(x) == x \in DOMAIN Number /\ Number[x] >= 0

Within(v, block, schema, m) ==
    LET from == Field(v, block, schema.from)
        to == Field(v, block, schema.to)
    IN  IF m.proto \in Icmp
        THEN /\ Given(from) => Number[from] = m.at[1]
             /\ Given(to) => Number[to] = m.at[2]
        ELSE /\ Given(from) => Number[from] <= m.at[1]
             /\ Given(to) => m.at[2] <= Number[to]

\* A protocol that is not there, or not yet, may be any.
MessagesOf(v, block, schema) ==
    LET proto == Field(v, block, schema.proto)
    IN  IF proto = "null" \/ Protocol[proto] = "all" THEN Messages
        ELSE {m \in Messages : m.proto = Protocol[proto] /\ Within(v, block, schema, m)}

HostsAdmitted(v, block, schema) ==
    LET said(lists, singles) == Elements(v, block, lists) \cup Fields(v, block, singles)
        isNamed(m, kind, ids) == m \in Members /\ m.kind = kind /\ m.id \in ids \ {EmptyString}
    IN  {h \in Hosts :
           \/ \E s \in said(schema.cidrLists, schema.cidrs) \cap DOMAIN Cidr : h \in HostsIn(Cidr[s])
           \/ isNamed(h, "group", said(schema.groupLists, schema.groups))
           \/ isNamed(h, "prefix list", said(schema.prefixLists, schema.prefix))
           \/ h \in Members /\ h.kind = "self" /\ \E f \in schema.self :
                LET x == Field(v, block, f) IN x \in DOMAIN Boolean \cap Atoms /\ Boolean[x]}

IsIngress(v, block, schema) ==
    schema.type # NoName => Field(v, block, schema.type) \in {"ingress", "null"}

TrafficIn(v, schema) ==
    UNION {MessagesOf(v, b, schema) \X HostsAdmitted(v, b, schema)
             : b \in {b \in Blocks(v, schema) : IsIngress(v, b, schema)}}

-----------------------------------------------------------------------------
(* The changes of a plan. *)

\* Values and markers are decoded JSON; terraform show writes a part of the new
\* value that is unknown as null or not at all, and leaves out nothing else its
\* marker has a node for.
IsPlanned(c) ==
    /\ c = [before |-> c.before, after |-> c.after, afterUnknown |-> c.afterUnknown,
            beforeSensitive |-> c.beforeSensitive, afterSensitive |-> c.afterSensitive,
            mode |-> c.mode, action |-> c.action, type |-> c.type, previous |-> c.previous]
    /\ IsValue(c.before) /\ IsValue(c.after)
    /\ IsMarker(c.afterUnknown)
    /\ IsMarker(c.beforeSensitive) /\ IsMarker(c.afterSensitive)
    /\ \A p \in DOMAIN c.after : Marked(c.afterUnknown, p) => c.after[p] = "null"
    /\ \A p \in DOMAIN c.afterUnknown \ DOMAIN c.after : AnyMarkedBelow(c.afterUnknown, p)

\* The schemas of the resources require a type and a protocol of a rule, so that
\* a type is missing only while it is unknown, and a protocol is null only then.
GivesRequired(c) ==
    c.type \in DOMAIN Schemas =>
        LET schema == Schemas[c.type]
            path(block, name) == Append(block, KeyNamed[name])
        IN  \A block \in Blocks(c.after, schema) :
                At(c.after, block) = "map" =>
                    /\ schema.type # NoName /\ Field(c.after, block, schema.type) = "null" =>
                         Marked(c.afterUnknown, path(block, schema.type))
                    /\ Lookup(c.after, path(block, schema.proto)) = {"null"} =>
                         Marked(c.afterUnknown, path(block, schema.proto))

\* The protocol, the ports and the type of an old rule can be read, its protocol
\* is no block, its ports are in order, and if it is for ICMP it is for all of it.
PlainRule(c, schema, block) ==
    LET field(name) == Field(c.before, block, name)
        proto == Protocol[field(schema.proto)]
        from == field(schema.from)
        to == field(schema.to)
    IN  /\ \A f \in {schema.type, schema.proto, schema.from, schema.to} \ {NoName} :
             ~TouchesSensitive(c, Append(block, KeyNamed[f]))
        /\ field(schema.proto) \notin Containers
        /\ Given(from) /\ Given(to) /\ proto # "all" => Number[from] <= Number[to]
        /\ proto \in Icmp => ~Given(from) /\ ~Given(to)

=============================================================================
