------------------------------- MODULE Network -------------------------------
(***************************************************************************)
(* The predicate widens_network_access of internal/predicates/network.go:   *)
(* the permissions a security group or a rule of one grants are rebuilt     *)
(* from the two sides of a diff, and those after the change have to be      *)
(* covered by those before.                                                 *)
(*                                                                          *)
(* An address is a sequence of bits, and a prefix an address of which the   *)
(* first bits count.                                                        *)
(***************************************************************************)
EXTENDS Predicates

CONSTANTS
    Protocol,       \* fmt.Sprint, then normProto: a function on the scalars
    Cidr,           \* the strings ParsePrefix or ParseAddr accepts, as prefixes
    Width4, Width6, \* the bits of an address of each family
    PrivateRanges,  \* RFC 1918 and ULA, as prefixes
    MaxPort         \* 65535

Width(v4) == IF v4 THEN Width4 ELSE Width6
Address(v4) == [1 .. Width(v4) -> {0, 1}]
Prefixes ==
    UNION {[v4 : {f}, addr : Address(f), bits : 0 .. Width(f)] : f \in BOOLEAN}

NoPrefix == [v4 |-> FALSE, addr |-> << >>, bits |-> 0]  \* the zero netip.Prefix

ASSUME NetworkIsTyped ==
    /\ Width4 \in Nat /\ Width6 \in Nat /\ MaxPort \in Nat
    /\ DOMAIN Cidr \subseteq Strings \ {EmptyString} /\ \A s \in DOMAIN Cidr : Cidr[s] \in Prefixes
    /\ PrivateRanges \subseteq Prefixes
    /\ Strings \cup Atoms \cup Containers \cup {"null"} \subseteq DOMAIN Protocol
    /\ \A x \in DOMAIN Number : Number[x] <= MaxPort

\* No two private ranges are the halves of one range.
ASSUME PrivateRangesAreApart ==
    \A p, q \in PrivateRanges :
        p.v4 = q.v4 /\ p.bits = q.bits /\ (\A n \in 1 .. p.bits - 1 : p.addr[n] = q.addr[n])
          => \A n \in 1 .. p.bits : p.addr[n] = q.addr[n]

Masked(p) == [p EXCEPT !.addr = [n \in DOMAIN p.addr |-> IF n <= p.bits THEN p.addr[n] ELSE 0]]

PrefixContains(outer, inner) ==
    /\ outer.v4 = inner.v4
    /\ outer.bits <= inner.bits
    /\ \A n \in 1 .. outer.bits : outer.addr[n] = inner.addr[n]

-----------------------------------------------------------------------------
(* sgSchemas: where each resource type keeps the fields of its ingress.     *)

NoSchema ==
    [blocks |-> NoName, type |-> NoName, proto |-> "protocol",
     from |-> "from_port", to |-> "to_port",
     cidrLists |-> {}, cidrs |-> {}, groupLists |-> {}, groups |-> {},
     prefixLists |-> {}, prefix |-> {}, self |-> {}]

Schemas ==
    [aws_security_group |->
        [NoSchema EXCEPT !.blocks = "ingress",
                         !.cidrLists = {"cidr_blocks", "ipv6_cidr_blocks"},
                         !.groupLists = {"security_groups"},
                         !.prefixLists = {"prefix_list_ids"}, !.self = {"self"}],
     aws_security_group_rule |->
        [NoSchema EXCEPT !.type = "type",
                         !.cidrLists = {"cidr_blocks", "ipv6_cidr_blocks"},
                         !.groups = {"source_security_group_id"},
                         !.prefixLists = {"prefix_list_ids"}, !.self = {"self"}],
     aws_vpc_security_group_ingress_rule |->
        [NoSchema EXCEPT !.proto = "ip_protocol",
                         !.cidrs = {"cidr_ipv4", "cidr_ipv6"},
                         !.groups = {"referenced_security_group_id"},
                         !.prefix = {"prefix_list_id"}]]

-----------------------------------------------------------------------------
(* reader: one side of a change, leaf by leaf.  What exists and what is     *)
(* unknown comes from the diff, values from RawBefore and RawAfter.         *)

Reader(c, after) == [change |-> c, after |-> after, diff |-> Diff(c)]

Present(e, after) == IF after THEN e.after # Absent ELSE e.before # Absent

KeyNamed ==
    [name \in {Names[n] : n \in DOMAIN Names} |-> Key(CHOOSE n \in DOMAIN Names : Names[n] = name)]

FieldsOf(schema) ==
    ({schema.blocks, schema.type} \ {NoName}) \cup {schema.proto, schema.from, schema.to}
      \cup schema.cidrLists \cup schema.cidrs \cup schema.groupLists \cup schema.groups
      \cup schema.prefixLists \cup schema.prefix \cup schema.self

ASSUME FieldsAreNamed ==
    \A type \in DOMAIN Schemas : FieldsOf(Schemas[type]) \subseteq DOMAIN KeyNamed

\* scalar is absent if there is no leaf, unknownValue if Read has nothing to
\* return, and otherwise known.
HasLeaf(r, path) == path \in DOMAIN r.diff /\ Present(r.diff[path], r.after)
Read(r, path) ==
    IF ~HasLeaf(r, path) THEN {}
    ELSE IF ~r.after THEN RawBefore(r.change, path)
    ELSE IF r.diff[path].unknown THEN {} ELSE RawAfter(r.change, path)
Unreadable(r, path) == HasLeaf(r, path) /\ Read(r, path) = {}

IsUnknown(r, path) == r.after /\ path \in DOMAIN r.diff /\ r.diff[path].unknown

\* The list indices right below path.
Indices(r, path) ==
    {q[Len(path) + 1] : q \in
        {p \in DOMAIN r.diff : Len(p) > Len(path) /\ Covers(path, p)
                                 /\ Present(r.diff[p], r.after)}}
      \cap {s \in Segments : s.index}

-----------------------------------------------------------------------------
(* Sources of a block. *)

KnownSource(kind) == [kind |-> kind, prefix |-> NoPrefix, id |-> NoName, unknown |-> FALSE]
UnknownSource(kind) == [KnownSource(kind) EXCEPT !.unknown = TRUE]

NewSource(kind, s) ==
    IF kind # "cidr" THEN [KnownSource(kind) EXCEPT !.id = s]
    ELSE IF s \in DOMAIN Cidr THEN [KnownSource(kind) EXCEPT !.prefix = Masked(Cidr[s])]
    ELSE [UnknownSource(kind) EXCEPT !.id = s]

\* ScalarSources that takes what it cannot read for absent.
ReadableSources(r, path, kind) ==
    {NewSource(kind, s) : s \in Read(r, path) \cap (Strings \ {EmptyString})}

ScalarSources(r, path, kind) ==
    {NewSource(kind, s) : s \in Read(r, path) \cap (Strings \ {EmptyString})}
      \cup {UnknownSource(k) : k \in {kk \in {kind} : Unreadable(r, path)}}

ListSources(r, path, kind) ==
    IF IsUnknown(r, path) THEN {UnknownSource(kind)}
    ELSE UNION {ScalarSources(r, Append(path, i), kind) : i \in Indices(r, path)}

\* Only the JSON boolean is self.
SelfSources(r, path) ==
    {KnownSource("self") : x \in {y \in Read(r, path) \cap Atoms \cap DOMAIN Boolean : Boolean[y]}}
      \cup {UnknownSource(k) : k \in {kk \in {"self"} : Unreadable(r, path)}}

Sources(r, schema, block) ==
    LET at(name) == Append(block, KeyNamed[name])
        lists(names, kind) == UNION {ListSources(r, at(f), kind) : f \in names}
        scalars(names, kind) == UNION {ScalarSources(r, at(f), kind) : f \in names}
    IN  lists(schema.cidrLists, "cidr") \cup scalars(schema.cidrs, "cidr")
          \cup lists(schema.groupLists, "group") \cup scalars(schema.groups, "group")
          \cup lists(schema.prefixLists, "prefix list") \cup scalars(schema.prefix, "prefix list")
          \cup UNION {SelfSources(r, at(f)) : f \in schema.self}

-----------------------------------------------------------------------------
(* Permissions: a protocol, a port range and a source. *)

ProtocolAt(r, path) ==
    IF Read(r, path) = {} THEN "all" ELSE Protocol[CHOOSE x \in Read(r, path) : TRUE]

\* A port that cannot be read, or is negative, is the end of the full range.
PortAt(r, path, end) ==
    LET ports == {Number[x] : x \in Read(r, path) \cap DOMAIN Number} \cap Nat
    IN  IF ports = {} THEN end ELSE CHOOSE n \in ports : TRUE

\* PortRange that leaves a range the wrong way round.
PortRangeAsWritten(proto, from, to) ==
    IF proto = "all" THEN <<0, MaxPort>> ELSE <<from, to>>

\* Full for all protocols, and instead of a range that is the wrong way round.
PortRange(proto, from, to) ==
    IF proto = "all" \/ from > to THEN <<0, MaxPort>> ELSE <<from, to>>

Permission(where, proto, range, src) ==
    [where |-> where, proto |-> proto, from |-> range[1], to |-> range[2], src |-> src]

UnknownPerm(where) == Permission(where, "all", <<0, MaxPort>>, UnknownSource("cidr"))

\* A rule whose type is known and not ingress, or absent.
IsEgress(r, path) == ~HasLeaf(r, path) \/ ~(Read(r, path) \subseteq {"ingress"})

BlockPerms(r, schema, block) ==
    LET at(name) == Append(block, KeyNamed[name])
        proto == ProtocolAt(r, at(schema.proto))
        range == PortRange(proto, PortAt(r, at(schema.from), 0), PortAt(r, at(schema.to), MaxPort))
    IN  IF schema.type # NoName /\ IsEgress(r, at(schema.type)) THEN {}
        ELSE {Permission(block, proto, range, src) : src \in Sources(r, schema, block)}

\* Perms that looks for unknown blocks one by one only.
PermsOfBlocks(r, schema) ==
    IF schema.blocks = NoName THEN BlockPerms(r, schema, << >>)
    ELSE LET root == <<KeyNamed[schema.blocks]>>
         IN  UNION {IF IsUnknown(r, Append(root, i)) THEN {UnknownPerm(Append(root, i))}
                    ELSE BlockPerms(r, schema, Append(root, i)) : i \in Indices(r, root)}

Perms(r, schema) ==
    IF schema.blocks = NoName THEN BlockPerms(r, schema, << >>)
    ELSE LET root == <<KeyNamed[schema.blocks]>>
         IN  IF IsUnknown(r, root) THEN {UnknownPerm(root)}
             ELSE UNION {IF IsUnknown(r, Append(root, i)) THEN {UnknownPerm(Append(root, i))}
                         ELSE BlockPerms(r, schema, Append(root, i)) : i \in Indices(r, root)}

-----------------------------------------------------------------------------
(* The predicate. *)

\* Public where a prefix that meets private space is private.
PublicUnlessOverlapping(src) ==
    /\ src.kind = "cidr"
    /\ src.unknown \/ ~\E p \in PrivateRanges :
          PrefixContains(p, src.prefix) \/ PrefixContains(src.prefix, p)

Public(src) ==
    /\ src.kind = "cidr"
    /\ src.unknown \/ ~\E p \in PrivateRanges : PrefixContains(p, src.prefix)

Everything(src) == src.kind = "cidr" /\ ~src.unknown /\ src.prefix.bits = 0

SourceCovers(b, s) ==
    /\ ~b.unknown /\ ~s.unknown
    /\ IF Everything(b) THEN s.kind # "cidr" \/ s.prefix.v4 = b.prefix.v4
       ELSE /\ s.kind = b.kind
            /\ CASE s.kind = "cidr" -> PrefixContains(b.prefix, s.prefix)
                 [] s.kind = "self" -> TRUE
                 [] OTHER -> s.id = b.id

\* CoveredBy where it is enough that the port ranges meet.
CoveredByOverlap(p, before) ==
    \E b \in before :
        /\ b.proto = "all" \/ (b.proto = p.proto /\ b.from <= p.to /\ p.from <= b.to)
        /\ SourceCovers(b.src, p.src)

CoveredBy(p, before) ==
    \E b \in before :
        /\ b.proto = "all" \/ (b.proto = p.proto /\ b.from <= p.from /\ p.to <= b.to)
        /\ SourceCovers(b.src, p.src)

WidensNetworkAccess(c) ==
    IF c.type \notin DOMAIN Schemas THEN {}
    ELSE LET schema == Schemas[c.type]
             after == Perms(Reader(c, TRUE), schema)
             before == Perms(Reader(c, FALSE), schema)
         IN  CASE c.action = "create" -> {p \in after : Public(p.src)}
               [] c.action \in {"update", "replace"} -> {p \in after : ~CoveredBy(p, before)}
               [] OTHER -> {}

=============================================================================
