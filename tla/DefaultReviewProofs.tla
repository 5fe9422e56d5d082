------------------------- MODULE DefaultReviewProofs -------------------------
(***************************************************************************)
(* Proofs about the command with its built-in rules, for every plan: no     *)
(* change is reported as less severe than its values call for.  What a      *)
(* predicate finds is taken from the proofs about calls of predicates, and  *)
(* what the command prints of what is found from those about the command.   *)
(***************************************************************************)
EXTENDS DefaultReview, TfreviewProofs

-----------------------------------------------------------------------------
(* The predicates. *)

\* The values of change c oblige the predicate to find something.
Owes(name, c) ==
    \/ name = "disables_encryption" /\ (Turned(c, EncryptionFlags, TurnsOff) \/ LosesKey(c))
    \/ name = "removes_deletion_protection"
         /\ (Turned(c, DeletionProtection, TurnsOff) \/ Turned(c, {"force_destroy"}, TurnsOn))
    \/ name = "reduces_backup_retention"
         /\ \/ Turned(c, Retention, GetsLess) \/ Turned(c, SkippedBackups, TurnsOn)
            \/ StopsRecovery(c)
    \/ name = "changes_sensitive_attribute"
         /\ c.mode # "data" /\ c.action \in Rewrites /\ WritesSecret(c, c.action)
    \/ name = "widens_network_access"
         /\ c.action \in {"create", "update", "replace"} /\ Widened(c, c.action)

\* A call of a predicate that does not find what it owes, if there is one.
FailingCall ==
    CHOOSE w \in [name : Predicates, change : Occurring] :
        Owes(w.name, w.change) /\ Findings(w.name, w.change) = {}

N == INSTANCE PredicateCallProofs WITH
        Calls <- {Argument(c) : c \in Occurring},
        change <- Argument(FailingCall.change),
        called <- FailingCall.name,
        found <- Findings(FailingCall.name, FailingCall.change)

\* The proofs about calls speak of trees as the plans here do,
LEMMA SameTrees ==
    /\ \A v, p : N!At(v, p) = At(v, p)
    /\ \A m, p : N!Marked(m, p) <=> Marked(m, p)
    /\ \A m, p : N!AnyMarkedBelow(m, p) <=> AnyMarkedBelow(m, p)
    /\ \A c, p : N!TouchesSensitive(c, p) <=> TouchesSensitive(c, p)
    /\ \A v, p : N!Lookup(v, p) = Lookup(v, p)
    /\ \A p : N!LastKey(p) = LastKey(p)
    /\ \A p : N!IsRecovery(p) <=> IsRecovery(p)
  <1>1. \A v, p : N!At(v, p) = At(v, p) /\ N!Lookup(v, p) = Lookup(v, p)
    BY DEF N!At, At, N!Lookup, Lookup
  <1>2. \A m, p : N!Marked(m, p) <=> Marked(m, p)
    BY DEF N!Marked, Marked, N!StopsAt, StopsAt, N!Upto, Upto
  <1>3. \A m, p : N!AnyMarkedBelow(m, p) <=> AnyMarkedBelow(m, p)
    BY DEF N!AnyMarkedBelow, AnyMarkedBelow, N!Descend, Descend, N!Covers, Covers,
           N!Upto, Upto, N!Flags, Flags
  <1>4. \A c, p : N!TouchesSensitive(c, p) <=> TouchesSensitive(c, p)
    BY <1>2, <1>3 DEF N!TouchesSensitive, TouchesSensitive
  <1>5. \A p : N!LastKey(p) = LastKey(p) /\ (N!IsRecovery(p) <=> IsRecovery(p))
    BY DEF N!LastKey, LastKey, N!IsRecovery, IsRecovery, N!NameOf, NameOf, N!NoName, NoName
  <1> QED
    BY <1>1, <1>2, <1>3, <1>4, <1>5

\* of transitions,
LEMMA SameTransitions ==
    /\ \A x, y : N!TurnsOff(x, y) <=> TurnsOff(x, y)
    /\ \A x, y : N!TurnsOn(x, y) <=> TurnsOn(x, y)
    /\ \A x, y : N!GetsLess(x, y) <=> GetsLess(x, y)
    /\ N!EncryptionFlags = EncryptionFlags /\ N!KmsKeys = KmsKeys
    /\ N!DeletionProtection = DeletionProtection
    /\ N!Retention = Retention /\ N!SkippedBackups = SkippedBackups
  BY DEF N!TurnsOff, TurnsOff, N!TurnsOn, TurnsOn, N!GetsLess, GetsLess,
         N!EncryptionFlags, EncryptionFlags, N!KmsKeys, KmsKeys,
         N!DeletionProtection, DeletionProtection, N!Retention, Retention,
         N!SkippedBackups, SkippedBackups

\* and of traffic.
LEMMA SameTraffic ==
    /\ N!Schemas = Schemas /\ N!NoName = NoName /\ N!KeyNamed = KeyNamed /\ N!IPs = IPs
    /\ \A v, block, name : N!Field(v, block, name) = Field(v, block, name)
    /\ \A v, schema : N!Blocks(v, schema) = Blocks(v, schema)
    /\ \A v, schema : N!TrafficIn(v, schema) = TrafficIn(v, schema)
    /\ \A a, p : N!InPrefix(a, p) <=> InPrefix(a, p)
    /\ \A c, schema, block : N!PlainRule(c, schema, block) <=> PlainRule(c, schema, block)
  <1>1. /\ N!Schemas = Schemas /\ N!NoName = NoName /\ N!KeyNamed = KeyNamed /\ N!IPs = IPs
        /\ N!Icmp = Icmp /\ N!Containers = Containers
    BY DEF N!Schemas, Schemas, N!NoSchema, NoSchema, N!NoName, NoName, N!KeyNamed, KeyNamed,
           N!Key, Key, N!IPs, IPs, N!Address, Address, N!Width, Width, N!Icmp, Icmp,
           N!Containers, Containers
  <1>2. \A a, p : N!InPrefix(a, p) <=> InPrefix(a, p)
    BY DEF N!InPrefix, InPrefix
  <1>3. \A v, block, name : N!Field(v, block, name) = Field(v, block, name)
    BY <1>1, SameTrees DEF N!Field, Field
  <1>4. \A v, schema : N!Blocks(v, schema) = Blocks(v, schema)
    BY <1>1, SameTrees DEF N!Blocks, Blocks, N!Items, Items, N!Children, Children,
                           N!Covers, Covers, N!Upto, Upto
  <1>5. \A v, schema : N!TrafficIn(v, schema) = TrafficIn(v, schema)
    BY DEF N!TrafficIn, TrafficIn, N!Blocks, Blocks, N!MessagesOf, MessagesOf,
           N!HostsAdmitted, HostsAdmitted, N!IsIngress, IsIngress, N!Field, Field, N!At, At,
           N!Items, Items, N!Children, Children, N!KeyNamed, KeyNamed, N!Key, Key,
           N!NoName, NoName, N!Covers, Covers, N!Upto, Upto, N!Messages, Messages,
           N!Protocols, Protocols, N!Icmp, Icmp, N!Within, Within, N!Given, Given,
           N!Elements, Elements, N!Fields, Fields, N!Members, Members, N!Hosts, Hosts,
           N!IPs, IPs, N!Address, Address, N!Width, Width, N!HostsIn, HostsIn,
           N!InPrefix, InPrefix
  <1>6. \A c, schema, block : N!PlainRule(c, schema, block) <=> PlainRule(c, schema, block)
    BY <1>1, <1>3, SameTrees DEF N!PlainRule, PlainRule, N!Given, Given
  <1> QED
    BY <1>1, <1>2, <1>3, <1>4, <1>5, <1>6

\* What the proofs about calls rely on holds of the changes of the plans.
LEMMA CallsAreGiven ==
    /\ N!ValuesAreDisjoint /\ N!LiteralsAreNoPlaceholders
    /\ N!NamesAreDistinct /\ N!ConversionsAreTyped
    /\ N!NetworkIsTyped /\ N!PrivateRangesAreApart /\ N!FieldsAreNamed /\ N!SeveralProtocols
    /\ N!CallsAreChanges /\ N!RequiredFieldsAreGiven
  <1>1. N!ValuesAreDisjoint /\ N!LiteralsAreNoPlaceholders
    BY ValuesAreDisjoint, LiteralsAreNoPlaceholders
       DEF N!ValuesAreDisjoint, N!LiteralsAreNoPlaceholders, N!Containers, Containers,
           N!Flags, Flags, N!Placeholders, Placeholders, N!Absent, Absent,
           N!KnownAfterApply, KnownAfterApply, N!SensitiveValue, SensitiveValue
  <1>2. N!NamesAreDistinct /\ N!ConversionsAreTyped
    BY NamesAreDistinct, ConversionsAreTyped DEF N!NamesAreDistinct, N!ConversionsAreTyped
  <1>3. N!NetworkIsTyped /\ N!PrivateRangesAreApart
    BY NetworkIsTyped, PrivateRangesAreApart
       DEF N!NetworkIsTyped, N!PrivateRangesAreApart, N!Prefixes, Prefixes, N!Address, Address,
           N!Width, Width, N!Containers, Containers
  <1>4. N!FieldsAreNamed
    BY FieldsAreNamed, SameTraffic DEF N!FieldsAreNamed, N!FieldsOf, FieldsOf
  <1>5. N!SeveralProtocols
    BY SeveralProtocols DEF N!SeveralProtocols, N!Protocols, Protocols
  <1>6. \A c : N!IsPlanned(c) <=> IsPlanned(c)
    <2>1. \A v : N!IsValue(v) <=> IsValue(v)
      BY DEF N!IsValue, IsValue, N!Tree, Tree, N!Segments, Segments,
             N!Upto, Upto, N!Containers, Containers, N!IsFiniteSet, IsFiniteSet
    <2>2. \A v : N!IsMarker(v) <=> IsMarker(v)
      BY DEF N!IsMarker, IsMarker, N!Tree, Tree, N!Segments, Segments,
             N!Upto, Upto, N!Containers, Containers, N!Flags, Flags,
             N!IsFiniteSet, IsFiniteSet
    <2> QED
      BY <2>1, <2>2, SameTrees DEF N!IsPlanned, IsPlanned
  <1>7. \A c : N!GivesRequired(c) <=> GivesRequired(c)
    BY SameTrees, SameTraffic DEF N!GivesRequired, GivesRequired
  <1>8. N!CallsAreChanges /\ N!RequiredFieldsAreGiven
    BY <1>6, <1>7, ChangesArePlanned DEF N!CallsAreChanges, N!RequiredFieldsAreGiven
  <1> QED
    BY <1>1, <1>2, <1>3, <1>4, <1>5, <1>8

\* The predicates proved about are those of the command, from the diff
LEMMA SameDiffs ==
    /\ \A c : N!Diff(c) = Diff(c)
    /\ \A c, p : N!RawBefore(c, p) = RawBefore(c, p)
    /\ \A c, p : N!RawAfter(c, p) = RawAfter(c, p)
  <1>1. \A c : N!Diff(c) = Diff(c)
    <2>1. \A v, unk, p : N!Below(v, unk, p) = Below(v, unk, p)
      BY DEF N!Below, Below, N!Flagged, Flagged, N!Descend, Descend, N!Children, Children,
             N!Covers, Covers, N!Upto, Upto, N!At, At, N!Flags, Flags
    <2>2. \A v, unk : N!Visited(v, unk) = Visited(v, unk)
      BY <2>1 DEF N!Visited, Visited, N!Upto, Upto
    <2>3. \A m, p : N!Flagged(m, p) <=> Flagged(m, p)
      BY DEF N!Flagged, Flagged, N!Descend, Descend, N!Upto, Upto, N!Flags, Flags
    <2>4. \A v, unk, p : N!IsLeaf(v, unk, p) <=> IsLeaf(v, unk, p)
      BY <2>1, <2>3, SameTrees DEF N!IsLeaf, IsLeaf, N!Containers, Containers
    <2>5. \A v, unk, sens, p : N!Leaf(v, unk, sens, p) = Leaf(v, unk, sens, p)
      BY <2>3, SameTrees DEF N!Leaf, Leaf
    <2>6. \A v, unk, sens : N!Flatten(v, unk, sens) = Flatten(v, unk, sens)
      BY <2>2, <2>4, <2>5 DEF N!Flatten, Flatten
    <2>7. \A c : N!BeforeLeaves(c) = BeforeLeaves(c) /\ N!AfterLeaves(c) = AfterLeaves(c)
      BY <2>6 DEF N!BeforeLeaves, BeforeLeaves, N!AfterLeaves, AfterLeaves, N!NoMarks, NoMarks
    <2> DEFINE Of(old, new) ==
                 LET secrets == SecretsIn(old) \cup SecretsIn(new)
                     is(leaves, p, property) == p \in DOMAIN leaves /\ leaves[p][property]
                     marked(p) == is(old, p, "sensitive") \/ is(new, p, "sensitive")
                     repeats(leaves, p) == p \in DOMAIN leaves /\ leaves[p].raw \in secrets
                     null(leaves, p) == p \in DOMAIN leaves /\ IsNull(leaves[p])
                 IN  [p \in DOMAIN old \cup DOMAIN new |->
                        [before          |-> Side(old, p, marked(p) \/ repeats(old, p)),
                         after           |-> Side(new, p, marked(p) \/ repeats(new, p)),
                         changed         |-> \/ p \notin DOMAIN old \cap DOMAIN new
                                             \/ new[p].unknown
                                             \/ old[p].raw # new[p].raw,
                         unknown         |-> is(new, p, "unknown"),
                         beforeSensitive |-> is(old, p, "sensitive"),
                         afterSensitive  |-> is(new, p, "sensitive"),
                         beforeNull      |-> null(old, p),
                         afterNull       |-> null(new, p)]]
    <2>8. \A c : Diff(c) = Of(BeforeLeaves(c), AfterLeaves(c))
      BY DEF Diff
    <2>9. \A c : N!Diff(c) = Of(N!BeforeLeaves(c), N!AfterLeaves(c))
      BY Zenon DEF N!Diff, N!SecretsIn, SecretsIn, N!IsNull, IsNull, N!Side, Side, N!Hide, Hide,
             N!Render, Render, N!Literal, Literal, N!Absent, Absent,
             N!KnownAfterApply, KnownAfterApply, N!SensitiveValue, SensitiveValue
    <2> HIDE DEF Of
    <2> QED
      BY <2>7, <2>8, <2>9
  <1>2. \A c, p : N!RawBefore(c, p) = RawBefore(c, p)
    BY SameTrees DEF N!RawBefore, RawBefore
  <1>3. \A c, p : N!RawAfter(c, p) = RawAfter(c, p)
    BY SameTrees DEF N!RawAfter, RawAfter
  <1> QED
    BY <1>1, <1>2, <1>3

\* down to the permissions of a resource
LEMMA SamePermissions ==
    /\ \A c, after : N!Reader(c, after) = Reader(c, after)
    /\ \A r, schema : N!Perms(r, schema) = Perms(r, schema)
    /\ \A src : N!Public(src) <=> Public(src)
    /\ \A p, before : N!CoveredBy(p, before) <=> CoveredBy(p, before)
  <1>1. \A c, after : N!Reader(c, after) = Reader(c, after)
    BY SameDiffs DEF N!Reader, Reader
  <1>2. \A r, schema : N!Perms(r, schema) = Perms(r, schema)
    <2>1. \A r, p : N!HasLeaf(r, p) <=> HasLeaf(r, p)
      BY DEF N!HasLeaf, HasLeaf, N!Present, Present, N!Absent, Absent
    <2>2. \A r, p : N!Read(r, p) = Read(r, p)
      BY <2>1, SameDiffs DEF N!Read, Read
    <2>3. \A r, p : N!IsUnknown(r, p) <=> IsUnknown(r, p)
      BY DEF N!IsUnknown, IsUnknown
    <2>4. \A r, p : N!Unreadable(r, p) <=> Unreadable(r, p)
      BY <2>1, <2>2 DEF N!Unreadable, Unreadable
    <2>5. \A r, p : N!Indices(r, p) = Indices(r, p)
      BY DEF N!Indices, Indices, N!Present, Present, N!Absent, Absent,
             N!Covers, Covers, N!Upto, Upto, N!Segments, Segments
    <2>6. \A kind, s : N!NewSource(kind, s) = NewSource(kind, s)
      BY DEF N!NewSource, NewSource, N!KnownSource, KnownSource, N!UnknownSource, UnknownSource,
             N!Masked, Masked, N!NoPrefix, NoPrefix, N!NoName, NoName
    <2>7. \A kind : /\ N!KnownSource(kind) = KnownSource(kind)
                    /\ N!UnknownSource(kind) = UnknownSource(kind)
      BY DEF N!KnownSource, KnownSource, N!UnknownSource, UnknownSource,
             N!NoPrefix, NoPrefix, N!NoName, NoName
    <2>8. \A r, p, kind : N!ScalarSources(r, p, kind) = ScalarSources(r, p, kind)
      BY <2>2, <2>4, <2>6, <2>7, Zenon DEF N!ScalarSources, ScalarSources
    <2>9. \A r, p, kind : N!ListSources(r, p, kind) = ListSources(r, p, kind)
      BY <2>3, <2>5, <2>7, <2>8, Zenon DEF N!ListSources, ListSources
    <2>10. \A r, p : N!SelfSources(r, p) = SelfSources(r, p)
      BY <2>2, <2>4, <2>7, Zenon DEF N!SelfSources, SelfSources
    <2>11. \A r, schema, block : N!Sources(r, schema, block) = Sources(r, schema, block)
      <3> SUFFICES ASSUME NEW r, NEW schema, NEW block
                   PROVE  N!Sources(r, schema, block) = Sources(r, schema, block)
        OBVIOUS
      <3> DEFINE Lists(names, kind) ==
                   UNION {ListSources(r, Append(block, KeyNamed[f]), kind) : f \in names}
                 Scalars(names, kind) ==
                   UNION {ScalarSources(r, Append(block, KeyNamed[f]), kind) : f \in names}
                 Selves(names) == UNION {SelfSources(r, Append(block, KeyNamed[f])) : f \in names}
                 Union(lists(_, _), scalars(_, _), selves(_)) ==
                   lists(schema.cidrLists, "cidr") \cup scalars(schema.cidrs, "cidr")
                     \cup lists(schema.groupLists, "group") \cup scalars(schema.groups, "group")
                     \cup lists(schema.prefixLists, "prefix list")
                     \cup scalars(schema.prefix, "prefix list") \cup selves(schema.self)
                 NLists(names, kind) ==
                   UNION {N!ListSources(r, Append(block, N!KeyNamed[f]), kind) : f \in names}
                 NScalars(names, kind) ==
                   UNION {N!ScalarSources(r, Append(block, N!KeyNamed[f]), kind) : f \in names}
                 NSelves(names) ==
                   UNION {N!SelfSources(r, Append(block, N!KeyNamed[f])) : f \in names}
      <3>1. \A names, kind : /\ NLists(names, kind) = Lists(names, kind)
                             /\ NScalars(names, kind) = Scalars(names, kind)
                             /\ NSelves(names) = Selves(names)
        BY <2>8, <2>9, <2>10, SameTraffic
      <3>2. Sources(r, schema, block) = Union(Lists, Scalars, Selves)
        BY Zenon DEF Sources
      <3>3. N!Sources(r, schema, block) = Union(NLists, NScalars, NSelves)
        BY Zenon DEF N!Sources
      <3> HIDE DEF Lists, Scalars, Selves, NLists, NScalars, NSelves
      <3> QED
        BY <3>1, <3>2, <3>3
    <2>12. \A r, p, end : /\ N!ProtocolAt(r, p) = ProtocolAt(r, p)
                          /\ N!PortAt(r, p, end) = PortAt(r, p, end)
      <3> DEFINE ProtocolIn(S) == IF S = {} THEN "all" ELSE Protocol[CHOOSE x \in S : TRUE]
                 PortIn(S, end) ==
                   LET ports == {Number[x] : x \in S \cap DOMAIN Number} \cap Nat
                   IN  IF ports = {} THEN end ELSE CHOOSE n \in ports : TRUE
      <3>1. \A r, p, end : /\ ProtocolAt(r, p) = ProtocolIn(Read(r, p))
                           /\ PortAt(r, p, end) = PortIn(Read(r, p), end)
        BY Zenon DEF ProtocolAt, PortAt
      <3>2. \A r, p, end : /\ N!ProtocolAt(r, p) = ProtocolIn(N!Read(r, p))
                           /\ N!PortAt(r, p, end) = PortIn(N!Read(r, p), end)
        BY Zenon DEF N!ProtocolAt, N!PortAt
      <3> HIDE DEF ProtocolIn, PortIn
      <3> QED
        BY <2>2, <3>1, <3>2
    <2>13. \A proto, from, to : N!PortRange(proto, from, to) = PortRange(proto, from, to)
      BY DEF N!PortRange, PortRange
    <2>14. \A where, proto, range, src :
             N!Permission(where, proto, range, src) = Permission(where, proto, range, src)
      BY DEF N!Permission, Permission
    <2>15. \A r, p : N!IsEgress(r, p) <=> IsEgress(r, p)
      BY <2>1, <2>2, Zenon DEF N!IsEgress, IsEgress
    <2>16. \A r, schema, block : N!BlockPerms(r, schema, block) = BlockPerms(r, schema, block)
      BY <2>11, <2>12, <2>13, <2>14, <2>15, SameTraffic DEF N!BlockPerms, BlockPerms
    <2>17. \A where : N!UnknownPerm(where) = UnknownPerm(where)
      BY <2>7, <2>14, Zenon DEF N!UnknownPerm, UnknownPerm
    <2> QED
      BY <2>3, <2>5, <2>16, <2>17, SameTraffic, Zenon DEF N!Perms, Perms
  <1>3. \A p, before : N!CoveredBy(p, before) <=> CoveredBy(p, before)
    BY DEF N!CoveredBy, CoveredBy, N!SourceCovers, SourceCovers, N!Everything, Everything,
           N!PrefixContains, PrefixContains
  <1>4. \A src : N!Public(src) <=> Public(src)
    BY DEF N!Public, Public, N!PrefixContains, PrefixContains
  <1> QED
    BY <1>1, <1>2, <1>3, <1>4

\* and what each predicate answers.
LEMMA SameAnswers ==
    /\ \A c : N!WasMoved(c) = WasMoved(c)
    /\ \A c : N!ChangesSensitiveAttribute(c) = ChangesSensitiveAttribute(c)
    /\ \A c : N!DisablesEncryption(c) = DisablesEncryption(c)
    /\ \A c : N!RemovesDeletionProtection(c) = RemovesDeletionProtection(c)
    /\ \A c : N!ReducesBackupRetention(c) = ReducesBackupRetention(c)
    /\ \A c : N!WidensNetworkAccess(c) = WidensNetworkAccess(c)
  <1>1. \A c : N!WasMoved(c) = WasMoved(c)
    BY DEF N!WasMoved, WasMoved, N!NoName, NoName, N!Found, Found
  <1>2. \A d, names : N!ChangedAt(d, names) = ChangedAt(d, names)
    BY DEF N!ChangedAt, ChangedAt, N!LastKey, LastKey, N!NameOf, NameOf, N!NoName, NoName
  <1>3. \A c : N!ChangesSensitiveAttribute(c) = ChangesSensitiveAttribute(c)
    BY SameDiffs, <1>2 DEF N!ChangesSensitiveAttribute, ChangesSensitiveAttribute,
       N!Sensitive, Sensitive, N!Rewritten, Rewritten, N!Found, Found, N!Absent, Absent
  <1>4. \A c, names, from, to : N!Flips(c, names, from, to) = Flips(c, names, from, to)
    BY SameDiffs, <1>2 DEF N!Flips, Flips, N!BoolTransition, BoolTransition
  <1>5. \A c : N!DisablesEncryption(c) = DisablesEncryption(c)
    BY SameDiffs, SameTrees, SameTransitions, <1>2, <1>4
       DEF N!DisablesEncryption, DisablesEncryption, N!Found, Found,
           N!NonEmptyBefore, NonEmptyBefore, N!EmptyAfter, EmptyAfter,
           N!BecomesAwsManaged, BecomesAwsManaged, N!Absent, Absent
  <1>6. \A c : N!RemovesDeletionProtection(c) = RemovesDeletionProtection(c)
    BY SameTransitions, <1>4
       DEF N!RemovesDeletionProtection, RemovesDeletionProtection, N!Found, Found
  <1>7. \A c : N!ReducesBackupRetention(c) = ReducesBackupRetention(c)
    BY SameDiffs, SameTrees, SameTransitions, <1>2, <1>4
       DEF N!ReducesBackupRetention, ReducesBackupRetention, N!Found, Found,
           N!Decreases, Decreases
  <1>8. \A c : N!WidensNetworkAccess(c) = WidensNetworkAccess(c)
    BY SameTraffic, SamePermissions DEF N!WidensNetworkAccess, WidensNetworkAccess
  <1> QED
    BY <1>1, <1>3, <1>5, <1>6, <1>7, <1>8

\* Whatever the values of a planned change oblige a predicate to find, it finds
\* something.
LEMMA OwedIsFound ==
    ASSUME NEW name \in Predicates, NEW c \in Occurring, Owes(name, c)
    PROVE  Findings(name, c) # {}
  <1> DEFINE w == FailingCall
             x == Argument(w.change)
  <1> SUFFICES ASSUME Findings(name, c) = {} PROVE FALSE
    OBVIOUS
  <1>1. /\ w \in [name : Predicates, change : Occurring]
        /\ Owes(w.name, w.change) /\ Findings(w.name, w.change) = {}
    <2> DEFINE Fails(u) == Owes(u.name, u.change) /\ Findings(u.name, u.change) = {}
    <2>1. \E u \in [name : Predicates, change : Occurring] : Fails(u)
      <3> DEFINE u == [name |-> name, change |-> c]
      <3>1. u \in [name : Predicates, change : Occurring] /\ u.name = name /\ u.change = c
        OBVIOUS
      <3> QED
        BY <3>1
    <2> QED
      BY <2>1, Zenon DEF FailingCall
  <1>2. N!Answered
    BY <1>1, SameAnswers DEF N!Answered, N!Answer, N!Registry, Predicates, Findings
  <1>3. /\ x.before = Old(w.change) /\ x.after = New(w.change)
        /\ x.afterUnknown = w.change.body.afterUnknown
        /\ x.beforeSensitive = w.change.body.beforeSensitive
        /\ x.afterSensitive = w.change.body.afterSensitive
        /\ x.mode = w.change.mode /\ x.action = w.change.action /\ x.type = w.change.type
    BY DEF Argument, Old, New
  <1> DEFINE e == w.change
  <1>4. \A p : N!Readable(p) <=> CanBeRead(e, p)
    BY <1>3, SameTrees DEF N!Readable, CanBeRead, TouchesSensitive
  <1> HIDE DEF w, x
  <1>5. \A p : /\ N!At(x.after, p) = At(New(e), p)
               /\ N!LastKey(p) = LastKey(p) /\ (N!IsRecovery(p) <=> IsRecovery(p))
    BY <1>3, SameTrees
  <1>6. Owes(w.name, w.change)
    BY <1>1
  <1>7. ASSUME w.name = "disables_encryption" PROVE N!Due
    <2>1. PICK p \in DOMAIN Old(e) :
            /\ CanBeRead(e, p)
            /\ N!EncryptionIsLost(p, Old(e)[p], At(New(e), p))
      <3>1. \A p : \/ LastKey(p) \in EncryptionFlags /\ TurnsOff(Old(e)[p], At(New(e), p))
                   \/ /\ LastKey(p) \in KmsKeys /\ Old(e)[p] \in Strings \ {EmptyString}
                      /\ \/ At(New(e), p) \in {"null", EmptyString} /\ At(New(e), << >>) # "null"
                         \/ At(New(e), p) \in AwsManaged /\ Old(e)[p] \notin AwsManaged
                   => N!EncryptionIsLost(p, Old(e)[p], At(New(e), p))
        BY <1>3, <1>5, SameTransitions DEF N!EncryptionIsLost, N!LosesKey, N!GoesToAws, w, x
      <3>2. Turned(e, EncryptionFlags, TurnsOff) \/ LosesKey(e)
        BY <1>6, <1>7 DEF Owes
      <3> QED
        BY <3>1, <3>2 DEF Turned, LosesKey
    <2>2. N!Turned(N!EncryptionIsLost)
      BY <1>3, <1>4, <1>5, <2>1 DEF N!Turned, w, x
    <2> QED
      BY <1>7, <2>2 DEF N!Due, w
  <1>8. ASSUME w.name = "removes_deletion_protection" PROVE N!Due
    <2>1. PICK p \in DOMAIN Old(e) :
            /\ CanBeRead(e, p)
            /\ N!ProtectionIsLost(p, Old(e)[p], At(New(e), p))
      BY <1>5, <1>6, <1>8, SameTransitions DEF Owes, Turned, N!ProtectionIsLost
    <2>2. N!Turned(N!ProtectionIsLost)
      BY <1>3, <1>4, <1>5, <2>1 DEF N!Turned, w, x
    <2> QED
      BY <1>8, <2>2 DEF N!Due, w
  <1>9. ASSUME w.name = "reduces_backup_retention" PROVE N!Due
    <2>1. PICK p \in DOMAIN Old(e) :
            /\ CanBeRead(e, p)
            /\ N!RetentionIsLost(p, Old(e)[p], At(New(e), p))
      BY <1>5, <1>6, <1>9, SameTransitions
         DEF Owes, Turned, StopsRecovery, N!RetentionIsLost
    <2>2. N!Turned(N!RetentionIsLost)
      BY <1>3, <1>4, <1>5, <2>1 DEF N!Turned, w, x
    <2> QED
      BY <1>9, <2>2 DEF N!Due, w
  <1>10. ASSUME w.name = "changes_sensitive_attribute" PROVE N!Due
    <2>1. e.mode # "data" /\ e.action \in {"update", "replace"} /\ WritesSecret(e, e.action)
      BY <1>6, <1>10 DEF Owes, Rewrites
    <2>2. N!SecretIsWritten
      BY <1>3, <2>1, SameTrees DEF WritesSecret, N!SecretIsWritten, w, x
    <2> QED
      BY <1>3, <1>10, <2>1, <2>2 DEF N!Due, w, x
  <1>11. ASSUME w.name = "widens_network_access" PROVE N!Due
    <2>1. e.action \in {"create", "update", "replace"} /\ Widened(e, e.action)
      BY <1>6, <1>11 DEF Owes
    <2>2. /\ N!Schema = Schemas[e.type] /\ N!Schemas = Schemas /\ N!IPs = IPs
          /\ \A v : N!TrafficIn(v, N!Schema) = TrafficIn(v, N!Schema)
          /\ \A v : N!Blocks(v, N!Schema) = Blocks(v, N!Schema)
      BY <1>3, SameTraffic DEF N!Schema, w, x
    <2>3. \A a : N!IsPublic(a) <=> ~\E p \in PrivateRanges : InPrefix(a, p)
      BY SameTraffic DEF N!IsPublic
    <2>4. \A block : N!IsPlain(block) <=> PlainRule(e.body, Schemas[e.type], block)
      <3>1. \A block : PlainRule(e.body, Schemas[e.type], block)
                         <=> PlainRule(x, Schemas[e.type], block)
        BY <1>3 DEF PlainRule, TouchesSensitive, Old
      <3> QED
        BY <2>2, <3>1, SameTraffic DEF N!IsPlain, w, x
    <2>5. N!AllIsAdmittedBefore
            <=> TrafficIn(New(e), Schemas[e.type]) \subseteq TrafficIn(Old(e), Schemas[e.type])
      BY <1>3, <2>2 DEF N!AllIsAdmittedBefore, w, x
    <2>6. \A actions : e.action \in actions => N!Widens(actions)
      BY <1>3, <1>11, <2>1, <2>2 DEF N!Widens, Widened, w, x
    <2>7. CASE e.action = "create"
      BY <1>3, <2>1, <2>2, <2>3, <2>6, <2>7 DEF Widened, N!Due, w, x
    <2>8. CASE e.action # "create"
      BY <1>3, <2>1, <2>2, <2>4, <2>5, <2>6, <2>8 DEF Widened, N!Due, w, x
    <2> QED
      BY <2>7, <2>8
  <1>12. N!Due
    BY <1>6, <1>7, <1>8, <1>9, <1>10, <1>11 DEF Owes
  <1> QED
    BY <1>1, <1>2, <1>12, N!DueIsFound, CallsAreGiven DEF w

-----------------------------------------------------------------------------
(* The rules. *)

Holds(name, c) == name \in DOMAIN Registry /\ c \in Registry[name]

\* A predicate a rule names holds of a planned change when it finds something.
LEMMA HoldsWhenFound ==
    ASSUME NEW name \in Predicates, NEW c \in Occurring
    PROVE  Holds(name, c) <=> Findings(name, c) # {}
  BY RegistryIsOfPredicates DEF PredicateSets, Holds

\* What rule rr asks for.
IsRule(rr, types, actions, predicate) ==
    /\ rr.types = types /\ rr.actions = {actions} /\ rr.addresses = {}
    /\ rr.predicate = predicate

\* The built-in rules, one by one,
LEMMA RulesOfDefault ==
    LET rs == DefaultFile.rules
        all(k, actions, predicate) == IsRule(rs[k], {}, actions, predicate)
    IN  /\ IsRule(rs[1], {StatefulTypes}, {"delete", "replace"}, "")
        /\ IsRule(rs[2], {DOMAIN Schemas}, {"create", "update", "replace"},
                   "widens_network_access")
        /\ all(3, Rewrites, "disables_encryption")
        /\ all(4, Rewrites, "removes_deletion_protection")
        /\ all(5, Rewrites, "reduces_backup_retention")
        /\ all(6, Rewrites, "changes_sensitive_attribute")
        /\ all(7, {"replace"}, "was_moved")
        /\ all(8, {"no-op"}, "was_moved")
        /\ all(9, {"forget"}, "")
        /\ all(10, {"create"}, "")
        /\ DOMAIN rs = 1 .. 10
  <1> DEFINE rs == DefaultFile.rules
             all(k, actions, predicate) == IsRule(rs[k], {}, actions, predicate)
  <1>1. \A id, severity, actions, predicate :
           IsRule(DefaultRule(id, severity, actions, predicate), {}, actions, predicate)
    BY DEF DefaultRule, IsRule
  <1>2. /\ IsRule(StatefulDestroy, {StatefulTypes}, {"delete", "replace"}, "")
        /\ IsRule(IngressWidened, {DOMAIN Schemas}, {"create", "update", "replace"},
                  "widens_network_access")
    BY DEF StatefulDestroy, IngressWidened, DefaultRule, IsRule
  <1>3. rs[1] = StatefulDestroy /\ rs[2] = IngressWidened /\ DOMAIN rs = 1 .. 10
    BY DEF DefaultFile
  <1>4. all(3, Rewrites, "disables_encryption")
    BY <1>1 DEF DefaultFile
  <1>5. all(4, Rewrites, "removes_deletion_protection")
    BY <1>1 DEF DefaultFile
  <1>6. all(5, Rewrites, "reduces_backup_retention")
    BY <1>1 DEF DefaultFile
  <1>7. all(6, Rewrites, "changes_sensitive_attribute")
    BY <1>1 DEF DefaultFile
  <1>8. all(7, {"replace"}, "was_moved") /\ all(8, {"no-op"}, "was_moved")
    BY <1>1 DEF DefaultFile
  <1>9. all(9, {"forget"}, "") /\ all(10, {"create"}, "")
    BY <1>1 DEF DefaultFile
  <1> HIDE DEF rs
  <1> QED
    BY <1>2, <1>3, <1>4, <1>5, <1>6, <1>7, <1>8, <1>9, Zenon DEF rs

SeverityOfRule(k) ==
    IF k \in {1, 2, 3, 7} THEN "high" ELSE IF k \in {4, 5, 6, 9} THEN "medium" ELSE "low"

\* and what each calls a change.
LEMMA SeverityOfDefault ==
    \A k \in 1 .. 10 : DefaultFile.rules[k].severity = SeverityOfRule(k)
  <1> SUFFICES ASSUME NEW k \in 1 .. 10
               PROVE  DefaultFile.rules[k].severity = SeverityOfRule(k)
    OBVIOUS
  <1> DEFINE rs == DefaultFile.rules
  <1>1. /\ rs[1].severity = "high" /\ rs[2].severity = "high" /\ rs[3].severity = "high"
        /\ rs[4].severity = "medium" /\ rs[5].severity = "medium" /\ rs[6].severity = "medium"
        /\ rs[7].severity = "high" /\ rs[8].severity = "low"
        /\ rs[9].severity = "medium" /\ rs[10].severity = "low"
    BY DEF DefaultFile, StatefulDestroy, IngressWidened, DefaultRule
  <1>2. k \in {1, 2, 3, 4, 5, 6, 7, 8, 9, 10}
    OBVIOUS
  <1> HIDE DEF rs
  <1>3. rs[k].severity = SeverityOfRule(k)
    BY <1>1, <1>2 DEF SeverityOfRule
  <1> QED
    BY <1>3 DEF rs

-----------------------------------------------------------------------------
(* Entries of the plan document under the built-in rules. *)

EntryAt(n) == input.entries[n]

\* An entry becomes a change that occurs.
LEMMA EntryOccurs ==
    ASSUME input \in Inputs, NEW n \in DOMAIN input.entries
    PROVE  /\ K!ChangeAt(n) \in Occurring
           /\ K!ChangeAt(n).mode = EntryAt(n).mode /\ K!ChangeAt(n).type = EntryAt(n).type
           /\ K!ChangeAt(n).body = EntryAt(n).body
           /\ K!ChangeAt(n).action = K!ActionOf(EntryAt(n).actions)
  <1> DEFINE e == input.entries[n]
  <1>1. K!ActionOf(e.actions) = P!MapActions(e.actions)
    BY EntryType, ActionIsMapped
  <1>2. e \in UNION {{text.entries[m] : m \in DOMAIN text.entries} : text \in Inputs}
    OBVIOUS
  <1>3. K!ChangeAt(n) = [mode |-> e.mode, action |-> P!MapActions(e.actions), type |-> e.type,
                         address |-> e.address, body |-> e.body]
    BY <1>1, Zenon DEF K!ChangeAt, K!Entry
  <1>4. K!ChangeAt(n) \in Occurring
    BY <1>2, <1>3, Zenon DEF Occurring
  <1> HIDE DEF e
  <1> QED
    BY <1>1, <1>3, <1>4 DEF e, EntryAt

\* The row of an entry is as severe as every rule that speaks of it.
LEMMA RowIsAsSevere ==
    ASSUME file = DefaultFile, NEW n
    PROVE  /\ K!RowOf(n).severity >= None
           /\ \A k \in K!Speaking(n) : K!RowOf(n).severity >= K!Level[SeverityOfRule(k)]
  <1> DEFINE S == K!Speaking(n)
             ks == K!Ascending[S]
             level(m) == K!Level[file.rules[ks[m]].severity]
             levels == {K!None} \cup {level(m) : m \in DOMAIN ks}
             top == CHOOSE l \in levels : \A l2 \in levels : l2 <= l
  <1>1. S \in SUBSET (1 .. 10) /\ 10 \in Nat
    BY RulesOfDefault DEF K!Speaking
  <1>2. EachOnce(S)
    BY <1>1, AscendingType
  <1>3. \A m \in DOMAIN ks : ks[m] \in S
    <2> HIDE DEF S
    <2> QED
      BY <1>2, SameAscending DEF EachOnce
  <1>4. \A k \in S : \E m \in DOMAIN ks : ks[m] = k
    BY <1>2, SameAscending DEF EachOnce
  <1>5. \A k \in 1 .. 10 : file.rules[k].severity = SeverityOfRule(k)
    BY SeverityOfDefault
  <1>6. \A k \in 1 .. 10 : K!Level[SeverityOfRule(k)] \in {1, 2, 3}
    BY DEF SeverityOfRule, K!Level, K!Low, K!Medium, K!High
  <1> HIDE DEF S, ks
  <1>7. levels \subseteq {0, 1, 2, 3} /\ 0 \in levels
    BY <1>1, <1>3, <1>5, <1>6 DEF K!None
  <1>8. \A k \in S : K!Level[SeverityOfRule(k)] \in levels
    BY <1>1, <1>4, <1>5
  <1>9. K!RowOf(n).severity = top
    BY Zenon DEF K!RowOf, S, ks
  <1> HIDE DEF levels
  <1>10. \E l \in levels : \A l2 \in levels : l2 <= l
    <2>1. CASE 3 \in levels
      BY <1>7, <2>1
    <2>2. CASE 3 \notin levels /\ 2 \in levels
      BY <1>7, <2>2
    <2>3. CASE {2, 3} \cap levels = {} /\ 1 \in levels
      BY <1>7, <2>3
    <2>4. CASE {1, 2, 3} \cap levels = {}
      BY <1>7, <2>4
    <2> QED
      BY <2>1, <2>2, <2>3, <2>4
  <1>11. top \in levels /\ \A l2 \in levels : l2 <= top
    BY <1>10
  <1> HIDE DEF top
  <1> QED
    BY <1>1, <1>6, <1>7, <1>8, <1>9, <1>11 DEF S, None

Speaks(k, c) == K!Says(DefaultFile.rules[k], c)

\* When each of them speaks of a change.
LEMMA RuleSpeaks ==
    ASSUME NEW c \in Occurring
    PROVE  /\ c.action \in {"delete", "replace"} /\ IsStateful(c) => Speaks(1, c)
           /\ c.action \in {"create", "update", "replace"} /\ c.type \in DOMAIN Schemas
                /\ Findings("widens_network_access", c) # {} => Speaks(2, c)
           /\ c.action \in Rewrites /\ Findings("disables_encryption", c) # {} => Speaks(3, c)
           /\ c.action \in Rewrites /\ Findings("removes_deletion_protection", c) # {}
                => Speaks(4, c)
           /\ c.action \in Rewrites /\ Findings("reduces_backup_retention", c) # {}
                => Speaks(5, c)
           /\ c.action \in Rewrites /\ Findings("changes_sensitive_attribute", c) # {}
                => Speaks(6, c)
           /\ c.action = "replace" /\ Findings("was_moved", c) # {} => Speaks(7, c)
           /\ c.action = "no-op" /\ Findings("was_moved", c) # {} => Speaks(8, c)
           /\ c.action = "forget" => Speaks(9, c)
           /\ c.action = "create" => Speaks(10, c)
  <1>1. \A name \in Predicates : Findings(name, c) # {} => Holds(name, c)
    BY HoldsWhenFound DEF Holds
  <1>2. ASSUME c.action \in {"delete", "replace"}, IsStateful(c) PROVE Speaks(1, c)
    <2>1. IsRule(DefaultFile.rules[1], {StatefulTypes}, {"delete", "replace"}, "")
      BY RulesOfDefault
    <2> QED
      BY <1>2, <2>1 DEF Speaks, IsStateful, IsRule, Holds, K!Says, K!NoName
  <1>3. ASSUME c.action \in {"create", "update", "replace"}, c.type \in DOMAIN Schemas,
               Findings("widens_network_access", c) # {}
        PROVE  Speaks(2, c)
    <2>1. IsRule(DefaultFile.rules[2], {DOMAIN Schemas}, {"create", "update", "replace"},
                 "widens_network_access")
      BY RulesOfDefault
    <2>2. Holds("widens_network_access", c)
      BY <1>1, <1>3 DEF Predicates
    <2>3. \E p \in DOMAIN Schemas : c.type \in GlobMatches[p]
      BY <1>3, DefaultIsEmbedded
    <2> QED
      BY <1>3, <2>1, <2>2, <2>3 DEF Speaks, IsRule, Holds, K!Says, K!NoName
  <1>4. ASSUME c.action \in Rewrites, Findings("disables_encryption", c) # {}
        PROVE  Speaks(3, c)
    <2>1. IsRule(DefaultFile.rules[3], {}, Rewrites, "disables_encryption")
      BY RulesOfDefault
    <2>2. Holds("disables_encryption", c)
      BY <1>1, <1>4 DEF Predicates
    <2> QED
      BY <1>4, <2>1, <2>2 DEF Speaks, IsRule, Holds, K!Says, K!NoName
  <1>5. ASSUME c.action \in Rewrites, Findings("removes_deletion_protection", c) # {}
        PROVE  Speaks(4, c)
    <2>1. IsRule(DefaultFile.rules[4], {}, Rewrites, "removes_deletion_protection")
      BY RulesOfDefault
    <2>2. Holds("removes_deletion_protection", c)
      BY <1>1, <1>5 DEF Predicates
    <2> QED
      BY <1>5, <2>1, <2>2 DEF Speaks, IsRule, Holds, K!Says, K!NoName
  <1>6. ASSUME c.action \in Rewrites, Findings("reduces_backup_retention", c) # {}
        PROVE  Speaks(5, c)
    <2>1. IsRule(DefaultFile.rules[5], {}, Rewrites, "reduces_backup_retention")
      BY RulesOfDefault
    <2>2. Holds("reduces_backup_retention", c)
      BY <1>1, <1>6 DEF Predicates
    <2> QED
      BY <1>6, <2>1, <2>2 DEF Speaks, IsRule, Holds, K!Says, K!NoName
  <1>7. ASSUME c.action \in Rewrites, Findings("changes_sensitive_attribute", c) # {}
        PROVE  Speaks(6, c)
    <2>1. IsRule(DefaultFile.rules[6], {}, Rewrites, "changes_sensitive_attribute")
      BY RulesOfDefault
    <2>2. Holds("changes_sensitive_attribute", c)
      BY <1>1, <1>7 DEF Predicates
    <2> QED
      BY <1>7, <2>1, <2>2 DEF Speaks, IsRule, Holds, K!Says, K!NoName
  <1>8. ASSUME c.action = "replace", Findings("was_moved", c) # {}
        PROVE  Speaks(7, c)
    <2>1. IsRule(DefaultFile.rules[7], {}, {"replace"}, "was_moved")
      BY RulesOfDefault
    <2>2. Holds("was_moved", c)
      BY <1>1, <1>8 DEF Predicates
    <2> QED
      BY <1>8, <2>1, <2>2 DEF Speaks, IsRule, Holds, K!Says, K!NoName
  <1>9. ASSUME c.action = "no-op", Findings("was_moved", c) # {}
        PROVE  Speaks(8, c)
    <2>1. IsRule(DefaultFile.rules[8], {}, {"no-op"}, "was_moved")
      BY RulesOfDefault
    <2>2. Holds("was_moved", c)
      BY <1>1, <1>9 DEF Predicates
    <2> QED
      BY <1>9, <2>1, <2>2 DEF Speaks, IsRule, Holds, K!Says, K!NoName
  <1>10. ASSUME c.action = "forget" PROVE Speaks(9, c)
    <2>1. IsRule(DefaultFile.rules[9], {}, {"forget"}, "")
      BY RulesOfDefault
    <2>2. c.action \in {"forget"}
      BY <1>10
    <2> QED
      BY <2>1, <2>2 DEF Speaks, IsRule, K!Says, K!NoName
  <1>11. ASSUME c.action = "create" PROVE Speaks(10, c)
    <2>1. IsRule(DefaultFile.rules[10], {}, {"create"}, "")
      BY RulesOfDefault
    <2>2. c.action \in {"create"}
      BY <1>11
    <2> QED
      BY <2>1, <2>2 DEF Speaks, IsRule, K!Says, K!NoName
  <1> QED
    BY <1>2, <1>3, <1>4, <1>5, <1>6, <1>7, <1>8, <1>9, <1>10, <1>11

\* What the README's list has of a planned change is said by a rule of that
\* severity.
LEMMA DocumentedIsSpoken ==
    ASSUME NEW c \in Occurring, c.mode # "data"
    PROVE  /\ SaysHigh(c, c.action) => \E k \in {1, 2, 3, 7} : Speaks(k, c)
           /\ SaysMedium(c, c.action) => \E k \in {4, 5, 6, 9} : Speaks(k, c)
           /\ SaysLow(c, c.action) => \E k \in {8, 10} : Speaks(k, c)
           /\ c.action = "no-op" /\ IsMoved(c) => Speaks(8, c)
  <1>1. \A name \in Predicates : Owes(name, c) => Findings(name, c) # {}
    BY OwedIsFound
  <1>2. IsMoved(c) => Findings("was_moved", c) # {}
    BY DEF IsMoved, Findings, WasMoved, Argument
  <1>3. ASSUME c.action \in {"create", "update", "replace"}, Widened(c, c.action)
        PROVE  c.type \in DOMAIN Schemas /\ Findings("widens_network_access", c) # {}
    <2>1. Owes("widens_network_access", c)
      BY <1>3 DEF Owes
    <2>2. c.type \in DOMAIN Schemas
      BY <1>3 DEF Widened
    <2> QED
      BY <1>1, <2>1, <2>2 DEF Predicates
  <1>4. ASSUME Turned(c, EncryptionFlags, TurnsOff) \/ LosesKey(c)
        PROVE  Findings("disables_encryption", c) # {}
    <2>1. Owes("disables_encryption", c)
      BY <1>4 DEF Owes
    <2> QED
      BY <1>1, <2>1 DEF Predicates
  <1>5. ASSUME Turned(c, DeletionProtection, TurnsOff) \/ Turned(c, {"force_destroy"}, TurnsOn)
        PROVE  Findings("removes_deletion_protection", c) # {}
    <2>1. Owes("removes_deletion_protection", c)
      BY <1>5 DEF Owes
    <2> QED
      BY <1>1, <2>1 DEF Predicates
  <1>6. ASSUME \/ Turned(c, Retention, GetsLess) \/ Turned(c, SkippedBackups, TurnsOn)
               \/ StopsRecovery(c)
        PROVE  Findings("reduces_backup_retention", c) # {}
    <2>1. Owes("reduces_backup_retention", c)
      BY <1>6 DEF Owes
    <2> QED
      BY <1>1, <2>1 DEF Predicates
  <1>7. ASSUME c.action \in Rewrites, WritesSecret(c, c.action)
        PROVE  Findings("changes_sensitive_attribute", c) # {}
    <2>1. Owes("changes_sensitive_attribute", c)
      BY <1>7 DEF Owes
    <2> QED
      BY <1>1, <2>1 DEF Predicates
  <1>8. SaysHigh(c, c.action) => \E k \in {1, 2, 3, 7} : Speaks(k, c)
    BY <1>2, <1>3, <1>4, RuleSpeaks DEF SaysHigh
  <1>9. SaysMedium(c, c.action) => \E k \in {4, 5, 6, 9} : Speaks(k, c)
    BY <1>5, <1>6, <1>7, RuleSpeaks DEF SaysMedium
  <1>10. SaysLow(c, c.action) => \E k \in {8, 10} : Speaks(k, c)
    BY <1>2, RuleSpeaks DEF SaysLow
  <1> QED
    BY <1>2, <1>8, <1>9, <1>10, RuleSpeaks

\* The list is about the values and the type.
LEMMA SameDocumented ==
    ASSUME NEW c, NEW e, c.body = e.body, c.type = e.type
    PROVE  /\ \A action : SaysHigh(c, action) <=> SaysHigh(e, action)
           /\ \A action : SaysMedium(c, action) <=> SaysMedium(e, action)
           /\ \A action : SaysLow(c, action) <=> SaysLow(e, action)
           /\ IsMoved(c) <=> IsMoved(e)
  <1>1. /\ Old(c) = Old(e) /\ New(c) = New(e) /\ \A p : CanBeRead(c, p) <=> CanBeRead(e, p)
        /\ IsMoved(c) <=> IsMoved(e)
    BY DEF Old, New, CanBeRead, IsMoved
  <1>2. \A action : SaysHigh(c, action) <=> SaysHigh(e, action)
    <2>1. Turned(c, EncryptionFlags, TurnsOff) <=> Turned(e, EncryptionFlags, TurnsOff)
      BY <1>1 DEF Turned
    <2>2. LosesKey(c) <=> LosesKey(e)
      BY <1>1 DEF LosesKey
    <2>3. \A action : Widened(c, action) <=> Widened(e, action)
      BY <1>1 DEF Widened
    <2>4. IsStateful(c) <=> IsStateful(e)
      BY DEF IsStateful
    <2> QED
      BY <1>1, <2>1, <2>2, <2>3, <2>4 DEF SaysHigh
  <1>3. \A action : SaysMedium(c, action) <=> SaysMedium(e, action)
    <2>1. /\ Turned(c, DeletionProtection, TurnsOff) <=> Turned(e, DeletionProtection, TurnsOff)
          /\ Turned(c, {"force_destroy"}, TurnsOn) <=> Turned(e, {"force_destroy"}, TurnsOn)
          /\ Turned(c, Retention, GetsLess) <=> Turned(e, Retention, GetsLess)
          /\ Turned(c, SkippedBackups, TurnsOn) <=> Turned(e, SkippedBackups, TurnsOn)
      BY <1>1 DEF Turned
    <2>2. StopsRecovery(c) <=> StopsRecovery(e)
      BY <1>1 DEF StopsRecovery
    <2>3. \A action : WritesSecret(c, action) <=> WritesSecret(e, action)
      BY <1>1 DEF WritesSecret
    <2> QED
      BY <2>1, <2>2, <2>3 DEF SaysMedium
  <1>4. \A action : SaysLow(c, action) <=> SaysLow(e, action)
    BY <1>1 DEF SaysLow
  <1> QED
    BY <1>1, <1>2, <1>3, <1>4

\* An entry to be reviewed is shown, and its row is as severe as the list has it.
LEMMA EntryIsFlagged ==
    ASSUME input \in Inputs, file = DefaultFile, NEW n \in DOMAIN input.entries,
           IsReviewed(EntryAt(n), K!ActionOf(EntryAt(n).actions))
    PROVE  /\ n \in K!Shown
           /\ K!RowOf(n).severity >= Documented(EntryAt(n), K!ActionOf(EntryAt(n).actions))
  <1> DEFINE c == K!ChangeAt(n)
             e == EntryAt(n)
             action == K!ActionOf(e.actions)
  <1>1. /\ c \in Occurring /\ c.mode = e.mode /\ c.type = e.type /\ c.body = e.body
        /\ c.action = action
    BY EntryOccurs
  <1>2. c.mode # "data" /\ (c.action = "no-op" => IsMoved(e))
    BY <1>1 DEF IsReviewed
  <1>3. \A k \in 1 .. 10 : Speaks(k, c) => k \in K!Speaking(n)
    BY RulesOfDefault DEF Speaks, K!Speaking
  <1> HIDE DEF c, e, action
  <1>4. /\ \A a : SaysHigh(c, a) <=> SaysHigh(e, a)
        /\ \A a : SaysMedium(c, a) <=> SaysMedium(e, a)
        /\ \A a : SaysLow(c, a) <=> SaysLow(e, a)
        /\ IsMoved(c) <=> IsMoved(e)
    BY <1>1, SameDocumented
  <1>5. /\ SaysHigh(e, action) => \E k \in {1, 2, 3, 7} : Speaks(k, c)
        /\ SaysMedium(e, action) => \E k \in {4, 5, 6, 9} : Speaks(k, c)
        /\ SaysLow(e, action) => \E k \in {8, 10} : Speaks(k, c)
        /\ c.action = "no-op" => Speaks(8, c)
    BY <1>1, <1>2, <1>4, DocumentedIsSpoken
  <1>6. n \in K!Shown
    <2>1. c.action = "no-op" => K!Speaking(n) # {}
      BY <1>3, <1>5
    <2> QED
      BY <1>2, <2>1 DEF K!Shown, K!InReview, c
  <1>7. /\ K!RowOf(n).severity >= None
        /\ \A k \in 1 .. 10 : Speaks(k, c) => K!RowOf(n).severity >= K!Level[SeverityOfRule(k)]
    BY <1>3, RowIsAsSevere
  <1>8. /\ \A k \in {1, 2, 3, 7} : K!Level[SeverityOfRule(k)] = High
        /\ \A k \in {4, 5, 6, 9} : K!Level[SeverityOfRule(k)] = Medium
        /\ \A k \in {8, 10} : K!Level[SeverityOfRule(k)] = Low
    BY DEF SeverityOfRule, K!Level, K!Low, K!Medium, K!High, Low, Medium, High
  <1>9. /\ SaysHigh(e, action) => K!RowOf(n).severity >= High
        /\ SaysMedium(e, action) => K!RowOf(n).severity >= Medium
        /\ SaysLow(e, action) => K!RowOf(n).severity >= Low
    BY <1>5, <1>7, <1>8
  <1>10. K!RowOf(n).severity >= Documented(e, action)
    BY <1>7, <1>9 DEF Documented
  <1> QED
    BY <1>6, <1>10 DEF e, action

-----------------------------------------------------------------------------
(* The command. *)

DefaultInForce == call.rules = "" => file = Embedded

\* Without a rules file the built-in one stays in force.
LEMMA SpecDefaultInForce == Spec => []DefaultInForce
  <1>1. K!KInit => DefaultInForce
    BY DEF K!KInit, DefaultInForce
  <1>2. DefaultInForce /\ [K!KNext]_(K!kvars) => DefaultInForce'
    BY DEF DefaultInForce, K!KNext, K!Answer, K!kvars
  <1> QED
    BY <1>1, <1>2, CommandKeepsPromise, PTL DEF K!KSafety

\* No plan makes the command with its built-in rules leave out a change it has
\* to review, or report one as less severe than the README's list has it.
THEOREM NothingDownplayed == Spec => []NothingIsDownplayed
  <1>1. ASSUME TInv, DefaultInForce PROVE NothingIsDownplayed
    <2> SUFFICES ASSUME NEW r \in DOMAIN stdout,
                        NEW e \in {input.entries[n] : n \in DOMAIN input.entries},
                        NEW action \in {K!ActionOf(e.actions)},
                        call.rules = "", IsReviewed(e, action)
                 PROVE  \E k \in DOMAIN stdout[r].rows :
                           /\ stdout[r].rows[k].address = e.address
                           /\ stdout[r].rows[k].action = action
                           /\ stdout[r].rows[k].severity >= Documented(e, action)
      BY Zenon DEF NothingIsDownplayed
    <2> PICK n \in DOMAIN input.entries : e = EntryAt(n)
      BY DEF EntryAt
    <2>0. action = K!ActionOf(EntryAt(n).actions)
      OBVIOUS
    <2>1. stdout[r] = K!Review
      BY <1>1, PrintedIsReview
    <2>2. input \in Inputs /\ file = DefaultFile
      BY <1>1, DefaultIsEmbedded DEF TInv, PInv, DefaultInForce
    <2>3. /\ n \in K!Shown
          /\ K!RowOf(n).severity >= Documented(EntryAt(n), K!ActionOf(EntryAt(n).actions))
      BY <2>0, <2>2, EntryIsFlagged
    <2>4. /\ K!RowOf(n).address = EntryAt(n).address
          /\ K!RowOf(n).action = K!ActionOf(EntryAt(n).actions)
      BY DEF K!RowOf, K!Entry, K!ChangeAt, EntryAt
    <2> QED
      BY <2>0, <2>1, <2>2, <2>3, <2>4, ShownHasRow
  <1> QED
    BY <1>1, SpecTInv, SpecDefaultInForce, PTL

=============================================================================
