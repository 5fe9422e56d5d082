--------------------------- MODULE PredicateCall ---------------------------
(***************************************************************************)
(* A call of a predicate of the registry (internal/predicates): a rule      *)
(* names it, it is given a change, and it answers with its findings.        *)
(***************************************************************************)
EXTENDS Traffic

CONSTANT Calls  \* the changes predicates are called with

ASSUME CallsAreChanges == \A c \in Calls : IsPlanned(c)
ASSUME RequiredFieldsAreGiven == \A c \in Calls : GivesRequired(c)

VARIABLES
    change,  \* the argument
    called,  \* the name of the predicate, NoName before the call
    found    \* what it found; it holds if that is anything

vars == <<change, called, found>>

Init ==
    /\ change \in Calls
    /\ called = NoName
    /\ found = {}

Call(name, findings) ==
    /\ called = NoName
    /\ called' = name
    /\ found' = findings
    /\ UNCHANGED change

CallWasMoved == Call("was_moved", WasMoved(change))
CallSensitive == Call("changes_sensitive_attribute", ChangesSensitiveAttribute(change))
CallEncryption == Call("disables_encryption", DisablesEncryption(change))
CallProtection == Call("removes_deletion_protection", RemovesDeletionProtection(change))
CallRetention == Call("reduces_backup_retention", ReducesBackupRetention(change))
CallNetwork == Call("widens_network_access", WidensNetworkAccess(change))

Next ==
    \/ CallWasMoved \/ CallSensitive \/ CallEncryption
    \/ CallProtection \/ CallRetention \/ CallNetwork

Spec == Init /\ [][Next]_vars

-----------------------------------------------------------------------------
(* Types *)

Findings ==
    [path : Seq(Segments),
     what : {"moved", "written", "rewritten", "off", "on", "less", "removed", "aws"}]

IsPermission(p) ==
    /\ p.where \in Seq(Segments)
    /\ 0 <= p.from /\ p.from <= p.to /\ p.to <= MaxPort
    /\ p.src.kind \in {"cidr", "group", "prefix list", "self"}
    /\ p.src.kind = "cidr" /\ ~p.src.unknown => p.src.prefix \in Prefixes
    /\ p.src.kind \in {"group", "prefix list"} /\ ~p.src.unknown =>
         p.src.id \in Strings \ {EmptyString}

\* A finding is a path and what happened there, or a permission with a source
\* and a port range that is the right way round.
TypeOK ==
    IF called = "widens_network_access" THEN \A p \in found : IsPermission(p)
    ELSE found \subseteq Findings

-----------------------------------------------------------------------------
(* Attributes: the predicates against the two trees of the change. *)

Transitions ==
    {"disables_encryption", "removes_deletion_protection", "reduces_backup_retention"}

FoundPaths(what) == {f.path : f \in {g \in found : g.what = what}}

\* No marker of the change touches path.
Readable(path) ==
    /\ ~TouchesSensitive(change, path)
    /\ ~Marked(change.afterUnknown, path)
    /\ ~AnyMarkedBelow(change.afterUnknown, path)

\* The readable paths of names at which the old and the new value do relate so.
PathsWhere(names, Relation(_, _)) ==
    {p \in DOMAIN change.before :
        /\ LastKey(p) \in names /\ Readable(p)
        /\ Relation(change.before[p], At(change.after, p))}

\* Wherever the values of an attribute can be read on both sides, at any
\* depth, each listed transition between them is found, and nothing else is:
\* going by the changed entries of the diff loses none and invents none.
TransitionsAreExact ==
    /\ called = "disables_encryption" =>
         FoundPaths("off") = PathsWhere(EncryptionFlags, TurnsOff)
    /\ called = "removes_deletion_protection" =>
         /\ FoundPaths("off") = PathsWhere(DeletionProtection, TurnsOff)
         /\ FoundPaths("on") = PathsWhere({"force_destroy"}, TurnsOn)
    /\ called = "reduces_backup_retention" =>
         /\ FoundPaths("less") = PathsWhere(Retention, GetsLess)
         /\ FoundPaths("on") = PathsWhere(SkippedBackups, TurnsOn)
         /\ FoundPaths("off") = {p \in PathsWhere({"enabled"}, TurnsOff) : IsRecovery(p)}

LosesKey(x, y) == x \in Strings \ {EmptyString} /\ y \in {"null", EmptyString}
GoesToAws(x, y) == x \in Strings \ ({EmptyString} \cup AwsManaged) /\ y \in AwsManaged

\* A key that was set and is empty, null or gone with its block, as far as the
\* plan can tell, is found to be removed, and one that gives way to an
\* AWS-managed key is found to; no other key is, unless it is unknown.
KeyChangesAreExact ==
    called = "disables_encryption" =>
        /\ {p \in FoundPaths("removed") : Readable(p)} =
             IF At(change.after, << >>) = "null" THEN {} ELSE PathsWhere(KmsKeys, LosesKey)
        /\ FoundPaths("aws") = PathsWhere(KmsKeys, GoesToAws)

ChangedPaths ==
    LET old == BeforeLeaves(change)
        new == AfterLeaves(change)
    IN  {p \in DOMAIN old \cup DOMAIN new :
            \/ p \notin DOMAIN old \cap DOMAIN new
            \/ new[p].unknown \/ old[p].raw # new[p].raw}

\* A replace writes every marked value that is not null, changed or not, known
\* or not, and an update every changed one that is marked on the side it is on
\* (the masks and echoes of the diff do not get in the way).
SensitiveWritesAreFound ==
    called = "changes_sensitive_attribute" /\ change.mode # "data" =>
        LET old == {p \in DOMAIN BeforeLeaves(change) : Marked(change.beforeSensitive, p)}
            new == {p \in DOMAIN AfterLeaves(change) : Marked(change.afterSensitive, p)}
        IN  FoundPaths("written") =
              CASE change.action = "replace" -> {p \in new : ~IsNull(AfterLeaves(change)[p])}
                [] change.action = "update" -> (old \cup new) \cap ChangedPaths
                [] OTHER -> {}

-----------------------------------------------------------------------------
(* Network access: the predicate against the traffic of the resource. *)

Widens(actions) ==
    called = "widens_network_access" /\ change.type \in DOMAIN Schemas /\ change.action \in actions

Schema == Schemas[change.type]
NewPerms == Perms(Reader(change, TRUE), Schema)
OldPerms == Perms(Reader(change, FALSE), Schema)

\* After an update or replace a permission is found exactly when its source is
\* unknown or no single earlier permission lets all of its traffic in.
WideningIsExact ==
    Widens({"update", "replace"}) =>
        LET admitted == {TrafficOf(b) : b \in OldPerms}
        IN  found = {p \in NewPerms :
                        p.src.unknown \/ ~\E traffic \in admitted : TrafficOf(p) \subseteq traffic}

IsPublic(a) == ~\E p \in PrivateRanges : InPrefix(a, p)

\* A new resource is public exactly when some address that may get in is in
\* none of the private ranges.
PublicIsExact ==
    Widens({"create"}) =>
        found = {p \in NewPerms :
                    /\ p.src.kind = "cidr"
                    /\ p.src.unknown \/ \E a \in HostsOf(p.src) \cap IPs : IsPublic(a)}

IsPlain(block) == PlainRule(change, Schema, block)

AllIsAdmittedBefore ==
    TrafficIn(change.after, Schema) \subseteq TrafficIn(change.before, Schema)

\* When nothing is found, whatever the resource lets in after the change it let
\* in before, and a new one lets in private addresses only: read off the values
\* themselves, sensitive ones included, and with unknown protocols and ports
\* standing for any.  Old rules are taken to be plain.
NoIngressIsMissed ==
    /\ /\ Widens({"update", "replace"}) /\ found = {}
       /\ \A b \in Blocks(change.before, Schema) : IsPlain(b)
       => AllIsAdmittedBefore
    /\ Widens({"create"}) /\ found = {} =>
         \A t \in TrafficIn(change.after, Schema) : t[2] \in IPs => ~IsPublic(t[2])

\* The fields that hold the sources of a block, those of addresses among them.
ListFields == Schema.cidrLists \cup Schema.groupLists \cup Schema.prefixLists
CidrFields == Schema.cidrLists \cup Schema.cidrs
SourceFields == CidrFields \cup ListFields \cup Schema.groups \cup Schema.prefix \cup Schema.self

\* The blocks of a resource or one of them, or in one a field or an element of a list.
HoldsSource(path, fields) ==
    LET n == IF Schema.blocks = NoName THEN 1 ELSE 3
    IN  /\ n = 3 /\ Len(path) >= 1 => path[1] = KeyNamed[Schema.blocks]
        /\ n = 3 /\ Len(path) >= 2 => path[2].index
        /\ CASE Len(path) = n -> \E f \in fields : path[n] = KeyNamed[f]
             [] Len(path) = n + 1 ->
                  path[n + 1].index /\ \E f \in fields \cap ListFields : path[n] = KeyNamed[f]
             [] OTHER -> Len(path) \in 1 .. n

\* An ingress attribute, a block or a source that is unknown until apply is
\* found, wherever it is (the group of a new resource is not public).
UnknownSourcesAreFound ==
    /\ Widens({"create", "update", "replace"})
    /\ Schema.type # NoName => ~IsEgress(Reader(change, TRUE), <<KeyNamed[Schema.type]>>)
    /\ \E p \in DOMAIN AfterLeaves(change) :
         /\ AfterLeaves(change)[p].unknown
         /\ HoldsSource(p, IF change.action = "create" THEN CidrFields ELSE SourceFields)
    => found # {}

-----------------------------------------------------------------------------
(* Statements of the documentation the code does not keep. *)

\* design.md: a value that is unknown after never matches a transition.
UnknownNeverMatches ==
    called \in Transitions => \A f \in found : ~Marked(change.afterUnknown, f.path)

\* network.go: the predicate is true when what is allowed after an update is
\* not contained in what was allowed before.
NewIngressIsFound == Widens({"update", "replace"}) /\ found = {} => AllIsAdmittedBefore

=============================================================================
