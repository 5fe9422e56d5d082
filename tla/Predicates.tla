----------------------------- MODULE Predicates -----------------------------
(***************************************************************************)
(* The predicates on attributes of internal/predicates/predicates.go.  A    *)
(* predicate looks at a change through its diff and the value readers, and  *)
(* answers with its findings: it holds when there is one, and its detail    *)
(* lists them.                                                              *)
(***************************************************************************)
EXTENDS DiffEntry, Integers

CONSTANTS
    Names,            \* the object keys: Key(n) is the key Names[n]
    WriteOnlyVersion, \* the names that end in _wo_version
    Boolean,          \* asBool: a function from the scalars it accepts to BOOLEAN
    Number,           \* number: a function from the JSON numbers to what they denote
    AwsManaged        \* the strings that refer to an AWS-managed key

ASSUME NamesAreDistinct ==
    /\ Names \in Seq(STRING)
    /\ \A m, n \in DOMAIN Names : Names[m] = Names[n] => m = n

ASSUME ConversionsAreTyped ==
    /\ DOMAIN Boolean \subseteq Strings \cup Atoms
    /\ \A x \in DOMAIN Boolean : Boolean[x] \in BOOLEAN
    /\ DOMAIN Number \subseteq Atoms
    /\ \A x \in DOMAIN Number : Number[x] \in Int
    /\ AwsManaged \subseteq Strings \ {EmptyString}

NoName == ""
NameOf(segment) ==
    IF ~segment.index /\ segment.at \in DOMAIN Names THEN Names[segment.at] ELSE NoName

LastKey(path) == IF path = << >> THEN NoName ELSE NameOf(path[Len(path)])

Found(path, what) == [path |-> path, what |-> what]

\* The paths of diff d with a changed entry whose last key is one of names.
ChangedAt(d, names) == {p \in DOMAIN d : d[p].changed /\ LastKey(p) \in names}

-----------------------------------------------------------------------------
(* Reading values: both sides of a transition have to be readable. *)

\* BoolTransition for which anything that is no boolean is the opposite.
BoolTransitionAway(c, path, from, to) ==
    /\ \E x \in RawBefore(c, path) : x \in DOMAIN Boolean /\ Boolean[x] = from
    /\ \E y \in RawAfter(c, path) : y \in DOMAIN Boolean => Boolean[y] = to

BoolTransition(c, path, from, to) ==
    /\ \E x \in RawBefore(c, path) : x \in DOMAIN Boolean /\ Boolean[x] = from
    /\ \E y \in RawAfter(c, path) : y \in DOMAIN Boolean /\ Boolean[y] = to

Decreases(c, path) ==
    \E x \in RawBefore(c, path), y \in RawAfter(c, path) :
        x \in DOMAIN Number /\ y \in DOMAIN Number /\ Number[y] < Number[x]

NonEmptyBefore(c, path) == RawBefore(c, path) \cap (Strings \ {EmptyString}) # {}

\* EmptyAfter that forgets keys removed with their block.
EmptyAfterWhenPresent(c, e, path) ==
    /\ ~e.unknown /\ At(c.after, << >>) # "null"
    /\ RawAfter(c, path) # {} /\ RawAfter(c, path) \subseteq {"null", EmptyString}

EmptyAfter(c, e, path) ==
    /\ ~e.unknown /\ At(c.after, << >>) # "null"
    /\ IF RawAfter(c, path) = {} THEN e.after = Absent
       ELSE RawAfter(c, path) \subseteq {"null", EmptyString}

BecomesAwsManaged(c, path) ==
    RawAfter(c, path) \cap AwsManaged # {} /\ RawBefore(c, path) \cap AwsManaged = {}

-----------------------------------------------------------------------------
(* The predicates. *)

EncryptionFlags ==
    {"storage_encrypted", "encrypted", "at_rest_encryption_enabled",
     "transit_encryption_enabled"}
KmsKeys == {"kms_key_id", "kms_key_arn", "kms_master_key_id"}
DeletionProtection ==
    {"deletion_protection", "deletion_protection_enabled", "enable_deletion_protection"}
Retention == {"backup_retention_period", "snapshot_retention_limit"}
SkippedBackups == {"skip_final_snapshot", "delete_automated_backups"}

WasMoved(c) == IF c.previous = NoName THEN {} ELSE {Found(<< >>, "moved")}

Sensitive(e) == e.beforeSensitive \/ e.afterSensitive

\* Rewritten that looks for changed paths only.
RewrittenIfChanged(e) == e.afterSensitive /\ e.changed

\* A replace writes every attribute that has a value, changed or not.
Rewritten(e) == e.afterSensitive /\ e.after # Absent /\ ~e.afterNull

ChangesSensitiveAttribute(c) ==
    LET d == Diff(c)
        written == {p \in DOMAIN d :
                      \/ c.action = "update" /\ d[p].changed /\ Sensitive(d[p])
                      \/ c.action = "replace" /\ Rewritten(d[p])}
    IN  IF c.mode = "data" \/ c.action \notin {"update", "replace"} THEN {}
        ELSE {Found(p, "written") : p \in written}
               \cup {Found(p, "rewritten") : p \in ChangedAt(d, WriteOnlyVersion)}

\* The flags of names that go from one truth value to the other.
Flips(c, names, from, to) ==
    {p \in ChangedAt(Diff(c), names) : BoolTransition(c, p, from, to)}

DisablesEncryption(c) ==
    LET d == Diff(c)
        lost == {p \in ChangedAt(d, KmsKeys) : NonEmptyBefore(c, p)}
        removed == {p \in lost : EmptyAfter(c, d[p], p)}
        managed == {p \in lost \ removed : BecomesAwsManaged(c, p)}
    IN  {Found(p, "off") : p \in Flips(c, EncryptionFlags, TRUE, FALSE)}
          \cup {Found(p, "removed") : p \in removed}
          \cup {Found(p, "aws") : p \in managed}

RemovesDeletionProtection(c) ==
    {Found(p, "off") : p \in Flips(c, DeletionProtection, TRUE, FALSE)}
      \cup {Found(p, "on") : p \in Flips(c, {"force_destroy"}, FALSE, TRUE)}

\* point_in_time_recovery.N.enabled
IsRecovery(path) ==
    Len(path) >= 3 /\ NameOf(path[Len(path) - 2]) = "point_in_time_recovery"

ReducesBackupRetention(c) ==
    {Found(p, "less") : p \in {q \in ChangedAt(Diff(c), Retention) : Decreases(c, q)}}
      \cup {Found(p, "on") : p \in Flips(c, SkippedBackups, FALSE, TRUE)}
      \cup {Found(p, "off") : p \in {q \in Flips(c, {"enabled"}, TRUE, FALSE) : IsRecovery(q)}}

=============================================================================
