--------------------------- MODULE DefaultReview ---------------------------
(***************************************************************************)
(* The command as it is shipped: run with the rules file built into the     *)
(* binary (internal/rules/default.yaml) and the predicates of               *)
(* internal/predicates, on changes that have values and markers.            *)
(***************************************************************************)
EXTENDS Tfreview, Traffic

-----------------------------------------------------------------------------
(* predicates.Registry: every predicate by its name. *)

Argument(c) ==
    LET v == c.body
    IN  [before |-> v.before, after |-> v.after, afterUnknown |-> v.afterUnknown,
         beforeSensitive |-> v.beforeSensitive, afterSensitive |-> v.afterSensitive,
         mode |-> c.mode, action |-> c.action, type |-> c.type, previous |-> v.previous]

Predicates == {"changes_sensitive_attribute", "disables_encryption",
               "removes_deletion_protection", "reduces_backup_retention", "was_moved",
               "widens_network_access"}

Findings(name, c) ==
    CASE name = "changes_sensitive_attribute" -> ChangesSensitiveAttribute(Argument(c))
      [] name = "disables_encryption"         -> DisablesEncryption(Argument(c))
      [] name = "removes_deletion_protection" -> RemovesDeletionProtection(Argument(c))
      [] name = "reduces_backup_retention"    -> ReducesBackupRetention(Argument(c))
      [] name = "was_moved"                   -> WasMoved(Argument(c))
      [] name = "widens_network_access"       -> WidensNetworkAccess(Argument(c))

PredicateSets(changed) ==
    [name \in Predicates |-> {c \in changed : Findings(name, c) # {}}]

\* The changes the plan documents have.
Occurring ==
    {[mode |-> e.mode, action |-> P!MapActions(e.actions), type |-> e.type,
      address |-> e.address, body |-> e.body] :
        e \in UNION {{text.entries[n] : n \in DOMAIN text.entries} : text \in Inputs}}

\* They are changes of a plan.
ASSUME ChangesArePlanned ==
    \A c \in Occurring : IsPlanned(Argument(c)) /\ GivesRequired(Argument(c))

ASSUME RegistryIsOfPredicates == Registry = PredicateSets(Occurring)

-----------------------------------------------------------------------------
(* default.yaml *)

StatefulTypes ==
    {"aws_db_instance", "aws_rds_cluster", "aws_dynamodb_table", "aws_s3_bucket",
     "aws_ebs_volume", "aws_efs_file_system", "aws_elasticache_*", "aws_route53_zone"}

DefaultRule(id, severity, actions, predicate) ==
    [id |-> id, severity |-> severity, verdict |-> "", types |-> {}, actions |-> {actions},
     addresses |-> {}, predicate |-> predicate]

\* The destroy rule without replace.
StatefulDeleteOnly ==
    [DefaultRule("stateful-destroy", "high", {"delete"}, "") EXCEPT !.types = {StatefulTypes}]

StatefulDestroy ==
    [DefaultRule("stateful-destroy", "high", {"delete", "replace"}, "")
        EXCEPT !.types = {StatefulTypes}]

IngressWidened ==
    [DefaultRule("sg-ingress-widened", "high", {"create", "update", "replace"},
                 "widens_network_access") EXCEPT !.types = {DOMAIN Schemas}]

Rewrites == {"update", "replace"}

DefaultFile ==
    [decodes |-> "yes", version |-> 1, destructive |-> "needs-attention", other |-> "approve",
     rules |-> <<
        StatefulDestroy,
        IngressWidened,
        DefaultRule("encryption-disabled", "high", Rewrites, "disables_encryption"),
        DefaultRule("deletion-protection-removed", "medium", Rewrites, "removes_deletion_protection"),
        DefaultRule("backup-retention-reduced", "medium", Rewrites, "reduces_backup_retention"),
        DefaultRule("sensitive-attribute-changed", "medium", Rewrites, "changes_sensitive_attribute"),
        DefaultRule("moved-then-replaced", "high", {"replace"}, "was_moved"),
        DefaultRule("moved", "low", {"no-op"}, "was_moved"),
        DefaultRule("removed-from-state", "medium", {"forget"}, ""),
        DefaultRule("new-resource", "low", {"create"}, "")>>]

\* go:embed of internal/rules; a pattern that is a plain name matches that name.
ASSUME DefaultIsEmbedded ==
    /\ Embedded = DefaultFile
    /\ \A type \in DOMAIN Schemas : type \in GlobMatches[type]

-----------------------------------------------------------------------------
(* The README's list of what the default rules flag, of an entry of the plan  *)
(* document and read off its values.                                        *)

Old(e) == e.body.before
New(e) == e.body.after

\* No marker touches path.
CanBeRead(e, path) ==
    /\ ~TouchesSensitive(e.body, path)
    /\ ~Marked(e.body.afterUnknown, path)
    /\ ~AnyMarkedBelow(e.body.afterUnknown, path)

\* A readable value of names relates so to what stands there after the change.
Turned(e, names, Relation(_, _)) ==
    \E p \in DOMAIN Old(e) :
        /\ LastKey(p) \in names /\ CanBeRead(e, p)
        /\ Relation(Old(e)[p], At(New(e), p))

\* A key that was set is gone, while the resource stays, or gives way to one of AWS.
LosesKey(e) ==
    \E p \in DOMAIN Old(e) :
        /\ LastKey(p) \in KmsKeys /\ CanBeRead(e, p)
        /\ Old(e)[p] \in Strings \ {EmptyString}
        /\ \/ At(New(e), p) \in {"null", EmptyString} /\ At(New(e), << >>) # "null"
           \/ At(New(e), p) \in AwsManaged /\ Old(e)[p] \notin AwsManaged

StopsRecovery(e) ==
    \E p \in DOMAIN Old(e) :
        /\ LastKey(p) = "enabled" /\ IsRecovery(p) /\ CanBeRead(e, p)
        /\ TurnsOff(Old(e)[p], At(New(e), p))

\* A marked value is new, or is written again with the whole resource.
WritesSecret(e, action) ==
    \E p \in DOMAIN New(e) :
        /\ New(e)[p] \in Strings \cup Atoms
        /\ Marked(e.body.afterSensitive, p)
        /\ action = "replace" \/ New(e)[p] # At(Old(e), p)

\* Something is let in that was not before, or by a new resource from an
\* address that is not private.
Widened(e, action) ==
    /\ e.type \in DOMAIN Schemas
    /\ LET schema == Schemas[e.type]
           now == TrafficIn(New(e), schema)
       IN  IF action = "create"
           THEN \E t \in now : t[2] \in IPs /\ ~\E p \in PrivateRanges : InPrefix(t[2], p)
           ELSE /\ \A block \in Blocks(Old(e), schema) : PlainRule(e.body, schema, block)
                /\ ~(now \subseteq TrafficIn(Old(e), schema))

IsStateful(e) == \E p \in StatefulTypes : e.type \in GlobMatches[p]
IsMoved(e) == e.body.previous # NoName

SaysHigh(e, action) ==
    \/ action \in {"delete", "replace"} /\ IsStateful(e)
    \/ action \in {"create", "update", "replace"} /\ Widened(e, action)
    \/ action \in Rewrites /\ (Turned(e, EncryptionFlags, TurnsOff) \/ LosesKey(e))
    \/ action = "replace" /\ IsMoved(e)

SaysMedium(e, action) ==
    \/ /\ action \in Rewrites
       /\ \/ Turned(e, DeletionProtection, TurnsOff) \/ Turned(e, {"force_destroy"}, TurnsOn)
          \/ Turned(e, Retention, GetsLess) \/ Turned(e, SkippedBackups, TurnsOn)
          \/ StopsRecovery(e)
          \/ WritesSecret(e, action)
    \/ action = "forget"

SaysLow(e, action) == action = "create" \/ (action = "no-op" /\ IsMoved(e))

Documented(e, action) ==
    IF SaysHigh(e, action) THEN High
    ELSE IF SaysMedium(e, action) THEN Medium
    ELSE IF SaysLow(e, action) THEN Low ELSE None

\* Data sources are never reviewed, and of the no-ops only the moved ones.
IsReviewed(e, action) == e.mode # "data" /\ (action = "no-op" => IsMoved(e))

-----------------------------------------------------------------------------
(* Properties *)

\* Whatever the plan and its values are, the built-in rules report no change as
\* less severe than the README's list has it, nor leave it out: the rules file,
\* the predicates, the diff, the loader, the parser and the classifier together
\* miss nothing that can be read.
NothingIsDownplayed ==
    \A r \in DOMAIN stdout, e \in {input.entries[n] : n \in DOMAIN input.entries} :
        \A action \in {K!ActionOf(e.actions)} :
            call.rules = "" /\ IsReviewed(e, action) =>
              \E k \in DOMAIN stdout[r].rows :
                 /\ stdout[r].rows[k].address = e.address
                 /\ stdout[r].rows[k].action = action
                 /\ stdout[r].rows[k].severity >= Documented(e, action)

\* Nor as more severe, where its values can be read: what the command prints of
\* a plan has the severities the README promises.
FlagsWhatTheReadmeSays ==
    \A r \in DOMAIN stdout, e \in {input.entries[n] : n \in DOMAIN input.entries} :
        \A action \in {K!ActionOf(e.actions)} :
            {stdout[r].rows[k].severity :
                k \in {k \in DOMAIN stdout[r].rows : stdout[r].rows[k].address = e.address}}
              = IF IsReviewed(e, action) THEN {Documented(e, action)} ELSE {}

=============================================================================
