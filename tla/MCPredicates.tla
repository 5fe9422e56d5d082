---------------------------- MODULE MCPredicates ----------------------------
(***************************************************************************)
(* Constructors of calls for TLC.                                           *)
(***************************************************************************)
EXTENDS PredicateCall, MCScalars

Change(b, a, action, type) ==
    [before |-> b[1], beforeSensitive |-> b[2],
     after |-> a[1], afterUnknown |-> a[2], afterSensitive |-> a[3],
     mode |-> "managed", action |-> action, type |-> type, previous |-> ""]

Changed(befores, afters, actions, type) ==
    {Change(b, a, action, type) : b \in befores, a \in afters, action \in actions}

Plain(v) == <<v, No>>
PlainAfter(v) == <<v, No, No>>

=============================================================================
