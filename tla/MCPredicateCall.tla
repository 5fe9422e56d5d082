--------------------------- MODULE MCPredicateCall ---------------------------
(***************************************************************************)
(* All calls for TLC: every predicate is called with the changes of         *)
(* attributes and with those of network access.                             *)
(***************************************************************************)
EXTENDS MCAttributes, MCNetwork

MCCalls == AttributeFamily \cup NetworkFamily

=============================================================================
