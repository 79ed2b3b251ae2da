-------------------------- MODULE MCRetainedEntities --------------------------
(* An instance of RetainedEntities for TLC. *)
EXTENDS RetainedEntities
=============================================================================
