---------------------------- MODULE MCTagPresence ----------------------------
(* An instance of TagPresence for TLC. *)
EXTENDS TagPresence
=============================================================================
