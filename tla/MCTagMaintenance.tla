--------------------------- MODULE MCTagMaintenance ---------------------------
(* An instance of TagMaintenance for TLC. *)
EXTENDS TagMaintenance
=============================================================================
