--------------------------- MODULE MCMotionSettings ---------------------------
(* An instance of MotionSettings for TLC. *)
EXTENDS MotionSettings
=============================================================================
