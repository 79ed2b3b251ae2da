----------------------------- MODULE MCTipCounter -----------------------------
(* An instance of TipCounter for TLC. *)
EXTENDS TipCounter
=============================================================================
