----------------------------- MODULE MCWebUploads -----------------------------
(* An instance of WebUploads for TLC. *)
EXTENDS WebUploads, TLC

Symmetric == Permutations(Releases)
=============================================================================
