--------------------------- MODULE MCUpdateQueue ---------------------------
(* Model checking UpdateQueue: two tags and two boards over two slots, so    *)
(* that a full queue must evict and one tag may be given both boards; four   *)
(* ids, so that they run out; two values of the clock, so that records are   *)
(* of the same age or not.                                                   *)
EXTENDS UpdateQueue, TLC

\* No action tells one tag from another, or one board.
TargetSymmetry == Permutations(Tags) \union Permutations(Boards)
=============================================================================
