------------------------- MODULE MCUpdateController -------------------------
(* Model checking UpdateController.  The runs share this module and differ   *)
(* in what they have several of: jobs, releases or tags.                     *)
EXTENDS UpdateController, TLC

\* Tags that already run a release: sessions only inspect them, for the run
\* with two tags.
CurrentInit == Init /\ \A t \in Tags : dev[t].active # Factory /\ dev[t].conf

CurrentSpec == CurrentInit /\ [][Next]_vars

\* Tags as they are shipped, for the run about progress.
ShippedInit == Init /\ dev = [t \in Tags |-> Shipped]

ShippedSpec == ShippedInit /\ [][Next]_vars /\ Fairness

\* A board has the name of the tag that wears it.
MCAssociated == [t \in Tags |-> t]

\* State constraints.  What comes after a latched fault, or under a session
\* that was disabled, is left to the run with one tag and one release.
NoFault == ~fault /\ (disabled => active = 0)

\* A failed write may disable the updater, also under an open session.
Up == ready /\ ~fault

\* A disabled updater has come to the end that both progress properties allow.
Enabled == ~disabled

TagSymmetry == Permutations(Tags)

ReleaseSymmetry == Permutations(Releases)
=============================================================================
