-------------------------- MODULE MCCycleCanceling --------------------------
(* Values of the constants of CycleCanceling for TLC. *)
EXTENDS CycleCanceling

\* A path through all nodes, on which taking the edge in the middle first leaves
\* only the two at the ends ...
MCPathOfFive == {<<0, 0>>, <<1, 0>>, <<1, 1>>, <<2, 1>>, <<2, 2>>}

\* ... and the same with all edges among two pupils and two students.
MCPathAndCycle == MCPathOfFive \cup {<<0, 1>>}

\* In halves; -1 comes from waiting days that lie in the future.
MCHalves == {-2, 1, 4}
=============================================================================
