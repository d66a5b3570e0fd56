-------------------------- MODULE MCMaxCostMatching --------------------------
(* Values of the constants of MaxCostMatching and its refinement for TLC. *)
EXTENDS MaxCostMatchingRefinement

\* Half units; -1 comes from waiting days that lie in the future.
MCCostsWithNegative == {-1, 3}

\* An overflowing addition wraps around, or is widened and saturates.
MCOverflowOutcomes == {-IntMax - 1, IntMax}
=============================================================================
