--------------------------- MODULE MCCheckReview ---------------------------
(* CheckReview on a small instance; the agent's workers are interchangeable*)
EXTENDS CheckReview, TLC

Symmetry == Permutations(Agents)
=============================================================================
