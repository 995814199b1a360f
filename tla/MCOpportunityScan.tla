------------------------- MODULE MCOpportunityScan -------------------------
(* Small instance of OpportunityScan. *)
EXTENDS OpportunityScan, TLC

MCSymmetry == Permutations(Workers) \cup Permutations(Tokens) \cup Permutations(Sources)
=============================================================================
