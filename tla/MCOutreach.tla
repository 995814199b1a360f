----------------------------- MODULE MCOutreach -----------------------------
(* Small instance of Outreach. *)
EXTENDS Outreach, TLC

MCSymmetry == Permutations(Apps) \cup Permutations(People)
=============================================================================
