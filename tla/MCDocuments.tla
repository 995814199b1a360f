---------------------------- MODULE MCDocuments ----------------------------
(* Small instance of Documents. *)
EXTENDS Documents, TLC

MCSymmetry == Permutations(Sessions)
=============================================================================
