---------------------------- MODULE MCLockOrder ----------------------------
(* Small instance of LockOrder. *)
EXTENDS LockOrder, TLC

MCSymmetry == Permutations(Connections)
=============================================================================
