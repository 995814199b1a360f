----------------------------- MODULE MCAccount -----------------------------
(* Small instance of Account. *)
EXTENDS Account, TLC

MCSymmetry == Permutations(Clients) \cup Permutations(NewOwners) \cup Permutations(Emails)
              \cup Permutations(Tokens) \cup Permutations(DeletionKeys)
=============================================================================
