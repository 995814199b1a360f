------------------------------ MODULE Optional ------------------------------
(***************************************************************************)
(* The value for what is absent (None, null) in what is read for an owner. *)
(***************************************************************************)
CONSTANT None
=============================================================================
