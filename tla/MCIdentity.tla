----------------------------- MODULE MCIdentity -----------------------------
(***************************************************************************)
(* Identity for TLC: users and requests are interchangeable model values.  *)
(***************************************************************************)
EXTENDS Identity, TLC

Symmetry == Permutations(Users) \cup Permutations(Requests)
=============================================================================
