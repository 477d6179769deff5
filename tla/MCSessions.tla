----------------------------- MODULE MCSessions -----------------------------
(***************************************************************************)
(* Sessions for TLC: the ids and the clients are interchangeable.          *)
(***************************************************************************)
EXTENDS Sessions, TLC

Symmetry == Permutations(Sessions) \cup Permutations(Tokens) \cup Permutations(Clients)
=============================================================================
