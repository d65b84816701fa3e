----------------------------- MODULE MCAccessKeys ----------------------------
(***************************************************************************)
(* The access keys and their log for TLC.                                  *)
(***************************************************************************)
EXTENDS AccessKeys, TLC

Symmetry == Permutations(Keys) \cup Permutations(Requests) \cup Permutations(Admins)
==============================================================================
