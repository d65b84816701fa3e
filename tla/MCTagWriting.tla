---------------------------- MODULE MCTagWriting -----------------------------
(***************************************************************************)
(* Tag writing for TLC; locks, tags and writers are interchangeable.       *)
(***************************************************************************)
EXTENDS TagWriting, TLC

Symmetry == Permutations(Codes) \cup Permutations(Uids) \cup Permutations(Writers)
==============================================================================
