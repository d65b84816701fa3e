-------------------------- MODULE MCPrintProofStore --------------------------
(***************************************************************************)
(* The print-proof store for TLC; readers are interchangeable.             *)
(***************************************************************************)
EXTENDS PrintProofStore, TLC

ReaderSymmetry == Permutations(Readers)
==============================================================================
