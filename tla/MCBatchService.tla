---------------------------- MODULE MCBatchService ---------------------------
(***************************************************************************)
(* AirlockService.generate for TLC.                                        *)
(***************************************************************************)
EXTENDS BatchService, TLC

Symmetry == Permutations(Codes) \cup Permutations(BatchIds) \cup Permutations(Requests)
==============================================================================
