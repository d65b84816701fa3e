---------------------------- MODULE MCLockHandlers ---------------------------
(***************************************************************************)
(* The handlers of app/main.py for TLC.                                    *)
(***************************************************************************)
EXTENDS LockHandlers, TLC

Symmetry == Permutations(Codes) \cup Permutations(Uids) \cup Permutations(Requests)
==============================================================================
