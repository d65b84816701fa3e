------------------------------ MODULE MCUpdater ------------------------------
(***************************************************************************)
(* The update exchange for TLC.                                            *)
(***************************************************************************)
EXTENDS Updater
==============================================================================
