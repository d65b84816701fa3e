----------------------------- MODULE RegistryTags ----------------------------
(***************************************************************************)
(* The registry read as the TagMarriage specification: the nfc_uid column, *)
(* turned round, gives each tag its lock.                                  *)
(***************************************************************************)
EXTENDS Registry

CONSTANT NoLock

ASSUME NoLockAssumption == NoLock \notin Codes

\* get_by_nfc_uid: the lock a tag is bound to.
LockOf(u) ==
  IF \E c \in Codes : nfcUid[c] = u
  THEN CHOOSE c \in Codes : nfcUid[c] = u
  ELSE NoLock

holderMap == [u \in Uids |-> LockOf(u)]

Marriage == INSTANCE TagMarriage WITH
              Locks <- Codes, Tags <- Uids, MayMove <- BetaTagMove,
              holder <- holderMap

(***************************************************************************)
(* Every step of the registry binds one tag as TagMarriage allows, or      *)
(* leaves all bindings alone.                                              *)
(***************************************************************************)
TagsAreMarried == Marriage!Spec
==============================================================================
