------------------------------ MODULE MCRegistry -----------------------------
(***************************************************************************)
(* The registry under its most general client, for TLC.                    *)
(***************************************************************************)
EXTENDS RegistryTags, TLC

Symmetry == Permutations(Codes) \cup Permutations(Uids)

\* The bound MaxHistory is reached for every lock.
HistoriesFull ==
  /\ \A c \in Codes : Len(history[c]) = MaxHistory
  /\ UNCHANGED registryVars

\* The registry without finish_batch: no other method depends on what it
\* sets, and its statuses only multiply the states of the locks.
OpenBatchNext ==
  \/ LockNext
  \/ \E b \in BatchIds, c \in Codes : CreateBatch(b, 1, NoKey) \/ AddAirlock(c, b)
  \/ HistoriesFull

OpenBatchSpec == RegistryInit /\ [][OpenBatchNext]_registryVars
==============================================================================
