---------------------------- MODULE RegistryProofs ---------------------------
(***************************************************************************)
(* What the registry guarantees for every code space, every set of tags    *)
(* and batches, whatever its clients call and in whichever order.          *)
(***************************************************************************)
EXTENDS RegistryTags, TLAPS

USE RegistryAssumption

LEMMA AbsentIsNoStatus == Absent \notin STATUSES
  BY DEF Absent, STATUSES

LEMMA TransitionsTyped ==
  ASSUME NEW s \in STATUSES
  PROVE  ALLOWED_TRANSITIONS[s] \subseteq STATUSES
  BY DEF ALLOWED_TRANSITIONS, STATUSES

\* Appending to a history keeps the old rows and puts the new one last.
LEMMA AppendFacts ==
  ASSUME NEW S, NEW s \in Seq(S), NEW e \in S
  PROVE  /\ Append(s, e) \in Seq(S)
         /\ Len(Append(s, e)) = Len(s) + 1
         /\ Append(s, e)[Len(s) + 1] = e
         /\ \A i \in 1..Len(s) : Append(s, e)[i] = s[i]
         /\ Append(s, e) # <<>>
  OBVIOUS

------------------------------------------------------------------------------
(***************************************************************************)
(* Type correctness.                                                       *)
(***************************************************************************)
LEMMA HistTyped ==
  ASSUME TypeOK, NEW c \in Codes, NEW from \in STATUSES \cup {Absent},
         NEW to \in STATUSES, NEW source \in {"system", "app", "api"},
         NEW forced \in BOOLEAN, Hist(c, from, to, source, forced)
  PROVE  history' \in [Codes -> Seq(HistoryRow)]
<1>1. [from |-> from, to |-> to, source |-> source, forced |-> forced] \in HistoryRow
  BY DEF HistoryRow
<1>2. history[c] \in Seq(HistoryRow)
  BY DEF TypeOK
<1> QED BY <1>1, <1>2, AppendFacts DEF Hist, TypeOK

LEMMA TypePreserved == TypeOK /\ [RegistryNext]_registryVars => TypeOK'
<1> SUFFICES ASSUME TypeOK, [RegistryNext]_registryVars PROVE TypeOK'
  OBVIOUS
<1>1. ASSUME NEW c \in Codes, MarkGenerated(c) PROVE TypeOK'
  BY <1>1, HistTyped DEF MarkGenerated, TypeOK, STATUSES
<1>2. ASSUME NEW c \in Codes, NEW s \in STATUSES, NEW source \in {"api", "app"},
             NEW force \in BOOLEAN, UpdateStatus(c, s, source, force)
      PROVE  TypeOK'
  <2>1. status[c] \in STATUSES
    BY <1>2 DEF UpdateStatus, Present, TypeOK
  <2>2. history' \in [Codes -> Seq(HistoryRow)]
    BY <1>2, <2>1, HistTyped DEF UpdateStatus
  <2> QED BY <1>2, <2>2 DEF UpdateStatus, TypeOK
<1>3. ASSUME NEW c \in Codes, NEW u \in Uids, NEW rebind \in BOOLEAN,
             SetNfc(c, u, rebind)
      PROVE  TypeOK'
  <2>1. nfcUid' \in [Codes -> Uids \cup {NoUid}]
    BY <1>3 DEF SetNfc, BindFreeTag, MoveTag, OtherHolders, TypeOK
  <2>2. /\ status' \in [Codes -> STATUSES \cup {Absent}]
        /\ history' \in [Codes -> Seq(HistoryRow)]
    <3>1. CASE status[c] \in NFC_PROMOTE_FROM
      BY <1>3, <3>1, HistTyped
         DEF SetNfc, Promote, NFC_PROMOTE_FROM, TypeOK, STATUSES
    <3>2. CASE status[c] \notin NFC_PROMOTE_FROM
      BY <1>3, <3>2 DEF SetNfc, Promote, TypeOK
    <3> QED BY <3>1, <3>2
  <2> QED BY <1>3, <2>1, <2>2 DEF SetNfc, TypeOK
<1>4. ASSUME NEW b \in BatchIds, NEW n \in 0..MaxBatch, NEW k \in Keys \cup {NoKey},
             CreateBatch(b, n, k)
      PROVE  TypeOK'
  BY <1>4 DEF CreateBatch, TypeOK, airlockVars, BatchStatuses
<1>5. ASSUME NEW b \in BatchIds, NEW c \in Codes, AddAirlock(c, b) PROVE TypeOK'
  BY <1>5, HistTyped DEF AddAirlock, TypeOK, STATUSES
<1>6. ASSUME NEW b \in BatchIds, NEW s \in BatchStatuses, FinishBatch(b, s)
      PROVE  TypeOK'
  BY <1>6 DEF FinishBatch, TypeOK
<1>7. CASE UNCHANGED registryVars
  BY <1>7 DEF registryVars, TypeOK
<1> QED
  BY <1>1, <1>2, <1>3, <1>4, <1>5, <1>6, <1>7
     DEF RegistryNext, LockNext, BatchNext, Forces, STATUSES

\* Every table keeps to its schema, whatever the clients call.
THEOREM RegistryTypes == RegistrySpec => []TypeOK
<1>1. RegistryInit => TypeOK
  BY DEF RegistryInit, TypeOK
<1> QED BY <1>1, TypePreserved, PTL DEF RegistrySpec
------------------------------------------------------------------------------
(***************************************************************************)
(* One tag, one lock.  Only set_nfc writes the column: it binds a tag      *)
(* nobody else holds, or releases the one other holder in the same         *)
(* transaction.                                                            *)
(***************************************************************************)
LEMMA SetNfcKeepsTagOnOneLock ==
  ASSUME TypeOK, TagOnOneLock, NEW c \in Codes, NEW u \in Uids,
         NEW rebind \in BOOLEAN, SetNfc(c, u, rebind)
  PROVE  TagOnOneLock'
<1>1. CASE BindFreeTag(c, u, rebind)
  BY <1>1 DEF BindFreeTag, OtherHolders, TagOnOneLock, Bound, TypeOK
<1>2. CASE MoveTag(c, u, rebind)
  <2>1. PICK from \in OtherHolders(c, u) :
          nfcUid' = [nfcUid EXCEPT ![c] = u, ![from] = NoUid]
    BY <1>2 DEF MoveTag
  <2>2. \A d \in OtherHolders(c, u) : d = from
    BY <2>1 DEF OtherHolders, TagOnOneLock, Bound
  <2> QED BY <2>1, <2>2 DEF OtherHolders, TagOnOneLock, Bound, TypeOK
<1> QED BY <1>1, <1>2 DEF SetNfc

\* No other method writes the column.
LEMMA NfcWriters ==
  ASSUME [RegistryNext]_registryVars
  PROVE  nfcUid' = nfcUid \/ \E c \in Codes, u \in Uids, rebind \in BOOLEAN :
                               SetNfc(c, u, rebind)
  BY DEF RegistryNext, LockNext, BatchNext, registryVars, airlockVars,
         MarkGenerated, UpdateStatus, CreateBatch, AddAirlock, FinishBatch

\* A tag is bound to at most one lock, for any number of locks and tags.
THEOREM TagUniqueness == RegistrySpec => []TagOnOneLock
<1>1. RegistryInit => TagOnOneLock
  BY DEF RegistryInit, TagOnOneLock, Bound
<1>2. TypeOK /\ TagOnOneLock /\ [RegistryNext]_registryVars => TagOnOneLock'
  <2> SUFFICES ASSUME TypeOK, TagOnOneLock, [RegistryNext]_registryVars
               PROVE  TagOnOneLock'
    OBVIOUS
  <2>1. CASE nfcUid' = nfcUid
    BY <2>1 DEF TagOnOneLock, Bound
  <2>2. ASSUME NEW c \in Codes, NEW u \in Uids, NEW rebind \in BOOLEAN,
               SetNfc(c, u, rebind)
        PROVE  TagOnOneLock'
    BY <2>2, SetNfcKeepsTagOnOneLock
  <2>3. nfcUid' = nfcUid \/ \E c \in Codes, u \in Uids, rebind \in BOOLEAN :
                             SetNfc(c, u, rebind)
    BY NfcWriters
  <2> QED BY <2>1, <2>2, <2>3
<1> QED BY <1>1, <1>2, RegistryTypes, PTL DEF RegistrySpec

------------------------------------------------------------------------------
(***************************************************************************)
(* The registry implements TagMarriage.                                    *)
(***************************************************************************)
LEMMA LockOfIs ==
  TagOnOneLock => \A u \in Uids :
    /\ LockOf(u) \in Codes \cup {NoLock}
    /\ \A c \in Codes : LockOf(u) = c <=> nfcUid[c] = u
<1> SUFFICES ASSUME TagOnOneLock, NEW u \in Uids
             PROVE  /\ LockOf(u) \in Codes \cup {NoLock}
                    /\ \A c \in Codes : LockOf(u) = c <=> nfcUid[c] = u
  OBVIOUS
<1>1. CASE \E c \in Codes : nfcUid[c] = u
  BY <1>1 DEF LockOf, TagOnOneLock, Bound
<1>2. CASE ~ \E c \in Codes : nfcUid[c] = u
  BY <1>2, NoLockAssumption DEF LockOf
<1> QED BY <1>1, <1>2

\* The same of the next state.
LEMMA LockOfIsNext ==
  TagOnOneLock' => \A u \in Uids :
    /\ LockOf(u)' \in Codes \cup {NoLock}
    /\ \A c \in Codes : LockOf(u)' = c <=> nfcUid'[c] = u
<1> SUFFICES ASSUME TagOnOneLock', NEW u \in Uids
             PROVE  /\ LockOf(u)' \in Codes \cup {NoLock}
                    /\ \A c \in Codes : LockOf(u)' = c <=> nfcUid'[c] = u
  OBVIOUS
<1>1. CASE \E c \in Codes : nfcUid'[c] = u
  BY <1>1 DEF LockOf, TagOnOneLock, Bound
<1>2. CASE ~ \E c \in Codes : nfcUid'[c] = u
  BY <1>2, NoLockAssumption DEF LockOf
<1> QED BY <1>1, <1>2

\* Binding a tag, seen from the tags.
LEMMA SetNfcMarries ==
  ASSUME TypeOK, TagOnOneLock, TagOnOneLock', NEW c \in Codes, NEW u \in Uids,
         NEW rebind \in BOOLEAN, SetNfc(c, u, rebind)
  PROVE  Marriage!Marry(u, c)
<1>1. nfcUid'[c] = u
  BY DEF SetNfc, BindFreeTag, MoveTag, OtherHolders, TypeOK
<1>2. \A d \in Codes \ {c} : nfcUid'[d] = IF nfcUid[d] = u THEN NoUid ELSE nfcUid[d]
  <2>1. CASE BindFreeTag(c, u, rebind)
    BY <2>1 DEF BindFreeTag, OtherHolders, TypeOK
  <2>2. CASE MoveTag(c, u, rebind)
    BY <2>2 DEF MoveTag, OtherHolders, TagOnOneLock, Bound, TypeOK
  <2> QED BY <2>1, <2>2 DEF SetNfc
<1>3. holderMap[u] \in {NoLock, c} \/ BetaTagMove
  <2>1. CASE BindFreeTag(c, u, rebind)
    BY <2>1, LockOfIs DEF BindFreeTag, OtherHolders, holderMap
  <2>2. CASE MoveTag(c, u, rebind)
    BY <2>2 DEF MoveTag
  <2> QED BY <2>1, <2>2 DEF SetNfc
<1>4. ASSUME NEW s \in Uids
      PROVE  LockOf(s)' = IF s = u THEN c
                          ELSE IF LockOf(s) = c THEN NoLock ELSE LockOf(s)
  <2>1. CASE s = u
    BY <2>1, <1>1, LockOfIsNext
  <2>2. CASE s # u
    <3>1. \A d \in Codes : nfcUid'[d] = s <=> d # c /\ nfcUid[d] = s
      BY <2>2, <1>1, <1>2
    <3> QED BY <2>2, <3>1, LockOfIs, LockOfIsNext, NoLockAssumption
  <2> QED BY <2>1, <2>2
<1>5. holderMap' = [s \in Uids |-> IF s = u THEN c
                                   ELSE IF holderMap[s] = c THEN NoLock
                                   ELSE holderMap[s]]
  BY <1>4 DEF holderMap
<1> QED BY <1>3, <1>5 DEF Marriage!Marry

\* The registry treats tags as TagMarriage says: a tag has one lock, a lock
\* one tag, and a tag in use changes hands only under the beta switch.
THEOREM RegistryMarriesTags == RegistrySpec => TagsAreMarried
<1>1. RegistryInit => Marriage!Init
  BY DEF RegistryInit, Marriage!Init, holderMap, LockOf
<1>2. TypeOK /\ TagOnOneLock /\ TagOnOneLock' /\ [RegistryNext]_registryVars
        => [Marriage!Next]_holderMap
  <2> SUFFICES ASSUME TypeOK, TagOnOneLock, TagOnOneLock',
                      [RegistryNext]_registryVars
               PROVE  [Marriage!Next]_holderMap
    OBVIOUS
  <2>1. CASE nfcUid' = nfcUid
    BY <2>1 DEF holderMap, LockOf
  <2>2. ASSUME NEW c \in Codes, NEW u \in Uids, NEW rebind \in BOOLEAN,
               SetNfc(c, u, rebind)
        PROVE  Marriage!Next
    BY <2>2, SetNfcMarries DEF Marriage!Next
  <2>3. nfcUid' = nfcUid \/ \E c \in Codes, u \in Uids, rebind \in BOOLEAN :
                             SetNfc(c, u, rebind)
    BY NfcWriters
  <2> QED BY <2>1, <2>2, <2>3
<1> QED
  BY <1>1, <1>2, RegistryTypes, TagUniqueness, PTL
     DEF RegistrySpec, TagsAreMarried, Marriage!Spec
------------------------------------------------------------------------------
(***************************************************************************)
(* The audit trail.  A step writes the history of at most one code, and    *)
(* then the new row ends in the code's new status.                         *)
(***************************************************************************)
NewRow(c) == LastRow(c)'

\* One code gets one honest row.
Logs(c) ==
  /\ Len(history'[c]) = Len(history[c]) + 1
  /\ \A i \in 1..Len(history[c]) : history'[c][i] = history[c][i]
  /\ history'[c] # <<>>
  /\ NewRow(c).to = status'[c]
  /\ status'[c] # Absent
  /\ NewRow(c).forced => ~PatchStep(NewRow(c))
  /\ NewRow(c).forced \/ SystemStep(NewRow(c)) \/ PatchStep(NewRow(c))
  /\ NewRow(c).from = status[c] \/ (Present(c) /\ RenderRow(NewRow(c)))

LogsOnly(c) ==
  /\ Logs(c)
  /\ \A d \in Codes \ {c} : history'[d] = history[d] /\ status'[d] = status[d]

LEMMA HistLogs ==
  ASSUME TypeOK, NEW c \in Codes, NEW from \in STATUSES \cup {Absent},
         NEW to \in STATUSES, NEW source \in {"system", "app", "api"},
         NEW forced \in BOOLEAN, Hist(c, from, to, source, forced)
  PROVE  /\ Len(history'[c]) = Len(history[c]) + 1
         /\ \A i \in 1..Len(history[c]) : history'[c][i] = history[c][i]
         /\ history'[c] # <<>>
         /\ NewRow(c) = [from |-> from, to |-> to, source |-> source, forced |-> forced]
         /\ \A d \in Codes \ {c} : history'[d] = history[d]
<1> DEFINE row == [from |-> from, to |-> to, source |-> source, forced |-> forced]
<1>1. row \in HistoryRow
  BY DEF HistoryRow
<1>2. history[c] \in Seq(HistoryRow)
  BY DEF TypeOK
<1>3. history'[c] = Append(history[c], row)
  BY DEF Hist, TypeOK
<1>4. \A d \in Codes \ {c} : history'[d] = history[d]
  BY DEF Hist, TypeOK
<1> QED BY <1>1, <1>2, <1>3, <1>4, AppendFacts DEF NewRow, LastRow

\* A write of status[c] that logs an honest row.
LEMMA HonestWrite ==
  ASSUME TypeOK, NEW c \in Codes, NEW from \in STATUSES \cup {Absent},
         NEW to \in STATUSES, NEW source \in {"system", "app", "api"},
         NEW forced \in BOOLEAN, Hist(c, from, to, source, forced),
         status' = [status EXCEPT ![c] = to],
         LET row == [from |-> from, to |-> to, source |-> source, forced |-> forced]
         IN  /\ row.forced => ~PatchStep(row)
             /\ row.forced \/ SystemStep(row) \/ PatchStep(row)
             /\ from = status[c] \/ (Present(c) /\ RenderRow(row))
  PROVE  LogsOnly(c)
<1>1. status'[c] = to /\ \A d \in Codes \ {c} : status'[d] = status[d]
  BY DEF TypeOK
<1>2. /\ Len(history'[c]) = Len(history[c]) + 1
      /\ \A i \in 1..Len(history[c]) : history'[c][i] = history[c][i]
      /\ history'[c] # <<>>
      /\ NewRow(c) = [from |-> from, to |-> to, source |-> source, forced |-> forced]
      /\ \A d \in Codes \ {c} : history'[d] = history[d]
  BY HistLogs
<1>3. to # Absent
  BY AbsentIsNoStatus
<1> QED BY <1>1, <1>2, <1>3 DEF LogsOnly, Logs

LEMMA AddLogs ==
  ASSUME TypeOK, NEW c \in Codes, NEW b \in BatchIds, AddAirlock(c, b)
  PROVE  LogsOnly(c)
<1>1. Hist(c, Absent, "reserved", "system", FALSE) /\ status[c] = Absent
  BY DEF AddAirlock, Present
<1> QED BY <1>1, HonestWrite DEF AddAirlock, SystemStep, STATUSES

LEMMA RenderLogs ==
  ASSUME TypeOK, NEW c \in Codes, MarkGenerated(c)
  PROVE  LogsOnly(c)
<1>1. Hist(c, "reserved", "generated", "system", FALSE) /\ Present(c)
  BY DEF MarkGenerated
<1> QED BY <1>1, HonestWrite DEF MarkGenerated, SystemStep, RenderRow, STATUSES

LEMMA UpdateLogs ==
  ASSUME TypeOK, NEW c \in Codes, NEW s \in STATUSES,
         NEW source \in {"api", "app"}, NEW force \in BOOLEAN,
         UpdateStatus(c, s, source, force)
  PROVE  LogsOnly(c)
<1>1. status[c] \in STATUSES
  BY DEF UpdateStatus, Present, TypeOK
<1>2. Hist(c, status[c], s, source, ~Allowed(c, s))
  BY DEF UpdateStatus
<1>3. PatchStep([from |-> status[c], to |-> s, source |-> source,
                 forced |-> ~Allowed(c, s)]) <=> Allowed(c, s)
  BY <1>1 DEF PatchStep, Allowed
<1>4. Allowed(c, s) \in BOOLEAN
  BY DEF Allowed
<1> QED BY <1>1, <1>2, <1>3, <1>4, HonestWrite DEF UpdateStatus

LEMMA PromoteLogs ==
  ASSUME TypeOK, NEW c \in Codes, Promote(c)
  PROVE  LogsOnly(c) \/ UNCHANGED <<status, history>>
<1>1. CASE status[c] \in NFC_PROMOTE_FROM
  <2>1. Hist(c, "printed", "registered", "app", FALSE) /\ status[c] = "printed"
    BY <1>1 DEF Promote, NFC_PROMOTE_FROM
  <2> QED BY <1>1, <2>1, HonestWrite DEF Promote, SystemStep, STATUSES
<1> QED BY <1>1 DEF Promote

\* What a step does to statuses and histories.
LEMMA StepLogs ==
  ASSUME TypeOK, [RegistryNext]_registryVars
  PROVE  (\E c \in Codes : LogsOnly(c)) \/ UNCHANGED <<status, history>>
<1>1. ASSUME NEW c \in Codes, NEW u \in Uids, NEW rebind \in BOOLEAN,
             SetNfc(c, u, rebind)
      PROVE  LogsOnly(c) \/ UNCHANGED <<status, history>>
  BY <1>1, PromoteLogs DEF SetNfc
<1>2. ASSUME NEW b \in BatchIds, NEW n \in 0..MaxBatch, NEW k \in Keys \cup {NoKey},
             CreateBatch(b, n, k)
      PROVE  UNCHANGED <<status, history>>
  BY <1>2 DEF CreateBatch, airlockVars
<1>3. ASSUME NEW b \in BatchIds, NEW s \in BatchStatuses, FinishBatch(b, s)
      PROVE  UNCHANGED <<status, history>>
  BY <1>3 DEF FinishBatch
<1>4. CASE UNCHANGED registryVars
  BY <1>4 DEF registryVars
<1> QED
  BY <1>1, <1>2, <1>3, <1>4, AddLogs, RenderLogs, UpdateLogs
     DEF RegistryNext, LockNext, BatchNext, Forces, STATUSES

LEMMA LogsKeepsAuditTrail ==
  ASSUME TypeOK, TypeOK', AuditTrail, NEW c \in Codes, LogsOnly(c)
  PROVE  AuditTrail'
<1>1. HistoryTip'
  BY DEF AuditTrail, HistoryTip, LogsOnly, Logs, NewRow, Present, LastRow
<1>2. ASSUME NEW i \in 1..Len(history'[c])
      PROVE  LET row == history'[c][i]
             IN  /\ row.forced => ~PatchStep(row)
                 /\ row.forced \/ SystemStep(row) \/ PatchStep(row)
                 /\ i = 1 => row.from = Absent
                 /\ i > 1 => RenderRow(row) \/ row.from = history'[c][i-1].to
  <2>0. /\ Len(history[c]) \in Nat
        /\ Len(history[c]) = 0 <=> history[c] = <<>>
    BY DEF TypeOK
  <2>1. CASE i <= Len(history[c])
    <3>1. i \in 1..Len(history[c]) /\ (i > 1 => i - 1 \in 1..Len(history[c]))
      BY <2>1, <2>0 DEF LogsOnly, Logs
    <3>2. /\ history'[c][i] = history[c][i]
          /\ i > 1 => history'[c][i-1] = history[c][i-1]
      BY <3>1 DEF LogsOnly, Logs
    <3> QED BY <3>1, <3>2 DEF AuditTrail, HistoryHonest
  <2>2. CASE i = Len(history[c]) + 1
    <3>1. history'[c][i] = NewRow(c)
      BY <2>2 DEF NewRow, LastRow, LogsOnly, Logs
    <3>2. i = 1 => ~Present(c)
      BY <2>0, <2>2 DEF AuditTrail, HistoryTip
    <3>3. i > 1 => Present(c) /\ history'[c][i-1].to = status[c]
      BY <2>0, <2>2 DEF AuditTrail, HistoryTip, LastRow, LogsOnly, Logs
    <3> QED BY <3>1, <3>2, <3>3 DEF LogsOnly, Logs, Present
  <2> QED BY <2>0, <2>1, <2>2 DEF LogsOnly, Logs
<1>3. HistoryHonest'
  BY <1>2 DEF AuditTrail, HistoryHonest, LogsOnly, SystemStep, PatchStep, RenderRow
<1> QED BY <1>1, <1>3 DEF AuditTrail

\* The status history is a true account of each lock: it ends in the lock's
\* status, has no gap but the renderer's, and marks exactly the steps that
\* are not part of the life cycle as forced.
THEOREM HistoryIsHonest == RegistrySpec => []AuditTrail
<1>1. RegistryInit => AuditTrail
  BY DEF RegistryInit, AuditTrail, HistoryTip, HistoryHonest, Present
<1>2. TypeOK /\ TypeOK' /\ AuditTrail /\ [RegistryNext]_registryVars => AuditTrail'
  <2> SUFFICES ASSUME TypeOK, TypeOK', AuditTrail, [RegistryNext]_registryVars
               PROVE  AuditTrail'
    OBVIOUS
  <2>1. CASE UNCHANGED <<status, history>>
    BY <2>1 DEF AuditTrail, HistoryTip, HistoryHonest, Present, LastRow
  <2> QED BY <2>1, StepLogs, LogsKeepsAuditTrail
<1> QED BY <1>1, <1>2, RegistryTypes, PTL DEF RegistrySpec
------------------------------------------------------------------------------
(***************************************************************************)
(* A registered lock keeps a tag.                                          *)
(***************************************************************************)
Tagged == {"registered", "active", "retired"}

\* Histories only grow, so a code that is unforced now was so before.
LEMMA UnforcedBefore ==
  ASSUME TypeOK, NEW c \in Codes, [RegistryNext]_registryVars, Unforced(c)'
  PROVE  Unforced(c)
<1>1. CASE UNCHANGED <<status, history>>
  BY <1>1 DEF Unforced
<1>2. CASE \E d \in Codes : LogsOnly(d)
  <2>1. Len(history[c]) \in Nat
    BY DEF TypeOK
  <2> QED BY <1>2, <2>1 DEF Unforced, LogsOnly, Logs
<1> QED BY <1>1, <1>2, StepLogs

\* No step of a lock takes it into these statuses without a tag.
LEMMA UpdateRow ==
  ASSUME TypeOK, NEW c \in Codes, NEW s \in STATUSES, NEW source \in {"api", "app"},
         NEW force \in BOOLEAN, UpdateStatus(c, s, source, force)
  PROVE  /\ NewRow(c).forced <=> ~Allowed(c, s)
         /\ Len(history'[c]) = Len(history[c]) + 1
<1>1. status[c] \in STATUSES /\ Hist(c, status[c], s, source, ~Allowed(c, s))
  BY DEF UpdateStatus, Present, TypeOK
<1>2. (~Allowed(c, s)) \in BOOLEAN
  BY DEF Allowed
<1>3. PICK forced \in BOOLEAN : forced = ~Allowed(c, s)
  BY <1>2
<1>4. Hist(c, status[c], s, source, forced)
  BY <1>1, <1>3
<1>5. /\ NewRow(c) = [from |-> status[c], to |-> s, source |-> source, forced |-> forced]
      /\ Len(history'[c]) = Len(history[c]) + 1
  BY <1>1, <1>4, HistLogs
<1>6. NewRow(c).forced = forced
  BY <1>5
<1> QED BY <1>3, <1>5, <1>6

LEMMA UpdateKeepsTag ==
  ASSUME TypeOK, RegisteredHasTag, ~BetaTagMove, NEW c \in Codes, NEW s \in STATUSES,
         NEW source \in {"api", "app"}, NEW force \in BOOLEAN,
         UpdateStatus(c, s, source, force), Unforced(c), Unforced(c)', s \in Tagged
  PROVE  nfcUid'[c] # NoUid
<1>1. status[c] \in STATUSES
  BY DEF UpdateStatus, Present, TypeOK
<1>2. ~NewRow(c).forced
  <2>1. Len(history[c]) \in Nat
    BY DEF TypeOK
  <2>2. Len(history'[c]) \in 1..Len(history'[c])
    BY <2>1, UpdateRow
  <2> QED BY <2>2 DEF Unforced, NewRow, LastRow
<1>5. Allowed(c, s)
  BY <1>2, UpdateRow
<1>6. status[c] \in Tagged
  BY <1>1, <1>5 DEF Allowed, ALLOWED_TRANSITIONS, Tagged, STATUSES
<1> QED BY <1>6 DEF RegisteredHasTag, Bound, UpdateStatus, Tagged

\* A lock that became registered, active or retired without force has a tag,
\* as long as tags are not moved between locks.
THEOREM RegisteredLocksHaveTags == RegistrySpec => []RegisteredHasTag
<1>1. RegistryInit => RegisteredHasTag
  BY DEF RegistryInit, RegisteredHasTag, Absent
<1>2. TypeOK /\ RegisteredHasTag /\ [RegistryNext]_registryVars => RegisteredHasTag'
  <2> SUFFICES ASSUME TypeOK, RegisteredHasTag, [RegistryNext]_registryVars,
                      ~BetaTagMove, NEW c \in Codes, Unforced(c)',
                      status'[c] \in Tagged
               PROVE  nfcUid'[c] # NoUid
    BY DEF RegisteredHasTag, Tagged, Bound
  <2>0. Unforced(c)
    BY UnforcedBefore
  <2>1. ASSUME status'[c] = status[c], nfcUid'[c] = nfcUid[c] PROVE nfcUid'[c] # NoUid
    BY <2>0, <2>1 DEF RegisteredHasTag, Tagged, Bound
  <2>2. ASSUME NEW d \in Codes, MarkGenerated(d) PROVE nfcUid'[c] # NoUid
    BY <2>1, <2>2 DEF MarkGenerated, Tagged, TypeOK
  <2>3. ASSUME NEW d \in Codes, NEW s \in STATUSES, NEW source \in {"api", "app"},
               NEW force \in BOOLEAN, UpdateStatus(d, s, source, force)
        PROVE  nfcUid'[c] # NoUid
    <3>1. CASE d = c
      BY <2>0, <2>3, <3>1, UpdateKeepsTag DEF UpdateStatus, TypeOK
    <3>2. CASE d # c
      BY <2>1, <2>3, <3>2 DEF UpdateStatus, TypeOK
    <3> QED BY <3>1, <3>2
  <2>4. ASSUME NEW d \in Codes, NEW u \in Uids, NEW rebind \in BOOLEAN,
               SetNfc(d, u, rebind)
        PROVE  nfcUid'[c] # NoUid
    <3>0. nfcUid' = [nfcUid EXCEPT ![d] = u]
      BY <2>4 DEF SetNfc, BindFreeTag, MoveTag
    <3>1. CASE d = c
      BY <3>0, <3>1 DEF TypeOK
    <3>2. CASE d # c
      <4>1. status'[c] = status[c]
        BY <2>4, <3>2 DEF SetNfc, Promote, TypeOK
      <4> QED BY <2>1, <3>0, <3>2, <4>1 DEF TypeOK
    <3> QED BY <3>1, <3>2
  <2>5. ASSUME NEW b \in BatchIds, NEW n \in 0..MaxBatch, NEW k \in Keys \cup {NoKey},
               CreateBatch(b, n, k)
        PROVE  nfcUid'[c] # NoUid
    BY <2>1, <2>5 DEF CreateBatch, airlockVars
  <2>6. ASSUME NEW b \in BatchIds, NEW d \in Codes, AddAirlock(d, b)
        PROVE  nfcUid'[c] # NoUid
    BY <2>1, <2>6 DEF AddAirlock, Tagged, TypeOK
  <2>7. ASSUME NEW b \in BatchIds, NEW s \in BatchStatuses, FinishBatch(b, s)
        PROVE  nfcUid'[c] # NoUid
    BY <2>1, <2>7 DEF FinishBatch
  <2>8. CASE UNCHANGED registryVars
    BY <2>1, <2>8 DEF registryVars
  <2> QED
    BY <2>2, <2>3, <2>4, <2>5, <2>6, <2>7, <2>8
       DEF RegistryNext, LockNext, BatchNext, Forces, STATUSES
<1> QED BY <1>1, <1>2, RegistryTypes, PTL DEF RegistrySpec

------------------------------------------------------------------------------
(***************************************************************************)
(* Codes are issued once.                                                  *)
(***************************************************************************)

\* Only add_airlock writes batch_id, and only where there is no row.
LEMMA BatchKept ==
  ASSUME TypeOK, [RegistryNext]_registryVars, NEW c \in Codes, Present(c)
  PROVE  batchOf'[c] = batchOf[c]
<1>1. CASE \E d \in Codes, b \in BatchIds : AddAirlock(d, b)
  BY <1>1 DEF AddAirlock, TypeOK
<1>2. CASE ~ \E d \in Codes, b \in BatchIds : AddAirlock(d, b)
  BY <1>2 DEF RegistryNext, LockNext, BatchNext, registryVars, airlockVars,
              MarkGenerated, UpdateStatus, SetNfc, CreateBatch, FinishBatch
<1> QED BY <1>1, <1>2

\* A code gets one row, from one batch, for ever, and no row of its history
\* is changed or removed.
THEOREM CodesAreIssuedOnce == RegistrySpec => IssuedOnce
<1> DEFINE Kept ==
      \A c \in Codes : Present(c) =>
        /\ batchOf'[c] = batchOf[c]
        /\ Len(history'[c]) >= Len(history[c])
        /\ \A i \in 1..Len(history[c]) : history'[c][i] = history[c][i]
<1>1. TypeOK /\ [RegistryNext]_registryVars => [Kept]_registryVars
  <2> SUFFICES ASSUME TypeOK, [RegistryNext]_registryVars, NEW c \in Codes, Present(c)
               PROVE  /\ batchOf'[c] = batchOf[c]
                      /\ Len(history'[c]) >= Len(history[c])
                      /\ \A i \in 1..Len(history[c]) : history'[c][i] = history[c][i]
    OBVIOUS
  <2>1. Len(history[c]) \in Nat
    BY DEF TypeOK
  <2>2. CASE UNCHANGED <<status, history>>
    BY <2>1, <2>2, BatchKept
  <2>3. CASE \E d \in Codes : LogsOnly(d)
    BY <2>1, <2>3, BatchKept DEF LogsOnly, Logs
  <2> QED BY <2>2, <2>3, StepLogs
<1> QED BY <1>1, RegistryTypes, PTL DEF RegistrySpec, IssuedOnce

------------------------------------------------------------------------------
(***************************************************************************)
(* Terminal is terminal, once rendered.                                    *)
(***************************************************************************)
LEMMA TerminalKept ==
  ASSUME TypeOK, [RegistryNext]_registryVars, NEW c \in Codes,
         stl[c], status[c] \in TERMINAL, status'[c] # status[c]
  PROVE  NewRow(c).forced
<1>1. status[c] \in STATUSES
  BY DEF TERMINAL, STATUSES
<1>2. ASSUME NEW d \in Codes, NEW s \in STATUSES, NEW source \in {"api", "app"},
             NEW force \in BOOLEAN, UpdateStatus(d, s, source, force)
      PROVE  NewRow(c).forced
  <2>1. d = c
    BY <1>2 DEF UpdateStatus, TypeOK
  <2>2. ~Allowed(c, s)
    BY DEF Allowed, ALLOWED_TRANSITIONS, TERMINAL, STATUSES
  <2> QED BY <1>2, <2>1, <2>2, UpdateRow
<1>3. ASSUME NEW d \in Codes, MarkGenerated(d) PROVE FALSE
  BY <1>3 DEF MarkGenerated, TypeOK
<1>4. ASSUME NEW d \in Codes, NEW u \in Uids, NEW rebind \in BOOLEAN,
             SetNfc(d, u, rebind)
      PROVE  FALSE
  BY <1>4 DEF SetNfc, Promote, NFC_PROMOTE_FROM, TERMINAL, TypeOK
<1>5. ASSUME NEW b \in BatchIds, NEW d \in Codes, AddAirlock(d, b) PROVE FALSE
  BY <1>1, <1>5, AbsentIsNoStatus DEF AddAirlock, Present, TypeOK
<1>6. ASSUME NEW b \in BatchIds, NEW n \in 0..MaxBatch, NEW k \in Keys \cup {NoKey},
             CreateBatch(b, n, k)
      PROVE  FALSE
  BY <1>6 DEF CreateBatch, airlockVars
<1>7. ASSUME NEW b \in BatchIds, NEW s \in BatchStatuses, FinishBatch(b, s)
      PROVE  FALSE
  BY <1>7 DEF FinishBatch
<1>8. CASE UNCHANGED registryVars
  BY <1>8 DEF registryVars
<1> QED
  BY <1>2, <1>3, <1>4, <1>5, <1>6, <1>7, <1>8
     DEF RegistryNext, LockNext, BatchNext, Forces, STATUSES

\* Once a lock is rendered, retired and voided are final but for a step
\* that the history marks as forced.
THEOREM TerminalIsFinal == RegistrySpec => TerminalOnceRendered
<1> DEFINE Final ==
      \A c \in Codes :
        stl[c] /\ status[c] \in TERMINAL /\ status'[c] # status[c]
          => history'[c][Len(history'[c])].forced
<1>1. TypeOK /\ [RegistryNext]_registryVars => [Final]_registryVars
  BY TerminalKept DEF NewRow, LastRow
<1> QED BY <1>1, RegistryTypes, PTL DEF RegistrySpec, TerminalOnceRendered
------------------------------------------------------------------------------
(***************************************************************************)
(* What a client may rely on: a lock stays, and so does what its history   *)
(* says it has been.                                                       *)
(***************************************************************************)
LEMMA LocksStay ==
  ASSUME TypeOK, [RegistryNext]_registryVars, NEW c \in Codes, Present(c)
  PROVE  status'[c] # Absent
  BY StepLogs, AbsentIsNoStatus DEF LogsOnly, Logs, Present

LEMMA ReachedStays ==
  ASSUME TypeOK, [RegistryNext]_registryVars, NEW c \in Codes, NEW S, Reached(c, S)
  PROVE  \E i \in 1..Len(history'[c]) : history'[c][i].to \in S
<1>1. Len(history[c]) \in Nat
  BY DEF TypeOK
<1>2. CASE UNCHANGED <<status, history>>
  BY <1>2 DEF Reached
<1>3. CASE \E d \in Codes : LogsOnly(d)
  BY <1>1, <1>3 DEF Reached, LogsOnly, Logs
<1> QED BY <1>2, <1>3, StepLogs

LEMMA HereReached ==
  ASSUME TypeOK, HistoryTip, NEW c \in Codes, NEW S, Present(c), status[c] \in S
  PROVE  Reached(c, S)
<1>1. history[c] \in Seq(HistoryRow) /\ history[c] # <<>> /\ LastRow(c).to \in S
  BY DEF TypeOK, HistoryTip
<1>2. Len(history[c]) \in 1..Len(history[c])
  BY <1>1
<1> QED BY <1>1, <1>2 DEF Reached, LastRow

LEMMA HereReachedNext ==
  ASSUME TypeOK', HistoryTip', NEW c \in Codes, NEW S, status'[c] # Absent, status'[c] \in S
  PROVE  \E i \in 1..Len(history'[c]) : history'[c][i].to \in S
<1>1. history'[c] \in Seq(HistoryRow) /\ history'[c] # <<>> /\ LastRow(c)'.to \in S
  BY DEF TypeOK, HistoryTip, Present
<1>2. Len(history'[c]) \in 1..Len(history'[c])
  BY <1>1
<1> QED BY <1>1, <1>2 DEF LastRow
==============================================================================
