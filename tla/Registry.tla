------------------------------- MODULE Registry ------------------------------
(***************************************************************************)
(* The SQLite registry (app/registry.py): the airlocks, batches and        *)
(* status_history tables.  Each action is one method that writes, that is  *)
(* one transaction under the registry's lock; a method that raises leaves  *)
(* the tables as they were and is no step.  Next is the most general       *)
(* client: the modules of the request handlers extend this one and show    *)
(* that each of their steps is one of these, or leaves the tables alone.   *)
(***************************************************************************)
EXTENDS Lifecycle, Naturals, Sequences

CONSTANTS
  Codes,         \* the code space
  Uids,          \* normalised NFC tag UIDs
  BatchIds,      \* the batch ids uuid4 draws from
  Keys,          \* idempotency keys
  NoUid, NoKey, NoBatch,   \* SQL NULL in the respective column
  BetaTagMove,   \* settings.beta_tag_move
  MaxBatch,      \* settings.max_batch
  AllowForce,    \* whether the holder of the full key ever sends force=true
  MaxHistory     \* bound: history rows a code may collect

ASSUME RegistryAssumption ==
  /\ NoUid \notin Uids
  /\ NoKey \notin Keys
  /\ NoBatch \notin BatchIds
  /\ BetaTagMove \in BOOLEAN
  /\ MaxBatch \in Nat
  /\ AllowForce \in BOOLEAN
  /\ MaxHistory \in Nat

VARIABLES
  status,        \* airlocks.status, Absent where the code has no row
  nfcUid,        \* airlocks.nfc_uid
  batchOf,       \* airlocks.batch_id
  stl,           \* airlocks.stl_path is set
  history,       \* the status_history rows of each code, in id order
  batchStatus,   \* batches.status, Absent where the batch has no row
  batchKey,      \* batches.idempotency_key
  batchCount     \* batches.count

airlockVars == <<status, nfcUid, batchOf, stl, history>>
batchVars   == <<batchStatus, batchKey, batchCount>>
registryVars == <<status, nfcUid, batchOf, stl, history,
                  batchStatus, batchKey, batchCount>>

BatchStatuses == {"pending", "completed", "partial", "failed"}

HistoryRow == [from: STATUSES \cup {Absent}, to: STATUSES,
               source: {"system", "app", "api"}, forced: BOOLEAN]

Present(c) == status[c] # Absent

Bound(c) == nfcUid[c] # NoUid

\* The flags a PATCH request can end up with.
Forces == IF AllowForce THEN BOOLEAN ELSE {FALSE}

------------------------------------------------------------------------------
RegistryInit ==
  /\ status  = [c \in Codes |-> Absent]
  /\ nfcUid  = [c \in Codes |-> NoUid]
  /\ batchOf = [c \in Codes |-> NoBatch]
  /\ stl     = [c \in Codes |-> FALSE]
  /\ history = [c \in Codes |-> <<>>]
  /\ batchStatus = [b \in BatchIds |-> Absent]
  /\ batchKey    = [b \in BatchIds |-> NoKey]
  /\ batchCount  = [b \in BatchIds |-> 0]

\* Mutant of _hist: only the last row is kept.
HistLastOnly(c, from, to, source, forced) ==
  /\ Len(history[c]) < MaxHistory
  /\ history' = [history EXCEPT ![c] =
       <<[from |-> from, to |-> to, source |-> source, forced |-> forced]>>]

\* _hist: one more row for c, within the MaxHistory bound.
Hist(c, from, to, source, forced) ==
  /\ Len(history[c]) < MaxHistory
  /\ history' = [history EXCEPT ![c] =
       Append(@, [from |-> from, to |-> to, source |-> source, forced |-> forced])]

\* Mutant: the key is not UNIQUE.
CreateBatchAnyKey(b, n, k) ==
  /\ batchStatus[b] = Absent
  /\ batchStatus' = [batchStatus EXCEPT ![b] = "pending"]
  /\ batchKey'    = [batchKey EXCEPT ![b] = k]
  /\ batchCount'  = [batchCount EXCEPT ![b] = n]
  /\ UNCHANGED airlockVars

\* create_batch: batch_id is the primary key, idempotency_key is UNIQUE
\* (SQL lets any number of NULLs be).
CreateBatch(b, n, k) ==
  /\ batchStatus[b] = Absent
  /\ k = NoKey \/ \A other \in BatchIds : batchKey[other] # k
  /\ batchStatus' = [batchStatus EXCEPT ![b] = "pending"]
  /\ batchKey'    = [batchKey EXCEPT ![b] = k]
  /\ batchCount'  = [batchCount EXCEPT ![b] = n]
  /\ UNCHANGED airlockVars

\* Mutant: INSERT OR REPLACE.
AddAirlockReplaces(c, b) ==
  /\ batchStatus[b] # Absent
  /\ status'  = [status EXCEPT ![c] = "reserved"]
  /\ nfcUid'  = [nfcUid EXCEPT ![c] = NoUid]
  /\ batchOf' = [batchOf EXCEPT ![c] = b]
  /\ stl'     = [stl EXCEPT ![c] = FALSE]
  /\ Hist(c, Absent, "reserved", "system", FALSE)
  /\ UNCHANGED batchVars

\* add_airlock: code is the primary key, batch_id a foreign key.
AddAirlock(c, b) ==
  /\ ~Present(c)
  /\ batchStatus[b] # Absent
  /\ status'  = [status EXCEPT ![c] = "reserved"]
  /\ batchOf' = [batchOf EXCEPT ![c] = b]
  /\ Hist(c, Absent, "reserved", "system", FALSE)
  /\ UNCHANGED <<nfcUid, stl, batchStatus, batchKey, batchCount>>

\* mark_generated overwrites whatever status the row has by now, and logs
\* the step as if it had still been reserved.  Its only caller renders a
\* code once, right after adding it: hence ~stl[c].
MarkGenerated(c) ==
  /\ Present(c)
  /\ ~stl[c]
  /\ status' = [status EXCEPT ![c] = "generated"]
  /\ stl'    = [stl EXCEPT ![c] = TRUE]
  /\ Hist(c, "reserved", "generated", "system", FALSE)
  /\ UNCHANGED <<nfcUid, batchOf, batchStatus, batchKey, batchCount>>

\* finish_batch.
FinishBatch(b, s) ==
  /\ batchStatus[b] # Absent
  /\ batchStatus' = [batchStatus EXCEPT ![b] = s]
  /\ UNCHANGED <<status, nfcUid, batchOf, stl, history, batchKey, batchCount>>

Allowed(c, s) == s \in ALLOWED_TRANSITIONS[status[c]]

\* Mutant: the row is marked as forced because force was sent, needed or not.
UpdateStatusLogsFlag(c, s, source, force) ==
  /\ Present(c)
  /\ status[c] # s
  /\ Allowed(c, s) \/ force
  /\ status' = [status EXCEPT ![c] = s]
  /\ Hist(c, status[c], s, source, force)
  /\ UNCHANGED <<nfcUid, batchOf, stl, batchStatus, batchKey, batchCount>>

\* update_status, when it changes anything: the same status again is a
\* no-op, a step that is neither allowed nor forced raises.
UpdateStatus(c, s, source, force) ==
  /\ Present(c)
  /\ status[c] # s
  /\ Allowed(c, s) \/ force
  /\ status' = [status EXCEPT ![c] = s]
  /\ Hist(c, status[c], s, source, ~Allowed(c, s))
  /\ UNCHANGED <<nfcUid, batchOf, stl, batchStatus, batchKey, batchCount>>
------------------------------------------------------------------------------
(***************************************************************************)
(* set_nfc: bind tag u to lock c.                                          *)
(***************************************************************************)

\* Replacing the tag of a lock takes rebind.
MayTake(c, u, rebind) == nfcUid[c] \in {NoUid, u} \/ rebind

OtherHolders(c, u) == {d \in Codes \ {c} : nfcUid[d] = u}

\* Binding lifts a printed lock to registered and leaves other statuses.
Promote(c) ==
  IF status[c] \in NFC_PROMOTE_FROM
  THEN /\ status' = [status EXCEPT ![c] = "registered"]
       /\ Hist(c, status[c], "registered", "app", FALSE)
  ELSE UNCHANGED <<status, history>>

\* Mutant: a rebind takes the old tag off and does not bind the new one.
BindFreeTagReleases(c, u, rebind) ==
  /\ OtherHolders(c, u) = {}
  /\ nfcUid' = [nfcUid EXCEPT ![c] = IF Bound(c) THEN NoUid ELSE u]

\* No other lock holds the tag.
BindFreeTag(c, u, rebind) ==
  /\ OtherHolders(c, u) = {}
  /\ nfcUid' = [nfcUid EXCEPT ![c] = u]

\* Mutants: the other lock is not released; it is, but the tag is not bound
\* here.
MoveTagKeepsOther(c, u, rebind) ==
  /\ rebind /\ BetaTagMove
  /\ OtherHolders(c, u) # {}
  /\ nfcUid' = [nfcUid EXCEPT ![c] = u]

MoveTagReleasesOnly(c, u, rebind) ==
  /\ rebind /\ BetaTagMove
  /\ \E from \in OtherHolders(c, u) : nfcUid' = [nfcUid EXCEPT ![from] = NoUid]

\* Another lock holds the tag: with rebind and the beta switch the first one
\* the query returns loses it, otherwise the call raises.
MoveTag(c, u, rebind) ==
  /\ rebind /\ BetaTagMove
  /\ \E from \in OtherHolders(c, u) :
       nfcUid' = [nfcUid EXCEPT ![c] = u, ![from] = NoUid]

SetNfc(c, u, rebind) ==
  /\ Present(c)
  /\ MayTake(c, u, rebind)
  /\ BindFreeTag(c, u, rebind) \/ MoveTag(c, u, rebind)
  /\ Promote(c)
  /\ UNCHANGED <<batchOf, stl, batchStatus, batchKey, batchCount>>
------------------------------------------------------------------------------
LockNext ==
  \E c \in Codes :
    \/ MarkGenerated(c)
    \/ \E s \in STATUSES, force \in Forces : UpdateStatus(c, s, "api", force)
    \/ UpdateStatus(c, "printed", "app", FALSE)
    \/ \E u \in Uids, rebind \in BOOLEAN : SetNfc(c, u, rebind)

BatchNext ==
  \E b \in BatchIds :
    \/ \E n \in 0..MaxBatch, k \in Keys \cup {NoKey} : CreateBatch(b, n, k)
    \/ \E c \in Codes : AddAirlock(c, b)
    \/ \E s \in BatchStatuses \ {"pending"} : FinishBatch(b, s)

RegistryNext == LockNext \/ BatchNext

RegistrySpec == RegistryInit /\ [][RegistryNext]_registryVars
------------------------------------------------------------------------------
TypeOK ==
  /\ status  \in [Codes -> STATUSES \cup {Absent}]
  /\ nfcUid  \in [Codes -> Uids \cup {NoUid}]
  /\ batchOf \in [Codes -> BatchIds \cup {NoBatch}]
  /\ stl     \in [Codes -> BOOLEAN]
  /\ history \in [Codes -> Seq(HistoryRow)]
  /\ batchStatus \in [BatchIds -> BatchStatuses \cup {Absent}]
  /\ batchKey    \in [BatchIds -> Keys \cup {NoKey}]
  /\ batchCount  \in [BatchIds -> Nat]

(***************************************************************************)
(* A tag is bound to at most one lock, although the column carries no      *)
(* UNIQUE constraint and set_nfc releases only the first other holder.     *)
(***************************************************************************)
TagOnOneLock ==
  \A c, d \in Codes : Bound(c) /\ nfcUid[c] = nfcUid[d] => c = d

(***************************************************************************)
(* The audit trail explains the lock: a row exists exactly for codes with  *)
(* a history, its last entry is the current status, each entry continues   *)
(* the one before it unless it is the renderer's, and an entry is marked   *)
(* as forced exactly if it is no step of the life cycle.                   *)
(***************************************************************************)
LastRow(c) == history[c][Len(history[c])]

HistoryTip ==
  \A c \in Codes :
    IF Present(c) THEN history[c] # <<>> /\ LastRow(c).to = status[c]
                  ELSE history[c] = <<>>

RenderRow(row) == row.source = "system" /\ row.from = "reserved"

SystemStep(row) ==
  \/ <<row.from, row.to, row.source>> = <<Absent, "reserved", "system">>
  \/ <<row.from, row.to, row.source>> = <<"reserved", "generated", "system">>
  \/ <<row.from, row.to, row.source>> = <<"printed", "registered", "app">>

PatchStep(row) ==
  row.from \in STATUSES /\ row.to \in ALLOWED_TRANSITIONS[row.from]

HistoryHonest ==
  \A c \in Codes : \A i \in 1..Len(history[c]) :
    LET row == history[c][i]
    IN  /\ row.forced => ~PatchStep(row)
        /\ row.forced \/ SystemStep(row) \/ PatchStep(row)
        /\ i = 1 => row.from = Absent
        /\ i > 1 => RenderRow(row) \/ row.from = history[c][i-1].to

AuditTrail == HistoryTip /\ HistoryHonest

\* What the history says a lock has been.
Reached(c, S) == \E i \in 1..Len(history[c]) : history[c][i].to \in S

(***************************************************************************)
(* Without the beta switch, a lock that reached registered (and from there *)
(* active or retired) by unforced steps still has a tag: a rebind replaces *)
(* the tag and never leaves the lock without one.                          *)
(***************************************************************************)
Unforced(c) == \A i \in 1..Len(history[c]) : ~history[c][i].forced

RegisteredHasTag ==
  ~BetaTagMove => \A c \in Codes :
    Unforced(c) /\ status[c] \in {"registered", "active", "retired"} => Bound(c)

(***************************************************************************)
(* A code is issued once: its row keeps the batch that created it, and its *)
(* history only ever grows.                                                *)
(***************************************************************************)
IssuedOnce ==
  [][\A c \in Codes : Present(c) =>
       /\ batchOf'[c] = batchOf[c]
       /\ Len(history'[c]) >= Len(history[c])
       /\ \A i \in 1..Len(history[c]) : history'[c][i] = history[c][i]]_registryVars

(***************************************************************************)
(* A rendered lock leaves retired or voided only by a step of the history  *)
(* that is marked as forced: neither binding a tag nor PATCH revives it.   *)
(***************************************************************************)
TerminalOnceRendered ==
  [][\A c \in Codes :
       stl[c] /\ status[c] \in TERMINAL /\ status'[c] # status[c]
         => history'[c][Len(history'[c])].forced]_registryVars
==============================================================================
