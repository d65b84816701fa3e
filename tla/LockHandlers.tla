----------------------------- MODULE LockHandlers ----------------------------
(***************************************************************************)
(* The handlers of app/main.py that move a generated lock on: mark-printed *)
(* with its photo, nfc/commit, and PATCH.  mark_printed and nfc_commit     *)
(* read the lock, decide, and then call the registry; whatever the others  *)
(* commit in between, they go on with what they read.                      *)
(***************************************************************************)
EXTENDS Registry

CONSTANTS
  Requests,      \* the mark-printed and nfc/commit requests ever received
  NoReply,
  NoRow,
  MaxCrashes     \* bound: container restarts

ASSUME LockHandlersAssumption == MaxCrashes \in Nat /\ MaxBatch > 0

VARIABLES
  pc,       \* where each request stands
  call,     \* its path and body
  read,     \* the airlocks row it read last
  reply,    \* the response: HTTP code, and the row it shows on success
  proof,    \* print_proofs: the codes whose photo has its row
  crashes

requestVars == <<pc, call, read, reply>>
vars == <<registryVars, requestVars, proof, crashes>>

Calls ==
  [op: {"commit"}, code: Codes, uid: Uids, rebind: BOOLEAN]
    \cup [op: {"photo"}, code: Codes]

NoCall == [op |-> "none"]

Init ==
  /\ RegistryInit
  /\ pc    = [r \in Requests |-> "new"]
  /\ call  = [r \in Requests |-> NoCall]
  /\ read  = [r \in Requests |-> NoRow]
  /\ reply = [r \in Requests |-> NoReply]
  /\ proof = {}
  /\ crashes = 0

Code(r) == call[r].code

Step(r, from, to) == pc[r] = from /\ pc' = [pc EXCEPT ![r] = to]

\* get_airlock, between other requests' transactions.
Reads(r) == read' = [read EXCEPT ![r] = [status |-> status[Code(r)], uid |-> nfcUid[Code(r)]]]

\* The response shows the row last read.
Confirm(r, from) ==
  /\ Step(r, from, "answered")
  /\ reply' = [reply EXCEPT ![r] = [code |-> 200, row |-> read[r]]]

Refuse(r, from, http) ==
  /\ Step(r, from, "answered")
  /\ reply' = [reply EXCEPT ![r] = [code |-> http, row |-> NoRow]]
  /\ UNCHANGED <<registryVars, call, read, proof, crashes>>

Receive(r) ==
  /\ \E c \in Calls :
       /\ call' = [call EXCEPT ![r] = c]
       /\ Step(r, "new", c.op)
  /\ UNCHANGED <<registryVars, read, reply, proof, crashes>>
------------------------------------------------------------------------------
(***************************************************************************)
(* nfc_commit.                                                             *)
(***************************************************************************)

\* Mutant: a tag may be written on every lock there is.
WritableAlways(c) == Present(c)

\* _require_writable_status.
Writable(c) == Bound(c) \/ status[c] = "printed"

CommitReads(r) ==
  /\ Step(r, "commit", "bind")
  /\ Present(Code(r))
  /\ Writable(Code(r))
  /\ Reads(r)
  /\ UNCHANGED <<registryVars, call, reply, proof, crashes>>

CommitUnknown(r) == Refuse(r, "commit", 404) /\ ~Present(Code(r))

CommitNotWritable(r) ==
  /\ Refuse(r, "commit", 409)
  /\ Present(Code(r))
  /\ ~Writable(Code(r))

\* Mutant: rebind is taken as given.
BindsRebinding(r) ==
  /\ Step(r, "bind", "bound")
  /\ SetNfc(Code(r), call[r].uid, TRUE)
  /\ UNCHANGED <<call, read, reply, proof, crashes>>

Binds(r) ==
  /\ Step(r, "bind", "bound")
  /\ SetNfc(Code(r), call[r].uid, call[r].rebind)
  /\ UNCHANGED <<call, read, reply, proof, crashes>>

\* TagBindingError: the lock has another tag, or the tag another lock.
BindConflict(r) ==
  /\ Refuse(r, "bind", 409)
  /\ \/ ~MayTake(Code(r), call[r].uid, call[r].rebind)
     \/ OtherHolders(Code(r), call[r].uid) # {} /\ ~(call[r].rebind /\ BetaTagMove)

\* set_nfc gives the lock back before it reads the row it returns.
ReadsBound(r) ==
  /\ Step(r, "bound", "commit-row")
  /\ Reads(r)
  /\ UNCHANGED <<registryVars, call, reply, proof, crashes>>

CommitAnswers(r) ==
  /\ Confirm(r, "commit-row")
  /\ UNCHANGED <<registryVars, call, read, proof, crashes>>
------------------------------------------------------------------------------
(***************************************************************************)
(* mark_printed runs on the event loop.  It gives the loop away only while *)
(* it awaits photo.read(); from there to the response no other             *)
(* mark_printed runs, but the handlers in the thread pool do.              *)
(***************************************************************************)
OnLoop == {"mark", "marked", "save"}

LoopFree == \A r \in Requests : pc[r] \notin OnLoop

PrintedOrLater == {"printed", "registered", "active"}

\* Mutant: the unknown code is not looked for.
PhotoReadsUnchecked(r) ==
  /\ LoopFree
  /\ Step(r, "photo", "upload")
  /\ Reads(r)
  /\ UNCHANGED <<registryVars, call, reply, proof, crashes>>

PhotoReads(r) ==
  /\ LoopFree
  /\ Step(r, "photo", "upload")
  /\ Present(Code(r))
  /\ Reads(r)
  /\ UNCHANGED <<registryVars, call, reply, proof, crashes>>

PhotoUnknown(r) == LoopFree /\ Refuse(r, "photo", 404) /\ ~Present(Code(r))

\* The wrong type, empty or too large.
PhotoRejected(r) == LoopFree /\ Refuse(r, "upload", 422)

\* `already` is decided by the row from before the await.
PhotoArrives(r) ==
  /\ LoopFree
  /\ Step(r, "upload", IF read[r].status \in PrintedOrLater THEN "save" ELSE "mark")
  /\ UNCHANGED <<registryVars, call, read, reply, proof, crashes>>

\* Mutant: the step is forced.
MarksPrintedByForce(r) ==
  /\ Step(r, "mark", "marked")
  /\ \/ UpdateStatus(Code(r), "printed", "app", TRUE)
     \/ status[Code(r)] = "printed" /\ UNCHANGED registryVars
  /\ UNCHANGED <<call, read, reply, proof, crashes>>

MarksPrinted(r) ==
  /\ Step(r, "mark", "marked")
  /\ \/ UpdateStatus(Code(r), "printed", "app", FALSE)
     \/ status[Code(r)] = "printed" /\ UNCHANGED registryVars
  /\ UNCHANGED <<call, read, reply, proof, crashes>>

\* Mutant: a refused step is tried again for ever.
MarkRefusedRetries(r) ==
  /\ pc[r] = "mark"
  /\ status[Code(r)] # "printed"
  /\ ~Allowed(Code(r), "printed")
  /\ UNCHANGED vars

\* TransitionError: refused before any photo is stored.
MarkRefused(r) ==
  /\ Refuse(r, "mark", 409)
  /\ status[Code(r)] # "printed"
  /\ ~Allowed(Code(r), "printed")

\* update_status too reads its row after giving the lock back.
ReadsMarked(r) ==
  /\ Step(r, "marked", "save")
  /\ Reads(r)
  /\ UNCHANGED <<registryVars, call, reply, proof, crashes>>

\* Mutant: the response goes out and no photo is stored.
SavesNothing(r) ==
  /\ Confirm(r, "save")
  /\ UNCHANGED <<registryVars, call, read, proof, crashes>>

\* save_print_proof up to the commit of its row, then the response.  It is
\* one step, as no other save runs beside it; where it raises, Fails.
SavesProof(r) ==
  /\ Confirm(r, "save")
  /\ proof' = proof \cup {Code(r)}
  /\ UNCHANGED <<registryVars, call, read, crashes>>
------------------------------------------------------------------------------
\* Something raises that the handler does not catch: get_service, a look-up
\* or a transaction of the registry, reading the upload, or the files of
\* save_print_proof.  What was committed before stays.
Fails(r) ==
  /\ pc[r] \in {"photo", "upload"} => LoopFree
  /\ \E at \in {"commit", "bind", "bound", "photo", "upload", "mark", "marked", "save"} :
       Refuse(r, at, 500)

\* PATCH is one transaction.
Patch ==
  /\ \E c \in Codes, s \in STATUSES, force \in Forces : UpdateStatus(c, s, "api", force)
  /\ UNCHANGED <<requestVars, proof, crashes>>

\* The generate requests of other clients, as the registry sees them (but
\* for finish_batch, on which no lock depends).
Generate ==
  /\ \E b \in BatchIds, c \in Codes :
       CreateBatch(b, 1, NoKey) \/ AddAirlock(c, b) \/ MarkGenerated(c)
  /\ UNCHANGED <<requestVars, proof, crashes>>

\* The container stops and comes back: what was committed stays.
Crash ==
  /\ crashes < MaxCrashes
  /\ crashes' = crashes + 1
  /\ pc' = [r \in Requests |-> IF pc[r] \in {"new", "answered"} THEN pc[r] ELSE "lost"]
  /\ UNCHANGED <<registryVars, call, read, reply, proof>>

Commit(r) ==
  \/ CommitReads(r) \/ CommitUnknown(r) \/ CommitNotWritable(r)
  \/ Binds(r) \/ BindConflict(r) \/ ReadsBound(r) \/ CommitAnswers(r)

Photo(r) ==
  \/ PhotoReads(r) \/ PhotoUnknown(r) \/ PhotoRejected(r) \/ PhotoArrives(r)
  \/ MarksPrinted(r) \/ MarkRefused(r) \/ ReadsMarked(r) \/ SavesProof(r)

\* Every request has had its answer, or lost its connection.
Quiet ==
  /\ \A r \in Requests : pc[r] \in {"answered", "lost"}
  /\ UNCHANGED vars

Next ==
  \/ \E r \in Requests : Receive(r) \/ Commit(r) \/ Photo(r) \/ Fails(r)
  \/ Patch \/ Generate \/ Crash \/ Quiet

\* The pool runs its threads; the event loop takes the requests that wait
\* for it in turn, however often another one has it.  That something raises
\* is never counted on.
Fairness == \A r \in Requests : WF_vars(Commit(r)) /\ SF_vars(Photo(r))

Spec == Init /\ [][Next]_vars

FairSpec == Spec /\ Fairness
------------------------------------------------------------------------------
Labels ==
  {"new", "commit", "bind", "bound", "commit-row",
   "photo", "upload", "mark", "marked", "save", "answered", "lost"}

Rows == [status: STATUSES, uid: Uids \cup {NoUid}]

Replies == [code: {200}, row: Rows] \cup [code: {404, 409, 422, 500}, row: {NoRow}]

CallTypeOK ==
  /\ pc \in [Requests -> Labels]
  /\ call \in [Requests -> Calls \cup {NoCall}]
  /\ read \in [Requests -> Rows \cup {NoRow}]
  /\ reply \in [Requests -> Replies \cup {NoReply}]
  /\ proof \subseteq Codes
  /\ crashes \in 0..MaxCrashes

HandlersTypeOK == TypeOK /\ CallTypeOK

(***************************************************************************)
(* The handlers reach the tables through the registry's transactions       *)
(* alone, so whatever RegistrySpec guarantees holds of them.               *)
(***************************************************************************)
HandlersUseRegistry == RegistrySpec

(***************************************************************************)
(* A tag is only ever on a lock that was reported printed, and a photo     *)
(* only kept of one that got at least so far, whatever PATCH and the       *)
(* renderer do between the check and the write: the history shows it.      *)
(***************************************************************************)
TaggedWerePrinted ==
  \A c \in Codes :
    /\ Bound(c) => Reached(c, {"printed"})
    /\ c \in proof => Reached(c, PrintedOrLater)

(***************************************************************************)
(* A confirmed binding is final: if no client ever sent rebind, every lock *)
(* of a commit answered 200 has the tag of that commit, now and in the     *)
(* response, though the row was read after the lock was given back.        *)
(***************************************************************************)
Confirmed(r, op) == reply[r] # NoReply /\ call[r].op = op /\ reply[r].code = 200

ConfirmedTagIsFinal ==
  (\A q \in Requests : call[q].op = "commit" => ~call[q].rebind) =>
    \A r \in Requests : Confirmed(r, "commit") =>
      nfcUid[Code(r)] = call[r].uid /\ reply[r].row.uid = call[r].uid

(***************************************************************************)
(* The printed mark comes with its photo: a mark-printed request that has  *)
(* found or set the status printed gets its photo stored, unless the       *)
(* container stops or saving raises.  The status then stays, and only the  *)
(* lost connection or the 500 of this very request tells the app to send   *)
(* the photo again.                                                        *)
(***************************************************************************)
HasPhoto(r) == \E c \in proof : call[r] = [op |-> "photo", code |-> c]

ToldToRepeat(r) == pc[r] = "lost" \/ (pc[r] = "answered" /\ reply[r].code = 500)

PrintedGetsPhoto ==
  \A r \in Requests : pc[r] \in {"marked", "save"} ~> HasPhoto(r) \/ ToldToRepeat(r)

(***************************************************************************)
(* Every commit and every mark-printed request is answered, or the         *)
(* container stops.                                                        *)
(***************************************************************************)
HandlersAnswer ==
  \A r \in Requests : pc[r] \in {"commit", "photo"} ~> pc[r] \in {"answered", "lost"}
==============================================================================
