---------------------------- MODULE HandlersProofs ---------------------------
(***************************************************************************)
(* mark-printed, nfc/commit and PATCH for any number of requests, locks    *)
(* and tags: they use the registry as RegistrySpec allows, and although    *)
(* they act on what they read earlier, no tag gets on a lock that was      *)
(* never printed and no confirmed tag is taken away.  And the store that   *)
(* mark-printed keeps its photos in.                                       *)
(***************************************************************************)
EXTENDS LockHandlers, PrintProofStore, RegistryProofs

USE RegistryAssumption, LockHandlersAssumption

\* Where a request has found its lock.
Found == {"bind", "bound", "commit-row", "upload", "mark", "marked", "save"}

CallInv(r) ==
  /\ IF pc[r] = "new" THEN call[r] = NoCall ELSE call[r] \in Calls
  /\ pc[r] \in {"commit", "bind", "bound", "commit-row"} => call[r].op = "commit"
  /\ pc[r] \in {"photo", "upload", "mark", "marked", "save"} => call[r].op = "photo"
  /\ pc[r] \in Found => Present(Code(r))
  /\ pc[r] \in {"commit-row", "upload", "save"} => read[r] \in Rows
  /\ reply[r] # NoReply => pc[r] = "answered"

HandlersInv == HandlersTypeOK /\ \A r \in Requests : CallInv(r)

LEMMA CodeTyped ==
  ASSUME HandlersInv, NEW r \in Requests, pc[r] # "new"
  PROVE  /\ Code(r) \in Codes
         /\ call[r].op = "commit" => call[r].uid \in Uids /\ call[r].rebind \in BOOLEAN
  BY DEF HandlersInv, CallInv, Calls, Code

\* A request that does nothing keeps its part, whatever the tables do.
Rests(r) ==
  /\ pc'[r] = pc[r] \/ (pc'[r] = "lost" /\ pc[r] # "answered" /\ pc[r] # "new")
  /\ call'[r] = call[r] /\ read'[r] = read[r] /\ reply'[r] = reply[r]

LEMMA RestKeeps ==
  ASSUME HandlersInv, [RegistryNext]_registryVars, NEW r \in Requests, Rests(r)
  PROVE  CallInv(r)'
<1>1. pc'[r] \in Found => status'[Code(r)] # Absent
  BY CodeTyped, LocksStay DEF HandlersInv, HandlersTypeOK, CallInv, Rests, Found
<1> QED BY <1>1 DEF HandlersInv, CallInv, Rests, Code, Present, Found

Handled(r) ==
  /\ [RegistryNext]_registryVars
  /\ CallTypeOK'
  /\ \A q \in Requests \ {r} : Rests(q)
  /\ CallInv(r)'

LEMMA ReadTyped ==
  ASSUME HandlersInv, NEW r \in Requests, pc[r] # "new", Present(Code(r))
  PROVE  [status |-> status[Code(r)], uid |-> nfcUid[Code(r)]] \in Rows
  BY CodeTyped DEF HandlersInv, HandlersTypeOK, TypeOK, Present, Rows

LEMMA RefuseHandled ==
  ASSUME HandlersInv, NEW r \in Requests, NEW from \in Labels \ {"new"},
         NEW http \in {404, 409, 422, 500}, Refuse(r, from, http)
  PROVE  Handled(r)
<1>1. [code |-> http, row |-> NoRow] \in Replies
  BY DEF Replies
<1>2. CallTypeOK'
  BY <1>1 DEF Refuse, Step, HandlersInv, HandlersTypeOK, CallTypeOK, Labels
<1> QED
  BY <1>2 DEF Refuse, Step, HandlersInv, HandlersTypeOK, CallTypeOK, CallInv, Handled, Rests,
              Found, registryVars

LEMMA CommitHandled ==
  ASSUME HandlersInv, NEW r \in Requests, Commit(r)
  PROVE  Handled(r)
<1>1. CASE CommitReads(r) \/ ReadsBound(r)
  <2>1. pc[r] # "new" /\ Present(Code(r)) /\ call[r].op = "commit"
    BY <1>1 DEF CommitReads, ReadsBound, Step, HandlersInv, CallInv, Found
  <2>2. CallTypeOK'
    BY <1>1, <2>1, ReadTyped
       DEF CommitReads, ReadsBound, Reads, Step, HandlersInv, HandlersTypeOK, CallTypeOK, Labels
  <2> QED
    BY <1>1, <2>1, <2>2, ReadTyped
       DEF CommitReads, ReadsBound, Reads, Step, HandlersInv, HandlersTypeOK, CallTypeOK,
           CallInv, Handled, Rests, Found, registryVars, Code, Present
<1>2. CASE Binds(r)
  <2>1. SetNfc(Code(r), call[r].uid, call[r].rebind) /\ pc[r] = "bind"
    BY <1>2 DEF Binds, Step
  <2>2. /\ Code(r) \in Codes /\ call[r].uid \in Uids /\ call[r].rebind \in BOOLEAN
        /\ Present(Code(r))
    BY <2>1, CodeTyped DEF HandlersInv, CallInv, Found
  <2>3. [RegistryNext]_registryVars
    BY <2>1, <2>2 DEF RegistryNext, LockNext
  <2>4. CallTypeOK'
    BY <1>2 DEF Binds, Step, HandlersInv, HandlersTypeOK, CallTypeOK, Labels
  <2>5. status'[Code(r)] # Absent
    BY <2>2, <2>3, LocksStay DEF HandlersInv, HandlersTypeOK
  <2> QED
    BY <1>2, <2>3, <2>4, <2>5
       DEF Binds, Step, HandlersInv, HandlersTypeOK, CallTypeOK, CallInv, Handled, Rests, Found,
           Code, Present
<1>3. CASE CommitAnswers(r)
  <2>1. [code |-> 200, row |-> read[r]] \in Replies
    BY <1>3 DEF CommitAnswers, Confirm, Step, HandlersInv, CallInv, Replies
  <2>2. CallTypeOK'
    BY <1>3, <2>1
       DEF CommitAnswers, Confirm, Step, HandlersInv, HandlersTypeOK, CallTypeOK, Labels
  <2> QED
    BY <1>3, <2>2
       DEF CommitAnswers, Confirm, Step, HandlersInv, HandlersTypeOK, CallTypeOK, CallInv,
           Handled, Rests, Found, registryVars
<1>4. CASE CommitUnknown(r) \/ CommitNotWritable(r) \/ BindConflict(r)
  <2>1. PICK from \in {"commit", "bind"}, http \in {404, 409} : Refuse(r, from, http)
    BY <1>4 DEF CommitUnknown, CommitNotWritable, BindConflict
  <2>2. from \in Labels \ {"new"} /\ http \in {404, 409, 422}
    BY <2>1 DEF Labels
  <2> QED BY <2>1, <2>2, RefuseHandled
<1> QED BY <1>1, <1>2, <1>3, <1>4 DEF Commit

LEMMA PhotoHandled ==
  ASSUME HandlersInv, NEW r \in Requests, Photo(r)
  PROVE  Handled(r)
<1>1. CASE PhotoReads(r) \/ ReadsMarked(r)
  <2>1. pc[r] # "new" /\ Present(Code(r)) /\ call[r].op = "photo"
    BY <1>1 DEF PhotoReads, ReadsMarked, Step, HandlersInv, CallInv, Found
  <2>2. CallTypeOK'
    BY <1>1, <2>1, ReadTyped
       DEF PhotoReads, ReadsMarked, Reads, Step, HandlersInv, HandlersTypeOK, CallTypeOK, Labels
  <2> QED
    BY <1>1, <2>1, <2>2, ReadTyped
       DEF PhotoReads, ReadsMarked, Reads, Step, HandlersInv, HandlersTypeOK, CallTypeOK,
           CallInv, Handled, Rests, Found, registryVars, Code, Present
<1>2. CASE PhotoArrives(r)
  <2>1. CallTypeOK'
    BY <1>2 DEF PhotoArrives, Step, HandlersInv, HandlersTypeOK, CallTypeOK, Labels
  <2> QED
    BY <1>2, <2>1
       DEF PhotoArrives, Step, HandlersInv, HandlersTypeOK, CallTypeOK, CallInv, Handled, Rests,
           Found, registryVars, Code, Present
<1>3. CASE MarksPrinted(r)
  <2>1. pc[r] = "mark" /\ Code(r) \in Codes /\ Present(Code(r))
    BY <1>3, CodeTyped DEF MarksPrinted, Step, HandlersInv, CallInv, Found
  <2>2. [RegistryNext]_registryVars
    BY <1>3, <2>1 DEF MarksPrinted, RegistryNext, LockNext
  <2>3. CallTypeOK'
    BY <1>3 DEF MarksPrinted, Step, HandlersInv, HandlersTypeOK, CallTypeOK, Labels
  <2>4. status'[Code(r)] # Absent
    BY <2>1, <2>2, LocksStay DEF HandlersInv, HandlersTypeOK
  <2> QED
    BY <1>3, <2>2, <2>3, <2>4
       DEF MarksPrinted, Step, HandlersInv, HandlersTypeOK, CallTypeOK, CallInv, Handled, Rests,
           Found, Code, Present
<1>4. CASE SavesProof(r)
  <2>1. pc[r] = "save" /\ Code(r) \in Codes /\ read[r] \in Rows
    BY <1>4, CodeTyped DEF SavesProof, Confirm, Step, HandlersInv, CallInv
  <2>2. [code |-> 200, row |-> read[r]] \in Replies
    BY <2>1 DEF Replies
  <2>3. CallTypeOK'
    BY <1>4, <2>1, <2>2
       DEF SavesProof, Confirm, Step, HandlersInv, HandlersTypeOK, CallTypeOK, Labels
  <2> QED
    BY <1>4, <2>3
       DEF SavesProof, Confirm, Step, HandlersInv, HandlersTypeOK, CallTypeOK, CallInv,
           Handled, Rests, Found, registryVars
<1>5. CASE PhotoUnknown(r) \/ PhotoRejected(r) \/ MarkRefused(r)
  <2>1. PICK from \in {"photo", "upload", "mark"}, http \in {404, 409, 422} :
          Refuse(r, from, http)
    BY <1>5 DEF PhotoUnknown, PhotoRejected, MarkRefused
  <2>2. from \in Labels \ {"new"}
    BY <2>1 DEF Labels
  <2> QED BY <2>1, <2>2, RefuseHandled
<1> QED BY <1>1, <1>2, <1>3, <1>4, <1>5 DEF Photo

LEMMA FailsHandled ==
  ASSUME HandlersInv, NEW r \in Requests, Fails(r)
  PROVE  Handled(r)
<1>1. PICK at \in {"commit", "bind", "bound", "photo", "upload", "mark", "marked", "save"} :
        Refuse(r, at, 500)
  BY DEF Fails
<1>2. at \in Labels \ {"new"}
  BY DEF Labels
<1> QED BY <1>1, <1>2, RefuseHandled

LEMMA ReceiveHandled ==
  ASSUME HandlersInv, NEW r \in Requests, Receive(r)
  PROVE  Handled(r)
<1>1. PICK c \in Calls : call' = [call EXCEPT ![r] = c] /\ Step(r, "new", c.op)
  BY DEF Receive
<1>2. c.op \in {"commit", "photo"}
  BY <1>1 DEF Calls
<1>3. CallTypeOK'
  BY <1>1, <1>2 DEF Receive, Step, HandlersInv, HandlersTypeOK, CallTypeOK, Labels
<1> QED
  BY <1>1, <1>2, <1>3
     DEF Receive, Step, HandlersInv, HandlersTypeOK, CallTypeOK, CallInv, Handled, Rests, Found,
         registryVars
------------------------------------------------------------------------------
LEMMA EnvironmentHandled ==
  ASSUME HandlersInv, Patch \/ Generate \/ Crash \/ UNCHANGED vars
  PROVE  /\ [RegistryNext]_registryVars
         /\ CallTypeOK'
         /\ \A r \in Requests : Rests(r)
<1>1. CASE Patch
  BY <1>1 DEF Patch, RegistryNext, LockNext, requestVars, HandlersInv, HandlersTypeOK,
              CallTypeOK, Rests
<1>2. CASE Generate
  <2>1. PICK b \in BatchIds, c \in Codes :
          CreateBatch(b, 1, NoKey) \/ AddAirlock(c, b) \/ MarkGenerated(c)
    BY <1>2 DEF Generate
  <2>2. 1 \in 0..MaxBatch
    OBVIOUS
  <2>3. [RegistryNext]_registryVars
    BY <2>1, <2>2 DEF RegistryNext, LockNext, BatchNext
  <2> QED
    BY <1>2, <2>3 DEF Generate, requestVars, HandlersInv, HandlersTypeOK, CallTypeOK, Rests
<1>3. CASE Crash
  BY <1>3 DEF Crash, registryVars, HandlersInv, HandlersTypeOK, CallTypeOK, Labels, Rests
<1>4. CASE UNCHANGED vars
  BY <1>4 DEF vars, registryVars, requestVars, HandlersInv, HandlersTypeOK, CallTypeOK, Rests
<1> QED BY <1>1, <1>2, <1>3, <1>4

\* What every step of the handlers does.
LEMMA HandlersStep ==
  ASSUME HandlersInv, [Next]_vars
  PROVE  [RegistryNext]_registryVars /\ HandlersInv'
<1> DEFINE Kept ==
      /\ [RegistryNext]_registryVars
      /\ CallTypeOK'
      /\ \A r \in Requests : CallInv(r)'
<1>1. ASSUME NEW r \in Requests, Receive(r) \/ Commit(r) \/ Photo(r) \/ Fails(r)
      PROVE  Kept
  BY <1>1, ReceiveHandled, CommitHandled, PhotoHandled, FailsHandled, RestKeeps DEF Handled
<1>2. ASSUME Patch \/ Generate \/ Crash \/ UNCHANGED vars
      PROVE  Kept
  BY <1>2, EnvironmentHandled, RestKeeps
<1>3. Kept
  BY <1>1, <1>2 DEF Next, Quiet
<1>4. TypeOK /\ TypeOK'
  BY <1>3, TypePreserved DEF HandlersInv, HandlersTypeOK
<1> QED
  BY <1>3, <1>4 DEF HandlersInv, HandlersTypeOK

LEMMA HandlersInvInit == Init => HandlersInv
  BY DEF Init, RegistryInit, HandlersInv, HandlersTypeOK, TypeOK, CallTypeOK, CallInv, Labels,
         Found

THEOREM HandlersInvariant == Spec => []HandlersInv
  BY HandlersInvInit, HandlersStep, PTL DEF Spec

\* The handlers' state keeps its types.
THEOREM HandlersTypes == Spec => []HandlersTypeOK
<1>1. HandlersInv => HandlersTypeOK
  BY DEF HandlersInv
<1> QED BY <1>1, HandlersInvariant, PTL

\* The handlers implement RegistrySpec.
THEOREM HandlersAreRegistryClients == Spec => HandlersUseRegistry
<1>1. Init => RegistryInit
  BY DEF Init
<1> QED
  BY <1>1, HandlersStep, HandlersInvariant, PTL DEF Spec, HandlersUseRegistry, RegistrySpec
------------------------------------------------------------------------------
(***************************************************************************)
(* No tag without a print.  A request that is past its check carries what  *)
(* it has seen: the history keeps it whatever happens to the status.       *)
(***************************************************************************)
CarriesPrint(r) ==
  /\ pc[r] = "bind" => Reached(Code(r), {"printed"})
  /\ pc[r] = "upload" /\ read[r].status \in PrintedOrLater => Reached(Code(r), PrintedOrLater)
  /\ pc[r] \in {"marked", "save"} => Reached(Code(r), PrintedOrLater)

PrintInv == TaggedWerePrinted /\ \A r \in Requests : CarriesPrint(r)

LEMMA CarriesPrintStays ==
  ASSUME HandlersInv, [RegistryNext]_registryVars, NEW r \in Requests, CarriesPrint(r),
         Rests(r)
  PROVE  CarriesPrint(r)'
<1>1. TypeOK /\ (pc[r] # "new" => Code(r) \in Codes)
  BY CodeTyped DEF HandlersInv, HandlersTypeOK
<1> QED
  BY <1>1, ReachedStays DEF CarriesPrint, Rests, Code, Reached

LEMMA CarriesPrintStep ==
  ASSUME HandlersInv, TypeOK', HistoryTip, HistoryTip', PrintInv, NEW r \in Requests,
         Receive(r) \/ Commit(r) \/ Photo(r) \/ Fails(r), [RegistryNext]_registryVars
  PROVE  CarriesPrint(r)'
<1>1. TypeOK /\ CallTypeOK /\ CarriesPrint(r) /\ (pc[r] # "new" => Code(r) \in Codes)
  BY CodeTyped DEF HandlersInv, HandlersTypeOK, PrintInv
<1>2. CASE CommitReads(r)
  <2>1. /\ Code(r) \in Codes /\ Present(Code(r)) /\ Writable(Code(r))
        /\ pc'[r] = "bind" /\ Code(r)' = Code(r) /\ history' = history
    BY <1>1, <1>2 DEF CommitReads, Step, CallTypeOK, Code, registryVars
  <2>2. Reached(Code(r), {"printed"})
    BY <1>1, <2>1, HereReached DEF Writable, PrintInv, TaggedWerePrinted
  <2> QED BY <2>1, <2>2 DEF CarriesPrint, Reached
<1>3. CASE PhotoReads(r)
  <2>1. /\ Code(r) \in Codes /\ Present(Code(r))
        /\ pc'[r] = "upload" /\ Code(r)' = Code(r) /\ history' = history
        /\ read'[r].status = status[Code(r)]
    BY <1>1, <1>3 DEF PhotoReads, Step, Reads, CallTypeOK, Code, registryVars
  <2>2. status[Code(r)] \in PrintedOrLater => Reached(Code(r), PrintedOrLater)
    BY <1>1, <2>1, HereReached
  <2> QED BY <2>1, <2>2 DEF CarriesPrint, Reached
<1>4. CASE PhotoArrives(r)
  BY <1>1, <1>4 DEF PhotoArrives, Step, CallTypeOK, CarriesPrint, Code, Reached, registryVars
<1>5. CASE MarksPrinted(r)
  <2>1. /\ Code(r) \in Codes /\ pc'[r] = "marked" /\ Code(r)' = Code(r)
        /\ status'[Code(r)] = "printed"
    BY <1>1, <1>5 DEF MarksPrinted, UpdateStatus, Step, CallTypeOK, Code, registryVars, TypeOK
  <2>2. \E i \in 1..Len(history'[Code(r)]) : history'[Code(r)][i].to \in PrintedOrLater
    BY <2>1, HereReachedNext DEF PrintedOrLater, Absent
  <2> QED BY <2>1, <2>2 DEF CarriesPrint, Reached
<1>6. CASE ReadsMarked(r)
  BY <1>1, <1>6 DEF ReadsMarked, Step, CallTypeOK, CarriesPrint, Code, Reached, registryVars
<1>7. CASE pc'[r] \in {"bound", "commit-row", "answered", "commit", "photo"}
  BY <1>7 DEF CarriesPrint
<1> QED
  <2>1. CASE Receive(r)
    BY <1>1, <1>7, <2>1 DEF Receive, Step, Calls, CallTypeOK
  <2>2. CASE Commit(r)
    BY <1>1, <1>2, <1>7, <2>2
       DEF Commit, Binds, ReadsBound, CommitAnswers, CommitUnknown, CommitNotWritable,
           BindConflict, Refuse, Confirm, Step, CallTypeOK
  <2>3. CASE Photo(r)
    BY <1>1, <1>3, <1>4, <1>5, <1>6, <1>7, <2>3
       DEF Photo, PhotoUnknown, PhotoRejected, MarkRefused, SavesProof, Refuse, Confirm, Step,
           CallTypeOK
  <2>4. CASE Fails(r)
    BY <1>1, <1>7, <2>4 DEF Fails, Refuse, Step, CallTypeOK
  <2> QED BY <2>1, <2>2, <2>3, <2>4

\* Who binds tags and who stores photos.
LEMMA Writers ==
  ASSUME [Next]_vars
  PROVE  /\ nfcUid' = nfcUid \/ \E r \in Requests : Binds(r)
         /\ proof' = proof \/ \E r \in Requests : SavesProof(r)
<1>1. ASSUME NEW r \in Requests, Commit(r)
      PROVE  proof' = proof /\ (nfcUid' = nfcUid \/ Binds(r))
  BY <1>1 DEF Commit, CommitReads, CommitUnknown, CommitNotWritable, BindConflict, ReadsBound,
              CommitAnswers, Refuse, Binds, registryVars
<1>2. ASSUME NEW r \in Requests, Photo(r)
      PROVE  nfcUid' = nfcUid /\ (proof' = proof \/ SavesProof(r))
  BY <1>2 DEF Photo, PhotoReads, PhotoUnknown, PhotoRejected, PhotoArrives, MarksPrinted,
              MarkRefused, ReadsMarked, SavesProof, Refuse, UpdateStatus, registryVars
<1>3. ASSUME NEW r \in Requests, Receive(r)
      PROVE  UNCHANGED <<nfcUid, proof>>
  BY <1>3 DEF Receive, registryVars
<1>4. ASSUME Patch \/ Generate \/ Crash \/ UNCHANGED vars
      PROVE  UNCHANGED <<nfcUid, proof>>
  BY <1>4 DEF Patch, Generate, Crash, vars, registryVars, airlockVars, UpdateStatus,
              CreateBatch, AddAirlock, MarkGenerated
<1>5. ASSUME NEW r \in Requests, Fails(r)
      PROVE  UNCHANGED <<nfcUid, proof>>
  BY <1>5 DEF Fails, Refuse, registryVars
<1> QED BY <1>1, <1>2, <1>3, <1>4, <1>5 DEF Next, Quiet

LEMMA PrintStep ==
  ASSUME HandlersInv, HandlersInv', HistoryTip, HistoryTip', PrintInv, [Next]_vars
  PROVE  PrintInv'
<1>1. [RegistryNext]_registryVars /\ TypeOK /\ TypeOK'
  BY HandlersStep DEF HandlersInv, HandlersTypeOK
<1>2. ASSUME NEW r \in Requests PROVE CarriesPrint(r)'
  <2>1. CarriesPrint(r)
    BY DEF PrintInv
  <2>2. CASE \E q \in Requests : Receive(q) \/ Commit(q) \/ Photo(q) \/ Fails(q)
    <3>1. PICK q \in Requests : Receive(q) \/ Commit(q) \/ Photo(q) \/ Fails(q)
      BY <2>2
    <3>2. CASE q = r
      BY <1>1, <3>1, <3>2, CarriesPrintStep
    <3>3. CASE q # r
      <4>1. Rests(r)
        BY <3>1, <3>3, ReceiveHandled, CommitHandled, PhotoHandled, FailsHandled DEF Handled
      <4> QED BY <1>1, <2>1, <4>1, CarriesPrintStays
    <3> QED BY <3>2, <3>3
  <2>3. CASE Patch \/ Generate \/ Crash \/ UNCHANGED vars
    BY <1>1, <2>1, <2>3, EnvironmentHandled, CarriesPrintStays
  <2> QED BY <2>2, <2>3 DEF Next, Quiet
<1>3. ASSUME NEW c \in Codes, nfcUid'[c] # NoUid
      PROVE  Reached(c, {"printed"})
  <2>1. CASE Bound(c)
    BY <2>1 DEF PrintInv, TaggedWerePrinted
  <2>2. CASE ~Bound(c)
    <3>1. PICK r \in Requests : Binds(r)
      BY <1>3, <2>2, Writers DEF Bound
    <3>2. pc[r] = "bind" /\ SetNfc(Code(r), call[r].uid, call[r].rebind)
      BY <3>1 DEF Binds, Step
    <3>3. c = Code(r)
      BY <1>1, <1>3, <2>2, <3>2 DEF SetNfc, BindFreeTag, MoveTag, OtherHolders, Bound, TypeOK
    <3> QED BY <3>2, <3>3 DEF PrintInv, CarriesPrint
  <2> QED BY <2>1, <2>2
<1>4. ASSUME NEW c \in proof'
      PROVE  Reached(c, PrintedOrLater)
  <2>1. CASE c \in proof
    BY <2>1 DEF PrintInv, TaggedWerePrinted, HandlersInv, HandlersTypeOK, CallTypeOK
  <2>2. CASE c \notin proof
    <3>1. PICK r \in Requests : SavesProof(r)
      BY <1>4, <2>2, Writers
    <3> QED BY <1>4, <2>2, <3>1 DEF SavesProof, Confirm, Step, PrintInv, CarriesPrint
  <2> QED BY <2>1, <2>2
<1>5. TaggedWerePrinted'
  <2> SUFFICES ASSUME NEW c \in Codes
               PROVE  /\ nfcUid'[c] # NoUid => Reached(c, {"printed"})'
                      /\ c \in proof' => Reached(c, PrintedOrLater)'
    BY DEF TaggedWerePrinted, Bound
  <2> QED BY <1>1, <1>3, <1>4, ReachedStays DEF Reached
<1> QED BY <1>2, <1>5 DEF PrintInv

\* A tag is only on a lock that was reported printed, a photo only kept of
\* one that got at least so far.
THEOREM TaggedLocksWerePrinted == Spec => []TaggedWerePrinted
<1>1. Init => PrintInv
  BY DEF Init, RegistryInit, PrintInv, TaggedWerePrinted, CarriesPrint, Bound
<1>2. AuditTrail => HistoryTip
  BY DEF AuditTrail
<1>3. Spec => []AuditTrail
  BY HandlersAreRegistryClients, HistoryIsHonest, PTL DEF HandlersUseRegistry
<1>4. PrintInv => TaggedWerePrinted
  BY DEF PrintInv
<1> QED
  BY <1>1, <1>2, <1>3, <1>4, PrintStep, HandlersInvariant, PTL DEF Spec
------------------------------------------------------------------------------
(***************************************************************************)
(* Without rebind a bound tag stays: set_nfc neither replaces the lock's   *)
(* tag nor takes the tag from its lock.                                    *)
(***************************************************************************)
NoRebinds == \A q \in Requests : call[q].op = "commit" => ~call[q].rebind

HoldsTag(r) ==
  /\ pc[r] \in {"bound", "commit-row"} => nfcUid[Code(r)] = call[r].uid
  /\ pc[r] = "commit-row" => read[r].uid = call[r].uid
  /\ Confirmed(r, "commit") =>
       nfcUid[Code(r)] = call[r].uid /\ reply[r].row.uid = call[r].uid

FinalInv == NoRebinds => \A r \in Requests : HoldsTag(r)

LEMMA CallsStay ==
  ASSUME HandlersInv, [Next]_vars, NEW q \in Requests, pc[q] # "new"
  PROVE  call'[q] = call[q]
<1>1. ASSUME NEW r \in Requests, Receive(r)
      PROVE  call'[q] = call[q]
  BY <1>1 DEF Receive, Step, HandlersInv, HandlersTypeOK, CallTypeOK
<1>2. ASSUME NEW r \in Requests, Commit(r) \/ Photo(r) \/ Fails(r)
      PROVE  call'[q] = call[q]
  BY <1>2 DEF Fails, Commit, CommitReads, CommitUnknown, CommitNotWritable, BindConflict, ReadsBound,
              CommitAnswers, Refuse, Binds, Photo, PhotoReads, PhotoUnknown, PhotoRejected,
              PhotoArrives, MarksPrinted, MarkRefused, ReadsMarked, SavesProof
<1>3. ASSUME Patch \/ Generate \/ Crash \/ UNCHANGED vars
      PROVE  call'[q] = call[q]
  BY <1>3, EnvironmentHandled DEF Rests
<1> QED BY <1>1, <1>2, <1>3 DEF Next, Quiet

LEMMA NoRebindsBefore ==
  ASSUME HandlersInv, [Next]_vars, NoRebinds'
  PROVE  NoRebinds
<1> SUFFICES ASSUME NEW q \in Requests, call[q].op = "commit"
             PROVE  ~call[q].rebind
  BY DEF NoRebinds
<1>1. pc[q] # "new"
  BY DEF HandlersInv, CallInv, NoCall
<1> QED BY <1>1, CallsStay DEF NoRebinds

LEMMA TagsStay ==
  ASSUME HandlersInv, [Next]_vars, NoRebinds, NEW c \in Codes, Bound(c)
  PROVE  nfcUid'[c] = nfcUid[c]
<1>1. ASSUME NEW r \in Requests, Binds(r) PROVE nfcUid'[c] = nfcUid[c]
  <2>1. pc[r] = "bind" /\ SetNfc(Code(r), call[r].uid, call[r].rebind)
    BY <1>1 DEF Binds, Step
  <2>2. ~call[r].rebind
    BY <2>1 DEF NoRebinds, HandlersInv, CallInv
  <2>3. /\ nfcUid[Code(r)] \in {NoUid, call[r].uid}
        /\ nfcUid' = [nfcUid EXCEPT ![Code(r)] = call[r].uid]
    BY <2>1, <2>2 DEF SetNfc, MayTake, BindFreeTag, MoveTag
  <2> QED BY <2>3 DEF Bound, HandlersInv, HandlersTypeOK, TypeOK
<1> QED BY <1>1, Writers

LEMMA HoldsTagStays ==
  ASSUME HandlersInv, [Next]_vars, NoRebinds, NEW r \in Requests, HoldsTag(r), Rests(r)
  PROVE  HoldsTag(r)'
<1>1. /\ call'[r] = call[r] /\ Code(r)' = Code(r)
      /\ read'[r] = read[r] /\ reply'[r] = reply[r]
  BY DEF Rests, Code
<1>2. ASSUME pc[r] # "new", call[r].op = "commit", nfcUid[Code(r)] = call[r].uid
      PROVE  nfcUid'[Code(r)] = call[r].uid
  BY <1>2, CodeTyped, TagsStay DEF Bound
<1>3. /\ Confirmed(r, "commit") => pc[r] # "new" /\ call[r].op = "commit"
      /\ pc[r] \in {"bound", "commit-row"} => call[r].op = "commit"
  BY DEF Confirmed, HandlersInv, CallInv
<1> QED BY <1>1, <1>2, <1>3 DEF HoldsTag, Confirmed, Rests

LEMMA HoldsTagStep ==
  ASSUME HandlersInv, NEW r \in Requests, HoldsTag(r), Receive(r) \/ Commit(r) \/ Photo(r) \/ Fails(r)
  PROVE  HoldsTag(r)'
<1>1. TypeOK /\ CallTypeOK /\ CallInv(r)
  BY DEF HandlersInv, HandlersTypeOK
<1>2. CASE Receive(r)
  BY <1>1, <1>2 DEF Receive, Step, Calls, CallTypeOK, CallInv, HoldsTag, Confirmed
<1>3. CASE Binds(r)
  <2>1. Code(r) \in Codes /\ SetNfc(Code(r), call[r].uid, call[r].rebind) /\ pc[r] = "bind"
    BY <1>3, CodeTyped DEF Binds, Step
  <2>2. nfcUid'[Code(r)] = call[r].uid
    BY <1>1, <2>1 DEF SetNfc, BindFreeTag, MoveTag, OtherHolders, TypeOK
  <2> QED
    BY <1>1, <1>3, <2>1, <2>2
       DEF Binds, Step, CallTypeOK, CallInv, HoldsTag, Confirmed, Code
<1>4. CASE ReadsBound(r) \/ CommitAnswers(r)
  BY <1>1, <1>4
     DEF ReadsBound, CommitAnswers, Confirm, Reads, Step, CallTypeOK, CallInv, HoldsTag,
         Confirmed, Code, registryVars
<1>5. CASE \/ CommitReads(r) \/ CommitUnknown(r) \/ CommitNotWritable(r) \/ BindConflict(r)
           \/ Photo(r) \/ Fails(r)
  <2>1. pc'[r] \notin {"bound", "commit-row"}
    <3>1. CASE Fails(r)
      BY <1>1, <3>1 DEF Fails, Refuse, Step, CallTypeOK
    <3>2. CASE ~Fails(r)
      BY <1>1, <1>5, <3>2
         DEF CommitReads, CommitUnknown, CommitNotWritable, BindConflict, Photo, PhotoReads,
             PhotoUnknown, PhotoRejected, PhotoArrives, MarksPrinted, MarkRefused, ReadsMarked,
             SavesProof, Confirm, Refuse, Step, CallTypeOK
    <3> QED BY <3>1, <3>2
  <2>2. ~Confirmed(r, "commit")'
    <3>1. \/ reply' = reply /\ pc[r] # "answered"
          \/ reply'[r].code # 200
          \/ call'[r].op = "photo"
      <4>1. CASE \/ CommitReads(r) \/ PhotoReads(r) \/ PhotoArrives(r)
                 \/ MarksPrinted(r) \/ ReadsMarked(r)
        BY <4>1 DEF CommitReads, PhotoReads, PhotoArrives, MarksPrinted, ReadsMarked, Step
      <4>2. CASE SavesProof(r)
        BY <1>1, <4>2 DEF SavesProof, Confirm, Step, CallInv
      <4>3. ASSUME NEW from, NEW http \in {404, 409, 422, 500}, Refuse(r, from, http)
            PROVE  reply'[r].code # 200
        BY <1>1, <4>3 DEF Refuse, CallTypeOK
      <4> QED
        BY <1>5, <4>1, <4>2, <4>3
           DEF Photo, CommitUnknown, CommitNotWritable, BindConflict, PhotoUnknown,
               PhotoRejected, MarkRefused, Fails
    <3> QED BY <1>1, <3>1 DEF Confirmed, CallInv
  <2> QED BY <2>1, <2>2 DEF HoldsTag
<1> QED BY <1>2, <1>3, <1>4, <1>5 DEF Commit

LEMMA FinalStep ==
  ASSUME HandlersInv, FinalInv, [Next]_vars
  PROVE  FinalInv'
<1> SUFFICES ASSUME NoRebinds', NEW r \in Requests PROVE HoldsTag(r)'
  BY DEF FinalInv
<1>1. NoRebinds /\ HoldsTag(r)
  BY NoRebindsBefore DEF FinalInv
<1>2. ASSUME NEW q \in Requests, Receive(q) \/ Commit(q) \/ Photo(q) \/ Fails(q)
      PROVE  HoldsTag(r)'
  <2>1. CASE q = r
    BY <1>1, <1>2, <2>1, HoldsTagStep
  <2>2. CASE q # r
    <3>1. Rests(r)
      BY <1>2, <2>2, ReceiveHandled, CommitHandled, PhotoHandled, FailsHandled DEF Handled
    <3> QED BY <1>1, <3>1, HoldsTagStays
  <2> QED BY <2>1, <2>2
<1>3. ASSUME Patch \/ Generate \/ Crash \/ UNCHANGED vars
      PROVE  HoldsTag(r)'
  BY <1>1, <1>3, EnvironmentHandled, HoldsTagStays
<1> QED BY <1>2, <1>3 DEF Next, Quiet

\* A confirmed binding is final as long as nobody asks to rebind.
THEOREM BindingsAreFinal == Spec => []ConfirmedTagIsFinal
<1>1. Init => FinalInv
  BY DEF Init, FinalInv, HoldsTag, Confirmed
<1>2. FinalInv => ConfirmedTagIsFinal
  BY DEF FinalInv, HoldsTag, ConfirmedTagIsFinal, NoRebinds
<1> QED
  BY <1>1, <1>2, FinalStep, HandlersInvariant, PTL DEF Spec
------------------------------------------------------------------------------
(***************************************************************************)
(* The print-proof store, for any number of readers, uploads and cut       *)
(* saves.                                                                  *)
(***************************************************************************)

\* What a save in its last steps has already done.
SaveState ==
  /\ saving = "replace" => tmp[ext] = uploads
  /\ saving \in {"row", "commit"} => files[ext] = uploads
  /\ row = IF saving = "commit" THEN [photo |-> uploads, ext |-> ext] ELSE committed

\* No photo is from the future, and where a row points nothing older lies.
PhotoOrder ==
  /\ \A e \in Exts : files[e] <= uploads
  /\ committed.photo <= uploads
  /\ files[committed.ext] = 0 \/ files[committed.ext] >= committed.photo
  /\ \A r \in Readers :
       /\ since[r] <= uploads
       /\ files[reading[r].ext] = 0 \/ files[reading[r].ext] >= since[r]

\* Between saves that ended.
Settled ==
  saving = "idle" /\ intact => committed.photo = uploads /\ files[committed.ext] = uploads

StoreInv == StoreTypeOK /\ SaveState /\ PhotoOrder /\ Settled /\ ServedIsWholeAndCurrent

LEMMA InitStoreInv == StoreInit => StoreInv
BY StoreAssumption DEF StoreInit, StoreInv, StoreTypeOK, SaveState, PhotoOrder, Settled, ServedIsWholeAndCurrent,
   Exts, NoProof, NoAnswer, Photos, ProofRows

LEMMA NextStoreInv == StoreInv /\ [StoreNext]_storeVars => StoreInv'
<1> SUFFICES ASSUME StoreInv, [StoreNext]_storeVars PROVE StoreInv'
  OBVIOUS
<1> USE StoreAssumption DEF StoreInv, SaveStep
<1>1. CASE Begins
  <2>1. StoreTypeOK'
    BY <1>1 DEF Begins, StoreTypeOK, Photos, ProofRows, fileVars, rowVars, readerVars, Exts
  <2>2. SaveState' /\ Settled' /\ ServedIsWholeAndCurrent'
    BY <1>1 DEF Begins, SaveState, Settled, ServedIsWholeAndCurrent, StoreTypeOK, Photos, fileVars, rowVars, readerVars, Exts
  <2>3. PhotoOrder'
    BY <1>1 DEF Begins, PhotoOrder, StoreTypeOK, Photos, ProofRows, fileVars, rowVars, readerVars, Exts
  <2> QED BY <2>1, <2>2, <2>3
<1>2. ASSUME NEW e \in Exts, NEW next \in {"png", "write"}, Removes(e, next)
      PROVE StoreInv'
  <2> USE <1>2 DEF Removes
  <2>1. StoreTypeOK'
    BY DEF StoreTypeOK, Photos, ProofRows, rowVars, readerVars, Exts
  <2>2. \A x \in Exts : files'[x] \in {0, files[x]}
    BY DEF StoreTypeOK
  <2>3. SaveState' /\ Settled' /\ ServedIsWholeAndCurrent'
    BY DEF SaveState, Settled, ServedIsWholeAndCurrent, rowVars, readerVars, Exts
  <2>4. PhotoOrder'
    BY <2>2 DEF PhotoOrder, StoreTypeOK, Photos, ProofRows, rowVars, readerVars
  <2> QED BY <2>1, <2>3, <2>4
<1>3. CASE WritesTmp
  BY <1>3 DEF WritesTmp, StoreTypeOK, SaveState, PhotoOrder, Settled, ServedIsWholeAndCurrent,
     Photos, ProofRows, rowVars, readerVars, Exts
<1>4. CASE Replaces
  <2> USE <1>4 DEF Replaces
  <2>1. files' = [files EXCEPT ![ext] = uploads]
    BY DEF SaveState
  <2>2. StoreTypeOK'
    BY <2>1 DEF StoreTypeOK, Photos, ProofRows, rowVars, readerVars, Exts
  <2>3. SaveState' /\ Settled' /\ ServedIsWholeAndCurrent'
    BY <2>1 DEF SaveState, Settled, ServedIsWholeAndCurrent, StoreTypeOK, rowVars, readerVars, Exts
  <2>4. PhotoOrder'
    BY <2>1 DEF PhotoOrder, StoreTypeOK, Photos, ProofRows, rowVars, readerVars
  <2> QED BY <2>2, <2>3, <2>4
<1>5. CASE InsertsRow
  BY <1>5 DEF InsertsRow, StoreTypeOK, SaveState, PhotoOrder, Settled, ServedIsWholeAndCurrent,
     Photos, ProofRows, fileVars, readerVars, Exts
<1>6. CASE Commits
  <2> USE <1>6 DEF Commits
  <2>1. row = [photo |-> uploads, ext |-> ext] /\ files[ext] = uploads
    BY DEF SaveState
  <2>2. StoreTypeOK' /\ SaveState' /\ Settled' /\ ServedIsWholeAndCurrent'
    BY <2>1 DEF StoreTypeOK, SaveState, Settled, ServedIsWholeAndCurrent, Photos, ProofRows, fileVars, readerVars, Exts
  <2>3. PhotoOrder'
    BY <2>1 DEF PhotoOrder, StoreTypeOK, Photos, ProofRows, fileVars, readerVars
  <2> QED BY <2>2, <2>3
<1>7. CASE CutOff
  <2>1. tmp' \in [Exts -> Photos \cup {Partial}]
    BY <1>7 DEF CutOff, StoreTypeOK
  <2>2. saving' = "idle" /\ intact' = FALSE /\ cuts' \in 0..MaxCuts /\ row' \in ProofRows
    BY <1>7 DEF CutOff, StoreTypeOK
  <2>3. StoreTypeOK'
    BY <1>7, <2>1, <2>2 DEF CutOff, StoreTypeOK, readerVars
  <2>4. SaveState' /\ PhotoOrder' /\ Settled' /\ ServedIsWholeAndCurrent'
    BY <1>7 DEF CutOff, SaveState, PhotoOrder, Settled, ServedIsWholeAndCurrent, readerVars
  <2> QED BY <2>3, <2>4
<1>8. ASSUME NEW r \in Readers, ReadsRow(r)
      PROVE StoreInv'
  <2> USE <1>8 DEF ReadsRow
  <2>1. files[row.ext] = 0 \/ files[row.ext] >= committed.photo
    BY DEF SaveState, PhotoOrder, StoreTypeOK, Photos, ProofRows
  <2>2. StoreTypeOK' /\ SaveState' /\ Settled'
    BY DEF StoreTypeOK, SaveState, Settled, ProofRows, fileVars, rowVars, saveVars
  <2>3. PhotoOrder'
    BY <2>1 DEF PhotoOrder, StoreTypeOK, fileVars, rowVars, saveVars
  <2>4. ServedIsWholeAndCurrent'
    BY DEF ServedIsWholeAndCurrent, StoreTypeOK, fileVars, rowVars, saveVars
  <2> QED BY <2>2, <2>3, <2>4
<1>9. ASSUME NEW r \in Readers, ReadsFile(r)
      PROVE StoreInv'
  <2> USE <1>9 DEF ReadsFile
  <2>1. files[reading[r].ext] \in Photos /\ files[reading[r].ext] <= uploads
    BY DEF StoreTypeOK, PhotoOrder, ProofRows
  <2>2. StoreTypeOK' /\ SaveState' /\ Settled' /\ PhotoOrder'
    BY <2>1 DEF StoreTypeOK, SaveState, Settled, PhotoOrder, Photos, fileVars, rowVars, saveVars
  <2>3. ServedIsWholeAndCurrent'
    BY <2>1 DEF ServedIsWholeAndCurrent, PhotoOrder, StoreTypeOK, Photos, fileVars, rowVars, saveVars
  <2> QED BY <2>2, <2>3
<1>10. ASSUME NEW r \in Readers, AsksAgain(r)
       PROVE StoreInv'
  <2> USE <1>10 DEF AsksAgain
  <2>1. StoreTypeOK' /\ SaveState' /\ Settled'
    BY DEF StoreTypeOK, SaveState, Settled, Photos, ProofRows, NoProof, NoAnswer, Exts, fileVars, rowVars, saveVars
  <2>2. PhotoOrder' /\ ServedIsWholeAndCurrent'
    BY DEF PhotoOrder, ServedIsWholeAndCurrent, StoreTypeOK, Photos, NoProof, NoAnswer, Exts, fileVars, rowVars, saveVars
  <2> QED BY <2>1, <2>2
<1>11. CASE UNCHANGED storeVars
  BY <1>11 DEF storeVars, fileVars, rowVars, saveVars, readerVars, StoreTypeOK, SaveState, PhotoOrder, Settled,
     ServedIsWholeAndCurrent
<1> QED
  BY <1>1, <1>2, <1>3, <1>4, <1>5, <1>6, <1>7, <1>8, <1>9, <1>10, <1>11 DEF StoreNext, Save, Exts

LEMMA StoreInvariant == StoreSpec => []StoreInv
<1>1. StoreInit => StoreInv
  BY InitStoreInv
<1>2. StoreInv /\ [StoreNext]_storeVars => StoreInv'
  BY NextStoreInv
<1> QED BY <1>1, <1>2, PTL DEF StoreSpec

(***************************************************************************)
(* Files, rows and answers keep their types; no file or row ever holds a   *)
(* photo that was written in part.                                         *)
(***************************************************************************)
THEOREM StoreTypes == StoreSpec => []StoreTypeOK
BY StoreInvariant, PTL DEF StoreInv

(***************************************************************************)
(* After a save that ended, row and file are those of the last upload.     *)
(***************************************************************************)
THEOREM LastSaveIsServed == StoreSpec => []StoreServesLastSave
<1>1. StoreInv => StoreServesLastSave
  BY DEF StoreInv, SaveState, Settled, StoreServesLastSave
<1> QED BY <1>1, StoreInvariant, PTL

(***************************************************************************)
(* GET /proof answers with a whole photo, and none older than was stored   *)
(* when it began.                                                          *)
(***************************************************************************)
THEOREM ServedPhotosAreCurrent == StoreSpec => []ServedIsWholeAndCurrent
BY StoreInvariant, PTL DEF StoreInv
==============================================================================
