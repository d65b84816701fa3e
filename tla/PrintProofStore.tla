--------------------------- MODULE PrintProofStore ---------------------------
(***************************************************************************)
(* The photo that proves the print of one lock: two possible files beside  *)
(* the database, and a row of print_proofs that says which one counts.     *)
(* mark_printed saves on the event loop, so one save runs at a time; GET   *)
(* /proof runs in the thread pool and reads row and file as the save goes  *)
(* on.  Photos are numbered in the order of their uploads.                 *)
(***************************************************************************)
EXTENDS Naturals

CONSTANTS
  Readers,
  Partial,       \* what a write that did not end leaves in a file
  MaxUploads,    \* bound: uploads
  MaxCuts        \* bound: saves that raise, and restarts

ASSUME StoreAssumption ==
  /\ Partial \notin Nat
  /\ MaxUploads \in Nat
  /\ MaxCuts \in Nat

VARIABLES
  files,         \* the photo in code.jpg and code.png, 0 if there is no file
  tmp,           \* the same of code.jpg.tmp and code.png.tmp
  row,           \* the row of print_proofs as the connection shows it
  committed,     \* the row as the database file has it
  uploads,       \* number of the last upload
  ext,           \* its extension
  saving,        \* where its save stands
  reading,       \* the row each GET has found
  since,         \* history: the photo that was stored when the GET began
  answer,        \* the photo each GET answered with
  intact,        \* history: no save has been cut off since the last that ended
  cuts

fileVars   == <<files, tmp>>
rowVars    == <<row, committed>>
saveVars   == <<uploads, ext, saving, intact>>
readerVars == <<reading, since, answer>>
storeVars  == <<fileVars, rowVars, saveVars, readerVars, cuts>>

Exts == {"jpg", "png"}
NoProof == [photo |-> 0, ext |-> "jpg"]
NoAnswer == [photo |-> 0, is |-> "none"]

StoreInit ==
  /\ files = [e \in Exts |-> 0] /\ tmp = [e \in Exts |-> 0]
  /\ row = NoProof /\ committed = NoProof
  /\ uploads = 0 /\ ext = "jpg" /\ saving = "idle" /\ intact = TRUE
  /\ reading = [r \in Readers |-> NoProof]
  /\ since = [r \in Readers |-> 0]
  /\ answer = [r \in Readers |-> NoAnswer]
  /\ cuts = 0

SaveStep(from, to) == saving = from /\ saving' = to
------------------------------------------------------------------------------
(***************************************************************************)
(* save_print_proof.                                                       *)
(***************************************************************************)

\* An upload reaches the store; its type gives the extension.
Begins ==
  /\ uploads < MaxUploads
  /\ SaveStep("idle", "jpg")
  /\ uploads' = uploads + 1
  /\ ext' \in Exts
  /\ UNCHANGED <<fileVars, rowVars, intact, readerVars, cuts>>

\* One turn of the loop over the extensions: the old file goes, unless
\* unlink raises an OSError, which is swallowed.
Removes(e, next) ==
  /\ SaveStep(e, next)
  /\ files' \in {files, [files EXCEPT ![e] = 0]}
  /\ UNCHANGED <<tmp, rowVars, uploads, ext, intact, readerVars, cuts>>

\* Mutant: the photo is written to its place directly, and can be read
\* while it is.
WritesInPlace ==
  /\ SaveStep("write", "replace")
  /\ files' = [files EXCEPT ![ext] = Partial]
  /\ tmp' = [tmp EXCEPT ![ext] = uploads]
  /\ UNCHANGED <<rowVars, uploads, ext, intact, readerVars, cuts>>

WritesTmp ==
  /\ SaveStep("write", "replace")
  /\ tmp' = [tmp EXCEPT ![ext] = uploads]
  /\ UNCHANGED <<files, rowVars, uploads, ext, intact, readerVars, cuts>>

Replaces ==
  /\ SaveStep("replace", "row")
  /\ files' = [files EXCEPT ![ext] = tmp[ext]]
  /\ tmp' = [tmp EXCEPT ![ext] = 0]
  /\ UNCHANGED <<rowVars, uploads, ext, intact, readerVars, cuts>>

\* Mutant: ON CONFLICT keeps the type of the first photo.
InsertsRowOfFirstType ==
  /\ SaveStep("row", "commit")
  /\ row' = [photo |-> uploads, ext |-> IF row = NoProof THEN ext ELSE row.ext]
  /\ UNCHANGED <<fileVars, committed, uploads, ext, intact, readerVars, cuts>>

\* The row is replaced, and readers on the shared connection see it.
InsertsRow ==
  /\ SaveStep("row", "commit")
  /\ row' = [photo |-> uploads, ext |-> ext]
  /\ UNCHANGED <<fileVars, committed, uploads, ext, intact, readerVars, cuts>>

Commits ==
  /\ SaveStep("commit", "idle")
  /\ committed' = row
  /\ intact' = TRUE
  /\ UNCHANGED <<fileVars, row, uploads, ext, readerVars, cuts>>

\* A write, the replace or the transaction raises, or the container stops:
\* the transaction is rolled back, and tmp may hold part of the photo.
CutOff ==
  /\ cuts < MaxCuts
  /\ saving # "idle"
  /\ saving' = "idle"
  /\ cuts' = cuts + 1
  /\ tmp' \in {tmp} \cup (IF saving = "write" THEN {[tmp EXCEPT ![ext] = Partial]} ELSE {})
  /\ row' = committed
  /\ intact' = FALSE
  /\ UNCHANGED <<files, committed, uploads, ext, readerVars>>
------------------------------------------------------------------------------
(***************************************************************************)
(* load_print_proof, called by GET /v1/airlocks/{code}/proof.              *)
(***************************************************************************)
ReadsRow(r) ==
  /\ answer[r].is = "none" /\ reading[r] = NoProof
  /\ row # NoProof
  /\ reading' = [reading EXCEPT ![r] = row]
  /\ since' = [since EXCEPT ![r] = committed.photo]
  /\ UNCHANGED <<fileVars, rowVars, saveVars, answer, cuts>>

\* Without a row, and without a file where the row says, the answer is 404.
ReadsFile(r) ==
  /\ answer[r].is = "none" /\ reading[r] # NoProof
  /\ LET photo == files[reading[r].ext]
     IN answer' = [answer EXCEPT ![r] =
          IF photo = 0 THEN [photo |-> 0, is |-> "404"]
                       ELSE [photo |-> photo, is |-> "photo"]]
  /\ UNCHANGED <<fileVars, rowVars, saveVars, reading, since, cuts>>

\* The client has its answer, or the container has stopped; it asks again.
AsksAgain(r) ==
  /\ reading[r] # NoProof
  /\ reading' = [reading EXCEPT ![r] = NoProof]
  /\ since' = [since EXCEPT ![r] = 0]
  /\ answer' = [answer EXCEPT ![r] = NoAnswer]
  /\ UNCHANGED <<fileVars, rowVars, saveVars, cuts>>
------------------------------------------------------------------------------
Save ==
  \/ Begins \/ Removes("jpg", "png") \/ Removes("png", "write")
  \/ WritesTmp \/ Replaces \/ InsertsRow \/ Commits \/ CutOff

StoreNext == Save \/ \E r \in Readers : ReadsRow(r) \/ ReadsFile(r) \/ AsksAgain(r)

StoreSpec == StoreInit /\ [][StoreNext]_storeVars
------------------------------------------------------------------------------
Photos == 0..MaxUploads
ProofRows == [photo: Photos, ext: Exts]

StoreTypeOK ==
  /\ files \in [Exts -> Photos]
  /\ tmp \in [Exts -> Photos \cup {Partial}]
  /\ row \in ProofRows /\ committed \in ProofRows
  /\ uploads \in Photos /\ ext \in Exts
  /\ saving \in Exts \cup {"idle", "write", "replace", "row", "commit"}
  /\ intact \in BOOLEAN
  /\ reading \in [Readers -> ProofRows]
  /\ since \in [Readers -> Photos]
  /\ answer \in [Readers -> [photo: Photos, is: {"none", "404", "photo"}]]
  /\ cuts \in 0..MaxCuts

(***************************************************************************)
(* When no save is under way and none was cut off since the last one that  *)
(* ended, the row and the file it points to are those of the last upload,  *)
(* whichever types the uploads had and whichever old files could not be    *)
(* removed.                                                                *)
(***************************************************************************)
StoreServesLastSave ==
  saving = "idle" /\ intact /\ uploads > 0 =>
     /\ row = committed
     /\ committed.photo = uploads
     /\ files[committed.ext] = uploads

(***************************************************************************)
(* A GET that answers with a photo answers with one that was uploaded      *)
(* whole, and not with an older one than was stored when it began, though  *)
(* it reads row and file while saves go on, are cut off and rolled back.   *)
(***************************************************************************)
ServedIsWholeAndCurrent ==
  \A r \in Readers :
     answer[r].is = "photo" => /\ answer[r].photo \in 1..uploads
                               /\ answer[r].photo >= since[r]
==============================================================================
