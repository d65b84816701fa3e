# A model of the airlock generator

This directory holds TLA+ modules that model the airlock STL generator: the
service that hands out numbers for printed locks, renders them, follows each
lock from the printer to its NFC tag and back out of service, and updates itself
on a NAS. TLC checks the models on small instances, TLAPS proves what matters
most for every instance. `PROJECT.json` maps each definition to its lines.

## 1. What there is to model

**The registry** (`app/registry.py`): a SQLite file, one connection, one
`threading.Lock`. It keeps the locks (`airlocks`: status, tag, batch, STL), the
batches with their idempotency key, the status history, the photos that prove a
print, a key-value table with the NFC secret, and two tables of access keys.
Every method that writes is one transaction under the lock; most give the lock
back before they read the row they return. *Correct* means: a tag is on one lock,
a number is issued once, the history explains the status, what is out of service
stays there unless someone forces it.

**The batch service** (`app/service.py` behind `POST /v1/airlocks:generate`):
looks an idempotency key up, chooses free codes, creates a batch, then for each
code reserves, renders with OpenSCAD, marks as generated; zips; closes the batch;
reads it back for the response. Each of these is a transaction of its own; the
handler runs in FastAPI's thread pool, so other requests fall in between, and
OpenSCAD can fail or time out. *Hard*: choosing reserves nothing; the key is
looked up and inserted separately; a restart leaves a half-rendered batch.

**The lock handlers** (`app/main.py`): `mark-printed` (a photo from the app turns
generated into printed), `nfc/commit` (a written tag is bound) and `PATCH` (the
next status, with `force` for the full key). The first two check a row they have
read and then write without looking again; `mark-printed` awaits its upload in
between. *Correct* means: a tag is only on a lock that was printed, a confirmed
binding stays, a photo is kept for each print the app reports.

**The print-proof store** (`save_print_proof`, `load_print_proof`): a `.jpg` or
`.png` beside the database and a row that says which. Saving is removing both
old files, writing a temporary one, renaming it, upserting the row. *Hard*:
readers and restarts fall between these.

**NFC tags** (`app/nfc.py`, `nfc/prepare|commit|verify`, the NFC dialog of
`static/app.js`, the iOS writer): a writer reads a tag's UID, has the server sign
code and UID, writes the token on the tag, has the UID bound. The secret can be
generated, backed up and restored at any time. *Correct* means: a tag verifies
only if its lock was printed, and one that was written in peace verifies.

**Access keys and the request log** (`app/auth.py`, `kgkeys.py`, `writerkeys.py`,
`kglog.py`, the `require_*` dependencies and the middleware of `main.py`): a full
key, a KG key from the environment, and two tables of restricted keys that can be
created, revoked and regenerated. A request under a restricted key looks its key
up as often as four times. *Correct* means: a revoked key does not come in, and
using a key leaves its traces.

**The update exchange** (`app/updates.py`, `scripts/nas_update_watcher.py`,
`updater/entrypoint.sh`): the container files `update.request` in a shared
directory; a watcher, started every minute by cron or by a sidecar, fetches,
checks a tag out, rebuilds the container and reports in `status.json`. *Hard*:
files are the only protocol, runs are killed, locks grow stale.

**The iOS app** (`ios-writer/`): besides the writer's sequence, Swift
continuations resolved by an NFC session's delegate and by tasks of its taps.

**The start** (`get_service` of `main.py`, `Registry.__init__`): the first request
builds the service, which opens the database, adds the columns an older one lacks
and fills in the history of its locks. *Hard*: nothing keeps two first requests from
doing so at once, each then with a connection and a lock of its own; a start can fail
or be cut off between any two statements and is then repeated by the next request.
*Correct* means: the service comes up, and whoever it serves finds every lock with
its columns and a history that tells its status.

**Exports** (`POST /v1/airlocks:threemf`, `build_threemf`, `threemf.py`,
`p1s_project.py`): up to 200 locks are rendered in two parts each, laid out in rows
on a plate, and written as one of three files: a 3MF of painted objects, an OBJ of
coloured points, or a P1S project of many documents. *Hard*: points are merged and
two meshes joined, indices run on, documents refer to each other by numbers computed
in several places, and rows are counted at the edge of the plate. *Correct* means: a
slicer reads back the locks that were asked for, none on another, and the answer tells
whether they are on the plate.

**Smaller parts**: the renderer, the encrypted secret backup, configuration, the
dashboard, deployment.

How they interact: the handlers, the batch service and the tag writers share the
registry's tables and nothing else; clients talk to the handlers over HTTP and may
lose any answer; container and watcher share the control directory; the middleware
sees each request after its handler. There is one uvicorn worker. `def` handlers
run in its thread pool, `async def` ones (`mark-printed`, the access checks, the
middleware) on its event loop and are interrupted only where they await.

`PROJECT.json` lists every hazard of this code we know of at its line, with the
properties that watch it.

## 2. The modules

| module | models | state | one action per |
|---|---|---|---|
| `Lifecycle` | the tables at the head of `registry.py` | – | – |
| `Registry` | `airlocks`, `batches`, `status_history` | the columns, the history rows of each code | writing method (transaction) |
| `TagMarriage` | *abstract:* what tags may do | the lock of each tag | `Marry` |
| `RegistryTags` | refinement of `TagMarriage` by `Registry` | – | – |
| `BatchService` | `AirlockService.generate`; extends `Registry` | each request's position, codes, batch, answer | step between two lock releases |
| `LockHandlers` | `mark_printed`, `nfc_commit`, `PATCH`; extends `Registry` | each request's position and the row it read; the photos | read, await, transaction, answer |
| `PrintProofStore` | the photo of one lock | two files, two temporary files, the row as seen and as committed | file operation, transaction |
| `TagWriting` | writers, tags, secret; extends `Registry` | the token on each tag, secret and backups, each writer's dialog and tap | request, write, change of dialog |
| `AccessKeys` | keys, checks, admin calls, middleware, log | the rows, each request and admin call, the ring | lookup, touch, transaction |
| `PlateLayout` | the grid of `build_3mf`, `build_obj`, `_grid` | – | – |
| `Meshes` | `load_binary_stl`, `_merge_colored` | – | – |
| `Export` | the request, `build_threemf`, the three builders; extends both | the request, the rendered parts, the spots, objects or lines so far, the file, the answer | render, turn of a builder's loop, answer |
| `Startup` | `get_service`, `_init_schema`, `_backfill_history`, and changes through what they build | the columns, statuses and histories; the shared variable; each request's start; the locks of the services | SQL statement or transaction, assignment |
| `Updater` | container, watcher, control directory | the files, git, the running version, each run | file operation, command |

`MC*` modules instantiate them for TLC; `*Proofs` modules hold the theorems.

How to read them:

- **A transaction is a step.** `Registry`'s actions are the methods as a whole
  (`SetNfc` with its check, move, promotion and history row). A method that raises
  rolls back and is no step there; in the client modules it is the action that
  answers with the error. `RegistrySpec` lets any method run at any time, and
  `BatchService`, `LockHandlers` and `TagWriting` take its actions as they are:
  `ServiceUsesRegistry` and `HandlersUseRegistry` check that they do nothing else,
  so what holds of `RegistrySpec` holds of them.
- **`MarkGenerated` has a guard the method has not** (`~stl[c]`): its only caller
  renders a code once, right after adding it.
- **History variables** exist for properties only: `overlapped` (`Startup`), `shown`,
  `wanted` (`Updater`), `calm` (`TagWriting`), `since`, `intact` (`PrintProofStore`),
  `gone`, `dropped` (`AccessKeys`).
- **Data is abstract.** Codes, UIDs, keys, requests are model values; a token is
  the record of what was signed and with which secret; a photo is the number of
  its upload; a version is its rank among the releases.
- **Mutants.** Operators whose comment says *Mutant* are wrong on purpose and
  used by no model: put in the place of the definition that follows they must
  break the property `PROJECT.json` names, which shows that it can fail.

What each module abstracts from its code:

- `BatchService`: an empty `Idempotency-Key` is a key of its own (`EmptyKey`), stored but
  not looked up. Left out are the format of codes (422), `return_zip`, `requested_by`, and
  how `allocate_auto` draws; the archive's content.
- `LockHandlers`: the kinds of bad photo (413, 415, 422) are one outcome; a
  `save_print_proof` that succeeds is one step, as saves run on the event loop one at a
  time; `PrintProofStore` opens it up. `Fails` is whatever else raises, at any read,
  transaction or save: 500, and what was committed stays, the row of a photo not among
  it. That an unlink may fail without notice, and that readers on the shared connection
  see a row before it is committed, is there.
- `TagWriting`: the web dialog and the app write the same tag whose UID they read;
  the typed-in UID of the fallback behaves alike. Reading the row and binding are
  two steps of the commit, `prepare` is one. Secret 0 is the default; `NoText` is a
  tag that was never, or not wholly, written. `require_status` of `verify` is a
  wish of the caller's and left out.
- `AccessKeys`: a key stands for its text, hash, prefix and id, which are drawn
  together; a key is presented only once its text was shown. Both tables have the
  same actions. A handler's 404 or 409 is an answer like 200. A check, `get_service` or a
  handler that raises (`Raises`) is answered 500 past the middleware, which awaits it outside its
  `try`; what the middleware's own look-up raises it catches, and names nobody
  (`NamesNobody`). Admin calls for an unknown id change nothing and are no step.
- `Meshes`: the vertices are the points at the places where their cell comes up first,
  which is what a loop with a dictionary leaves behind; the loop itself is not spelled out.
- `Export`: a code is a number, sent with its leading zeros or without; 0 stands for
  what is no code. OpenSCAD's STLs are constants of the model. A coordinate is a
  number of thirds of the 1e-5 mm cell in which points are merged, so no point lies on
  an edge between cells, where floats round either way. Lengths of a plate are whole
  numbers of a small unit. The XML, the colours' names, the static parts of the P1S
  template, the pause and the time stamps are left out; so are `identify_id` and the
  plate's ids, which nothing refers to. Exports share only the output directory, in
  which each draws its name, so one at a time is modelled. The lines of an OBJ are kept
  as points, which are numbered through the file, and as the triangles under each lock's
  `o` line.
- `Startup`: a history row is its two statuses and whom it names. The two
  columns are committed one by one, the rows of the backfill together. `AddsLock` and
  `MarksGenerated` are the batch service's transactions, with the rendering in between;
  `ReadsStatus` begins `update_status` or `set_nfc`, `WritesStatus` (to any status, as with
  force) and `BindsTag` end them; the lock kept between is the one of the request's own
  service. Which tag is bound, and the refusals `Registry` has, are left out. CREATE ... IF
  NOT EXISTS does the same however often it runs and is left out.
- `Updater`: `write_status` (read, change, write) is one step, as one run at a time
  writes it. The clone has a tag, so the watcher's branch without one is not
  reached. The history and the notes in `status.json` and the log are left out.

## 3. What TLC checks

All runs take a few seconds to a few minutes. Bounds are the constants `Max*`.

| run | bounds | states | question |
|---|---|---|---|
| `registry` | 2 locks, 2 tags, histories of 4, beta move and force on | 351 k | do tags, history and issue survive any order of transactions? |
| `batch_service` | 2 requests for up to 2 codes, 2 batches, 1 key and the empty one, histories of 4, 1 restart | 2.26 M | interleaved requests, PATCH, failures |
| `batch_voided` | the same | – | *disagreement:* does a voided lock stay voided? |
| `handlers` | 2 locks, 2 tags, 2 requests, histories of 7, 1 restart, beta move | 900 k | stale reads of the handlers |
| `handlers_final` | 1 lock, 2 tags, 2 requests, histories of 6, 1 restart, no beta move; fair | 164 k | does every request end, every print get its photo or a 500, a registered lock keep a tag? |
| `print_proofs` | 4 uploads, 2 cut off anywhere, 2 readers | 513 k | what do readers get? |
| `tag_writing` | 2 locks, 1 tag, 2 writers, 1 generated secret, beta move | 1.06 M | does a tag verify when it should, and only then? |
| `tag_otherlock` | 2 locks, 2 tags, 1 writer | – | *disagreement:* is the lock bound the one written? |
| `access_keys` | 2 keys, 1 env key, 2 requests, 1 admin call at a time, ring of 1, 1 restart | 2.66 M | revocation and traces |
| `updater` | 3 releases, 1 run at a time, 2 failures; fair | 108 k | is a request taken up, is the result true? |
| `exports` | 3 formats, 5 plates, 5 code lists, 8 batches of up to 13 locks, all failures | 5 k | does the file read back as asked, is `fits_on_plate` true? |
| `startup` | 2 locks, 4 older tables, 2 requests, 1 status to ask for, 1 stop, 1 failure, histories of 3; fair | 1.53 M | does the service come up, with what it needs, and do histories tell? |

**Registry.** `TagOnOneLock`: the column has no UNIQUE constraint, and
`set_nfc` releases only the first other holder. `AuditTrail`: the last row is the
status, rows connect, and exactly the steps that are not in the life cycle are
marked as forced. `RegisteredHasTag`: without the beta switch, a lock that came to
registered, active or retired by unforced steps has a tag (checked under the handlers,
in `handlers_final`). `IssuedOnce`: a lock
keeps its batch, its history only grows. `TerminalOnceRendered`: a rendered lock
leaves retired or voided only by a row marked as forced. `TagsAreMarried`: the
registry implements `TagMarriage`.

**Batch service.** `NumberIssuedOnce`: two responses list the same code only for
the same batch, although choosing reserves nothing. `KeyNamesOneBatch`: one key, one
batch, even if both lookups came before the first insert, or a restart between.
`FinishedBatchIsWhole`: a completed or partial batch has as many locks as it claims,
all rendered. `EveryCodeAccounted`: each code named is delivered or a conflict, and a
count that came alone is delivered in full.

**Handlers.** `TaggedWerePrinted`: a tag is only ever on a lock that was printed,
whatever PATCH did between check and write. `ConfirmedTagIsFinal`: if no client sends
rebind, a commit answered 200 is final and its response shows the tag.
`HandlersAnswer`: every request ends. `PrintedGetsPhoto`: a request that has marked its
lock, or found it marked, stores its photo, unless the container stops or an exception
makes the answer a 500 (then a printed lock may have none: section 5).

**Photos.** `StoreServesLastSave`: between saves that ended, row and file are those of
the last upload. `ServedIsWholeAndCurrent`: a GET that answers with a photo answers
with a whole one, not older than the one stored when it began. A GET may well answer
404 while a photo is replaced, and after a save that was cut off: see section 5.

**Tags.** `VerifiedWasPrinted`. `CalmTapVerifies`: if nothing came between the steps of
a tap (no other lock opened, no new secret, no other writer at the tag) then, when the
writer says "written and bound", the tag verifies for that lock, whatever PATCH and
other commits did, or the lock is out of service.

**Keys.** `RevokedStaysOut`: a request that comes in with a key revoked by then is
never let in. `UseLeavesTrace`: unless the key was revoked meanwhile, a request served
under it has set `last_used_at`, and PATCH's history row and the log name it, though
each looks the key up for itself (the log unless its look-up raised). `LogIsWhole`: every
answered request with a restricted key is in the log or was, but for those whose handler
raised and those under a `KG_KEY` whose look-up raised (`Escapes`); the numbers have no gap.

**Updater.** `AppliedIsAtLeastShown`: the run that takes a request up has found at
least the version the dashboard showed. `OkResultNamesWhatRuns`: an ok result names the
version that runs, unless an apply is under way or was cut off, though fetch and
checkout may fail unnoticed. `RequestIsTakenUp`: every request is,
by an apply whose checkout is still to come, though runs die.
`LastApplyReopens`: an apply that was cut off leaves `update.applying`, and requests are
refused; but one that is already filed heals that, once no run is cut off any more.

**Exports.** `FileReadsAsAsked`: what a slicer reads from the file, following ids and
indices, are the codes asked for, once each and in order, each with the triangles and
colours of its own two parts. `PartsAgree`: the documents of a P1S project refer to the
same objects and files. `LocksApart`: no two locks are closer than the gap, on the plate
or off it. `FitsMeansOnPlate`: `fits_on_plate` is true exactly if every lock is within
the margins; provided that one lock fits (section 5 says what is so otherwise).

**Start.** `ReadyWhenServed`: whoever is served finds both columns and each lock with a
history from its beginning, also after starts that overlapped, failed or were cut off.
`HistoryTells`: unless starts overlapped, only the first row of a history comes from
nothing; behind a live row all are live, and each starts where the one before ended,
except the renderer's, of which a lock has one at most and which starts from reserved
whatever PATCH has done meanwhile; and the last row is the status, except what the backfill
makes of the statuses that `Mistold` names. `ServiceComesUp`: liveness.

**Why the bounds are enough.** The hazards are of two actors: two requests, a request
and PATCH, a reader and a writer. Two of each, and two objects to confuse, let each
happen; one restart at any point is there, and a second one finds tables no different
from those after the first. Histories of 7 hold the longest life without force and the
renderer's row over a voided one, of 6 the same but for its retirement; of 4 the
shortest in which a rendered lock is voided and revived. Two keys allow one to replace
the other. A ring of one entry overruns at the second request. Four uploads allow each
order of types after a cut. Three releases allow one between any two of a run's steps
and a further one. The plates of `exports` are exact at an edge (one lock and no more;
two with no gap, and with one) or leave room; batches reach beyond the twelve locks of
the P1S bed. `startup` begins with four tables of two locks, with and without tags, of
statuses the backfill tells and of each it does not; of two locks one can be filled in
and the other not, and of two requests one can meet the other, which is all a third
could do. A lock can be added, printed by force while it renders, then generated, and
its tag bound; printed stands for every status that force can set, and is the one that
binding a tag promotes. In `registry` finish_batch is left out (`OpenBatchSpec`): no
other method depends on the batch's status. Locks, tags, requests, readers, writers,
keys are interchangeable and SYMMETRY is used where no liveness is checked.
`print_proofs` switches the deadlock check off: when all uploads are made and a reader
has found no row, the system may stop.

**Fairness.** `LockHandlers`: weak for the thread pool, which runs its threads; strong
for `mark_printed`, since another request may hold the event loop each time one looks,
and the loop takes waiting tasks in turn. Nothing is assumed of clients, PATCH, restarts
or `Fails`: a request gets on without an exception if none comes. `Updater`: weak for a
run's steps (cron or the sidecar starts the watcher again and again, its commands end)
and for `LockAges` (time passes: a lock left behind reaches its 1800 s). Nothing is
assumed of releases, clicks or failures. `Startup`: weak for the steps of a start and
for those of serving, as a thread that can go on does and clients (a dashboard left open
on its key log, for one) keep asking; a start may fail, and the container stop, as often
as the bounds say.

## 4. What TLAPS proves

The theorems hold for any number of locks, tags, requests, keys and readers, any
bound and both values of the beta switch, under the assumptions named in the modules:
NULLs are no values (no token on a tag is no token), the keys of tables, environment and
full access differ, the switches are Booleans and the bounds numbers, a batch may hold at
least one lock; requests for an export are what `ThreeMFRequest` lets through, and what
OpenSCAD makes of their codes are meshes: sequences of triangles in space.

Every safety property that a run checks is a theorem. Cardinalities and sequences are
reasoned about without induction: by bijections, by positions, and by saying of each state
what the loop has done as a function of its counter.

**`RegistryProofs`.** `RegistryTypes` first. `TagUniqueness`: with types inductive by
itself, as a step either binds a tag with no other holder or takes it from the one there
is. `RegistryMarriesTags` uses it: `LockOf` is then the inverse of the column, and each
`SetNfc` is a `Marry`. `HistoryIsHonest`: a lemma that each step adds one honest row to
one code (`StepLogs`), then the invariant. `RegisteredLocksHaveTags`: a history that is
unforced now was unforced before, and no unforced step enters these statuses without a
tag. `CodesAreIssuedOnce`, `TerminalIsFinal`: action properties from the types.

**`BatchProofs`.** `ServiceInv` says of each request that the batch it works for exists
and has its key, and that what it answered is of its batch; of the tables, that no two
batches share a key. Without it a response says nothing of the tables it was read
from. `ServiceIsRegistryClient` makes the registry's theorems true of the service
(`ServiceKeepsRegistry`); `NumbersAreIssuedOnce` and `KeysNameOneBatch` follow.
`BooksInv` is the service's bookkeeping: the codes a request has chosen are those of its
batch and those still to do, apart from conflicts (`BatchBooks`), one request at most
works for a batch (`OneWriter`), nobody takes locks out of one, and so what is counted at
the end is all there is (`ClosedBooks`, `ReplyBooks`). `FinishedBatchesAreWhole` needs that
PATCH and the other request leave the batch's size and its rendered locks alone, and
`RequestsAreAccounted` that a batch is read back as it was closed.

**`HandlersProofs`.** `HandlersInv` types the row a request has read. `PrintInv` adds what
a request past its check carries: the history showed a print, and histories keep their
rows, so the stale status does no harm (`TaggedLocksWerePrinted`). `FinalInv`: if nobody
sends rebind, a request that has bound its tag finds it there (`BindingsAreFinal`). A
request that raises keeps all of them, as it only answers (`FailsHandled`).

At the end of the module, the print-proof store: `StoreInv` says what a save in its last
steps has done (`SaveState`), that where a row points no older photo lies
(`PhotoOrder`), and what is so between saves that ended (`Settled`).

**`TagWritingProofs`.** `WritingInv` types the tap a writer is in. `WritersAreRegistryClients`
makes the registry's theorems true here too; two of its lemmas carry the rest, that a
history keeps what it has reached (`ReachedStays`) and that a lock's status is in it.
`PrintedInv`: each signed token, on a tag or in a writer's hand, is of a lock that was
printed when it was signed (`VerifiedTagsWerePrinted`). `CalmInv`: as long as nothing has
come between the steps of a tap, its token is of the open lock and of the secret in force,
then on the tag, and its commit is for that lock; whatever another writer, PATCH or a
change of secret does either leaves these alone or ends the calm (`CalmTapsVerify`).

**`AccessProofs`.** `AccessInv`: a revoked key keeps its row and is never active again
(`GoneInv`), and what each check has established on the way to the handler (`OnTheWay`).
`LogIsWhole` is inductive given the types: an exception ends a request with the 500 that
`LogIsWhole` exempts, and no request whose answer the middleware sees ends without its entry.

**`ExportProofs`.** Integer arithmetic first: a quotient bounds its multiples (`DivMod`),
so n parts with their gaps fit in a length exactly if n is at most the quotient
(`PartsThatFit`). Then `FitsOnPlate`: the rows needed are at most those that fit exactly if
the last lock, and with it each, lies in the area. `LayoutInv` says that the spots are those
of the grid and as many as the loop has turned; `LocksStayApart` and `FitsTellsTheTruth`
follow for any request, any plate and any size of a lock.

For the files, `Sorted` is shown to ascend and to be complete by counting: the number of
smaller elements is an injection of the set into as many numbers, so it takes each
(`SortedRanks`). Hence every point of a mesh has a vertex in its cell (`PointHasVertex`),
and codes come out once and in order (`CodesAsAsked`). `MergedIsSeen`: a slicer sees of
the joined mesh the triangles of both. An OBJ has no objects to follow, so a lemma says that a
part which is added goes on with the last lock and leaves the others as they read
(`PartGoesOn`, `LockIsAdded`). `ExportInv` then says of each turn of the two loops what is
rendered (`RenderedBy`) and written (`Objects`, `LinesOf`), and of a file that it is made of
these. `FilesReadAsAsked` and `DocumentsAgree` follow it through ids and file numbers.

**`StartupProofs`.** `StartupInv`: a request past the columns has seen both (`ColumnsInv`), and
once a request is past the backfill every lock has a history that starts at nothing
(`HistoryInv`): a lock that is there later was added with its first row. `ReadyForService`
holds for any number of starts at once. `HistoriesTell` is about starts that do not
overlap: then one request at most is within a start, only while there is no service
(`OneStart`); there is one service, and its lock keeps changes apart (`OneService`);
what the backfill has read is still so when it writes (`Filling`); and a lock that is being
rendered is so by one request, and has no row of the renderer's yet (`Rendering`). Its status
may change meanwhile, which is why the renderer's row need not chain. What a history tells is
said by positions (`Tells`), so that a row more is a case of its own (`RowTells`).

**`UpdaterProofs`.** `UpdaterTypes` for any number of overlapping runs. For runs that do not
overlap (`OneAtATime`): `Ordered` says that what was shown, what `status.json` says, the tag
found, the clone and the origin are each as new as the one before
(`RequestsGetWhatTheySaw`); `Applies` what each step of an apply knows of the container
(`OkResultsAreTrue`).

**Only model-checked**: liveness, as fairness and ENABLED are out of the prover's reach:
`PrintedGetsPhoto`, `HandlersAnswer`, `RequestIsTakenUp`, `LastApplyReopens`,
`ServiceComesUp`; and the two disagreements of section 5.

## 5. Where code and documents disagree

Two runs end in a counterexample to something the documents say:

- `batch_voided`: `mark_generated` overwrites whatever status there is
  (`registry.py:286`). A lock voided while OpenSCAD renders it is generated again;
  `CHANGELOG.md:81` calls voided truly terminal.
- `tag_otherlock`: the dialog and the app take code and rebind anew for each request
  (`app.js:144`, `NFCWriterService.swift:39-41`). Opening another lock during a tap
  binds the tag to that one, with the first one's token on it.

Others came up on the way and have no run:

- A watcher run that dies while it applies leaves `update.applying`; from then on every
  request is refused as "läuft bereits" (`updates.py:59`) though nothing runs. Only a
  request filed before gets through (`LastApplyReopens`).
- Two first requests may both fill in the history (`main.py:44`), which `registry.py:175`
  says happens once: each lock then has its rows twice. Later each of the two services
  keeps to its own lock, so `update_status` may write over what the other has changed.
- Rows and columns that fit are at least one (`threemf.py:172-174`, `p1s_project.py:60-61`):
  a lock larger than the plate counts as fitting, and the dashboard's warning
  (`app.js:114`) does not come.
- `p1s_project.py:10` promises the same bytes for the same codes; `writestr` stamps the time.
- The backfill leaves a reserved lock with a history that ends in generated, and a
  reserved or generated one with a tag with one that ends in registered
  (`registry.py:184-190`).
- The middleware that logs requests with a KG key (`main.py:163`) awaits the handler
  outside its `try`: a request whose handler or start raises is answered 500 and not logged,
  even if it has changed something.
- `mark_printed` commits the status, then saves the photo: if that raises, the answer is 500,
  the lock is printed and has no photo, until someone sends one again.
- An empty `Idempotency-Key` is not looked up (`service.py:67`) but stored in a UNIQUE
  column (`registry.py:270`): every request after the first that sends one is a 500.
- `nfc_commit` checks the row it read, `set_nfc` does not check again: a lock that is
  voided in between gets its first tag while voided (`main.py:440` against the rule at
  `main.py:781`). What does hold is `TaggedWerePrinted`.
- A writer key may verify and mark as printed; `main.py:111` and `writerkeys.py:3-4` say
  it may not change a
  status or verify (`docs/NFC.md` says both: it may at the endpoint, not in the chapter on
  writer keys).
- `set_nfc`'s docstring (`registry.py:351`) promotes reserved and generated
  locks too; `_NFC_PROMOTE_FROM` has printed alone.
- `save_print_proof` says writing is atomic; it first removes the old file, of the same
  type too, so readers in between get 404, and for good if the write then fails.
- `ARCHITECTURE.md:121` draws active → voided; the table allows active → retired only.
- A code taken between check and insert is a 500 (`service.py:85`), where
  `ARCHITECTURE.md:153` promises 409; so is a second request that loses the race for its
  key (`service.py:81`), where the first lines of `generate` promise the first batch.
- An empty code list beside a count passes the check of `models.py` that exactly one
  of them is there, and gives a completed batch without locks.
- `nfc_verify` accepts a lock without a bound tag (`main.py:486`); the offline check that
  `docs/NFC.md` describes beside it asks that the UID is the one registered.

## 6. What is not modelled, and why

- XML and number formatting, colours and static template parts of the exports, the SCAD
  template and OpenSCAD's geometry: formatting, or not ours.
- Scrypt and AES-GCM around one string (`secretbackup.py`): sequential, no state;
  `TagWriting` takes from it that a backup gives back the secret it was made of.
- Configuration and version: constants, read once. Docker, Caddy, CI, vendored three.js.
- The display of dashboard and viewer, lists, statistics and downloads: they change nothing.
- The app's NFC sessions. `NFCWriterService.finish` tests and clears its continuation without
  a lock, from the task of a tap and from the delegate (`NFCWriterService.swift:56-57,
  127-131, 146`). On which threads and in which order Core NFC calls its delegate is told
  by nothing in the repository: a model would check its own assumptions. The sequence of a
  tap's requests and writes is in `TagWriting`.
- Overlapping cron runs: `Updater` has the actions (`Watchers` may have two members), and
  `UpdaterTypes` is proved for them. That a result names what runs is not so when two
  builds overlap; with failures and liveness the state space is beyond a run of minutes.
- The parsing of `CHANGELOG.md` into notes, the history in `status.json`, the log.
- A registry over two connections beyond what `Startup` shows of `add_airlock`,
  `mark_generated`, `update_status` and `set_nfc` (which row has which tag is not in it);
  the other methods are one transaction in every model.

## 7. The plan

The core came first: `Lifecycle`, `Registry` and its proofs, then the clients in the
order of what they could break (`BatchService`, `LockHandlers`), then the stores and
protocols beside them (`PrintProofStore`, `TagWriting`, `Updater`, `AccessKeys`), then
what surrounds them (`Startup`, `Export`). What would come next:

1. The safety half of what liveness needs: that an apply which was cut off leaves no
   state from which a filed request cannot go on, and that a start never waits on another.
2. A specification of one photo slot, and that `PrintProofStore` implements it while saves
   end; of an append-only table, and that the histories implement it.
3. The tags of `set_nfc` over two connections: its check and its write then fall apart.
4. Two watcher runs at a time with the fetching merged, to see which of the properties
   survive cron.

Types that have a theorem are not checked again by a run, so that the runs are left to
the questions that could go wrong.
