----------------------------- MODULE BatchService ----------------------------
(***************************************************************************)
(* AirlockService.generate (app/service.py) behind POST                    *)
(* /v1/airlocks:generate (app/main.py).  Requests run in FastAPI's thread  *)
(* pool: each is a process that takes the registry's lock once per         *)
(* transaction and renders in between, so other requests, PATCH calls and  *)
(* a restart of the container fall between any two of its steps.           *)
(***************************************************************************)
EXTENDS Registry, FiniteSets

CONSTANTS
  Requests,      \* the generate requests ever received
  NoReply,
  EmptyKey,      \* the key of an Idempotency-Key header that is there, but empty
  MaxCrashes     \* bound: container restarts

ASSUME BatchServiceAssumption ==
  /\ EmptyKey # NoKey
  /\ MaxCrashes \in Nat

VARIABLES
  pc,          \* where each request stands
  order,       \* its body and Idempotency-Key
  chosen,      \* the codes it goes through: those named, or those drawn
  todo,        \* the positions in chosen that are free and not yet done
  conflicts,   \* the provided codes it found taken
  mine,        \* its batch, or the one it replays
  result,      \* batch_status, once the loop is through; Absent in a replay
  seen,        \* the batch status _batch_view has read
  reply,       \* the response
  crashes

requestVars == <<pc, order, chosen, todo, conflicts, mine, result, seen, reply>>
vars == <<registryVars, requestVars, crashes>>

Named(n) == [1..n -> Codes]

\* GenerateRequest takes a list of codes or a count, not both, but lets an
\* empty list stand beside a count: named is whether the list is there.
Bodies ==
  {[named |-> TRUE, codes |-> s, count |-> 0] : s \in UNION {Named(n) : n \in 1..MaxBatch}}
    \cup [named: BOOLEAN, codes: {<<>>}, count: 1..MaxBatch]

NoBody == [named |-> FALSE, codes |-> <<>>, count |-> 0]

Orders == [body: Bodies, key: Keys \cup {NoKey}]

NoOrder == [body |-> NoBody, key |-> NoKey]

InFlight == {"lookup", "choose", "create", "add", "render", "view", "rows"}

Init ==
  /\ RegistryInit
  /\ pc        = [r \in Requests |-> "new"]
  /\ order     = [r \in Requests |-> NoOrder]
  /\ chosen    = [r \in Requests |-> <<>>]
  /\ todo      = [r \in Requests |-> {}]
  /\ conflicts = [r \in Requests |-> {}]
  /\ mine      = [r \in Requests |-> NoBatch]
  /\ result    = [r \in Requests |-> Absent]
  /\ seen      = [r \in Requests |-> Absent]
  /\ reply     = [r \in Requests |-> NoReply]
  /\ crashes = 0

Key(r) == order[r].key

Body(r) == order[r].body

CodesOf(b) == {c \in Codes : batchOf[c] = b}

Elems(s) == {s[i] : i \in 1..Len(s)}

\* The position the loop is at.
At(r, i) == i \in todo[r] /\ \A j \in todo[r] : i <= j

Step(r, from, to) == pc[r] = from /\ pc' = [pc EXCEPT ![r] = to]

Answer(r, from, response) ==
  /\ Step(r, from, "answered")
  /\ reply' = [reply EXCEPT ![r] = response]

\* An uncaught exception: the response is 500, what was committed stays.
Error(r, from, exception) ==
  /\ Answer(r, from, [code |-> 500, error |-> exception])
  /\ UNCHANGED <<order, chosen, todo, conflicts, mine, result, seen, crashes>>
  /\ UNCHANGED registryVars
------------------------------------------------------------------------------
Receive(r) ==
  /\ Step(r, "new", "lookup")
  /\ \E o \in Orders : order' = [order EXCEPT ![r] = o]
  /\ UNCHANGED <<registryVars, chosen, todo, conflicts, mine, result, seen, reply, crashes>>

\* An empty key is not looked up, though it is stored like any other.
LooksUp(r) == Key(r) \notin {NoKey, EmptyKey}

\* A key that names a batch is answered with that batch.
LookupHit(r) ==
  /\ Step(r, "lookup", "view")
  /\ LooksUp(r)
  /\ \E b \in BatchIds : batchKey[b] = Key(r) /\ mine' = [mine EXCEPT ![r] = b]
  /\ UNCHANGED <<registryVars, order, chosen, todo, conflicts, result, seen, reply, crashes>>

LookupMiss(r) ==
  /\ Step(r, "lookup", "choose")
  /\ LooksUp(r) => \A b \in BatchIds : batchKey[b] # Key(r)
  /\ UNCHANGED <<registryVars, order, chosen, todo, conflicts, mine, result, seen, reply, crashes>>

\* Mutant: the codes found taken are forgotten.
CheckProvidedForgets(r) ==
  /\ Body(r).named
  /\ Step(r, "choose", "create")
  /\ chosen' = [chosen EXCEPT ![r] = Body(r).codes]
  /\ todo' = [todo EXCEPT ![r] = {i \in 1..Len(Body(r).codes) : ~Present(Body(r).codes[i])}]
  /\ UNCHANGED <<registryVars, order, conflicts, mine, result, seen, reply, crashes>>

\* check_provided: the free codes in the order given, duplicates and all.
\* Nothing is reserved yet.
CheckProvided(r) ==
  /\ Body(r).named
  /\ Step(r, "choose", "create")
  /\ chosen' = [chosen EXCEPT ![r] = Body(r).codes]
  /\ todo' = [todo EXCEPT ![r] = {i \in 1..Len(Body(r).codes) : ~Present(Body(r).codes[i])}]
  /\ conflicts' = [conflicts EXCEPT ![r] = {c \in Elems(Body(r).codes) : Present(c)}]
  /\ UNCHANGED <<registryVars, order, mine, result, seen, reply, crashes>>

\* allocate_auto: so many different free codes, in some order, or 409 when
\* the draws do not yield enough of them.  Nothing is reserved yet.
AllocateAuto(r) ==
  /\ ~Body(r).named
  /\ Step(r, "choose", "create")
  /\ \E drawn \in Named(Body(r).count) :
       /\ \A i \in 1..Body(r).count : ~Present(drawn[i])
       /\ \A i, j \in 1..Body(r).count : drawn[i] = drawn[j] => i = j
       /\ chosen' = [chosen EXCEPT ![r] = drawn]
  /\ todo' = [todo EXCEPT ![r] = 1..Body(r).count]
  /\ UNCHANGED <<registryVars, order, conflicts, mine, result, seen, reply, crashes>>

Exhausted(r) ==
  /\ ~Body(r).named
  /\ Answer(r, "choose", [code |-> 409, error |-> "CodeExhaustionError"])
  /\ UNCHANGED <<registryVars, order, chosen, todo, conflicts, mine, result, seen, crashes>>

StartBatch(r) ==
  /\ Step(r, "create", "add")
  /\ \E b \in BatchIds :
       /\ CreateBatch(b, Cardinality(todo[r]), Key(r))
       /\ mine' = [mine EXCEPT ![r] = b]
  /\ UNCHANGED <<order, chosen, todo, conflicts, result, seen, reply, crashes>>

\* There is a batch under the key: another request has created it since the
\* lookup, or, the key being empty, it was not looked for.
KeyTaken(r) ==
  /\ Key(r) # NoKey
  /\ \E b \in BatchIds : batchKey[b] = Key(r)
  /\ Error(r, "create", "batches.idempotency_key")

Reserve(r) ==
  /\ Step(r, "add", "render")
  /\ \E i \in todo[r] : At(r, i) /\ AddAirlock(chosen[r][i], mine[r])
  /\ UNCHANGED <<order, chosen, todo, conflicts, mine, result, seen, reply, crashes>>

\* The code has got a row since it was chosen.
CodeTaken(r) ==
  /\ \E i \in todo[r] : At(r, i) /\ Present(chosen[r][i])
  /\ Error(r, "add", "airlocks.code")

\* Mutant: the status is written past the registry's history.
RenderedUnlogged(r) ==
  /\ Step(r, "render", "add")
  /\ \E i \in todo[r] :
       /\ At(r, i)
       /\ status' = [status EXCEPT ![chosen[r][i]] = "generated"]
       /\ stl' = [stl EXCEPT ![chosen[r][i]] = TRUE]
       /\ todo' = [todo EXCEPT ![r] = @ \ {i}]
  /\ UNCHANGED <<nfcUid, batchOf, history, batchVars>>
  /\ UNCHANGED <<order, chosen, conflicts, mine, result, seen, reply, crashes>>

\* OpenSCAD has run: the lock becomes generated.
Rendered(r) ==
  /\ Step(r, "render", "add")
  /\ \E i \in todo[r] :
       /\ At(r, i)
       /\ MarkGenerated(chosen[r][i])
       /\ todo' = [todo EXCEPT ![r] = @ \ {i}]
  /\ UNCHANGED <<order, chosen, conflicts, mine, result, seen, reply, crashes>>

\* OpenSCAD fails or runs into render_timeout.
RenderFails(r) == Error(r, "render", "GeneratorError")

\* _make_zip cannot write the archive.
ZipFails(r) ==
  /\ Error(r, "add", "OSError")
  /\ todo[r] = {}
  /\ batchCount[mine[r]] > 0

BatchResult(r) ==
  IF Body(r).named /\ conflicts[r] # {}
  THEN IF batchCount[mine[r]] > 0 THEN "partial" ELSE "failed"
  ELSE "completed"

\* Mutant: the batch is closed while codes are left.
FinishEarly(r) ==
  /\ Step(r, "add", "view")
  /\ FinishBatch(mine[r], BatchResult(r))
  /\ result' = [result EXCEPT ![r] = BatchResult(r)]
  /\ UNCHANGED <<order, chosen, todo, conflicts, mine, seen, reply, crashes>>

Finish(r) ==
  /\ todo[r] = {}
  /\ Step(r, "add", "view")
  /\ FinishBatch(mine[r], BatchResult(r))
  /\ result' = [result EXCEPT ![r] = BatchResult(r)]
  /\ UNCHANGED <<order, chosen, todo, conflicts, mine, seen, reply, crashes>>

\* _batch_view reads the batch row, then the locks of the batch.
ViewBatch(r) ==
  /\ Step(r, "view", "rows")
  /\ seen' = [seen EXCEPT ![r] = batchStatus[mine[r]]]
  /\ UNCHANGED <<registryVars, order, chosen, todo, conflicts, mine, result, reply, crashes>>

\* A replay reports the status it has read and no conflicts; failed is 409
\* for a request that named codes.
ViewRows(r) ==
  LET final == IF result[r] = Absent THEN seen[r] ELSE result[r]
  IN  /\ Answer(r, "rows",
           [code |-> IF Body(r).codes # <<>> /\ final = "failed" THEN 409 ELSE 201,
            error |-> "none",
            batch |-> mine[r],
            status |-> final,
            codes |-> CodesOf(mine[r]),
            conflicts |-> IF result[r] = Absent THEN {} ELSE conflicts[r]])
      /\ UNCHANGED <<registryVars, order, chosen, todo, conflicts, mine, result, seen, crashes>>

\* The container stops and comes back: the threads are gone, the tables stay.
Crash ==
  /\ crashes < MaxCrashes
  /\ crashes' = crashes + 1
  /\ pc' = [r \in Requests |-> IF pc[r] \in InFlight THEN "lost" ELSE pc[r]]
  /\ UNCHANGED <<registryVars, order, chosen, todo, conflicts, mine, result, seen, reply>>

\* PATCH /v1/airlocks/{code}: one transaction, at any time.
Patch ==
  /\ \E c \in Codes, s \in STATUSES, force \in Forces : UpdateStatus(c, s, "api", force)
  /\ UNCHANGED <<requestVars, crashes>>

Serve(r) ==
  \/ LookupHit(r) \/ LookupMiss(r)
  \/ CheckProvided(r) \/ AllocateAuto(r) \/ Exhausted(r)
  \/ StartBatch(r) \/ KeyTaken(r)
  \/ Reserve(r) \/ CodeTaken(r) \/ Rendered(r) \/ RenderFails(r) \/ ZipFails(r)
  \/ Finish(r) \/ ViewBatch(r) \/ ViewRows(r)

\* Every request has had its answer, or lost its connection.
Quiet ==
  /\ \A r \in Requests : pc[r] \in {"answered", "lost"}
  /\ UNCHANGED vars

Next == (\E r \in Requests : Receive(r) \/ Serve(r)) \/ Crash \/ Patch \/ Quiet

Spec == Init /\ [][Next]_vars
------------------------------------------------------------------------------
Labels == InFlight \cup {"new", "answered", "lost"}

Errors ==
  {"CodeExhaustionError", "batches.idempotency_key", "airlocks.code", "GeneratorError", "OSError"}

Replies ==
  [code: {409, 500}, error: Errors]
    \cup [code: {201, 409}, error: {"none"}, batch: BatchIds, status: BatchStatuses,
          codes: SUBSET Codes, conflicts: SUBSET Codes]

RequestTypeOK ==
  /\ pc \in [Requests -> Labels]
  /\ order \in [Requests -> Orders \cup {NoOrder}]
  /\ chosen \in [Requests -> UNION {Named(n) : n \in 0..MaxBatch}]
  /\ todo \in [Requests -> SUBSET (1..MaxBatch)]
  /\ \A r \in Requests : todo[r] \subseteq DOMAIN chosen[r]
  /\ conflicts \in [Requests -> SUBSET Codes]
  /\ mine \in [Requests -> BatchIds \cup {NoBatch}]
  /\ result \in [Requests -> BatchStatuses \cup {Absent}]
  /\ seen \in [Requests -> BatchStatuses \cup {Absent}]
  /\ reply \in [Requests -> Replies \cup {NoReply}]
  /\ crashes \in 0..MaxCrashes

ServiceTypeOK == TypeOK /\ RequestTypeOK

Delivered(r) == reply[r] # NoReply /\ reply[r].error = "none"

(***************************************************************************)
(* The service reaches the tables through the registry's transactions      *)
(* alone, so whatever RegistrySpec guarantees holds of it.                 *)
(***************************************************************************)
ServiceUsesRegistry == RegistrySpec

(***************************************************************************)
(* No number is handed out twice: two responses list the same code only if *)
(* they show the same batch.  Choosing a code reserves nothing, so this    *)
(* rests on add_airlock alone.                                             *)
(***************************************************************************)
NumberIssuedOnce ==
  \A r, q \in Requests :
    Delivered(r) /\ Delivered(q) /\ reply[r].batch # reply[q].batch
      => reply[r].codes \cap reply[q].codes = {}

(***************************************************************************)
(* An idempotency key names one batch: whoever gets a batch under the same *)
(* key gets the same one, also when the lookups of both came before the    *)
(* first batch was created, or the container restarted in between.         *)
(***************************************************************************)
KeyNamesOneBatch ==
  \A r, q \in Requests :
    Delivered(r) /\ Delivered(q) /\ Key(r) # NoKey /\ Key(r) = Key(q)
      => reply[r].batch = reply[q].batch

(***************************************************************************)
(* A batch that says completed or partial has as many locks as it claims,  *)
(* all of them rendered; a failed one has none.                            *)
(***************************************************************************)
FinishedBatchIsWhole ==
  \A b \in BatchIds :
    /\ batchStatus[b] \in {"completed", "partial"} =>
         /\ Cardinality(CodesOf(b)) = batchCount[b]
         /\ \A c \in CodesOf(b) : stl[c]
    /\ batchStatus[b] = "failed" => CodesOf(b) = {}

(***************************************************************************)
(* A response to a request that was not a replay accounts for what it      *)
(* asked: each code it named is delivered or reported as a conflict, never *)
(* both; and a count that came without a list is delivered in full,        *)
(* although others reserve codes between the choice and the reservation.   *)
(***************************************************************************)
EveryCodeAccounted ==
  \A r \in Requests :
    Delivered(r) /\ result[r] # Absent =>
      /\ Body(r).named =>
           /\ Elems(Body(r).codes) = reply[r].codes \cup reply[r].conflicts
           /\ reply[r].codes \cap reply[r].conflicts = {}
      /\ ~Body(r).named => Cardinality(reply[r].codes) = Body(r).count

(***************************************************************************)
(* CHANGELOG.md, 1.10.0: retired and voided are truly terminal.  Read off  *)
(* the history: with no forced row behind it, such a row is the last word. *)
(***************************************************************************)
VoidedStaysVoided ==
  \A c \in Codes : \A i \in 1..Len(history[c]) :
    /\ history[c][i].to \in TERMINAL
    /\ \A j \in i..Len(history[c]) : ~history[c][j].forced
    => status[c] \in TERMINAL
==============================================================================
