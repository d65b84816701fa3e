----------------------------- MODULE BatchProofs -----------------------------
(***************************************************************************)
(* AirlockService.generate for any number of requests, codes, batches and  *)
(* restarts: it uses the registry as RegistrySpec allows, hands no number  *)
(* out twice, gives one batch per idempotency key, closes only whole       *)
(* batches and accounts for every code it was asked for.                   *)
(***************************************************************************)
EXTENDS BatchService, RegistryProofs, FiniteSetTheorems

USE RegistryAssumption, BatchServiceAssumption

\* What the registry keeps from one step to the next.
LEMMA TablesGrow ==
  ASSUME TypeOK, [RegistryNext]_registryVars
  PROVE  /\ \A b \in BatchIds : batchStatus[b] # Absent =>
              batchStatus'[b] # Absent /\ batchKey'[b] = batchKey[b]
         /\ \A c \in Codes : Present(c) =>
              status'[c] # Absent /\ batchOf'[c] = batchOf[c]
<1> DEFINE Kept == \A b \in BatchIds : batchStatus[b] # Absent =>
                     batchStatus'[b] # Absent /\ batchKey'[b] = batchKey[b]
<1>1. Kept
  <2>1. ASSUME NEW b \in BatchIds, NEW n \in 0..MaxBatch, NEW k \in Keys \cup {NoKey},
               CreateBatch(b, n, k)
        PROVE  Kept
    BY <2>1 DEF CreateBatch, TypeOK
  <2>2. ASSUME NEW b \in BatchIds, NEW s \in BatchStatuses, FinishBatch(b, s)
        PROVE  Kept
    BY <2>2 DEF FinishBatch, TypeOK, BatchStatuses, Absent
  <2>3. CASE UNCHANGED batchVars
    BY <2>3 DEF batchVars
  <2> QED
    BY <2>1, <2>2, <2>3
       DEF RegistryNext, LockNext, BatchNext, registryVars, batchVars,
           MarkGenerated, UpdateStatus, SetNfc, AddAirlock
<1>2. ASSUME NEW c \in Codes, Present(c) PROVE status'[c] # Absent
  BY <1>2, StepLogs, AbsentIsNoStatus DEF LogsOnly, Logs, Present
<1> QED BY <1>1, <1>2, BatchKept
------------------------------------------------------------------------------
(***************************************************************************)
(* The inductive invariant.  A request's own part: it goes through         *)
(* positions of its codes; once it has a batch, the batch exists and has   *)
(* its key; what it has answered is of its batch.                          *)
(***************************************************************************)
WithBatch == {"add", "render", "view", "rows"}

HasBatch(r) ==
  pc[r] \in WithBatch =>
    /\ mine[r] \in BatchIds
    /\ batchStatus[mine[r]] # Absent
    /\ Key(r) # NoKey => batchKey[mine[r]] = Key(r)

AnswersBatch(r) ==
  Delivered(r) =>
    /\ reply[r].batch \in BatchIds
    /\ batchStatus[reply[r].batch] # Absent
    /\ Key(r) # NoKey => batchKey[reply[r].batch] = Key(r)
    /\ \A c \in reply[r].codes : Present(c) /\ batchOf[c] = reply[r].batch

RequestInv(r) ==
  /\ pc[r] # "new" => order[r] \in Orders
  /\ pc[r] = "rows" => seen[r] \in BatchStatuses
  /\ reply[r] # NoReply => pc[r] = "answered"
  /\ HasBatch(r)
  /\ AnswersBatch(r)

\* The tables' part.
TablesInv ==
  /\ \A c \in Codes : ~Present(c) => batchOf[c] = NoBatch
  /\ \A b \in BatchIds : batchStatus[b] = Absent => batchKey[b] = NoKey
  /\ \A a, b \in BatchIds : batchKey[a] = batchKey[b] /\ batchKey[a] # NoKey => a = b

ServiceInv ==
  /\ ServiceTypeOK
  /\ TablesInv
  /\ \A r \in Requests : RequestInv(r)

LEMMA TablesInvPreserved ==
  ASSUME TypeOK, TablesInv, [RegistryNext]_registryVars
  PROVE  TablesInv'
<1>1. \A c \in Codes : status'[c] = Absent => batchOf'[c] = NoBatch
  <2> SUFFICES ASSUME NEW c \in Codes, status'[c] = Absent PROVE batchOf'[c] = NoBatch
    OBVIOUS
  <2>1. status[c] = Absent /\ batchOf[c] = NoBatch
    BY TablesGrow DEF TablesInv, Present
  <2>2. ASSUME NEW d \in Codes, NEW b \in BatchIds, AddAirlock(d, b)
        PROVE  batchOf'[c] = batchOf[c]
    BY <2>2 DEF AddAirlock, TypeOK, Absent
  <2>3. CASE batchOf' = batchOf
    BY <2>1, <2>3
  <2> QED
    BY <2>1, <2>2, <2>3
       DEF RegistryNext, LockNext, BatchNext, registryVars, airlockVars,
           MarkGenerated, UpdateStatus, SetNfc, CreateBatch, FinishBatch
<1>2. ASSUME NEW b \in BatchIds, NEW n \in 0..MaxBatch, NEW k \in Keys \cup {NoKey},
             CreateBatch(b, n, k)
      PROVE  TablesInv'
  BY <1>1, <1>2 DEF CreateBatch, TablesInv, TypeOK, Present, Absent
<1>3. ASSUME NEW b \in BatchIds, NEW s \in BatchStatuses, FinishBatch(b, s)
      PROVE  TablesInv'
  BY <1>1, <1>3 DEF FinishBatch, TablesInv, TypeOK, Present, BatchStatuses, Absent
<1>4. CASE UNCHANGED batchVars
  BY <1>1, <1>4 DEF batchVars, TablesInv, Present
<1> QED
  BY <1>2, <1>3, <1>4
     DEF RegistryNext, LockNext, BatchNext, registryVars, batchVars,
         MarkGenerated, UpdateStatus, SetNfc, AddAirlock

\* A request that does nothing keeps its part, whatever the tables do.
Idle(r) ==
  /\ pc'[r] = pc[r] \/ (pc'[r] = "lost" /\ pc[r] # "answered" /\ pc[r] # "new")
  /\ order'[r] = order[r] /\ mine'[r] = mine[r]
  /\ seen'[r] = seen[r] /\ reply'[r] = reply[r]

LEMMA IdleKeeps ==
  ASSUME ServiceInv, [RegistryNext]_registryVars, NEW r \in Requests, Idle(r)
  PROVE  RequestInv(r)'
<1>1. TypeOK
  BY DEF ServiceInv, ServiceTypeOK
<1>2. RequestInv(r)
  BY DEF ServiceInv
<1>3. HasBatch(r)'
  BY <1>1, <1>2, TablesGrow DEF RequestInv, HasBatch, Idle, WithBatch, Key
<1>4. AnswersBatch(r)'
  <2> SUFFICES ASSUME Delivered(r)
               PROVE  AnswersBatch(r)'
    BY DEF AnswersBatch, Delivered, Idle
  <2>1. reply[r] \in Replies /\ reply[r].error = "none"
    BY DEF ServiceInv, ServiceTypeOK, RequestTypeOK, Delivered
  <2>2. reply[r].codes \subseteq Codes
    BY <2>1 DEF Replies, Errors
  <2> QED BY <1>1, <1>2, <2>2, TablesGrow DEF RequestInv, AnswersBatch, Delivered, Idle, Key, Present
<1> QED BY <1>2, <1>3, <1>4 DEF RequestInv, Idle
------------------------------------------------------------------------------
(***************************************************************************)
(* One lemma per step of a request: the registry sees one of its own       *)
(* transactions or nothing, the other requests stay where they are, and    *)
(* this one's part of the invariant holds again.                           *)
(***************************************************************************)
Served(r) ==
  /\ [RegistryNext]_registryVars
  /\ RequestTypeOK'
  /\ \A q \in Requests \ {r} : Idle(q)
  /\ RequestInv(r)'

LEMMA OrderFacts ==
  ASSUME ServiceInv, NEW r \in Requests, pc[r] # "new"
  PROVE  /\ Key(r) \in Keys \cup {NoKey}
         /\ Body(r).named \in BOOLEAN
         /\ Body(r).count \in 0..MaxBatch
         /\ Body(r).codes \in UNION {Named(n) : n \in 0..MaxBatch}
<1>1. order[r] \in Orders
  BY DEF ServiceInv, RequestInv
<1>2. Key(r) \in Keys \cup {NoKey} /\ Body(r) \in Bodies
  BY <1>1 DEF Orders, Key, Body
<1>3. CASE Body(r) \in [named: BOOLEAN, codes: {<<>>}, count: 1..MaxBatch]
  <2>1. /\ Body(r).named \in BOOLEAN
        /\ Body(r).count \in 0..MaxBatch
        /\ Body(r).codes = <<>>
    BY <1>3
  <2>2. <<>> \in Named(0) /\ 0 \in 0..MaxBatch
    BY DEF Named
  <2> QED BY <1>2, <2>1, <2>2
<1>4. CASE \E n \in 1..MaxBatch : \E s \in Named(n) :
             Body(r) = [named |-> TRUE, codes |-> s, count |-> 0]
  <2>1. PICK n \in 1..MaxBatch : \E s \in Named(n) :
          Body(r) = [named |-> TRUE, codes |-> s, count |-> 0]
    BY <1>4
  <2>2. Body(r).named = TRUE /\ Body(r).count = 0 /\ Body(r).codes \in Named(n)
    BY <2>1
  <2>3. n \in 0..MaxBatch /\ 0 \in 0..MaxBatch
    OBVIOUS
  <2> QED BY <1>2, <2>2, <2>3
<1> QED BY <1>2, <1>3, <1>4 DEF Bodies

LEMMA ReceiveServed ==
  ASSUME ServiceInv, NEW r \in Requests, Receive(r)
  PROVE  Served(r)
  BY DEF ServiceInv, ServiceTypeOK, RequestTypeOK, RequestInv, Receive, Step, Served, Idle,
         HasBatch, AnswersBatch, Delivered, WithBatch, Labels, InFlight, registryVars

LEMMA LookupServed ==
  ASSUME ServiceInv, NEW r \in Requests, LookupHit(r) \/ LookupMiss(r)
  PROVE  Served(r)
<1>1. CASE LookupHit(r)
  <2>1. PICK b \in BatchIds : batchKey[b] = Key(r) /\ mine' = [mine EXCEPT ![r] = b]
    BY <1>1 DEF LookupHit, LooksUp
  <2>2. batchStatus[b] # Absent
    BY <1>1, <2>1 DEF LookupHit, LooksUp, ServiceInv, TablesInv
  <2> QED
    BY <1>1, <2>1, <2>2
       DEF ServiceInv, ServiceTypeOK, RequestTypeOK, RequestInv, LookupHit, LooksUp, Step, Served, Idle,
           HasBatch, AnswersBatch, Delivered, WithBatch, Labels, InFlight, registryVars, Key
<1>2. CASE LookupMiss(r)
  BY <1>2
     DEF ServiceInv, ServiceTypeOK, RequestTypeOK, RequestInv, LookupMiss, LooksUp, Step, Served, Idle,
         HasBatch, AnswersBatch, Delivered, WithBatch, Labels, InFlight, registryVars, Key
<1> QED BY <1>1, <1>2

LEMMA ChooseServed ==
  ASSUME ServiceInv, NEW r \in Requests, CheckProvided(r) \/ AllocateAuto(r) \/ Exhausted(r)
  PROVE  Served(r)
<1>1. pc[r] = "choose" /\ pc' \in [Requests -> Labels]
  BY DEF CheckProvided, AllocateAuto, Exhausted, Answer, Step, ServiceInv, ServiceTypeOK,
         RequestTypeOK, Labels, InFlight
<1>2. /\ Body(r).named \in BOOLEAN
      /\ Body(r).count \in 0..MaxBatch
      /\ Body(r).codes \in UNION {Named(n) : n \in 0..MaxBatch}
  BY <1>1, OrderFacts
<1>3. CASE CheckProvided(r)
  <2>1. PICK n \in 0..MaxBatch : Body(r).codes \in Named(n)
    BY <1>2
  <2>2. Len(Body(r).codes) = n /\ DOMAIN Body(r).codes = 1..n
    BY <2>1 DEF Named
  <2>3. todo'[r] \subseteq DOMAIN chosen'[r] /\ todo'[r] \subseteq 1..MaxBatch
    BY <1>3, <2>1, <2>2 DEF CheckProvided, ServiceInv, ServiceTypeOK, RequestTypeOK
  <2>4. Elems(Body(r).codes) \subseteq Codes
    BY <2>1, <2>2 DEF Elems, Named
  <2>5. RequestTypeOK'
    BY <1>1, <1>2, <1>3, <2>3, <2>4
       DEF CheckProvided, ServiceInv, ServiceTypeOK, RequestTypeOK
  <2> QED
    BY <1>3, <2>5
       DEF CheckProvided, ServiceInv, ServiceTypeOK, RequestTypeOK, RequestInv, Step, Served,
           Idle, HasBatch, AnswersBatch, Delivered, WithBatch, registryVars, Key
<1>4. CASE AllocateAuto(r)
  <2>1. PICK drawn \in Named(Body(r).count) : chosen' = [chosen EXCEPT ![r] = drawn]
    BY <1>4 DEF AllocateAuto
  <2>2. DOMAIN drawn = 1..Body(r).count
    BY <2>1 DEF Named
  <2>3. todo'[r] \subseteq DOMAIN chosen'[r] /\ todo'[r] \subseteq 1..MaxBatch
    BY <1>2, <1>4, <2>1, <2>2 DEF AllocateAuto, ServiceInv, ServiceTypeOK, RequestTypeOK
  <2>4. RequestTypeOK'
    BY <1>1, <1>2, <1>4, <2>1, <2>3
       DEF AllocateAuto, ServiceInv, ServiceTypeOK, RequestTypeOK
  <2> QED
    BY <1>4, <2>4
       DEF AllocateAuto, ServiceInv, ServiceTypeOK, RequestTypeOK, RequestInv, Step, Served,
           Idle, HasBatch, AnswersBatch, Delivered, WithBatch, registryVars, Key
<1>5. CASE Exhausted(r)
  <2>1. [code |-> 409, error |-> "CodeExhaustionError"] \in Replies
    BY DEF Replies, Errors
  <2>2. RequestTypeOK'
    BY <1>1, <1>5, <2>1 DEF Exhausted, Answer, ServiceInv, ServiceTypeOK, RequestTypeOK
  <2> QED
    BY <1>5, <2>2
       DEF Exhausted, Answer, ServiceInv, ServiceTypeOK, RequestTypeOK, RequestInv, Step,
           Served, Idle, HasBatch, AnswersBatch, Delivered, WithBatch, registryVars, Key
<1> QED BY <1>3, <1>4, <1>5

LEMMA StartServed ==
  ASSUME ServiceInv, NEW r \in Requests, StartBatch(r)
  PROVE  Served(r)
<1>1. PICK b \in BatchIds : /\ CreateBatch(b, Cardinality(todo[r]), Key(r))
                            /\ mine' = [mine EXCEPT ![r] = b]
  BY DEF StartBatch
<1>2. Key(r) \in Keys \cup {NoKey}
  BY OrderFacts DEF StartBatch, Step
<1>3. Cardinality(todo[r]) \in 0..MaxBatch
  <2>1. todo[r] \in SUBSET (1..MaxBatch)
    BY DEF ServiceInv, ServiceTypeOK, RequestTypeOK
  <2>2. IsFiniteSet(1..MaxBatch) /\ Cardinality(1..MaxBatch) = MaxBatch
    BY FS_Interval
  <2>3. IsFiniteSet(todo[r]) /\ Cardinality(todo[r]) <= MaxBatch
    BY <2>1, <2>2, FS_Subset
  <2> QED BY <2>3, FS_CardinalityType
<1>4. [RegistryNext]_registryVars
  BY <1>1, <1>2, <1>3 DEF RegistryNext, BatchNext
<1>5. batchStatus'[b] # Absent /\ batchKey'[b] = Key(r)
  BY <1>1 DEF CreateBatch, ServiceInv, ServiceTypeOK, TypeOK, Absent
<1>6. RequestTypeOK'
  BY <1>1 DEF StartBatch, Step, ServiceInv, ServiceTypeOK, RequestTypeOK, Labels, InFlight
<1> QED
  BY <1>1, <1>4, <1>5, <1>6
     DEF StartBatch, ServiceInv, ServiceTypeOK, RequestTypeOK, RequestInv, Step, Served,
         Idle, HasBatch, AnswersBatch, Delivered, WithBatch, Key

LEMMA ErrorServed ==
  ASSUME ServiceInv, NEW r \in Requests, NEW from \in InFlight, NEW exception \in Errors,
         Error(r, from, exception)
  PROVE  Served(r)
<1>1. [code |-> 500, error |-> exception] \in Replies /\ exception # "none"
  BY DEF Replies, Errors
<1>2. RequestTypeOK'
  BY <1>1 DEF Error, Answer, Step, ServiceInv, ServiceTypeOK, RequestTypeOK, Labels, InFlight
<1> QED
  BY <1>1, <1>2
     DEF Error, Answer, ServiceInv, ServiceTypeOK, RequestTypeOK, RequestInv, Step, Served,
         Idle, HasBatch, AnswersBatch, Delivered, WithBatch, registryVars, Key, InFlight

LEMMA LoopServed ==
  ASSUME ServiceInv, NEW r \in Requests, Reserve(r) \/ Rendered(r)
  PROVE  Served(r)
<1>1. /\ \A i \in todo[r] : chosen[r][i] \in Codes
      /\ todo[r] \subseteq DOMAIN chosen[r]
      /\ todo[r] \subseteq 1..MaxBatch
  BY DEF ServiceInv, ServiceTypeOK, RequestTypeOK, Named
<1>2. RequestInv(r) /\ TypeOK
  BY DEF ServiceInv, ServiceTypeOK
<1>3. CASE Reserve(r)
  <2>1. PICK i \in todo[r] : AddAirlock(chosen[r][i], mine[r])
    BY <1>3 DEF Reserve
  <2>2. mine[r] \in BatchIds
    BY <1>2, <1>3 DEF Reserve, Step, RequestInv, HasBatch, WithBatch
  <2>3. [RegistryNext]_registryVars
    BY <1>1, <2>1, <2>2 DEF RegistryNext, BatchNext
  <2>4. RequestTypeOK'
    BY <1>3 DEF Reserve, Step, ServiceInv, ServiceTypeOK, RequestTypeOK, Labels, InFlight
  <2>5. UNCHANGED <<batchStatus, batchKey>>
    BY <2>1 DEF AddAirlock
  <2> QED
    BY <1>2, <1>3, <2>3, <2>4, <2>5
       DEF Reserve, Step, ServiceInv, ServiceTypeOK, RequestTypeOK, RequestInv, Served, Idle,
           HasBatch, AnswersBatch, Delivered, WithBatch, Key
<1>4. CASE Rendered(r)
  <2>1. PICK i \in todo[r] : /\ MarkGenerated(chosen[r][i])
                             /\ todo' = [todo EXCEPT ![r] = @ \ {i}]
    BY <1>4 DEF Rendered
  <2>2. [RegistryNext]_registryVars
    BY <1>1, <2>1 DEF RegistryNext, LockNext
  <2>3. /\ todo' \in [Requests -> SUBSET (1..MaxBatch)]
        /\ \A q \in Requests : todo'[q] \subseteq todo[q]
    BY <2>1 DEF ServiceInv, ServiceTypeOK, RequestTypeOK
  <2>4. RequestTypeOK'
    BY <1>4, <2>3 DEF Rendered, Step, ServiceInv, ServiceTypeOK, RequestTypeOK, Labels, InFlight
  <2>5. UNCHANGED <<batchStatus, batchKey>>
    BY <2>1 DEF MarkGenerated
  <2> QED
    BY <1>2, <1>4, <2>2, <2>4, <2>5
       DEF Rendered, Step, ServiceInv, ServiceTypeOK, RequestTypeOK, RequestInv, Served, Idle,
           HasBatch, AnswersBatch, Delivered, WithBatch, Key
<1> QED BY <1>3, <1>4

LEMMA FinishServed ==
  ASSUME ServiceInv, NEW r \in Requests, Finish(r)
  PROVE  Served(r)
<1>1. FinishBatch(mine[r], BatchResult(r)) /\ pc[r] = "add"
  BY DEF Finish, Step
<1>2. BatchResult(r) \in {"completed", "partial", "failed"}
  BY DEF BatchResult
<1>3. RequestInv(r) /\ mine[r] \in BatchIds
  BY <1>1 DEF ServiceInv, RequestInv, HasBatch, WithBatch
<1>4. [RegistryNext]_registryVars
  BY <1>1, <1>2, <1>3 DEF RegistryNext, BatchNext, BatchStatuses
<1>5. RequestTypeOK'
  BY <1>2 DEF Finish, Step, ServiceInv, ServiceTypeOK, RequestTypeOK, Labels, InFlight,
              BatchStatuses
<1>6. batchStatus'[mine[r]] # Absent /\ batchKey' = batchKey
  BY <1>1, <1>2, <1>3 DEF FinishBatch, ServiceInv, ServiceTypeOK, TypeOK, Absent
<1> QED
  BY <1>3, <1>4, <1>5, <1>6
     DEF Finish, Step, ServiceInv, ServiceTypeOK, RequestTypeOK, RequestInv, Served, Idle,
         HasBatch, AnswersBatch, Delivered, WithBatch, Key

LEMMA ViewServed ==
  ASSUME ServiceInv, NEW r \in Requests, ViewBatch(r) \/ ViewRows(r)
  PROVE  Served(r)
<1>1. RequestInv(r) /\ TypeOK /\ RequestTypeOK /\ TablesInv
  BY DEF ServiceInv, ServiceTypeOK
<1>2. [RegistryNext]_registryVars
  BY DEF ViewBatch, ViewRows, registryVars
<1>3. mine[r] \in BatchIds /\ batchStatus[mine[r]] \in BatchStatuses
  BY <1>1 DEF ViewBatch, ViewRows, Answer, Step, RequestInv, HasBatch, WithBatch, TypeOK
<1>4. CASE ViewBatch(r)
  <2>1. RequestTypeOK'
    BY <1>1, <1>3, <1>4 DEF ViewBatch, Step, RequestTypeOK, Labels, InFlight
  <2> QED
    BY <1>1, <1>2, <1>3, <1>4, <2>1
       DEF ViewBatch, Step, RequestTypeOK, RequestInv, Served, Idle, HasBatch, AnswersBatch,
           Delivered, WithBatch, Key, registryVars
<1>5. CASE ViewRows(r)
  <2> DEFINE final == IF result[r] = Absent THEN seen[r] ELSE result[r]
             response ==
               [code |-> IF Body(r).codes # <<>> /\ final = "failed" THEN 409 ELSE 201,
                error |-> "none", batch |-> mine[r], status |-> final,
                codes |-> CodesOf(mine[r]),
                conflicts |-> IF result[r] = Absent THEN {} ELSE conflicts[r]]
  <2>1. Answer(r, "rows", response)
    BY <1>5 DEF ViewRows
  <2>2. final \in BatchStatuses
    BY <1>1, <2>1 DEF Answer, Step, RequestInv, RequestTypeOK
  <2>3. response \in Replies
    BY <1>1, <1>3, <2>2 DEF Replies, CodesOf, RequestTypeOK
  <2>4. pc' = [pc EXCEPT ![r] = "answered"] /\ reply' = [reply EXCEPT ![r] = response]
    BY <2>1 DEF Answer, Step
  <2>5. RequestTypeOK'
    BY <1>1, <1>5, <2>3, <2>4 DEF ViewRows, RequestTypeOK, Labels, InFlight
  <2>6. /\ reply'[r].batch = mine[r]
        /\ reply'[r].codes = CodesOf(mine[r])
        /\ pc'[r] = "answered"
    BY <1>1, <2>4 DEF RequestTypeOK
  <2>7. \A c \in CodesOf(mine[r]) : Present(c) /\ batchOf[c] = mine[r]
    BY <1>1, <1>3 DEF TablesInv, CodesOf
  <2>8. AnswersBatch(r)'
    BY <1>1, <1>3, <1>5, <2>1, <2>6, <2>7
       DEF ViewRows, Answer, Step, AnswersBatch, RequestInv, HasBatch, WithBatch, Key, Present,
           registryVars
  <2>9. \A q \in Requests \ {r} : Idle(q)
    BY <1>1, <1>5, <2>4 DEF ViewRows, Idle, RequestTypeOK
  <2> QED
    BY <1>1, <1>2, <1>5, <2>1, <2>5, <2>6, <2>8, <2>9
       DEF ViewRows, Answer, Step, RequestInv, Served, HasBatch, WithBatch
<1> QED BY <1>4, <1>5
------------------------------------------------------------------------------
LEMMA ServeServed ==
  ASSUME ServiceInv, NEW r \in Requests, Receive(r) \/ Serve(r)
  PROVE  Served(r)
<1>1. CASE \/ KeyTaken(r) \/ CodeTaken(r) \/ RenderFails(r) \/ ZipFails(r)
  <2>1. PICK from \in InFlight, exception \in Errors : Error(r, from, exception)
    BY <1>1 DEF KeyTaken, CodeTaken, RenderFails, ZipFails, InFlight, Errors
  <2> QED BY <2>1, ErrorServed
<1> QED
  BY <1>1, ReceiveServed, LookupServed, ChooseServed, StartServed, LoopServed, FinishServed,
     ViewServed DEF Serve

\* What every step of the service does.
LEMMA ServiceStep ==
  ASSUME ServiceInv, [Next]_vars
  PROVE  [RegistryNext]_registryVars /\ ServiceInv'
<1> DEFINE Kept ==
      /\ [RegistryNext]_registryVars
      /\ RequestTypeOK'
      /\ \A r \in Requests : RequestInv(r)'
<1>1. Kept
  <2>1. ASSUME NEW r \in Requests, Receive(r) \/ Serve(r)
        PROVE  Kept
    BY <2>1, ServeServed, IdleKeeps DEF Served
  <2>2. CASE Crash
    <3>1. [RegistryNext]_registryVars
      BY <2>2 DEF Crash, registryVars
    <3>2. \A r \in Requests : Idle(r)
      BY <2>2 DEF Crash, Idle, ServiceInv, ServiceTypeOK, RequestTypeOK, InFlight
    <3>3. RequestTypeOK'
      BY <2>2 DEF Crash, ServiceInv, ServiceTypeOK, RequestTypeOK, Labels
    <3> QED BY <3>1, <3>2, <3>3, IdleKeeps
  <2>3. CASE Patch
    <3>1. [RegistryNext]_registryVars
      BY <2>3 DEF Patch, RegistryNext, LockNext
    <3>2. RequestTypeOK' /\ \A r \in Requests : Idle(r)
      BY <2>3 DEF Patch, Idle, requestVars, ServiceInv, ServiceTypeOK, RequestTypeOK
    <3> QED BY <3>1, <3>2, IdleKeeps
  <2>4. CASE UNCHANGED vars
    <3>1. [RegistryNext]_registryVars
      BY <2>4 DEF vars
    <3>2. RequestTypeOK' /\ \A r \in Requests : Idle(r)
      BY <2>4 DEF vars, Idle, requestVars, ServiceInv, ServiceTypeOK, RequestTypeOK
    <3> QED BY <3>1, <3>2, IdleKeeps
  <2> QED BY <2>1, <2>2, <2>3, <2>4 DEF Next, Quiet
<1>2. TypeOK /\ TablesInv
  BY DEF ServiceInv, ServiceTypeOK
<1>3. TypeOK' /\ TablesInv'
  BY <1>1, <1>2, TypePreserved, TablesInvPreserved
<1> QED BY <1>1, <1>3 DEF ServiceInv, ServiceTypeOK

LEMMA ServiceInvInit == Init => ServiceInv
<1> SUFFICES ASSUME Init PROVE ServiceInv
  OBVIOUS
<1>1. TypeOK /\ TablesInv
  BY DEF Init, RegistryInit, TypeOK, TablesInv, Present
<1>2. [r \in Requests |-> <<>>] \in [Requests -> UNION {Named(n) : n \in 0..MaxBatch}]
  <2>1. <<>> \in Named(0) /\ 0 \in 0..MaxBatch
    BY DEF Named
  <2> QED BY <2>1
<1>3. RequestTypeOK
  BY <1>2 DEF Init, RequestTypeOK, Labels
<1>4. ASSUME NEW r \in Requests PROVE RequestInv(r)
  BY DEF Init, RequestInv, HasBatch, AnswersBatch, Delivered, WithBatch
<1> QED BY <1>1, <1>3, <1>4 DEF ServiceInv, ServiceTypeOK

THEOREM ServiceInvariant == Spec => []ServiceInv
  BY ServiceInvInit, ServiceStep, PTL DEF Spec

\* The service's state keeps its types.
THEOREM ServiceTypes == Spec => []ServiceTypeOK
<1>1. ServiceInv => ServiceTypeOK
  BY DEF ServiceInv
<1> QED BY <1>1, ServiceInvariant, PTL

\* generate is a client of the registry: it implements RegistrySpec.
THEOREM ServiceIsRegistryClient == Spec => ServiceUsesRegistry
<1>1. Init => RegistryInit
  BY DEF Init
<1>2. ServiceInv /\ [Next]_vars => [RegistryNext]_registryVars
  BY ServiceStep
<1> QED
  BY <1>1, <1>2, ServiceInvariant, PTL DEF Spec, ServiceUsesRegistry, RegistrySpec

\* What holds of the registry holds of the service.
THEOREM ServiceKeepsRegistry == Spec => [](TagOnOneLock /\ AuditTrail) /\ IssuedOnce
  BY ServiceIsRegistryClient, TagUniqueness, HistoryIsHonest, CodesAreIssuedOnce, PTL
  DEF ServiceUsesRegistry

\* No number is handed out to two batches.
THEOREM NumbersAreIssuedOnce == Spec => []NumberIssuedOnce
<1>1. ServiceInv => NumberIssuedOnce
  BY DEF ServiceInv, RequestInv, AnswersBatch, NumberIssuedOnce
<1> QED BY <1>1, ServiceInvariant, PTL

\* A key gives everybody the same batch.
THEOREM KeysNameOneBatch == Spec => []KeyNamesOneBatch
<1>1. ServiceInv => KeyNamesOneBatch
  BY DEF ServiceInv, RequestInv, AnswersBatch, KeyNamesOneBatch, TablesInv
<1> QED BY <1>1, ServiceInvariant, PTL
------------------------------------------------------------------------------
(***************************************************************************)
(* The books of a request.  While it works on its batch nobody else writes *)
(* the batch, and what the batch holds with what is left to do is what was *)
(* asked for; once it has closed the batch, the batch holds it.            *)
(***************************************************************************)
Working(r) == pc[r] \in {"add", "render"}

Closed(r) == pc[r] \in {"view", "rows"} /\ result[r] # Absent

Left(r) == {chosen[r][i] : i \in todo[r]}

\* These codes and the conflicts are what r named, without overlap.
Accounts(r, codes) ==
  Body(r).named =>
    /\ Elems(Body(r).codes) = codes \cup conflicts[r]
    /\ codes \cap conflicts[r] = {}

ChoiceBooks(r) ==
  pc[r] = "create" =>
    /\ Accounts(r, Left(r))
    /\ ~Body(r).named => Cardinality(todo[r]) = Body(r).count

BatchBooks(r) ==
  Working(r) =>
    /\ batchStatus[mine[r]] = "pending"
    /\ IsFiniteSet(CodesOf(mine[r]))
    /\ Cardinality(CodesOf(mine[r])) + Cardinality(todo[r])
         = batchCount[mine[r]] + (IF pc[r] = "render" THEN 1 ELSE 0)
    /\ \A c \in CodesOf(mine[r]) :
         stl[c] \/ (pc[r] = "render" /\ \E i \in todo[r] : At(r, i) /\ c = chosen[r][i])
    /\ pc[r] = "render" => \A i \in todo[r] : At(r, i) => chosen[r][i] \in CodesOf(mine[r])
    /\ Accounts(r, CodesOf(mine[r]) \cup Left(r))
    /\ ~Body(r).named => batchCount[mine[r]] = Body(r).count

ClosedBooks(r) ==
  Closed(r) =>
    /\ batchStatus[mine[r]] # "pending"
    /\ Accounts(r, CodesOf(mine[r]))
    /\ ~Body(r).named => Cardinality(CodesOf(mine[r])) = Body(r).count

ReplyBooks(r) ==
  Delivered(r) /\ result[r] # Absent =>
    /\ Body(r).named =>
         /\ Elems(Body(r).codes) = reply[r].codes \cup reply[r].conflicts
         /\ reply[r].codes \cap reply[r].conflicts = {}
    /\ ~Body(r).named => Cardinality(reply[r].codes) = Body(r).count

Books(r) ==
  /\ pc[r] \in {"new", "lookup", "choose", "create", "add", "render"} => result[r] = Absent
  /\ ChoiceBooks(r)
  /\ BatchBooks(r)
  /\ ClosedBooks(r)
  /\ ReplyBooks(r)

OneWriter ==
  \A r, q \in Requests : Working(r) /\ Working(q) /\ mine[r] = mine[q] => r = q

ForeignKey ==
  \A c \in Codes : \A b \in BatchIds : batchOf[c] = b => batchStatus[b] # Absent

BooksInv ==
  /\ ForeignKey
  /\ OneWriter
  /\ FinishedBatchIsWhole
  /\ \A r \in Requests : Books(r)

\* A request that does nothing keeps its books, if nobody touches its batch.
Still(r) ==
  /\ Idle(r)
  /\ chosen'[r] = chosen[r] /\ todo'[r] = todo[r]
  /\ conflicts'[r] = conflicts[r] /\ result'[r] = result[r]

Untouched(b) ==
  /\ batchStatus'[b] = batchStatus[b]
  /\ batchCount'[b] = batchCount[b]
  /\ {c \in Codes : batchOf'[c] = b} = CodesOf(b)

LEMMA RenderedStays ==
  ASSUME TypeOK, [RegistryNext]_registryVars
  PROVE  \A c \in Codes : stl[c] => stl'[c]
  BY DEF TypeOK, RegistryNext, LockNext, BatchNext, registryVars, airlockVars,
         MarkGenerated, UpdateStatus, SetNfc, CreateBatch, FinishBatch, AddAirlock

LEMMA ForeignKeyKept ==
  ASSUME TypeOK, ForeignKey, [RegistryNext]_registryVars
  PROVE  ForeignKey'
<1> SUFFICES ASSUME NEW c \in Codes, NEW b \in BatchIds, batchOf'[c] = b
             PROVE  batchStatus'[b] # Absent
  BY DEF ForeignKey
<1>1. CASE batchOf[c] = b
  BY <1>1, TablesGrow DEF ForeignKey
<1>2. CASE batchOf[c] # b
  <2>1. ASSUME NEW d \in Codes, NEW a \in BatchIds, AddAirlock(d, a)
        PROVE  batchStatus'[b] # Absent
    BY <1>2, <2>1 DEF AddAirlock, TypeOK
  <2>2. CASE batchOf' = batchOf
    BY <1>2, <2>2
  <2> QED
    BY <2>1, <2>2
       DEF RegistryNext, LockNext, BatchNext, registryVars, airlockVars,
           MarkGenerated, UpdateStatus, SetNfc, CreateBatch, FinishBatch
<1> QED BY <1>1, <1>2

LEMMA StillKeeps ==
  ASSUME ServiceInv, BooksInv, [RegistryNext]_registryVars, NEW r \in Requests, Still(r),
         Working(r) \/ Closed(r) => Untouched(mine[r])
  PROVE  Books(r)'
<1>1. Books(r) /\ RequestInv(r)
  BY DEF BooksInv, ServiceInv
<1>2. \A c \in Codes : stl[c] => stl'[c]
  BY RenderedStays DEF ServiceInv, ServiceTypeOK
<1>3. pc'[r] = pc[r] \/ pc'[r] = "lost"
  BY DEF Still, Idle
<1>4. Body(r)' = Body(r) /\ Left(r)' = Left(r) /\ \A i : At(r, i)' = At(r, i)
  BY DEF Still, Idle, Body, Left, At
<1>5. ChoiceBooks(r)'
  BY <1>1, <1>3, <1>4 DEF Books, ChoiceBooks, Accounts, Still, Idle
<1>6. ReplyBooks(r)'
  BY <1>1, <1>3, <1>4 DEF Books, ReplyBooks, Delivered, Still, Idle
<1>7. ASSUME Working(r)' PROVE BatchBooks(r)'
  <2>1. Working(r) /\ pc'[r] = pc[r] /\ Untouched(mine[r]) /\ BatchBooks(r)
    BY <1>1, <1>3, <1>7 DEF Working, Books
  <2>2. CodesOf(mine[r])' = CodesOf(mine[r])
    BY <2>1 DEF Untouched, CodesOf, Still, Idle
  <2>3. /\ mine'[r] = mine[r] /\ batchStatus'[mine[r]] = batchStatus[mine[r]]
        /\ batchCount'[mine[r]] = batchCount[mine[r]]
    BY <2>1 DEF Untouched, Still, Idle
  <2>4. Accounts(r, CodesOf(mine[r]) \cup Left(r))'
    BY <1>4, <2>1, <2>2 DEF BatchBooks, Accounts, Still
  <2>5. \A c \in CodesOf(mine[r]) :
          stl'[c] \/ (pc'[r] = "render" /\ \E i \in todo[r] : At(r, i) /\ c = chosen[r][i])
    BY <1>2, <2>1 DEF BatchBooks, CodesOf
  <2> QED
    BY <1>4, <2>1, <2>2, <2>3, <2>4, <2>5 DEF BatchBooks, Still
<1>8. ASSUME Closed(r)' PROVE ClosedBooks(r)'
  <2>1. Closed(r) /\ pc'[r] = pc[r] /\ Untouched(mine[r]) /\ ClosedBooks(r)
    BY <1>1, <1>3, <1>8 DEF Closed, Books, Still
  <2>2. CodesOf(mine[r])' = CodesOf(mine[r])
    BY <2>1 DEF Untouched, CodesOf, Still, Idle
  <2> QED
    BY <1>4, <2>1, <2>2 DEF ClosedBooks, Accounts, Still, Idle, Untouched
<1>9. pc'[r] \in {"new", "lookup", "choose", "create", "add", "render"} => result'[r] = Absent
  BY <1>1, <1>3 DEF Books, Still
<1> QED BY <1>5, <1>6, <1>7, <1>8, <1>9 DEF Books, BatchBooks, ClosedBooks

\* What a step of one request does to a batch.
LEMMA StepOnBatch ==
  ASSUME ServiceInv, BooksInv, NEW r \in Requests, Receive(r) \/ Serve(r), NEW b \in BatchIds
  PROVE  \/ Untouched(b)
         \/ batchStatus[b] = Absent /\ batchStatus'[b] = "pending"
         \/ Working(r) /\ b = mine[r]
<1>1. TypeOK /\ TablesInv
  BY DEF ServiceInv, ServiceTypeOK
<1>2. \A c \in Codes : ~Present(c) => batchOf[c] = NoBatch
  BY <1>1 DEF TablesInv
<1>3. CASE StartBatch(r)
  <2>1. PICK a \in BatchIds : CreateBatch(a, Cardinality(todo[r]), Key(r))
    BY <1>3 DEF StartBatch
  <2> QED
    BY <1>1, <2>1 DEF CreateBatch, Untouched, CodesOf, airlockVars, TypeOK
<1>4. CASE Reserve(r)
  <2>1. PICK i \in todo[r] : AddAirlock(chosen[r][i], mine[r])
    BY <1>4 DEF Reserve
  <2>2. pc[r] = "add"
    BY <1>4 DEF Reserve, Step
  <2>3. chosen[r][i] \in Codes
    BY <2>1 DEF ServiceInv, ServiceTypeOK, RequestTypeOK, Named
  <2>4. batchOf' = [batchOf EXCEPT ![chosen[r][i]] = mine[r]] /\ batchOf[chosen[r][i]] = NoBatch
    BY <1>2, <2>1, <2>3 DEF AddAirlock
  <2>5. CASE b # mine[r]
    BY <1>1, <2>1, <2>3, <2>4, <2>5, RegistryAssumption DEF AddAirlock, Untouched, CodesOf, TypeOK
  <2> QED BY <2>2, <2>5 DEF Working
<1>5. CASE Rendered(r)
  BY <1>5 DEF Rendered, MarkGenerated, Untouched, CodesOf
<1>6. CASE Finish(r)
  BY <1>1, <1>6 DEF Finish, Step, Working, FinishBatch, Untouched, CodesOf, TypeOK
<1>7. CASE UNCHANGED registryVars
  BY <1>7 DEF registryVars, Untouched, CodesOf
<1> QED
  BY <1>3, <1>4, <1>5, <1>6, <1>7
     DEF Serve, Receive, LookupHit, LookupMiss, CheckProvided, AllocateAuto, Exhausted, KeyTaken,
         CodeTaken, RenderFails, ZipFails, ViewBatch, ViewRows, Error

\* Every other request keeps its books.
LEMMA OthersKeep ==
  ASSUME ServiceInv, BooksInv, NEW r \in Requests, Receive(r) \/ Serve(r),
         [RegistryNext]_registryVars, NEW q \in Requests \ {r}, Still(q)
  PROVE  Books(q)'
<1>1. Books(q) /\ HasBatch(q) /\ Books(r)
  BY DEF BooksInv, ServiceInv, RequestInv
<1>2. ASSUME Working(q) \/ Closed(q) PROVE Untouched(mine[q])
  <2>1. mine[q] \in BatchIds /\ batchStatus[mine[q]] # Absent
    BY <1>1, <1>2 DEF HasBatch, WithBatch, Working, Closed
  <2>2. ~(Working(r) /\ mine[q] = mine[r])
    <3>1. CASE Working(q)
      BY <3>1 DEF BooksInv, OneWriter
    <3>2. CASE Closed(q)
      BY <1>1, <3>2 DEF Books, ClosedBooks, BatchBooks
    <3> QED BY <1>2, <3>1, <3>2
  <2> QED BY <2>1, <2>2, StepOnBatch
<1> QED BY <1>2, StillKeeps

\* A batch nobody writes stays whole.
Whole(b) ==
  /\ batchStatus[b] \in {"completed", "partial"} =>
       /\ Cardinality(CodesOf(b)) = batchCount[b]
       /\ \A c \in CodesOf(b) : stl[c]
  /\ batchStatus[b] = "failed" => CodesOf(b) = {}

LEMMA WholeKept ==
  ASSUME TypeOK, [RegistryNext]_registryVars, NEW b \in BatchIds, Whole(b), Untouched(b)
  PROVE  Whole(b)'
<1>1. CodesOf(b)' = CodesOf(b)
  BY DEF Untouched, CodesOf
<1>2. \A c \in CodesOf(b) : stl[c] => stl'[c]
  BY RenderedStays DEF CodesOf
<1> QED BY <1>1, <1>2 DEF Whole, Untouched
------------------------------------------------------------------------------
(***************************************************************************)
(* One lemma per step again: the other requests stand still, this one's    *)
(* books are in order, its batch is new or was its own already, and is     *)
(* whole if the step has closed it.                                        *)
(***************************************************************************)
Filed(r) ==
  /\ \A q \in Requests \ {r} : Still(q)
  /\ Books(r)'
  /\ Working(r)' => (Working(r) /\ mine'[r] = mine[r]) \/ batchStatus[mine'[r]] = Absent
  /\ Working(r) => mine'[r] = mine[r] /\ Whole(mine[r])'

LEMMA WaitFiled ==
  ASSUME ServiceInv, BooksInv, NEW r \in Requests,
         \/ Receive(r) \/ LookupHit(r) \/ LookupMiss(r) \/ ViewBatch(r)
  PROVE  Filed(r)
<1>1. Books(r) /\ RequestInv(r) /\ RequestTypeOK
  BY DEF BooksInv, ServiceInv, ServiceTypeOK
<1>2. \A q \in Requests \ {r} : Still(q)
  BY <1>1 DEF RequestTypeOK, Still, Idle, Receive, LookupHit, LookupMiss, ViewBatch, Step
<1>3. reply' = reply /\ pc[r] # "answered" /\ ~Delivered(r)
  BY <1>1 DEF Receive, LookupHit, LookupMiss, ViewBatch, Step, RequestInv, Delivered
<1>4. ~Working(r) /\ ~Working(r)' /\ pc'[r] # "create" /\ ReplyBooks(r)'
  BY <1>1, <1>3
     DEF Working, RequestTypeOK, Receive, LookupHit, LookupMiss, ViewBatch, Step, ReplyBooks,
         Delivered
<1>5. ClosedBooks(r)'
  <2> SUFFICES ASSUME Closed(r)' PROVE ClosedBooks(r)'
    BY DEF ClosedBooks
  <2>1. ViewBatch(r) /\ Closed(r)
    BY <1>1 DEF Books, Closed, Receive, LookupHit, LookupMiss, ViewBatch, Step, RequestTypeOK
  <2>2. ClosedBooks(r)
    BY <1>1 DEF Books
  <2> QED
    BY <2>1, <2>2 DEF ClosedBooks, ViewBatch, Accounts, Body, CodesOf, registryVars
<1>6. pc'[r] \in {"new", "lookup", "choose", "create", "add", "render"} => result'[r] = Absent
  BY <1>1 DEF Books, Receive, LookupHit, LookupMiss, ViewBatch, Step, RequestTypeOK
<1> QED BY <1>2, <1>4, <1>5, <1>6 DEF Filed, Books, ChoiceBooks, BatchBooks

LEMMA ErrorFiled ==
  ASSUME ServiceInv, BooksInv, NEW r \in Requests, NEW response,
         response.error # "none",
         pc' = [pc EXCEPT ![r] = "answered"],
         reply' = [reply EXCEPT ![r] = response],
         UNCHANGED <<order, chosen, todo, conflicts, mine, result, seen, registryVars>>
  PROVE  Filed(r)
<1>1. Books(r) /\ RequestInv(r) /\ RequestTypeOK
  BY DEF BooksInv, ServiceInv, ServiceTypeOK
<1>2. \A q \in Requests \ {r} : Still(q)
  BY <1>1 DEF RequestTypeOK, Still, Idle
<1>3. pc'[r] = "answered" /\ reply'[r].error # "none"
  BY <1>1 DEF RequestTypeOK
<1>4. ~Delivered(r)' /\ ~Working(r)' /\ ~Closed(r)'
  BY <1>3 DEF Delivered, Working, Closed
<1>5. Working(r) => mine'[r] = mine[r] /\ Whole(mine[r])'
  BY <1>1 DEF Books, BatchBooks, Whole, registryVars
<1> QED
  BY <1>2, <1>3, <1>4, <1>5 DEF Filed, Books, ChoiceBooks, BatchBooks, ClosedBooks, ReplyBooks

LEMMA ChooseFiled ==
  ASSUME ServiceInv, BooksInv, NEW r \in Requests, CheckProvided(r) \/ AllocateAuto(r)
  PROVE  Filed(r)
<1>1. Books(r) /\ RequestInv(r) /\ RequestTypeOK
  BY DEF BooksInv, ServiceInv, ServiceTypeOK
<1>2. \A q \in Requests \ {r} : Still(q)
  BY <1>1 DEF RequestTypeOK, Still, Idle, CheckProvided, AllocateAuto, Step
<1>3. pc[r] = "choose" /\ pc'[r] = "create" /\ result'[r] = Absent /\ reply' = reply
  BY <1>1 DEF CheckProvided, AllocateAuto, Step, RequestTypeOK, Books
<1>4. ~Working(r) /\ ~Working(r)' /\ ~Closed(r)' /\ ~Delivered(r)'
  BY <1>1, <1>3 DEF Working, Closed, Delivered, RequestInv
<1>5. Body(r)' = Body(r) /\ Body(r).count \in 0..MaxBatch
  BY <1>3, OrderFacts DEF CheckProvided, AllocateAuto, Body
<1>6. CASE CheckProvided(r)
  <2>1. /\ chosen'[r] = Body(r).codes
        /\ todo'[r] = {i \in 1..Len(Body(r).codes) : ~Present(Body(r).codes[i])}
        /\ conflicts'[r] = {c \in Elems(Body(r).codes) : Present(c)}
        /\ Body(r).named
    BY <1>1, <1>6 DEF CheckProvided, RequestTypeOK
  <2>2. Left(r)' = {c \in Elems(Body(r).codes) : ~Present(c)}
    BY <2>1 DEF Left, Elems
  <2>3. Accounts(r, Left(r))'
    BY <1>5, <2>1, <2>2 DEF Accounts
  <2>4. ChoiceBooks(r)'
    BY <1>5, <2>1, <2>3 DEF ChoiceBooks
  <2> QED BY <1>2, <1>3, <1>4, <2>4 DEF Filed, Books, BatchBooks, ClosedBooks, ReplyBooks
<1>7. CASE AllocateAuto(r)
  <2>1. todo'[r] = 1..Body(r).count /\ ~Body(r).named
    BY <1>1, <1>7 DEF AllocateAuto, RequestTypeOK
  <2>2. Cardinality(1..Body(r).count) = Body(r).count
    BY <1>5, FS_Interval
  <2>3. ChoiceBooks(r)'
    BY <1>5, <2>1, <2>2 DEF ChoiceBooks, Accounts
  <2> QED BY <1>2, <1>3, <1>4, <2>3 DEF Filed, Books, BatchBooks, ClosedBooks, ReplyBooks
<1> QED BY <1>6, <1>7

LEMMA StartFiled ==
  ASSUME ServiceInv, BooksInv, NEW r \in Requests, StartBatch(r)
  PROVE  Filed(r)
<1>1. Books(r) /\ RequestInv(r) /\ RequestTypeOK /\ TypeOK
  BY DEF BooksInv, ServiceInv, ServiceTypeOK
<1>2. \A q \in Requests \ {r} : Still(q)
  BY <1>1 DEF RequestTypeOK, Still, Idle, StartBatch, Step
<1>3. PICK b \in BatchIds : /\ CreateBatch(b, Cardinality(todo[r]), Key(r))
                            /\ mine' = [mine EXCEPT ![r] = b]
  BY DEF StartBatch
<1>4. pc[r] = "create" /\ pc'[r] = "add" /\ result'[r] = Absent /\ reply' = reply
  BY <1>1 DEF StartBatch, Step, RequestTypeOK, Books
<1>5. ~Working(r) /\ ~Closed(r)' /\ ~Delivered(r)'
  BY <1>1, <1>4 DEF Working, Closed, Delivered, RequestInv
<1>6. /\ mine'[r] = b /\ batchStatus[b] = Absent /\ batchStatus'[b] = "pending"
      /\ batchCount'[b] = Cardinality(todo[r]) /\ batchOf' = batchOf
  BY <1>1, <1>3 DEF RequestTypeOK, CreateBatch, TypeOK, airlockVars
<1>7. CodesOf(mine[r])' = {}
  BY <1>6 DEF CodesOf, BooksInv, ForeignKey
<1>8. Body(r)' = Body(r) /\ Left(r)' = Left(r) /\ todo' = todo /\ conflicts' = conflicts
  BY DEF StartBatch, Body, Left
<1>9. BatchBooks(r)'
  <2>1. Accounts(r, Left(r)) /\ (~Body(r).named => Cardinality(todo[r]) = Body(r).count)
    BY <1>1, <1>4 DEF Books, ChoiceBooks
  <2>2. Accounts(r, CodesOf(mine[r]) \cup Left(r))'
    BY <1>7, <1>8, <2>1 DEF Accounts
  <2>3. IsFiniteSet({}) /\ Cardinality({}) = 0
    BY FS_EmptySet
  <2>4. Cardinality(todo[r]) \in Nat
    <3>1. IsFiniteSet(1..MaxBatch)
      BY FS_Interval
    <3> QED BY <1>1, <3>1, FS_Subset, FS_CardinalityType DEF RequestTypeOK
  <2> QED BY <1>4, <1>6, <1>7, <1>8, <2>1, <2>2, <2>3, <2>4 DEF BatchBooks
<1> QED BY <1>2, <1>4, <1>5, <1>6, <1>9 DEF Filed, Books, ChoiceBooks, ClosedBooks, ReplyBooks

LEMMA TodoFinite ==
  ASSUME ServiceInv, NEW r \in Requests
  PROVE  /\ IsFiniteSet(todo[r]) /\ Cardinality(todo[r]) \in Nat
         /\ \A i, j \in todo[r] : At(r, i) /\ At(r, j) => i = j
<1>1. todo[r] \subseteq 1..MaxBatch
  BY DEF ServiceInv, ServiceTypeOK, RequestTypeOK
<1>2. IsFiniteSet(1..MaxBatch)
  BY FS_Interval
<1>3. IsFiniteSet(todo[r]) /\ Cardinality(todo[r]) \in Nat
  BY <1>1, <1>2, FS_Subset, FS_CardinalityType
<1> QED BY <1>1, <1>3 DEF At

\* The code joins the batch and is still to be rendered.
LEMMA ReserveFiled ==
  ASSUME ServiceInv, BooksInv, NEW r \in Requests, Reserve(r)
  PROVE  Filed(r)
<1>1. Books(r) /\ RequestInv(r) /\ RequestTypeOK /\ TypeOK /\ TablesInv
  BY DEF BooksInv, ServiceInv, ServiceTypeOK
<1>2. \A q \in Requests \ {r} : Still(q)
  BY <1>1 DEF RequestTypeOK, Still, Idle, Reserve, Step
<1>3. PICK i \in todo[r] : At(r, i) /\ AddAirlock(chosen[r][i], mine[r])
  BY DEF Reserve
<1> DEFINE c == chosen[r][i]
           b == mine[r]
<1>4. pc[r] = "add" /\ pc'[r] = "render" /\ result'[r] = Absent /\ reply' = reply /\ mine' = mine
  BY <1>1 DEF Reserve, Step, RequestTypeOK, Books
<1>5. Working(r) /\ ~Closed(r)' /\ ~Delivered(r)'
  BY <1>1, <1>4 DEF Working, Closed, Delivered, RequestInv
<1>6. c \in Codes /\ b \in BatchIds
  BY <1>1, <1>4 DEF RequestTypeOK, Named, RequestInv, HasBatch, WithBatch
<1>7. c \notin CodesOf(b) /\ CodesOf(mine[r])' = CodesOf(b) \cup {c}
  <2>1. batchOf[c] = NoBatch
    BY <1>3, <1>6, <1>1 DEF TablesInv, AddAirlock
  <2>2. batchOf' = [batchOf EXCEPT ![c] = b]
    BY <1>3 DEF AddAirlock
  <2> QED BY <1>1, <1>4, <1>6, <2>1, <2>2, RegistryAssumption DEF CodesOf, TypeOK
<1>8. /\ Body(r)' = Body(r) /\ Left(r)' = Left(r) /\ todo' = todo /\ chosen' = chosen
      /\ conflicts' = conflicts /\ \A j : At(r, j)' = At(r, j)
  BY DEF Reserve, Body, Left, At
<1>9. UNCHANGED <<batchStatus, batchCount, stl>>
  BY <1>3 DEF AddAirlock
<1>10. BatchBooks(r)
  BY <1>1 DEF Books
<1>11. BatchBooks(r)'
  <2>1. Accounts(r, CodesOf(mine[r]) \cup Left(r))'
    <3>1. c \in Left(r)
      BY DEF Left
    <3> QED BY <1>5, <1>7, <1>8, <1>10, <3>1 DEF BatchBooks, Accounts
  <2>2. /\ IsFiniteSet(CodesOf(b) \cup {c})
        /\ Cardinality(CodesOf(b) \cup {c}) = Cardinality(CodesOf(b)) + 1
        /\ Cardinality(CodesOf(b)) \in Nat
    BY <1>5, <1>7, <1>10, FS_AddElement, FS_CardinalityType DEF BatchBooks
  <2>3. \A d \in CodesOf(b) \cup {c} :
          stl[d] \/ \E j \in todo[r] : At(r, j) /\ d = chosen[r][j]
    BY <1>3, <1>4, <1>5, <1>10 DEF BatchBooks
  <2>4. \A j \in todo[r] : At(r, j) => chosen[r][j] \in CodesOf(b) \cup {c}
    BY <1>3, TodoFinite
  <2>5. batchStatus'[mine'[r]] = "pending" /\ (~Body(r).named => batchCount[b] = Body(r).count)
    BY <1>4, <1>5, <1>9, <1>10 DEF BatchBooks
  <2>6. Cardinality(CodesOf(b)) + Cardinality(todo[r]) = batchCount[b]
    <3>1. batchCount[b] \in Nat
      BY <1>1, <1>6 DEF TypeOK
    <3> QED BY <1>4, <1>5, <1>10, <3>1 DEF BatchBooks
  <2>7. Cardinality(CodesOf(b) \cup {c}) + Cardinality(todo[r]) = batchCount[b] + 1
    BY <2>2, <2>6, TodoFinite
  <2> QED BY <1>4, <1>7, <1>8, <1>9, <2>1, <2>2, <2>3, <2>4, <2>5, <2>7 DEF BatchBooks
<1>12. Working(r) => Whole(mine[r])'
  BY <1>4, <1>9, <1>10 DEF BatchBooks, Whole
<1> QED
  BY <1>2, <1>4, <1>5, <1>11, <1>12 DEF Filed, Books, ChoiceBooks, ClosedBooks, ReplyBooks

\* The code the loop is at is rendered and no longer to do.
LEMMA RenderedFiled ==
  ASSUME ServiceInv, BooksInv, NEW r \in Requests, Rendered(r)
  PROVE  Filed(r)
<1>1. Books(r) /\ RequestInv(r) /\ RequestTypeOK /\ TypeOK
  BY DEF BooksInv, ServiceInv, ServiceTypeOK
<1>2. PICK i \in todo[r] : /\ At(r, i) /\ MarkGenerated(chosen[r][i])
                           /\ todo' = [todo EXCEPT ![r] = @ \ {i}]
  BY DEF Rendered
<1> DEFINE c == chosen[r][i]
           b == mine[r]
<1>3. \A q \in Requests \ {r} : Still(q)
  BY <1>1, <1>2 DEF RequestTypeOK, Still, Idle, Rendered, Step
<1>4. pc[r] = "render" /\ pc'[r] = "add" /\ result'[r] = Absent /\ reply' = reply /\ mine' = mine
  BY <1>1 DEF Rendered, Step, RequestTypeOK, Books
<1>5. Working(r) /\ ~Closed(r)' /\ ~Delivered(r)'
  BY <1>1, <1>4 DEF Working, Closed, Delivered, RequestInv
<1>6. c \in Codes /\ b \in BatchIds
  BY <1>1, <1>4 DEF RequestTypeOK, Named, RequestInv, HasBatch, WithBatch
<1>7. /\ UNCHANGED <<batchOf, batchStatus, batchCount>> /\ stl'[c]
      /\ \A d \in Codes : stl[d] => stl'[d]
  BY <1>1, <1>2, <1>6 DEF MarkGenerated, TypeOK
<1>8. /\ Body(r)' = Body(r) /\ chosen' = chosen /\ conflicts' = conflicts
      /\ CodesOf(mine[r])' = CodesOf(b)
  BY <1>4, <1>7 DEF Rendered, Body, CodesOf
<1>9. BatchBooks(r)
  BY <1>1 DEF Books
<1>10. c \in CodesOf(b) /\ todo'[r] = todo[r] \ {i}
  BY <1>1, <1>2, <1>4, <1>5, <1>9 DEF BatchBooks, RequestTypeOK
<1>11. BatchBooks(r)'
  <2>1. Accounts(r, CodesOf(mine[r]) \cup Left(r))'
    <3>1. CodesOf(b) \cup Left(r)' = CodesOf(b) \cup Left(r)
      BY <1>8, <1>10 DEF Left
    <3> QED BY <1>5, <1>8, <1>9, <3>1 DEF BatchBooks, Accounts
  <2>2. Cardinality(todo[r] \ {i}) = Cardinality(todo[r]) - 1 /\ Cardinality(todo[r]) \in Nat
    BY TodoFinite, FS_RemoveElement
  <2>3. IsFiniteSet(CodesOf(b)) /\ Cardinality(CodesOf(b)) \in Nat
    BY <1>5, <1>9, FS_CardinalityType DEF BatchBooks
  <2>4. \A d \in CodesOf(b) : stl'[d]
    BY <1>2, <1>5, <1>7, <1>9, TodoFinite DEF BatchBooks, CodesOf
  <2>5. batchStatus'[mine'[r]] = "pending" /\ (~Body(r).named => batchCount[b] = Body(r).count)
    BY <1>4, <1>5, <1>7, <1>9 DEF BatchBooks
  <2>6. Cardinality(CodesOf(b)) + Cardinality(todo[r]) = batchCount[b] + 1
    BY <1>4, <1>5, <1>9 DEF BatchBooks
  <2>7. batchCount[b] \in Nat
    BY <1>1, <1>6 DEF TypeOK
  <2>8. Cardinality(CodesOf(b)) + Cardinality(todo[r] \ {i}) = batchCount[b] + 0
    BY <2>2, <2>3, <2>6, <2>7
  <2> QED BY <1>4, <1>7, <1>8, <1>10, <2>1, <2>3, <2>4, <2>5, <2>8 DEF BatchBooks
<1>12. Working(r) => Whole(mine[r])'
  BY <1>4, <1>7, <1>9 DEF BatchBooks, Whole
<1> QED
  BY <1>3, <1>4, <1>5, <1>11, <1>12 DEF Filed, Books, ChoiceBooks, ClosedBooks, ReplyBooks

\* Nothing is left to do: the batch holds what it claims.
LEMMA FinishFiled ==
  ASSUME ServiceInv, BooksInv, NEW r \in Requests, Finish(r)
  PROVE  Filed(r)
<1>1. Books(r) /\ RequestInv(r) /\ RequestTypeOK /\ TypeOK
  BY DEF BooksInv, ServiceInv, ServiceTypeOK
<1>2. \A q \in Requests \ {r} : Still(q)
  BY <1>1 DEF RequestTypeOK, Still, Idle, Finish, Step
<1> DEFINE b == mine[r]
<1>3. /\ pc[r] = "add" /\ pc'[r] = "view" /\ reply' = reply /\ mine' = mine
      /\ result'[r] = BatchResult(r) /\ todo[r] = {}
  BY <1>1 DEF Finish, Step, RequestTypeOK
<1>4. Working(r) /\ ~Working(r)' /\ ~Delivered(r)'
  BY <1>1, <1>3 DEF Working, Delivered, RequestInv
<1>5. b \in BatchIds
  BY <1>1, <1>3 DEF RequestInv, HasBatch, WithBatch
<1>6. /\ batchStatus'[b] = BatchResult(r)
      /\ UNCHANGED <<batchOf, batchCount, stl>>
  BY <1>1, <1>5 DEF Finish, FinishBatch, TypeOK
<1>7. Body(r)' = Body(r) /\ conflicts' = conflicts /\ CodesOf(mine[r])' = CodesOf(b)
  BY <1>3, <1>6 DEF Finish, Body, CodesOf
<1>8. BatchBooks(r)
  BY <1>1 DEF Books
<1>9. /\ IsFiniteSet(CodesOf(b)) /\ Cardinality(CodesOf(b)) = batchCount[b]
      /\ \A c \in CodesOf(b) : stl[c]
  <2>1. IsFiniteSet(CodesOf(b)) /\ Cardinality(CodesOf(b)) \in Nat /\ batchCount[b] \in Nat
    BY <1>1, <1>4, <1>5, <1>8, FS_CardinalityType DEF BatchBooks, TypeOK
  <2>2. Cardinality(todo[r]) = 0
    BY <1>3, FS_EmptySet
  <2>3. Cardinality(CodesOf(b)) + Cardinality(todo[r]) = batchCount[b] + 0
    BY <1>3, <1>4, <1>8 DEF BatchBooks
  <2>4. \A c \in CodesOf(b) : stl[c]
    BY <1>3, <1>4, <1>8 DEF BatchBooks
  <2> QED BY <2>1, <2>2, <2>3, <2>4
<1>10. ClosedBooks(r)'
  <2>1. Left(r) = {}
    BY <1>3 DEF Left
  <2>2. Accounts(r, CodesOf(b)) /\ (~Body(r).named => batchCount[b] = Body(r).count)
    BY <1>4, <1>8, <2>1 DEF BatchBooks, Accounts
  <2>3. Accounts(r, CodesOf(mine[r]))'
    BY <1>7, <2>2 DEF Accounts
  <2>4. batchStatus'[b] # "pending"
    BY <1>6 DEF BatchResult
  <2> QED BY <1>3, <1>7, <1>9, <2>2, <2>3, <2>4 DEF ClosedBooks
<1>11. Whole(mine[r])'
  <2>1. BatchResult(r) = "failed" => CodesOf(b) = {}
    <3>1. BatchResult(r) = "failed" => ~(batchCount[b] > 0)
      BY DEF BatchResult
    <3>2. batchCount[b] \in Nat
      BY <1>1, <1>5 DEF TypeOK
    <3> QED BY <1>9, <3>1, <3>2, FS_EmptySet
  <2>2. \A c \in CodesOf(b) : stl'[c]
    BY <1>6, <1>9
  <2> QED BY <1>3, <1>6, <1>7, <1>9, <2>1, <2>2 DEF Whole
<1> QED
  BY <1>2, <1>3, <1>4, <1>10, <1>11 DEF Filed, Books, ChoiceBooks, BatchBooks, ReplyBooks

\* The response shows what the batch holds.
LEMMA ViewRowsFiled ==
  ASSUME ServiceInv, BooksInv, NEW r \in Requests, ViewRows(r)
  PROVE  Filed(r)
<1>1. Books(r) /\ RequestInv(r) /\ RequestTypeOK
  BY DEF BooksInv, ServiceInv, ServiceTypeOK
<1>2. \A q \in Requests \ {r} : Still(q)
  BY <1>1 DEF RequestTypeOK, Still, Idle, ViewRows, Answer, Step
<1>3. pc[r] = "rows" /\ pc'[r] = "answered"
  BY <1>1 DEF ViewRows, Answer, Step, RequestTypeOK
<1>4. /\ reply'[r].codes = CodesOf(mine[r])
      /\ reply'[r].conflicts = IF result[r] = Absent THEN {} ELSE conflicts[r]
  BY <1>1 DEF ViewRows, Answer, RequestTypeOK
<1>5. ReplyBooks(r)'
  <2>1. Body(r)' = Body(r) /\ result' = result
    BY DEF ViewRows, Body
  <2>2. CASE result[r] = Absent
    BY <2>1, <2>2 DEF ReplyBooks
  <2>3. CASE result[r] # Absent
    <3>1. ClosedBooks(r) /\ Closed(r)
      BY <1>1, <1>3, <2>3 DEF Books, Closed
    <3> QED BY <1>4, <2>1, <2>3, <3>1 DEF ReplyBooks, ClosedBooks, Accounts
  <2> QED BY <2>2, <2>3
<1> QED
  BY <1>2, <1>3, <1>5
     DEF Filed, Books, ChoiceBooks, BatchBooks, ClosedBooks, Working, Closed
------------------------------------------------------------------------------
LEMMA ServeFiled ==
  ASSUME ServiceInv, BooksInv, NEW r \in Requests, Receive(r) \/ Serve(r)
  PROVE  Filed(r)
<1>1. CASE Exhausted(r)
  BY <1>1, ErrorFiled DEF Exhausted, Answer, Step, registryVars
<1>2. CASE KeyTaken(r) \/ CodeTaken(r) \/ RenderFails(r) \/ ZipFails(r)
  <2>1. PICK from \in InFlight, exception \in Errors : Error(r, from, exception)
    BY <1>2 DEF KeyTaken, CodeTaken, RenderFails, ZipFails, InFlight, Errors
  <2>2. [code |-> 500, error |-> exception].error # "none"
    BY DEF Errors
  <2> QED BY <2>1, <2>2, ErrorFiled DEF Error, Answer, Step
<1> QED
  BY <1>1, <1>2, WaitFiled, ChooseFiled, StartFiled, ReserveFiled, RenderedFiled, FinishFiled,
     ViewRowsFiled DEF Serve

\* A step that serves nobody.
LEMMA StillFiled ==
  ASSUME ServiceInv, BooksInv, [RegistryNext]_registryVars,
         \A r \in Requests : Still(r), \A b \in BatchIds : Untouched(b)
  PROVE  BooksInv'
<1>1. ForeignKey'
  BY ForeignKeyKept DEF BooksInv, ServiceInv, ServiceTypeOK
<1>2. OneWriter'
  BY DEF BooksInv, OneWriter, Working, Still, Idle
<1>3. FinishedBatchIsWhole'
  <2>1. ASSUME NEW b \in BatchIds PROVE Whole(b)'
    <3>1. Whole(b)
      BY DEF BooksInv, FinishedBatchIsWhole, Whole
    <3> QED BY <3>1, WholeKept DEF ServiceInv, ServiceTypeOK
  <2> QED BY <2>1 DEF FinishedBatchIsWhole, Whole
<1>4. ASSUME NEW r \in Requests PROVE Books(r)'
  <2>1. Working(r) \/ Closed(r) => mine[r] \in BatchIds
    BY DEF Working, Closed, ServiceInv, RequestInv, HasBatch, WithBatch
  <2> QED BY <2>1, StillKeeps
<1> QED BY <1>1, <1>2, <1>3, <1>4 DEF BooksInv

LEMMA BooksStep ==
  ASSUME ServiceInv, BooksInv, [Next]_vars
  PROVE  BooksInv'
<1>1. [RegistryNext]_registryVars /\ ServiceInv'
  BY ServiceStep
<1>2. ASSUME NEW r \in Requests, Receive(r) \/ Serve(r)
      PROVE  BooksInv'
  <2>1. Filed(r)
    BY <1>2, ServeFiled
  <2>2. ForeignKey'
    BY <1>1, ForeignKeyKept DEF BooksInv, ServiceInv, ServiceTypeOK
  <2>3. ASSUME NEW q \in Requests PROVE Books(q)'
    BY <1>1, <1>2, <2>1, OthersKeep DEF Filed
  <2>4. OneWriter'
    <3>1. ASSUME NEW q \in Requests \ {r}, Working(q)', Working(r)', mine'[q] = mine'[r]
          PROVE  FALSE
      <4>1. Working(q) /\ mine'[q] = mine[q]
        BY <2>1, <3>1 DEF Filed, Still, Idle, Working
      <4>2. batchStatus[mine[q]] = "pending"
        BY <4>1 DEF BooksInv, Books, BatchBooks
      <4> QED BY <2>1, <3>1, <4>1, <4>2 DEF Filed, BooksInv, OneWriter, Absent
    <3>2. ASSUME NEW p \in Requests \ {r}, NEW q \in Requests \ {r},
                 Working(p)', Working(q)', mine'[p] = mine'[q]
          PROVE  p = q
      BY <2>1, <3>2 DEF Filed, Still, Idle, Working, BooksInv, OneWriter
    <3> QED BY <3>1, <3>2 DEF OneWriter
  <2>5. FinishedBatchIsWhole'
    <3>1. ASSUME NEW b \in BatchIds PROVE Whole(b)'
      <4>1. Whole(b)
        BY DEF BooksInv, FinishedBatchIsWhole, Whole
      <4>2. CASE Untouched(b)
        BY <1>1, <4>1, <4>2, WholeKept DEF ServiceInv, ServiceTypeOK
      <4>3. CASE batchStatus'[b] = "pending"
        BY <4>3 DEF Whole
      <4>4. CASE Working(r) /\ b = mine[r]
        BY <2>1, <4>4 DEF Filed
      <4> QED BY <1>2, <4>2, <4>3, <4>4, StepOnBatch
    <3> QED BY <3>1 DEF FinishedBatchIsWhole, Whole
  <2> QED BY <2>2, <2>3, <2>4, <2>5 DEF BooksInv
<1>3. CASE Crash \/ Patch \/ UNCHANGED vars
  <2>1. \A r \in Requests : Still(r)
    BY <1>3 DEF Crash, Patch, vars, requestVars, Still, Idle, ServiceInv, ServiceTypeOK,
                RequestTypeOK, InFlight
  <2>2. \A b \in BatchIds : Untouched(b)
    BY <1>3 DEF Crash, Patch, vars, registryVars, UpdateStatus, Untouched, CodesOf
  <2> QED BY <1>1, <2>1, <2>2, StillFiled
<1> QED BY <1>2, <1>3 DEF Next, Quiet

LEMMA BooksInit == Init => BooksInv
<1> SUFFICES ASSUME Init PROVE BooksInv
  OBVIOUS
<1>1. ForeignKey /\ FinishedBatchIsWhole
  BY RegistryAssumption DEF Init, RegistryInit, ForeignKey, FinishedBatchIsWhole, Absent
<1>2. OneWriter /\ \A r \in Requests : Books(r)
  BY DEF Init, OneWriter, Working, Closed, Delivered, Books, ChoiceBooks, BatchBooks, ClosedBooks,
         ReplyBooks
<1> QED BY <1>1, <1>2 DEF BooksInv

THEOREM BooksInvariant == Spec => []BooksInv
  BY BooksInit, BooksStep, ServiceInvariant, PTL DEF Spec

\* A finished batch has the locks it claims, all of them rendered.
THEOREM FinishedBatchesAreWhole == Spec => []FinishedBatchIsWhole
<1>1. BooksInv => FinishedBatchIsWhole
  BY DEF BooksInv
<1> QED BY <1>1, BooksInvariant, PTL

\* A response accounts for every code and for the count it was asked for.
THEOREM RequestsAreAccounted == Spec => []EveryCodeAccounted
<1>1. BooksInv => EveryCodeAccounted
  BY DEF BooksInv, Books, ReplyBooks, EveryCodeAccounted
<1> QED BY <1>1, BooksInvariant, PTL
==============================================================================
