------------------------------- MODULE Startup -------------------------------
(***************************************************************************)
(* The first request after a start: get_service of app/main.py builds the  *)
(* service, and with it opens the registry: the missing columns are added  *)
(* and the history of older locks is filled in.  Requests run in threads,  *)
(* so two of them may find no service and both build one, each with a      *)
(* connection and a lock of its own.  A step is one SQL statement that is  *)
(* committed by itself, or one transaction.  Once there is a service,      *)
(* requests add locks, render them, change their status and bind their     *)
(* tags through it.                                                        *)
(***************************************************************************)
EXTENDS Lifecycle, Integers, Sequences, FiniteSets

CONSTANTS
  Codes,        \* the locks there are or may be
  OldTables,    \* what an older version may have left of the locks
  Requests,     \* the threads that serve requests
  Targets,      \* the statuses that clients ask for
  None,         \* no service
  MaxStops,     \* bound: how often the container stops
  MaxFails,     \* bound: how often a start fails of itself
  MaxHistory    \* bound: rows a lock's history may collect while serving

ASSUME StartupAssumption ==
  /\ None \notin Requests
  /\ Targets \subseteq STATUSES
  /\ OldTables \subseteq [Codes -> [status : STATUSES \cup {Absent}, tagged : BOOLEAN]]
  /\ MaxStops \in Nat /\ MaxFails \in Nat /\ MaxHistory \in Nat

VARIABLES
  columns,      \* the NFC columns that the table airlocks has
  status,       \* airlocks.status, Absent where the code has no row
  tagged,       \* airlocks.nfc_written_at is set
  history,      \* the status_history rows of each code
  service,      \* _service, named after the request that built it
  pc,           \* where each request stands
  saw,          \* the columns its start has seen, or added
  rows,         \* the locks its backfill has read
  using,        \* the service it was given
  locked,       \* the services whose lock is taken
  change,       \* the lock it changes, and the status it takes it to have
  overlapped,   \* two starts have been under way at once
  stops, fails

tables == <<columns, status, tagged, history>>
process == <<service, pc, saw, rows, using, locked, change>>
vars == <<tables, process, overlapped, stops, fails>>

NFC == {"nfc_uid", "nfc_written_at"}

Present(c) == status[c] # Absent

\* Whom a row of the history names: the backfill, add_airlock ("reserve"),
\* mark_generated ("render"), or one of the clients.
Actors == {"backfill", "reserve", "render", "client"}

Row(from, to, by) == [from |-> from, to |-> to, by |-> by]

NoChange == [code |-> None, from |-> Absent]

\* A table of an older version, with or without the NFC columns; it has no
\* history yet.
Init ==
  /\ columns \in {{}, NFC}
  /\ \E old \in OldTables :
       /\ (\E c \in Codes : old[c].tagged) => columns = NFC
       /\ status = [c \in Codes |-> old[c].status]
       /\ tagged = [c \in Codes |-> old[c].tagged]
  /\ history = [c \in Codes |-> <<>>]
  /\ service = None
  /\ pc = [r \in Requests |-> "idle"]
  /\ saw = [r \in Requests |-> {}]
  /\ rows = [r \in Requests |-> <<>>]
  /\ using = [r \in Requests |-> None]
  /\ locked = {}
  /\ change = [r \in Requests |-> NoChange]
  /\ overlapped = FALSE
  /\ stops = 0 /\ fails = 0

Goes(r, to) == pc' = [pc EXCEPT ![r] = to]

InService(r) == pc[r] \in {"serving", "rendering", "writing"}

Starting(r) == pc[r] \in {"columns", "alter", "count", "rows", "seed", "publish"}
------------------------------------------------------------------------------
(***************************************************************************)
(* get_service.                                                            *)
(***************************************************************************)
Finds(r) ==
  /\ pc[r] = "idle"
  /\ service # None
  /\ Goes(r, "take")
  /\ UNCHANGED <<tables, service, saw, rows, using, locked, change, overlapped, stops, fails>>

Opens(r) ==
  /\ pc[r] = "idle"
  /\ service = None
  /\ Goes(r, "columns")
  /\ overlapped' = (overlapped \/ \E other \in Requests : Starting(other))
  /\ UNCHANGED <<tables, service, saw, rows, using, locked, change, stops, fails>>

\* Mutant: _service is not declared global.
PublishedLocally(r) == UNCHANGED service

Published(r) == service' = r

Publishes(r) ==
  /\ pc[r] = "publish"
  /\ Published(r)
  /\ Goes(r, "take")
  /\ UNCHANGED <<tables, saw, rows, using, locked, change, overlapped, stops, fails>>

\* It returns what the variable holds now, be it another's.
Takes(r) ==
  /\ pc[r] = "take"
  /\ using' = [using EXCEPT ![r] = service]
  /\ Goes(r, "serving")
  /\ UNCHANGED <<tables, service, saw, rows, locked, change, overlapped, stops, fails>>
------------------------------------------------------------------------------
(***************************************************************************)
(* _init_schema.                                                           *)
(***************************************************************************)
ReadsColumns(r) ==
  /\ pc[r] = "columns"
  /\ saw' = [saw EXCEPT ![r] = columns]
  /\ Goes(r, "alter")
  /\ UNCHANGED <<tables, service, rows, using, locked, change, overlapped, stops, fails>>

\* Mutant: the columns are not looked at.
MissingAnyway(r) == IF pc[r] = "alter" THEN NFC ELSE {}

\* The column to add next: nfc_uid is the first.
Missing(r) ==
  IF "nfc_uid" \notin saw[r] THEN {"nfc_uid"} ELSE NFC \ saw[r]

AddsColumn(r) ==
  /\ pc[r] = "alter"
  /\ \E col \in Missing(r) :
       /\ col \notin columns
       /\ columns' = columns \cup {col}
       /\ saw' = [saw EXCEPT ![r] = @ \cup {col}]
  /\ UNCHANGED <<status, tagged, history, service, pc, rows, using, locked, change, overlapped, stops, fails>>

HasColumns(r) ==
  /\ pc[r] = "alter"
  /\ Missing(r) = {}
  /\ saw' = [saw EXCEPT ![r] = {}]
  /\ Goes(r, "count")
  /\ UNCHANGED <<tables, service, rows, using, locked, change, overlapped, stops, fails>>

\* The start raises: another has added the column; or else the file is
\* locked for too long, or OpenSCAD's template is missing.  The request is
\* answered 500 and what it has built is dropped.
StartRaises(r) ==
  /\ \/ pc[r] = "alter" /\ Missing(r) \cap columns # {} /\ UNCHANGED fails
     \/ Starting(r) /\ fails < MaxFails /\ fails' = fails + 1
  /\ saw' = [saw EXCEPT ![r] = {}]
  /\ rows' = [rows EXCEPT ![r] = <<>>]
  /\ Goes(r, "idle")
  /\ UNCHANGED <<tables, service, using, locked, change, overlapped, stops>>
------------------------------------------------------------------------------
(***************************************************************************)
(* _backfill_history.                                                      *)
(***************************************************************************)

\* Mutant: what there is is not counted.
HaveNotCounted == FALSE

Have == \E c \in Codes : history[c] # <<>>

Counts(r) ==
  /\ pc[r] = "count"
  /\ Goes(r, IF Have THEN "publish" ELSE "rows")
  /\ UNCHANGED <<tables, service, saw, rows, using, locked, change, overlapped, stops, fails>>

ReadsRows(r) ==
  /\ pc[r] = "rows"
  /\ rows' = [rows EXCEPT ![r] = [c \in {d \in Codes : Present(d)} |->
                                    [status |-> status[c], tagged |-> tagged[c]]]]
  /\ Goes(r, "seed")
  /\ UNCHANGED <<tables, service, saw, using, locked, change, overlapped, stops, fails>>

\* What a lock must have gone through.
SeedOf(a) ==
  <<Row(Absent, "reserved", "backfill"), Row("reserved", "generated", "backfill")>>
  \o (IF a.tagged THEN <<Row("printed", "registered", "backfill")>> ELSE <<>>)
  \o (IF a.status \in {"reserved", "generated"} \/ (a.tagged /\ a.status = "registered") THEN <<>>
      ELSE <<Row(IF a.tagged THEN "registered" ELSE "generated", a.status, "backfill")>>)

\* Mutant: every lock is committed by itself.
SeedsOneByOne(r) ==
  \/ \E c \in DOMAIN rows[r] :
       /\ history' = [history EXCEPT ![c] = @ \o SeedOf(rows[r][c])]
       /\ rows' = [rows EXCEPT ![r] = [d \in DOMAIN rows[r] \ {c} |-> rows[r][d]]]
       /\ UNCHANGED pc
  \/ DOMAIN rows[r] = {} /\ Goes(r, "publish") /\ UNCHANGED <<history, rows>>

\* All rows of all locks are one transaction.
SeedsAll(r) ==
  /\ history' = [c \in Codes |->
                   IF c \in DOMAIN rows[r] THEN history[c] \o SeedOf(rows[r][c]) ELSE history[c]]
  /\ rows' = [rows EXCEPT ![r] = <<>>]
  /\ Goes(r, "publish")

Seeds(r) ==
  /\ pc[r] = "seed"
  /\ SeedsAll(r)
  /\ UNCHANGED <<columns, status, tagged, service, saw, using, locked, change, overlapped, stops, fails>>
------------------------------------------------------------------------------
(***************************************************************************)
(* What requests do with the service.  add_airlock and mark_generated,     *)
(* whose first statement writes, are one transaction each, and OpenSCAD    *)
(* renders in between.  update_status and set_nfc read before they write,  *)
(* and in between only the lock of their own service keeps others out.     *)
(***************************************************************************)
Serves(r, at) == pc[r] = at /\ using[r] \notin locked

AddsLock(r, c) ==
  /\ Serves(r, "serving")
  /\ ~Present(c)
  /\ status' = [status EXCEPT ![c] = "reserved"]
  /\ history' = [history EXCEPT ![c] = Append(@, Row(Absent, "reserved", "reserve"))]
  /\ change' = [change EXCEPT ![r] = [code |-> c, from |-> "reserved"]]
  /\ Goes(r, "rendering")
  /\ UNCHANGED <<columns, tagged, service, saw, rows, using, locked, overlapped, stops, fails>>

\* The status is not read again: the row starts from reserved, whatever
\* became of the lock during the rendering.
MarksGenerated(r) ==
  /\ Serves(r, "rendering")
  /\ LET c == change[r].code
     IN  /\ status' = [status EXCEPT ![c] = "generated"]
         /\ history' = [history EXCEPT ![c] = Append(@, Row(change[r].from, "generated", "render"))]
  /\ change' = [change EXCEPT ![r] = NoChange]
  /\ Goes(r, "serving")
  /\ UNCHANGED <<columns, tagged, service, saw, rows, using, locked, overlapped, stops, fails>>

ReadsStatus(r, c) ==
  /\ Serves(r, "serving")
  /\ Present(c)
  /\ locked' = locked \cup {using[r]}
  /\ change' = [change EXCEPT ![r] = [code |-> c, from |-> status[c]]]
  /\ Goes(r, "writing")
  /\ UNCHANGED <<tables, service, saw, rows, using, overlapped, stops, fails>>

Ends(r) ==
  /\ locked' = locked \ {using[r]}
  /\ change' = [change EXCEPT ![r] = NoChange]
  /\ Goes(r, "serving")
  /\ UNCHANGED <<columns, service, saw, rows, using, overlapped, stops, fails>>

Changes(c, from, to) ==
  /\ Len(history[c]) < MaxHistory
  /\ status' = [status EXCEPT ![c] = to]
  /\ history' = [history EXCEPT ![c] = Append(@, Row(from, to, "client"))]

\* update_status; with force every step is allowed.
WritesStatus(r) ==
  /\ pc[r] = "writing"
  /\ \E to \in Targets \ {change[r].from} : Changes(change[r].code, change[r].from, to)
  /\ Ends(r)
  /\ UNCHANGED tagged

\* set_nfc, for whatever lock its caller's check has let through; a rebind
\* may take the tag from another lock.
BindsTag(r) ==
  /\ pc[r] = "writing"
  /\ LET c == change[r].code
     IN  /\ \E d \in Codes :
              tagged' = [e \in Codes |-> e = c \/ (e # d /\ tagged[e])]
         /\ IF change[r].from \in NFC_PROMOTE_FROM
            THEN Changes(c, change[r].from, "registered")
            ELSE UNCHANGED <<status, history>>
  /\ Ends(r)

\* Without or after a change, or because it is refused or the rendering fails.
Answers(r) ==
  /\ InService(r)
  /\ locked' = IF pc[r] = "writing" THEN locked \ {using[r]} ELSE locked
  /\ change' = [change EXCEPT ![r] = NoChange]
  /\ using' = [using EXCEPT ![r] = None]
  /\ Goes(r, "idle")
  /\ UNCHANGED <<tables, service, saw, rows, overlapped, stops, fails>>

\* The container stops and starts: the tables are what is left.
Stops ==
  /\ stops < MaxStops
  /\ stops' = stops + 1
  /\ service' = None
  /\ pc' = [r \in Requests |-> "idle"]
  /\ saw' = [r \in Requests |-> {}]
  /\ rows' = [r \in Requests |-> <<>>]
  /\ using' = [r \in Requests |-> None]
  /\ locked' = {}
  /\ change' = [r \in Requests |-> NoChange]
  /\ UNCHANGED <<tables, overlapped, fails>>
------------------------------------------------------------------------------
StartStep(r) ==
  \/ Opens(r) \/ ReadsColumns(r) \/ AddsColumn(r) \/ HasColumns(r) \/ StartRaises(r)
  \/ Counts(r) \/ ReadsRows(r) \/ Seeds(r) \/ Publishes(r)

ServeStep(r) ==
  \/ Finds(r) \/ Takes(r) \/ MarksGenerated(r) \/ WritesStatus(r) \/ BindsTag(r) \/ Answers(r)
  \/ \E c \in Codes : AddsLock(r, c) \/ ReadsStatus(r, c)

Next == Stops \/ \E r \in Requests : StartStep(r) \/ ServeStep(r)

Spec == Init /\ [][Next]_vars

\* Requests keep coming, and a thread that can go on does.
FairSpec == Spec /\ \A r \in Requests : WF_vars(StartStep(r)) /\ WF_vars(ServeStep(r))
------------------------------------------------------------------------------
StartupTypeOK ==
  /\ columns \subseteq NFC
  /\ status \in [Codes -> STATUSES \cup {Absent}]
  /\ tagged \in [Codes -> BOOLEAN]
  /\ service \in Requests \cup {None}
  /\ pc \in [Requests -> {"idle", "columns", "alter", "count", "rows", "seed", "publish",
                          "take", "serving", "rendering", "writing"}]
  /\ saw \in [Requests -> SUBSET NFC]
  /\ using \in [Requests -> Requests \cup {None}]
  /\ locked \subseteq Requests
  /\ change \in [Requests -> [code : Codes \cup {None}, from : STATUSES \cup {Absent}]]
  /\ \A r \in Requests : InService(r) => using[r] # None

Served == \E r \in Requests : InService(r)

(***************************************************************************)
(* Whoever is served finds both columns, and of every lock a history from  *)
(* the beginning, however many starts have been cut off anywhere, failed,  *)
(* or run at the same time.                                                *)
(***************************************************************************)
ReadyWhenServed ==
  Served =>
    /\ columns = NFC
    /\ \A c \in Codes : Present(c) => history[c] # <<>> /\ history[c][1].from = Absent

(***************************************************************************)
(* Unless two starts overlapped: the history of a lock begins once, as it  *)
(* is filled in once at most, however often the container starts           *)
(* ("EINMALIG", registry.py); behind a row that was written live there are *)
(* only such rows, each from where the one before ended, but for the       *)
(* renderer's, of which there is one at most and which claims to start     *)
(* from reserved whatever came before; and the last row tells the lock's   *)
(* status.  Two statuses the backfill gets wrong, until they change: a     *)
(* reserved lock is said to be generated, and a reserved or generated one  *)
(* with a tag to be registered.                                            *)
(***************************************************************************)
Live(row) == row.by # "backfill"

Mistold ==
  {<<"reserved", "generated">>, <<"reserved", "registered">>, <<"generated", "registered">>}

Tells(c) ==
  LET h == history[c]
      last == h[Len(h)]
  IN  /\ \A i \in DOMAIN h : h[i].from = Absent <=> i = 1
      /\ \A i \in 2..Len(h) : Live(h[i - 1]) =>
           Live(h[i]) /\ (h[i].from = h[i - 1].to \/ h[i].by = "render")
      /\ \A i, j \in DOMAIN h : h[i].by = "render" /\ h[j].by = "render" => i = j
      /\ last.to = status[c] \/ (~Live(last) /\ <<status[c], last.to>> \in Mistold)

HistoryTells == ~overlapped => \A c \in Codes : history[c] # <<>> => Tells(c)

(***************************************************************************)
(* The service comes up: starts that are cut off, fail, or take each other *)
(* the columns leave nothing behind that a later start trips over.         *)
(***************************************************************************)
ServiceComesUp == <>[](service # None)
==============================================================================
