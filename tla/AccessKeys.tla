----------------------------- MODULE AccessKeys ------------------------------
(***************************************************************************)
(* The restricted access keys and the log of their requests: the checks    *)
(* require_kg_access, require_writer_access and require_read_access, the   *)
(* admin calls that create, revoke and regenerate keys, the middleware     *)
(* _kg_request_log and the ring of app/kglog.py.  The checks and the       *)
(* middleware run on the event loop and await nothing, so they never       *)
(* overlap each other; the admin calls run in the thread pool, between any *)
(* two of their steps.  A key stands for its raw text, its hash, its       *)
(* prefix and the id of its row, which are drawn together.                 *)
(***************************************************************************)
EXTENDS Naturals, Sequences, FiniteSets

CONSTANTS
  Keys,        \* what new_key may draw; how many there are is a bound
  FullKey,     \* settings.api_key
  EnvKeys,     \* settings.kg_api_key, if it is set
  NoKey,
  Requests,    \* the requests ever received
  Admins,      \* the admin calls that run at the same time
  MaxLog,      \* kglog.MAX_ENTRIES
  MaxCrashes   \* bound: container restarts

ASSUME AccessAssumption ==
  /\ FullKey \notin Keys \cup EnvKeys \cup {NoKey}
  /\ NoKey \notin Keys \cup EnvKeys
  /\ Keys \cap EnvKeys = {}
  /\ MaxLog \in Nat \ {0}
  /\ MaxCrashes \in Nat

VARIABLES
  table,     \* where each key has its row: kg_api_keys, writer_api_keys
  active,    \* the keys whose revoked_at is NULL
  used,      \* the keys whose last_used_at is set
  shown,     \* the keys whose raw text was in an answer
  pc, presented, endpoint, reply,
  actor,     \* whom PATCH names in the history
  named,     \* whom the middleware found behind the key
  gone,      \* whether the key was revoked before the request came in
  blind,     \* the requests whose key the middleware failed to look up
  apc, akey, atable,   \* the admin calls
  log, seq,            \* kglog's ring and counter
  dropped,   \* the requests whose entries the ring has lost
  crashes

keyVars == <<table, active, used, shown>>
requestVars == <<pc, presented, endpoint, reply, actor, named, gone, blind>>
adminVars == <<apc, akey, atable>>
logVars == <<log, seq, dropped>>
vars == <<keyVars, requestVars, adminVars, logVars, crashes>>

Tables == {"kg", "writer"}
Endpoints == {"kg", "writer", "read", "full"}
Holders == Keys \cup EnvKeys \cup {FullKey, NoKey}

Init ==
  /\ table = [k \in Keys |-> "none"]
  /\ active = {} /\ used = {} /\ shown = {}
  /\ pc = [r \in Requests |-> "new"]
  /\ presented = [r \in Requests |-> NoKey]
  /\ endpoint = [r \in Requests |-> "full"]
  /\ reply = [r \in Requests |-> 0]
  /\ actor = [r \in Requests |-> NoKey]
  /\ named = [r \in Requests |-> NoKey]
  /\ gone = [r \in Requests |-> FALSE]
  /\ blind = {}
  /\ apc = [a \in Admins |-> "idle"]
  /\ akey = [a \in Admins |-> NoKey]
  /\ atable = [a \in Admins |-> "none"]
  /\ log = <<>> /\ seq = 0 /\ dropped = {}
  /\ crashes = 0
------------------------------------------------------------------------------
(***************************************************************************)
(* The checks.                                                             *)
(***************************************************************************)

\* Mutant: a revoked row counts as well.
IdentifiesAnyRow(k, t) == k \in Keys /\ table[k] = t

\* _identify_kg and _identify_writer, for the keys in the tables.
Identifies(k, t) == k \in active /\ table[k] = t

\* _identify_kg also knows the key from the environment.
Identified(k) == k \in EnvKeys \/ Identifies(k, "kg") \/ Identifies(k, "writer")

Goes(r, from, to) == pc[r] = from /\ pc' = [pc EXCEPT ![r] = to]

\* No other check or middleware is between two of its steps.
LoopFree == \A r \in Requests : pc[r] \notin {"again", "touch", "adds"}

\* Once it has come in, a request only moves on.
Moves(r, from, to) ==
  /\ Goes(r, from, to)
  /\ UNCHANGED <<table, active, shown, presented, endpoint, gone, blind, adminVars, crashes>>

Arrives(r) ==
  /\ Goes(r, "new", "auth")
  /\ \E k \in shown \cup EnvKeys \cup {FullKey}, e \in Endpoints :
       /\ presented' = [presented EXCEPT ![r] = k]
       /\ endpoint' = [endpoint EXCEPT ![r] = e]
       /\ gone' = [gone EXCEPT ![r] = k \in Keys \ active]
  /\ UNCHANGED <<keyVars, reply, actor, named, blind, adminVars, logVars, crashes>>

\* The keys of the environment are in no table: nothing is touched.
EnvOpens(r) == presented[r] \in EnvKeys /\ endpoint[r] \in {"kg", "read"}

AdmitsAtOnce(r) ==
  /\ LoopFree
  /\ presented[r] = FullKey \/ EnvOpens(r)
  /\ Moves(r, "auth", "handler")
  /\ UNCHANGED <<used, reply, actor, named, logVars>>

\* require_kg_access looks the key up, and once more before it touches it.
AdmitsKg(r) ==
  /\ LoopFree
  /\ endpoint[r] = "kg"
  /\ Identifies(presented[r], "kg")
  /\ Moves(r, "auth", "again")
  /\ UNCHANGED <<used, reply, actor, named, logVars>>

IdentifiesAgain(r) ==
  /\ Moves(r, "again", IF Identifies(presented[r], "kg") THEN "touch" ELSE "handler")
  /\ UNCHANGED <<used, reply, actor, named, logVars>>

AdmitsWriter(r) ==
  /\ LoopFree
  /\ endpoint[r] = "writer"
  /\ Identifies(presented[r], "writer")
  /\ Moves(r, "auth", "touch")
  /\ UNCHANGED <<used, reply, actor, named, logVars>>

\* Mutant: reading does not count as use.
AdmitsReaderUntouched(r) ==
  /\ LoopFree
  /\ endpoint[r] = "read"
  /\ \E t \in Tables : Identifies(presented[r], t)
  /\ Moves(r, "auth", "handler")
  /\ UNCHANGED <<used, reply, actor, named, logVars>>

AdmitsReader(r) ==
  /\ LoopFree
  /\ endpoint[r] = "read"
  /\ \E t \in Tables : Identifies(presented[r], t)
  /\ Moves(r, "auth", "touch")
  /\ UNCHANGED <<used, reply, actor, named, logVars>>

Refuses(r) ==
  /\ LoopFree
  /\ presented[r] # FullKey /\ ~EnvOpens(r)
  /\ CASE endpoint[r] = "read" -> \A t \in Tables : ~Identifies(presented[r], t)
       [] endpoint[r] = "full" -> TRUE
       [] OTHER -> ~Identifies(presented[r], endpoint[r])
  /\ Moves(r, "auth", "answered")
  /\ reply' = [reply EXCEPT ![r] = 401]
  /\ UNCHANGED <<used, actor, named, logVars>>

\* touch_kg_key and touch_writer_key: the row is there, revoked or not.
Touches(r) ==
  /\ Moves(r, "touch", "handler")
  /\ used' = used \cup {presented[r]}
  /\ UNCHANGED <<reply, actor, named, logVars>>

\* The handler.  PATCH, the one behind require_kg_access, looks the key up a
\* third time for the history; NoKey stands for the actor "kg".
Serves(r) ==
  /\ Moves(r, "handler", "answered")
  /\ reply' = [reply EXCEPT ![r] = 200]
  /\ actor' = [actor EXCEPT ![r] =
       IF endpoint[r] = "kg" /\ (presented[r] \in EnvKeys \cup {FullKey}
                                   \/ Identifies(presented[r], "kg"))
       THEN presented[r] ELSE NoKey]
  /\ UNCHANGED <<used, named, logVars>>

\* Something raises that nobody catches: get_service, a look-up or a write of
\* the check, or the handler.  call_next raises it again, outside the
\* middleware's try: the client gets its 500, the log no entry.
Raises(r) ==
  /\ \E at \in {"auth", "again", "touch", "handler"} : Moves(r, at, "done")
  /\ reply' = [reply EXCEPT ![r] = 500]
  /\ UNCHANGED <<used, actor, named, logVars>>
------------------------------------------------------------------------------
(***************************************************************************)
(* The middleware, after the handler's answer and before it is sent.       *)
(***************************************************************************)

\* The full key leaves no entry.
PassesBy(r) ==
  /\ presented[r] = FullKey
  /\ Moves(r, "answered", "done")
  /\ UNCHANGED <<used, reply, actor, named, logVars>>

\* Mutant: a key that is no longer known by now leaves no entry.
NamesKnown(r) ==
  /\ LoopFree
  /\ presented[r] # FullKey
  /\ Moves(r, "answered", IF Identified(presented[r]) THEN "adds" ELSE "done")
  /\ named' = [named EXCEPT ![r] = IF Identified(presented[r]) THEN presented[r] ELSE NoKey]
  /\ UNCHANGED <<used, reply, actor, logVars>>

Names(r) ==
  /\ LoopFree
  /\ presented[r] # FullKey
  /\ Moves(r, "answered", "adds")
  /\ named' = [named EXCEPT ![r] = IF Identified(presented[r]) THEN presented[r] ELSE NoKey]
  /\ UNCHANGED <<used, reply, actor, logVars>>

\* get_service or the look-up raises and is caught.  The entry then has no
\* name; a key of the environment may have none at all, as it need not look
\* like a restricted key.
NamesNobody(r) ==
  /\ LoopFree
  /\ presented[r] # FullKey
  /\ Goes(r, "answered", "adds") \/ (presented[r] \in EnvKeys /\ Goes(r, "answered", "done"))
  /\ blind' = blind \cup {r}
  /\ UNCHANGED <<keyVars, presented, endpoint, reply, actor, named, gone, adminVars, logVars, crashes>>

\* kglog.add: the deque lets go of its oldest entry when it is full.
Adds(r) ==
  /\ Moves(r, "adds", "done")
  /\ LET entry == [seq |-> seq + 1, of |-> r, key |-> named[r], status |-> reply[r]]
         full == Len(log) = MaxLog
     IN  /\ log' = Append(IF full THEN Tail(log) ELSE log, entry)
         /\ dropped' = IF full THEN dropped \cup {Head(log).of} ELSE dropped
  /\ seq' = seq + 1
  /\ UNCHANGED <<used, reply, actor, named>>

Logged == {log[i].of : i \in 1..Len(log)}

\* kg_log_clear: the counter goes on.
ClearsLog ==
  /\ log # <<>>
  /\ log' = <<>>
  /\ dropped' = dropped \cup Logged
  /\ UNCHANGED <<keyVars, requestVars, adminVars, seq, crashes>>
------------------------------------------------------------------------------
(***************************************************************************)
(* The admin calls, for either table.  A call for an id that has no row    *)
(* ends with 404 and changes nothing; it is no step here.                  *)
(***************************************************************************)
ACalls(a, from, to) ==
  /\ apc[a] = from
  /\ apc' = [apc EXCEPT ![a] = to]
  /\ UNCHANGED <<used, requestVars, logVars, crashes>>

\* The bound Keys: a call that creates a key starts while one is left for it.
KeysLeft ==
  Cardinality({a \in Admins : apc[a] \in {"create", "replace"}})
    < Cardinality({k \in Keys : table[k] = "none"})

AsksCreate(a) ==
  /\ KeysLeft
  /\ ACalls(a, "idle", "create")
  /\ \E t \in Tables : atable' = [atable EXCEPT ![a] = t]
  /\ UNCHANGED <<table, active, shown, akey>>

AsksRevoke(a) ==
  /\ ACalls(a, "idle", "revoke")
  /\ \E k \in Keys : table[k] # "none" /\ akey' = [akey EXCEPT ![a] = k]
  /\ UNCHANGED <<table, active, shown, atable>>

\* kg_key_regenerate reads the old row for its name, and revokes it.
AsksRegenerate(a) ==
  /\ KeysLeft
  /\ ACalls(a, "idle", "replace")
  /\ \E k \in Keys :
       /\ table[k] # "none"
       /\ akey' = [akey EXCEPT ![a] = k]
       /\ atable' = [atable EXCEPT ![a] = table[k]]
  /\ UNCHANGED <<table, active, shown>>

\* revoke_kg_key: a key that is revoked already stays as it is.
Revokes(a) ==
  /\ ACalls(a, "revoke", "idle") \/ ACalls(a, "replace", "create")
  /\ active' = active \ {akey[a]}
  /\ akey' = [akey EXCEPT ![a] = NoKey]
  /\ UNCHANGED <<table, shown, atable>>

\* create_kg_key, in a transaction of its own.
Creates(a) ==
  /\ ACalls(a, "create", "show")
  /\ \E k \in Keys :
       /\ table[k] = "none"
       /\ table' = [table EXCEPT ![k] = atable[a]]
       /\ active' = active \cup {k}
       /\ akey' = [akey EXCEPT ![a] = k]
  /\ UNCHANGED <<shown, atable>>

\* The answer shows the raw key, this once.
Shows(a) ==
  /\ ACalls(a, "show", "idle")
  /\ shown' = shown \cup {akey[a]}
  /\ akey' = [akey EXCEPT ![a] = NoKey]
  /\ atable' = [atable EXCEPT ![a] = "none"]
  /\ UNCHANGED <<table, active>>

\* A restart: the requests and calls under way are lost, and so is the log.
Crash ==
  /\ crashes < MaxCrashes
  /\ crashes' = crashes + 1
  /\ LET kept == {r \in Requests : pc[r] \in {"new", "done"}}
     IN  /\ pc' = [r \in Requests |-> IF r \in kept THEN pc[r] ELSE "lost"]
         /\ presented' = [r \in Requests |-> IF r \in kept THEN presented[r] ELSE NoKey]
         /\ endpoint' = [r \in Requests |-> IF r \in kept THEN endpoint[r] ELSE "full"]
         /\ reply' = [r \in Requests |-> IF r \in kept THEN reply[r] ELSE 0]
         /\ actor' = [r \in Requests |-> IF r \in kept THEN actor[r] ELSE NoKey]
         /\ named' = [r \in Requests |-> IF r \in kept THEN named[r] ELSE NoKey]
         /\ gone' = [r \in Requests |-> r \in kept /\ gone[r]]
         /\ blind' = blind \cap kept
  /\ apc' = [a \in Admins |-> "idle"]
  /\ akey' = [a \in Admins |-> NoKey]
  /\ atable' = [a \in Admins |-> "none"]
  /\ log' = <<>> /\ seq' = 0
  /\ dropped' = dropped \cup Logged
  /\ UNCHANGED keyVars
------------------------------------------------------------------------------
RequestNext(r) ==
  \/ Arrives(r) \/ AdmitsAtOnce(r) \/ AdmitsKg(r) \/ IdentifiesAgain(r)
  \/ AdmitsWriter(r) \/ AdmitsReader(r) \/ Refuses(r) \/ Touches(r) \/ Serves(r)
  \/ Raises(r) \/ PassesBy(r) \/ Names(r) \/ NamesNobody(r) \/ Adds(r)

AdminNext(a) ==
  \/ AsksCreate(a) \/ AsksRevoke(a) \/ AsksRegenerate(a)
  \/ Revokes(a) \/ Creates(a) \/ Shows(a)

Next ==
  \/ \E r \in Requests : RequestNext(r)
  \/ \E a \in Admins : AdminNext(a)
  \/ ClearsLog
  \/ Crash

Spec == Init /\ [][Next]_vars
------------------------------------------------------------------------------
(***************************************************************************)
(* Types, and which rows there are: a key is shown, used or active only    *)
(* once it has its row, only keys of the tables are touched, a request     *)
(* that reaches the middleware has its answer, and an admin call its key.  *)
(***************************************************************************)
Created == {k \in Keys : table[k] # "none"}

AccessTypeOK ==
  /\ table \in [Keys -> Tables \cup {"none"}]
  /\ active \subseteq Created /\ used \subseteq Created /\ shown \subseteq Created
  /\ pc \in [Requests -> {"new", "auth", "again", "touch", "handler", "answered",
                          "adds", "done", "lost"}]
  /\ presented \in [Requests -> Created \cup EnvKeys \cup {FullKey, NoKey}]
  /\ endpoint \in [Requests -> Endpoints]
  /\ reply \in [Requests -> {0, 200, 401, 500}]
  /\ actor \in [Requests -> Holders] /\ named \in [Requests -> Holders]
  /\ gone \in [Requests -> BOOLEAN] /\ blind \subseteq Requests
  /\ apc \in [Admins -> {"idle", "create", "revoke", "replace", "show"}]
  /\ akey \in [Admins -> Created \cup {NoKey}] /\ atable \in [Admins -> Tables \cup {"none"}]
  /\ log \in Seq([seq : Nat, of : Requests, key : Holders, status : {200, 401}])
  /\ seq \in Nat /\ dropped \subseteq Requests /\ crashes \in 0..MaxCrashes
  /\ \A r \in Requests :
       /\ pc[r] \in {"again", "touch"} => presented[r] \in Keys
       /\ pc[r] \in {"answered", "adds"} => reply[r] \in {200, 401}
       /\ pc[r] = "done" => reply[r] # 0
  /\ \A a \in Admins :
       /\ apc[a] \in {"create", "replace"} => atable[a] # "none"
       /\ apc[a] \in {"revoke", "replace", "show"} => akey[a] # NoKey

(***************************************************************************)
(* A request that comes in with a key that is revoked by then is never let *)
(* in, whatever other calls create, regenerate or touch meanwhile.         *)
(***************************************************************************)
RevokedStaysOut ==
  \A r \in Requests :
    gone[r] => pc[r] \notin {"again", "touch", "handler"} /\ reply[r] # 200

(***************************************************************************)
(* A key that is still active has left its traces for every request that   *)
(* was served under it: last_used_at is set, PATCH's history row and the   *)
(* log's entry name it.  Each of the three looks the key up for itself;    *)
(* only a revocation in between may lose them, and the name in the log a   *)
(* look-up of the middleware that raises.                                  *)
(***************************************************************************)
Served(r) == reply[r] = 200 /\ presented[r] \in Keys

UseLeavesTrace ==
  \A r \in Requests : Served(r) /\ presented[r] \in active =>
    /\ presented[r] \in used
    /\ endpoint[r] = "kg" => actor[r] = presented[r]
    /\ pc[r] \in {"adds", "done"} /\ r \notin blind => named[r] = presented[r]

(***************************************************************************)
(* The log misses only what raised: whoever has an answer to a request     *)
(* with a restricted key, known by then or not, is in the log, or was in   *)
(* it until it was cleared, overran or was lost in a restart, but for the  *)
(* 500 of an exception that nobody caught, and for a key of the            *)
(* environment whose look-up raised in the middleware.  The numbers of the *)
(* entries follow each other up to the counter.                            *)
(***************************************************************************)
Escapes(r) == reply[r] = 500 \/ (presented[r] \in EnvKeys /\ r \in blind)

LogIsWhole ==
  /\ \A r \in Requests : pc[r] = "done" /\ presented[r] # FullKey /\ ~Escapes(r)
                           => r \in Logged \cup dropped
  /\ Len(log) <= MaxLog
  /\ \A i \in 1..Len(log) : log[i].seq = seq - Len(log) + i
==============================================================================
