----------------------------- MODULE AccessProofs ----------------------------
(***************************************************************************)
(* What the access checks keep for any number of keys, requests and admin  *)
(* calls at the same time.                                                 *)
(***************************************************************************)
EXTENDS AccessKeys, TLAPS

\* A revoked key has its row and is never active again, so a request that
\* came in with one is not past the check.
GoneInv ==
  \A r \in Requests : gone[r] =>
    /\ presented[r] \in Created \ active
    /\ pc[r] \notin {"new", "again", "touch", "handler"}
    /\ reply[r] # 200

\* What the checks have established on the way to the handler.
OnTheWay ==
  \A r \in Requests :
    /\ pc[r] = "again" => endpoint[r] = "kg"
    /\ pc[r] \in {"again", "touch", "handler"} /\ presented[r] \in Keys /\ endpoint[r] = "kg"
         => table[presented[r]] = "kg"
    /\ pc[r] = "handler" /\ presented[r] \in active => presented[r] \in used
    /\ reply[r] = 200 => pc[r] \in {"answered", "adds", "done", "lost"}

AccessInv == AccessTypeOK /\ GoneInv /\ OnTheWay /\ UseLeavesTrace

\* A request's steps leave the tables alone, so what is created stays so.
LEMMA RequestTypes ==
  ASSUME AccessTypeOK, NEW r \in Requests, RequestNext(r)
  PROVE  AccessTypeOK'
<1> USE AccessAssumption
<1>1. CASE Arrives(r)
  BY <1>1 DEF Arrives, Goes, AccessTypeOK, Created, Endpoints, Holders, Tables, keyVars, adminVars, logVars
<1>2. CASE AdmitsAtOnce(r)
  BY <1>2 DEF AdmitsAtOnce, Moves, Goes, AccessTypeOK, Created, adminVars, logVars
<1>3. CASE AdmitsKg(r)
  BY <1>3 DEF AdmitsKg, Moves, Goes, Identifies, AccessTypeOK, Created, adminVars, logVars
<1>4. CASE IdentifiesAgain(r)
  BY <1>4 DEF IdentifiesAgain, Moves, Goes, Identifies, AccessTypeOK, Created, adminVars, logVars
<1>5. CASE AdmitsWriter(r)
  BY <1>5 DEF AdmitsWriter, Moves, Goes, Identifies, AccessTypeOK, Created, adminVars, logVars
<1>6. CASE AdmitsReader(r)
  BY <1>6 DEF AdmitsReader, Moves, Goes, Identifies, AccessTypeOK, Created, adminVars, logVars
<1>7. CASE Refuses(r)
  BY <1>7 DEF Refuses, Moves, Goes, AccessTypeOK, Created, adminVars, logVars
<1>8. CASE Touches(r)
  BY <1>8 DEF Touches, Moves, Goes, AccessTypeOK, Created, adminVars, logVars
<1>9. CASE Serves(r)
  BY <1>9 DEF Serves, Moves, Goes, AccessTypeOK, Created, Holders, adminVars, logVars
<1>10. CASE PassesBy(r)
  BY <1>10 DEF PassesBy, Moves, Goes, AccessTypeOK, Created, adminVars, logVars
<1>11. CASE Names(r)
  BY <1>11 DEF Names, Moves, Goes, AccessTypeOK, Created, Holders, adminVars, logVars
<1>12. CASE Adds(r)
  <2> USE <1>12 DEF Adds, Moves, Goes
  <2> DEFINE entry == [seq |-> seq + 1, of |-> r, key |-> named[r], status |-> reply[r]]
             rest == IF Len(log) = MaxLog THEN Tail(log) ELSE log
             Entry == [seq : Nat, of : Requests, key : Holders, status : {200, 401}]
  <2>1. log \in Seq(Entry) /\ seq \in Nat /\ named[r] \in Holders
    BY DEF AccessTypeOK
  <2>2. ASSUME Len(log) = MaxLog
        PROVE  Head(log) \in Entry /\ Tail(log) \in Seq(Entry)
    <3>1. log # <<>>
      BY <2>1, <2>2 DEF AccessAssumption
    <3> HIDE DEF Entry
    <3> QED BY <2>1, <3>1
  <2>3. reply[r] \in {200, 401}
    BY DEF AccessTypeOK
  <2>4. rest \in Seq(Entry) /\ entry \in Entry
    BY <2>1, <2>2, <2>3
  <2>5. log' \in Seq(Entry)
    BY <2>4
  <2>6. dropped' \subseteq Requests
    BY <2>2 DEF AccessTypeOK
  <2> QED
    BY <2>1, <2>5, <2>6 DEF AccessTypeOK, Created, adminVars
<1>13. CASE Raises(r)
  BY <1>13 DEF Raises, Moves, Goes, AccessTypeOK, Created, adminVars, logVars
<1>14. CASE NamesNobody(r)
  BY <1>14 DEF NamesNobody, Goes, AccessTypeOK, Created, keyVars, adminVars, logVars
<1> QED BY <1>1, <1>2, <1>3, <1>4, <1>5, <1>6, <1>7, <1>8, <1>9, <1>10, <1>11, <1>12, <1>13, <1>14 DEF RequestNext

LEMMA AdminTypes ==
  ASSUME AccessTypeOK, NEW a \in Admins, AdminNext(a)
  PROVE  AccessTypeOK'
<1> USE DEF ACalls, AccessTypeOK, Created, Tables, requestVars, logVars
<1>1. CASE AsksCreate(a)
  BY <1>1 DEF AsksCreate
<1>2. CASE AsksRevoke(a)
  <2> PICK k \in Keys : table[k] # "none" /\ akey' = [akey EXCEPT ![a] = k]
    BY <1>2 DEF AsksRevoke
  <2>1. k # NoKey
    BY AccessAssumption
  <2>2. akey' \in [Admins -> Created \cup {NoKey}]
    OBVIOUS
  <2>3. \A b \in Admins : apc'[b] \in {"revoke", "replace", "show"} => akey'[b] # NoKey
    BY <1>2, <2>1 DEF AsksRevoke
  <2> QED BY <1>2, <2>2, <2>3 DEF AsksRevoke
<1>3. CASE AsksRegenerate(a)
  <2> PICK k \in Keys : /\ table[k] # "none"
                       /\ akey' = [akey EXCEPT ![a] = k]
                       /\ atable' = [atable EXCEPT ![a] = table[k]]
    BY <1>3 DEF AsksRegenerate
  <2>1. k # NoKey
    BY AccessAssumption
  <2>2. akey' \in [Admins -> Created \cup {NoKey}] /\ atable' \in [Admins -> Tables \cup {"none"}]
    OBVIOUS
  <2>3. \A b \in Admins : /\ apc'[b] \in {"create", "replace"} => atable'[b] # "none"
                         /\ apc'[b] \in {"revoke", "replace", "show"} => akey'[b] # NoKey
    BY <1>3, <2>1 DEF AsksRegenerate
  <2> QED BY <1>3, <2>2, <2>3 DEF AsksRegenerate
<1>4. CASE Revokes(a)
  <2>1. apc' \in [Admins -> {"idle", "create", "revoke", "replace", "show"}]
    BY <1>4 DEF Revokes
  <2>2. akey' \in [Admins -> Created \cup {NoKey}] /\ active' \subseteq Created
    BY <1>4 DEF Revokes
  <2> QED BY <1>4, <2>1, <2>2 DEF Revokes
<1>5. CASE Creates(a)
  <2> PICK k \in Keys : /\ table[k] = "none"
                       /\ table' = [table EXCEPT ![k] = atable[a]]
                       /\ active' = active \cup {k}
                       /\ akey' = [akey EXCEPT ![a] = k]
    BY <1>5 DEF Creates
  <2>1. atable[a] \in Tables
    BY <1>5 DEF Creates
  <2>2. Created' = Created \cup {k} /\ table' \in [Keys -> Tables \cup {"none"}]
    BY <2>1
  <2>3. apc' \in [Admins -> {"idle", "create", "revoke", "replace", "show"}]
    BY <1>5 DEF Creates
  <2>4. akey' \in [Admins -> Created' \cup {NoKey}] /\ active' \subseteq Created'
    BY <2>2
  <2>5. presented' \in [Requests -> Created' \cup EnvKeys \cup {FullKey, NoKey}]
    BY <1>5, <2>2 DEF Creates
  <2>6. \A b \in Admins : /\ apc'[b] \in {"create", "replace"} => atable'[b] # "none"
                         /\ apc'[b] \in {"revoke", "replace", "show"} => akey'[b] # NoKey
    BY <1>5, AccessAssumption DEF Creates
  <2> QED BY <1>5, <2>2, <2>3, <2>4, <2>5, <2>6 DEF Creates
<1>6. CASE Shows(a)
  <2>1. akey[a] \in Created
    BY <1>6 DEF Shows
  <2>2. apc' \in [Admins -> {"idle", "create", "revoke", "replace", "show"}]
    BY <1>6 DEF Shows
  <2> QED BY <1>6, <2>1, <2>2 DEF Shows
<1> QED BY <1>1, <1>2, <1>3, <1>4, <1>5, <1>6 DEF AdminNext

LEMMA OtherTypes ==
  ASSUME AccessTypeOK, ClearsLog \/ Crash \/ UNCHANGED vars
  PROVE  AccessTypeOK'
<1> USE AccessAssumption DEF AccessTypeOK, Created
<1>1. Logged \subseteq Requests
  <2> DEFINE Entry == [seq : Nat, of : Requests, key : Holders, status : {200, 401}]
  <2>1. log \in Seq(Entry)
    OBVIOUS
  <2>2. \A e \in Entry : e.of \in Requests
    OBVIOUS
  <2> HIDE DEF Entry
  <2>3. \A i \in 1..Len(log) : log[i] \in Entry
    BY <2>1
  <2> QED BY <2>2, <2>3 DEF Logged
<1>2. CASE ClearsLog
  BY <1>1, <1>2 DEF ClearsLog, keyVars, requestVars, adminVars
<1>3. CASE Crash
  <2>1. pc' \in [Requests -> {"new", "done", "lost"}]
    BY <1>3 DEF Crash
  <2>2. \A r \in Requests : pc'[r] = "done" => reply'[r] # 0
    BY <1>3 DEF Crash
  <2>4. /\ presented' \in [Requests -> Created \cup EnvKeys \cup {FullKey, NoKey}]
        /\ endpoint' \in [Requests -> Endpoints]
        /\ reply' \in [Requests -> {0, 200, 401, 500}]
    BY <1>3 DEF Crash, Endpoints
  <2>5. actor' \in [Requests -> Holders] /\ named' \in [Requests -> Holders]
    BY <1>3 DEF Crash, Holders
  <2>6. gone' \in [Requests -> BOOLEAN] /\ blind' \subseteq Requests
    BY <1>3 DEF Crash
  <2>7. akey' \in [Admins -> Created \cup {NoKey}] /\ atable' \in [Admins -> Tables \cup {"none"}]
    BY <1>3 DEF Crash
  <2>8. log' \in Seq([seq : Nat, of : Requests, key : Holders, status : {200, 401}])
    BY <1>3 DEF Crash
  <2> QED BY <1>1, <1>3, <2>1, <2>2, <2>4, <2>5, <2>6, <2>7, <2>8 DEF Crash, keyVars
<1>4. CASE UNCHANGED vars
  BY <1>4 DEF vars, keyVars, requestVars, adminVars, logVars
<1> QED BY <1>2, <1>3, <1>4

LEMMA NextTypes == AccessTypeOK /\ [Next]_vars => AccessTypeOK'
BY RequestTypes, AdminTypes, OtherTypes DEF Next

(***************************************************************************)
(* What each kind of step does to what the invariants speak of: rows are   *)
(* kept, and no key that has one becomes active again.                     *)
(***************************************************************************)
LEMMA RowsAreKept ==
  ASSUME AccessTypeOK, [Next]_vars
  PROVE  /\ \A k \in Keys : table[k] # "none" => table'[k] = table[k]
         /\ Created \subseteq Created'
         /\ \A k \in Created : k \in active' => k \in active
         /\ used \subseteq used'
<1>1. ASSUME NEW r \in Requests, RequestNext(r)
      PROVE  table' = table /\ active' = active /\ used \subseteq used'
  BY <1>1 DEF RequestNext, Arrives, AdmitsAtOnce, AdmitsKg, IdentifiesAgain, AdmitsWriter, AdmitsReader,
     Refuses, Touches, Serves, Raises, PassesBy, Names, NamesNobody, Adds, Moves, keyVars
<1>2. ASSUME NEW a \in Admins, AdminNext(a)
      PROVE  /\ \A k \in Keys : table[k] # "none" => table'[k] = table[k]
             /\ \A k \in Created : k \in active' => k \in active
             /\ used' = used
  BY <1>2 DEF AdminNext, AsksCreate, AsksRevoke, AsksRegenerate, Revokes, Creates, Shows, ACalls,
     AccessTypeOK, Created
<1>3. ASSUME ClearsLog \/ Crash \/ UNCHANGED vars
      PROVE  table' = table /\ active' = active /\ used' = used
  BY <1>3 DEF ClearsLog, Crash, vars, keyVars
<1>4. \A k \in Keys : table[k] # "none" => table'[k] = table[k]
  BY <1>1, <1>2, <1>3 DEF Next
<1>5. Created \subseteq Created'
  BY <1>4 DEF Created
<1> QED BY <1>1, <1>2, <1>3, <1>4, <1>5 DEF Next

LEMMA GoneStays == AccessInv /\ [Next]_vars => GoneInv'
<1> SUFFICES ASSUME AccessInv, [Next]_vars PROVE GoneInv'
  OBVIOUS
<1> USE DEF AccessInv, GoneInv
<1>1. \A k \in Created \ active : k \in Created' \ active'
  BY RowsAreKept
<1>2. ASSUME NEW r \in Requests, RequestNext(r)
      PROVE  GoneInv'
  <2> SUFFICES ASSUME NEW q \in Requests, gone'[q]
               PROVE  /\ presented'[q] \in Created' \ active'
                      /\ pc'[q] \notin {"new", "again", "touch", "handler"}
                      /\ reply'[q] # 200
    BY DEF GoneInv
  <2> USE AccessAssumption DEF AccessTypeOK
  <2>1. CASE Arrives(r)
    <3>1. presented'[r] \in Keys \ active => presented'[r] \in Created \ active
      BY <2>1 DEF Arrives, Created
    <3>2. reply[r] # 200
      <4>1. pc[r] = "new"
        BY <2>1 DEF Arrives, Goes
      <4>2. reply[r] = 200 => pc[r] \in {"answered", "adds", "done", "lost"}
        BY DEF OnTheWay
      <4> QED BY <4>1, <4>2
    <3> QED BY <1>1, <2>1, <3>1, <3>2 DEF Arrives, Goes, keyVars, Created
  <2>2. CASE ~Arrives(r)
    <3>1. gone' = gone /\ presented' = presented
      BY <1>2, <2>2 DEF RequestNext, AdmitsAtOnce, AdmitsKg, IdentifiesAgain, AdmitsWriter, AdmitsReader,
         Refuses, Touches, Serves, Raises, PassesBy, Names, NamesNobody, Adds, Moves
    <3>2. presented[q] \in Created \ active /\ presented[q] \notin EnvKeys \cup {FullKey}
      BY <3>1 DEF Created
    <3> QED
      BY <1>1, <1>2, <2>2, <3>1, <3>2 DEF RequestNext, AdmitsAtOnce, EnvOpens, AdmitsKg, IdentifiesAgain,
         AdmitsWriter, AdmitsReader, Refuses, Touches, Serves, Raises, PassesBy, Names, NamesNobody, Adds, Moves, Goes, Identifies
  <2> QED BY <2>1, <2>2
<1>3. ASSUME NEW a \in Admins, AdminNext(a)
      PROVE  UNCHANGED requestVars
  BY <1>3 DEF AdminNext, AsksCreate, AsksRevoke, AsksRegenerate, Revokes, Creates, Shows, ACalls
<1>4. CASE UNCHANGED requestVars
  BY <1>1, <1>4 DEF requestVars
<1>5. CASE Crash
  <2>1. ASSUME NEW q \in Requests, gone'[q]
        PROVE  /\ gone[q] /\ presented'[q] = presented[q] /\ reply'[q] = reply[q]
               /\ pc'[q] = pc[q]
    BY <1>5, <2>1 DEF Crash
  <2> QED BY <1>1, <1>5, <2>1 DEF Crash, keyVars
<1> QED
  BY <1>2, <1>3, <1>4, <1>5 DEF Next, ClearsLog, vars

LEMMA WayStays == AccessInv /\ [Next]_vars => OnTheWay' /\ UseLeavesTrace'
<1> SUFFICES ASSUME AccessInv, [Next]_vars PROVE OnTheWay' /\ UseLeavesTrace'
  OBVIOUS
<1> USE DEF AccessInv
<1>1. /\ \A k \in Keys : table[k] # "none" => table'[k] = table[k]
      /\ \A k \in Created : k \in active' => k \in active
      /\ used \subseteq used'
  BY RowsAreKept
<1>2. \A q \in Requests : presented[q] \in active' => presented[q] \in active
  <2>1. active' \subseteq Keys
    BY NextTypes DEF AccessTypeOK, Created
  <2> QED BY <1>1, <2>1, AccessAssumption DEF AccessTypeOK
<1>3. ASSUME NEW r \in Requests, RequestNext(r)
      PROVE  OnTheWay' /\ UseLeavesTrace'
  <2> USE AccessAssumption DEF AccessTypeOK, OnTheWay, UseLeavesTrace, Served, Goes
  <2>1. CASE Arrives(r)
    <3>1. /\ pc[r] = "new" /\ pc' = [pc EXCEPT ![r] = "auth"]
          /\ UNCHANGED <<table, active, used, reply, actor, named, blind>>
      BY <2>1 DEF Arrives, keyVars
    <3>2. \A q \in Requests \ {r} : presented'[q] = presented[q] /\ endpoint'[q] = endpoint[q]
      BY <2>1 DEF Arrives
    <3>3. reply[r] # 200
      BY <3>1
    <3>4. pc'[r] = "auth" /\ \A q \in Requests \ {r} : pc'[q] = pc[q]
      BY <3>1
    <3>5. OnTheWay'
      BY <3>1, <3>2, <3>3, <3>4
    <3>6. UseLeavesTrace'
      <4>1. ASSUME NEW q \in Requests, reply'[q] = 200 PROVE q # r
        BY <3>1, <3>3, <4>1
      <4> QED BY <3>1, <3>2, <3>4, <4>1
    <3> QED BY <3>5, <3>6
  <2>2. CASE AdmitsAtOnce(r)
    BY <2>2 DEF AdmitsAtOnce, EnvOpens, Moves, Created
  <2>3. CASE AdmitsKg(r)
    BY <2>3 DEF AdmitsKg, Moves, Identifies
  <2>4. CASE IdentifiesAgain(r)
    BY <2>4 DEF IdentifiesAgain, Moves, Identifies
  <2>5. CASE AdmitsWriter(r)
    BY <2>5 DEF AdmitsWriter, Moves, Identifies
  <2>6. CASE AdmitsReader(r)
    BY <2>6 DEF AdmitsReader, Moves, Identifies
  <2>7. CASE Refuses(r)
    BY <2>7 DEF Refuses, Moves
  <2>8. CASE Touches(r)
    BY <2>8 DEF Touches, Moves
  <2>9. CASE Serves(r)
    BY <2>9 DEF Serves, Moves, Identifies, Created
  <2>10. CASE PassesBy(r)
    BY <2>10 DEF PassesBy, Moves, Created
  <2>11. CASE Names(r)
    BY <2>11 DEF Names, Moves, Identified, Identifies, Created, Tables
  <2>12. CASE Adds(r)
    BY <2>12 DEF Adds, Moves
  <2>13. CASE Raises(r)
    BY <2>13 DEF Raises, Moves
  <2>14. CASE NamesNobody(r)
    BY <2>14 DEF NamesNobody, keyVars
  <2> QED BY <1>3, <2>1, <2>2, <2>3, <2>4, <2>5, <2>6, <2>7, <2>8, <2>9, <2>10, <2>11, <2>12, <2>13, <2>14 DEF RequestNext
<1>4. ASSUME NEW a \in Admins, AdminNext(a)
      PROVE  UNCHANGED requestVars
  BY <1>4 DEF AdminNext, AsksCreate, AsksRevoke, AsksRegenerate, Revokes, Creates, Shows, ACalls
<1>5. CASE UNCHANGED requestVars
  <2>1. \A q \in Requests : presented[q] \in Keys => table[presented[q]] # "none"
    BY AccessAssumption DEF AccessTypeOK, Created
  <2> QED BY <1>1, <1>2, <1>5, <2>1 DEF requestVars, OnTheWay, UseLeavesTrace, Served
<1>6. CASE Crash
  <2>1. \A q \in Requests : pc'[q] \in {pc[q], "lost"} /\ (pc[q] # "lost" => pc'[q] = "lost" \/ pc[q] \in {"new", "done"})
    BY <1>6 DEF Crash, AccessTypeOK
  <2> QED BY <1>6, <2>1 DEF Crash, keyVars, OnTheWay, UseLeavesTrace, Served
<1> QED
  BY <1>3, <1>4, <1>5, <1>6 DEF Next, ClearsLog, vars

LEMMA InitAccessInv == Init => AccessInv
BY AccessAssumption DEF Init, AccessInv, AccessTypeOK, GoneInv, OnTheWay, UseLeavesTrace, Served, Created,
   Tables, Endpoints, Holders

LEMMA AccessInvariant == Spec => []AccessInv
<1>1. Init => AccessInv
  BY InitAccessInv
<1>2. AccessInv /\ [Next]_vars => AccessInv'
  BY NextTypes, GoneStays, WayStays DEF AccessInv
<1> QED BY <1>1, <1>2, PTL DEF Spec

(***************************************************************************)
(* Tables, requests, admin calls and log keep their types, and only keys   *)
(* with a row are shown, used or active.                                   *)
(***************************************************************************)
THEOREM AccessTypes == Spec => []AccessTypeOK
BY AccessInvariant, PTL DEF AccessInv

(***************************************************************************)
(* A key that is revoked when a request comes in with it opens nothing to  *)
(* that request, whatever the admin calls beside it do.                    *)
(***************************************************************************)
THEOREM RevokedKeysStayOut == Spec => []RevokedStaysOut
<1>1. AccessInv => RevokedStaysOut
  BY DEF AccessInv, GoneInv, RevokedStaysOut
<1> QED BY <1>1, AccessInvariant, PTL

(***************************************************************************)
(* A request served under a key that is still active has set last_used_at  *)
(* and is named in the history and the log.                                *)
(***************************************************************************)
THEOREM UsesLeaveTraces == Spec => []UseLeavesTrace
BY AccessInvariant, PTL DEF AccessInv

LEMMA LogStays == AccessTypeOK /\ LogIsWhole /\ [Next]_vars => LogIsWhole'
<1> SUFFICES ASSUME AccessTypeOK, LogIsWhole, [Next]_vars PROVE LogIsWhole'
  OBVIOUS
<1> DEFINE Entry == [seq : Nat, of : Requests, key : Holders, status : {200, 401}]
<1>0. log \in Seq(Entry) /\ seq \in Nat /\ pc \in [Requests -> {"new", "auth", "again", "touch",
         "handler", "answered", "adds", "done", "lost"}]
  BY DEF AccessTypeOK
<1> HIDE DEF Entry
<1>1. ASSUME NEW r \in Requests, Adds(r)
      PROVE  LogIsWhole'
  <2> DEFINE entry == [seq |-> seq + 1, of |-> r, key |-> named[r], status |-> reply[r]]
             full == Len(log) = MaxLog
             rest == IF full THEN Tail(log) ELSE log
  <2>1. /\ log' = Append(rest, entry) /\ seq' = seq + 1
        /\ dropped' = IF full THEN dropped \cup {Head(log).of} ELSE dropped
        /\ presented' = presented /\ reply' = reply /\ blind' = blind
        /\ \A q \in Requests \ {r} : pc'[q] = pc[q]
    BY <1>0, <1>1 DEF Adds, Moves, Goes
  <2>2. Len(log) <= MaxLog /\ MaxLog \in Nat \ {0}
    BY AccessAssumption DEF LogIsWhole
  <2>3. CASE full
    <3>1. /\ Len(log') = Len(log)
          /\ \A i \in 1..(Len(log) - 1) : log'[i] = log[i + 1]
          /\ log'[Len(log)] = entry
      BY <1>0, <2>1, <2>2, <2>3
    <3>2. ASSUME NEW i \in 1..Len(log')
          PROVE  log'[i].seq = seq' - Len(log') + i
      <4>0. seq' = seq + 1 /\ Len(log') = Len(log) /\ Len(log) \in Nat /\ i \in 1..Len(log)
        BY <1>0, <2>1, <3>1
      <4>1. CASE i = Len(log)
        BY <1>0, <3>1, <4>0, <4>1
      <4>2. CASE i # Len(log)
        <5>1. i \in 1..(Len(log) - 1) /\ i + 1 \in 1..Len(log)
          BY <4>0, <4>2
        <5>2. log[i + 1].seq = seq - Len(log) + (i + 1)
          BY <5>1 DEF LogIsWhole
        <5> QED BY <1>0, <3>1, <4>0, <5>1, <5>2
      <4> QED BY <4>1, <4>2
    <3>3. \A q \in Logged \cup dropped \cup {r} : q \in Logged' \cup dropped'
      <4>1. r \in Logged'
        BY <1>0, <2>2, <2>3, <3>1 DEF Logged
      <4>2. \A i \in 1..Len(log) : log[i].of \in Logged' \cup dropped'
        <5> TAKE i \in 1..Len(log)
        <5>1. CASE i = 1
          BY <1>0, <2>1, <2>3, <5>1
        <5>2. CASE i # 1
          <6>1. i - 1 \in 1..(Len(log) - 1) /\ i - 1 \in 1..Len(log') /\ (i - 1) + 1 = i
            BY <1>0, <3>1, <5>2
          <6>2. log'[i - 1] = log[i]
            BY <3>1, <6>1
          <6> QED BY <6>1, <6>2 DEF Logged
        <5> QED BY <5>1, <5>2
      <4>3. dropped \subseteq dropped'
        BY <2>1
      <4> QED BY <4>1, <4>2, <4>3 DEF Logged
    <3>4. \A q \in Requests : pc'[q] = "done" /\ presented'[q] # FullKey /\ ~Escapes(q)'
                               => q \in Logged' \cup dropped'
      BY <2>1, <3>3 DEF LogIsWhole, Escapes
    <3>5. Len(log') <= MaxLog
      BY <2>2, <3>1
    <3> QED BY <3>2, <3>4, <3>5 DEF LogIsWhole
  <2>4. CASE ~full
    <3>1. /\ Len(log') = Len(log) + 1
          /\ \A i \in 1..Len(log) : log'[i] = log[i]
          /\ log'[Len(log) + 1] = entry
      BY <1>0, <2>1, <2>4
    <3>2. ASSUME NEW i \in 1..Len(log')
          PROVE  log'[i].seq = seq' - Len(log') + i
      <4>0. /\ seq' = seq + 1 /\ Len(log') = Len(log) + 1 /\ Len(log) \in Nat
            /\ i \in 1..(Len(log) + 1)
        BY <1>0, <2>1, <3>1
      <4>1. CASE i = Len(log) + 1
        BY <1>0, <3>1, <4>0, <4>1
      <4>2. CASE i # Len(log) + 1
        <5>1. i \in 1..Len(log) /\ log'[i] = log[i]
          BY <3>1, <4>0, <4>2
        <5>2. log[i].seq = seq - Len(log) + i
          BY <5>1 DEF LogIsWhole
        <5> QED BY <1>0, <4>0, <5>1, <5>2
      <4> QED BY <4>1, <4>2
    <3>3. \A q \in Logged \cup dropped \cup {r} : q \in Logged' \cup dropped'
      <4>1. r \in Logged'
        BY <1>0, <3>1 DEF Logged
      <4>2. Logged \subseteq Logged' /\ dropped \subseteq dropped'
        BY <1>0, <2>1, <2>4, <3>1 DEF Logged
      <4> QED BY <4>1, <4>2
    <3> QED BY <1>0, <2>1, <2>2, <2>4, <3>1, <3>2, <3>3 DEF LogIsWhole, Escapes
  <2> QED BY <2>3, <2>4
<1>2. ASSUME NEW r \in Requests, RequestNext(r), ~Adds(r)
      PROVE  LogIsWhole'
  <2>1. UNCHANGED logVars /\ \A q \in Requests : pc'[q] = "done" /\ presented'[q] # FullKey /\ ~Escapes(q)' =>
                                pc[q] = "done" /\ presented[q] # FullKey /\ ~Escapes(q)
    <3> USE <1>0 DEF Goes, AccessTypeOK, Escapes
    <3>1. CASE Arrives(r) \/ PassesBy(r)
      BY <3>1 DEF Arrives, PassesBy, Moves
    <3>2. CASE Raises(r)
      BY <3>2 DEF Raises, Moves
    <3>3. CASE Names(r)
      BY <3>3 DEF Names, Moves
    <3>4. CASE NamesNobody(r)
      BY <3>4 DEF NamesNobody
    <3>5. CASE Refuses(r) \/ Serves(r)
      BY <3>5 DEF Refuses, Serves, Moves
    <3>6. CASE AdmitsAtOnce(r) \/ AdmitsKg(r) \/ IdentifiesAgain(r) \/ AdmitsWriter(r) \/ AdmitsReader(r) \/ Touches(r)
      BY <3>6 DEF AdmitsAtOnce, AdmitsKg, IdentifiesAgain, AdmitsWriter, AdmitsReader, Touches, Moves
    <3> QED BY <1>2, <3>1, <3>2, <3>3, <3>4, <3>5, <3>6 DEF RequestNext
  <2> QED BY <2>1 DEF LogIsWhole, Logged, logVars
<1>3. ASSUME NEW a \in Admins, AdminNext(a)
      PROVE  UNCHANGED <<pc, presented, reply, blind, logVars>>
  BY <1>3 DEF AdminNext, AsksCreate, AsksRevoke, AsksRegenerate, Revokes, Creates, Shows, ACalls, requestVars
<1>4. CASE UNCHANGED <<pc, presented, reply, blind, logVars>>
  BY <1>4 DEF LogIsWhole, Escapes, Logged, logVars
<1>5. CASE ClearsLog \/ Crash
  <2>1. /\ log' = <<>> /\ dropped' = dropped \cup Logged
        /\ \A q \in Requests : pc'[q] = "done" =>
             pc[q] = "done" /\ presented'[q] = presented[q] /\ (Escapes(q) => Escapes(q)')
    BY <1>5 DEF ClearsLog, Crash, Escapes, requestVars
  <2>2. Len(log') = 0 /\ 1..Len(log') = {} /\ 0 <= MaxLog
    BY <2>1, AccessAssumption
  <2> QED BY <2>1, <2>2 DEF LogIsWhole
<1> QED
  BY <1>1, <1>2, <1>3, <1>4, <1>5 DEF Next, vars, requestVars

(***************************************************************************)
(* Every answered request with a restricted key is in the log or has been  *)
(* in it, unless its answer is the 500 of an exception that nobody caught, *)
(* or the look-up of the environment's key raised; and the entries are     *)
(* numbered without a gap, for any ring size.                              *)
(***************************************************************************)
THEOREM LogMissesNothing == Spec => []LogIsWhole
<1>1. Init => LogIsWhole
  BY AccessAssumption DEF Init, LogIsWhole
<1>2. AccessTypeOK /\ LogIsWhole /\ [Next]_vars => LogIsWhole'
  BY LogStays
<1> QED BY <1>1, <1>2, AccessTypes, PTL DEF Spec
==============================================================================
