---------------------------- MODULE StartupProofs ----------------------------
(***************************************************************************)
(* Proofs about the start: for any number of locks and of requests at      *)
(* once, whoever is served finds the columns and every lock's history; and *)
(* unless two starts overlapped, the histories tell the locks' statuses.   *)
(***************************************************************************)
EXTENDS Startup, SequenceTheorems, TLAPS

\* A lock's history that begins at the beginning.
Begun(c) == history[c] # <<>> /\ history[c][1].from = Absent

AllBegun == \A c \in Codes : Present(c) => Begun(c)

Rows == [from : STATUSES \cup {Absent}, to : STATUSES, by : Actors]

Types ==
  /\ StartupTypeOK
  /\ history \in [Codes -> Seq(Rows)]
  /\ DOMAIN rows = Requests
  /\ \A r \in Requests : pc[r] = "seed" =>
       /\ DOMAIN rows[r] \subseteq Codes
       /\ \A c \in DOMAIN rows[r] :
            rows[r][c] \in [status : STATUSES, tagged : BOOLEAN]
  /\ \A r \in Requests : pc[r] \in {"rendering", "writing"} =>
       change[r].code \in Codes /\ change[r].from \in STATUSES /\ Present(change[r].code)
  /\ \A r \in Requests : pc[r] = "rendering" => change[r].from = "reserved"

\* Columns are only added, so what a start has seen is there.
ColumnsInv ==
  /\ \A r \in Requests : saw[r] \subseteq columns
  /\ \A r \in Requests : pc[r] \in {"count", "rows", "seed", "publish"} => columns = NFC
  /\ service # None => columns = NFC
  /\ \A r \in Requests : pc[r] = "take" \/ InService(r) => service # None

\* Every history that there is begins at the beginning; if there is any,
\* then all have begun; and what a backfill has not read, has begun.
HistoryInv ==
  /\ \A c \in Codes : history[c] # <<>> => Begun(c)
  /\ (\E c \in Codes : history[c] # <<>>) => AllBegun
  /\ \A r \in Requests : pc[r] = "seed" =>
       \A c \in Codes : Present(c) => c \in DOMAIN rows[r] \/ Begun(c)
  /\ \A r \in Requests : pc[r] = "publish" => AllBegun
  /\ service # None => AllBegun

StartupInv == Types /\ ColumnsInv /\ HistoryInv

(***************************************************************************)
(* What is appended to a history.                                          *)
(***************************************************************************)

\* A row is a sequence.
LEMMA OneRow ==
  ASSUME NEW R, NEW x \in R
  PROVE  <<x>> \in Seq(R) /\ <<x>> # <<>> /\ <<x>>[1] = x
OBVIOUS

LEMMA TwoRows ==
  ASSUME NEW R, NEW x \in R, NEW y \in R
  PROVE  <<x, y>> \in Seq(R) /\ <<x, y>> # <<>> /\ <<x, y>>[1] = x
OBVIOUS

\* What is put behind a sequence leaves its first element.
LEMMA FirstStays ==
  ASSUME NEW R, NEW s \in Seq(R), NEW t \in Seq(R), s # <<>>
  PROVE  s \o t \in Seq(R) /\ s \o t # <<>> /\ (s \o t)[1] = s[1]
<1>1. Len(s) \in Nat /\ Len(s) >= 1 /\ Len(t) \in Nat
  BY EmptySeq
<1>2. s \o t \in Seq(R) /\ Len(s \o t) = Len(s) + Len(t)
  BY ConcatProperties
<1>3. 1 \in 1..(Len(s) + Len(t)) /\ 1 <= Len(s)
  BY <1>1
<1>4. (s \o t)[1] = s[1]
  BY <1>3, ConcatProperties
<1> QED BY <1>1, <1>2, <1>4

\* What is filled in begins at the beginning.
LEMMA SeedBegins ==
  ASSUME NEW a \in [status : STATUSES, tagged : BOOLEAN]
  PROVE  /\ SeedOf(a) \in Seq(Rows)
         /\ SeedOf(a) # <<>>
         /\ SeedOf(a)[1].from = Absent
<1> DEFINE R == Rows
           first == <<Row(Absent, "reserved", "backfill"), Row("reserved", "generated", "backfill")>>
           second == IF a.tagged THEN <<Row("printed", "registered", "backfill")>> ELSE <<>>
           third == IF a.status \in {"reserved", "generated"} \/ (a.tagged /\ a.status = "registered")
                    THEN <<>>
                    ELSE <<Row(IF a.tagged THEN "registered" ELSE "generated", a.status, "backfill")>>
<1>1. \A from \in STATUSES \cup {Absent}, to \in STATUSES : Row(from, to, "backfill") \in R
  BY DEF Row, Rows, Actors
<1>2. {"reserved", "generated", "printed", "registered"} \subseteq STATUSES /\ a.status \in STATUSES
  BY DEF STATUSES
<1> HIDE DEF R
<1>3. first \in Seq(R) /\ first # <<>> /\ first[1].from = Absent
  <2> DEFINE x == Row(Absent, "reserved", "backfill")
             y == Row("reserved", "generated", "backfill")
  <2>1. x \in R /\ y \in R
    BY <1>1, <1>2
  <2>2. x.from = Absent
    BY DEF Row
  <2> HIDE DEF x, y
  <2>3. <<x, y>> \in Seq(R) /\ <<x, y>> # <<>> /\ <<x, y>>[1] = x
    BY <2>1, TwoRows
  <2>4. first = <<x, y>>
    BY DEF x, y
  <2> QED BY <2>2, <2>3, <2>4
<1>4. second \in Seq(R)
  <2> DEFINE x == Row("printed", "registered", "backfill")
  <2>1. x \in R
    BY <1>1, <1>2
  <2>2. second = IF a.tagged THEN <<x>> ELSE <<>>
    OBVIOUS
  <2> HIDE DEF x, second
  <2>3. <<x>> \in Seq(R) /\ <<>> \in Seq(R)
    BY <2>1, OneRow, EmptySeq
  <2> QED BY <2>2, <2>3
<1>5. third \in Seq(R)
  <2> DEFINE x == Row(IF a.tagged THEN "registered" ELSE "generated", a.status, "backfill")
  <2>1. x \in R
    BY <1>1, <1>2
  <2>2. third = <<>> \/ third = <<x>>
    OBVIOUS
  <2> HIDE DEF x, third
  <2>3. <<x>> \in Seq(R) /\ <<>> \in Seq(R)
    BY <2>1, OneRow, EmptySeq
  <2> QED BY <2>2, <2>3
<1>6. SeedOf(a) = first \o second \o third
  BY DEF SeedOf
<1> HIDE DEF first, second, third
<1>7. (first \o second) \o third = first \o (second \o third) /\ second \o third \in Seq(R)
  BY <1>3, <1>4, <1>5, ConcatAssociative, ConcatProperties
<1>8. /\ first \o (second \o third) \in Seq(R)
      /\ first \o (second \o third) # <<>>
      /\ (first \o (second \o third))[1] = first[1]
  BY <1>3, <1>7, FirstStays
<1> QED BY <1>3, <1>6, <1>7, <1>8 DEF R

(***************************************************************************)
(* The invariant.                                                          *)
(***************************************************************************)

\* A change of a lock that is there leads to a status, and its row is one.
LEMMA ChangeTypes ==
  ASSUME Types, NEW d \in Codes, NEW from \in STATUSES, NEW to \in STATUSES, Changes(d, from, to)
  PROVE  /\ history' \in [Codes -> Seq(Rows)]
         /\ status' \in [Codes -> STATUSES \cup {Absent}]
         /\ \A e \in Codes : Present(e) => Present(e)'
<1>1. Row(from, to, "client") \in Rows
  BY DEF Row, Rows, Actors
<1>2. history' \in [Codes -> Seq(Rows)]
  BY <1>1, AppendProperties DEF Changes, Types
<1>3. to # Absent
  BY DEF STATUSES, Absent
<1> QED BY <1>2, <1>3 DEF Changes, Types, StartupTypeOK, Present

\* Every step keeps the types.

LEMMA TypesStep == Types /\ ColumnsInv /\ [Next]_vars => Types'
<1> SUFFICES ASSUME Types /\ ColumnsInv, [Next]_vars PROVE Types'
  OBVIOUS
<1> USE DEF Types, StartupTypeOK, Starting, InService, tables, Present
<1>1. ASSUME NEW r \in Requests, Opens(r) PROVE Types'
  BY <1>1 DEF Opens, Goes
<1>2. ASSUME NEW r \in Requests, ReadsColumns(r) PROVE Types'
  BY <1>2 DEF ReadsColumns, Goes, NFC
<1>3. ASSUME NEW r \in Requests, AddsColumn(r) PROVE Types'
  BY <1>3 DEF AddsColumn, Goes, Missing, NFC
<1>4. ASSUME NEW r \in Requests, HasColumns(r) PROVE Types'
  BY <1>4 DEF HasColumns, Goes
<1>5. ASSUME NEW r \in Requests, StartRaises(r) PROVE Types'
  BY <1>5 DEF StartRaises, Goes
<1>6. ASSUME NEW r \in Requests, Counts(r) PROVE Types'
  BY <1>6 DEF Counts, Goes
<1>7. ASSUME NEW r \in Requests, ReadsRows(r) PROVE Types'
  BY <1>7 DEF ReadsRows, Goes
<1>8. ASSUME NEW r \in Requests, Seeds(r) PROVE Types'
  <2>1. ASSUME NEW c \in Codes PROVE history'[c] \in Seq(Rows)
    <3>1. CASE c \in DOMAIN rows[r]
      <4>1. SeedOf(rows[r][c]) \in Seq(Rows)
        BY <1>8, <3>1, SeedBegins DEF Seeds
      <4>2. history[c] \o SeedOf(rows[r][c]) \in Seq(Rows)
        BY <4>1, ConcatProperties
      <4> QED BY <1>8, <3>1, <4>2 DEF Seeds, SeedsAll
    <3>2. CASE c \notin DOMAIN rows[r]
      BY <1>8, <3>2 DEF Seeds, SeedsAll
    <3> QED BY <3>1, <3>2
  <2>2. history' \in [Codes -> Seq(Rows)]
    BY <1>8, <2>1 DEF Seeds, SeedsAll
  <2> QED BY <1>8, <2>2 DEF Seeds, SeedsAll, Goes
<1>9. ASSUME NEW r \in Requests, Publishes(r) PROVE Types'
  BY <1>9 DEF Publishes, Goes, Published
<1>10. ASSUME NEW r \in Requests, Finds(r) PROVE Types'
  BY <1>10 DEF Finds, Goes
<1>11. ASSUME NEW r \in Requests, Takes(r) PROVE Types'
  BY <1>11 DEF Takes, Goes, ColumnsInv
<1>12. ASSUME NEW r \in Requests, WritesStatus(r) PROVE Types'
  <2>1. PICK d \in Codes, from \in STATUSES : d = change[r].code /\ from = change[r].from
    BY <1>12 DEF WritesStatus
  <2>2. PICK to \in STATUSES : Changes(d, from, to)
    BY <1>12, <2>1, StartupAssumption DEF WritesStatus
  <2>3. /\ history' \in [Codes -> Seq(Rows)]
        /\ status' \in [Codes -> STATUSES \cup {Absent}]
        /\ \A e \in Codes : Present(e) => Present(e)'
    BY <2>2, ChangeTypes
  <2> QED BY <1>12, <2>3 DEF WritesStatus, Ends, Goes, NoChange
<1>13. ASSUME NEW r \in Requests, Answers(r) PROVE Types'
  BY <1>13 DEF Answers, Goes, NoChange
<1>14. ASSUME NEW r \in Requests, NEW c \in Codes, AddsLock(r, c) PROVE Types'
  <2>1. Row(Absent, "reserved", "reserve") \in Rows
    BY DEF Row, Rows, STATUSES, Actors
  <2>2. history' \in [Codes -> Seq(Rows)]
    BY <1>14, <2>1, AppendProperties DEF AddsLock
  <2>3. status' \in [Codes -> STATUSES \cup {Absent}] /\ status'[c] # Absent
        /\ \A d \in Codes \ {c} : status'[d] = status[d]
    BY <1>14 DEF AddsLock, Serves, STATUSES, Absent
  <2>4. /\ pc' = [pc EXCEPT ![r] = "rendering"]
        /\ change' = [change EXCEPT ![r] = [code |-> c, from |-> "reserved"]]
        /\ pc[r] = "serving"
    BY <1>14 DEF AddsLock, Serves, Goes
  <2>5. "reserved" \in STATUSES
    BY DEF STATUSES
  <2> QED BY <1>14, <2>2, <2>3, <2>4, <2>5 DEF AddsLock
<1>15. ASSUME NEW r \in Requests, NEW c \in Codes, ReadsStatus(r, c) PROVE Types'
  BY <1>15 DEF ReadsStatus, Serves, Goes, process
<1>16. CASE Stops
  BY <1>16 DEF Stops, NoChange
<1>17. CASE UNCHANGED vars
  BY <1>17 DEF vars, process
<1>18. ASSUME NEW r \in Requests, MarksGenerated(r) PROVE Types'
  <2>1. PICK d \in Codes : d = change[r].code
    BY <1>18 DEF MarksGenerated, Serves
  <2>2. Row(change[r].from, "generated", "render") \in Rows /\ "generated" \in STATUSES
    BY <1>18 DEF MarksGenerated, Serves, Row, Rows, STATUSES, Actors
  <2>3. history' \in [Codes -> Seq(Rows)]
    BY <1>18, <2>1, <2>2, AppendProperties DEF MarksGenerated
  <2>4. status' \in [Codes -> STATUSES \cup {Absent}] /\ \A e \in Codes : Present(e) => Present(e)'
    BY <1>18, <2>1, <2>2 DEF MarksGenerated, Absent
  <2> QED BY <1>18, <2>3, <2>4 DEF MarksGenerated, Serves, Goes, NoChange
<1>19. ASSUME NEW r \in Requests, BindsTag(r) PROVE Types'
  <2>1. PICK d \in Codes, from \in STATUSES : d = change[r].code /\ from = change[r].from
    BY <1>19 DEF BindsTag
  <2>2. Changes(d, from, "registered") \/ UNCHANGED <<status, history>>
    BY <1>19, <2>1 DEF BindsTag
  <2>3. "registered" \in STATUSES
    BY DEF STATUSES
  <2>4. /\ history' \in [Codes -> Seq(Rows)]
        /\ status' \in [Codes -> STATUSES \cup {Absent}]
        /\ \A e \in Codes : Present(e) => Present(e)'
    BY <2>2, <2>3, ChangeTypes
  <2>5. tagged' \in [Codes -> BOOLEAN]
    BY <1>19 DEF BindsTag
  <2> QED BY <1>19, <2>4, <2>5 DEF BindsTag, Ends, Goes, NoChange
<1> QED BY <1>1, <1>2, <1>3, <1>4, <1>5, <1>6, <1>7, <1>8, <1>9, <1>10, <1>11, <1>12, <1>13, <1>14, <1>15, <1>16, <1>17, <1>18, <1>19 DEF Next, StartStep, ServeStep

\* Columns that are there stay.

LEMMA ColumnsStep == Types /\ ColumnsInv /\ [Next]_vars => ColumnsInv'
<1> SUFFICES ASSUME Types /\ ColumnsInv, [Next]_vars PROVE ColumnsInv'
  OBVIOUS
<1> USE DEF Types, ColumnsInv, StartupTypeOK, Starting, InService, Missing, NFC, tables
<1>1. ASSUME NEW r \in Requests, Opens(r) PROVE ColumnsInv'
  BY <1>1 DEF Opens, Goes
<1>2. ASSUME NEW r \in Requests, ReadsColumns(r) PROVE ColumnsInv'
  BY <1>2 DEF ReadsColumns, Goes
<1>3. ASSUME NEW r \in Requests, AddsColumn(r) PROVE ColumnsInv'
  BY <1>3 DEF AddsColumn, Goes
<1>4. ASSUME NEW r \in Requests, HasColumns(r) PROVE ColumnsInv'
  BY <1>4 DEF HasColumns, Goes
<1>5. ASSUME NEW r \in Requests, StartRaises(r) PROVE ColumnsInv'
  BY <1>5 DEF StartRaises, Goes
<1>6. ASSUME NEW r \in Requests, Counts(r) PROVE ColumnsInv'
  BY <1>6 DEF Counts, Goes
<1>7. ASSUME NEW r \in Requests, ReadsRows(r) PROVE ColumnsInv'
  BY <1>7 DEF ReadsRows, Goes
<1>8. ASSUME NEW r \in Requests, Seeds(r) PROVE ColumnsInv'
  BY <1>8 DEF Seeds, SeedsAll, Goes
<1>9. ASSUME NEW r \in Requests, Publishes(r) PROVE ColumnsInv'
  BY <1>9, StartupAssumption DEF Publishes, Published, Goes
<1>10. ASSUME NEW r \in Requests, Finds(r) PROVE ColumnsInv'
  BY <1>10 DEF Finds, Goes
<1>11. ASSUME NEW r \in Requests, Takes(r) PROVE ColumnsInv'
  BY <1>11 DEF Takes, Goes
<1>12. ASSUME NEW r \in Requests, WritesStatus(r) PROVE ColumnsInv'
  BY <1>12 DEF WritesStatus, Ends, Goes
<1>13. ASSUME NEW r \in Requests, Answers(r) PROVE ColumnsInv'
  BY <1>13 DEF Answers, Goes, NoChange
<1>14. ASSUME NEW r \in Requests, NEW c \in Codes, AddsLock(r, c) PROVE ColumnsInv'
  BY <1>14 DEF AddsLock, Serves, Goes
<1>15. ASSUME NEW r \in Requests, NEW c \in Codes, ReadsStatus(r, c) PROVE ColumnsInv'
  BY <1>15 DEF ReadsStatus, Serves, Goes
<1>16. CASE Stops
  BY <1>16 DEF Stops, NoChange
<1>17. CASE UNCHANGED vars
  BY <1>17 DEF vars, process
<1>18. ASSUME NEW r \in Requests, MarksGenerated(r) PROVE ColumnsInv'
  BY <1>18 DEF MarksGenerated, Serves, Goes
<1>19. ASSUME NEW r \in Requests, BindsTag(r) PROVE ColumnsInv'
  BY <1>19 DEF BindsTag, Ends, Goes
<1> QED BY <1>1, <1>2, <1>3, <1>4, <1>5, <1>6, <1>7, <1>8, <1>9, <1>10, <1>11, <1>12, <1>13, <1>14, <1>15, <1>16, <1>17, <1>18, <1>19 DEF Next, StartStep, ServeStep

\* A row behind a history: it has begun if it had, or if the row begins it.
LEMMA BegunByAppend ==
  ASSUME NEW s \in Seq(Rows), NEW row \in Rows
  PROVE  /\ Append(s, row) # <<>>
         /\ s # <<>> => Append(s, row)[1] = s[1]
         /\ s = <<>> => Append(s, row)[1] = row
<1>1. Len(s) \in Nat /\ Len(Append(s, row)) = Len(s) + 1
  BY AppendProperties
<1>2. s # <<>> => Len(s) >= 1
  BY <1>1, EmptySeq
<1> QED BY <1>1, <1>2, AppendProperties

\* So it is with a change's row and the renderer's.
LEMMA BegunByRow ==
  ASSUME Types, AllBegun, NEW d \in Codes, Present(d), NEW row \in Rows, NEW to \in STATUSES,
         \A c \in Codes : history[c] # <<>> => Begun(c),
         history' = [history EXCEPT ![d] = Append(@, row)], status' = [status EXCEPT ![d] = to]
  PROVE  AllBegun' /\ \A c \in Codes : history'[c] # <<>> => Begun(c)'
<1>1. history[d] # <<>> /\ history[d][1].from = Absent /\ history[d] \in Seq(Rows)
  BY DEF AllBegun, Begun, Types
<1>2. history'[d] = Append(history[d], row)
  BY DEF Types
<1>3. Begun(d)'
  BY <1>1, <1>2, BegunByAppend DEF Begun
<1>4. \A c \in Codes \ {d} : history'[c] = history[c] /\ status'[c] = status[c]
  BY DEF Types, StartupTypeOK
<1> QED BY <1>3, <1>4 DEF AllBegun, Begun, Present

LEMMA BegunByChange ==
  ASSUME Types, AllBegun, NEW d \in Codes, Present(d), NEW from \in STATUSES, NEW to \in STATUSES,
         \A c \in Codes : history[c] # <<>> => Begun(c),
         Changes(d, from, to)
  PROVE  AllBegun' /\ \A c \in Codes : history'[c] # <<>> => Begun(c)'
<1>1. Row(from, to, "client") \in Rows
  BY DEF Row, Rows, Actors
<1> QED BY <1>1, BegunByRow DEF Changes

\* Histories that have begun stay so.

LEMMA HistoryStep == Types /\ ColumnsInv /\ HistoryInv /\ [Next]_vars => HistoryInv'
<1> SUFFICES ASSUME Types /\ ColumnsInv /\ HistoryInv, [Next]_vars PROVE HistoryInv'
  OBVIOUS
<1> USE DEF Types, ColumnsInv, HistoryInv, StartupTypeOK, Starting, InService, AllBegun, Begun, Present, tables
<1>1. ASSUME NEW r \in Requests, Opens(r) PROVE HistoryInv'
  BY <1>1 DEF Opens, Goes
<1>2. ASSUME NEW r \in Requests, ReadsColumns(r) PROVE HistoryInv'
  BY <1>2 DEF ReadsColumns, Goes
<1>3. ASSUME NEW r \in Requests, AddsColumn(r) PROVE HistoryInv'
  BY <1>3 DEF AddsColumn, Goes
<1>4. ASSUME NEW r \in Requests, HasColumns(r) PROVE HistoryInv'
  BY <1>4 DEF HasColumns, Goes
<1>5. ASSUME NEW r \in Requests, StartRaises(r) PROVE HistoryInv'
  BY <1>5 DEF StartRaises, Goes
<1>6. ASSUME NEW r \in Requests, Counts(r) PROVE HistoryInv'
  BY <1>6 DEF Counts, Have, Goes
<1>7. ASSUME NEW r \in Requests, ReadsRows(r) PROVE HistoryInv'
  <2>1. \A c \in Codes : Present(c) => c \in DOMAIN rows'[r]
    BY <1>7 DEF ReadsRows
  <2> QED BY <1>7, <2>1 DEF ReadsRows, Goes
<1>8. ASSUME NEW r \in Requests, Seeds(r) PROVE HistoryInv'
  <2>1. ASSUME NEW c \in Codes
        PROVE  /\ history[c] # <<>> => history'[c] # <<>>
               /\ Begun(c) => Begun(c)'
               /\ history'[c] # <<>> => Begun(c)'
               /\ Present(c) => Begun(c)'
    <3>1. CASE c \in DOMAIN rows[r]
      <4> DEFINE seed == SeedOf(rows[r][c])
      <4>1. seed \in Seq(Rows) /\ seed # <<>> /\ seed[1].from = Absent
        BY <1>8, <3>1, SeedBegins DEF Seeds
      <4>2. history'[c] = history[c] \o seed
        BY <1>8, <3>1 DEF Seeds, SeedsAll
      <4> HIDE DEF seed
      <4>3. CASE history[c] = <<>>
        <5>1. history'[c] = seed
          BY <4>1, <4>2, <4>3, ConcatEmptySeq
        <5> QED BY <4>1, <4>3, <5>1
      <4>4. CASE history[c] # <<>>
        <5>1. history'[c] # <<>> /\ history'[c][1] = history[c][1]
          BY <4>1, <4>2, <4>4, FirstStays
        <5> QED BY <4>4, <5>1
      <4> QED BY <4>3, <4>4
    <3>2. CASE c \notin DOMAIN rows[r]
      <4>1. history'[c] = history[c]
        BY <1>8, <3>2 DEF Seeds, SeedsAll
      <4> QED BY <1>8, <3>2, <4>1 DEF Seeds
    <3> QED BY <3>1, <3>2
  <2>2. AllBegun'
    BY <1>8, <2>1 DEF Seeds, SeedsAll
  <2> QED BY <1>8, <2>1, <2>2 DEF Seeds, SeedsAll, Goes
<1>9. ASSUME NEW r \in Requests, Publishes(r) PROVE HistoryInv'
  BY <1>9 DEF Publishes, Published, Goes
<1>10. ASSUME NEW r \in Requests, Finds(r) PROVE HistoryInv'
  BY <1>10 DEF Finds, Goes
<1>11. ASSUME NEW r \in Requests, Takes(r) PROVE HistoryInv'
  BY <1>11 DEF Takes, Goes
<1>12. ASSUME NEW r \in Requests, WritesStatus(r) PROVE HistoryInv'
  <2>1. PICK d \in Codes, from \in STATUSES : d = change[r].code /\ from = change[r].from
    BY <1>12 DEF WritesStatus
  <2>2. Present(d) /\ AllBegun
    BY <1>12, <2>1 DEF WritesStatus
  <2>3. PICK to \in STATUSES : Changes(d, from, to)
    BY <1>12, <2>1, StartupAssumption DEF WritesStatus
  <2>4. AllBegun' /\ \A c \in Codes : history'[c] # <<>> => Begun(c)'
    BY <2>2, <2>3, BegunByChange
  <2> QED BY <1>12, <2>4 DEF WritesStatus, Ends, Goes
<1>13. ASSUME NEW r \in Requests, Answers(r) PROVE HistoryInv'
  BY <1>13 DEF Answers, Goes, NoChange
<1>14. ASSUME NEW r \in Requests, NEW c \in Codes, AddsLock(r, c) PROVE HistoryInv'
  <2>1. AllBegun
    BY <1>14 DEF AddsLock, Serves
  <2>2. ASSUME NEW d \in Codes
        PROVE  /\ history'[d] # <<>> => Begun(d)'
               /\ Present(d)' => Begun(d)'
               /\ d # c => (Present(d)' <=> Present(d)) /\ history'[d] = history[d]
    <3> DEFINE row == Row(Absent, "reserved", "reserve")
    <3>1. row \in Rows /\ row.from = Absent
      BY DEF Row, Rows, STATUSES, Actors
    <3>2. history' = [history EXCEPT ![c] = Append(@, row)]
      BY <1>14 DEF AddsLock
    <3> HIDE DEF row
    <3>3. CASE d = c
      <4>1. history'[c] = Append(history[c], row)
        BY <3>2
      <4>2. Begun(c)'
        BY <3>1, <4>1, BegunByAppend
      <4> QED BY <3>3, <4>2
    <3>4. CASE d # c
      BY <1>14, <2>1, <3>2, <3>4 DEF AddsLock
    <3> QED BY <3>3, <3>4
  <2>3. AllBegun'
    BY <2>2
  <2> QED BY <1>14, <2>2, <2>3 DEF AddsLock, Serves, Goes
<1>15. ASSUME NEW r \in Requests, NEW c \in Codes, ReadsStatus(r, c) PROVE HistoryInv'
  BY <1>15 DEF ReadsStatus, Serves, Goes
<1>16. CASE Stops
  BY <1>16 DEF Stops, NoChange
<1>17. CASE UNCHANGED vars
  BY <1>17 DEF vars, process
<1>18. ASSUME NEW r \in Requests, MarksGenerated(r) PROVE HistoryInv'
  <2>1. PICK d \in Codes : d = change[r].code /\ Present(d)
    BY <1>18 DEF MarksGenerated, Serves
  <2>2. Row(change[r].from, "generated", "render") \in Rows /\ "generated" \in STATUSES
    BY <1>18 DEF MarksGenerated, Serves, Row, Rows, STATUSES, Actors
  <2>3. AllBegun
    BY <1>18 DEF MarksGenerated, Serves
  <2>4. AllBegun' /\ \A c \in Codes : history'[c] # <<>> => Begun(c)'
    BY <1>18, <2>1, <2>2, <2>3, BegunByRow DEF MarksGenerated
  <2> QED BY <1>18, <2>4 DEF MarksGenerated, Serves, Goes
<1>19. ASSUME NEW r \in Requests, BindsTag(r) PROVE HistoryInv'
  <2>1. PICK d \in Codes, from \in STATUSES : d = change[r].code /\ from = change[r].from /\ Present(d)
    BY <1>19 DEF BindsTag
  <2>2. Changes(d, from, "registered") \/ UNCHANGED <<status, history>>
    BY <1>19, <2>1 DEF BindsTag
  <2>3. AllBegun /\ "registered" \in STATUSES
    BY <1>19 DEF BindsTag, STATUSES
  <2>4. AllBegun' /\ \A c \in Codes : history'[c] # <<>> => Begun(c)'
    BY <2>1, <2>2, <2>3, BegunByChange
  <2> QED BY <1>19, <2>4 DEF BindsTag, Ends, Goes
<1> QED BY <1>1, <1>2, <1>3, <1>4, <1>5, <1>6, <1>7, <1>8, <1>9, <1>10, <1>11, <1>12, <1>13, <1>14, <1>15, <1>16, <1>17, <1>18, <1>19 DEF Next, StartStep, ServeStep

LEMMA StartupAlways == Spec => []StartupInv
<1>1. Init => StartupInv
  <2> SUFFICES ASSUME Init PROVE StartupInv
    OBVIOUS
  <2>1. /\ status \in [Codes -> STATUSES \cup {Absent}]
        /\ tagged \in [Codes -> BOOLEAN]
    BY StartupAssumption DEF Init
  <2>2. Types
    BY <2>1, EmptySeq DEF Init, Types, StartupTypeOK, InService, NoChange
  <2>3. ColumnsInv /\ HistoryInv
    BY DEF Init, ColumnsInv, HistoryInv, InService
  <2> QED BY <2>2, <2>3 DEF StartupInv
<1>2. StartupInv /\ [Next]_vars => StartupInv'
  BY TypesStep, ColumnsStep, HistoryStep DEF StartupInv
<1> QED BY <1>1, <1>2, PTL DEF Spec

(***************************************************************************)
(* THEOREM StartupTypes.  The types of the start.                          *)
(***************************************************************************)
THEOREM StartupTypes == Spec => []StartupTypeOK
<1>1. StartupInv => StartupTypeOK
  BY DEF StartupInv, Types
<1> QED BY <1>1, StartupAlways, PTL

(***************************************************************************)
(* THEOREM ReadyForService.  However many starts are cut off, fail or      *)
(* overlap: who is served finds both NFC columns, and every lock with a    *)
(* history from the beginning.                                             *)
(***************************************************************************)
THEOREM ReadyForService == Spec => []ReadyWhenServed
<1>1. StartupInv => ReadyWhenServed
  BY DEF StartupInv, ColumnsInv, HistoryInv, AllBegun, Begun, ReadyWhenServed, Served, InService
<1> QED BY <1>1, StartupAlways, PTL

(***************************************************************************)
(* What one start at a time adds.  Under ~overlapped there is one start    *)
(* while there is no service, and then one service, whose lock all the     *)
(* requests share; so no status changes between a backfill's reading and   *)
(* its writing, nor between those of a request.  The status does change    *)
(* while a lock is rendered; but it is rendered once.                      *)
(***************************************************************************)
Quiet == \A c \in Codes : history[c] = <<>>

OneStart ==
  /\ \A r, q \in Requests : Starting(r) /\ Starting(q) => r = q
  /\ \A r \in Requests : Starting(r) => service = None

OneService ==
  /\ \A r \in Requests : InService(r) => using[r] = service
  /\ \A r \in Requests : pc[r] = "writing" =>
       using[r] \in locked /\ change[r].from = status[change[r].code]
  /\ \A r, q \in Requests : pc[r] = "writing" /\ pc[q] = "writing" => r = q

Filling ==
  /\ \A r \in Requests : pc[r] \in {"rows", "seed"} => Quiet
  /\ \A r \in Requests : pc[r] = "seed" =>
       \A c \in DOMAIN rows[r] : rows[r][c] = [status |-> status[c], tagged |-> tagged[c]]

\* A lock that is being rendered has no row of the renderer's yet.
Unrendered(c) == \A i \in DOMAIN history[c] : history[c][i].by # "render"

Rendering ==
  /\ \A r \in Requests : pc[r] = "rendering" => Unrendered(change[r].code)
  /\ \A r, q \in Requests :
       pc[r] = "rendering" /\ pc[q] = "rendering" /\ change[r].code = change[q].code => r = q

AllTell == \A c \in Codes : history[c] # <<>> => Tells(c)

AloneInv == ~overlapped => OneStart /\ OneService /\ Filling /\ Rendering /\ AllTell

\* A row behind two, and behind three.
LEMMA ThirdRow ==
  ASSUME NEW x, NEW y, NEW z
  PROVE  <<x, y>> \o <<z>> = <<x, y, z>>
<1> DEFINE R == {x, y, z}
<1>1. <<x, y>> \in Seq(R) /\ <<z>> \in Seq(R) /\ <<x, y, z>> \in Seq(R)
  OBVIOUS
<1>2. <<x, y>> \o <<z>> \in Seq(R) /\ Len(<<x, y>> \o <<z>>) = 3
  BY <1>1
<1>3. \A i \in 1..3 : (<<x, y>> \o <<z>>)[i] = <<x, y, z>>[i]
  BY <1>1
<1> QED BY <1>1, <1>2, <1>3, SeqEqual

LEMMA FourthRow ==
  ASSUME NEW x, NEW y, NEW z, NEW t
  PROVE  <<x, y, z>> \o <<t>> = <<x, y, z, t>>
<1> DEFINE R == {x, y, z, t}
<1>1. <<x, y, z>> \in Seq(R) /\ <<t>> \in Seq(R) /\ <<x, y, z, t>> \in Seq(R)
  OBVIOUS
<1>2. <<x, y, z>> \o <<t>> \in Seq(R) /\ Len(<<x, y, z>> \o <<t>>) = 4
  BY <1>1
<1>3. \A i \in 1..4 : (<<x, y, z>> \o <<t>>)[i] = <<x, y, z, t>>[i]
  BY <1>1
<1> QED BY <1>1, <1>2, <1>3, SeqEqual

\* What is filled in begins once, is not live, and ends in the status or in
\* one of the two that it does not tell.
LEMMA SeedTells ==
  ASSUME NEW a \in [status : STATUSES, tagged : BOOLEAN]
  PROVE  LET h == SeedOf(a)
         IN  /\ \A i \in DOMAIN h : (h[i].from = Absent <=> i = 1) /\ h[i].by = "backfill"
             /\ h[Len(h)].to = a.status \/ <<a.status, h[Len(h)].to>> \in Mistold
<1> DEFINE x == Row(Absent, "reserved", "backfill")
           y == Row("reserved", "generated", "backfill")
           z == Row("printed", "registered", "backfill")
           t == Row(IF a.tagged THEN "registered" ELSE "generated", a.status, "backfill")
           told == a.status \in {"reserved", "generated"} \/ (a.tagged /\ a.status = "registered")
<1>1. SeedOf(a) = (<<x, y>> \o (IF a.tagged THEN <<z>> ELSE <<>>)) \o (IF told THEN <<>> ELSE <<t>>)
  BY DEF SeedOf
<1>2. /\ x.from = Absent /\ y.from # Absent /\ z.from # Absent /\ t.from # Absent
      /\ x.by = "backfill" /\ y.by = "backfill" /\ z.by = "backfill" /\ t.by = "backfill"
      /\ y.to = "generated" /\ z.to = "registered" /\ t.to = a.status
  BY DEF Row, Absent
<1>3. /\ told /\ a.tagged => a.status = "registered" \/ <<a.status, "registered">> \in Mistold
      /\ told /\ ~a.tagged => a.status = "generated" \/ <<a.status, "generated">> \in Mistold
  BY DEF Mistold
<1> HIDE DEF x, y, z, t, told
<1>4. CASE a.tagged /\ told
  <2>1. SeedOf(a) = <<x, y, z>>
    BY <1>1, <1>4, ThirdRow
  <2> QED BY <1>2, <1>3, <1>4, <2>1
<1>5. CASE a.tagged /\ ~told
  <2>1. SeedOf(a) = (<<x, y>> \o <<z>>) \o <<t>>
    BY <1>1, <1>5
  <2>2. <<x, y>> \o <<z>> = <<x, y, z>> /\ <<x, y, z>> \o <<t>> = <<x, y, z, t>>
    BY ThirdRow, FourthRow
  <2>3. SeedOf(a) = <<x, y, z, t>>
    BY <2>1, <2>2, Zenon
  <2> QED BY <1>2, <2>3
<1>6. CASE ~a.tagged /\ told
  <2>1. SeedOf(a) = <<x, y>>
    BY <1>1, <1>6
  <2> QED BY <1>2, <1>3, <1>6, <2>1
<1>7. CASE ~a.tagged /\ ~told
  <2>1. SeedOf(a) = <<x, y, t>>
    BY <1>1, <1>7, ThirdRow
  <2> QED BY <1>2, <2>1
<1> QED BY <1>4, <1>5, <1>6, <1>7

\* A live row behind a history that tells where the row starts from, or the
\* renderer's first.
LEMMA RowTells ==
  ASSUME Types, NEW c \in Codes, history[c] # <<>>, Tells(c),
         NEW row \in Rows, Live(row), row.from # Absent,
         row.from = status[c] \/ row.by = "render",
         row.by = "render" => Unrendered(c),
         history'[c] = Append(history[c], row), status'[c] = row.to
  PROVE  Tells(c)'
<1> DEFINE h == history[c]
           g == history'[c]
           n == Len(h)
<1>1. h \in Seq(Rows)
  BY DEF Types
<1>2. /\ \A i \in DOMAIN h : h[i].from = Absent <=> i = 1
      /\ \A i \in 2..n : Live(h[i - 1]) =>
           Live(h[i]) /\ (h[i].from = h[i - 1].to \/ h[i].by = "render")
      /\ \A i, j \in DOMAIN h : h[i].by = "render" /\ h[j].by = "render" => i = j
      /\ Live(h[n]) => h[n].to = status[c]
  BY DEF Tells
<1>3. g = Append(h, row) /\ h # <<>>
  OBVIOUS
<1>4. n = Len(h)
  OBVIOUS
<1>5. row.by = "render" => \A i \in DOMAIN h : h[i].by # "render"
  BY DEF Unrendered
<1>6. Tells(c)' <=>
        /\ \A i \in DOMAIN g : g[i].from = Absent <=> i = 1
        /\ \A i \in 2..Len(g) : Live(g[i - 1]) =>
             Live(g[i]) /\ (g[i].from = g[i - 1].to \/ g[i].by = "render")
        /\ \A i, j \in DOMAIN g : g[i].by = "render" /\ g[j].by = "render" => i = j
        /\ g[Len(g)].to = status'[c] \/ (~Live(g[Len(g)]) /\ <<status'[c], g[Len(g)].to>> \in Mistold)
  BY DEF Tells
<1> HIDE DEF h, g, n
<1>7. n \in Nat /\ n >= 1 /\ DOMAIN h = 1..n
  BY <1>1, <1>3, <1>4, EmptySeq
<1>8. Len(g) = n + 1 /\ DOMAIN g = 1..(n + 1) /\ g[n + 1] = row
      /\ \A i \in 1..n : g[i] = h[i]
  BY <1>1, <1>3, <1>4, AppendProperties
<1>9. ASSUME NEW i \in DOMAIN g PROVE g[i].from = Absent <=> i = 1
  BY <1>2, <1>7, <1>8
<1>10. ASSUME NEW i \in 2..Len(g), Live(g[i - 1])
       PROVE  Live(g[i]) /\ (g[i].from = g[i - 1].to \/ g[i].by = "render")
  <2>1. CASE i = n + 1
    <3>1. g[i - 1] = h[n] /\ g[i] = row
      BY <1>7, <1>8, <2>1
    <3> QED BY <1>2, <1>10, <3>1
  <2>2. CASE i # n + 1
    <3>1. i \in 2..n /\ i \in 1..n /\ i - 1 \in 1..n
      BY <1>7, <1>8, <2>2
    <3>2. g[i - 1] = h[i - 1] /\ g[i] = h[i]
      BY <1>8, <3>1
    <3> QED BY <1>2, <1>10, <3>1, <3>2
  <2> QED BY <2>1, <2>2
<1>11. ASSUME NEW i \in DOMAIN g, NEW j \in DOMAIN g, g[i].by = "render", g[j].by = "render"
       PROVE  i = j
  <2>1. CASE row.by = "render"
    <3>1. i \notin 1..n /\ j \notin 1..n
      BY <1>5, <1>7, <1>8, <1>11, <2>1
    <3> QED BY <1>7, <1>8, <3>1
  <2>2. CASE row.by # "render"
    <3>1. i \in 1..n /\ j \in 1..n
      BY <1>7, <1>8, <1>11, <2>2
    <3> QED BY <1>2, <1>7, <1>8, <1>11, <3>1
  <2> QED BY <2>1, <2>2
<1> QED BY <1>6, <1>8, <1>9, <1>10, <1>11

\* The first row of a lock that is added.
LEMMA FirstTells ==
  ASSUME NEW c \in Codes, NEW row, row.from = Absent, row.by # "render",
         history'[c] = <<row>>, status'[c] = row.to
  PROVE  Tells(c)' /\ Unrendered(c)'
<1> DEFINE g == history'[c]
<1>1. Tells(c)' <=>
        /\ \A i \in DOMAIN g : g[i].from = Absent <=> i = 1
        /\ \A i \in 2..Len(g) : Live(g[i - 1]) =>
             Live(g[i]) /\ (g[i].from = g[i - 1].to \/ g[i].by = "render")
        /\ \A i, j \in DOMAIN g : g[i].by = "render" /\ g[j].by = "render" => i = j
        /\ g[Len(g)].to = status'[c] \/ (~Live(g[Len(g)]) /\ <<status'[c], g[Len(g)].to>> \in Mistold)
  BY DEF Tells
<1>2. Unrendered(c)' <=> \A i \in DOMAIN g : g[i].by # "render"
  BY DEF Unrendered
<1>3. g = <<row>>
  OBVIOUS
<1> HIDE DEF g
<1>4. Len(g) = 1 /\ DOMAIN g = 1..1 /\ g[1] = row
  BY <1>3
<1> QED BY <1>1, <1>2, <1>4

\* A history that tells is that of a lock that is there.
LEMMA TellsOfPresent ==
  ASSUME Types, NEW c \in Codes, history[c] # <<>>, Tells(c)
  PROVE  Present(c)
<1> DEFINE h == history[c]
           n == Len(h)
<1>1. h \in Seq(Rows) /\ h # <<>>
  BY DEF Types
<1>2. h[n].to = status[c] \/ <<status[c], h[n].to>> \in Mistold
  BY DEF Tells
<1> HIDE DEF h
<1>3. n \in 1..Len(h)
  BY <1>1, EmptySeq
<1>4. h[n] \in Rows
  BY <1>1, <1>3
<1> HIDE DEF n
<1>5. h[n].to \in STATUSES
  BY <1>4 DEF Rows
<1>6. Absent \notin STATUSES /\ Absent # "reserved" /\ Absent # "generated"
  BY DEF STATUSES, Absent
<1> QED BY <1>2, <1>5, <1>6 DEF Present, Mistold

\* What a lock's rows tell depends on its own row and history only.
LEMMA TellsStays ==
  ASSUME NEW c \in Codes, history'[c] = history[c], status'[c] = status[c]
  PROVE  /\ Tells(c) => Tells(c)'
         /\ Unrendered(c) => Unrendered(c)'
BY DEF Tells, Unrendered

\* A client's row leaves who is unrendered so.
LEMMA UnrenderedStays ==
  ASSUME NEW c \in Codes, history[c] \in Seq(Rows), NEW row \in Rows, row.by # "render",
         history'[c] = Append(history[c], row), Unrendered(c)
  PROVE  Unrendered(c)'
<1> DEFINE h == history[c]
           g == history'[c]
           n == Len(h)
<1>1. Unrendered(c)' <=> \A i \in DOMAIN g : g[i].by # "render"
  BY DEF Unrendered
<1>2. \A i \in DOMAIN h : h[i].by # "render"
  BY DEF Unrendered
<1>3. h \in Seq(Rows) /\ g = Append(h, row) /\ n = Len(h)
  OBVIOUS
<1> HIDE DEF g, h, n
<1>4. n \in Nat /\ DOMAIN h = 1..n /\ DOMAIN g = 1..(n + 1) /\ g[n + 1] = row
      /\ \A i \in 1..n : g[i] = h[i]
  BY <1>3, AppendProperties
<1> QED BY <1>1, <1>2, <1>4

\* A change from the status that the lock has.
LEMMA ChangeTells ==
  ASSUME Types, AllTell, NEW d \in Codes, NEW from \in STATUSES, NEW to \in STATUSES,
         from = status[d], history[d] # <<>>, Changes(d, from, to)
  PROVE  AllTell' /\ \A c \in Codes : Unrendered(c) => Unrendered(c)'
<1> DEFINE row == Row(from, to, "client")
<1>1. row \in Rows /\ Live(row) /\ row.by # "render" /\ row.from = from /\ row.to = to
  BY DEF Row, Rows, Actors, Live
<1>2. history' = [history EXCEPT ![d] = Append(@, row)] /\ status' = [status EXCEPT ![d] = to]
  BY DEF Changes
<1> HIDE DEF row
<1>3. history'[d] = Append(history[d], row) /\ status'[d] = row.to
      /\ history[d] \in Seq(Rows)
  BY <1>1, <1>2 DEF Types, StartupTypeOK
<1>4. from # Absent
  BY DEF STATUSES, Absent
<1>5. Tells(d)'
  BY <1>1, <1>3, <1>4, RowTells DEF AllTell
<1>6. Unrendered(d) => Unrendered(d)'
  BY <1>1, <1>3, UnrenderedStays
<1>7. \A c \in Codes \ {d} : history'[c] = history[c] /\ status'[c] = status[c]
  BY <1>2 DEF Types, StartupTypeOK
<1> QED BY <1>5, <1>6, <1>7, TellsStays DEF AllTell

\* Steps that leave the tables.
LEMMA TablesTell ==
  ASSUME AllTell, UNCHANGED <<status, history>>
  PROVE  AllTell'
BY TellsStays DEF AllTell

\* What ends a request's change to the tables, but for the histories.
LEMMA WriteAlone ==
  ASSUME Types, ColumnsInv, OneStart, OneService, Filling, Rendering,
         NEW r \in Requests, pc[r] = "writing", Ends(r),
         \A c \in Codes : Unrendered(c) => Unrendered(c)'
  PROVE  (OneStart /\ OneService /\ Filling /\ Rendering)'
<1>1. /\ pc' = [pc EXCEPT ![r] = "serving"]
      /\ change' = [change EXCEPT ![r] = NoChange]
      /\ UNCHANGED <<using, service>>
  BY DEF Ends, Goes
<1>2. service # None
  BY DEF ColumnsInv, InService
<1>3. \A q \in Requests : ~Starting(q) /\ ~Starting(q)'
  BY <1>1, <1>2 DEF OneStart, Starting, Types, StartupTypeOK
<1>4. \A q \in Requests : pc'[q] # "writing" /\ (InService(q)' => using'[q] = service')
  BY <1>1 DEF OneService, InService, Types, StartupTypeOK
<1>5. \A q \in Requests : pc'[q] = "rendering" =>
        pc[q] = "rendering" /\ change'[q] = change[q] /\ change[q].code \in Codes
  BY <1>1 DEF Types, StartupTypeOK
<1>6. \A q \in Requests : pc'[q] = "rendering" => Unrendered(change[q].code)'
  BY <1>5 DEF Rendering, Unrendered
<1>7. (OneStart /\ OneService /\ Filling)'
  BY <1>3, <1>4 DEF OneStart, OneService, Filling, Starting
<1>8. Rendering'
  BY <1>5, <1>6 DEF Rendering
<1> QED BY <1>7, <1>8

\* Every step of one start at a time keeps what it says.
LEMMA AloneStep == Types /\ ColumnsInv /\ HistoryInv /\ AloneInv /\ [Next]_vars => AloneInv'
<1> SUFFICES ASSUME Types /\ ColumnsInv /\ HistoryInv /\ AloneInv, [Next]_vars, ~overlapped'
             PROVE  (OneStart /\ OneService /\ Filling /\ Rendering /\ AllTell)'
  BY DEF AloneInv
<1>0. OneStart /\ OneService /\ Filling /\ Rendering /\ AllTell
  <2>1. overlapped => overlapped'
    BY DEF Next, StartStep, ServeStep, Stops, Opens, ReadsColumns, AddsColumn, HasColumns, StartRaises, Counts,
           ReadsRows, Seeds, Publishes, Finds, Takes, WritesStatus, Answers, AddsLock, ReadsStatus,
           MarksGenerated, BindsTag, Ends, vars
  <2> QED BY <2>1 DEF AloneInv
<1> DEFINE Goal == (OneStart /\ OneService /\ Filling /\ Rendering)'
<1> USE DEF Types, ColumnsInv, StartupTypeOK, OneStart, OneService, Filling, Rendering, Unrendered, Quiet,
            Starting, InService, Present, tables, process
<1>1. ASSUME NEW r \in Requests, Opens(r) PROVE Goal /\ AllTell'
  <2>1. \A q \in Requests : ~Starting(q)
    BY <1>1 DEF Opens
  <2>2. pc' = [pc EXCEPT ![r] = "columns"] /\ service = None
    BY <1>1 DEF Opens, Goes
  <2>3. \A q \in Requests : Starting(q)' => q = r
    BY <2>1, <2>2
  <2>4. Goal
    BY <1>0, <1>1, <2>2, <2>3 DEF Opens
  <2> QED BY <1>0, <1>1, <2>4, TablesTell DEF Opens
<1>2. ASSUME NEW r \in Requests, ReadsColumns(r) PROVE Goal /\ AllTell'
  BY <1>0, <1>2, TablesTell DEF ReadsColumns, Goes
<1>3. ASSUME NEW r \in Requests, AddsColumn(r) PROVE Goal /\ AllTell'
  BY <1>0, <1>3, TablesTell DEF AddsColumn, Goes
<1>4. ASSUME NEW r \in Requests, HasColumns(r) PROVE Goal /\ AllTell'
  BY <1>0, <1>4, TablesTell DEF HasColumns, Goes
<1>5. ASSUME NEW r \in Requests, StartRaises(r) PROVE Goal /\ AllTell'
  BY <1>0, <1>5, TablesTell DEF StartRaises, Goes
<1>6. ASSUME NEW r \in Requests, Counts(r) PROVE Goal /\ AllTell'
  BY <1>0, <1>6, TablesTell DEF Counts, Have, Goes
<1>7. ASSUME NEW r \in Requests, ReadsRows(r) PROVE Goal /\ AllTell'
  BY <1>0, <1>7, TablesTell DEF ReadsRows, Goes
<1>8. ASSUME NEW r \in Requests, Publishes(r) PROVE Goal /\ AllTell'
  BY <1>0, <1>8, TablesTell DEF Publishes, Published, Goes
<1>9. ASSUME NEW r \in Requests, Finds(r) PROVE Goal /\ AllTell'
  BY <1>0, <1>9, TablesTell DEF Finds, Goes
<1>10. ASSUME NEW r \in Requests, Takes(r) PROVE Goal /\ AllTell'
  BY <1>0, <1>10, TablesTell DEF Takes, Goes
<1>11. ASSUME NEW r \in Requests, Answers(r) PROVE Goal /\ AllTell'
  BY <1>0, <1>11, TablesTell DEF Answers, Goes, NoChange
<1>12. ASSUME NEW r \in Requests, NEW c \in Codes, ReadsStatus(r, c) PROVE Goal /\ AllTell'
  BY <1>0, <1>12, TablesTell DEF ReadsStatus, Serves, Goes
<1>13. CASE Stops
  BY <1>0, <1>13, TablesTell DEF Stops, NoChange
<1>14. CASE UNCHANGED vars
  BY <1>0, <1>14, TablesTell DEF vars
<1>15. ASSUME NEW r \in Requests, Seeds(r) PROVE Goal /\ AllTell'
  <2>1. ASSUME NEW c \in Codes, history'[c] # <<>> PROVE Tells(c)'
    <3>1. history[c] = <<>> /\ status'[c] = status[c]
      BY <1>0, <1>15 DEF Seeds
    <3>2. c \in DOMAIN rows[r] /\ history'[c] = history[c] \o SeedOf(rows[r][c])
      BY <1>15, <2>1, <3>1 DEF Seeds, SeedsAll
    <3> DEFINE a == rows[r][c]
               h == SeedOf(a)
    <3>3. a \in [status : STATUSES, tagged : BOOLEAN] /\ a.status = status[c] /\ a.tagged = tagged[c]
      BY <1>0, <1>15, <3>2 DEF Seeds
    <3> HIDE DEF a
    <3>4. /\ \A i \in DOMAIN h : (h[i].from = Absent <=> i = 1) /\ h[i].by = "backfill"
          /\ h[Len(h)].to = a.status \/ <<a.status, h[Len(h)].to>> \in Mistold
          /\ h \in Seq(Rows) /\ h # <<>>
      BY <3>3, SeedTells, SeedBegins
    <3>5. history'[c] = h
      BY <3>1, <3>2, <3>4, ConcatEmptySeq DEF a
    <3>6. Tells(c)' <=>
            /\ \A i \in DOMAIN h : h[i].from = Absent <=> i = 1
            /\ \A i \in 2..Len(h) : Live(h[i - 1]) =>
                 Live(h[i]) /\ (h[i].from = h[i - 1].to \/ h[i].by = "render")
            /\ \A i, j \in DOMAIN h : h[i].by = "render" /\ h[j].by = "render" => i = j
            /\ h[Len(h)].to = status'[c] \/ (~Live(h[Len(h)]) /\ <<status'[c], h[Len(h)].to>> \in Mistold)
      BY <3>5 DEF Tells
    <3> HIDE DEF h
    <3>7. Len(h) \in DOMAIN h /\ \A i \in 2..Len(h) : i - 1 \in DOMAIN h
      BY <3>4, EmptySeq
    <3> QED BY <3>1, <3>3, <3>4, <3>6, <3>7 DEF Live
  <2>2. AllTell'
    BY <2>1 DEF AllTell
  <2>3. \A q \in Requests : pc'[q] \notin {"rows", "seed"}
    BY <1>0, <1>15 DEF Seeds, SeedsAll, Goes
  <2> QED BY <1>0, <1>15, <2>2, <2>3 DEF Seeds, SeedsAll, Goes
<1>16. ASSUME NEW r \in Requests, WritesStatus(r) PROVE Goal /\ AllTell'
  <2>1. PICK d \in Codes, from \in STATUSES : d = change[r].code /\ from = change[r].from
    BY <1>16 DEF WritesStatus
  <2>2. Present(d) /\ from = status[d] /\ service # None
    BY <1>0, <1>16, <2>1 DEF WritesStatus
  <2>3. PICK to \in STATUSES : Changes(d, from, to)
    BY <1>16, <2>1, StartupAssumption DEF WritesStatus
  <2>4. history[d] # <<>>
    BY <2>2 DEF HistoryInv, AllBegun, Begun
  <2>5. AllTell' /\ \A c \in Codes : Unrendered(c) => Unrendered(c)'
    BY <1>0, <2>2, <2>3, <2>4, ChangeTells
  <2> QED BY <1>0, <1>16, <2>2, <2>5, WriteAlone DEF WritesStatus
<1>17. ASSUME NEW r \in Requests, BindsTag(r) PROVE Goal /\ AllTell'
  <2>1. PICK d \in Codes, from \in STATUSES : d = change[r].code /\ from = change[r].from
    BY <1>17 DEF BindsTag
  <2>2. Present(d) /\ from = status[d] /\ service # None
    BY <1>0, <1>17, <2>1 DEF BindsTag
  <2>3. Changes(d, from, "registered") \/ UNCHANGED <<status, history>>
    BY <1>17, <2>1 DEF BindsTag
  <2>4. history[d] # <<>> /\ "registered" \in STATUSES
    BY <2>2 DEF HistoryInv, AllBegun, Begun, STATUSES
  <2>5. AllTell' /\ \A c \in Codes : Unrendered(c) => Unrendered(c)'
    BY <1>0, <2>2, <2>3, <2>4, ChangeTells, TablesTell
  <2> QED BY <1>0, <1>17, <2>2, <2>5, WriteAlone DEF BindsTag
<1>18. ASSUME NEW r \in Requests, NEW c \in Codes, AddsLock(r, c) PROVE Goal /\ AllTell'
  <2>1. history[c] = <<>>
    BY <1>0, <1>18, TellsOfPresent DEF AddsLock, AllTell
  <2> DEFINE row == Row(Absent, "reserved", "reserve")
  <2>2. row.from = Absent /\ row.to = "reserved" /\ row.by # "render"
    BY DEF Row
  <2>3. history'[c] = Append(history[c], row) /\ status'[c] = row.to
    BY <1>18, <2>2 DEF AddsLock
  <2> HIDE DEF row
  <2>4. history'[c] = <<row>>
    BY <2>1, <2>3
  <2>5. Tells(c)' /\ Unrendered(c)'
    BY <2>2, <2>3, <2>4, FirstTells
  <2>6. \A d \in Codes \ {c} : history'[d] = history[d] /\ status'[d] = status[d]
    BY <1>18 DEF AddsLock
  <2>7. AllTell'
    BY <1>0, <2>5, <2>6, TellsStays DEF AllTell
  <2>8. \A q \in Requests : pc[q] # "writing" /\ ~Starting(q)
    BY <1>0, <1>18 DEF AddsLock, Serves
  <2>9. /\ pc' = [pc EXCEPT ![r] = "rendering"]
        /\ change' = [change EXCEPT ![r] = [code |-> c, from |-> "reserved"]]
        /\ UNCHANGED <<using, service, locked>>
    BY <1>18 DEF AddsLock, Goes
  <2>10. (OneStart /\ OneService /\ Filling)'
    BY <1>0, <1>18, <2>8, <2>9 DEF Serves, AddsLock
  <2>11. \A q \in Requests \ {r} : pc'[q] = "rendering" => pc[q] = "rendering" /\ change'[q] = change[q] /\ change[q].code \in Codes \ {c}
    BY <1>18, <2>9 DEF AddsLock
  <2>12. change'[r].code = c
    BY <2>9
  <2>13. \A q \in Requests : pc'[q] = "rendering" => Unrendered(change[q].code)' \/ q = r
    BY <1>0, <2>6, <2>11
  <2>14. Rendering'
    <3>1. ASSUME NEW q \in Requests, pc'[q] = "rendering" PROVE Unrendered(change[q].code)'
      BY <2>5, <2>12, <2>13, <3>1
    <3>2. ASSUME NEW p \in Requests, NEW q \in Requests, pc'[p] = "rendering", pc'[q] = "rendering",
                 change'[p].code = change'[q].code
          PROVE  p = q
      BY <1>0, <2>11, <2>12, <3>2
    <3> QED BY <3>1, <3>2
  <2> QED BY <2>7, <2>10, <2>14
<1>19. ASSUME NEW r \in Requests, MarksGenerated(r) PROVE Goal /\ AllTell'
  <2>1. PICK d \in Codes : d = change[r].code /\ Present(d) /\ change[r].from = "reserved"
    BY <1>19 DEF MarksGenerated, Serves
  <2> DEFINE row == Row("reserved", "generated", "render")
  <2>2. /\ row \in Rows /\ Live(row) /\ row.by = "render" /\ row.to = "generated"
        /\ row.from # Absent
    BY DEF Row, Rows, STATUSES, Actors, Live, Absent
  <2>3. history' = [history EXCEPT ![d] = Append(@, row)] /\ status' = [status EXCEPT ![d] = "generated"]
    BY <1>19, <2>1 DEF MarksGenerated
  <2> HIDE DEF row
  <2>4. history[d] # <<>> /\ service # None
    BY <1>19, <2>1 DEF HistoryInv, AllBegun, Begun, MarksGenerated, Serves
  <2>5. Unrendered(d) /\ Tells(d)
    BY <1>0, <1>19, <2>1, <2>4 DEF MarksGenerated, Serves, AllTell
  <2>6. history'[d] = Append(history[d], row) /\ status'[d] = row.to
    BY <2>2, <2>3
  <2>7. Tells(d)'
    BY <2>2, <2>4, <2>5, <2>6, RowTells
  <2>8. \A c \in Codes \ {d} : history'[c] = history[c] /\ status'[c] = status[c]
    BY <2>3
  <2>9. AllTell'
    BY <1>0, <2>7, <2>8, TellsStays DEF AllTell
  <2>10. \A q \in Requests : pc[q] # "writing" /\ ~Starting(q)
    BY <1>0, <1>19, <2>4 DEF MarksGenerated, Serves
  <2>11. /\ pc' = [pc EXCEPT ![r] = "serving"] /\ pc[r] = "rendering"
         /\ change' = [change EXCEPT ![r] = NoChange]
         /\ UNCHANGED <<using, service, locked>>
    BY <1>19 DEF MarksGenerated, Serves, Goes
  <2>12. (OneStart /\ OneService /\ Filling)'
    BY <1>0, <2>10, <2>11
  <2>13. \A q \in Requests : pc'[q] = "rendering" =>
           pc[q] = "rendering" /\ change'[q] = change[q] /\ change[q].code \in Codes \ {d}
    BY <1>0, <2>1, <2>11
  <2>14. Rendering'
    BY <1>0, <2>8, <2>13
  <2> QED BY <2>9, <2>12, <2>14
<1> QED BY <1>1, <1>2, <1>3, <1>4, <1>5, <1>6, <1>7, <1>8, <1>9, <1>10, <1>11, <1>12, <1>13, <1>14, <1>15, <1>16, <1>17, <1>18, <1>19 DEF Next, StartStep, ServeStep

(***************************************************************************)
(* THEOREM HistoriesTell.  Unless two starts overlapped, every history     *)
(* begins once, its live rows follow from each other but for the           *)
(* renderer's one, and it ends in the lock's status or in what the         *)
(* backfill makes of the statuses it does not tell:                        *)
(* for any number of locks and requests, and however often the container   *)
(* stops or a start fails.                                                 *)
(***************************************************************************)
THEOREM HistoriesTell == Spec => []HistoryTells
<1>1. Init => AloneInv
  BY DEF Init, AloneInv, OneStart, OneService, Filling, Rendering, AllTell, Quiet, Starting, InService
<1>2. StartupInv /\ AloneInv /\ [Next]_vars => AloneInv'
  BY AloneStep DEF StartupInv
<1>3. AloneInv => HistoryTells
  BY DEF AloneInv, AllTell, HistoryTells
<1> QED BY <1>1, <1>2, <1>3, StartupAlways, PTL DEF Spec
==============================================================================
