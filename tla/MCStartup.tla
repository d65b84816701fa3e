------------------------------ MODULE MCStartup ------------------------------
(***************************************************************************)
(* The start for TLC: two locks, two requests at once.                     *)
(***************************************************************************)
EXTENDS Startup

Old(s, tag) == [status |-> s, tagged |-> tag]

\* The locks are alike, so it does not matter which of them is the first.
Table(a, b) ==
  LET first == CHOOSE c \in Codes : TRUE
  IN  [c \in Codes |-> IF c = first THEN a ELSE b]

\* No lock yet; one that the backfill does not tell; two of which it tells
\* none, and two of which it tells both.
MCOldTables ==
  {Table(Old(Absent, FALSE), Old(Absent, FALSE)),
   Table(Old(Absent, FALSE), Old("reserved", FALSE)),
   Table(Old("reserved", TRUE), Old("generated", TRUE)),
   Table(Old("generated", FALSE), Old("active", TRUE))}
==============================================================================
