------------------------------- MODULE MCExport ------------------------------
(***************************************************************************)
(* The exports for TLC: numbers whose meshes differ, plates on which one,  *)
(* two or six locks fit, exactly or with room to spare, or none at all.    *)
(***************************************************************************)
EXTENDS Export

Codes == 1..14

\* Points of one cell, or of neighbouring ones.
A == <<0, 0, 0>>
B == <<60, 0, 1>>
C == <<60, 90, -1>>
D == <<1, 90, 3>>
A1 == <<1, -1, 0>>
C1 == <<59, 91, 0>>

MCBodyOf ==
  [c \in Codes |-> IF c % 2 = 0 THEN <<<<A, B, C>>, <<A1, C1, D>>>>
                                ELSE <<<<B, C, D>>, <<A, B, D>>, <<A, A1, C1>>>>]

MCNumberOf ==
  [c \in Codes |-> <<<<<<9, c, 0>>, <<3 * c, 9, 0>>, <<3 * c, 10, -1>>>>,
                     <<<<3 * c, 10, -1>>, <<30, 45, c>>, <<9, c, 0>>>>>>]

Sent(c) == [code |-> c, zeros |-> TRUE]
Short(c) == [code |-> c, zeros |-> FALSE]
NotACode == [code |-> 0, zeros |-> FALSE]

CodeLists ==
  {<<Sent(3)>>, <<Sent(2), Short(2), Sent(1)>>, <<Short(3), Sent(1), Sent(2), Sent(3), Short(1)>>,
   <<Sent(1), NotACode>>, [i \in 1..6 |-> Sent(4)]}

Batches == {{}, {5}, {2, 7}, {1, 2, 3, 9}, 1..6, 1..7, 1..12, 1..13}

\* Exact at the edges: one lock; two beside each other without a gap; two
\* with their gap.  Six with room left.  None.
Plates ==
  {<<90, 0, 10>>, <<130, 5, 0>>, <<127, 0, 7>>, <<205, 2, 3>>, <<50, 4, 6>>}

Of(by, fmt, p, list, batch) ==
  [by |-> by, fmt |-> fmt, plate |-> p[1], margin |-> p[2], gap |-> p[3], codes |-> list, batch |-> batch]

MCRequests ==
  {Of("codes", fmt, p, list, {}) : fmt \in {"3mf", "obj", "p1s"}, p \in Plates, list \in CodeLists}
    \cup {Of("batch", fmt, p, <<>>, batch) : fmt \in {"3mf", "obj", "p1s"}, p \in Plates, batch \in Batches}
==============================================================================
