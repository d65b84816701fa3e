----------------------------- MODULE PlateLayout -----------------------------
(***************************************************************************)
(* The grid in which the exports lay out several locks.  build_3mf,        *)
(* build_obj and _grid of the P1S project compute the same one in areas of *)
(* their own: a lock of width w and height h, gap between two of them,     *)
(* and room to the right of and behind the corner x, y.  All lengths are   *)
(* whole numbers of one small unit.                                        *)
(***************************************************************************)
EXTENDS Integers

Areas == [x: Int, y: Int, xRoom: Int, yRoom: Int,
          w: Nat \ {0}, h: Nat \ {0}, gap: Nat]

AtLeast1(n) == IF n >= 1 THEN n ELSE 1

\* The last lock of a row needs no gap beside it.
Columns(g) == AtLeast1((g.xRoom + g.gap) \div (g.w + g.gap))

RowsThatFit(g) == AtLeast1((g.yRoom + g.gap) \div (g.h + g.gap))

RowsNeeded(g, n) == (n + Columns(g) - 1) \div Columns(g)

\* Mutant: a row that is not full is not counted.
FitsFullRows(g, n) == n \div Columns(g) <= RowsThatFit(g)

Fits(g, n) == RowsNeeded(g, n) <= RowsThatFit(g)

\* Mutant: width and height are swapped.
SpotTurned(g, i) ==
  [x |-> g.x + (i % Columns(g)) * (g.h + g.gap),
   y |-> g.y + (i \div Columns(g)) * (g.w + g.gap)]

\* The corner of the i-th lock, counted from 0: row after row.
Spot(g, i) ==
  [x |-> g.x + (i % Columns(g)) * (g.w + g.gap),
   y |-> g.y + (i \div Columns(g)) * (g.h + g.gap)]

------------------------------------------------------------------------------
\* What the grid is for.

Apart(g, p, q) ==
  \/ p.x + g.w + g.gap <= q.x \/ q.x + g.w + g.gap <= p.x
  \/ p.y + g.h + g.gap <= q.y \/ q.y + g.h + g.gap <= p.y

Inside(g, p) ==
  /\ g.x <= p.x /\ p.x + g.w <= g.x + g.xRoom
  /\ g.y <= p.y /\ p.y + g.h <= g.y + g.yRoom

OneFits(g) == g.w <= g.xRoom /\ g.h <= g.yRoom
==============================================================================
