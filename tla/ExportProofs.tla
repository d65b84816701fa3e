---------------------------- MODULE ExportProofs -----------------------------
(***************************************************************************)
(* Proofs about the exports, for every plate, margin, gap, size of lock,   *)
(* mesh and list of codes: locks never come to lie on each other,          *)
(* fits_on_plate means what it says, a finished file reads back as what    *)
(* was asked, and the documents of a P1S project agree.                    *)
(***************************************************************************)
EXTENDS Export, SequenceTheorems, FiniteSetTheorems, TLAPS

(***************************************************************************)
(* Arithmetic: quotient and remainder, and what multiplication preserves.  *)
(***************************************************************************)

\* A quotient is the number of whole parts, and the remainder is smaller
\* than a part.
LEMMA DivMod ==
  ASSUME NEW a \in Int, NEW b \in Nat \ {0}
  PROVE  /\ a \div b \in Int
         /\ (a % b) \in 0..(b - 1)
         /\ a = b * (a \div b) + (a % b)
OBVIOUS

\* A larger number of parts of the same size is not less.
LEMMA TimesMonotone ==
  ASSUME NEW a \in Int, NEW b \in Int, NEW c \in Nat, a <= b
  PROVE  a * c <= b * c
OBVIOUS

\* One part more is a whole part more.
LEMMA TimesOneMore ==
  ASSUME NEW a \in Int, NEW b \in Int, NEW c \in Nat, a < b
  PROVE  a * c + c <= b * c
<1>1. (a + 1) * c <= b * c
  BY TimesMonotone
<1>2. (a + 1) * c = a * c + c
  OBVIOUS
<1> QED BY <1>1, <1>2

\* q parts fit exactly if q is at most the quotient.
LEMMA PartsThatFit ==
  ASSUME NEW a \in Int, NEW b \in Nat \ {0}, NEW q \in Int
  PROVE  q * b <= a <=> q <= a \div b
<1> DEFINE d == a \div b
<1>1. d \in Int /\ d * b <= a /\ a < d * b + b
  BY DivMod
<1> HIDE DEF d
<1>2. CASE q <= d
  <2>1. q * b <= d * b
    BY <1>1, <1>2, TimesMonotone
  <2>2. d * b \in Int /\ q * b \in Int
    BY <1>1
  <2> QED BY <1>1, <1>2, <2>1, <2>2 DEF d
<1>3. CASE d < q
  <2>1. d * b + b <= q * b
    BY <1>1, <1>3, TimesOneMore
  <2>2. d * b \in Int /\ q * b \in Int
    BY <1>1
  <2> QED BY <1>1, <1>3, <2>1, <2>2 DEF d
<1> QED BY <1>1, <1>2, <1>3

(***************************************************************************)
(* The grid.                                                               *)
(***************************************************************************)

\* There is always a column and a row.
LEMMA ColumnsType ==
  ASSUME NEW g \in Areas
  PROVE  Columns(g) \in Nat \ {0} /\ RowsThatFit(g) \in Nat \ {0}
<1>1. g.xRoom + g.gap \in Int /\ g.yRoom + g.gap \in Int
      /\ g.w + g.gap \in Nat \ {0} /\ g.h + g.gap \in Nat \ {0}
  BY DEF Areas
<1>2. (g.xRoom + g.gap) \div (g.w + g.gap) \in Int /\ (g.yRoom + g.gap) \div (g.h + g.gap) \in Int
  BY <1>1, DivMod
<1> QED BY <1>2 DEF Columns, RowsThatFit, AtLeast1

\* The row and the column of a place, and how they make up its number.
LEMMA RowColumn ==
  ASSUME NEW c \in Nat \ {0}, NEW i \in Nat
  PROVE  /\ i \div c \in Nat
         /\ (i % c) \in 0..(c - 1)
         /\ i = c * (i \div c) + (i % c)
<1>1. i \div c \in Int /\ (i % c) \in 0..(c - 1) /\ i = c * (i \div c) + (i % c)
  BY DivMod
<1>2. 0 * c <= i <=> 0 <= i \div c
  BY PartsThatFit
<1> QED BY <1>1, <1>2

\* A place is a pair of whole numbers.
LEMMA SpotType ==
  ASSUME NEW g \in Areas, NEW i \in Nat
  PROVE  Spot(g, i) \in [x : Int, y : Int]
<1> DEFINE c == Columns(g)
           row == i \div c
           col == i % c
<1>1. c \in Nat \ {0}
  BY ColumnsType
<1>2. Spot(g, i) = [x |-> g.x + col * (g.w + g.gap), y |-> g.y + row * (g.h + g.gap)]
  BY DEF Spot
<1> HIDE DEF c
<1>3. row \in Int /\ col \in Int
  BY <1>1, RowColumn
<1> HIDE DEF row, col
<1>4. g.w + g.gap \in Int /\ g.h + g.gap \in Int /\ g.x \in Int /\ g.y \in Int
  BY DEF Areas
<1>5. col * (g.w + g.gap) \in Int /\ row * (g.h + g.gap) \in Int
  BY <1>3, <1>4
<1> QED BY <1>2, <1>4, <1>5

\* Two places are a lock and a gap apart: in depth if their rows differ, in
\* width otherwise.
LEMMA SpotsApart ==
  ASSUME NEW g \in Areas, NEW i \in Nat, NEW j \in Nat, i # j
  PROVE  Apart(g, Spot(g, i), Spot(g, j))
<1> DEFINE c == Columns(g)
           wide == g.w + g.gap
           deep == g.h + g.gap
           ri == i \div c
           rj == j \div c
           ci == i % c
           cj == j % c
<1>1. c \in Nat \ {0}
  BY ColumnsType
<1>2. wide \in Nat /\ deep \in Nat
  BY DEF Areas
<1>3. /\ Spot(g, i) = [x |-> g.x + ci * wide, y |-> g.y + ri * deep]
      /\ Spot(g, j) = [x |-> g.x + cj * wide, y |-> g.y + rj * deep]
  BY DEF Spot
<1> HIDE DEF c
<1>4. ri \in Nat /\ ci \in Nat /\ i = c * ri + ci
  BY <1>1, RowColumn
<1>5. rj \in Nat /\ cj \in Nat /\ j = c * rj + cj
  BY <1>1, RowColumn
<1>6. g.x \in Int /\ g.y \in Int /\ g.w \in Int /\ g.h \in Int /\ g.gap \in Int
  BY DEF Areas
<1>7. wide = g.w + g.gap /\ deep = g.h + g.gap
  OBVIOUS
<1> HIDE DEF wide, deep, ri, rj, ci, cj
<1>8. ri * deep \in Int /\ rj * deep \in Int /\ ci * wide \in Int /\ cj * wide \in Int
  BY <1>2, <1>4, <1>5
<1>9. CASE ri < rj
  <2>1. ri * deep + deep <= rj * deep
    BY <1>2, <1>4, <1>5, <1>9, TimesOneMore
  <2> QED BY <1>3, <1>6, <1>7, <1>8, <2>1 DEF Apart
<1>10. CASE rj < ri
  <2>1. rj * deep + deep <= ri * deep
    BY <1>2, <1>4, <1>5, <1>10, TimesOneMore
  <2> QED BY <1>3, <1>6, <1>7, <1>8, <2>1 DEF Apart
<1>11. CASE ri = rj
  <2>1. c * ri \in Int
    BY <1>1, <1>4
  <2>2. ci # cj
    BY <1>4, <1>5, <1>11, <2>1
  <2>3. CASE ci < cj
    <3>1. ci * wide + wide <= cj * wide
      BY <1>2, <1>4, <1>5, <2>3, TimesOneMore
    <3> QED BY <1>3, <1>6, <1>7, <1>8, <3>1 DEF Apart
  <2>4. CASE cj < ci
    <3>1. cj * wide + wide <= ci * wide
      BY <1>2, <1>4, <1>5, <2>4, TimesOneMore
    <3> QED BY <1>3, <1>6, <1>7, <1>8, <3>1 DEF Apart
  <2> QED BY <1>4, <1>5, <2>2, <2>3, <2>4
<1> QED BY <1>4, <1>5, <1>9, <1>10, <1>11

\* If one lock fits, then the locks inside are those of the rows that fit.
LEMMA InsideIffRowFits ==
  ASSUME NEW g \in Areas, OneFits(g), NEW i \in Nat
  PROVE  Inside(g, Spot(g, i)) <=> i \div Columns(g) < RowsThatFit(g)
<1> DEFINE wide == g.w + g.gap
           deep == g.h + g.gap
           cols == Columns(g)
           fit == RowsThatFit(g)
           row == i \div cols
           col == i % cols
           xSpan == g.xRoom + g.gap
           ySpan == g.yRoom + g.gap
<1>1. /\ g.x \in Int /\ g.y \in Int /\ g.w \in Nat \ {0} /\ g.h \in Nat \ {0} /\ g.gap \in Nat
      /\ g.xRoom \in Int /\ g.yRoom \in Int /\ g.w <= g.xRoom /\ g.h <= g.yRoom
  BY DEF Areas, OneFits
<1>2. cols \in Nat \ {0} /\ fit \in Nat \ {0}
  BY ColumnsType
<1>3. wide \in Nat \ {0} /\ deep \in Nat \ {0} /\ xSpan \in Int /\ ySpan \in Int
  BY <1>1
<1>4. cols = xSpan \div wide
  <2>1. 1 * wide <= xSpan <=> 1 <= xSpan \div wide
    BY <1>1, <1>3, PartsThatFit
  <2>2. 1 * wide <= xSpan
    BY <1>1
  <2> QED BY <2>1, <2>2 DEF Columns, AtLeast1
<1>5. fit = ySpan \div deep
  <2>1. 1 * deep <= ySpan <=> 1 <= ySpan \div deep
    BY <1>1, <1>3, PartsThatFit
  <2>2. 1 * deep <= ySpan
    BY <1>1
  <2> QED BY <2>1, <2>2 DEF RowsThatFit, AtLeast1
<1>6. Spot(g, i) = [x |-> g.x + col * wide, y |-> g.y + row * deep]
  BY DEF Spot
<1>7. wide = g.w + g.gap /\ deep = g.h + g.gap /\ xSpan = g.xRoom + g.gap /\ ySpan = g.yRoom + g.gap
  OBVIOUS
<1>8. row = i \div Columns(g) /\ fit = RowsThatFit(g)
  OBVIOUS
<1> HIDE DEF cols, fit
<1>9. row \in Nat /\ col \in 0..(cols - 1)
  BY <1>2, RowColumn
<1> HIDE DEF wide, deep, row, col, xSpan, ySpan
<1>10. 0 <= col * wide /\ 0 <= row * deep /\ col * wide \in Int /\ row * deep \in Int
  BY <1>2, <1>3, <1>9
<1>11. col * wide + wide <= xSpan
  <2>1. (col + 1) * wide <= xSpan
    <3>1. col + 1 \in Int /\ col + 1 <= cols
      BY <1>2, <1>9
    <3>2. (col + 1) * wide <= xSpan <=> col + 1 <= xSpan \div wide
      BY <1>3, <3>1, PartsThatFit
    <3> QED BY <1>4, <3>1, <3>2
  <2>2. (col + 1) * wide = col * wide + wide
    BY <1>2, <1>3, <1>9
  <2> QED BY <2>1, <2>2
<1>12. row * deep + deep <= ySpan <=> row + 1 <= fit
  <2>1. (row + 1) * deep <= ySpan <=> row + 1 <= fit
    <3>1. row + 1 \in Int
      BY <1>9
    <3>2. (row + 1) * deep <= ySpan <=> row + 1 <= ySpan \div deep
      BY <1>3, <3>1, PartsThatFit
    <3> QED BY <1>5, <3>2
  <2>2. (row + 1) * deep = row * deep + deep
    BY <1>2, <1>3, <1>9
  <2> QED BY <2>1, <2>2
<1>13. Inside(g, Spot(g, i)) <=> row * deep + deep <= ySpan
  BY <1>1, <1>3, <1>6, <1>7, <1>10, <1>11 DEF Inside
<1> QED BY <1>2, <1>8, <1>9, <1>12, <1>13

\* As many fit as the rows that fit have places.
LEMMA FitsIffFew ==
  ASSUME NEW g \in Areas, NEW n \in Nat
  PROVE  Fits(g, n) <=> n <= RowsThatFit(g) * Columns(g)
<1> DEFINE c == Columns(g)
           r == RowsThatFit(g)
<1>1. c \in Nat \ {0} /\ r \in Nat \ {0}
  BY ColumnsType
<1>2. Fits(g, n) <=> (n + c - 1) \div c <= r
  BY DEF Fits, RowsNeeded
<1>3. Columns(g) = c /\ RowsThatFit(g) = r
  OBVIOUS
<1> HIDE DEF c, r
<1>4. (r + 1) * c <= n + c - 1 <=> r + 1 <= (n + c - 1) \div c
  BY <1>1, PartsThatFit
<1>5. (r + 1) * c = r * c + c /\ r * c \in Int
  BY <1>1
<1>6. (n + c - 1) \div c \in Int
  BY <1>1, DivMod
<1> QED BY <1>1, <1>2, <1>3, <1>4, <1>5, <1>6

(***************************************************************************)
(* THEOREM FitsOnPlate.  If one lock fits, fits_on_plate is true of n      *)
(* locks exactly if each of them lies within the area.                     *)
(***************************************************************************)
THEOREM FitsOnPlate ==
  ASSUME NEW g \in Areas, OneFits(g), NEW n \in Nat
  PROVE  Fits(g, n) <=> \A i \in 0..(n - 1) : Inside(g, Spot(g, i))
<1> DEFINE c == Columns(g)
           r == RowsThatFit(g)
<1>1. c \in Nat \ {0} /\ r \in Nat \ {0}
  BY ColumnsType
<1>2. r * c \in Nat
  BY <1>1
<1>3. Fits(g, n) <=> n <= r * c
  BY FitsIffFew
<1>4. ASSUME NEW i \in Nat PROVE Inside(g, Spot(g, i)) <=> i < r * c
  <2>1. r * c <= i <=> r <= i \div c
    BY <1>1, PartsThatFit
  <2>2. i \div c \in Int
    BY <1>1, DivMod
  <2>3. Inside(g, Spot(g, i)) <=> i \div c < r
    BY InsideIffRowFits
  <2> QED BY <1>1, <1>2, <2>1, <2>2, <2>3
<1> HIDE DEF c, r
<1>5. ASSUME n <= r * c, NEW i \in 0..(n - 1) PROVE Inside(g, Spot(g, i))
  BY <1>2, <1>4, <1>5
<1>6. ASSUME \A i \in 0..(n - 1) : Inside(g, Spot(g, i)) PROVE n <= r * c
  <2>1. CASE n = 0
    BY <1>2, <2>1
  <2>2. CASE n > 0
    <3>1. n - 1 \in Nat /\ n - 1 \in 0..(n - 1)
      BY <2>2
    <3>2. n - 1 < r * c
      BY <1>4, <1>6, <3>1
    <3> QED BY <1>2, <3>2
  <2> QED BY <2>1, <2>2
<1> QED BY <1>3, <1>5, <1>6

(***************************************************************************)
(* The export.  What its loop has done is a function of k.                 *)
(***************************************************************************)
LayoutInv ==
  /\ pc = "render" => req \in Requests
  /\ pc \in {"idle", "render"} => spots = <<>>
  /\ grid \in Areas
  /\ pc = "build" => k = Len(spots)
  /\ spots \in Seq([x : Int, y : Int])
  /\ \A i \in 1..Len(spots) : spots[i] = Spot(grid, i - 1)
  /\ reply.http = 200 => pc = "answered" /\ reply.fits = Fits(grid, Len(spots))

\* A lock that is added is put to the next place.
LEMMA AddsSpot ==
  ASSUME LayoutInv, pc = "build", spots' = Append(spots, Spot(grid, k)), k' = k + 1,
         UNCHANGED <<pc, req, grid, reply>>
  PROVE  LayoutInv'
<1>1. k = Len(spots) /\ k \in Nat
  BY DEF LayoutInv
<1>2. Spot(grid, k) \in [x : Int, y : Int]
  BY <1>1, SpotType DEF LayoutInv
<1> DEFINE new == Spot(grid, k)
<1>3. spots' = Append(spots, new) /\ new \in [x : Int, y : Int]
  BY <1>2
<1> HIDE DEF new
<1>4. /\ spots' \in Seq([x : Int, y : Int])
      /\ Len(spots') = Len(spots) + 1
      /\ \A i \in 1..Len(spots) : spots'[i] = spots[i]
      /\ spots'[Len(spots) + 1] = new
  BY <1>3 DEF LayoutInv
<1>5. ASSUME NEW i \in 1..Len(spots') PROVE spots'[i] = Spot(grid, i - 1)
  <2>1. CASE i \in 1..Len(spots)
    BY <1>4, <2>1 DEF LayoutInv
  <2>2. CASE i = Len(spots) + 1
    BY <1>1, <1>4, <2>2 DEF new
  <2> QED BY <1>1, <1>4, <1>5, <2>1, <2>2
<1> QED BY <1>1, <1>4, <1>5 DEF LayoutInv

\* Both areas are areas.
LEMMA AreasType ==
  ASSUME NEW r \in Requests
  PROVE  P1SArea \in Areas /\ PlateArea(r) \in Areas
BY ExportAssumption, RequestsAssumption DEF P1SArea, PlateArea, Areas

\* Every step of an export keeps its layout.
LEMMA LayoutStep == LayoutInv /\ [Next]_vars => LayoutInv'
<1> SUFFICES ASSUME LayoutInv, [Next]_vars PROVE LayoutInv'
  OBVIOUS
<1>1. CASE Receives
  BY <1>1 DEF Receives, LayoutInv
<1>2. CASE Refuses
  BY <1>2 DEF Refuses, Answers, LayoutInv
<1>3. CASE Clears
  <2>1. NoGrid \in Areas
    BY DEF NoGrid, Areas
  <2> QED BY <1>3, <2>1 DEF Clears, LayoutInv, NoReply
<1>4. CASE Renders
  BY <1>4 DEF Renders, LayoutInv
<1>5. CASE RenderFails
  BY <1>5 DEF RenderFails, Fails, Answers, LayoutInv
<1>6. CASE StartsBuild
  <2>1. grid' \in Areas
    BY <1>6, AreasType DEF StartsBuild, LayoutInv
  <2>2. spots' = <<>> /\ pc' = "build" /\ k' = 0 /\ pc = "render" /\ UNCHANGED reply
    BY <1>6 DEF StartsBuild, LayoutInv
  <2> QED BY <2>1, <2>2 DEF LayoutInv
<1>7. CASE BuildFails
  BY <1>7 DEF BuildFails, Fails, Answers, LayoutInv
<1>8. CASE AddsObject
  BY <1>8, AddsSpot DEF AddsObject
<1>9. CASE AddsLines
  BY <1>9, AddsSpot DEF AddsLines
<1>10. CASE Writes
  BY <1>10 DEF Writes, Answers, LayoutInv
<1>11. CASE UNCHANGED vars
  BY <1>11 DEF vars, LayoutInv
<1> QED BY <1>1, <1>2, <1>3, <1>4, <1>5, <1>6, <1>7, <1>8, <1>9, <1>10, <1>11 DEF Next

LEMMA LayoutAlways == Spec => []LayoutInv
<1>1. Init => LayoutInv
  BY DEF Init, LayoutInv, NoGrid, Areas, NoReply
<1> QED BY <1>1, LayoutStep, PTL DEF Spec

(***************************************************************************)
(* THEOREM LocksStayApart.  In every export, of however many locks of      *)
(* whatever size to whatever plate, any two are at least the gap apart.    *)
(***************************************************************************)
THEOREM LocksStayApart == Spec => []LocksApart
<1>1. LayoutInv => LocksApart
  <2> SUFFICES ASSUME LayoutInv, NEW i \in DOMAIN spots, NEW j \in DOMAIN spots, i # j
               PROVE  Apart(grid, spots[i], spots[j])
    BY DEF LocksApart
  <2>1. i \in 1..Len(spots) /\ j \in 1..Len(spots) /\ Len(spots) \in Nat
    BY DEF LayoutInv
  <2>2. i - 1 \in Nat /\ j - 1 \in Nat /\ i - 1 # j - 1
    BY <2>1
  <2>3. Apart(grid, Spot(grid, i - 1), Spot(grid, j - 1))
    BY <2>2, SpotsApart DEF LayoutInv
  <2> QED BY <2>1, <2>3 DEF LayoutInv
<1> QED BY <1>1, LayoutAlways, PTL

(***************************************************************************)
(* THEOREM FitsTellsTheTruth.  Every successful export of locks of which   *)
(* one fits tells fits_on_plate exactly if all of them lie on the plate.   *)
(***************************************************************************)
THEOREM FitsTellsTheTruth == Spec => []FitsMeansOnPlate
<1>1. LayoutInv => FitsMeansOnPlate
  <2> SUFFICES ASSUME LayoutInv, reply.http = 200, OneFits(grid)
               PROVE  reply.fits <=> \A i \in DOMAIN spots : Inside(grid, spots[i])
    BY DEF FitsMeansOnPlate
  <2> DEFINE n == Len(spots)
  <2>1. n \in Nat /\ DOMAIN spots = 1..n /\ reply.fits = Fits(grid, n)
    BY DEF LayoutInv
  <2>2. \A i \in 1..n : spots[i] = Spot(grid, i - 1)
    BY DEF LayoutInv
  <2>3. Fits(grid, n) <=> \A i \in 0..(n - 1) : Inside(grid, Spot(grid, i))
    BY <2>1, FitsOnPlate DEF LayoutInv
  <2> HIDE DEF n
  <2>4. (\A i \in 0..(n - 1) : Inside(grid, Spot(grid, i)))
          <=> \A i \in 1..n : Inside(grid, Spot(grid, i - 1))
    <3>1. \A i \in 1..n : i - 1 \in 0..(n - 1)
      BY <2>1
    <3>2. \A i \in 0..(n - 1) : i + 1 \in 1..n /\ (i + 1) - 1 = i
      BY <2>1
    <3> QED BY <3>1, <3>2
  <2>5. (\A i \in 1..n : Inside(grid, Spot(grid, i - 1)))
          <=> \A i \in DOMAIN spots : Inside(grid, spots[i])
    <3>1. ASSUME NEW i \in 1..n PROVE Inside(grid, Spot(grid, i - 1)) <=> Inside(grid, spots[i])
      <4>1. spots[i] = Spot(grid, i - 1)
        BY <2>2
      <4> QED BY <4>1
    <3>2. (\A i \in 1..n : Inside(grid, Spot(grid, i - 1))) <=> \A i \in 1..n : Inside(grid, spots[i])
      BY <3>1
    <3> QED BY <2>1, <3>2
  <2>6. reply.fits <=> Fits(grid, n)
    BY <2>1
  <2> QED BY <2>3, <2>4, <2>5, <2>6, Zenon
<1> QED BY <1>1, LayoutAlways, PTL

(***************************************************************************)
(* A set of numbers in ascending order, and where things are first         *)
(* mentioned.                                                              *)
(***************************************************************************)

\* A sequence, its domain and its elements.
LEMMA SeqParts ==
  ASSUME NEW S, NEW s \in Seq(S)
  PROVE  Len(s) \in Nat /\ DOMAIN s = 1..Len(s) /\ \A i \in DOMAIN s : s[i] \in S
OBVIOUS

\* Every element has a rank of its own, and every rank is taken.
LEMMA SortedRanks ==
  ASSUME NEW S \in SUBSET Int, IsFiniteSet(S)
  PROVE  /\ Cardinality(S) \in Nat
         /\ \A i \in 1..Cardinality(S) :
              Sorted(S)[i] \in S /\ Cardinality({d \in S : d < Sorted(S)[i]}) = i - 1
         /\ \A c, d \in S : c < d => Cardinality({e \in S : e < c}) < Cardinality({e \in S : e < d})
         /\ \A c \in S : Cardinality({e \in S : e < c}) \in 0..(Cardinality(S) - 1)
<1> DEFINE Below(c) == {e \in S : e < c}
           n == Cardinality(S)
           rank == [c \in S |-> Cardinality(Below(c))]
<1>1. n \in Nat
  BY FS_CardinalityType
<1>2. ASSUME NEW c \in S
      PROVE  IsFiniteSet(Below(c)) /\ Cardinality(Below(c)) \in 0..(n - 1)
  <2>1. Below(c) \in SUBSET S /\ c \notin Below(c)
    OBVIOUS
  <2>2. IsFiniteSet(Below(c)) /\ Cardinality(Below(c)) <= n /\ Cardinality(Below(c)) # n
    BY <2>1, FS_Subset
  <2>3. Cardinality(Below(c)) \in Nat
    BY <2>2, FS_CardinalityType
  <2> QED BY <1>1, <2>2, <2>3
<1>3. ASSUME NEW c \in S, NEW d \in S, c < d
      PROVE  Cardinality(Below(c)) < Cardinality(Below(d))
  <2>1. Below(c) \in SUBSET Below(d) /\ c \in Below(d) /\ c \notin Below(c)
    <3>1. c \in Int /\ d \in Int /\ \A e \in S : e \in Int
      OBVIOUS
    <3>2. ~(c < c) /\ \A e \in S : e < c => e < d
      BY <1>3, <3>1
    <3> QED BY <1>3, <3>2
  <2>2. Cardinality(Below(c)) <= Cardinality(Below(d)) /\ Cardinality(Below(d)) # Cardinality(Below(c))
    BY <1>2, <2>1, FS_Subset
  <2> QED BY <1>2, <2>2
<1>4. rank \in Injection(S, 0..(n - 1))
  <2>1. rank \in [S -> 0..(n - 1)]
    BY <1>2
  <2>2. ASSUME NEW c \in S, NEW d \in S, rank[c] = rank[d] PROVE c = d
    <3>1. Cardinality(Below(c)) = Cardinality(Below(d)) /\ Cardinality(Below(c)) \in Int
      BY <1>2, <2>2
    <3>2. ~(c < d) /\ ~(d < c)
      BY <1>3, <3>1
    <3>3. c \in Int /\ d \in Int
      OBVIOUS
    <3> QED BY <3>2, <3>3
  <2> QED BY <2>1, <2>2 DEF Injection, IsInjective
<1>5. IsFiniteSet(0..(n - 1)) /\ Cardinality(0..(n - 1)) = n
  BY <1>1, FS_Interval
<1>6. rank \in Surjection(S, 0..(n - 1))
  BY <1>4, <1>5, FS_Injection
<1>7. ASSUME NEW i \in 1..n PROVE \E c \in S : Cardinality(Below(c)) = i - 1
  <2>1. i - 1 \in 0..(n - 1)
    BY <1>1
  <2> QED BY <1>6, <2>1 DEF Surjection
<1>8. ASSUME NEW i \in 1..n
      PROVE  Sorted(S)[i] \in S /\ Cardinality(Below(Sorted(S)[i])) = i - 1
  <2>1. Sorted(S)[i] = CHOOSE c \in S : Cardinality(Below(c)) = i - 1
    BY DEF Sorted
  <2> QED BY <1>7, <2>1
<1> QED BY <1>1, <1>2, <1>3, <1>8

\* The sequence ascends, and has all elements.
LEMMA SortedAscends ==
  ASSUME NEW S \in SUBSET Int, IsFiniteSet(S)
  PROVE  /\ Sorted(S) \in Seq(S)
         /\ \A i, j \in DOMAIN Sorted(S) : i < j => Sorted(S)[i] < Sorted(S)[j]
         /\ \A c \in S : \E i \in DOMAIN Sorted(S) : Sorted(S)[i] = c
<1> DEFINE n == Cardinality(S)
           s == Sorted(S)
           Rank(c) == Cardinality({e \in S : e < c})
<1>1. /\ n \in Nat
      /\ \A i \in 1..n : s[i] \in S /\ Rank(s[i]) = i - 1
      /\ \A c, d \in S : c < d => Rank(c) < Rank(d)
      /\ \A c \in S : Rank(c) \in 0..(n - 1)
  BY SortedRanks
<1>2. DOMAIN s = 1..n /\ s = [i \in 1..n |-> s[i]]
  BY DEF Sorted
<1> HIDE DEF n, s, Rank
<1>3. s \in Seq(S)
  <2>1. s \in [1..n -> S]
    BY <1>1, <1>2
  <2> QED BY <1>1, <2>1
<1>4. ASSUME NEW i \in 1..n, NEW j \in 1..n, i < j PROVE s[i] < s[j]
  <2>1. s[i] \in Int /\ s[j] \in Int /\ Rank(s[i]) = i - 1 /\ Rank(s[j]) = j - 1
    BY <1>1
  <2>2. s[i] # s[j]
    BY <1>1, <1>4, <2>1
  <2>3. ~(s[j] < s[i])
    <3>1. s[j] < s[i] => Rank(s[j]) < Rank(s[i])
      BY <1>1
    <3> QED BY <1>1, <1>4, <2>1, <3>1
  <2> QED BY <2>1, <2>2, <2>3
<1>5. ASSUME NEW c \in S PROVE \E i \in 1..n : s[i] = c
  <2> DEFINE i == Rank(c) + 1
  <2>1. i \in 1..n /\ i - 1 = Rank(c)
    BY <1>1
  <2> HIDE DEF i
  <2>2. PICK d \in S : d = s[i] /\ Rank(d) = Rank(c)
    BY <1>1, <2>1
  <2>3. ~(c < d) /\ ~(d < c)
    <3>1. Rank(c) \in Int /\ Rank(d) = Rank(c)
      BY <1>1, <2>2
    <3>2. (c < d => Rank(c) < Rank(d)) /\ (d < c => Rank(d) < Rank(c))
      BY <1>1
    <3> QED BY <3>1, <3>2
  <2>4. c = d
    BY <2>3
  <2> QED BY <2>1, <2>2, <2>4
<1> QED BY <1>2, <1>3, <1>4, <1>5 DEF s

\* A set of numbers that has an element has a least one.
LEMMA Least ==
  ASSUME NEW S \in SUBSET Int, IsFiniteSet(S), S # {}
  PROVE  \E c \in S : \A d \in S : c <= d
<1> DEFINE s == Sorted(S)
<1>1. /\ s \in Seq(S)
      /\ \A i, j \in DOMAIN s : i < j => s[i] < s[j]
      /\ \A c \in S : \E i \in DOMAIN s : s[i] = c
  BY SortedAscends
<1> HIDE DEF s
<1>2. PICK c \in S : TRUE
  OBVIOUS
<1>3. PICK m \in DOMAIN s : s[m] = c
  BY <1>1
<1>4. DOMAIN s = 1..Len(s) /\ Len(s) \in Nat /\ \A i \in DOMAIN s : s[i] \in S
  BY <1>1
<1>5. 1 \in DOMAIN s
  BY <1>3, <1>4
<1>6. ASSUME NEW d \in S PROVE s[1] <= d
  <2>1. PICK i \in DOMAIN s : s[i] = d
    BY <1>1
  <2>2. i = 1 \/ 1 < i
    BY <1>4, <2>1
  <2>3. s[1] \in Int /\ d \in Int
    BY <1>4, <1>5
  <2>4. 1 < i => s[1] < s[i]
    BY <1>1, <1>5, <2>1
  <2> QED BY <2>1, <2>2, <2>3, <2>4
<1> QED BY <1>4, <1>5, <1>6

\* The places of first mention ascend, are those of first mention, and all
\* that is mentioned is mentioned there.
AreFirst(at, keys, n) ==
  /\ DOMAIN at = 1..Len(at) /\ Len(at) \in Nat
  /\ \A i \in DOMAIN at : at[i] \in 1..n
  /\ \A i, j \in DOMAIN at : i < j => at[i] < at[j]
  /\ \A i \in DOMAIN at : \A m \in 1..(at[i] - 1) : keys[m] # keys[at[i]]
  /\ \A m \in 1..n : \E i \in DOMAIN at : keys[at[i]] = keys[m]

LEMMA FirstMentions ==
  ASSUME NEW n \in Nat, NEW keys, DOMAIN keys = 1..n
  PROVE  AreFirst(FirstPlaces(keys), keys, n)
<1> DEFINE at == FirstPlaces(keys)
<1> DEFINE S == {i \in 1..n : \A j \in 1..(i - 1) : keys[j] # keys[i]}
<1>1. at = Sorted(S)
  BY DEF FirstPlaces
<1>2. S \in SUBSET (1..n) /\ S \in SUBSET Int /\ IsFiniteSet(S)
  BY FS_Interval, FS_Subset
<1>3. \A m \in S : \A j \in 1..(m - 1) : keys[j] # keys[m]
  OBVIOUS
<1>4. ASSUME NEW m \in 1..n PROVE \E c \in S : keys[c] = keys[m]
  <2> DEFINE T == {j \in 1..n : keys[j] = keys[m]}
  <2>1. T \in SUBSET (1..n) /\ T \in SUBSET Int /\ m \in T
    OBVIOUS
  <2>2. IsFiniteSet(T)
    BY <2>1, FS_Interval, FS_Subset
  <2>3. PICK c \in T : \A d \in T : c <= d
    BY <2>1, <2>2, Least
  <2>4. ASSUME NEW j \in 1..(c - 1) PROVE keys[j] # keys[c]
    <3>1. j \in 1..n /\ ~(c <= j)
      BY <2>3
    <3>2. j \notin T
      BY <2>3, <3>1
    <3> QED BY <2>3, <3>1, <3>2
  <2> QED BY <2>3, <2>4
<1> HIDE DEF S, at
<1>5. /\ at \in Seq(S)
      /\ \A i, j \in DOMAIN at : i < j => at[i] < at[j]
      /\ \A c \in S : \E i \in DOMAIN at : at[i] = c
  BY <1>1, <1>2, SortedAscends
<1>6. DOMAIN at = 1..Len(at) /\ Len(at) \in Nat /\ \A i \in DOMAIN at : at[i] \in S
  BY <1>5, SeqParts
<1>7. \A i \in DOMAIN at : \A m \in 1..(at[i] - 1) : keys[m] # keys[at[i]]
  BY <1>3, <1>6
<1>8. \A m \in 1..n : \E i \in DOMAIN at : keys[at[i]] = keys[m]
  BY <1>4, <1>5
<1>9. AreFirst(at, keys, n)
  BY <1>2, <1>5, <1>6, <1>7, <1>8 DEF AreFirst
<1> QED BY <1>9 DEF at

\* The codes cs are what is asked for, each once and in order.
AsAsked(r, cs) ==
  /\ cs \in Seq(Nat \ {0})
  /\ {cs[i] : i \in DOMAIN cs} = AskedFor(r)
  /\ \A i, j \in DOMAIN cs : i < j => cs[i] # cs[j] /\ Before(r, cs[i], cs[j])

\* code_list holds what is asked for.
LEMMA CodesAsAsked ==
  ASSUME NEW r \in Requests, r.by = "codes" => ~NotCodes(r)
  PROVE  AsAsked(r, CodeList(r))
<1>1. CASE r.by = "batch"
  <2> DEFINE S == r.batch
             cs == Sorted(S)
  <2>1. S \in SUBSET (Nat \ {0}) /\ S \in SUBSET Int /\ IsFiniteSet(S)
    BY RequestsAssumption
  <2>2. CodeList(r) = cs /\ AskedFor(r) = S
    BY <1>1 DEF CodeList, AskedFor
  <2>3. \A c, d : Before(r, c, d) <=> c < d
    BY <1>1 DEF Before
  <2> HIDE DEF S
  <2>4. /\ cs \in Seq(S)
        /\ \A i, j \in DOMAIN cs : i < j => cs[i] < cs[j]
        /\ \A c \in S : \E i \in DOMAIN cs : cs[i] = c
    BY <2>1, SortedAscends
  <2> HIDE DEF cs
  <2>5. \A i \in DOMAIN cs : cs[i] \in S
    BY <2>4
  <2>6. cs \in Seq(Nat \ {0})
    BY <2>1, <2>4, SeqMonotonic
  <2>7. {cs[i] : i \in DOMAIN cs} = S
    BY <2>4, <2>5
  <2>8. ASSUME NEW i \in DOMAIN cs, NEW j \in DOMAIN cs, i < j
        PROVE  cs[i] # cs[j] /\ Before(r, cs[i], cs[j])
    <3>1. cs[i] < cs[j] /\ cs[i] \in Int /\ cs[j] \in Int
      BY <2>1, <2>4, <2>5, <2>8
    <3> QED BY <2>3, <3>1
  <2> QED BY <2>2, <2>6, <2>7, <2>8 DEF AsAsked
<1>2. CASE r.by = "codes"
  <2> DEFINE sent == r.codes
             n == Len(sent)
             keys == [i \in DOMAIN sent |-> sent[i].code]
             at == FirstPlaces(keys)
             cs == [i \in DOMAIN at |-> sent[at[i]].code]
  <2>1. /\ n \in Nat /\ DOMAIN sent = 1..n
        /\ \A i \in 1..n : sent[i].code \in Nat \ {0}
    <3>1. sent \in Seq([code : Nat, zeros : BOOLEAN])
      BY RequestsAssumption
    <3>2. \A i \in DOMAIN sent : sent[i].code # 0
      BY <1>2 DEF NotCodes
    <3> HIDE DEF sent
    <3>3. \A i \in DOMAIN sent : sent[i] \in [code : Nat, zeros : BOOLEAN]
      BY <3>1, SeqParts
    <3> QED BY <3>1, <3>2, <3>3, SeqParts
  <2>2. CodeList(r) = cs
    BY <1>2 DEF CodeList, Once
  <2>3. AskedFor(r) = {sent[i].code : i \in DOMAIN sent}
    BY <1>2 DEF AskedFor
  <2>4. \A c, d : Before(r, c, d) <=> \E i \in DOMAIN sent : sent[i].code = c /\ \A j \in 1..i : sent[j].code # d
    BY <1>2 DEF Before
  <2> HIDE DEF sent, n
  <2>5. DOMAIN keys = 1..n /\ \A i \in 1..n : keys[i] = sent[i].code
    BY <2>1
  <2> HIDE DEF keys
  <2>6. AreFirst(at, keys, n)
    BY <2>1, <2>5, FirstMentions
  <2> HIDE DEF at
  <2>7. /\ DOMAIN at = 1..Len(at) /\ Len(at) \in Nat
        /\ \A i \in DOMAIN at : at[i] \in 1..n
        /\ \A i, j \in DOMAIN at : i < j => at[i] < at[j]
        /\ \A i \in DOMAIN at : \A m \in 1..(at[i] - 1) : keys[m] # keys[at[i]]
        /\ \A m \in 1..n : \E i \in DOMAIN at : keys[at[i]] = keys[m]
    BY <2>6 DEF AreFirst
  <2>8. /\ DOMAIN cs = DOMAIN at
        /\ \A i \in DOMAIN cs : cs[i] = sent[at[i]].code /\ cs[i] = keys[at[i]] /\ cs[i] \in Nat \ {0}
    BY <2>1, <2>5, <2>7
  <2>9. cs \in Seq(Nat \ {0})
    <3>1. cs \in [1..Len(at) -> Nat \ {0}]
      BY <2>7, <2>8
    <3> QED BY <2>7, <3>1
  <2> HIDE DEF cs
  <2>10. {cs[i] : i \in DOMAIN cs} = {sent[i].code : i \in DOMAIN sent}
    <3>1. ASSUME NEW i \in DOMAIN cs PROVE \E m \in DOMAIN sent : cs[i] = sent[m].code
      BY <2>1, <2>7, <2>8
    <3>2. ASSUME NEW m \in DOMAIN sent PROVE \E i \in DOMAIN cs : cs[i] = sent[m].code
      <4>1. PICK i \in DOMAIN at : keys[at[i]] = keys[m]
        BY <2>1, <2>7
      <4> QED BY <2>1, <2>5, <2>8, <4>1
    <3> QED BY <3>1, <3>2
  <2>11. ASSUME NEW i \in DOMAIN cs, NEW j \in DOMAIN cs, i < j
         PROVE  cs[i] # cs[j] /\ Before(r, cs[i], cs[j])
    <3>1. at[i] < at[j] /\ at[i] \in 1..n /\ at[j] \in 1..n
      BY <2>7, <2>8, <2>11
    <3>2. ASSUME NEW m \in 1..at[i] PROVE keys[m] # keys[at[j]] /\ keys[m] = sent[m].code
      <4>1. m \in 1..(at[j] - 1) /\ m \in 1..n
        BY <2>1, <3>1
      <4> QED BY <2>5, <2>7, <2>8, <4>1
    <3>3. \A m \in 1..at[i] : sent[m].code # cs[j]
      BY <2>8, <3>2
    <3>4. at[i] \in DOMAIN sent /\ sent[at[i]].code = cs[i] /\ at[i] \in 1..at[i]
      BY <2>1, <2>8, <3>1
    <3> QED BY <2>4, <3>3, <3>4
  <2> QED BY <2>2, <2>3, <2>9, <2>10, <2>11 DEF AsAsked
<1> QED BY <1>1, <1>2, RequestsAssumption

(***************************************************************************)
(* Meshes: what is numbered, joined and painted is what was made.          *)
(***************************************************************************)
Space == Int \X Int \X Int

\* Every point of an STL has a vertex in its cell.
LEMMA PointHasVertex ==
  ASSUME NEW stl \in Stls
  PROVE  /\ Vertices(stl) \in Seq(Space)
         /\ \A t \in DOMAIN stl, n \in 1..3 :
              \E i \in DOMAIN Vertices(stl) : Cell(Vertices(stl)[i]) = Cell(stl[t][n])
<1> DEFINE pts == Points(stl)
           m == 3 * Len(stl)
           keys == [n \in DOMAIN pts |-> Cell(pts[n])]
           at == FirstPlaces(keys)
           verts == [i \in DOMAIN at |-> pts[at[i]]]
<1>1. Vertices(stl) = verts
  BY DEF Vertices
<1>2. /\ Len(stl) \in Nat /\ DOMAIN stl = 1..Len(stl)
      /\ \A t \in DOMAIN stl : \A n \in 1..3 : stl[t][n] \in Space
  <2>1. stl \in Seq([1..3 -> Space])
    BY DEF Stls, Space
  <2>2. \A t \in DOMAIN stl : stl[t] \in [1..3 -> Space]
    BY <2>1, SeqParts
  <2> QED BY <2>1, <2>2, SeqParts
<1>3. DOMAIN pts = 1..m /\ m \in Nat
      /\ \A n \in 1..m : pts[n] = stl[((n - 1) \div 3) + 1][((n - 1) % 3) + 1]
  BY <1>2 DEF Points
<1>4. ASSUME NEW n \in 1..m PROVE pts[n] \in Space
  <2>1. ((n - 1) \div 3) + 1 \in 1..Len(stl) /\ ((n - 1) % 3) + 1 \in 1..3
    BY <1>2
  <2> QED BY <1>2, <1>3, <2>1
<1>5. ASSUME NEW t \in DOMAIN stl, NEW n \in 1..3
      PROVE  3 * (t - 1) + n \in 1..m /\ pts[3 * (t - 1) + n] = stl[t][n]
  <2> DEFINE j == 3 * (t - 1) + n
  <2>1. j \in 1..m /\ ((j - 1) \div 3) + 1 = t /\ ((j - 1) % 3) + 1 = n
    <3>1. \A q \in Nat, x \in 0..2 : (3 * q + x) \div 3 = q /\ (3 * q + x) % 3 = x
      OBVIOUS
    <3>2. t - 1 \in Nat /\ n - 1 \in 0..2 /\ j - 1 = 3 * (t - 1) + (n - 1) /\ j \in 1..m
      BY <1>2
    <3> HIDE DEF j
    <3>3. (j - 1) \div 3 = t - 1 /\ (j - 1) % 3 = n - 1
      BY <3>1, <3>2
    <3>4. (t - 1) + 1 = t /\ (n - 1) + 1 = n
      BY <1>2
    <3> QED BY <3>2, <3>3, <3>4
  <2> HIDE DEF j
  <2>2. pts[j] = stl[t][n]
    BY <1>3, <2>1
  <2> QED BY <2>1, <2>2 DEF j
<1> HIDE DEF pts, m
<1>6. DOMAIN keys = 1..m /\ \A n \in 1..m : keys[n] = Cell(pts[n])
  BY <1>3
<1> HIDE DEF keys
<1>7. AreFirst(at, keys, m)
  BY <1>3, <1>6, FirstMentions
<1> HIDE DEF at
<1>8. /\ DOMAIN at = 1..Len(at) /\ Len(at) \in Nat
      /\ \A i \in DOMAIN at : at[i] \in 1..m
      /\ \A n \in 1..m : \E i \in DOMAIN at : keys[at[i]] = keys[n]
  BY <1>7 DEF AreFirst
<1>9. DOMAIN verts = 1..Len(at) /\ \A i \in DOMAIN at : verts[i] = pts[at[i]]
  BY <1>8
<1>10. verts \in Seq(Space)
  <2>1. verts \in [1..Len(at) -> Space]
    BY <1>4, <1>8
  <2> QED BY <1>8, <2>1
<1> HIDE DEF verts
<1>11. ASSUME NEW t \in DOMAIN stl, NEW n \in 1..3
       PROVE  \E i \in DOMAIN verts : Cell(verts[i]) = Cell(stl[t][n])
  <2>1. PICK j \in 1..m : pts[j] = stl[t][n]
    BY <1>5
  <2>2. PICK i \in DOMAIN at : keys[at[i]] = keys[j]
    BY <1>8
  <2>3. Cell(pts[at[i]]) = Cell(pts[j]) /\ verts[i] = pts[at[i]] /\ i \in DOMAIN verts
    BY <1>6, <1>8, <1>9, <2>2
  <2> QED BY <2>1, <2>3
<1> QED BY <1>1, <1>10, <1>11

\* The indices of a face are those of vertices in the cells of its points.
LEMMA FaceOfCells ==
  ASSUME NEW stl \in Stls
  PROVE  /\ Faces(stl) \in Seq([1..3 -> 0..(Len(Vertices(stl)) - 1)])
         /\ DOMAIN Faces(stl) = DOMAIN stl
         /\ \A t \in DOMAIN stl, n \in 1..3 :
              Cell(Vertices(stl)[Faces(stl)[t][n] + 1]) = Cell(stl[t][n])
<1> DEFINE verts == Vertices(stl)
           m == Len(verts)
           faces == Faces(stl)
           Index(p) == (CHOOSE i \in DOMAIN verts : Cell(verts[i]) = Cell(p)) - 1
<1>1. /\ verts \in Seq(Space)
      /\ \A t \in DOMAIN stl, n \in 1..3 : \E i \in DOMAIN verts : Cell(verts[i]) = Cell(stl[t][n])
  BY PointHasVertex
<1>2. faces = [t \in DOMAIN stl |-> [n \in 1..3 |-> Index(stl[t][n])]]
  BY DEF Faces
<1>3. Len(stl) \in Nat /\ DOMAIN stl = 1..Len(stl)
  BY DEF Stls
<1>4. verts = Vertices(stl) /\ faces = Faces(stl)
  OBVIOUS
<1> HIDE DEF verts, faces
<1>5. m \in Nat /\ DOMAIN verts = 1..m
  BY <1>1
<1>6. ASSUME NEW t \in DOMAIN stl, NEW n \in 1..3
      PROVE  Index(stl[t][n]) \in 0..(m - 1) /\ Cell(verts[Index(stl[t][n]) + 1]) = Cell(stl[t][n])
  <2> DEFINE i == CHOOSE i \in DOMAIN verts : Cell(verts[i]) = Cell(stl[t][n])
  <2>1. i \in DOMAIN verts /\ Cell(verts[i]) = Cell(stl[t][n])
    BY <1>1
  <2>2. Index(stl[t][n]) = i - 1
    OBVIOUS
  <2> HIDE DEF i, Index
  <2>3. i - 1 \in 0..(m - 1) /\ (i - 1) + 1 = i
    BY <1>5, <2>1
  <2> QED BY <2>1, <2>2, <2>3
<1> HIDE DEF Index, m
<1>7. \A t \in DOMAIN stl : faces[t] \in [1..3 -> 0..(m - 1)] /\ \A n \in 1..3 : faces[t][n] = Index(stl[t][n])
  BY <1>2, <1>6
<1>8. DOMAIN faces = DOMAIN stl
  BY <1>2
<1>9. faces \in Seq([1..3 -> 0..(m - 1)])
  <2>1. faces \in [1..Len(stl) -> [1..3 -> 0..(m - 1)]]
    BY <1>2, <1>3, <1>7
  <2> QED BY <1>3, <2>1
<1>10. \A t \in DOMAIN stl, n \in 1..3 : Cell(verts[faces[t][n] + 1]) = Cell(stl[t][n])
  BY <1>6, <1>7
<1> QED BY <1>4, <1>8, <1>9, <1>10 DEF m

\* What stands where behind a concatenation.
LEMMA ConcatParts ==
  ASSUME NEW S, NEW s \in Seq(S), NEW t \in Seq(S)
  PROVE  /\ s \o t \in Seq(S)
         /\ Len(s \o t) = Len(s) + Len(t)
         /\ \A i \in 1..Len(s) : (s \o t)[i] = s[i]
         /\ \A i \in 1..Len(t) : (s \o t)[Len(s) + i] = t[i]
<1>1. Len(s) \in Nat /\ Len(t) \in Nat
  BY LenProperties
<1>2. ASSUME NEW i \in 1..Len(t) PROVE (s \o t)[Len(s) + i] = t[i]
  <2>1. Len(s) + i \in 1..(Len(s) + Len(t)) /\ ~(Len(s) + i <= Len(s)) /\ (Len(s) + i) - Len(s) = i
    BY <1>1
  <2> QED BY <2>1, ConcatProperties
<1>3. ASSUME NEW i \in 1..Len(s) PROVE (s \o t)[i] = s[i]
  <2>1. i \in 1..(Len(s) + Len(t)) /\ i <= Len(s)
    BY <1>1
  <2> QED BY <2>1, ConcatProperties
<1> QED BY <1>2, <1>3, ConcatProperties

Triangle(tri, paint) == [corners |-> [n \in 1..3 |-> Cell(tri[n])], paint |-> paint]

Triangles == [corners : [1..3 -> Space], paint : {0, 1}]

\* The cell of a point in space.
LEMMA CellType == ASSUME NEW p \in Space PROVE Cell(p) \in Space
<1>1. p[1] \in Int /\ p[2] \in Int /\ p[3] \in Int
  BY DEF Space
<1>2. \A x \in Int : Nearest(x) \in Int
  BY DEF Nearest
<1> QED BY <1>1, <1>2 DEF Cell, Space

\* An STL is a sequence of triangles in space.
LEMMA StlParts ==
  ASSUME NEW stl \in Stls
  PROVE  /\ Len(stl) \in Nat /\ DOMAIN stl = 1..Len(stl)
         /\ \A t \in 1..Len(stl), n \in 1..3 : stl[t][n] \in Space
<1>1. stl \in Seq([1..3 -> Space])
  BY DEF Stls, Space
<1>2. \A t \in DOMAIN stl : stl[t] \in [1..3 -> Space]
  BY <1>1, SeqParts
<1> QED BY <1>1, <1>2, SeqParts

\* What OpenSCAD has made, triangle by triangle.
LEMMA MadeParts ==
  ASSUME NEW stl \in Stls, NEW paint \in {0, 1}
  PROVE  /\ Made(stl, paint) \in Seq(Triangles)
         /\ Len(Made(stl, paint)) = Len(stl)
         /\ \A t \in 1..Len(stl) : Made(stl, paint)[t] = Triangle(stl[t], paint)
<1>1. Len(stl) \in Nat /\ DOMAIN stl = 1..Len(stl)
  BY StlParts
<1>2. Made(stl, paint) = [t \in 1..Len(stl) |-> Triangle(stl[t], paint)]
  BY <1>1 DEF Made, Triangle
<1>3. ASSUME NEW t \in 1..Len(stl) PROVE Triangle(stl[t], paint) \in Triangles
  <2>1. \A n \in 1..3 : Cell(stl[t][n]) \in Space
    BY StlParts, CellType
  <2> QED BY <2>1 DEF Triangle, Triangles
<1>4. Made(stl, paint) \in [1..Len(stl) -> Triangles]
  BY <1>2, <1>3
<1> QED BY <1>1, <1>2, <1>4

\* A function on 1..n is a sequence of length n.
LEMMA FunctionIsSeq ==
  ASSUME NEW S, NEW n \in Nat, NEW f \in [1..n -> S]
  PROVE  f \in Seq(S) /\ Len(f) = n
OBVIOUS

\* A sequence is known by its length and elements.
LEMMA SameSeq ==
  ASSUME NEW S, NEW s \in Seq(S), NEW f, NEW n \in Nat, DOMAIN f = 1..n,
         f = [i \in 1..n |-> f[i]], Len(s) = n, \A i \in 1..n : f[i] = s[i]
  PROVE  f = s
<1>1. DOMAIN s = 1..n /\ s = [i \in 1..n |-> s[i]]
  BY SeqParts, LenProperties
<1> QED BY <1>1

(***************************************************************************)
(* THEOREM MergedIsSeen.  For any two meshes: though their points are      *)
(* merged cell by cell and the indices of the second are shifted, a slicer *)
(* sees of the joined mesh the triangles of the body and then those of the *)
(* number, each in its colour.                                             *)
(***************************************************************************)
THEOREM MergedIsSeen ==
  ASSUME NEW body \in Stls, NEW number \in Stls
  PROVE  Seen(Merged(body, number)) = Made(body, 0) \o Made(number, 1)
<1> DEFINE vb == Vertices(body)
           vn == Vertices(number)
           fb == Faces(body)
           fn == Faces(number)
           m == Len(vb)
           lb == Len(body)
           ln == Len(number)
           verts == vb \o vn
           pb == Painted(fb, 0, 0)
           pn == Painted(fn, m, 1)
           tris == pb \o pn
           made == Made(body, 0) \o Made(number, 1)
           Painting == [corners : [1..3 -> Int], paint : {0, 1}]
<1>1. /\ lb \in Nat /\ DOMAIN body = 1..lb /\ ln \in Nat /\ DOMAIN number = 1..ln
  BY StlParts
<1>2. vb \in Seq(Space) /\ vn \in Seq(Space) /\ m \in Nat
  BY PointHasVertex, LenProperties
<1>3. /\ DOMAIN fb = 1..lb
      /\ \A t \in 1..lb : fb[t] \in [1..3 -> 0..(m - 1)]
      /\ \A t \in 1..lb, n \in 1..3 : Cell(vb[fb[t][n] + 1]) = Cell(body[t][n])
  <2>1. fb \in Seq([1..3 -> 0..(m - 1)]) /\ DOMAIN fb = DOMAIN body
    BY FaceOfCells
  <2>2. \A t \in DOMAIN body, n \in 1..3 : Cell(vb[fb[t][n] + 1]) = Cell(body[t][n])
    BY FaceOfCells
  <2> HIDE DEF fb, m, vb, lb
  <2> QED BY <1>1, <2>1, <2>2, SeqParts
<1>4. /\ DOMAIN fn = 1..ln
      /\ \A t \in 1..ln : fn[t] \in [1..3 -> 0..(Len(vn) - 1)]
      /\ \A t \in 1..ln, n \in 1..3 : Cell(vn[fn[t][n] + 1]) = Cell(number[t][n])
  <2>1. fn \in Seq([1..3 -> 0..(Len(vn) - 1)]) /\ DOMAIN fn = DOMAIN number
    BY FaceOfCells
  <2>2. \A t \in DOMAIN number, n \in 1..3 : Cell(vn[fn[t][n] + 1]) = Cell(number[t][n])
    BY FaceOfCells
  <2> HIDE DEF fn, vn, ln
  <2> QED BY <1>1, <2>1, <2>2, SeqParts
<1>5. Merged(body, number) = [verts |-> verts, tris |-> tris]
  BY DEF Merged
<1>6. /\ made \in Seq(Triangles) /\ Len(made) = lb + ln
      /\ \A t \in 1..lb : made[t] = Triangle(body[t], 0)
      /\ \A t \in 1..ln : made[lb + t] = Triangle(number[t], 1)
  <2> DEFINE x == Made(body, 0)
             y == Made(number, 1)
  <2>1. /\ x \in Seq(Triangles) /\ Len(x) = lb /\ \A t \in 1..lb : x[t] = Triangle(body[t], 0)
        /\ y \in Seq(Triangles) /\ Len(y) = ln /\ \A t \in 1..ln : y[t] = Triangle(number[t], 1)
    BY MadeParts
  <2> HIDE DEF x, y, lb, ln
  <2>2. /\ x \o y \in Seq(Triangles) /\ Len(x \o y) = Len(x) + Len(y)
        /\ \A t \in 1..Len(x) : (x \o y)[t] = x[t]
        /\ \A t \in 1..Len(y) : (x \o y)[Len(x) + t] = y[t]
    <3>1. x \in Seq(Triangles) /\ y \in Seq(Triangles)
      BY <2>1
    <3> QED BY <3>1, ConcatParts
  <2>3. made = x \o y
    BY DEF x, y
  <2> QED BY <2>1, <2>2, <2>3
<1> HIDE DEF vb, vn, fb, fn, lb, ln, made
<1>7. /\ pb \in Seq(Painting) /\ Len(pb) = lb
      /\ \A t \in 1..lb : pb[t] = [corners |-> [n \in 1..3 |-> fb[t][n] + 0], paint |-> 0]
  <2>1. pb = [t \in 1..lb |-> [corners |-> [n \in 1..3 |-> fb[t][n] + 0], paint |-> 0]]
    BY <1>3 DEF Painted, Shifted
  <2>2. ASSUME NEW t \in 1..lb, NEW n \in 1..3 PROVE fb[t][n] + 0 \in Int
    BY <1>2, <1>3
  <2>3. pb \in [1..lb -> Painting]
    BY <2>1, <2>2
  <2> HIDE DEF Painting
  <2>4. pb \in Seq(Painting) /\ Len(pb) = lb
    BY <1>1, <2>3, FunctionIsSeq
  <2>5. \A t \in 1..lb : pb[t] = [corners |-> [n \in 1..3 |-> fb[t][n] + 0], paint |-> 0]
    BY <2>1, Zenon
  <2> QED BY <2>4, <2>5, Zenon
<1>8. /\ pn \in Seq(Painting) /\ Len(pn) = ln
      /\ \A t \in 1..ln : pn[t] = [corners |-> [n \in 1..3 |-> fn[t][n] + m], paint |-> 1]
  <2>1. pn = [t \in 1..ln |-> [corners |-> [n \in 1..3 |-> fn[t][n] + m], paint |-> 1]]
    BY <1>4 DEF Painted, Shifted
  <2>2. ASSUME NEW t \in 1..ln, NEW n \in 1..3 PROVE fn[t][n] + m \in Int
    BY <1>2, <1>4, LenProperties
  <2>3. pn \in [1..ln -> Painting]
    BY <2>1, <2>2
  <2> HIDE DEF Painting
  <2>4. pn \in Seq(Painting) /\ Len(pn) = ln
    BY <1>1, <2>3, FunctionIsSeq
  <2>5. \A t \in 1..ln : pn[t] = [corners |-> [n \in 1..3 |-> fn[t][n] + m], paint |-> 1]
    BY <2>1, Zenon
  <2> QED BY <2>4, <2>5, Zenon
<1> HIDE DEF pb, pn, Painting
<1>9. /\ tris \in Seq(Painting) /\ Len(tris) = lb + ln
      /\ \A t \in 1..lb : tris[t] = pb[t]
      /\ \A t \in 1..ln : tris[lb + t] = pn[t]
  <2>1. /\ tris \in Seq(Painting) /\ Len(tris) = Len(pb) + Len(pn)
        /\ \A t \in 1..Len(pb) : tris[t] = pb[t]
        /\ \A t \in 1..Len(pn) : tris[Len(pb) + t] = pn[t]
    <3>1. pb \in Seq(Painting) /\ pn \in Seq(Painting)
      BY <1>7, <1>8
    <3> QED BY <3>1, ConcatParts
  <2> HIDE DEF tris
  <2> QED BY <1>7, <1>8, <2>1
<1>10. /\ \A i \in 1..m : verts[i] = vb[i]
       /\ \A i \in 1..Len(vn) : verts[m + i] = vn[i]
  BY <1>2, ConcatParts
<1> DEFINE seen == Seen(Merged(body, number))
<1>11. /\ DOMAIN seen = 1..(lb + ln) /\ seen = [t \in 1..(lb + ln) |-> seen[t]]
       /\ \A t \in 1..(lb + ln) :
            seen[t] = [corners |-> [n \in 1..3 |-> Cell(verts[tris[t].corners[n] + 1])], paint |-> tris[t].paint]
  <2>1. DOMAIN tris = 1..(lb + ln)
    BY <1>9, SeqParts
  <2>2. seen = [t \in DOMAIN tris |-> [corners |-> [n \in 1..3 |-> Cell(verts[tris[t].corners[n] + 1])],
                                      paint |-> tris[t].paint]]
    <3> HIDE DEF tris, verts
    <3> QED BY <1>5 DEF Seen
  <2> HIDE DEF seen, tris, verts
  <2> QED BY <2>1, <2>2
<1> HIDE DEF verts, tris, m, seen
<1>12. ASSUME NEW t \in 1..lb PROVE seen[t] = made[t]
  <2>1. tris[t].paint = 0 /\ \A n \in 1..3 : tris[t].corners[n] = fb[t][n] + 0
    <3>1. tris[t] = [corners |-> [n \in 1..3 |-> fb[t][n] + 0], paint |-> 0]
      BY <1>7, <1>9, Zenon
    <3> QED BY <3>1
  <2>2. ASSUME NEW n \in 1..3 PROVE Cell(verts[tris[t].corners[n] + 1]) = Cell(body[t][n])
    <3>1. fb[t][n] + 1 \in 1..m /\ tris[t].corners[n] + 1 = fb[t][n] + 1
      BY <1>2, <1>3, <2>1
    <3> QED BY <1>3, <1>10, <3>1
  <2>3. t \in 1..(lb + ln)
    BY <1>1
  <2> QED BY <1>6, <1>11, <2>1, <2>2, <2>3 DEF Triangle
<1>13. ASSUME NEW t \in 1..ln PROVE seen[lb + t] = made[lb + t]
  <2>1. tris[lb + t].paint = 1 /\ \A n \in 1..3 : tris[lb + t].corners[n] = fn[t][n] + m
    <3>1. tris[lb + t] = [corners |-> [n \in 1..3 |-> fn[t][n] + m], paint |-> 1]
      BY <1>8, <1>9, Zenon
    <3> QED BY <3>1
  <2>2. ASSUME NEW n \in 1..3 PROVE Cell(verts[tris[lb + t].corners[n] + 1]) = Cell(number[t][n])
    <3>1. fn[t][n] \in 0..(Len(vn) - 1) /\ Len(vn) \in Nat
      BY <1>2, <1>4, LenProperties
    <3>2. fn[t][n] + 1 \in 1..Len(vn) /\ (fn[t][n] + m) + 1 = m + (fn[t][n] + 1)
      BY <1>2, <3>1
    <3>3. verts[tris[lb + t].corners[n] + 1] = vn[fn[t][n] + 1]
      BY <1>10, <2>1, <3>2
    <3> QED BY <1>4, <3>3
  <2>3. lb + t \in 1..(lb + ln)
    BY <1>1
  <2> QED BY <1>6, <1>11, <2>1, <2>2, <2>3 DEF Triangle
<1>14. ASSUME NEW t \in 1..(lb + ln) PROVE seen[t] = made[t]
  <2>1. CASE t <= lb
    BY <1>1, <1>12, <2>1
  <2>2. CASE ~(t <= lb)
    <3>1. t - lb \in 1..ln /\ lb + (t - lb) = t
      BY <1>1, <2>2
    <3> QED BY <1>13, <3>1
  <2> QED BY <2>1, <2>2
<1>15. seen = made
  BY <1>1, <1>6, <1>11, <1>14, SameSeq
<1> QED BY <1>15 DEF seen, made

(***************************************************************************)
(* The lines of an OBJ.                                                    *)
(***************************************************************************)
Places == [x : Int, y : Int]

PaintedPoints == [at : Space, paint : {0, 1}]

\* Triangles whose corners are among the first n points.
FacesBelow(n) == Seq([1..3 -> 1..n])

\* What is in such triangles.
LEMMA FacesParts ==
  ASSUME NEW n \in Nat, NEW faces \in FacesBelow(n)
  PROVE  /\ Len(faces) \in Nat /\ DOMAIN faces = 1..Len(faces)
         /\ \A t \in 1..Len(faces) : faces[t] \in [1..3 -> 1..n]
         /\ \A t \in 1..Len(faces), i \in 1..3 : faces[t][i] \in 1..n
<1> DEFINE F == [1..3 -> 1..n]
<1>1. faces \in Seq(F)
  BY DEF FacesBelow
<1> HIDE DEF F
<1>2. Len(faces) \in Nat /\ DOMAIN faces = 1..Len(faces) /\ \A t \in DOMAIN faces : faces[t] \in F
  BY <1>1, SeqParts
<1> QED BY <1>2 DEF F

\* The points w begin with the points v.
BeginWith(w, v) == Len(v) <= Len(w) /\ \A i \in 1..Len(v) : w[i] = v[i]

\* More points behind them change nothing.
LEMMA ReadStays ==
  ASSUME NEW v \in Seq(PaintedPoints), NEW w \in Seq(PaintedPoints), BeginWith(w, v),
         NEW faces \in FacesBelow(Len(v)), NEW spot
  PROVE  /\ faces \in FacesBelow(Len(w))
         /\ ReadFaces(w, faces, spot) = ReadFaces(v, faces, spot)
<1> DEFINE n == Len(v)
           m == Len(w)
<1>1. n \in Nat /\ m \in Nat /\ n <= m /\ \A i \in 1..n : w[i] = v[i]
  BY LenProperties DEF BeginWith
<1>2. faces \in FacesBelow(n)
  OBVIOUS
<1> HIDE DEF n, m
<1>3. /\ Len(faces) \in Nat /\ DOMAIN faces = 1..Len(faces)
      /\ \A t \in 1..Len(faces) : faces[t] \in [1..3 -> 1..n]
      /\ \A t \in 1..Len(faces), i \in 1..3 : faces[t][i] \in 1..n
  BY <1>1, <1>2, FacesParts
<1>4. faces \in FacesBelow(m)
  <2>1. [1..3 -> 1..n] \subseteq [1..3 -> 1..m]
    BY <1>1
  <2> QED BY <1>2, <2>1, SeqMonotonic DEF FacesBelow
<1>5. ASSUME NEW t \in 1..Len(faces) PROVE ReadFace(w, faces[t], spot) = ReadFace(v, faces[t], spot)
  <2>1. \A i \in 1..3 : w[faces[t][i]] = v[faces[t][i]]
    BY <1>1, <1>3
  <2> QED BY <2>1 DEF ReadFace
<1>6. ReadFaces(w, faces, spot) = ReadFaces(v, faces, spot)
  BY <1>3, <1>5 DEF ReadFaces
<1> QED BY <1>4, <1>6 DEF m

\* A point moved to a lock's place and back is where it was.
LEMMA BackFromMoved ==
  ASSUME NEW p \in Space, NEW spot \in Places
  PROVE  Moved(p, spot) \in Space /\ Back(Moved(p, spot), spot) = p
<1>1. /\ p[1] \in Int /\ p[2] \in Int /\ p[3] \in Int /\ p = <<p[1], p[2], p[3]>>
      /\ spot.x \in Int /\ spot.y \in Int /\ XMin \in Int /\ YMin \in Int
  BY ExportAssumption DEF Space, Places
<1>2. /\ p[1] + spot.x - XMin \in Int /\ p[2] + spot.y - YMin \in Int
      /\ (p[1] + spot.x - XMin) - spot.x + XMin = p[1]
      /\ (p[2] + spot.y - YMin) - spot.y + YMin = p[2]
  BY <1>1
<1>3. Moved(p, spot) = <<p[1] + spot.x - XMin, p[2] + spot.y - YMin, p[3]>>
  BY DEF Moved
<1>4. Moved(p, spot) \in Space
  BY <1>1, <1>2, <1>3 DEF Space
<1>5. /\ Moved(p, spot)[1] = p[1] + spot.x - XMin
      /\ Moved(p, spot)[2] = p[2] + spot.y - YMin
      /\ Moved(p, spot)[3] = p[3]
  BY <1>3
<1>6. Back(Moved(p, spot), spot) = <<p[1], p[2], p[3]>>
  BY <1>2, <1>5 DEF Back
<1> QED BY <1>1, <1>4, <1>6

\* Moving back stays in space.
LEMMA BackType ==
  ASSUME NEW p \in Space, NEW spot \in Places
  PROVE  Back(p, spot) \in Space
<1>1. /\ p[1] \in Int /\ p[2] \in Int /\ p[3] \in Int
      /\ spot.x \in Int /\ spot.y \in Int /\ XMin \in Int /\ YMin \in Int
  BY ExportAssumption DEF Space, Places
<1> QED BY <1>1 DEF Back, Space

\* What is read is triangles, and of a concatenation the one's and then the
\* other's.
LEMMA ReadParts ==
  ASSUME NEW v \in Seq(PaintedPoints), NEW faces \in FacesBelow(Len(v)), NEW spot \in Places
  PROVE  /\ ReadFaces(v, faces, spot) \in Seq(Triangles)
         /\ Len(ReadFaces(v, faces, spot)) = Len(faces)
         /\ \A t \in 1..Len(faces) : ReadFaces(v, faces, spot)[t] = ReadFace(v, faces[t], spot)
<1> DEFINE n == Len(v)
<1>1. n \in Nat /\ \A i \in 1..n : v[i] \in PaintedPoints
  BY SeqParts
<1>2. /\ Len(faces) \in Nat /\ DOMAIN faces = 1..Len(faces)
      /\ \A t \in 1..Len(faces), i \in 1..3 : faces[t][i] \in 1..n
  BY <1>1, FacesParts
<1> HIDE DEF n
<1>3. ASSUME NEW t \in 1..Len(faces) PROVE ReadFace(v, faces[t], spot) \in Triangles
  <2>1. ASSUME NEW i \in 1..3 PROVE Cell(Back(v[faces[t][i]].at, spot)) \in Space
    <3>1. v[faces[t][i]].at \in Space
      BY <1>1, <1>2 DEF PaintedPoints
    <3> QED BY <3>1, BackType, CellType
  <2>2. v[faces[t][1]].paint \in {0, 1}
    BY <1>1, <1>2 DEF PaintedPoints
  <2> QED BY <2>1, <2>2 DEF ReadFace, Triangles
<1>4. ReadFaces(v, faces, spot) = [t \in 1..Len(faces) |-> ReadFace(v, faces[t], spot)]
  BY <1>2 DEF ReadFaces
<1>5. ReadFaces(v, faces, spot) \in [1..Len(faces) -> Triangles]
  BY <1>3, <1>4
<1>6. ReadFaces(v, faces, spot) \in Seq(Triangles) /\ Len(ReadFaces(v, faces, spot)) = Len(faces)
  BY <1>2, <1>5, FunctionIsSeq
<1>7. \A t \in 1..Len(faces) : ReadFaces(v, faces, spot)[t] = ReadFace(v, faces[t], spot)
  BY <1>4, Zenon
<1> QED BY <1>6, <1>7

\* Faces are read one by one.
LEMMA ReadConcat ==
  ASSUME NEW v \in Seq(PaintedPoints), NEW spot \in Places,
         NEW f \in FacesBelow(Len(v)), NEW g \in FacesBelow(Len(v))
  PROVE  /\ f \o g \in FacesBelow(Len(v))
         /\ ReadFaces(v, f \o g, spot) = ReadFaces(v, f, spot) \o ReadFaces(v, g, spot)
<1> DEFINE h == f \o g
           rf == ReadFaces(v, f, spot)
           rg == ReadFaces(v, g, spot)
           rh == ReadFaces(v, h, spot)
           F == [1..3 -> 1..Len(v)]
<1>1. f \in Seq(F) /\ g \in Seq(F)
  BY DEF FacesBelow
<1> HIDE DEF F
<1>2. /\ h \in Seq(F) /\ Len(h) = Len(f) + Len(g)
      /\ \A t \in 1..Len(f) : h[t] = f[t]
      /\ \A t \in 1..Len(g) : h[Len(f) + t] = g[t]
  BY <1>1, ConcatParts
<1>3. h \in FacesBelow(Len(v))
  BY <1>2 DEF FacesBelow, F
<1>4. /\ rf \in Seq(Triangles) /\ Len(rf) = Len(f) /\ Len(f) \in Nat
      /\ \A t \in 1..Len(f) : rf[t] = ReadFace(v, f[t], spot)
  BY <1>1, ReadParts, LenProperties
<1>5. /\ rg \in Seq(Triangles) /\ Len(rg) = Len(g) /\ Len(g) \in Nat
      /\ \A t \in 1..Len(g) : rg[t] = ReadFace(v, g[t], spot)
  BY <1>1, ReadParts, LenProperties
<1> HIDE DEF h
<1>6. /\ rh \in Seq(Triangles) /\ Len(rh) = Len(h)
      /\ \A t \in 1..Len(h) : rh[t] = ReadFace(v, h[t], spot)
  BY <1>3, ReadParts
<1> HIDE DEF rf, rg, rh
<1>7. /\ rf \o rg \in Seq(Triangles) /\ Len(rf \o rg) = Len(rf) + Len(rg)
      /\ \A t \in 1..Len(rf) : (rf \o rg)[t] = rf[t]
      /\ \A t \in 1..Len(rg) : (rf \o rg)[Len(rf) + t] = rg[t]
  <2>1. rf \in Seq(Triangles) /\ rg \in Seq(Triangles)
    BY <1>4, <1>5
  <2> QED BY <2>1, ConcatParts
<1>8. ASSUME NEW t \in 1..Len(h) PROVE rh[t] = (rf \o rg)[t]
  <2>1. CASE t <= Len(f)
    <3>1. t \in 1..Len(f)
      BY <1>2, <1>4, <1>5, <2>1
    <3> QED BY <1>2, <1>4, <1>6, <1>7, <3>1
  <2>2. CASE ~(t <= Len(f))
    <3> DEFINE u == t - Len(f)
    <3>1. u \in 1..Len(g) /\ t = Len(f) + u
      BY <1>2, <1>4, <1>5, <2>2
    <3> HIDE DEF u
    <3>2. rh[t] = ReadFace(v, g[u], spot)
      BY <1>2, <1>6, <3>1
    <3>3. (rf \o rg)[t] = rg[u]
      BY <1>4, <1>5, <1>7, <3>1
    <3> QED BY <1>5, <3>1, <3>2, <3>3
  <2> QED BY <2>1, <2>2
<1>9. Len(rh) = Len(rf \o rg)
  BY <1>2, <1>4, <1>5, <1>6, <1>7
<1>10. rh = rf \o rg
  BY <1>6, <1>7, <1>8, <1>9, SeqEqual
<1> QED BY <1>3, <1>10 DEF h, rf, rg, rh

NewPoints(stl, paint, spot) ==
  [i \in DOMAIN Vertices(stl) |-> [at |-> Moved(Vertices(stl)[i], spot), paint |-> paint]]

NewFaces(stl, by) == [t \in DOMAIN stl |-> Shifted(Faces(stl)[t], by)]

\* The points w and the faces of a part, behind the points v.
PartAdded(v, w, faces, stl, paint, spot) ==
  /\ w \in Seq(PaintedPoints)
  /\ Len(w) = Len(v) + Len(Vertices(stl)) /\ Len(v) <= Len(w)
  /\ \A i \in 1..Len(v) : w[i] = v[i]
  /\ faces \in FacesBelow(Len(w))
  /\ ReadFaces(w, faces, spot) = Made(stl, paint)

\* The faces of a part, counted on behind the points there are, read as the
\* part was made.
LEMMA PartReads ==
  ASSUME NEW v \in Seq(PaintedPoints), NEW stl \in Stls, NEW paint \in {0, 1}, NEW spot \in Places
  PROVE  PartAdded(v, v \o NewPoints(stl, paint, spot), NewFaces(stl, 1 + Len(v)), stl, paint, spot)
<1> DEFINE verts == Vertices(stl)
           m == Len(verts)
           n == Len(v)
           new == NewPoints(stl, paint, spot)
           w == v \o new
           faces == NewFaces(stl, 1 + n)
           ls == Len(stl)
<1>1. verts \in Seq(Space) /\ m \in Nat /\ n \in Nat /\ DOMAIN verts = 1..m
      /\ \A i \in 1..m : verts[i] \in Space
  BY PointHasVertex, SeqParts
<1>2. ls \in Nat /\ DOMAIN stl = 1..ls /\ \A t \in 1..ls, i \in 1..3 : stl[t][i] \in Space
  BY StlParts
<1>3. /\ \A t \in 1..ls, i \in 1..3 : Faces(stl)[t][i] \in 0..(m - 1)
      /\ \A t \in 1..ls, i \in 1..3 : Cell(verts[Faces(stl)[t][i] + 1]) = Cell(stl[t][i])
  <2>1. Faces(stl) \in Seq([1..3 -> 0..(m - 1)]) /\ DOMAIN Faces(stl) = DOMAIN stl
    BY FaceOfCells
  <2>2. \A t \in DOMAIN stl, i \in 1..3 : Cell(verts[Faces(stl)[t][i] + 1]) = Cell(stl[t][i])
    BY FaceOfCells
  <2> HIDE DEF m, verts, ls
  <2>3. \A t \in DOMAIN stl : Faces(stl)[t] \in [1..3 -> 0..(m - 1)]
    BY <2>1, SeqParts
  <2> QED BY <1>2, <2>2, <2>3
<1>4. new = [i \in 1..m |-> [at |-> Moved(verts[i], spot), paint |-> paint]]
  BY <1>1 DEF NewPoints
<1>5. faces = [t \in 1..ls |-> [i \in 1..3 |-> Faces(stl)[t][i] + (1 + n)]]
  BY <1>2 DEF NewFaces, Shifted
<1> HIDE DEF verts, m, new, ls, faces
<1>6. new \in Seq(PaintedPoints) /\ Len(new) = m
  <2>1. ASSUME NEW i \in 1..m PROVE [at |-> Moved(verts[i], spot), paint |-> paint] \in PaintedPoints
    BY <1>1, BackFromMoved DEF PaintedPoints
  <2>2. new \in [1..m -> PaintedPoints]
    BY <1>4, <2>1
  <2> QED BY <1>1, <2>2, FunctionIsSeq
<1>7. /\ w \in Seq(PaintedPoints) /\ Len(w) = n + m
      /\ \A i \in 1..n : w[i] = v[i]
      /\ \A i \in 1..m : w[n + i] = new[i]
  <2>1. /\ w \in Seq(PaintedPoints) /\ Len(w) = Len(v) + Len(new)
        /\ \A i \in 1..Len(v) : w[i] = v[i]
        /\ \A i \in 1..Len(new) : w[Len(v) + i] = new[i]
    <3>1. v \in Seq(PaintedPoints) /\ new \in Seq(PaintedPoints)
      BY <1>6
    <3> QED BY <3>1, ConcatParts
  <2> HIDE DEF w
  <2> QED BY <1>6, <2>1
<1> HIDE DEF n, w
<1>8. ASSUME NEW t \in 1..ls, NEW i \in 1..3
      PROVE  /\ Faces(stl)[t][i] + (1 + n) \in 1..(n + m)
             /\ w[Faces(stl)[t][i] + (1 + n)] = [at |-> Moved(verts[Faces(stl)[t][i] + 1], spot), paint |-> paint]
             /\ verts[Faces(stl)[t][i] + 1] \in Space
  <2> DEFINE f == Faces(stl)[t][i]
  <2>1. f \in 0..(m - 1)
    BY <1>3
  <2> HIDE DEF f
  <2>2. f + 1 \in 1..m /\ f + (1 + n) = n + (f + 1) /\ f + (1 + n) \in 1..(n + m)
    BY <1>1, <2>1
  <2>3. w[f + (1 + n)] = new[f + 1]
    BY <1>7, <2>2
  <2>4. new[f + 1] = [at |-> Moved(verts[f + 1], spot), paint |-> paint]
    BY <1>4, <2>2, Zenon
  <2>5. verts[f + 1] \in Space
    BY <1>1, <2>2
  <2> QED BY <2>2, <2>3, <2>4, <2>5 DEF f
<1>9. faces \in FacesBelow(n + m) /\ Len(faces) = ls
  <2> DEFINE F == [1..3 -> 1..(n + m)]
  <2>1. faces \in [1..ls -> F]
    BY <1>5, <1>8
  <2> HIDE DEF F
  <2>2. faces \in Seq(F) /\ Len(faces) = ls
    BY <1>2, <2>1, FunctionIsSeq
  <2> QED BY <2>2 DEF FacesBelow, F
<1>10. ASSUME NEW t \in 1..ls PROVE ReadFace(w, faces[t], spot) = Triangle(stl[t], paint)
  <2>1. faces[t] = [i \in 1..3 |-> Faces(stl)[t][i] + (1 + n)]
    BY <1>5, Zenon
  <2>2. ASSUME NEW i \in 1..3
        PROVE  /\ Cell(Back(w[faces[t][i]].at, spot)) = Cell(stl[t][i])
               /\ w[faces[t][i]].paint = paint
    <3> DEFINE p == verts[Faces(stl)[t][i] + 1]
    <3>1. w[faces[t][i]] = [at |-> Moved(p, spot), paint |-> paint] /\ p \in Space
      BY <1>8, <2>1
    <3>2. Cell(p) = Cell(stl[t][i])
      BY <1>3
    <3> HIDE DEF p
    <3>3. Back(Moved(p, spot), spot) = p
      BY <3>1, BackFromMoved
    <3> QED BY <3>1, <3>2, <3>3
  <2> QED BY <2>2 DEF ReadFace, Triangle
<1>11. ReadFaces(w, faces, spot) = Made(stl, paint)
  <2>1. /\ ReadFaces(w, faces, spot) \in Seq(Triangles)
        /\ Len(ReadFaces(w, faces, spot)) = Len(faces)
        /\ \A t \in 1..Len(faces) : ReadFaces(w, faces, spot)[t] = ReadFace(w, faces[t], spot)
    BY <1>7, <1>9, ReadParts
  <2>2. /\ Made(stl, paint) \in Seq(Triangles)
        /\ Len(Made(stl, paint)) = ls
        /\ \A t \in 1..ls : Made(stl, paint)[t] = Triangle(stl[t], paint)
    BY MadeParts DEF ls
  <2> QED BY <1>9, <1>10, <2>1, <2>2, SeqEqual
<1>12. Len(v) = n /\ Len(Vertices(stl)) = m /\ n <= n + m
  BY <1>1 DEF n, m, verts
<1>13. PartAdded(v, w, faces, stl, paint, spot)
  BY <1>7, <1>9, <1>11, <1>12 DEF PartAdded
<1> QED BY <1>13 DEF w, new, faces, n

WrittenLocks == [code : Nat \ {0}, faces : Seq([1..3 -> Nat])]

\* The lines of n locks, of which the last may go on.
Lines(l, n) ==
  /\ l.verts \in Seq(PaintedPoints) /\ l.voff = Len(l.verts)
  /\ l.locks \in Seq(WrittenLocks) /\ Len(l.locks) = n

\* m goes on with the last of n locks of l.
GoesOn(l, m, n, spot, made) ==
  /\ BeginWith(m.verts, l.verts)
  /\ \A i \in 1..(n - 1) : m.locks[i] = l.locks[i]
  /\ m.locks[n].code = l.locks[n].code
  /\ m.locks[n].faces \in FacesBelow(Len(m.verts))
  /\ ReadFaces(m.verts, m.locks[n].faces, spot) = ReadFaces(l.verts, l.locks[n].faces, spot) \o made

\* A part goes on with the last lock and leaves the others.
LEMMA PartGoesOn ==
  ASSUME NEW n \in Nat \ {0}, NEW l, Lines(l, n), l.locks[n].faces \in FacesBelow(Len(l.verts)),
         NEW stl \in Stls, NEW paint \in {0, 1}, NEW spot \in Places
  PROVE  /\ Lines(WithPart(l, stl, paint, spot), n)
         /\ GoesOn(l, WithPart(l, stl, paint, spot), n, spot, Made(stl, paint))
<1> DEFINE m == WithPart(l, stl, paint, spot)
           v == l.verts
           w == v \o NewPoints(stl, paint, spot)
           old == l.locks[n].faces
           new == NewFaces(stl, 1 + Len(v))
           nv == Len(Vertices(stl))
<1>1. v \in Seq(PaintedPoints) /\ l.voff = Len(v) /\ l.locks \in Seq(WrittenLocks) /\ Len(l.locks) = n
      /\ old \in FacesBelow(Len(v))
  BY DEF Lines
<1>2. m = [verts |-> w, locks |-> [l.locks EXCEPT ![n].faces = @ \o new], voff |-> Len(v) + nv]
  BY <1>1 DEF WithPart, NewPoints, NewFaces
<1>3. /\ w \in Seq(PaintedPoints) /\ Len(w) = Len(v) + nv /\ Len(v) <= Len(w)
      /\ \A i \in 1..Len(v) : w[i] = v[i]
      /\ new \in FacesBelow(Len(w))
      /\ ReadFaces(w, new, spot) = Made(stl, paint)
  <2>1. PartAdded(v, w, new, stl, paint, spot)
    BY <1>1, PartReads
  <2> QED BY <2>1 DEF PartAdded
<1>4. Len(v) \in Nat /\ Len(w) \in Nat
  BY <1>1, <1>3, LenProperties
<1> HIDE DEF v, w, old, new, nv
<1>5. old \in FacesBelow(Len(w)) /\ ReadFaces(w, old, spot) = ReadFaces(v, old, spot)
  <2>1. v \in Seq(PaintedPoints) /\ w \in Seq(PaintedPoints) /\ BeginWith(w, v) /\ old \in FacesBelow(Len(v))
    BY <1>1, <1>3 DEF BeginWith
  <2> QED BY <2>1, ReadStays
<1>6. old \o new \in FacesBelow(Len(w))
      /\ ReadFaces(w, old \o new, spot) = ReadFaces(w, old, spot) \o ReadFaces(w, new, spot)
  BY <1>3, <1>5, ReadConcat
<1>7. DOMAIN l.locks = 1..n /\ \A i \in 1..n : l.locks[i] \in WrittenLocks
  BY <1>1, SeqParts
<1> DEFINE locks == [l.locks EXCEPT ![n].faces = @ \o new]
<1>8. /\ locks \in [1..n -> WrittenLocks]
      /\ locks[n].code = l.locks[n].code /\ locks[n].faces = old \o new
      /\ \A i \in 1..(n - 1) : locks[i] = l.locks[i]
  <2>1. old \o new \in Seq([1..3 -> Nat])
    <3>1. [1..3 -> 1..Len(w)] \subseteq [1..3 -> Nat]
      OBVIOUS
    <3> QED BY <1>6, <3>1, SeqMonotonic DEF FacesBelow
  <2>2. locks = [i \in 1..n |-> IF i = n THEN [l.locks[n] EXCEPT !.faces = old \o new] ELSE l.locks[i]]
    BY <1>7 DEF old
  <2> HIDE DEF locks
  <2>3. [l.locks[n] EXCEPT !.faces = old \o new] \in WrittenLocks
        /\ [l.locks[n] EXCEPT !.faces = old \o new].code = l.locks[n].code
        /\ [l.locks[n] EXCEPT !.faces = old \o new].faces = old \o new
    <3> DEFINE lock == l.locks[n]
               all == old \o new
               F == Seq([1..3 -> Nat])
    <3>1. lock \in [code : Nat \ {0}, faces : F] /\ all \in F
      BY <1>7, <2>1 DEF WrittenLocks
    <3> HIDE DEF lock, all, F
    <3>2. [lock EXCEPT !.faces = all] = [code |-> lock.code, faces |-> all] /\ lock.code \in Nat \ {0}
      BY <3>1
    <3>3. [lock EXCEPT !.faces = all] \in [code : Nat \ {0}, faces : F]
      BY <3>1, <3>2
    <3> QED BY <3>2, <3>3 DEF lock, all, F, WrittenLocks
  <2> QED BY <1>7, <2>2, <2>3
<1>9. locks \in Seq(WrittenLocks) /\ Len(locks) = n
  BY <1>8, FunctionIsSeq
<1>10. m.verts = w /\ m.locks = locks /\ m.voff = Len(v) + nv
  BY <1>2
<1> HIDE DEF m, locks
<1>11. Lines(m, n)
  BY <1>3, <1>9, <1>10 DEF Lines
<1>12. GoesOn(l, m, n, spot, Made(stl, paint))
  BY <1>3, <1>5, <1>6, <1>8, <1>10 DEF GoesOn, BeginWith, v, old
<1> QED BY <1>11, <1>12 DEF m

MadeOf(c) == Made(BodyOf[c], 0) \o Made(NumberOf[c], 1)

\* The i-th lock of the lines l is that of code c, and reads as it was made.
LockReads(l, i, c, spot) ==
  /\ l.locks[i].code = c
  /\ l.locks[i].faces \in FacesBelow(Len(l.verts))
  /\ ReadFaces(l.verts, l.locks[i].faces, spot) = MadeOf(c)

\* With more points behind it, a lock reads as before.
LEMMA LockStays ==
  ASSUME NEW l, NEW m, NEW i, NEW c, NEW spot, LockReads(l, i, c, spot),
         l.verts \in Seq(PaintedPoints), m.verts \in Seq(PaintedPoints),
         BeginWith(m.verts, l.verts), m.locks[i] = l.locks[i]
  PROVE  LockReads(m, i, c, spot)
<1> DEFINE faces == l.locks[i].faces
<1>1. faces \in FacesBelow(Len(l.verts)) /\ ReadFaces(l.verts, faces, spot) = MadeOf(c) /\ l.locks[i].code = c
  BY DEF LockReads
<1>2. m.locks[i].faces = faces /\ m.locks[i].code = c
  BY <1>1
<1> HIDE DEF faces
<1>3. faces \in FacesBelow(Len(m.verts)) /\ ReadFaces(m.verts, faces, spot) = ReadFaces(l.verts, faces, spot)
  BY <1>1, ReadStays
<1> QED BY <1>1, <1>2, <1>3 DEF LockReads

\* A name begins a lock without triangles.
LEMMA NameBegins ==
  ASSUME NEW n \in Nat, NEW l, Lines(l, n), NEW c \in Nat \ {0}
  PROVE  /\ Lines(WithName(l, c), n + 1)
         /\ WithName(l, c).verts = l.verts
         /\ \A i \in 1..n : WithName(l, c).locks[i] = l.locks[i]
         /\ WithName(l, c).locks[n + 1] = [code |-> c, faces |-> <<>>]
<1> DEFINE lock == [code |-> c, faces |-> <<>>]
           locks == l.locks
<1>1. /\ locks \in Seq(WrittenLocks) /\ Len(locks) = n
  BY DEF Lines
<1>2. lock \in WrittenLocks
  BY DEF WrittenLocks
<1>3. /\ WithName(l, c).locks = Append(locks, lock)
      /\ WithName(l, c).verts = l.verts /\ WithName(l, c).voff = l.voff
  BY DEF WithName
<1> HIDE DEF lock, locks
<1>4. /\ Append(locks, lock) \in Seq(WrittenLocks) /\ Len(Append(locks, lock)) = n + 1
      /\ \A i \in 1..n : Append(locks, lock)[i] = locks[i]
      /\ Append(locks, lock)[n + 1] = lock
  BY <1>1, <1>2, AppendProperties
<1>5. Lines(WithName(l, c), n + 1)
  BY <1>3, <1>4 DEF Lines
<1> QED BY <1>3, <1>4, <1>5 DEF lock, locks

\* A lock that is added reads as it was made, and so do those before it.
LEMMA LockIsAdded ==
  ASSUME NEW n \in Nat, NEW l, Lines(l, n), NEW c \in Nat \ {0}, BodyOf[c] \in Stls, NumberOf[c] \in Stls,
         NEW spot \in Places, NEW m,
         m = WithPart(WithPart(WithName(l, c), BodyOf[c], 0, spot), NumberOf[c], 1, spot)
  PROVE  /\ Lines(m, n + 1)
         /\ LockReads(m, n + 1, c, spot)
         /\ \A i \in 1..n : \A d, s : LockReads(l, i, d, s) => LockReads(m, i, d, s)
<1> DEFINE a == WithName(l, c)
           b == WithPart(a, BodyOf[c], 0, spot)
           z == n + 1
<1>1. /\ Lines(a, z) /\ a.verts = l.verts
      /\ \A i \in 1..n : a.locks[i] = l.locks[i]
      /\ a.locks[z] = [code |-> c, faces |-> <<>>]
  BY NameBegins
<1>2. z \in Nat \ {0} /\ \A i \in 1..n : i \in 1..(z - 1)
  OBVIOUS
<1>3. m = WithPart(b, NumberOf[c], 1, spot) /\ b = WithPart(a, BodyOf[c], 0, spot)
  OBVIOUS
<1> HIDE DEF a, b, z
<1>4. a.locks[z].code = c /\ a.locks[z].faces = <<>>
  BY <1>1
<1>5. a.locks[z].faces \in FacesBelow(Len(a.verts))
  BY <1>4 DEF FacesBelow
<1>6. Lines(b, z) /\ GoesOn(a, b, z, spot, Made(BodyOf[c], 0))
  BY <1>1, <1>2, <1>3, <1>5, PartGoesOn
<1>7. b.locks[z].faces \in FacesBelow(Len(b.verts))
  BY <1>6 DEF GoesOn
<1>8. Lines(m, z) /\ GoesOn(b, m, z, spot, Made(NumberOf[c], 1))
  BY <1>2, <1>3, <1>6, <1>7, PartGoesOn
<1>9. /\ a.verts \in Seq(PaintedPoints) /\ b.verts \in Seq(PaintedPoints) /\ m.verts \in Seq(PaintedPoints)
      /\ Len(a.verts) \in Nat /\ Len(b.verts) \in Nat /\ Len(m.verts) \in Nat
  BY <1>1, <1>6, <1>8, LenProperties DEF Lines
<1>10. LockReads(m, z, c, spot)
  <2>1. ReadFaces(a.verts, a.locks[z].faces, spot) = <<>>
    BY <1>4 DEF ReadFaces
  <2>2. <<>> \o Made(BodyOf[c], 0) = Made(BodyOf[c], 0)
    BY MadeParts, ConcatEmptySeq
  <2>3. ReadFaces(b.verts, b.locks[z].faces, spot) = Made(BodyOf[c], 0)
    BY <1>6, <2>1, <2>2 DEF GoesOn
  <2>4. ReadFaces(m.verts, m.locks[z].faces, spot) = MadeOf(c)
    BY <1>8, <2>3 DEF GoesOn, MadeOf
  <2>5. m.locks[z].code = c /\ m.locks[z].faces \in FacesBelow(Len(m.verts))
    BY <1>4, <1>6, <1>8 DEF GoesOn
  <2> QED BY <2>4, <2>5 DEF LockReads
<1>11. ASSUME NEW i \in 1..n, NEW d, NEW s, LockReads(l, i, d, s) PROVE LockReads(m, i, d, s)
  <2>1. BeginWith(m.verts, l.verts)
    <3>1. Len(a.verts) <= Len(b.verts) /\ \A j \in 1..Len(a.verts) : b.verts[j] = a.verts[j]
      BY <1>6 DEF GoesOn, BeginWith
    <3>2. Len(b.verts) <= Len(m.verts) /\ \A j \in 1..Len(b.verts) : m.verts[j] = b.verts[j]
      BY <1>8 DEF GoesOn, BeginWith
    <3>3. Len(a.verts) <= Len(m.verts)
      BY <1>9, <3>1, <3>2
    <3>4. ASSUME NEW j \in 1..Len(a.verts) PROVE m.verts[j] = a.verts[j]
      <4>1. j \in 1..Len(b.verts)
        BY <1>9, <3>1
      <4> QED BY <3>1, <3>2, <4>1
    <3> QED BY <1>1, <3>3, <3>4 DEF BeginWith
  <2>2. m.locks[i] = l.locks[i]
    BY <1>1, <1>2, <1>6, <1>8 DEF GoesOn
  <2> QED BY <1>1, <1>9, <1>11, <2>1, <2>2, LockStays
<1> QED BY <1>8, <1>10, <1>11 DEF z

(***************************************************************************)
(* The export's invariant.  What is asked for is what is rendered, and     *)
(* what the builder's loop has written is a function of k.                 *)
(***************************************************************************)
Working == pc \in {"render", "build"}

CodesInv ==
  /\ pc \in {"idle", "render", "build", "answered"}
  /\ req \in Requests \cup {NoRequest}
  /\ codes \in Seq(Nat \ {0})
  /\ reply \in [http : {0, 200, 400, 422, 500}, fits : BOOLEAN]
  /\ reply.http = 200 => pc = "answered"
  /\ Working \/ reply.http = 200 => req \in Requests /\ AsAsked(req, codes)

\* What is rendered after n turns, and in the end.
Part(j) == IF j % 2 = 0 THEN "body" ELSE "number"
RenderedBy(cs, n) == {<<cs[(j \div 2) + 1], Part(j)>> : j \in 0..(n - 1)}
AllParts(cs) == {cs[i] : i \in DOMAIN cs} \X {"body", "number"}

RenderedInv ==
  /\ k \in 0..(2 * Len(codes))
  /\ pc = "idle" => k = 0
  /\ ~Working => rendered = {}
  /\ pc = "render" => rendered = RenderedBy(codes, k)
  /\ pc = "build" => rendered = AllParts(codes) /\ k <= Len(codes)

\* The objects and the lines of n locks.
ObjectOf(r, cs, i) ==
  [id |-> IF r.fmt = "3mf" THEN i + 1 ELSE CompId(i), code |-> cs[i], mesh |-> MeshOf(cs[i])]

Objects(r, cs, n) == [i \in 1..n |-> ObjectOf(r, cs, i)]

LinesOf(l, cs, ss) ==
  /\ Lines(l, Len(ss))
  /\ \A i \in 1..Len(ss) : LockReads(l, i, cs[i], ss[i])

LoopInv ==
  /\ pc \in {"idle", "render"} => objects = <<>> /\ lines = NoLines
  /\ pc = "build" \/ reply.http = 200 =>
       IF req.fmt = "obj" THEN LinesOf(lines, codes, spots) ELSE objects = Objects(req, codes, Len(spots))

FileInv ==
  /\ reply.http # 200 => file = NoFile
  /\ reply.http = 200 =>
       /\ Len(spots) = Len(codes)
       /\ file = CASE req.fmt = "3mf" -> Model3mf(objects)
                   [] req.fmt = "p1s" -> P1SProject(objects)
                   [] req.fmt = "obj" -> [fmt |-> "obj", verts |-> lines.verts, locks |-> lines.locks]

ExportInv == LayoutInv /\ CodesInv /\ RenderedInv /\ LoopInv /\ FileInv

\* Every step keeps what is asked for,
LEMMA CodesStep == CodesInv /\ [Next]_vars => CodesInv'
<1> SUFFICES ASSUME CodesInv, [Next]_vars PROVE CodesInv'
  OBVIOUS
<1> USE DEF Working
<1>1. CASE Receives
  <2>1. req' \in Requests /\ (req'.by = "codes" => ~NotCodes(req')) /\ codes' = CodeList(req')
    BY <1>1 DEF Receives
  <2>2. AsAsked(req', codes')
    BY <2>1, CodesAsAsked
  <2>3. codes' \in Seq(Nat \ {0})
    BY <2>2 DEF AsAsked
  <2> QED BY <1>1, <2>1, <2>2, <2>3 DEF Receives, CodesInv
<1>2. CASE Refuses
  <2>1. pc = "idle" /\ req' \in Requests /\ (Answers(400, FALSE) \/ Answers(422, FALSE)) /\ codes' = codes
    BY <1>2 DEF Refuses
  <2>2. reply' \in [http : {0, 200, 400, 422, 500}, fits : BOOLEAN] /\ reply'.http # 200 /\ pc' = "answered"
    <3>1. CASE Answers(400, FALSE)
      BY <3>1 DEF Answers
    <3>2. CASE Answers(422, FALSE)
      BY <3>2 DEF Answers
    <3> QED BY <2>1, <3>1, <3>2
  <2> QED BY <2>1, <2>2 DEF CodesInv
<1>3. CASE Clears
  BY <1>3 DEF Clears, CodesInv, NoReply
<1>4. CASE Renders
  BY <1>4 DEF Renders, CodesInv
<1>5. CASE RenderFails
  BY <1>5 DEF RenderFails, Fails, Answers, CodesInv
<1>6. CASE StartsBuild
  BY <1>6 DEF StartsBuild, CodesInv
<1>7. CASE BuildFails
  BY <1>7 DEF BuildFails, Fails, Answers, CodesInv
<1>8. CASE AddsObject
  BY <1>8 DEF AddsObject, CodesInv
<1>9. CASE AddsLines
  BY <1>9 DEF AddsLines, CodesInv
<1>10. CASE Writes
  <2>1. Fits(grid, Len(codes)) \in BOOLEAN
    BY DEF Fits
  <2> QED BY <1>10, <2>1 DEF Writes, Answers, CodesInv
<1>11. CASE UNCHANGED vars
  BY <1>11 DEF vars, CodesInv
<1> QED BY <1>1, <1>2, <1>3, <1>4, <1>5, <1>6, <1>7, <1>8, <1>9, <1>10, <1>11 DEF Next

\* One turn renders one part more; after the last turn all are there.
LEMMA RenderedGrows ==
  ASSUME NEW cs, NEW n \in Nat
  PROVE  RenderedBy(cs, n + 1) = RenderedBy(cs, n) \cup {<<cs[(n \div 2) + 1], Part(n)>>}
<1>1. 0..((n + 1) - 1) = (0..(n - 1)) \cup {n}
  OBVIOUS
<1> QED BY <1>1 DEF RenderedBy

\* Nothing else is rendered, and in the end everything.
LEMMA RenderedInTheEnd ==
  ASSUME NEW cs \in Seq(Nat \ {0})
  PROVE  /\ \A n \in 0..(2 * Len(cs)) : RenderedBy(cs, n) \subseteq AllParts(cs)
         /\ RenderedBy(cs, 2 * Len(cs)) = AllParts(cs)
<1> DEFINE m == Len(cs)
<1>1. m \in Nat /\ DOMAIN cs = 1..m
  OBVIOUS
<1>2. AllParts(cs) = {cs[i] : i \in DOMAIN cs} \X {"body", "number"}
  BY DEF AllParts
<1> HIDE DEF m
<1>3. ASSUME NEW n \in 0..(2 * m), NEW x \in RenderedBy(cs, n) PROVE x \in AllParts(cs)
  <2>1. PICK j \in 0..(n - 1) : x = <<cs[(j \div 2) + 1], Part(j)>>
    BY DEF RenderedBy
  <2>2. (j \div 2) + 1 \in 1..m
    BY <1>1
  <2> QED BY <1>1, <1>2, <2>1, <2>2 DEF Part
<1>4. ASSUME NEW x \in AllParts(cs) PROVE x \in RenderedBy(cs, 2 * m)
  <2>1. PICK i \in 1..m, p \in {"body", "number"} : x = <<cs[i], p>>
    BY <1>1, <1>2
  <2>2. CASE p = "body"
    <3> DEFINE j == 2 * (i - 1)
    <3>1. j \in 0..(2 * m - 1) /\ (j \div 2) + 1 = i /\ j % 2 = 0
      BY <1>1
    <3> HIDE DEF j
    <3>2. x = <<cs[(j \div 2) + 1], Part(j)>>
      BY <2>1, <2>2, <3>1 DEF Part
    <3> QED BY <3>1, <3>2 DEF RenderedBy
  <2>3. CASE p = "number"
    <3> DEFINE j == 2 * (i - 1) + 1
    <3>1. j \in 0..(2 * m - 1) /\ (j \div 2) + 1 = i /\ j % 2 = 1
      BY <1>1
    <3> HIDE DEF j
    <3>2. x = <<cs[(j \div 2) + 1], Part(j)>>
      BY <2>1, <2>3, <3>1 DEF Part
    <3> QED BY <3>1, <3>2 DEF RenderedBy
  <2> QED BY <2>1, <2>2, <2>3
<1>5. 2 * m \in 0..(2 * m)
  BY <1>1
<1> QED BY <1>3, <1>4, <1>5 DEF m

\* what is rendered,
LEMMA RenderedStep == CodesInv /\ RenderedInv /\ [Next]_vars => RenderedInv'
<1> SUFFICES ASSUME CodesInv, RenderedInv, [Next]_vars PROVE RenderedInv'
  OBVIOUS
<1> USE DEF Working
<1>0. k \in Nat /\ Len(codes) \in Nat /\ pc \in {"idle", "render", "build", "answered"}
  BY DEF CodesInv, RenderedInv
<1>1. CASE Receives
  <2>1. rendered' = {} /\ k' = 0 /\ pc' = "render"
    BY <1>1 DEF Receives, RenderedInv
  <2>2. RenderedBy(codes', 0) = {}
    BY DEF RenderedBy
  <2>3. Len(codes') \in Nat
    <3>1. req' \in Requests /\ (req'.by = "codes" => ~NotCodes(req')) /\ codes' = CodeList(req')
      BY <1>1 DEF Receives
    <3>2. codes' \in Seq(Nat \ {0})
      BY <3>1, CodesAsAsked DEF AsAsked
    <3> QED BY <3>2
  <2> QED BY <2>1, <2>2, <2>3 DEF RenderedInv
<1>2. CASE Refuses
  BY <1>2 DEF Refuses, Answers, RenderedInv
<1>3. CASE Clears
  BY <1>3 DEF Clears, RenderedInv
<1>4. CASE Renders
  <2>1. rendered' = RenderedBy(codes, k + 1)
    <3>1. rendered' = RenderedBy(codes, k) \cup {<<codes[(k \div 2) + 1], Part(k)>>}
      BY <1>4 DEF Renders, RenderedInv, Part
    <3> QED BY <1>0, <3>1, RenderedGrows
  <2> QED BY <1>0, <1>4, <2>1 DEF Renders, RenderedInv
<1>5. CASE RenderFails
  BY <1>5 DEF RenderFails, Fails, Answers, RenderedInv
<1>6. CASE StartsBuild
  <2>1. rendered' = RenderedBy(codes, 2 * Len(codes))
    BY <1>6 DEF StartsBuild, AllRendered, RenderedInv
  <2>2. rendered' = AllParts(codes)
    BY <2>1, RenderedInTheEnd DEF CodesInv
  <2> QED BY <1>0, <1>6, <2>2 DEF StartsBuild, RenderedInv
<1>7. CASE BuildFails
  BY <1>7 DEF BuildFails, Fails, Answers, RenderedInv
<1>8. CASE AddsObject
  BY <1>0, <1>8 DEF AddsObject, RenderedInv
<1>9. CASE AddsLines
  BY <1>0, <1>9 DEF AddsLines, RenderedInv
<1>10. CASE Writes
  BY <1>10 DEF Writes, Answers, RenderedInv
<1>11. CASE UNCHANGED vars
  BY <1>11 DEF vars, RenderedInv
<1> QED BY <1>1, <1>2, <1>3, <1>4, <1>5, <1>6, <1>7, <1>8, <1>9, <1>10, <1>11 DEF Next

\* One element more of a function of its places.
LEMMA OneMore ==
  ASSUME NEW n \in Nat, NEW f, f = [i \in 1..(n + 1) |-> f[i]], NEW s, s = [i \in 1..n |-> f[i]]
  PROVE  Append(s, f[n + 1]) = f
<1> DEFINE S == {f[i] : i \in 1..(n + 1)}
<1>1. \A i \in 1..(n + 1) : f[i] \in S
  OBVIOUS
<1>2. DOMAIN f = 1..(n + 1)
  OBVIOUS
<1> HIDE DEF S
<1>3. s \in [1..n -> S] /\ f \in [1..(n + 1) -> S]
  BY <1>1
<1>4. s \in Seq(S) /\ Len(s) = n /\ f \in Seq(S) /\ Len(f) = n + 1
  <2>1. n + 1 \in Nat
    OBVIOUS
  <2>2. s \in Seq(S) /\ Len(s) = n
    BY <1>3, FunctionIsSeq
  <2>3. f \in Seq(S) /\ Len(f) = n + 1
    BY <1>3, <2>1, FunctionIsSeq
  <2> QED BY <2>2, <2>3
<1>5. \A i \in 1..n : s[i] = f[i]
  OBVIOUS
<1> DEFINE e == f[n + 1]
<1>6. e \in S
  BY <1>1
<1> HIDE DEF e
<1>7. /\ Append(s, e) \in Seq(S) /\ Len(Append(s, e)) = n + 1
      /\ \A i \in 1..n : Append(s, e)[i] = s[i]
      /\ Append(s, e)[n + 1] = e
  BY <1>4, <1>6, AppendProperties
<1>8. ASSUME NEW i \in 1..(n + 1) PROVE Append(s, e)[i] = f[i]
  <2>1. CASE i \in 1..n
    BY <1>5, <1>7, <2>1
  <2>2. CASE i = n + 1
    BY <1>7, <2>2 DEF e
  <2> QED BY <2>1, <2>2
<1>9. Append(s, e) = f
  <2> HIDE DEF e
  <2> DEFINE a == Append(s, e)
  <2>1. a \in Seq(S) /\ Len(a) = n + 1 /\ \A i \in 1..(n + 1) : a[i] = f[i]
    BY <1>7, <1>8
  <2> HIDE DEF a
  <2>2. a = f
    BY <1>4, <2>1, SeqEqual
  <2> QED BY <2>2 DEF a
<1> QED BY <1>9 DEF e

\* One object more.
LEMMA ObjectIsAdded ==
  ASSUME NEW r, NEW cs, NEW n \in Nat
  PROVE  Append(Objects(r, cs, n), ObjectOf(r, cs, n + 1)) = Objects(r, cs, n + 1)
<1> DEFINE f == [i \in 1..(n + 1) |-> ObjectOf(r, cs, i)]
<1>1. f = [i \in 1..(n + 1) |-> f[i]] /\ f[n + 1] = ObjectOf(r, cs, n + 1)
      /\ Objects(r, cs, n) = [i \in 1..n |-> f[i]] /\ Objects(r, cs, n + 1) = f
  BY DEF Objects
<1> HIDE DEF f
<1> QED BY <1>1, OneMore

\* what the loop has written,
LEMMA LoopStep == LayoutInv /\ CodesInv /\ RenderedInv /\ LoopInv /\ [Next]_vars => LoopInv'
<1> SUFFICES ASSUME LayoutInv, CodesInv, RenderedInv, LoopInv, [Next]_vars PROVE LoopInv'
  OBVIOUS
<1>1. CASE Receives
  BY <1>1 DEF Receives, LoopInv, CodesInv
<1>2. CASE Refuses
  <2>1. /\ (Answers(400, FALSE) \/ Answers(422, FALSE))
        /\ UNCHANGED <<codes, spots, objects, lines>>
    BY <1>2 DEF Refuses
  <2>2. reply'.http # 200 /\ pc' = "answered"
    BY <2>1 DEF Answers
  <2> QED BY <2>2 DEF LoopInv
<1>3. CASE Clears
  BY <1>3 DEF Clears, LoopInv, NoReply
<1>4. CASE Renders
  BY <1>4 DEF Renders, LoopInv, CodesInv
<1>5. CASE RenderFails
  BY <1>5 DEF RenderFails, Fails, Answers, LoopInv
<1>6. CASE StartsBuild
  <2>1. /\ objects = <<>> /\ lines = NoLines /\ spots = <<>> /\ pc' = "build"
        /\ UNCHANGED <<req, codes, spots, objects, lines>>
    BY <1>6 DEF StartsBuild, LoopInv, LayoutInv
  <2>2. LinesOf(NoLines, codes, <<>>)
    <3>1. NoLines.verts = <<>> /\ NoLines.locks = <<>> /\ NoLines.voff = 0
      BY DEF NoLines
    <3>2. <<>> \in Seq(PaintedPoints) /\ <<>> \in Seq(WrittenLocks) /\ Len(<<>>) = 0 /\ 1..0 = {}
      OBVIOUS
    <3> QED BY <3>1, <3>2 DEF LinesOf, Lines
  <2>3. Objects(req, codes, Len(<<>>)) = <<>>
    BY DEF Objects
  <2> QED BY <2>1, <2>2, <2>3 DEF LoopInv
<1>7. CASE BuildFails
  BY <1>7 DEF BuildFails, Fails, Answers, LoopInv
<1>8. CASE AddsObject
  <2> DEFINE n == Len(spots)
  <2>1. k = n /\ n \in Nat /\ req.fmt # "obj"
    BY <1>8 DEF AddsObject, LayoutInv
  <2>2. objects = Objects(req, codes, n)
    BY <1>8, <2>1 DEF AddsObject, LoopInv
  <2>3. objects' = Append(objects, ObjectOf(req, codes, n + 1))
    <3>1. ObjectOf(req, codes, k + 1) = [id |-> IF req.fmt = "3mf" THEN k + 2 ELSE CompId(k + 1),
                                         code |-> codes[k + 1], mesh |-> MeshOf(codes[k + 1])]
      BY <2>1 DEF ObjectOf
    <3> QED BY <1>8, <2>1, <3>1 DEF AddsObject
  <2>4. objects' = Objects(req, codes, n + 1)
    BY <2>1, <2>2, <2>3, ObjectIsAdded
  <2>5. Len(spots') = n + 1
    <3>1. spots' = Append(spots, Spot(grid, k)) /\ Spot(grid, k) \in Places /\ spots \in Seq(Places)
      BY <1>8, <2>1, SpotType DEF AddsObject, LayoutInv, Places
    <3> QED BY <3>1
  <2> HIDE DEF n
  <2>6. pc' = "build" /\ req' = req /\ codes' = codes
    BY <1>8 DEF AddsObject
  <2> QED BY <2>1, <2>4, <2>5, <2>6 DEF LoopInv
<1>9. CASE AddsLines
  <2> DEFINE n == Len(spots)
             c == codes[k + 1]
             spot == Spot(grid, k)
  <2>1. /\ k = n /\ n \in Nat /\ req.fmt = "obj" /\ k < Len(codes) /\ Len(codes) \in Nat
        /\ pc = "build" /\ pc' = "build" /\ req' = req /\ codes' = codes
    BY <1>9 DEF AddsLines, LayoutInv, CodesInv
  <2>2. spots \in Seq(Places) /\ spot \in Places
    BY <2>1, SpotType DEF LayoutInv, Places
  <2>3. LinesOf(lines, codes, spots)
    BY <2>1 DEF LoopInv
  <2>4. c \in Nat \ {0} /\ BodyOf[c] \in Stls /\ NumberOf[c] \in Stls
    <3>1. k + 1 \in DOMAIN codes /\ codes \in Seq(Nat \ {0})
      BY <2>1 DEF CodesInv
    <3>2. c \in Nat \ {0} /\ c \in AskedFor(req) /\ req \in Requests
      BY <2>1, <3>1 DEF CodesInv, Working, AsAsked
    <3> QED BY <3>2, MeshesAssumption
  <2>5. lines' = WithPart(WithPart(WithName(lines, c), BodyOf[c], 0, spot), NumberOf[c], 1, spot)
        /\ spots' = Append(spots, spot)
    BY <1>9 DEF AddsLines
  <2>6. c = codes[n + 1]
    BY <2>1
  <2> HIDE DEF n, c, spot
  <2>7. Lines(lines, n) /\ \A i \in 1..n : LockReads(lines, i, codes[i], spots[i])
    BY <2>3 DEF LinesOf, n
  <2>8. /\ Lines(lines', n + 1)
        /\ LockReads(lines', n + 1, c, spot)
        /\ \A i \in 1..n : \A d, s : LockReads(lines, i, d, s) => LockReads(lines', i, d, s)
    BY <2>1, <2>2, <2>4, <2>5, <2>7, LockIsAdded
  <2>9. /\ Len(spots') = n + 1 /\ spots'[n + 1] = spot
        /\ \A i \in 1..n : spots'[i] = spots[i]
    BY <2>2, <2>5, AppendProperties DEF n
  <2>10. ASSUME NEW i \in 1..(n + 1) PROVE LockReads(lines', i, codes[i], spots'[i])
    <3>1. CASE i \in 1..n
      BY <2>7, <2>8, <2>9, <3>1
    <3>2. CASE i = n + 1
      BY <2>6, <2>8, <2>9, <3>2
    <3> QED BY <2>1, <3>1, <3>2
  <2>11. LinesOf(lines', codes, spots')
    BY <2>8, <2>9, <2>10 DEF LinesOf
  <2> QED BY <2>1, <2>11 DEF LoopInv
<1>10. CASE Writes
  BY <1>10 DEF Writes, Answers, LoopInv
<1>11. CASE UNCHANGED vars
  BY <1>11 DEF vars, LoopInv
<1> QED BY <1>1, <1>2, <1>3, <1>4, <1>5, <1>6, <1>7, <1>8, <1>9, <1>10, <1>11 DEF Next

\* and the finished file.
LEMMA FileStep == LayoutInv /\ CodesInv /\ RenderedInv /\ FileInv /\ [Next]_vars => FileInv'
<1> SUFFICES ASSUME LayoutInv, CodesInv, RenderedInv, FileInv, [Next]_vars PROVE FileInv'
  OBVIOUS
<1>0. reply.http = 200 => pc = "answered"
  BY DEF CodesInv
<1>1. CASE Receives
  BY <1>0, <1>1 DEF Receives, FileInv
<1>2. CASE Refuses
  <2>1. /\ (Answers(400, FALSE) \/ Answers(422, FALSE)) /\ pc = "idle" /\ file' = file
    BY <1>2 DEF Refuses
  <2>2. reply'.http # 200
    BY <2>1 DEF Answers
  <2> QED BY <1>0, <2>1, <2>2 DEF FileInv
<1>3. CASE Clears
  BY <1>3 DEF Clears, FileInv, NoReply
<1>4. CASE Renders
  BY <1>0, <1>4 DEF Renders, FileInv
<1>5. CASE RenderFails
  BY <1>0, <1>5 DEF RenderFails, Fails, Answers, FileInv
<1>6. CASE StartsBuild
  BY <1>0, <1>6 DEF StartsBuild, FileInv
<1>7. CASE BuildFails
  BY <1>0, <1>7 DEF BuildFails, Fails, Answers, FileInv
<1>8. CASE AddsObject
  BY <1>0, <1>8 DEF AddsObject, FileInv
<1>9. CASE AddsLines
  BY <1>0, <1>9 DEF AddsLines, FileInv
<1>10. CASE Writes
  <2>1. Len(spots) = Len(codes)
    BY <1>10 DEF Writes, LayoutInv
  <2>2. /\ UNCHANGED <<req, codes, spots, objects, lines>> /\ reply'.http = 200
        /\ file' = CASE req.fmt = "3mf" -> Model3mf(objects)
                     [] req.fmt = "p1s" -> P1SProject(objects)
                     [] req.fmt = "obj" -> [fmt |-> "obj", verts |-> lines.verts, locks |-> lines.locks]
    BY <1>10 DEF Writes, Answers
  <2>3. Model3mf(objects)' = Model3mf(objects) /\ P1SProject(objects)' = P1SProject(objects)
    BY <2>2 DEF Model3mf, P1SProject, PlateBoxes
  <2> QED BY <2>1, <2>2, <2>3 DEF FileInv
<1>11. CASE UNCHANGED vars
  <2>1. Model3mf(objects)' = Model3mf(objects) /\ P1SProject(objects)' = P1SProject(objects)
    BY <1>11 DEF vars, Model3mf, P1SProject, PlateBoxes
  <2> QED BY <1>11, <2>1 DEF vars, FileInv
<1> QED BY <1>1, <1>2, <1>3, <1>4, <1>5, <1>6, <1>7, <1>8, <1>9, <1>10, <1>11 DEF Next

LEMMA ExportAlways == Spec => []ExportInv
<1>1. Init => ExportInv
  <2> SUFFICES ASSUME Init PROVE ExportInv
    OBVIOUS
  <2>1. LayoutInv
    BY DEF Init, LayoutInv, NoGrid, Areas, NoReply
  <2>2. CodesInv /\ RenderedInv
    BY DEF Init, CodesInv, RenderedInv, Working, NoReply
  <2>3. LoopInv /\ FileInv
    BY DEF Init, LoopInv, FileInv, NoReply
  <2> QED BY <2>1, <2>2, <2>3 DEF ExportInv
<1>2. ExportInv /\ [Next]_vars => ExportInv'
  BY LayoutStep, CodesStep, RenderedStep, LoopStep, FileStep DEF ExportInv
<1> QED BY <1>1, <1>2, PTL DEF Spec

(***************************************************************************)
(* THEOREM ExportTypes.  An export's state is what it should be; when the  *)
(* builders begin, the body and the number of every lock are rendered, and *)
(* nothing else.                                                           *)
(***************************************************************************)
THEOREM ExportTypes == Spec => []ExportTypeOK
<1>1. ExportInv => ExportTypeOK
  <2> SUFFICES ASSUME ExportInv PROVE ExportTypeOK
    OBVIOUS
  <2>1. LayoutInv /\ CodesInv /\ RenderedInv
    BY DEF ExportInv
  <2>2. AllParts(codes) = Range(codes) \X {"body", "number"}
    BY DEF AllParts, Range
  <2>3. rendered \subseteq AllParts(codes)
    <3>1. CASE Working
      <4>1. k \in 0..(2 * Len(codes)) => RenderedBy(codes, k) \subseteq AllParts(codes)
        BY <2>1, RenderedInTheEnd DEF CodesInv
      <4> QED BY <2>1, <3>1, <4>1 DEF Working, RenderedInv
    <3>2. CASE ~Working
      BY <2>1, <3>2 DEF RenderedInv
    <3> QED BY <3>1, <3>2
  <2>4. reply.http \in {0, 200, 400, 422, 500} /\ reply.fits \in BOOLEAN
    BY <2>1 DEF CodesInv
  <2> QED BY <2>1, <2>2, <2>3, <2>4 DEF ExportTypeOK, LayoutInv, CodesInv, RenderedInv
<1> QED BY <1>1, ExportAlways, PTL

\* In the finished export there are as many objects as codes.
LEMMA ObjectsParts ==
  ASSUME NEW r, NEW cs, NEW n \in Nat
  PROVE  /\ DOMAIN Objects(r, cs, n) = 1..n /\ Len(Objects(r, cs, n)) = n
         /\ \A i \in 1..n : Objects(r, cs, n)[i] = ObjectOf(r, cs, i)
<1> DEFINE f == Objects(r, cs, n)
<1>1. f = [i \in 1..n |-> ObjectOf(r, cs, i)]
  BY DEF Objects
<1> HIDE DEF f
<1>2. DOMAIN f = 1..n /\ \A i \in 1..n : f[i] = ObjectOf(r, cs, i)
  BY <1>1
<1>3. f \in [1..n -> {f[i] : i \in 1..n}]
  BY <1>1, <1>2
<1>4. Len(f) = n
  BY <1>3, FunctionIsSeq
<1> QED BY <1>2, <1>4 DEF f

\* Ids and file numbers of the P1S project.
LEMMA NumbersOfProject ==
  ASSUME NEW i \in Nat \ {0}
  PROVE  /\ CompId(i) \in Nat \ {0} /\ ObjId(i) \in Nat \ {0}
         /\ FileOf(CompId(i)) = i
         /\ CompId(i) = 2 * i - 1 /\ ObjId(i) = 2 * i
BY DEF CompId, ObjId, FileOf

\* The ids of the meshes and those of what holds them, in one sequence.
LEMMA AllIds ==
  ASSUME NEW n \in Nat, NEW a, a = [i \in 1..n |-> CompId(i)], NEW b, b = [i \in 1..n |-> ObjId(i)]
  PROVE  Distinct(a \o b) /\ Range(a \o b) = 1..(2 * n)
<1> DEFINE s == a \o b
<1>1. ASSUME NEW i \in 1..n
      PROVE  a[i] = 2 * i - 1 /\ b[i] = 2 * i /\ a[i] \in Nat \ {0} /\ b[i] \in Nat \ {0}
  <2>1. i \in Nat \ {0}
    OBVIOUS
  <2>2. CompId(i) \in Nat \ {0} /\ ObjId(i) \in Nat \ {0} /\ CompId(i) = 2 * i - 1 /\ ObjId(i) = 2 * i
    BY <2>1, NumbersOfProject
  <2>3. a[i] = CompId(i) /\ b[i] = ObjId(i)
    OBVIOUS
  <2> QED BY <2>2, <2>3
<1>2. a \in [1..n -> Nat \ {0}] /\ b \in [1..n -> Nat \ {0}]
  BY <1>1
<1>3. a \in Seq(Nat \ {0}) /\ Len(a) = n /\ b \in Seq(Nat \ {0}) /\ Len(b) = n
  BY <1>2, FunctionIsSeq
<1>4. /\ s \in Seq(Nat \ {0}) /\ Len(s) = Len(a) + Len(b)
      /\ \A i \in 1..Len(a) : s[i] = a[i]
      /\ \A i \in 1..Len(b) : s[Len(a) + i] = b[i]
  BY <1>3, ConcatParts
<1> HIDE DEF s
<1>5. DOMAIN s = 1..(2 * n)
  BY <1>3, <1>4
<1>6. \A i \in 1..n : s[i] = 2 * i - 1
  BY <1>1, <1>3, <1>4
<1>7. \A i \in 1..n : s[n + i] = 2 * i
  BY <1>1, <1>3, <1>4
<1>8. ASSUME NEW i \in 1..(2 * n)
      PROVE  \/ i \in 1..n /\ s[i] = 2 * i - 1
             \/ i - n \in 1..n /\ s[i] = 2 * (i - n)
  <2>1. CASE i <= n
    BY <1>6, <2>1
  <2>2. CASE ~(i <= n)
    <3>1. i - n \in 1..n /\ n + (i - n) = i
      BY <2>2
    <3> QED BY <1>7, <3>1
  <2> QED BY <2>1, <2>2
<1>9. ASSUME NEW i \in 1..(2 * n), NEW j \in 1..(2 * n), i # j PROVE s[i] # s[j]
  BY <1>8, <1>9
<1>10. ASSUME NEW x \in 1..(2 * n) PROVE \E i \in 1..(2 * n) : s[i] = x
  <2>1. CASE x % 2 = 0
    <3>1. x \div 2 \in 1..n /\ 2 * (x \div 2) = x /\ n + (x \div 2) \in 1..(2 * n)
      BY <2>1
    <3>2. s[n + (x \div 2)] = 2 * (x \div 2)
      BY <1>7, <3>1
    <3> QED BY <3>1, <3>2
  <2>2. CASE x % 2 = 1
    <3>1. (x + 1) \div 2 \in 1..n /\ 2 * ((x + 1) \div 2) - 1 = x /\ (x + 1) \div 2 \in 1..(2 * n)
      BY <2>2
    <3>2. s[(x + 1) \div 2] = 2 * ((x + 1) \div 2) - 1
      BY <1>6, <3>1
    <3> QED BY <3>1, <3>2
  <2> QED BY <2>1, <2>2
<1>11. ASSUME NEW i \in 1..(2 * n) PROVE s[i] \in 1..(2 * n)
  <2>1. CASE i \in 1..n /\ s[i] = 2 * i - 1
    BY <2>1
  <2>2. CASE i - n \in 1..n /\ s[i] = 2 * (i - n)
    BY <2>2
  <2> QED BY <1>8, <2>1, <2>2
<1>12. Range(s) = 1..(2 * n)
  BY <1>5, <1>10, <1>11 DEF Range
<1>13. Distinct(s)
  BY <1>5, <1>9 DEF Distinct
<1> QED BY <1>12, <1>13 DEF s

(***************************************************************************)
(* THEOREM DocumentsAgree.  Whatever is exported, the documents of a P1S   *)
(* project agree: each of its objects is assembled from the mesh in the    *)
(* file the assembly names, no two from one file, no id is taken twice,    *)
(* and settings, relations, cut entries and boxes are about the same       *)
(* objects.                                                                *)
(***************************************************************************)
THEOREM DocumentsAgree == Spec => []PartsAgree
<1>1. ExportInv => PartsAgree
  <2> SUFFICES ASSUME ExportInv, file.fmt = "p1s" PROVE PartsAgree
    BY DEF PartsAgree
  <2> DEFINE n == Len(spots)
             objs == Objects(req, codes, n)
  <2>1. LayoutInv /\ CodesInv /\ RenderedInv /\ LoopInv /\ FileInv
    BY DEF ExportInv
  <2>2. reply.http = 200
    BY <2>1 DEF FileInv, NoFile
  <2>3. req.fmt = "p1s"
    <3>1. req \in Requests
      BY <2>1, <2>2 DEF CodesInv
    <3>2. req.fmt \in {"3mf", "obj", "p1s"}
      BY <3>1, RequestsAssumption
    <3>3. Model3mf(objects).fmt = "3mf"
      BY DEF Model3mf
    <3> QED BY <2>1, <2>2, <3>2, <3>3 DEF FileInv
  <2>4. objects = objs /\ n \in Nat
    BY <2>1, <2>2, <2>3, LenProperties DEF LoopInv, LayoutInv
  <2>5. file = P1SProject(objs)
    BY <2>1, <2>2, <2>3, <2>4 DEF FileInv
  <2>6. /\ DOMAIN objs = 1..n /\ Len(objs) = n
        /\ \A i \in 1..n : objs[i] = ObjectOf(req, codes, i)
    BY <2>4, ObjectsParts
  <2> HIDE DEF objs, n
  <2>7. \A i \in 1..n : objs[i].id = CompId(i) /\ objs[i].code = codes[i]
    BY <2>3, <2>6 DEF ObjectOf
  <2>8. /\ file.objectFiles = objs /\ file.assembly = Assembly(objs)
        /\ file.items = [i \in 1..n |-> [id |-> ObjId(i), at |-> spots[i]]]
        /\ file.settings = ModelSettings(objs) /\ file.boxes = PlateBoxes(objs)
        /\ file.rels = 1..n /\ file.cuts = 1..(2 * n)
    BY <2>5, <2>6 DEF P1SProject
  <2> DEFINE asm == file.assembly
             set == file.settings
             box == file.boxes
             items == file.items
  <2>9. /\ DOMAIN asm = 1..n
        /\ \A i \in 1..n : asm[i].id = ObjId(i) /\ asm[i].file = i /\ asm[i].part = CompId(i)
    <3>1. asm = [i \in 1..n |-> [id |-> ObjId(i), file |-> FileOf(objs[i].id), part |-> objs[i].id]]
      BY <2>6, <2>8 DEF Assembly
    <3> HIDE DEF asm
    <3>2. ASSUME NEW i \in 1..n PROVE asm[i].id = ObjId(i) /\ asm[i].file = i /\ asm[i].part = CompId(i)
      <4>1. FileOf(CompId(i)) = i
        BY NumbersOfProject
      <4> QED BY <2>7, <3>1, <4>1
    <3> QED BY <3>1, <3>2
  <2>10. /\ DOMAIN set = 1..n
         /\ \A i \in 1..n : /\ set[i].id = ObjId(i) /\ set[i].name = codes[i] /\ set[i].part = CompId(i)
                            /\ set[i].faces = Len(objs[i].mesh.tris)
    <3>1. set = [i \in 1..n |-> [id |-> ObjId(i), name |-> objs[i].code, part |-> objs[i].id,
                                 faces |-> Len(objs[i].mesh.tris)]]
      BY <2>6, <2>8 DEF ModelSettings
    <3> HIDE DEF set
    <3> QED BY <2>7, <3>1
  <2>11. /\ DOMAIN box = 1..n
         /\ \A i \in 1..n : box[i].name = codes[i] /\ box[i].x = spots[i].x /\ box[i].y = spots[i].y
    <3>1. box = [i \in 1..n |-> [name |-> objs[i].code, x |-> spots[i].x, y |-> spots[i].y]]
      BY <2>6, <2>8 DEF PlateBoxes
    <3> HIDE DEF box
    <3> QED BY <2>7, <3>1
  <2>12. DOMAIN items = 1..n /\ \A i \in 1..n : items[i].id = ObjId(i) /\ items[i].at = spots[i]
    BY <2>8
  <2>13. file.objectFiles = objs /\ file.rels = 1..n /\ file.cuts = 1..(2 * n)
    BY <2>8
  <2> HIDE DEF asm, set, box, items
  <2>14. \A i \in DOMAIN asm : asm[i].file \in DOMAIN objs /\ objs[asm[i].file].id = asm[i].part
    BY <2>6, <2>7, <2>9
  <2>15. Distinct([i \in DOMAIN asm |-> asm[i].file])
    BY <2>9 DEF Distinct
  <2>16. /\ Ids(objs) = [i \in 1..n |-> CompId(i)] /\ Ids(asm) = [i \in 1..n |-> ObjId(i)]
         /\ Ids(items) = [i \in 1..n |-> ObjId(i)] /\ Ids(set) = [i \in 1..n |-> ObjId(i)]
    BY <2>6, <2>7, <2>9, <2>10, <2>12 DEF Ids
  <2>17. Distinct(Ids(objs) \o Ids(asm)) /\ Range(Ids(objs) \o Ids(asm)) = 1..(2 * n)
    BY <2>4, <2>16, AllIds
  <2>18. \A i \in DOMAIN set : set[i].part = asm[i].part /\ set[i].faces = Len(objs[asm[i].file].mesh.tris)
    BY <2>9, <2>10
  <2>19. \A i \in DOMAIN box : box[i].name = set[i].name /\ items[i].at = [x |-> box[i].x, y |-> box[i].y]
    <3>1. ASSUME NEW i \in 1..n PROVE spots[i] = [x |-> spots[i].x, y |-> spots[i].y]
      <4>1. spots[i] \in [x : Int, y : Int]
        BY <2>1, SeqParts DEF LayoutInv, n
      <4> QED BY <4>1
    <3> QED BY <2>10, <2>11, <2>12, <3>1
  <2> QED BY <2>6, <2>13, <2>14, <2>15, <2>16, <2>17, <2>18, <2>19 DEF PartsAgree, asm, set, box, items
<1> QED BY <1>1, ExportAlways, PTL

\* Who has an id of its own is found by it.
LEMMA FoundById ==
  ASSUME NEW things, NEW i \in DOMAIN things, \A j \in DOMAIN things : j # i => things[j].id # things[i].id,
         NEW id, id = things[i].id
  PROVE  ById(things, id) = things[i]
<1>1. things[i] \in Range(things) /\ things[i].id = id
  BY DEF Range
<1>2. ASSUME NEW x \in Range(things), x.id = id PROVE x = things[i]
  <2>1. PICK j \in DOMAIN things : x = things[j]
    BY DEF Range
  <2> QED BY <1>2, <2>1
<1> QED BY <1>1, <1>2 DEF ById

\* Of each of the files a slicer reads n locks, each as it was made.
Reads(locks, cs, n) ==
  /\ DOMAIN locks = 1..n
  /\ \A i \in 1..n : locks[i].code = cs[i] /\ locks[i].tris = MadeOf(cs[i])

\* An object holds the mesh of its lock.
LEMMA ReadsObjects ==
  ASSUME NEW r, NEW cs, NEW n \in Nat, NEW i \in 1..n, BodyOf[cs[i]] \in Stls, NumberOf[cs[i]] \in Stls
  PROVE  /\ Objects(r, cs, n)[i].code = cs[i]
         /\ Seen(Objects(r, cs, n)[i].mesh) = MadeOf(cs[i])
<1>1. Objects(r, cs, n)[i] = ObjectOf(r, cs, i)
  BY ObjectsParts
<1>2. ObjectOf(r, cs, i).code = cs[i] /\ ObjectOf(r, cs, i).mesh = Merged(BodyOf[cs[i]], NumberOf[cs[i]])
  BY DEF ObjectOf, MeshOf
<1> QED BY <1>1, <1>2, MergedIsSeen DEF MadeOf

\* 3mf: an item names the object of its lock.
LEMMA Reads3mf ==
  ASSUME NEW r, r.fmt = "3mf", NEW cs, NEW n \in Nat,
         \A i \in 1..n : BodyOf[cs[i]] \in Stls /\ NumberOf[cs[i]] \in Stls
  PROVE  Reads(Read(Model3mf(Objects(r, cs, n))), cs, n)
<1> DEFINE objs == Objects(r, cs, n)
           f == Model3mf(objs)
<1>1. /\ DOMAIN objs = 1..n
      /\ \A i \in 1..n : objs[i] = ObjectOf(r, cs, i)
      /\ \A i \in 1..n : objs[i].code = cs[i] /\ Seen(objs[i].mesh) = MadeOf(cs[i])
  BY ObjectsParts, ReadsObjects
<1> HIDE DEF objs
<1>2. \A i \in 1..n : objs[i].id = i + 1
  BY <1>1 DEF ObjectOf
<1>3. f.fmt = "3mf" /\ f.objects = objs /\ f.items = [i \in 1..n |-> [id |-> objs[i].id, at |-> spots[i]]]
  BY <1>1 DEF Model3mf
<1> HIDE DEF f
<1>4. ASSUME NEW i \in 1..n PROVE ById(objs, f.items[i].id) = objs[i]
  <2>1. f.items[i].id = objs[i].id
    BY <1>3
  <2>2. \A j \in DOMAIN objs : j # i => objs[j].id # objs[i].id
    BY <1>1, <1>2
  <2> QED BY <1>1, <2>1, <2>2, FoundById
<1>5. Read(f) = Read3mf(f)
  BY <1>3 DEF Read
<1>6. Read3mf(f) = [i \in 1..n |-> [code |-> ById(objs, f.items[i].id).code,
                                    tris |-> Seen(ById(objs, f.items[i].id).mesh)]]
  <2>1. DOMAIN f.items = 1..n
    BY <1>3
  <2> QED BY <1>3, <2>1 DEF Read3mf
<1> DEFINE locks == Read3mf(f)
<1>7. locks = Read3mf(f)
  OBVIOUS
<1> HIDE DEF locks
<1>8. DOMAIN locks = 1..n /\ \A i \in 1..n : locks[i].code = cs[i] /\ locks[i].tris = MadeOf(cs[i])
  <2>1. ASSUME NEW i \in 1..n PROVE locks[i] = [code |-> objs[i].code, tris |-> Seen(objs[i].mesh)]
    BY <1>4, <1>6, <1>7
  <2>2. DOMAIN locks = 1..n
    BY <1>6, <1>7
  <2> QED BY <1>1, <2>1, <2>2
<1> QED BY <1>5, <1>8, <1>7 DEF Reads, f, objs

\* P1S: an item names what is assembled from the file of its lock.
LEMMA ReadsProject ==
  ASSUME NEW r, r.fmt = "p1s", NEW cs, NEW n \in Nat,
         \A i \in 1..n : BodyOf[cs[i]] \in Stls /\ NumberOf[cs[i]] \in Stls
  PROVE  Reads(Read(P1SProject(Objects(r, cs, n))), cs, n)
<1> DEFINE objs == Objects(r, cs, n)
           f == P1SProject(objs)
           asm == f.assembly
           set == f.settings
<1>1. /\ DOMAIN objs = 1..n
      /\ \A i \in 1..n : objs[i] = ObjectOf(r, cs, i)
      /\ \A i \in 1..n : objs[i].code = cs[i] /\ Seen(objs[i].mesh) = MadeOf(cs[i])
  BY ObjectsParts, ReadsObjects
<1> HIDE DEF objs
<1>2. \A i \in 1..n : objs[i].id = CompId(i)
  BY <1>1 DEF ObjectOf
<1>3. /\ f.fmt = "p1s" /\ f.objectFiles = objs
      /\ f.items = [i \in 1..n |-> [id |-> ObjId(i), at |-> spots[i]]]
      /\ asm = [i \in 1..n |-> [id |-> ObjId(i), file |-> FileOf(objs[i].id), part |-> objs[i].id]]
      /\ set = [i \in 1..n |-> [id |-> ObjId(i), name |-> objs[i].code, part |-> objs[i].id,
                                faces |-> Len(objs[i].mesh.tris)]]
  BY <1>1 DEF P1SProject, Assembly, ModelSettings
<1>4. DOMAIN f.items = 1..n /\ f.assembly = asm /\ f.settings = set
  BY <1>3
<1> HIDE DEF f, asm, set
<1>5. ASSUME NEW i \in 1..n
      PROVE  ById(set, f.items[i].id).name = cs[i] /\ f.objectFiles[ById(asm, f.items[i].id).file] = objs[i]
  <2>1. \A j \in 1..n : f.items[j].id = ObjId(j) /\ asm[j].id = ObjId(j) /\ set[j].id = ObjId(j)
    BY <1>3
  <2>2. DOMAIN asm = 1..n /\ DOMAIN set = 1..n
    BY <1>3
  <2>3. \A j \in 1..n : j # i => ObjId(j) # ObjId(i)
    BY DEF ObjId
  <2>4. ById(asm, f.items[i].id) = asm[i] /\ ById(set, f.items[i].id) = set[i]
    BY <2>1, <2>2, <2>3, FoundById
  <2>5. set[i].name = objs[i].code /\ asm[i].file = FileOf(objs[i].id)
    BY <1>3
  <2>6. FileOf(CompId(i)) = i
    BY NumbersOfProject
  <2> QED BY <1>1, <1>2, <1>3, <2>4, <2>5, <2>6
<1>6. Read(f) = ReadP1S(f)
  BY <1>3 DEF Read
<1> DEFINE locks == ReadP1S(f)
<1>7. locks = [i \in 1..n |-> [code |-> ById(set, f.items[i].id).name,
                               tris |-> Seen(f.objectFiles[ById(asm, f.items[i].id).file].mesh)]]
  BY <1>4 DEF ReadP1S
<1> HIDE DEF locks
<1>8. DOMAIN locks = 1..n /\ \A i \in 1..n : locks[i].code = cs[i] /\ locks[i].tris = MadeOf(cs[i])
  <2>1. ASSUME NEW i \in 1..n PROVE locks[i] = [code |-> cs[i], tris |-> Seen(objs[i].mesh)]
    BY <1>5, <1>7
  <2> QED BY <1>1, <1>7, <2>1
<1> QED BY <1>6, <1>8 DEF Reads, f, objs, locks

\* OBJ: the lines of a lock are those under its name.
LEMMA ReadsLines ==
  ASSUME NEW l, NEW cs, LinesOf(l, cs, spots), Len(spots) \in Nat
  PROVE  Reads(Read([fmt |-> "obj", verts |-> l.verts, locks |-> l.locks]), cs, Len(spots))
<1> DEFINE n == Len(spots)
           f == [fmt |-> "obj", verts |-> l.verts, locks |-> l.locks]
<1>1. f.fmt = "obj" /\ f.verts = l.verts /\ f.locks = l.locks
  OBVIOUS
<1>2. DOMAIN l.locks = 1..n
  BY DEF LinesOf, Lines
<1> HIDE DEF f
<1> DEFINE locks == ReadObj(f)
<1>3. Read(f) = locks
  BY <1>1 DEF Read
<1>4. locks = [i \in 1..n |-> [code |-> l.locks[i].code, tris |-> ReadFaces(l.verts, l.locks[i].faces, spots[i])]]
  BY <1>1, <1>2 DEF ReadObj
<1>5. \A i \in 1..n : LockReads(l, i, cs[i], spots[i])
  BY DEF LinesOf
<1> HIDE DEF locks
<1>6. DOMAIN locks = 1..n /\ \A i \in 1..n : locks[i].code = cs[i] /\ locks[i].tris = MadeOf(cs[i])
  BY <1>4, <1>5 DEF LockReads
<1> QED BY <1>3, <1>6 DEF Reads, f

(***************************************************************************)
(* THEOREM FilesReadAsAsked.  Every file an export has told the name of    *)
(* reads back as what was asked, whatever the codes, the meshes, the       *)
(* plate and the format: each code once and in order, each with the        *)
(* triangles of its own body and number in their colours.                  *)
(***************************************************************************)
THEOREM FilesReadAsAsked == Spec => []FileReadsAsAsked
<1>1. ExportInv => FileReadsAsAsked
  <2> SUFFICES ASSUME ExportInv, reply.http = 200 PROVE FileReadsAsAsked
    BY DEF FileReadsAsAsked
  <2> DEFINE n == Len(spots)
             locks == Read(file)
  <2>1. LayoutInv /\ CodesInv /\ RenderedInv /\ LoopInv /\ FileInv
    BY DEF ExportInv
  <2>2. /\ req \in Requests /\ AsAsked(req, codes)
        /\ codes \in Seq(Nat \ {0}) /\ n \in Nat /\ Len(codes) = n /\ DOMAIN codes = 1..n
    BY <2>1, LenProperties DEF CodesInv, FileInv, LayoutInv
  <2>3. req.fmt \in {"3mf", "obj", "p1s"}
    BY <2>2, RequestsAssumption
  <2>4. ASSUME NEW i \in 1..n PROVE BodyOf[codes[i]] \in Stls /\ NumberOf[codes[i]] \in Stls
    <3>1. codes[i] \in AskedFor(req) \ {0}
      BY <2>2 DEF AsAsked
    <3> QED BY <2>2, <3>1, MeshesAssumption
  <2>5. Reads(locks, codes, n)
    <3>1. CASE req.fmt = "3mf"
      <4>1. file = Model3mf(Objects(req, codes, n))
        BY <2>1, <3>1 DEF LoopInv, FileInv
      <4> QED BY <2>2, <2>4, <3>1, <4>1, Reads3mf
    <3>2. CASE req.fmt = "p1s"
      <4>1. file = P1SProject(Objects(req, codes, n))
        BY <2>1, <3>2 DEF LoopInv, FileInv
      <4> QED BY <2>2, <2>4, <3>2, <4>1, ReadsProject
    <3>3. CASE req.fmt = "obj"
      <4>1. /\ file = [fmt |-> "obj", verts |-> lines.verts, locks |-> lines.locks]
            /\ LinesOf(lines, codes, spots)
        BY <2>1, <3>3 DEF LoopInv, FileInv
      <4>2. Reads(Read(file), codes, Len(spots))
        BY <2>2, <4>1, ReadsLines
      <4> QED BY <4>2
    <3> QED BY <2>3, <3>1, <3>2, <3>3
  <2> HIDE DEF n, locks
  <2>6. DOMAIN locks = DOMAIN codes /\ \A i \in DOMAIN codes : locks[i].code = codes[i]
    BY <2>2, <2>5 DEF Reads
  <2>7. {locks[i].code : i \in DOMAIN locks} = AskedFor(req)
    BY <2>2, <2>6 DEF AsAsked
  <2>8. \A i, j \in DOMAIN locks : i < j => Before(req, locks[i].code, locks[j].code)
    BY <2>2, <2>6 DEF AsAsked
  <2>9. \A i \in DOMAIN locks :
          locks[i].tris = Made(BodyOf[locks[i].code], 0) \o Made(NumberOf[locks[i].code], 1)
    <3>1. \A i \in DOMAIN codes : locks[i].tris = MadeOf(codes[i])
      BY <2>2, <2>5 DEF Reads
    <3>2. ASSUME NEW i \in DOMAIN locks
          PROVE  locks[i].tris = Made(BodyOf[locks[i].code], 0) \o Made(NumberOf[locks[i].code], 1)
      <4>1. locks[i].code = codes[i] /\ locks[i].tris = MadeOf(codes[i])
        BY <2>6, <3>1
      <4> QED BY <4>1 DEF MadeOf
    <3> QED BY <3>2
  <2> QED BY <2>7, <2>8, <2>9 DEF FileReadsAsAsked, locks
<1> QED BY <1>1, ExportAlways, PTL
==============================================================================
