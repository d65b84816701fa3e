-------------------------------- MODULE Meshes -------------------------------
(***************************************************************************)
(* The meshes of app/threemf.py.  OpenSCAD's binary STL is a sequence of   *)
(* triangles, each with its three points written out; the exports number   *)
(* the points, count those in the same cell of 1e-5 mm as one, and join    *)
(* the body of a lock and its number into one mesh of painted triangles.   *)
(* A coordinate is a number of a third of a cell, so that there are points *)
(* beside a cell's middle and none on an edge.                             *)
(***************************************************************************)
EXTENDS Integers, Sequences, FiniteSets

Stls == Seq([1..3 -> Int \X Int \X Int])

Nearest(x) == (x + 1) \div 3

Cell(p) == <<Nearest(p[1]), Nearest(p[2]), Nearest(p[3])>>

\* A set of numbers in ascending order.
Sorted(S) == [i \in 1..Cardinality(S) |-> CHOOSE c \in S : Cardinality({d \in S : d < c}) = i - 1]

\* Where a loop that remembers what it has seen meets something new.
FirstPlaces(keys) == Sorted({i \in DOMAIN keys : \A j \in 1..(i - 1) : keys[j] # keys[i]})

Points(stl) == [n \in 1..(3 * Len(stl)) |-> stl[((n - 1) \div 3) + 1][((n - 1) % 3) + 1]]

\* load_binary_stl: the first point of each cell stands for it.
Vertices(stl) ==
  LET points == Points(stl)
      first == FirstPlaces([n \in DOMAIN points |-> Cell(points[n])])
  IN  [i \in DOMAIN first |-> points[first[i]]]

\* Indices count from 0.
Faces(stl) ==
  LET verts == Vertices(stl)
      Index(p) == (CHOOSE i \in DOMAIN verts : Cell(verts[i]) = Cell(p)) - 1
  IN  [t \in DOMAIN stl |-> [k \in 1..3 |-> Index(stl[t][k])]]

Shifted(face, by) == [k \in 1..3 |-> face[k] + by]

Painted(faces, by, paint) ==
  [t \in DOMAIN faces |-> [corners |-> Shifted(faces[t], by), paint |-> paint]]

\* _merge_colored: paint 0 is the body's, 1 the number's.
Merged(body, number) ==
  [verts |-> Vertices(body) \o Vertices(number),
   tris  |-> Painted(Faces(body), 0, 0) \o Painted(Faces(number), Len(Vertices(body)), 1)]

------------------------------------------------------------------------------
\* What a slicer sees of a mesh, and what OpenSCAD has made.

Seen(mesh) ==
  [t \in DOMAIN mesh.tris |->
     [corners |-> [k \in 1..3 |-> Cell(mesh.verts[mesh.tris[t].corners[k] + 1])],
      paint   |-> mesh.tris[t].paint]]

Made(stl, paint) ==
  [t \in DOMAIN stl |-> [corners |-> [k \in 1..3 |-> Cell(stl[t][k])], paint |-> paint]]
==============================================================================
