-------------------------------- MODULE Export -------------------------------
(***************************************************************************)
(* One multi-colour export: POST /v1/airlocks:threemf, build_threemf of    *)
(* app/service.py, and the three builders behind it.  The locks are        *)
(* rendered one part after the other into a directory of their own, then   *)
(* the builder's loop adds them to the file.  Exports share no state but   *)
(* the output directory, where each draws a name of its own; so the model  *)
(* follows one at a time.                                                  *)
(***************************************************************************)
EXTENDS PlateLayout, Meshes, Functions

CONSTANTS
  Requests,      \* what clients send
  BodyOf, NumberOf,   \* the STLs OpenSCAD makes of a code
  XMin, YMin, LockW, LockH,   \* corner and size of every body's bounding box
  MaxBatch       \* settings.max_batch

ASSUME ExportAssumption ==
  /\ XMin \in Int /\ YMin \in Int
  /\ LockW \in Nat \ {0} /\ LockH \in Nat \ {0}
  /\ MaxBatch \in Nat

\* What ThreeMFRequest lets through.
ASSUME RequestsAssumption ==
  \A r \in Requests :
    /\ r.fmt \in {"3mf", "obj", "p1s"} /\ r.by \in {"codes", "batch"}
    /\ r.codes \in Seq([code : Nat, zeros : BOOLEAN])
    /\ r.batch \subseteq Nat \ {0} /\ IsFiniteSet(r.batch)
    /\ r.plate \in Nat \ {0} /\ r.margin \in Nat /\ r.gap \in Nat

AskedFor(r) == IF r.by = "batch" THEN r.batch ELSE {r.codes[i].code : i \in DOMAIN r.codes}

ASSUME MeshesAssumption ==
  \A r \in Requests : \A c \in AskedFor(r) \ {0} : BodyOf[c] \in Stls /\ NumberOf[c] \in Stls

VARIABLES
  pc,        \* where the export stands
  req,       \* its request
  codes,     \* code_list
  k,         \* turns of the current loop
  rendered,  \* the STLs in the temporary directory
  grid,      \* the area, and the size and gap of what is laid out in it
  spots,     \* where the locks come to lie
  objects,   \* 3mf, p1s: the objects written so far
  lines,     \* obj: the lines written so far, and voff
  file,      \* the finished file
  reply

vars == <<pc, req, codes, k, rendered, grid, spots, objects, lines, file, reply>>

NoRequest == [fmt |-> "none"]
NoFile == [fmt |-> "none"]
NoReply == [http |-> 0, fits |-> FALSE]
NoGrid == [x |-> 0, y |-> 0, xRoom |-> 0, yRoom |-> 0, w |-> 1, h |-> 1, gap |-> 0]
NoLines == [verts |-> <<>>, locks |-> <<>>, voff |-> 0]

Init ==
  /\ pc = "idle"
  /\ req = NoRequest /\ codes = <<>> /\ k = 0 /\ rendered = {}
  /\ grid = NoGrid /\ spots = <<>> /\ objects = <<>> /\ lines = NoLines
  /\ file = NoFile /\ reply = NoReply

\* An export ends: the temporary directory is removed whatever happened.
Answers(http, fits) ==
  /\ pc' = "answered"
  /\ reply' = [http |-> http, fits |-> fits]
  /\ rendered' = {}

Fails(http) ==
  /\ Answers(http, FALSE)
  /\ UNCHANGED <<req, codes, k, grid, spots, objects, lines, file>>
------------------------------------------------------------------------------
(***************************************************************************)
(* The request.  A code is sent with or without its leading zeros, 0       *)
(* stands for what is no code; or a batch is named, of which the registry  *)
(* has some codes.                                                         *)
(***************************************************************************)
NotCodes(r) == \E i \in DOMAIN r.codes : r.codes[i].code = 0

\* Order is kept, repetitions go.
Once(sent) ==
  LET first == FirstPlaces([i \in DOMAIN sent |-> sent[i].code])
  IN  [i \in DOMAIN first |-> sent[first[i]].code]

\* The registry lists a batch in the order of its codes.
CodeList(r) == IF r.by = "batch" THEN Sorted(r.batch) ELSE Once(r.codes)

Receives ==
  /\ pc = "idle"
  /\ req' \in Requests
  /\ req'.by = "codes" => Len(req'.codes) <= MaxBatch /\ ~NotCodes(req')
  /\ req'.by = "batch" => req'.batch # {}
  /\ codes' = CodeList(req')
  /\ pc' = "render"
  /\ k' = 0
  /\ UNCHANGED <<rendered, grid, spots, objects, lines, file, reply>>

\* Too many codes; what is no code; a batch that is empty or unknown.
Refuses ==
  /\ pc = "idle"
  /\ req' \in Requests
  /\ \/ req'.by = "codes" /\ Len(req'.codes) > MaxBatch /\ Answers(400, FALSE)
     \/ req'.by = "codes" /\ Len(req'.codes) <= MaxBatch /\ NotCodes(req') /\ Answers(422, FALSE)
     \/ req'.by = "batch" /\ req'.batch = {} /\ Answers(422, FALSE)
  /\ UNCHANGED <<codes, k, grid, spots, objects, lines, file>>

\* The next export starts from nothing.
Clears ==
  /\ pc = "answered"
  /\ pc' = "idle"
  /\ req' = NoRequest /\ codes' = <<>> /\ k' = 0
  /\ grid' = NoGrid /\ spots' = <<>> /\ objects' = <<>> /\ lines' = NoLines
  /\ file' = NoFile /\ reply' = NoReply
  /\ UNCHANGED rendered
------------------------------------------------------------------------------
\* Body, then number, of one lock after the other.
Renders ==
  /\ pc = "render"
  /\ k < 2 * Len(codes)
  /\ rendered' = rendered \cup {<<codes[k \div 2 + 1], IF k % 2 = 0 THEN "body" ELSE "number">>}
  /\ k' = k + 1
  /\ UNCHANGED <<pc, req, codes, grid, spots, objects, lines, file, reply>>

\* OpenSCAD fails, or takes too long.
RenderFails ==
  /\ pc = "render"
  /\ k < 2 * Len(codes)
  /\ Fails(500)

\* The P1S bed in thousandths of a millimetre: the locks lie behind the
\* corner that is kept free and left of the prime tower.
P1SArea ==
  [x |-> 10000, y |-> 38000, xRoom |-> 197000 - 8000 - 10000, yRoom |-> 256000 - 8000 - 38000,
   w |-> 39900, h |-> 55854, gap |-> 6000]

\* The square plate of build_3mf and build_obj.
PlateArea(r) ==
  [x |-> r.margin, y |-> r.margin, xRoom |-> r.plate - 2 * r.margin, yRoom |-> r.plate - 2 * r.margin,
   w |-> LockW, h |-> LockH, gap |-> r.gap]

\* Mutant: the last number is still to be rendered.
AllButOneRendered == k = 2 * Len(codes) - 1

AllRendered == k = 2 * Len(codes)

StartsBuild ==
  /\ pc = "render"
  /\ AllRendered
  /\ grid' = IF req.fmt = "p1s" THEN P1SArea ELSE PlateArea(req)
  /\ pc' = "build"
  /\ k' = 0
  /\ UNCHANGED <<req, codes, rendered, spots, objects, lines, file, reply>>

\* An STL is cut short.
BuildFails ==
  /\ pc = "build"
  /\ k < Len(codes)
  /\ Fails(422)
------------------------------------------------------------------------------
(***************************************************************************)
(* The builders' loops.                                                    *)
(***************************************************************************)
MeshOf(c) == Merged(BodyOf[c], NumberOf[c])

\* Object ids of the three formats: in 3mf from 2 on, as 1 is the colour
\* group; in the P1S project 2k-1 for the mesh and 2k for what holds it.
CompId(i) == 2 * i - 1
ObjId(i) == 2 * i

AddsObject ==
  /\ pc = "build"
  /\ req.fmt \in {"3mf", "p1s"}
  /\ k < Len(codes)
  /\ objects' = Append(objects, [id   |-> IF req.fmt = "3mf" THEN k + 2 ELSE CompId(k + 1),
                                 code |-> codes[k + 1],
                                 mesh |-> MeshOf(codes[k + 1])])
  /\ spots' = Append(spots, Spot(grid, k))
  /\ k' = k + 1
  /\ UNCHANGED <<pc, req, codes, rendered, grid, lines, file, reply>>

\* A lock's name; then of each part the points, moved to the lock's place
\* and in the part's colour, and the triangles, whose indices count from 1
\* through the file.
Moved(p, spot) == <<p[1] + spot.x - XMin, p[2] + spot.y - YMin, p[3]>>

WithName(l, c) == [l EXCEPT !.locks = Append(@, [code |-> c, faces |-> <<>>])]

\* Mutant: voff is set after the loop over the parts, from the last one.
WithPartOnce(l, stl, paint, spot) ==
  [verts |-> l.verts \o [i \in DOMAIN Vertices(stl) |->
                           [at |-> Moved(Vertices(stl)[i], spot), paint |-> paint]],
   locks |-> [l.locks EXCEPT ![Len(l.locks)].faces =
                @ \o [t \in DOMAIN stl |-> Shifted(Faces(stl)[t], 1 + l.voff)]],
   voff  |-> IF paint = 0 THEN l.voff ELSE l.voff + Len(Vertices(stl))]

WithPart(l, stl, paint, spot) ==
  [verts |-> l.verts \o [i \in DOMAIN Vertices(stl) |->
                           [at |-> Moved(Vertices(stl)[i], spot), paint |-> paint]],
   locks |-> [l.locks EXCEPT ![Len(l.locks)].faces =
                @ \o [t \in DOMAIN stl |-> Shifted(Faces(stl)[t], 1 + l.voff)]],
   voff  |-> l.voff + Len(Vertices(stl))]

AddsLines ==
  /\ pc = "build"
  /\ req.fmt = "obj"
  /\ k < Len(codes)
  /\ LET c == codes[k + 1]
         spot == Spot(grid, k)
     IN  /\ lines' = WithPart(WithPart(WithName(lines, c), BodyOf[c], 0, spot), NumberOf[c], 1, spot)
         /\ spots' = Append(spots, spot)
  /\ k' = k + 1
  /\ UNCHANGED <<pc, req, codes, rendered, grid, objects, file, reply>>
------------------------------------------------------------------------------
(***************************************************************************)
(* The files.  The P1S project is an archive of documents that refer to    *)
(* each other by object id and by the number of an object's file.          *)
(***************************************************************************)

\* Mutant: the file is named by the id of the object in it.
FileOfById(comp) == comp

\* The file of an object is numbered by its place, not by its id.
FileOf(comp) == (comp + 1) \div 2

\* 3dmodel.model: what is built, and the mesh each of it holds.
Assembly(objs) ==
  [i \in DOMAIN objs |-> [id |-> ObjId(i), file |-> FileOf(objs[i].id), part |-> objs[i].id]]

\* model_settings.config.
ModelSettings(objs) ==
  [i \in DOMAIN objs |-> [id |-> ObjId(i), name |-> objs[i].code, part |-> objs[i].id,
                          faces |-> Len(objs[i].mesh.tris)]]

\* plate_1.json: the boxes of the locks.
PlateBoxes(objs) ==
  [i \in DOMAIN objs |-> [name |-> objs[i].code, x |-> spots[i].x, y |-> spots[i].y]]

P1SProject(objs) ==
  [fmt |-> "p1s",
   objectFiles |-> objs,
   assembly |-> Assembly(objs),
   items    |-> [i \in DOMAIN objs |-> [id |-> ObjId(i), at |-> spots[i]]],
   settings |-> ModelSettings(objs),
   boxes    |-> PlateBoxes(objs),
   rels     |-> 1..Len(objs),
   cuts     |-> 1..(2 * Len(objs))]

Model3mf(objs) ==
  [fmt |-> "3mf",
   objects |-> objs,
   items   |-> [i \in DOMAIN objs |-> [id |-> objs[i].id, at |-> spots[i]]]]

\* The file is written, and the name told.
Writes ==
  /\ pc = "build"
  /\ k = Len(codes)
  /\ file' = CASE req.fmt = "3mf" -> Model3mf(objects)
               [] req.fmt = "p1s" -> P1SProject(objects)
               [] req.fmt = "obj" -> [fmt |-> "obj", verts |-> lines.verts, locks |-> lines.locks]
  /\ Answers(200, Fits(grid, Len(codes)))
  /\ UNCHANGED <<req, codes, k, grid, spots, objects, lines>>

Next ==
  \/ Receives \/ Refuses \/ Clears
  \/ Renders \/ RenderFails \/ StartsBuild \/ BuildFails
  \/ AddsObject \/ AddsLines \/ Writes

Spec == Init /\ [][Next]_vars
------------------------------------------------------------------------------
ExportTypeOK ==
  /\ pc \in {"idle", "render", "build", "answered"}
  /\ req \in Requests \cup {NoRequest}
  /\ k \in 0..(2 * Len(codes))
  /\ grid \in Areas
  /\ rendered \subseteq Range(codes) \X {"body", "number"}
  /\ pc = "build" => rendered = Range(codes) \X {"body", "number"}
  /\ reply.http \in {0, 200, 400, 422, 500} /\ reply.fits \in BOOLEAN

(***************************************************************************)
(* No two locks of an export come to lie on each other, nor closer than    *)
(* the gap, however many there are and however small the plate: a lock     *)
(* that does not fit goes behind the others, not onto them.                *)
(***************************************************************************)
LocksApart ==
  \A i, j \in DOMAIN spots : i # j => Apart(grid, spots[i], spots[j])

(***************************************************************************)
(* fits_on_plate is what the dashboard warns by.  It is true exactly if    *)
(* every lock lies within the margins of the plate, or of the P1S bed left *)
(* of the tower; provided that a single lock fits at all.                  *)
(***************************************************************************)
FitsMeansOnPlate ==
  reply.http = 200 /\ OneFits(grid) =>
    (reply.fits <=> \A i \in DOMAIN spots : Inside(grid, spots[i]))

------------------------------------------------------------------------------
\* How a slicer reads the files: the locks, each with its painted triangles.

ById(things, id) == CHOOSE x \in Range(things) : x.id = id

Read3mf(f) ==
  [i \in DOMAIN f.items |->
     LET o == ById(f.objects, f.items[i].id) IN [code |-> o.code, tris |-> Seen(o.mesh)]]

ReadP1S(f) ==
  [i \in DOMAIN f.items |->
     [code |-> ById(f.settings, f.items[i].id).name,
      tris |-> Seen(f.objectFiles[ById(f.assembly, f.items[i].id).file].mesh)]]

\* The colour of an OBJ triangle is that of its points; here each point is
\* moved back to where it was in its lock.
Back(p, spot) == <<p[1] - spot.x + XMin, p[2] - spot.y + YMin, p[3]>>

ReadFace(verts, face, spot) ==
  [corners |-> [n \in 1..3 |-> Cell(Back(verts[face[n]].at, spot))],
   paint   |-> verts[face[1]].paint]

ReadFaces(verts, faces, spot) == [t \in DOMAIN faces |-> ReadFace(verts, faces[t], spot)]

ReadObj(f) ==
  [i \in DOMAIN f.locks |->
     [code |-> f.locks[i].code, tris |-> ReadFaces(f.verts, f.locks[i].faces, spots[i])]]

Read(f) == CASE f.fmt = "3mf" -> Read3mf(f) [] f.fmt = "p1s" -> ReadP1S(f) [] f.fmt = "obj" -> ReadObj(f)

\* What is asked for: the codes of a batch in their order, or those that
\* are sent in the order of their first mention.
Before(r, c, d) ==
  IF r.by = "batch" THEN c < d
  ELSE \E i \in DOMAIN r.codes : r.codes[i].code = c /\ \A j \in 1..i : r.codes[j].code # d

(***************************************************************************)
(* A file whose name the client is told reads back as what was asked: each *)
(* code once, in order, each with the triangles of its own body and number *)
(* in their colours, though points are merged, two meshes joined, and the  *)
(* indices of an OBJ run on through all locks.                             *)
(***************************************************************************)
FileReadsAsAsked ==
  reply.http = 200 =>
    LET locks == Read(file)
    IN  /\ {locks[i].code : i \in DOMAIN locks} = AskedFor(req)
        /\ \A i, j \in DOMAIN locks : i < j => Before(req, locks[i].code, locks[j].code)
        /\ \A i \in DOMAIN locks :
             locks[i].tris = Made(BodyOf[locks[i].code], 0) \o Made(NumberOf[locks[i].code], 1)

(***************************************************************************)
(* The documents of a P1S project agree: what is built is assembled, each  *)
(* from an object that the file it names has, no file for two locks; the   *)
(* settings speak of the same objects and their number of triangles, every *)
(* file is in the relations, every id has its cut entry, no id is taken    *)
(* twice.  (tests/test_generator.py: "sonst laedt Bambu nur 1 Lock".)      *)
(***************************************************************************)
Distinct(seq) == \A i, j \in DOMAIN seq : i # j => seq[i] # seq[j]

Ids(seq) == [i \in DOMAIN seq |-> seq[i].id]

PartsAgree ==
  file.fmt = "p1s" =>
    /\ \A i \in DOMAIN file.assembly :
         LET a == file.assembly[i]
         IN  a.file \in DOMAIN file.objectFiles /\ file.objectFiles[a.file].id = a.part
    /\ Distinct([i \in DOMAIN file.assembly |-> file.assembly[i].file])
    /\ Distinct(Ids(file.objectFiles) \o Ids(file.assembly))
    /\ Ids(file.items) = Ids(file.assembly) /\ Ids(file.settings) = Ids(file.assembly)
    /\ \A i \in DOMAIN file.settings :
         /\ file.settings[i].part = file.assembly[i].part
         /\ file.settings[i].faces = Len(file.objectFiles[file.assembly[i].file].mesh.tris)
    /\ file.rels = DOMAIN file.objectFiles
    /\ file.cuts = Range(Ids(file.objectFiles) \o Ids(file.assembly))
    /\ \A i \in DOMAIN file.boxes :
         file.boxes[i].name = file.settings[i].name
         /\ file.items[i].at = [x |-> file.boxes[i].x, y |-> file.boxes[i].y]
==============================================================================
