------------------------------ MODULE Geometry ------------------------------
(***************************************************************************)
(* What the host captures of a Blender object (extension/host/geometry.py):  *)
(* a kind, the flat buffer of its vertices, three components each, and the   *)
(* flat buffer of its triangles, three indices each.                         *)
(*                                                                          *)
(* A Blender object is its type, its triangles, and the parts its points lie *)
(* in: the mesh itself, a curve's splines, or the drawings of the frames of  *)
(* all layers, in order.  A point is the sequence of its components; a       *)
(* component is the 32-bit word that holds it.                               *)
(***************************************************************************)
EXTENDS Integers, SequencesExt

CONSTANTS
    Objects,        \* the objects a region may be
    Refused         \* what a capture returns that raises ValueError

Capabilities == [MESH |-> "MESH", CURVE |-> "CURVE", CURVES |-> "CURVES", GREASEPENCIL |-> "GREASE_PENCIL"]
Captured(kind, capability, vertices, triangles) ==
    [Kind |-> kind, SourceCapability |-> capability, Vertices |-> vertices, Triangles |-> triangles]

\* What a snapshot consists of.
Kinds == {"Mesh", "Curve"}
Buffers ==
    [Kind : Kinds, SourceCapability : {Capabilities[type] : type \in DOMAIN Capabilities},
     Vertices : Seq(Int), Triangles : Seq(Int)]

VertexCount(s) == Len(s.Vertices) \div 3
TriangleCount(s) == Len(s.Triangles) \div 3
InRange(s) == \A i \in DOMAIN s.Triangles : s.Triangles[i] >= 0 /\ s.Triangles[i] < VertexCount(s)

\* _checked: the snapshot, or ValueError.
Checked(s) ==
    IF Len(s.Vertices) % 3 # 0 \/ Len(s.Triangles) % 3 # 0 THEN Refused
    ELSE IF InRange(s) THEN s ELSE Refused

\* _read: the elements of a collection one after another, as foreach_get fills a buffer.
Read(elements) == FlattenSeq(elements)

\* The three components after the weight's place are kept.
SlipDropWeights(points) ==
    [i \in 1..3 * (Len(points) \div 4) |-> points[4 * ((i - 1) \div 3) + ((i - 1) % 3) + 2]]
\* A point that is not a bezier one carries a weight after its position.
DropWeights(points) ==
    [i \in 1..3 * (Len(points) \div 4) |-> points[4 * ((i - 1) \div 3) + ((i - 1) % 3) + 1]]

\* The mesh, a spline, or the drawing of a frame, which may have no position attribute.
ReadPart(capability, part) ==
    IF part.form = "bare" THEN <<>>
    ELSE IF capability \in {"CURVE", "CURVES"} /\ part.form # "bezier" THEN DropWeights(Read(part.points))
    ELSE Read(part.points)

SnapshotObject(object) ==
    IF object.type \notin DOMAIN Capabilities THEN Refused
    ELSE LET capability == Capabilities[object.type]
             vertices == FlattenSeq([i \in DOMAIN object.parts |-> ReadPart(capability, object.parts[i])])
         IN IF capability = "MESH" THEN Checked(Captured("Mesh", capability, vertices, Read(object.triangles)))
            ELSE Checked(Captured("Curve", capability, vertices, <<>>))

\* For callers that hold a mesh as groups of numbers.
Triples(groups) == \A i \in DOMAIN groups : Len(groups[i]) = 3
FromCapturedMesh(vertices, triangles) ==
    IF Triples(vertices) /\ Triples(triangles)
    THEN Checked(Captured("Mesh", "MESH", FlattenSeq(vertices), FlattenSeq(triangles)))
    ELSE Refused

Readable(object) == SnapshotObject(object) # Refused

\* What Blender's objects are made of: points of three components, with a weight behind them
\* in a spline that is not a bezier one; a mesh in one part; triangles in meshes only.
WellFormed(object) ==
    /\ object.parts \in Seq([form : STRING, points : Seq(Seq(Int))])
    /\ \A i \in DOMAIN object.parts :
         LET part == object.parts[i]
             weighted == object.type \in {"CURVE", "CURVES"} /\ part.form # "bezier"
         IN  /\ part.form = "bare" => part.points = <<>>
             /\ \A k \in DOMAIN part.points : Len(part.points[k]) = IF weighted THEN 4 ELSE 3
    /\ object.triangles \in Seq(Seq(Int)) /\ Triples(object.triangles)
    /\ IF object.type = "MESH" THEN Len(object.parts) = 1 /\ object.parts[1].form # "bare"
       ELSE object.triangles = <<>>

\* The vertices ApplyMeshVertex can write; an object that is not a mesh has none of them.
VerticesOf(object) == IF object.type = "MESH" THEN DOMAIN object.parts[1].points ELSE {}
WithVertex(object, index, position) == [object EXCEPT !.parts[1].points[index] = position]

\* The host's digest of a snapshot: the kind, and the bytes of both buffers, one after the other.
Digest(s) == <<s.Kind, s.SourceCapability>> \o s.Vertices \o s.Triangles
-----------------------------------------------------------------------------
(* What a snapshot should say of an object, without buffers.                 *)

Triple(buffer, k) == SubSeq(buffer, 3 * k - 2, 3 * k)
Grouped(buffer) == [k \in 1..Len(buffer) \div 3 |-> Triple(buffer, k)]
Position(point) == SubSeq(point, 1, 3)
Positions(object) ==
    FlattenSeq([i \in DOMAIN object.parts |->
        [k \in DOMAIN object.parts[i].points |-> Position(object.parts[i].points[k])]])
=============================================================================
