----------------------------- MODULE ShapeFile -----------------------------
(***************************************************************************)
(* The .shp and .shx files of a layer of shapes, as loader/shpopen.c reads *)
(* and writes them.  The .shp holds a header and the records of the shapes, *)
(* the .shx where each record begins and how long it is; both headers, and *)
(* the places, are written when the layer is closed.                       *)
(*                                                                         *)
(* A record is a sequence of cells, one for each number in it; offsets and *)
(* sizes count cells, from the end of the header.  A vertex is             *)
(* <<x, y, z, m>>, with 0 for what the shape does not have.                *)
(***************************************************************************)
EXTENDS DbfFile

SHPT_NULL       == 0
SHPT_POINT      == 1
SHPT_ARC        == 3
SHPT_POLYGON    == 5
SHPT_MULTIPOINT == 8
SHPT_MULTIPATCH == 31
SHPP_RING       == 5

\* Types with Z are 10 more, types with M alone 20 more; those with Z have M.
Base(t) == IF t = SHPT_MULTIPATCH THEN t ELSE t % 10
HasZ(t) == t \in 11..18 \cup {SHPT_MULTIPATCH}
HasM(t) == t > 10
Parted(t) == Base(t) \in {SHPT_ARC, SHPT_POLYGON, SHPT_MULTIPATCH}

Along(vs, d) == [i \in DOMAIN vs |-> vs[i][d]]
NoBounds == [lo |-> <<0, 0, 0, 0>>, hi |-> <<0, 0, 0, 0>>]

SHPComputeExtents(vs) ==
    IF vs = <<>> THEN NoBounds
    ELSE [lo |-> [d \in 1..4 |-> Min(ToSet(Along(vs, d)))], hi |-> [d \in 1..4 |-> Max(ToSet(Along(vs, d)))]]

\* Vertices keep the ordinates their type has; measured: an array of M was given.
SHPCreateObject(type, starts, types, vs, measured) ==
    [type      |-> type,
     starts    |-> IF ~Parted(type) THEN <<>> ELSE <<0>> \o Tail(IF starts = <<>> THEN <<0>> ELSE starts),
     partTypes |-> IF ~Parted(type) THEN <<>>
                   ELSE IF types = <<>> THEN [i \in 1..Bigger(1, Len(starts)) |-> SHPP_RING] ELSE types,
     vertices  |-> [i \in DOMAIN vs |-> <<vs[i][1], vs[i][2], IF HasZ(type) THEN vs[i][3] ELSE 0,
                                           IF HasM(type) /\ measured THEN vs[i][4] ELSE 0>>],
     measured  |-> measured /\ HasM(type) /\ vs # <<>>]

NullObject == SHPCreateObject(SHPT_NULL, <<>>, <<>>, <<>>, FALSE)

-----------------------------------------------------------------------------
(* Records. *)

\* Bounds of x and y, and those of the ordinate d with its values.
_SHPSetBounds(e) == <<e.lo[1], e.lo[2], e.hi[1], e.hi[2]>>
XY(vs)           == [k \in 1..2 * Len(vs) |-> IF k % 2 = 1 THEN vs[(k + 1) \div 2][1] ELSE vs[k \div 2][2]]
Ranged(vs, e, d) == <<e.lo[d], e.hi[d]>> \o Along(vs, d)

\* A measure is written where the type has one.
WritesM(s) == s.measured /\ HasM(s.type)

PartsRecord(s, e) ==
    _SHPSetBounds(e) \o <<Len(s.starts), Len(s.vertices)>> \o s.starts
      \o (IF s.type = SHPT_MULTIPATCH THEN s.partTypes ELSE <<>>)
      \o XY(s.vertices)
      \o (IF HasZ(s.type) THEN Ranged(s.vertices, e, 3) ELSE <<>>)
      \o (IF WritesM(s) THEN Ranged(s.vertices, e, 4) ELSE <<>>)

MultiPointRecord(s, e) ==
    _SHPSetBounds(e) \o <<Len(s.vertices)>> \o XY(s.vertices)
      \o (IF HasZ(s.type) THEN Ranged(s.vertices, e, 3) ELSE <<>>)
      \o (IF WritesM(s) THEN Ranged(s.vertices, e, 4) ELSE <<>>)

\* The first vertex alone.
PointRecord(s) ==
    SubSeq(s.vertices[1], 1, 2) \o (IF HasZ(s.type) THEN <<s.vertices[1][3]>> ELSE <<>>)
      \o (IF WritesM(s) THEN <<s.vertices[1][4]>> ELSE <<>>)

Content(s) ==
    <<s.type>> \o CASE Parted(s.type) -> PartsRecord(s, SHPComputeExtents(s.vertices))
                    [] Base(s.type) = SHPT_MULTIPOINT -> MultiPointRecord(s, SHPComputeExtents(s.vertices))
                    [] Base(s.type) = SHPT_POINT -> PointRecord(s)
                    [] OTHER -> <<>>

\* What is read of n vertices whose x and y begin after the cell at of c.  M is
\* read whenever the record has room for it.
VerticesAt(c, at, n, z) ==
    LET zs == IF z THEN at + 2 * n + 2 ELSE 0
        ms == at + 2 * n + (IF z THEN n + 2 ELSE 0) + 2
        hasM == Len(c) >= ms + n
    IN  [vertices |-> [i \in 1..n |-> <<c[at + 2 * i - 1], c[at + 2 * i], IF z THEN c[zs + i] ELSE 0,
                                         IF hasM THEN c[ms + i] ELSE 0>>],
         measured |-> hasM]

Shape(type, starts, types, v) ==
    [type |-> type, starts |-> starts, partTypes |-> types, vertices |-> v.vertices, measured |-> v.measured]

\* Each part begins after the one before it, at a vertex.
GoodStarts(starts, n) ==
    \A i \in DOMAIN starts : /\ starts[i] >= 0 /\ (n > 0 => starts[i] < n)
                             /\ i > 1 => starts[i] > starts[i - 1]

\* p parts and n vertices.
ReadParts(c, p, n) ==
    LET patch == c[1] = SHPT_MULTIPATCH
        at    == 7 + p + (IF patch THEN p ELSE 0)
    IN  IF Len(c) < at + 2 * n + (IF HasZ(c[1]) THEN 2 + n ELSE 0) \/ ~GoodStarts(SubSeq(c, 8, 7 + p), n) THEN NoFile
        ELSE Shape(c[1], SubSeq(c, 8, 7 + p),
                   IF patch THEN SubSeq(c, 8 + p, 7 + 2 * p) ELSE [i \in 1..p |-> SHPP_RING],
                   VerticesAt(c, at, n, HasZ(c[1])))

ReadMultiPoint(c, n) ==
    IF Len(c) < 6 + 2 * n + (IF HasZ(c[1]) THEN 2 + n ELSE 0) THEN NoFile
    ELSE Shape(c[1], <<>>, <<>>, VerticesAt(c, 6, n, HasZ(c[1])))

ReadPoint(c) ==
    LET ms == IF HasZ(c[1]) THEN 5 ELSE 4
    IN  IF Len(c) < ms - 1 THEN NoFile
        ELSE Shape(c[1], <<>>, <<>>,
                   [vertices |-> <<<<c[2], c[3], IF HasZ(c[1]) THEN c[4] ELSE 0, IF Len(c) >= ms THEN c[ms] ELSE 0>>>>,
                    measured |-> Len(c) >= ms])

\* The shape of a record's content; NoFile for one that is not whole.
ShapeOf(c) ==
    IF Parted(c[1]) THEN IF Len(c) < 7 THEN NoFile ELSE ReadParts(c, c[6], c[7])
    ELSE IF Base(c[1]) = SHPT_MULTIPOINT THEN IF Len(c) < 6 THEN NoFile ELSE ReadMultiPoint(c, c[6])
    ELSE IF Base(c[1]) = SHPT_POINT THEN ReadPoint(c)
    ELSE Shape(c[1], <<>>, <<>>, [vertices |-> <<>>, measured |-> FALSE])

SHPReadObject(h, i) ==
    IF i \notin 0..Len(h.records) - 1 THEN NoFile
    ELSE LET r == h.records[i + 1]
         IN  IF Len(h.cells) < r.offset + r.size + 2 THEN NoFile
             ELSE ShapeOf(SubSeq(h.cells, r.offset + 3, r.offset + 2 + r.size))

-----------------------------------------------------------------------------
(* Layers. *)

\* The bounds of a layer that were all 0 begin anew.
Bounded(b, s) ==
    LET e == SHPComputeExtents(s.vertices)
    IN  IF _SHPSetBounds(b) = <<0, 0, 0, 0>> THEN e
        ELSE IF s.vertices = <<>> THEN b
        ELSE [lo |-> [d \in 1..4 |-> Smaller(b.lo[d], e.lo[d])], hi |-> [d \in 1..4 |-> Bigger(b.hi[d], e.hi[d])]]

\* The record of s, whose number is i, goes to r.
PlacedAt(h, i, s, c, offset) ==
    [h EXCEPT !.updated = TRUE,
              !.records = SubSeq(@, 1, i - 1) \o <<[offset |-> offset, size |-> Len(c)]>> \o SubSeq(@, i + 1, Len(@)),
              !.cells = WriteAt(@, offset, <<i, Len(c)>> \o c),
              !.nFileSize = Bigger(@, offset + 2 + Len(c)),
              !.bounds = Bounded(@, s)]

\* Mutant of Placed: what has a place keeps it.
PlacedInPlace(h, i, s, c) ==
    PlacedAt(h, i, s, c, IF i > Len(h.records) THEN h.nFileSize ELSE h.records[i].offset)

\* A new shape, or one that has grown, goes to the end.
Placed(h, i, s, c) ==
    PlacedAt(h, i, s, c, IF i > Len(h.records) THEN h.nFileSize
                         ELSE IF h.records[i].size < Len(c) THEN h.nFileSize ELSE h.records[i].offset)

\* id is counted from 0; -1 is a new shape.
SHPWriteObject(h, id, s) ==
    Placed(h, IF id \in 0..Len(h.records) - 1 THEN id + 1 ELSE Len(h.records) + 1, s, Content(s))

\* What both headers say, and the places.
Headers(h) == [type |-> h.nShapeType, bounds |-> h.bounds, nFileSize |-> h.nFileSize, records |-> h.records]
SHPWriteHeader(h) == [h EXCEPT !.written = Headers(h)]

SHPOpenLL(files) ==
    [nShapeType |-> files.headers.type, bounds |-> files.headers.bounds, nFileSize |-> files.headers.nFileSize,
     records |-> files.headers.records, cells |-> files.cells, written |-> files.headers, updated |-> FALSE]

SHPCreateLL(type) ==
    SHPOpenLL([headers |-> [type |-> type, bounds |-> NoBounds, nFileSize |-> 0, records |-> <<>>], cells |-> <<>>])

\* The files of a program that ends without closing them, and of one that does.
Unclosed(h) == [headers |-> h.written, cells |-> h.cells]
SHPClose(h) == Unclosed(IF h.updated THEN SHPWriteHeader(h) ELSE h)

-----------------------------------------------------------------------------
(* Winding. *)

\* The vertices of part k, and all of them.
PartEnd(s, k) == IF k = Len(s.starts) THEN Len(s.vertices) ELSE s.starts[k + 1]
PartOf(s, k)  == SubSeq(s.vertices, s.starts[k] + 1, PartEnd(s, k))
PartsOf(s)    == [k \in DOMAIN s.starts |-> PartOf(s, k)]

Next1(ring, i) == IF i = Len(ring) THEN ring[1] ELSE ring[i + 1]
Prev1(ring, i) == IF i = 1 THEN ring[Len(ring)] ELSE ring[i - 1]

\* The edge from a to b is met on the way from <<tx, ty>> / 2 to the left.
Met(a, b, tx, ty) ==
    /\ (2 * a[2] < ty /\ ty <= 2 * b[2]) \/ (2 * b[2] < ty /\ ty <= 2 * a[2])
    /\ LET dy == b[2] - a[2]
           l  == (ty - 2 * a[2]) * (b[1] - a[1])
           r  == (tx - 2 * a[1]) * dy
       IN  IF dy > 0 THEN l < r ELSE l > r

Crossings(ring, tx, ty) == FoldLeft(LAMBDA n, i : IF Met(ring[i], Next1(ring, i), tx, ty) THEN n + 1 ELSE n,
                                    0, [i \in DOMAIN ring |-> i])

\* The middle of the first edge of ring k lies in an odd number of other rings.
Inner(rings, k) ==
    FoldLeft(LAMBDA n, j : IF j = k THEN n ELSE n + Crossings(rings[j], rings[k][1][1] + rings[k][2][1],
                                                              rings[k][1][2] + rings[k][2][2]),
             0, [j \in DOMAIN rings |-> j]) % 2 = 1

TwiceArea(ring) ==
    FoldLeft(LAMBDA a, i : a + ring[i][1] * (Next1(ring, i)[2] - Prev1(ring, i)[2]), 0, [i \in DOMAIN ring |-> i])

\* The rings that wind the wrong way: outer ones go clockwise, inner ones
\* counter-clockwise.
WrongWay(s) ==
    LET rings == PartsOf(s)
    IN  {k \in DOMAIN rings : /\ Len(rings[k]) >= 2
                              /\ IF Inner(rings, k) THEN TwiceArea(rings[k]) < 0 ELSE TwiceArea(rings[k]) > 0}

\* Where the vertex comes from that is i-th when those rings are reversed.
Source(s, rings, i) ==
    IF \E k \in rings : s.starts[k] < i /\ i <= PartEnd(s, k)
    THEN LET k == CHOOSE k \in rings : s.starts[k] < i /\ i <= PartEnd(s, k)
         IN  s.starts[k] + 1 + PartEnd(s, k) - i
    ELSE i

SHPRewindObject(s) ==
    IF Base(s.type) # SHPT_POLYGON \/ s.vertices = <<>> \/ s.starts = <<>> THEN s
    ELSE [s EXCEPT !.vertices = [i \in DOMAIN @ |-> @[Source(s, WrongWay(s), i)]]]
============================================================================
