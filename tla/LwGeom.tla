------------------------------- MODULE LwGeom -------------------------------
(***************************************************************************)
(* liblwgeom's geometries in memory, and what its functions make of them.  *)
(*                                                                         *)
(* A geometry is a record: its type, whether its points have Z and M, its  *)
(* SRID (-1: none), its cached box (<<>>: none) and its body: the points   *)
(* of a point, a line or a circular string, the rings of a polygon, the    *)
(* members of anything else.  Coordinates are integers: the rounding of a  *)
(* box to floats is left out.  The flags of the type byte are not kept in  *)
(* memory, for every writer computes them from the fields.                 *)
(***************************************************************************)
EXTENDS Integers, Sequences, SequencesExt

POINTTYPE        == 1
LINETYPE         == 2
POLYGONTYPE      == 3
MULTIPOINTTYPE   == 4
MULTILINETYPE    == 5
MULTIPOLYGONTYPE == 6
COLLECTIONTYPE   == 7
CIRCSTRINGTYPE   == 8
COMPOUNDTYPE     == 9
CURVEPOLYTYPE    == 13
MULTICURVETYPE   == 14
MULTISURFACETYPE == 15

Pointed   == {POINTTYPE, LINETYPE, CIRCSTRINGTYPE}
Multis    == {MULTIPOINTTYPE, MULTILINETYPE, MULTIPOLYGONTYPE}

\* What a function returns after lwerror.
Failed == [type |-> 0]
NoBox  == <<>>

Make(type, z, m, srid, body) ==
    [type |-> type, z |-> z, m |-> m, srid |-> srid, box |-> NoBox, body |-> body]

One(b) == IF b THEN 1 ELSE 0
NDims(g) == 2 + One(g.z) + One(g.m)

-----------------------------------------------------------------------------
(* Arrays of points. *)

Least2(a, b)    == IF a < b THEN a ELSE b
Greatest2(a, b) == IF a > b THEN a ELSE b
SumOf(s)        == FoldSeq(LAMBDA x, y : x + y, 0, s)

\* Absent ordinates read as 0.
GetPoint4d(p, z, m) == <<p[1], p[2], IF z THEN p[3] ELSE 0, IF m THEN p[Len(p)] ELSE 0>>
SetPoint4d(q, z, m) ==
    <<q[1], q[2]>> \o (IF z THEN <<q[3]>> ELSE <<>>) \o (IF m THEN <<q[4]>> ELSE <<>>)

\* Boxes are <<lows>> \o <<highs>>; the box of nothing is no box.
BoxUnion(a, b) ==
    IF NoBox \in {a, b} THEN IF a = NoBox THEN b ELSE a
    ELSE [i \in DOMAIN a |-> IF i <= Len(a) \div 2 THEN Least2(a[i], b[i]) ELSE Greatest2(a[i], b[i])]

Box2d(b) == IF b = NoBox THEN NoBox ELSE <<b[1], b[2], b[4], b[5]>>

PtarrayBox3d(pa, z) ==
    LET At(p) == <<p[1], p[2], IF z THEN p[3] ELSE 0>>
    IN  FoldLeft(LAMBDA b, p : BoxUnion(b, At(p) \o At(p)), NoBox, pa)

ptarray_isclosed2d(pa) == SubSeq(pa[1], 1, 2) = SubSeq(pa[Len(pa)], 1, 2)

\* Twice the signed area, as the loop sums it: not positive is counter-clockwise.
ptarray_isccw(pa) ==
    SumOf([i \in 1..Len(pa) - 1 |-> pa[i][2] * pa[i + 1][1] - pa[i][1] * pa[i + 1][2]]) <= 0

\* Mutant of ptarray_addPoint: the new point before the wrong one.
ptarray_addPointEarly(pa, p, where) ==
    IF where \notin 0..Len(pa) THEN <<>> ELSE InsertAt(pa, IF where = 0 THEN 1 ELSE where, p)

\* Without points after an error.  where = -1 is, as unsigned, out of range too.
ptarray_addPoint(pa, p, where) ==
    IF where \notin 0..Len(pa) THEN <<>> ELSE InsertAt(pa, where + 1, p)

ptarray_removePoint(pa, which) ==
    IF which \notin 0..Len(pa) - 1 \/ Len(pa) < 3 THEN <<>> ELSE RemoveAt(pa, which + 1)

ptarray_longitude_shift(pa) ==
    [i \in DOMAIN pa |->
       [pa[i] EXCEPT ![1] = IF @ < 0 THEN @ + 360 ELSE IF @ > 180 THEN @ - 360 ELSE @]]

\* The length of a segment, rounded down: coordinates are integers.
Dist(p, q) ==
    LET n == (p[1] - q[1]) * (p[1] - q[1]) + (p[2] - q[2]) * (p[2] - q[2])
    IN  CHOOSE d \in 0..30 : d * d <= n /\ n < (d + 1) * (d + 1)

\* No segment longer than d.  A point is kept by copying the first of its four
\* ordinates: of a point with M and without Z, that is a Z of 0 and not its M.
ptarray_segmentize2d(pa, d) ==
    LET Packed(i, z, m) == SubSeq(GetPoint4d(pa[i], z, m), 1, Len(pa[i]))
        Step(p, q, k)   == [i \in DOMAIN p |->
                              IF i > 2 THEN 0 ELSE p[i] + ((q[i] - p[i]) * d * k) \div Dist(p, q)]
        Added(p, q)     == [k \in 1..(Dist(p, q) - 1) \div d |-> Step(p, q, k)]
    IN  [z, m \in BOOLEAN |->
           <<Packed(1, z, m)>>
             \o FlattenSeq([i \in 1..Len(pa) - 1 |-> Added(pa[i], pa[i + 1]) \o <<Packed(i + 1, z, m)>>])]

-----------------------------------------------------------------------------
(* Constructors. *)

SameZM(gs) == \A i \in DOMAIN gs : gs[i].z = gs[1].z /\ gs[i].m = gs[1].m

lwcollection_construct(type, srid, gs) ==
    IF gs = <<>> THEN Make(type, FALSE, FALSE, srid, <<>>)
    ELSE IF ~SameZM(gs) THEN Failed
    ELSE Make(type, gs[1].z, gs[1].m, srid, gs)

lwpoly_construct(z, m, srid, rings) ==
    IF rings = <<>> THEN Failed ELSE Make(POLYGONTYPE, z, m, srid, rings)

lwcircstring_construct(z, m, srid, pa) ==
    IF Len(pa) % 2 # 1 \/ Len(pa) < 3 THEN Failed ELSE Make(CIRCSTRINGTYPE, z, m, srid, pa)

\* A line from points: it has Z or M if any point has; the doubles a point
\* lacks are zero, and those it has go to the front.
lwline_from_lwpointarray(srid, pts) ==
    LET z == \E i \in DOMAIN pts : pts[i].z
        m == \E i \in DOMAIN pts : pts[i].m
        n == 2 + One(z) + One(m)
        Padded(p) == [d \in 1..n |-> IF d <= Len(p) THEN p[d] ELSE 0]
    IN  IF \E i \in DOMAIN pts : pts[i].type # POINTTYPE THEN Failed
        ELSE Make(LINETYPE, z, m, srid, [i \in DOMAIN pts |-> Padded(pts[i].body[1])])

lwline_from_lwmpoint(srid, mp) ==
    Make(LINETYPE, mp.z, mp.m, srid, [i \in DOMAIN mp.body |-> mp.body[i].body[1]])

lwpoly_from_lwlines(shell, holes) ==
    LET Ring(l) == Len(l.body) >= 4 /\ ptarray_isclosed2d(l.body)
    IN  IF ~Ring(shell) \/ \E i \in DOMAIN holes : ~Ring(holes[i]) \/ holes[i].srid # shell.srid
             \/ ~SameZM(<<shell>> \o holes)
        THEN Failed
        ELSE Make(POLYGONTYPE, shell.z, shell.m, shell.srid,
                  <<shell.body>> \o [i \in DOMAIN holes |-> holes[i].body])

-----------------------------------------------------------------------------
(* What a geometry is. *)

lwgeom_is_collection(type) ==
    type \in Multis \cup {COLLECTIONTYPE, COMPOUNDTYPE, MULTICURVETYPE, MULTISURFACETYPE}

lwgeom_is_empty(g) == g.type # CURVEPOLYTYPE /\ g.body = <<>>

RECURSIVE lwgeom_count_vertices(_)
lwgeom_count_vertices(g) ==
    CASE g.type = POINTTYPE -> 1
      [] g.type = LINETYPE -> Len(g.body)
      [] g.type = POLYGONTYPE -> SumOf([i \in DOMAIN g.body |-> Len(g.body[i])])
      [] g.type \in Multis \cup {COLLECTIONTYPE} ->
           SumOf([i \in DOMAIN g.body |-> lwgeom_count_vertices(g.body[i])])
      [] OTHER -> 0

RECURSIVE lwgeom_dimensionality(_)
lwgeom_dimensionality(g) ==
    CASE g.type \in {POINTTYPE, MULTIPOINTTYPE} -> 0
      [] g.type \in {LINETYPE, CIRCSTRINGTYPE, MULTILINETYPE, COMPOUNDTYPE, MULTICURVETYPE} -> 1
      [] g.type \in {POLYGONTYPE, CURVEPOLYTYPE, MULTIPOLYGONTYPE, MULTISURFACETYPE} -> 2
      [] OTHER -> FoldSeq(LAMBDA x, d : Greatest2(lwgeom_dimensionality(x), d), 0, g.body)

\* Of a nested multi, it adds the count of the collection it is a member of.
RECURSIVE lwcollection_ngeoms(_)
lwcollection_ngeoms(c) ==
    SumOf([i \in DOMAIN c.body |->
             CASE c.body[i].type \in Pointed \cup {POLYGONTYPE} -> 1
               [] c.body[i].type \in Multis \cup {MULTICURVETYPE} -> Len(c.body)
               [] c.body[i].type = COLLECTIONTYPE -> lwcollection_ngeoms(c.body[i])
               [] OTHER -> 0])

RECURSIVE lwgeom_same(_, _)
lwgeom_same(a, b) ==
    /\ a.type = b.type /\ a.z = b.z /\ a.m = b.m
    /\ NoBox \notin {a.box, b.box} => a.box = b.box
    /\ a.type \in Multis \cup {POINTTYPE, LINETYPE, POLYGONTYPE, COLLECTIONTYPE}
    /\ IF a.type \in Pointed \cup {POLYGONTYPE} THEN a.body = b.body
       ELSE /\ Len(a.body) = Len(b.body)
            /\ \A i \in DOMAIN a.body : lwgeom_same(a.body[i], b.body[i])

-----------------------------------------------------------------------------
(* Boxes. *)

\* <<x, y, r>>, where these are integers.
lwcircle_center(p, q, s) ==
    LET Square(v)       == v[1] * v[1] + v[2] * v[2]
        WithRadius(c)   == c \o <<Dist(c, p)>>
        Meet(a, c, det) == <<(a * (q[2] - s[2]) - c * (p[2] - q[2])) \div (2 * det),
                             ((p[1] - q[1]) * c - (q[1] - s[1]) * a) \div (2 * det)>>
    IN  WithRadius(
          IF p[1] = s[1] /\ p[2] = s[2]
          THEN <<p[1] + (q[1] - p[1]) \div 2, p[2] + (q[2] - p[2]) \div 2>>
          ELSE Meet(Square(p) - Square(q), Square(q) - Square(s),
                    (p[1] - q[1]) * (q[2] - s[2]) - (q[1] - s[1]) * (p[2] - q[2])))

\* lw_segment_side, and its sign.
SideOf(a, b, v) == (v[1] - a[1]) * (b[2] - a[2]) - (b[1] - a[1]) * (v[2] - a[2])
Signum(n)       == IF n < 0 THEN -1 ELSE IF n > 0 THEN 1 ELSE 0

\* The box of an arc: of its ends, moved out to the extreme points of the
\* circle that lie on the side of the chord where the middle point is.  The
\* points are <<x, y, z>>.
MovedOut(p, q, s, c, ends) ==
    LET Swept(x, y) == Signum(SideOf(p, s, q)) = Signum(SideOf(p, s, <<x, y>>))
    IN  <<IF Swept(c[1] - c[3], c[2]) THEN c[1] - c[3] ELSE ends[1],
          IF Swept(c[1], c[2] - c[3]) THEN c[2] - c[3] ELSE ends[2], ends[3],
          IF Swept(c[1] + c[3], c[2]) THEN c[1] + c[3] ELSE ends[4],
          IF Swept(c[1], c[2] + c[3]) THEN c[2] + c[3] ELSE ends[5], ends[6]>>
WholeCircle(p, q, c) ==
    <<c[1] - c[3], c[2] - c[3], Least2(p[3], q[3]), c[1] + c[3], c[2] + c[3], Greatest2(p[3], q[3])>>
ArcBox(p, q, s, c, ends) ==
    IF p[1] = s[1] /\ p[2] = s[2] THEN WholeCircle(p, q, c)
    ELSE IF SideOf(p, s, q) = 0 THEN ends
    ELSE MovedOut(p, q, s, c, ends)
lwcircle_compute_box3d(p, q, s) == ArcBox(p, q, s, lwcircle_center(p, q, s), BoxUnion(p \o p, s \o s))

lwcircstring_compute_box3d(g) ==
    LET P(i) == SubSeq(GetPoint4d(g.body[i], g.z, g.m), 1, 3)
        arcs == [k \in 1..Len(g.body) \div 2 |->
                   lwcircle_compute_box3d(P(2 * k - 1), P(2 * k), P(2 * k + 1))]
    IN  FoldSeq(BoxUnion, NoBox, arcs)

\* The rings after the first are not read: the first one is, each time.
lwpoly_compute_box2d_p(g) ==
    FoldSeq(LAMBDA r, b : BoxUnion(b, Box2d(PtarrayBox3d(g.body[1], FALSE))), NoBox, g.body)

\* Fails on a collection with an empty member.
UnionOfAll(boxes) == IF NoBox \in ToSet(boxes) THEN NoBox ELSE FoldSeq(BoxUnion, NoBox, boxes)
RECURSIVE lwgeom_compute_box2d_p(_)
lwgeom_compute_box2d_p(g) ==
    CASE g.type \in {POINTTYPE, LINETYPE} -> Box2d(PtarrayBox3d(g.body, FALSE))
      [] g.type = CIRCSTRINGTYPE -> Box2d(lwcircstring_compute_box3d(g))
      [] g.type = POLYGONTYPE -> lwpoly_compute_box2d_p(g)
      [] OTHER -> UnionOfAll([i \in DOMAIN g.body |-> lwgeom_compute_box2d_p(g.body[i])])

\* Of a member that is a collection itself, the union is taken with a box that
\* was just released: what the members before it had is forgotten.
RECURSIVE lwgeom_compute_box3d(_)
lwgeom_compute_box3d(g) ==
    CASE g.type \in {POINTTYPE, LINETYPE} -> PtarrayBox3d(g.body, g.z)
      [] g.type = CIRCSTRINGTYPE -> lwcircstring_compute_box3d(g)
      [] g.type = POLYGONTYPE -> PtarrayBox3d(g.body[1], g.z)
      [] OTHER ->
           FoldLeft(LAMBDA b, x : IF x.type \in Pointed \cup {POLYGONTYPE}
                                  THEN BoxUnion(lwgeom_compute_box3d(x), b)
                                  ELSE lwgeom_compute_box3d(x),
                    NoBox, g.body)

lwgeom_drop_bbox(g) == [g EXCEPT !.box = NoBox]
lwgeom_dropSRID(g)  == [g EXCEPT !.srid = -1]
lwgeom_add_bbox(g)  == IF g.box # NoBox THEN g ELSE [g EXCEPT !.box = lwgeom_compute_box2d_p(g)]

-----------------------------------------------------------------------------
(* Making one geometry of another. *)

\* The cached box of an empty collection is not copied.
RECURSIVE lwgeom_clone(_)
lwgeom_clone(g) ==
    IF g.type \in Pointed \cup {POLYGONTYPE} THEN g
    ELSE IF g.body = <<>> THEN lwgeom_drop_bbox(g)
    ELSE [g EXCEPT !.body = [i \in DOMAIN @ |-> lwgeom_clone(@[i])]]

MULTITYPE == POINTTYPE :> MULTIPOINTTYPE @@ LINETYPE :> MULTILINETYPE
             @@ POLYGONTYPE :> MULTIPOLYGONTYPE @@ CIRCSTRINGTYPE :> MULTICURVETYPE
             @@ COMPOUNDTYPE :> MULTICURVETYPE @@ CURVEPOLYTYPE :> MULTISURFACETYPE

\* The box moves from the member to the collection.
lwgeom_as_multi(g) ==
    IF lwgeom_is_collection(g.type) THEN lwgeom_clone(g)
    ELSE [lwcollection_construct(MULTITYPE[g.type], g.srid, <<lwgeom_dropSRID(lwgeom_drop_bbox(g))>>)
            EXCEPT !.box = g.box]

Bare(g) == lwgeom_drop_bbox(lwgeom_dropSRID(lwgeom_clone(g)))

\* what before or after to; the boxes of lines and curves stay on them.
Paired(to, where, what, newtype) ==
    LET Part(g) == IF to.type = POINTTYPE THEN Bare(g) ELSE lwgeom_dropSRID(lwgeom_clone(g))
    IN  IF where \notin {-1, 0} THEN Failed
        ELSE lwcollection_construct(newtype, to.srid,
               IF where = -1 THEN <<Part(to), Part(what)>> ELSE <<Part(what), Part(to)>>)

\* what among the members of to; only a collection drops their SRIDs and boxes.
Inserted(to, where, what, newtype) ==
    LET Part(g) == IF to.type = COLLECTIONTYPE THEN Bare(g) ELSE lwgeom_clone(g)
        at      == IF where = -1 THEN Len(to.body) ELSE where
    IN  IF at \notin 0..Len(to.body) THEN Failed
        ELSE lwcollection_construct(newtype, to.srid,
               InsertAt([i \in DOMAIN to.body |-> Part(to.body[i])], at + 1, Part(what)))

\* The type of the result when the newcomer is of a type that fits.
Grown == POINTTYPE :> <<{POINTTYPE}, MULTIPOINTTYPE>> @@ LINETYPE :> <<{LINETYPE}, MULTILINETYPE>>
         @@ POLYGONTYPE :> <<{POLYGONTYPE}, MULTIPOLYGONTYPE>>
         @@ CIRCSTRINGTYPE :> <<{CIRCSTRINGTYPE, LINETYPE}, MULTICURVETYPE>>
         @@ COMPOUNDTYPE :> <<{CIRCSTRINGTYPE, LINETYPE}, COMPOUNDTYPE>>
         @@ MULTIPOINTTYPE :> <<{POINTTYPE}, MULTIPOINTTYPE>>
         @@ MULTILINETYPE :> <<{LINETYPE}, MULTILINETYPE>>
         @@ MULTIPOLYGONTYPE :> <<{POLYGONTYPE}, MULTIPOLYGONTYPE>>
         @@ MULTICURVETYPE :> <<{CIRCSTRINGTYPE}, MULTICURVETYPE>>
         @@ MULTISURFACETYPE :> <<{POLYGONTYPE, CURVEPOLYTYPE}, MULTISURFACETYPE>>
         @@ COLLECTIONTYPE :> <<{}, COLLECTIONTYPE>>

lwgeom_add(to, where, what) ==
    LET newtype == IF what.type \in Grown[to.type][1] THEN Grown[to.type][2] ELSE COLLECTIONTYPE
    IN  IF NDims(to) # NDims(what) \/ to.type = CURVEPOLYTYPE THEN Failed
        ELSE IF to.type \in Pointed \cup {POLYGONTYPE, COMPOUNDTYPE} THEN Paired(to, where, what, newtype)
        ELSE Inserted(to, where, what, newtype)

\* The members of one type, at any depth, that are not empty.
RECURSIVE Extracted(_, _)
Extracted(c, type) ==
    FlattenSeq([i \in DOMAIN c.body |->
        CASE lwgeom_is_empty(c.body[i]) -> <<>>
          [] c.body[i].type = type -> <<c.body[i]>>
          [] lwgeom_is_collection(c.body[i].type) -> Extracted(c.body[i], type)
          [] OTHER -> <<>>])

lwcollection_extract(c, type) ==
    LET found == Extracted(c, type)
        out   == lwcollection_construct(MULTITYPE[type], c.srid, found)
    IN  IF found = <<>> THEN Make(COLLECTIONTYPE, c.z, c.m, c.srid, <<>>)
        ELSE [out EXCEPT !.box = Box2d(lwgeom_compute_box3d(out))]

RECURSIVE lwgeom_reverse(_)
lwgeom_reverse(g) ==
    CASE g.type = LINETYPE -> [g EXCEPT !.body = Reverse(@)]
      [] g.type = POLYGONTYPE -> [g EXCEPT !.body = [i \in DOMAIN @ |-> Reverse(@[i])]]
      [] g.type \in {MULTILINETYPE, MULTIPOLYGONTYPE, COLLECTIONTYPE} ->
           [g EXCEPT !.body = [i \in DOMAIN @ |-> lwgeom_reverse(@[i])]]
      [] OTHER -> g

\* The shell clockwise, the holes counter-clockwise.
RECURSIVE lwgeom_force_rhr(_)
lwgeom_force_rhr(g) ==
    CASE g.type = POLYGONTYPE ->
           [g EXCEPT !.body = [i \in DOMAIN @ |->
               IF ptarray_isccw(@[i]) = (i = 1) THEN Reverse(@[i]) ELSE @[i]]]
      [] g.type \in {MULTIPOLYGONTYPE, COLLECTIONTYPE} ->
           [g EXCEPT !.body = [i \in DOMAIN @ |-> lwgeom_force_rhr(@[i])]]
      [] OTHER -> g

\* Fails on a member of any other type, however deep.
RECURSIVE lwgeom_longitude_shift(_)
lwgeom_longitude_shift(g) ==
    CASE g.type \in {POINTTYPE, LINETYPE} -> [g EXCEPT !.body = ptarray_longitude_shift(@)]
      [] g.type = POLYGONTYPE -> [g EXCEPT !.body = [i \in DOMAIN @ |-> ptarray_longitude_shift(@[i])]]
      [] g.type \in Multis \cup {COLLECTIONTYPE} ->
           LET body == [i \in DOMAIN g.body |-> lwgeom_longitude_shift(g.body[i])]
           IN  IF Failed \in ToSet(body) THEN Failed ELSE [g EXCEPT !.body = body]
      [] OTHER -> Failed

RECURSIVE lwgeom_segmentize2d(_, _)
lwgeom_segmentize2d(g, d) ==
    LET Cut(pa) == ptarray_segmentize2d(pa, d)[g.z, g.m]
    IN  CASE g.type = LINETYPE -> Make(LINETYPE, g.z, g.m, g.srid, Cut(g.body))
          [] g.type = POLYGONTYPE ->
               Make(POLYGONTYPE, g.z, g.m, g.srid, [i \in DOMAIN g.body |-> Cut(g.body[i])])
          [] g.type \in {MULTILINETYPE, MULTIPOLYGONTYPE, COLLECTIONTYPE} /\ g.body # <<>> ->
               lwcollection_construct(g.type, g.srid,
                  [i \in DOMAIN g.body |-> lwgeom_segmentize2d(g.body[i], d)])
          [] OTHER -> lwgeom_clone(g)

\* Adding a vertex to a line, or removing one, gives the result a box.
lwline_addpoint(l, p, where) ==
    LET pa == ptarray_addPoint(l.body, p, where)
    IN  IF pa = <<>> THEN Failed
        ELSE [Make(LINETYPE, l.z, l.m, l.srid, pa) EXCEPT !.box = Box2d(PtarrayBox3d(pa, FALSE))]
lwline_removepoint(l, which) ==
    LET pa == ptarray_removePoint(l.body, which)
    IN  IF pa = <<>> THEN Failed
        ELSE [Make(LINETYPE, l.z, l.m, l.srid, pa) EXCEPT !.box = Box2d(PtarrayBox3d(pa, FALSE))]
lwline_setPoint4d(l, which, q) ==
    LET new == [l EXCEPT !.body[which + 1] = SetPoint4d(q, l.z, l.m)]
    IN  IF l.box = NoBox THEN new ELSE lwgeom_add_bbox(lwgeom_drop_bbox(new))
=============================================================================
