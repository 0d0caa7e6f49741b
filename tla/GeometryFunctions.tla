-------------------------- MODULE GeometryFunctions --------------------------
(***************************************************************************)
(* The SQL functions of PostGIS that take a stored geometry apart, change  *)
(* it or put several together.  A stored geometry is its bytes, as in      *)
(* Serialized, without the four bytes of PostgreSQL's length; a function   *)
(* reads them, works on the geometry in memory and stores the result, with *)
(* its box if it is not a point (POSTGIS_AUTOCACHE_BBOX).                   *)
(***************************************************************************)
EXTENDS Serialized

Null    == <<>>
Raised  == <<0>>     \* after elog(ERROR): no type is 0
Garbage == -9999     \* a float of a box nobody has computed

-----------------------------------------------------------------------------
(* Storing. *)

\* Mutant of pglwgeom_serialize: no box is cached.
pglwgeom_serializeUncached(g) == IF g = Failed THEN Raised ELSE lwgeom_serialize(g)

pglwgeom_serialize(g) ==
    IF g = Failed THEN Raised
    ELSE lwgeom_serialize(IF g.type = POINTTYPE THEN g ELSE lwgeom_add_bbox(g))

pglwgeom_deserialize(b) == lwgeom_deserialize(b, 1)
pglwgeom_getSRID(b)     == lwgeom_getsrid(b, 1)

WithHeader(b, srid, box) ==
    <<lwgeom_makeType_full(lwgeom_hasZ(b[1]), lwgeom_hasM(b[1]), srid # -1, Type(b, 1), box # NoBox)>>
      \o FlattenSeq([i \in DOMAIN box |-> Cells(box[i], 4)])
      \o (IF srid = -1 THEN <<>> ELSE Cells(srid, 4))
      \o SubSeq(b, AfterSRID(b, 1), Len(b))

\* The box of what has none is whatever was on the stack.
Constructed(b, srid, wantbbox, box) ==
    WithHeader(b, srid, IF ~wantbbox /\ Type(b, 1) = POINTTYPE THEN NoBox
                        ELSE IF box = NoBox THEN <<Garbage, Garbage, Garbage, Garbage>> ELSE box)
PG_LWGEOM_construct(b, srid, wantbbox) == Constructed(b, srid, wantbbox, getbox2d_p(b, 1))

\* Mutant of pglwgeom_setSRID: taking the SRID away is forgotten.
SetKnownSRID(b, srid) == IF srid = -1 THEN b ELSE WithHeader(b, srid, CachedBox(b, 1))

pglwgeom_setSRID(b, srid) == WithHeader(b, srid, CachedBox(b, 1))
LWGEOM_setSRID(b, srid)   == PG_LWGEOM_construct(b, srid, lwgeom_hasBBOX(b[1]))
LWGEOM_addBBOX(b)  == WithHeader(b, pglwgeom_getSRID(b), getbox2d_p(b, 1))
LWGEOM_dropBBOX(b) == WithHeader(b, pglwgeom_getSRID(b), NoBox)
LWGEOM_noop(b)     == pglwgeom_serialize(pglwgeom_deserialize(b))

-----------------------------------------------------------------------------
(* Reading. *)

\* The subgeometries, as lwgeom_getgeom_inspected reads them.
Subs(b) == EachAt(b, lwgeom_inspect(b, 1))
FirstSub(b, types) == LET s == SelectSeq(Subs(b), LAMBDA g : g.type \in types)
                      IN  IF s = <<>> THEN Failed ELSE s[1]

RECURSIVE lwgeom_npoints(_, _)
lwgeom_npoints(b, p) ==
    LET subs == lwgeom_inspect(b, p)
        N(q) == CASE Type(b, q) = POINTTYPE -> 1
                  [] Type(b, q) \in {LINETYPE, CIRCSTRINGTYPE} -> b[AfterSRID(b, q)]
                  [] Type(b, q) = POLYGONTYPE -> SumOf([i \in 1..Len(Rings(b, q)) - 1 |-> b[Rings(b, q)[i]]])
                  [] OTHER -> lwgeom_npoints(b, q)
    IN  SumOf([i \in DOMAIN subs |-> N(subs[i])])

\* Polygons in a multipolygon in a collection are passed over.
RECURSIVE lwgeom_nrings_recursive(_, _)
lwgeom_nrings_recursive(b, p) ==
    LET subs == lwgeom_inspect(b, p)
        N(q) == CASE Type(b, q) = POLYGONTYPE -> b[AfterSRID(b, q)]
                  [] Type(b, q) = COLLECTIONTYPE -> lwgeom_nrings_recursive(b, q)
                  [] OTHER -> 0
    IN  SumOf([i \in DOMAIN subs |-> N(subs[i])])

\* Twice the area.
RingArea(r) == LET s == SumOf([i \in 1..Len(r) - 1 |-> r[i][1] * r[i + 1][2] - r[i][2] * r[i + 1][1]])
               IN  IF s < 0 THEN -s ELSE s
lwgeom_polygon_area(g) ==
    SumOf([i \in DOMAIN g.body |-> IF i = 1 THEN RingArea(g.body[i]) ELSE -RingArea(g.body[i])])
LWGEOM_area_polygon(b) ==
    SumOf([i \in DOMAIN Subs(b) |->
             IF Subs(b)[i].type = POLYGONTYPE THEN lwgeom_polygon_area(Subs(b)[i]) ELSE 0])

lwgeom_pointarray_length2d(pa) == SumOf([i \in 1..Len(pa) - 1 |-> Dist(pa[i], pa[i + 1])])
LWGEOM_length2d_linestring(b) ==
    SumOf([i \in DOMAIN Subs(b) |->
             IF Subs(b)[i].type = LINETYPE THEN lwgeom_pointarray_length2d(Subs(b)[i].body) ELSE 0])
LWGEOM_perimeter2d_poly(b) ==
    SumOf([i \in DOMAIN Subs(b) |->
             IF Subs(b)[i].type # POLYGONTYPE THEN 0
             ELSE SumOf([r \in DOMAIN Subs(b)[i].body |-> lwgeom_pointarray_length2d(Subs(b)[i].body[r])])])

\* The points of the first line or curve found; -1 is NULL.
RECURSIVE lwgeom_numpoints_linestring_recursive(_, _)
lwgeom_numpoints_linestring_recursive(b, p) ==
    LET subs == lwgeom_inspect(b, p)
        N(q) == CASE Type(b, q) \in {LINETYPE, CIRCSTRINGTYPE} -> b[AfterSRID(b, q)]
                  [] Type(b, q) \in {MULTILINETYPE, COLLECTIONTYPE} -> lwgeom_numpoints_linestring_recursive(b, q)
                  [] OTHER -> -1
        found == SelectSeq([i \in DOMAIN subs |-> N(subs[i])], LAMBDA n : n # -1)
    IN  IF Type(b, p) \in {COMPOUNDTYPE, CURVEPOLYTYPE} \/ found = <<>> THEN -1 ELSE found[1]

LWGEOM_numgeometries_collection(b) ==
    IF Type(b, 1) \in Multis \cup {MULTICURVETYPE, MULTISURFACETYPE, COLLECTIONTYPE}
    THEN lwgeom_getnumgeometries(b, 1) ELSE -1

\* A member gets the collection's SRID, and a box if the collection has one.
LWGEOM_geometryn_collection(b, n) ==
    LET c == pglwgeom_deserialize(b)
        g == [c.body[n] EXCEPT !.srid = c.srid]
    IN  IF Type(b, 1) \in Pointed \cup {COMPOUNDTYPE, POLYGONTYPE, CURVEPOLYTYPE} \/ n \notin DOMAIN c.body
        THEN Null
        ELSE pglwgeom_serialize(IF c.box # NoBox THEN lwgeom_add_bbox(g) ELSE g)

RECURSIVE lwgeom_dimension_recursive(_, _)
lwgeom_dimension_recursive(b, p) ==
    LET subs == lwgeom_inspect(b, p)
        D(q) == CASE Type(b, q) \in {POINTTYPE, MULTIPOINTTYPE} -> 0
                  [] Type(b, q) \in {LINETYPE, CIRCSTRINGTYPE, COMPOUNDTYPE, MULTILINETYPE, MULTICURVETYPE} -> 1
                  [] Type(b, q) = COLLECTIONTYPE -> lwgeom_dimension_recursive(b, q)
                  [] OTHER -> 2
    IN  IF Type(b, p) = CURVEPOLYTYPE THEN 2
        ELSE FoldSeq(Greatest2, -1, [i \in DOMAIN subs |-> D(subs[i])])

\* The shell as a line, with the polygon's box, which is the shell's.
LWGEOM_exteriorring_polygon(b) ==
    LET g == pglwgeom_deserialize(b)
    IN  CASE g.type = POLYGONTYPE ->
               pglwgeom_serialize([Make(LINETYPE, g.z, g.m, g.srid, g.body[1]) EXCEPT !.box = g.box])
          [] g.type = CURVEPOLYTYPE -> pglwgeom_serialize(g.body[1])
          [] OTHER -> Raised

LWGEOM_interiorringn_polygon(b, n) ==
    LET g    == pglwgeom_deserialize(b)
        ring == g.body[n + 1]
        line == Make(LINETYPE, g.z, g.m, g.srid, ring)
    IN  IF n < 1 THEN Null
        ELSE IF g.type \notin {POLYGONTYPE, CURVEPOLYTYPE} THEN Raised
        ELSE IF n >= Len(g.body) THEN Null
        ELSE IF g.type = CURVEPOLYTYPE THEN pglwgeom_serialize(ring)
        ELSE pglwgeom_serialize(IF g.box = NoBox THEN line
                                ELSE [line EXCEPT !.box = Box2d(PtarrayBox3d(ring, FALSE))])

LWGEOM_numinteriorrings_polygon(b) ==
    LET g == IF Type(b, 1) = CURVEPOLYTYPE THEN pglwgeom_deserialize(b)
             ELSE FirstSub(b, {POLYGONTYPE, CURVEPOLYTYPE})
    IN  IF g = Failed THEN -1 ELSE Len(g.body) - 1

\* A vertex of a line, as a point of its own.
Vertex(b, l, i) == Make(POINTTYPE, l.z, l.m, pglwgeom_getSRID(b), <<l.body[i]>>)

LWGEOM_pointn_linestring(b, n) ==
    LET l == FirstSub(b, {LINETYPE, CIRCSTRINGTYPE})
    IN  IF Type(b, 1) \in {COMPOUNDTYPE, CURVEPOLYTYPE} \/ l = Failed THEN Null
        ELSE IF n \notin 1..Len(l.body) THEN Null
        ELSE PG_LWGEOM_construct(lwgeom_serialize(Vertex(b, l, n)), pglwgeom_getSRID(b), FALSE)

\* Of lines only, where numpoints and pointn take curves too.
LWGEOM_startpoint_linestring(b) ==
    LET l == FirstSub(b, {LINETYPE})
    IN  IF Type(b, 1) \in {CURVEPOLYTYPE, COMPOUNDTYPE} \/ l = Failed THEN Null
        ELSE pglwgeom_serialize(Vertex(b, l, 1))
LWGEOM_endpoint_linestring(b) ==
    LET l == FirstSub(b, {LINETYPE})
    IN  IF Type(b, 1) \in {CURVEPOLYTYPE, COMPOUNDTYPE} \/ l = Failed THEN Null
        ELSE pglwgeom_serialize(Vertex(b, l, Len(l.body)))

\* X, Y, Z and M of a point.
Ordinates(b) ==
    LET g == GetOfType(b, 0, POINTTYPE)
    IN  IF Type(b, 1) # POINTTYPE THEN Raised ELSE GetPoint4d(g.body[1], g.z, g.m)

\* The ends meet, in Z too if there is one.
ClosedEnds(p, q, z) == SubSeq(p, 1, IF z THEN 3 ELSE 2) = SubSeq(q, 1, IF z THEN 3 ELSE 2)
line_is_closed(l)       == ClosedEnds(l.body[1], Last(l.body), l.z)
circstring_is_closed(c) == ClosedEnds(c.body[1], Last(c.body), c.z)
compound_is_closed(c)   == ClosedEnds(c.body[1].body[1], Last(Last(c.body).body), c.z)

\* TRUE for anything without an open line: for a polygon or a point too.
LWGEOM_isclosed_linestring(b) ==
    LET Open(g) == \/ g.type = LINETYPE /\ ~line_is_closed(g)
                   \/ g.type = CIRCSTRINGTYPE /\ ~circstring_is_closed(g)
                   \/ g.type = COMPOUNDTYPE /\ ~compound_is_closed(g)
    IN  IF Type(b, 1) = COMPOUNDTYPE THEN compound_is_closed(pglwgeom_deserialize(b))
        ELSE \A i \in DOMAIN Subs(b) : ~Open(Subs(b)[i])

LWGEOM_isempty(b) == lwgeom_getnumgeometries(b, 1) = 0

LWGEOM_same(a, b) ==
    /\ Type(a, 1) = Type(b, 1)
    /\ lwgeom_hasZ(a[1]) = lwgeom_hasZ(b[1]) /\ lwgeom_hasM(a[1]) = lwgeom_hasM(b[1])
    /\ lwgeom_same(pglwgeom_deserialize(a), pglwgeom_deserialize(b))
=============================================================================
