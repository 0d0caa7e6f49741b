--------------------------- MODULE GeometryEditors ---------------------------
(***************************************************************************)
(* The SQL functions that make a stored geometry of others: they change    *)
(* its dimensions, type, points or direction, collect several into one,    *)
(* or dump one into several.                                               *)
(***************************************************************************)
EXTENDS GeometryFunctions

-----------------------------------------------------------------------------
(* Other dimensions. *)

\* Points, members and their members in the wanted dimensions; SRIDs and boxes
\* are copied.
RECURSIVE Forced(_, _, _)
Forced(g, z, m) ==
    LET Point(p) == SetPoint4d(GetPoint4d(p, g.z, g.m), z, m)
        Row(pa)  == [i \in DOMAIN pa |-> Point(pa[i])]
    IN  [g EXCEPT !.z = z, !.m = m,
                  !.body = CASE g.type \in Pointed -> Row(@)
                             [] g.type = POLYGONTYPE -> [i \in DOMAIN @ |-> Row(@[i])]
                             [] OTHER -> [i \in DOMAIN @ |-> Forced(@[i], z, m)]]

Recursively(b, z, m) == lwgeom_serialize(Forced(pglwgeom_deserialize(b), z, m))
lwgeom_force2d_recursive(b)  == Recursively(b, FALSE, FALSE)
lwgeom_force3dz_recursive(b) == Recursively(b, TRUE, FALSE)
lwgeom_force3dm_recursive(b) == Recursively(b, FALSE, TRUE)
lwgeom_force4d_recursive(b)  == Recursively(b, TRUE, TRUE)

Reboxed(b, s) == PG_LWGEOM_construct(s, pglwgeom_getSRID(b), lwgeom_hasBBOX(b[1]))
LWGEOM_force_2d(b) ==
    IF lwgeom_ndims(b[1]) = 2 THEN b ELSE Reboxed(b, lwgeom_force2d_recursive(b))
LWGEOM_force_3dz(b) ==
    IF lwgeom_ndims(b[1]) = 3 /\ lwgeom_hasZ(b[1]) THEN b ELSE Reboxed(b, lwgeom_force3dz_recursive(b))
LWGEOM_force_3dm(b) ==
    IF lwgeom_ndims(b[1]) = 3 /\ lwgeom_hasM(b[1]) THEN b ELSE Reboxed(b, lwgeom_force3dm_recursive(b))
LWGEOM_force_4d(b) ==
    IF lwgeom_ndims(b[1]) = 4 THEN b ELSE Reboxed(b, lwgeom_force4d_recursive(b))

\* The bytes set aside for what each of them writes; VARSIZE counts the length.
Varsize(b) == Len(b) + 4
RoomFor3dz(b) == IF lwgeom_ndims(b[1]) > 3 THEN Varsize(b) ELSE (3 * Varsize(b)) \div 2
RoomFor3dm(b) == IF lwgeom_ndims(b[1]) > 3 THEN Varsize(b) ELSE 2 * Varsize(b)
RoomFor4d(b)  == 2 * Varsize(b)

-----------------------------------------------------------------------------
(* Other types. *)

LWGEOM_force_collection(b) ==
    LET g == pglwgeom_deserialize(b)
    IN  IF Type(b, 1) = COLLECTIONTYPE /\ lwgeom_hasBBOX(b[1]) THEN b
        ELSE IF lwgeom_is_collection(g.type) THEN pglwgeom_serialize([g EXCEPT !.type = COLLECTIONTYPE])
        ELSE pglwgeom_serialize(
               [lwcollection_construct(COLLECTIONTYPE, g.srid, <<lwgeom_dropSRID(lwgeom_drop_bbox(g))>>)
                  EXCEPT !.box = g.box])

LWGEOM_force_multi(b) ==
    IF lwgeom_is_collection(Type(b, 1)) /\ lwgeom_hasBBOX(b[1]) THEN b
    ELSE pglwgeom_serialize(lwgeom_as_multi(pglwgeom_deserialize(b)))

ST_CollectionExtract(b, type) ==
    LET g == pglwgeom_deserialize(b)
    IN  IF type \notin {POINTTYPE, LINETYPE, POLYGONTYPE} THEN Raised
        ELSE IF ~lwgeom_is_collection(g.type) THEN IF g.type = type THEN b ELSE Null
        ELSE pglwgeom_serialize(lwcollection_extract(g, type))

-----------------------------------------------------------------------------
(* Other points. *)

LWGEOM_reverse(b)      == pglwgeom_serialize(lwgeom_reverse(pglwgeom_deserialize(b)))
LWGEOM_forceRHR_poly(b) == pglwgeom_serialize(lwgeom_force_rhr(pglwgeom_deserialize(b)))
LWGEOM_longitude_shift(b) ==
    pglwgeom_serialize(lwgeom_longitude_shift(lwgeom_drop_bbox(pglwgeom_deserialize(b))))

\* The box of the input is the box of the output.
LWGEOM_segmentize2d(b, d) ==
    LET g == pglwgeom_deserialize(b)
    IN  IF g.type \in {POINTTYPE, MULTIPOINTTYPE} THEN b
        ELSE pglwgeom_serialize([lwgeom_segmentize2d(g, d) EXCEPT !.box = g.box])

\* An affine map is <<a, b, c, d, e, f, g, h, i, xoff, yoff, zoff>>; without Z,
\* only its plane part.
lwgeom_affine_ptarray(pa, z, t) ==
    [i \in DOMAIN pa |->
       LET p == pa[i]
           w == IF z THEN p[3] ELSE 0
       IN  [d \in DOMAIN p |->
              CASE d = 1 -> t[1] * p[1] + t[2] * p[2] + t[3] * w + t[10]
                [] d = 2 -> t[4] * p[1] + t[5] * p[2] + t[6] * w + t[11]
                [] d = 3 /\ z -> t[7] * p[1] + t[8] * p[2] + t[9] * w + t[12]
                [] OTHER -> p[d]]]

RECURSIVE lwgeom_affine_recursive(_, _)
lwgeom_affine_recursive(g, t) ==
    [g EXCEPT !.body =
       CASE g.type \in Pointed -> lwgeom_affine_ptarray(@, g.z, t)
         [] g.type = POLYGONTYPE -> [i \in DOMAIN @ |-> lwgeom_affine_ptarray(@[i], g.z, t)]
         [] OTHER -> [i \in DOMAIN @ |-> lwgeom_affine_recursive(@[i], t)]]

\* Mutant of LWGEOM_affine: the box stays where the geometry was.
LWGEOM_affineKeepingBox(b, t) == pglwgeom_serialize(lwgeom_affine_recursive(pglwgeom_deserialize(b), t))

\* The points are moved in the bytes; the box is computed anew, of a point too.
LWGEOM_affine(b, t) ==
    pglwgeom_serialize(lwgeom_add_bbox(lwgeom_drop_bbox(lwgeom_affine_recursive(pglwgeom_deserialize(b), t))))

\* Positions count from 0; -1 is the end.
LWGEOM_addpoint(b, p, where) ==
    LET l  == pglwgeom_deserialize(b)
        at == IF where = -1 THEN Len(l.body) ELSE where
        q  == pglwgeom_deserialize(p)
        \* The doubles it has, whatever they are, and zeros.
        raw == [d \in 1..NDims(l) |-> IF d <= NDims(q) THEN q.body[1][d] ELSE 0]
    IN  IF l.type # LINETYPE \/ q.type # POINTTYPE \/ at \notin 0..Len(l.body) THEN Raised
        ELSE pglwgeom_serialize(lwline_addpoint(l, raw, at))

LWGEOM_removepoint(b, which) ==
    LET l == pglwgeom_deserialize(b)
    IN  IF l.type # LINETYPE THEN Raised
        ELSE IF which > Len(l.body) - 1 \/ Len(l.body) < 3 THEN Raised
        ELSE pglwgeom_serialize(lwline_removepoint(l, which))

LWGEOM_setpoint_linestring(b, which, p) ==
    LET l == pglwgeom_deserialize(b)
        q == pglwgeom_deserialize(p)
    IN  IF q.type # POINTTYPE \/ l.type # LINETYPE THEN Raised
        ELSE IF which > Len(l.body) - 1 THEN Raised
        ELSE pglwgeom_serialize(lwline_setPoint4d(l, which, GetPoint4d(q.body[1], q.z, q.m)))

-----------------------------------------------------------------------------
(* Several into one. *)

LWGEOM_makeline(a, b) ==
    LET p == pglwgeom_deserialize(a)
        q == pglwgeom_deserialize(b)
    IN  IF p.type # POINTTYPE \/ q.type # POINTTYPE \/ p.srid # q.srid THEN Raised
        ELSE pglwgeom_serialize(lwline_from_lwpointarray(p.srid, <<p, q>>))

LWGEOM_line_from_mpoint(b) ==
    LET g == pglwgeom_deserialize(b)
    IN  IF g.type # MULTIPOINTTYPE THEN Raised ELSE pglwgeom_serialize(lwline_from_lwmpoint(g.srid, g))

LWGEOM_makepoly(shell, holes) ==
    LET s == pglwgeom_deserialize(shell)
        h == [i \in DOMAIN holes |-> pglwgeom_deserialize(holes[i])]
    IN  IF \E g \in ToSet(<<s>> \o h) : g.type # LINETYPE THEN Raised
        ELSE pglwgeom_serialize(lwpoly_from_lwlines(s, h))

\* The type of a collection of geometries of these types, taken in turn.
OutType(types) ==
    LET Next2(out, t) == IF out = 0 THEN IF t < 4 THEN t + 3 ELSE COLLECTIONTYPE
                         ELSE IF out # COLLECTIONTYPE /\ t # out - 3 THEN COLLECTIONTYPE ELSE out
    IN  FoldLeft(Next2, 0, types)

\* Null for a NULL.  The boxes are united if both have one.
LWGEOM_collect(a, b) ==
    LET g == pglwgeom_deserialize(a)
        h == pglwgeom_deserialize(b)
        c == lwcollection_construct(OutType(<<g.type, h.type>>), g.srid,
               <<lwgeom_dropSRID(lwgeom_drop_bbox(g)), lwgeom_dropSRID(lwgeom_drop_bbox(h))>>)
    IN  IF a = Null THEN b ELSE IF b = Null THEN a
        ELSE IF g.srid # h.srid \/ c = Failed THEN Raised
        ELSE pglwgeom_serialize([c EXCEPT !.box = IF NoBox \in {g.box, h.box} THEN NoBox ELSE BoxUnion(g.box, h.box)])

\* The elements of an array that are not NULL.
LWGEOM_collect_garray(array) ==
    LET gs == [i \in DOMAIN SelectSeq(array, LAMBDA b : b # Null) |->
                 pglwgeom_deserialize(SelectSeq(array, LAMBDA b : b # Null)[i])]
        c  == lwcollection_construct(OutType([i \in DOMAIN gs |-> gs[i].type]), gs[1].srid,
                [i \in DOMAIN gs |-> lwgeom_dropSRID(lwgeom_drop_bbox(gs[i]))])
        boxes == [i \in DOMAIN gs |-> gs[i].box]
    IN  IF gs = <<>> THEN Null
        ELSE IF (\E i \in DOMAIN gs : gs[i].srid # gs[1].srid) \/ c = Failed THEN Raised
        ELSE pglwgeom_serialize([c EXCEPT !.box = IF NoBox \in ToSet(boxes) THEN NoBox
                                                  ELSE FoldSeq(BoxUnion, NoBox, boxes)])

\* Whatever is not a point is left out.
LWGEOM_makeline_garray(array) ==
    LET IsPoint(b) == b # Null /\ b[1] % 16 = POINTTYPE
        ps == [i \in DOMAIN SelectSeq(array, IsPoint) |-> pglwgeom_deserialize(SelectSeq(array, IsPoint)[i])]
    IN  IF ps = <<>> THEN Null
        ELSE IF \E i \in DOMAIN ps : ps[i].srid # ps[1].srid THEN Raised
        ELSE pglwgeom_serialize(lwline_from_lwpointarray(ps[1].srid, ps))

\* An aggregate gathers its rows, NULLs included, and hands the array over.
pgis_geometry_accum_transfn(state, row) == Append(state, row)
Gathered(rows) == FoldLeft(pgis_geometry_accum_transfn, <<>>, rows)
pgis_geometry_collect_finalfn(rows) ==
    IF rows = <<>> THEN Null ELSE LWGEOM_collect_garray(Gathered(rows))
pgis_geometry_makeline_finalfn(rows) ==
    IF rows = <<>> THEN Null ELSE LWGEOM_makeline_garray(Gathered(rows))

-----------------------------------------------------------------------------
(* Boxes as geometries. *)

Rectangle(b) == <<<<b[1], b[2]>>, <<b[1], b[4]>>, <<b[3], b[4]>>, <<b[3], b[2]>>, <<b[1], b[2]>>>>
BoxPolygon(srid, b) ==
    [Make(POLYGONTYPE, FALSE, FALSE, srid, <<Rectangle(b)>>)
       EXCEPT !.box = Box2d(PtarrayBox3d(Rectangle(b), FALSE))]

ST_MakeEnvelope(x1, y1, x2, y2, srid) == pglwgeom_serialize(BoxPolygon(srid, <<x1, y1, x2, y2>>))

\* What has no box is left as it is.
Expanded(b, c, d) ==
    IF c = NoBox THEN b
    ELSE pglwgeom_serialize(BoxPolygon(pglwgeom_getSRID(b), <<c[1] - d, c[2] - d, c[3] + d, c[4] + d>>))
LWGEOM_expand(b, d) == Expanded(b, Box2d(compute_serialized_box3d(b, 1)), d)

\* A point, a line or a polygon, as its box has no, one or two dimensions.
EnvelopeOf(c, srid) ==
    CASE c[1] = c[3] /\ c[2] = c[4] -> Make(POINTTYPE, FALSE, FALSE, srid, <<<<c[1], c[2]>>>>)
      [] (c[1] = c[3]) # (c[2] = c[4]) ->
           Make(LINETYPE, FALSE, FALSE, srid, <<<<c[1], c[2]>>, <<c[3], c[4]>>>>)
      [] OTHER -> BoxPolygon(srid, c)
LWGEOM_envelope(b) ==
    LET c == Box2d(compute_serialized_box3d(b, 1))
    IN  IF c = NoBox THEN b
        ELSE PG_LWGEOM_construct(lwgeom_serialize(EnvelopeOf(c, pglwgeom_getSRID(b))), pglwgeom_getSRID(b), TRUE)

-----------------------------------------------------------------------------
(* One into several. *)

\* The stack of collections being walked, with the index in each: a member that
\* is a collection is pushed, any other is a row with its path; at the end of
\* one, the index below moves on.
RECURSIVE DumpFrom(_, _)
DumpFrom(stack, srid) ==
    LET top  == Last(stack)
        x    == top.geom.body[top.idx + 1]
        Moved(s) == [s EXCEPT ![Len(s)].idx = @ + 1]
    IN  IF top.idx >= Len(top.geom.body)
        THEN IF Len(stack) = 1 THEN <<>> ELSE DumpFrom(Moved(Front(stack)), srid)
        ELSE IF lwgeom_is_collection(x.type) THEN DumpFrom(Append(stack, [geom |-> x, idx |-> 0]), srid)
        ELSE <<[path |-> [i \in DOMAIN stack |-> stack[i].idx + 1],
                geom |-> lwgeom_serialize([x EXCEPT !.srid = srid])]>> \o DumpFrom(Moved(stack), srid)

LWGEOM_dump(b) ==
    LET g == pglwgeom_deserialize(b)
    IN  IF ~lwgeom_is_collection(g.type) THEN <<[path |-> <<>>, geom |-> b]>>
        ELSE DumpFrom(<<[geom |-> g, idx |-> 0]>>, g.srid)

\* Each ring as a polygon; paths count from 0.
LWGEOM_dump_rings(b) ==
    LET g == pglwgeom_deserialize(b)
    IN  [i \in DOMAIN g.body |->
           [path |-> <<i - 1>>,
            geom |-> lwgeom_serialize(lwpoly_construct(g.z, g.m, g.srid, <<g.body[i]>>))]]
=============================================================================
