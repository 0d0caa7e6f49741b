------------------------------ MODULE Routines ------------------------------
(***************************************************************************)
(* The routines of PostGIS that keep no state of their own, put to work    *)
(* one at a time: a step hands one of them an input, and an invariant says *)
(* what its answer is worth.  Those of the indexes are in BoxIndex.        *)
(***************************************************************************)
EXTENDS Integers, FiniteSets, Sequences, BoxIndex, Texts

CONSTANTS
    Geometries, Parts,            \* geometries to take apart, and to put together
    Texted, Styles,               \* geometries to write as texts, and <<version, precision, option>>
    Documents, Numbers            \* documents that say the same, and numbers by their characters

(* What the functions store, of one geometry and of two. *)

RECURSIVE HasArcs(_)
HasArcs(g) == \/ g.type = CIRCSTRINGTYPE
              \/ g.type \notin Pointed \cup {POLYGONTYPE} /\ \E i \in DOMAIN g.body : HasArcs(g.body[i])

Curved == {COMPOUNDTYPE, CURVEPOLYTYPE, MULTICURVETYPE, MULTISURFACETYPE}

Shift == <<1, 0, 0, 0, 1, 0, 0, 0, 1, 5, -2, 0>>
Back  == [Shift EXCEPT ![10] = -5, ![11] = 2]

\* Lines whose points can be counted out in whole steps.
AlongAxes(pa) == \A i \in 1..Len(pa) - 1 : pa[i][1] = pa[i + 1][1] \/ pa[i][2] = pa[i + 1][2]

\* A collection with an empty member is stored without a box, but gets one when
\* its bytes are copied.
SameButBox(a, b) == LWGEOM_dropBBOX(a) = LWGEOM_dropBBOX(b)

Good(r) == r \notin {Null, Raised}

\* g as it is, b as it is stored.
Results(g, b) ==
    {b, LWGEOM_setSRID(b, 7), LWGEOM_setSRID(b, -1), LWGEOM_addBBOX(lwgeom_serialize(g)),
     LWGEOM_force_2d(b), LWGEOM_force_3dz(b), LWGEOM_force_3dm(b), LWGEOM_force_4d(b),
     LWGEOM_force_collection(b), LWGEOM_force_multi(b), LWGEOM_reverse(b), LWGEOM_forceRHR_poly(b),
     LWGEOM_affine(b, Shift), LWGEOM_expand(b, 1), LWGEOM_envelope(b)}
    \cup {LWGEOM_geometryn_collection(b, n) : n \in 1..2}
    \cup {ST_CollectionExtract(b, t) : t \in 1..3}
    \cup (IF g.type = POLYGONTYPE /\ g.body # <<>>
          THEN {LWGEOM_exteriorring_polygon(b), LWGEOM_interiorringn_polygon(b, 1)} ELSE {})
    \cup (IF \A p \in ToSet(Vertices(g)) : p[1] >= 0 THEN {LWGEOM_longitude_shift(b)} \ {Raised} ELSE {})
    \cup (IF g.type \in {LINETYPE, POLYGONTYPE, MULTILINETYPE, MULTIPOLYGONTYPE} /\ Vertices(g) # <<>>
               /\ ~\E i \in DOMAIN g.body : g.body[i] = <<>> \/ (g.type \in Multis /\ g.body[i].body = <<>>)
          THEN {LWGEOM_segmentize2d(b, 2)} ELSE {})

Joined2(a, b, x, y) ==
    {LWGEOM_collect(x, y), pgis_geometry_collect_finalfn(<<x, Null, y, x>>),
     pglwgeom_serialize(lwgeom_add(a, -1, b)), pglwgeom_serialize(lwgeom_add(a, 0, b))}
    \cup (IF a.type = POINTTYPE /\ b.type = POINTTYPE
          THEN {LWGEOM_makeline(x, y), pgis_geometry_makeline_finalfn(<<x, y, Null, x>>)} ELSE {})
    \cup (IF a.type = LINETYPE /\ b.type = POINTTYPE
          THEN {LWGEOM_addpoint(x, y, n) : n \in -1..Len(a.body)}
               \cup {LWGEOM_setpoint_linestring(x, n, y) : n \in 0..Len(a.body) - 1} ELSE {})

-----------------------------------------------------------------------------
\* A session with one request to make.
Init == \E w \in {"index", "edit", "gml", "kml", "web", "well-known", "read"} : input = [kind |-> "none", wants |-> w]

\* A geometry is stored, read and changed; two are put together.
EditGeometry ==
    /\ Wanted("edit")
    /\ \E g \in Geometries :
      LET b == pglwgeom_serialize(g)
      IN  input' = [kind |-> "geometry", geom |-> g, stored |-> b, results |-> Results(g, b)]
JoinGeometries ==
    /\ Wanted("edit")
    /\ \E a, b \in Parts :
      LET x == pglwgeom_serialize(a)
          y == pglwgeom_serialize(b)
      IN  input' = [kind |-> "parts", a |-> a, b |-> b, x |-> x, y |-> y,
                    results |-> Joined2(a, b, x, y)]

\* A geometry is written as a text, and the text is read.
WriteGml ==
    /\ Wanted("gml")
    /\ \E g \in Texted, v \in Styles, kept \in BOOLEAN :
      LET text == LWGEOM_asGML(v[1], pglwgeom_serialize(g), v[2], v[3])
      IN  input' = [kind |-> "gml", geom |-> g, style |-> v, kept |-> kept, back |-> geom_from_gml(text, kept)]
WriteKml ==
    /\ Wanted("kml")
    /\ \E g \in Texted, precision \in 0..1, kept \in BOOLEAN :
      LET text == LWGEOM_asKML(2, pglwgeom_serialize(g), precision)
      IN  input' = [kind |-> "kml", geom |-> g, precision |-> precision, kept |-> kept,
                    back |-> geom_from_kml(text, kept)]
WriteWeb ==
    /\ Wanted("web")
    /\ \E g \in Texted, precision \in 0..1, option \in {0, 3, 5}, relative \in BOOLEAN :
      LET b == pglwgeom_serialize(g)
      IN  /\ relative => \A i \in DOMAIN Rows(g) : Rows(g)[i].at # <<>>
          /\ input' = [kind |-> "web", geom |-> g, precision |-> precision, option |-> option, relative |-> relative,
                        json |-> LWGEOM_asGeoJson(1, b, precision, option),
                        paths |-> assvg_geometry(b, relative, precision)]
WriteWellKnown ==
    /\ Wanted("well-known")
    /\ \E g \in Texted \cup Geometries :
      LET b == pglwgeom_serialize(g)
      IN  input' = [kind |-> "well-known", geom |-> g, stored |-> b, text |-> LWGEOM_asEWKT(b),
                    plain |-> LWGEOM_asText(b), wkb |-> [e \in {XDR, NDR} |-> WKBFromLWGEOM(b, e)]]
ReadDocuments ==
    /\ Wanted("read")
    /\ \E ds \in Documents :
      input' = [kind |-> "documents", read |-> [i \in DOMAIN ds |-> geom_from_gml(ds[i], FALSE)]]
ReadNumber ==
    /\ Wanted("read")
    /\ \E n \in Numbers, blanks \in BOOLEAN :
      input' = [kind |-> "number", chars |-> n, blanks |-> blanks, ok |-> parse_gml_double(n, blanks)]

Next ==
    \/ IndexNext
    \/ EditGeometry \/ JoinGeometries
    \/ WriteGml \/ WriteKml \/ WriteWeb \/ WriteWellKnown \/ ReadDocuments \/ ReadNumber

Spec == Init /\ [][Next]_input

-----------------------------------------------------------------------------
(* Geometries. *)

\* What is computed of a geometry in memory and of its bytes agrees.  A multi
\* made of its members is what it was; of one polygon it is a polygon.
AgreeOn(g, b) ==
    /\ ~HasArcs(g) /\ g.type \notin Curved =>
         /\ lwgeom_count_vertices(g) = lwgeom_npoints(b, 1)
         /\ LWGEOM_same(b, LWGEOM_noop(b))
    /\ g.body # <<>> => lwgeom_dimension_recursive(b, 1) = lwgeom_dimensionality(g)
    /\ g.type \in Multis /\ g.body # <<>> =>
         LET made == lwgeom_serialized_construct(g.srid, 0, g.z, g.m,
                       [i \in DOMAIN g.body |-> lwgeom_serialize(g.body[i])])
         IN  IF g.type = MULTIPOLYGONTYPE /\ Len(g.body) = 1 THEN Type(made, 1) = POLYGONTYPE
             ELSE made = LWGEOM_dropBBOX(b)

\* A geometry and its bytes: every writer writes what it measured, and every
\* reader finds what was written, in the whole and in each part; changing the
\* SRID or the box in the bytes changes nothing else.  What the functions
\* store can be read and measures what it is.
ReadsBack ==
    /\ input.kind = "geometry" =>
         LET g == input.geom
             b == lwgeom_serialize(g)
         IN  /\ Len(b) = lwgeom_serialize_size(g)
             /\ lwgeom_deserialize(b, 1) = g
             /\ lwgeom_getsrid(b, 1) = g.srid
             /\ lwgeom_npoints(b, 1) = Len(Vertices(g))
             /\ g.type \notin Pointed \cup {POLYGONTYPE} =>
                  /\ Subs(b) = g.body
                  /\ \A i \in DOMAIN g.body :
                       GetOfTypeInspected(b, i - 1, g.body[i].type) = g.body[i]
                  /\ g.type \notin {COMPOUNDTYPE, CURVEPOLYTYPE} =>
                       lwgeom_getnumgeometries(b, 1) = Len(g.body)
             /\ AgreeOn(g, b)
             /\ pglwgeom_deserialize(pglwgeom_setSRID(b, 9)) = [g EXCEPT !.srid = 9]
             /\ pglwgeom_deserialize(pglwgeom_setSRID(b, -1)) = lwgeom_dropSRID(g)
             /\ pglwgeom_deserialize(LWGEOM_dropBBOX(b)) = lwgeom_drop_bbox(g)
             /\ pglwgeom_deserialize(LWGEOM_dropBBOX(LWGEOM_addBBOX(b))) = lwgeom_drop_bbox(g)
    /\ input.kind \in {"geometry", "parts"} =>
         \A r \in {s \in input.results : Good(s)} :
                    /\ lwgeom_size(r, 1) = Len(r)
                    /\ lwgeom_serialize(pglwgeom_deserialize(r)) = r

\* The box kept with a geometry is the box of its vertices, whatever function
\* stored it and however it came by the box: copied, united or computed anew.
\* An arc may reach beyond its vertices.
BoxesAreTrue ==
    input.kind \in {"geometry", "parts"} =>
       \A r \in {s \in input.results : Good(s)} :
         LET g    == pglwgeom_deserialize(r)
             hull == Box2d(PtarrayBox3d(Vertices(g), FALSE))
         IN  g.box # NoBox /\ hull # NoBox =>
               IF HasArcs(g) THEN BoxUnion(g.box, hull) = g.box ELSE g.box = hull

\* The parts of EditsLoseNothing.
Undone(g, b) ==
    /\ LWGEOM_reverse(LWGEOM_reverse(b)) = b
    /\ LWGEOM_forceRHR_poly(LWGEOM_forceRHR_poly(b)) = LWGEOM_forceRHR_poly(b)
    /\ LWGEOM_area_polygon(LWGEOM_forceRHR_poly(b)) = LWGEOM_area_polygon(b)
    /\ LWGEOM_affine(LWGEOM_affine(b, Shift), Back) = IF g.type = POINTTYPE THEN LWGEOM_addBBOX(b) ELSE b
    /\ lwgeom_ndims(b[1]) = 2 /\ Vertices(g) # <<>> =>
         /\ SameButBox(LWGEOM_force_2d(LWGEOM_force_4d(b)), b)
         /\ SameButBox(LWGEOM_force_2d(LWGEOM_force_3dz(b)), b)

\* What the dimensions take fits into what is set aside for them.
RoomEnough(b) ==
    /\ Varsize(lwgeom_force3dz_recursive(b)) <= RoomFor3dz(b)
    /\ Varsize(lwgeom_force3dm_recursive(b)) <= RoomFor3dm(b)
    /\ Varsize(lwgeom_force4d_recursive(b)) <= RoomFor4d(b)

\* A dump has every vertex once, and its paths lead to what it has (but
\* GeometryN does not take a compound curve apart, and a dump does).
\* Extracting takes each member of the type, and only those.
DumpIsComplete(g, b, rows) ==
    /\ SumOf([i \in DOMAIN rows |-> lwgeom_npoints(rows[i].geom, 1)]) = Len(Vertices(g))
    /\ g.type # COMPOUNDTYPE =>
         \A i \in DOMAIN rows :
           SameButBox(FoldLeft(LWGEOM_geometryn_collection, b, rows[i].path), rows[i].geom)
    /\ lwgeom_is_collection(g.type) =>
         \A t \in 1..3 :
           lwgeom_npoints(ST_CollectionExtract(b, t), 1) =
             SumOf([i \in DOMAIN rows |-> IF Type(rows[i].geom, 1) = t
                                          THEN lwgeom_npoints(rows[i].geom, 1) ELSE 0])

EndsAndMiddle(b) ==
    /\ LWGEOM_pointn_linestring(b, 1) = LWGEOM_startpoint_linestring(b)
    /\ LWGEOM_pointn_linestring(b, lwgeom_numpoints_linestring_recursive(b, 1))
         = LWGEOM_endpoint_linestring(b)

\* s: the line g, stored as b, in segments.
SegmentsAddUp(g, b, s) ==
    /\ LWGEOM_length2d_linestring(s) = LWGEOM_length2d_linestring(b)
    /\ ToSet(Vertices(g)) \subseteq ToSet(Vertices(pglwgeom_deserialize(s)))

RingsMakePolygon(b, rings) ==
    /\ LWGEOM_makepoly(rings[1], Tail(rings)) = b
    /\ lwgeom_nrings_recursive(b, 1) = Len(rings)
    /\ LWGEOM_perimeter2d_poly(b) =
         SumOf([i \in DOMAIN rings |-> LWGEOM_length2d_linestring(rings[i])])

\* c: a and b, stored as x and y, collected.
CollectKeeps(a, b, x, y, c) ==
    /\ lwgeom_npoints(c, 1) = lwgeom_npoints(x, 1) + lwgeom_npoints(y, 1)
    /\ pglwgeom_getSRID(c) = a.srid
    /\ Vertices(pglwgeom_deserialize(c)) = Vertices(a) \o Vertices(b)
    /\ b.type = POINTTYPE \/ LWGEOM_geometryn_collection(c, 2) = y
    /\ pgis_geometry_collect_finalfn(<<Null, x, y>>) = c

\* l: the line x with the point y as its vertex i.
PointWentIn(a, b, x, y, i, l) ==
    /\ Vertices(pglwgeom_deserialize(LWGEOM_pointn_linestring(l, i + 1))) = b.body
    /\ LWGEOM_removepoint(l, i) = x
    /\ i < Len(a.body) =>
         LWGEOM_removepoint(LWGEOM_addpoint(x, y, i + 1), i) = LWGEOM_setpoint_linestring(x, i, y)

\* Edits that undo each other do, parts put together can be taken out again,
\* and nothing is lost or made up on the way.
EditsLoseNothing ==
    /\ input.kind = "geometry" =>
         LET g == input.geom
             b == input.stored
         IN  /\ Undone(g, b)
             /\ RoomEnough(b)
             /\ DumpIsComplete(g, b, LWGEOM_dump(b))
             /\ g.type = LINETYPE /\ g.body # <<>> =>
                  /\ EndsAndMiddle(b)
                  /\ ~g.m /\ AlongAxes(g.body) => SegmentsAddUp(g, b, LWGEOM_segmentize2d(b, 2))
             /\ g.type = POLYGONTYPE /\ g.body # <<>> =>
                  RingsMakePolygon(b, <<LWGEOM_exteriorring_polygon(b)>>
                     \o [i \in 1..LWGEOM_numinteriorrings_polygon(b) |-> LWGEOM_interiorringn_polygon(b, i)])
    /\ input.kind = "parts" =>
         LET a == input.a
             b == input.b
         IN  /\ a.srid = b.srid /\ SameZM(<<a, b>>) =>
                  CollectKeeps(a, b, input.x, input.y, LWGEOM_collect(input.x, input.y))
             /\ \A w \in {-1, 0} :
                  lwgeom_add(a, w, b) # Failed =>
                    Len(Vertices(lwgeom_add(a, w, b))) = Len(Vertices(a)) + Len(Vertices(b))
             /\ a.type = LINETYPE /\ Len(a.body) > 1 /\ b.type = POINTTYPE /\ SameZM(<<a, b>>) =>
                  \A i \in 0..Len(a.body) :
                    PointWentIn(a, b, input.x, input.y, i, LWGEOM_addpoint(input.x, input.y, i))

-----------------------------------------------------------------------------
(* Texts. *)

\* The parts of TextsReadBack.
JsonSays(g, json, precision, option) ==
    LET r == FromJson(g.type, g.z, json.coordinates)
    IN  /\ json.type = JsonTypes[g.type]
        /\ Vertices(r) = [i \in DOMAIN Vertices(g) |-> Rounded(Vertices(g)[i], g.z, precision)]
        /\ option % 2 = 1 => json.bbox = JsonBox(r)
        /\ json.crs # <<>> <=> option > 1 /\ g.srid # -1

\* The points of every path, on a page with the second axis downwards.  Steps
\* are rounded one by one, and the error grows with each.
PathsFollow(rows, paths, precision, relative) ==
    LET Near(at, p, i) == LET off == IF precision > 0 THEN 0 ELSE IF relative THEN 5 * i ELSE 5
                          IN  at[1] - p[1] \in -off..off /\ at[2] + p[2] \in -off..off
    IN  /\ Len(paths) = Len(rows)
        /\ \A k \in DOMAIN rows :
             /\ Len(paths[k].at) = Len(rows[k].at)
             /\ paths[k].closed = rows[k].closed
             /\ \A i \in DOMAIN rows[k].at : Near(Replayed(paths[k])[i], rows[k].at[i], i)

GrammarOf(chars) ==
    LET AllDigits(t)  == t # <<>> /\ \A i \in DOMAIN t : t[i] = "d"
        Signed(t)  == IF t # <<>> /\ t[1] = "s" THEN Tail(t) ELSE t
        At(t, c)  == {i \in DOMAIN t : t[i] = c}
        Before(t, i) == SubSeq(t, 1, i - 1)
        After(t, i)  == SubSeq(t, i + 1, Len(t))
        Mantissa(t) == AllDigits(t) \/ \E i \in At(t, "p") : AllDigits(Before(t, i)) /\ AllDigits(After(t, i))
        Decimal(t) ==
            \/ Mantissa(t)
            \/ t # <<>> /\ Last(t) = "p" /\ AllDigits(Front(t))
            \/ \E i \in At(t, "e") : Mantissa(Before(t, i)) /\ AllDigits(Signed(After(t, i)))
    IN  Decimal(Signed(chars))

\* A dump is restored as it was, whatever it was; what is sent arrives, and
\* only what can be is sent; a text can be read if it could be written.
WellKnownReads(g, b, text, wkb) ==
    /\ \A dump \in {LWGEOM_out(b), LWGEOM_asHEXEWKB(b, XDR)} : Unboxed(LWGEOM_in(dump)) = Unboxed(b)
    /\ \A e \in DOMAIN wkb :
         IF BinaryFits(g) THEN Unboxed(LWGEOM_recv(wkb[e])) = Unboxed(b) ELSE wkb[e] = Raised
    /\ IF text = Raised THEN TextBack(g) = Raised ELSE Unboxed(parse_WKT_lwgeom(text)) = TextBack(g)

\* Of bytes that were cut short nothing is made.
CutIsRefused(bytes) == \A n \in 0..Len(bytes) - 1 : LWGEOM_recv(SubSeq(bytes, 1, n)) = Raised

\* The constructors for one type take what is of the type and no other: flat is
\* g in two dimensions with the SRID asked for, read and sent what was made of
\* its text and its bytes.
TypesAreAsked(g, flat, read, sent) ==
    LET Only(type, b)  == IF g.type = type THEN Unboxed(b) = LWGEOM_dropBBOX(lwgeom_serialize(flat)) ELSE b = Null
        Reads(type, b) == IF g.type = type THEN Unboxed(b) = TextBack(flat) ELSE b = Null
    IN  /\ TextFits(g) /\ g.body # <<>> =>
             /\ Reads(POINTTYPE, PointFromText(read)) /\ Reads(LINETYPE, LineFromText(read))
             /\ Reads(POLYGONTYPE, PolyFromText(read)) /\ Reads(MULTIPOINTTYPE, MPointFromText(read))
             /\ Reads(MULTILINETYPE, MLineFromText(read)) /\ Reads(MULTIPOLYGONTYPE, MPolyFromText(read))
             /\ Reads(COLLECTIONTYPE, GeomCollFromText(read))
        /\ BinaryFits(g) =>
             /\ Only(POINTTYPE, PointFromWKB(sent))
             /\ Only(LINETYPE, LineFromWKB(sent)) /\ Only(LINETYPE, LinestringFromWKB(sent))
             /\ Only(POLYGONTYPE, PolyFromWKB(sent)) /\ Only(POLYGONTYPE, PolygonFromWKB(sent))
             /\ Only(MULTIPOINTTYPE, MPointFromWKB(sent)) /\ Only(MULTIPOINTTYPE, MultiPointFromWKB(sent))
             /\ Only(MULTILINETYPE, MLineFromWKB(sent)) /\ Only(MULTILINETYPE, MultiLineFromWKB(sent))
             /\ Only(MULTIPOLYGONTYPE, MPolyFromWKB(sent)) /\ Only(MULTIPOLYGONTYPE, MultiPolyFromWKB(sent))
             /\ Only(COLLECTIONTYPE, GeomCollFromWKB(sent))

\* A text says what the geometry is: what is read of it is what was written, to
\* the digits asked for and with the order of the axes the text declares;
\* documents that say the same in other words are read as the same; and what is
\* taken for a number is one.
TextsReadBack ==
    /\ input.kind = "gml" =>
         Unboxed(input.back) = GmlBack(input.geom, input.style[1], input.style[2], input.style[3], input.kept)
    /\ input.kind = "kml" => Unboxed(input.back) = KmlBack(input.geom, input.precision, input.kept)
    /\ input.kind = "web" =>
         LET g == input.geom
         IN  /\ input.json # NoJson <=> Flatly(g) /\ (input.option > 1 => g.srid \in DOMAIN SpatialRefSys \cup {-1})
             /\ input.json # NoJson => JsonSays(g, input.json, input.precision, input.option)
             /\ input.paths # NoPaths <=> Flatly(g)
             /\ input.paths # NoPaths => PathsFollow(Rows(g), input.paths, input.precision, input.relative)
    /\ input.kind = "well-known" =>
         /\ WellKnownReads(input.geom, input.stored, input.text, input.wkb)
         /\ input.geom \in Texted =>
              /\ TypesAreAsked(input.geom, pglwgeom_deserialize(LWGEOM_setSRID(LWGEOM_force_2d(input.stored), 9)),
                            GeomFromText(input.plain, {9}), GeomFromWKB(LWGEOM_asBinary(input.stored, XDR), {9}))
              /\ input.wkb[NDR] # Raised /\ Len(input.wkb[NDR]) < 60 => CutIsRefused(input.wkb[NDR])
    /\ input.kind = "documents" =>
         input.read[1] # Raised /\ \A i \in DOMAIN input.read : input.read[i] = input.read[1]
    /\ input.kind = "number" =>
         LET blank == {i \in DOMAIN input.chars : input.chars[i] = "b"}
             end   == Len(input.chars) - Cardinality(blank)
         IN  input.ok <=> /\ blank = end + 1..Len(input.chars)
                          /\ blank = {} \/ input.blanks
                          /\ GrammarOf(SubSeq(input.chars, 1, end))
=============================================================================
