----------------------------- MODULE WebFormats -----------------------------
(***************************************************************************)
(* Geometries for web pages: ST_AsKML and ST_GeomFromKML, ST_AsGeoJson and *)
(* ST_AsSVG.  KML documents are the trees of elements of the GML modules;  *)
(* what the other two write is kept as what a reader parses of it, for no  *)
(* function here reads it back.                                            *)
(***************************************************************************)
EXTENDS Gml

-----------------------------------------------------------------------------
(* KML, which SQL hands geometries in degrees. *)

pointArray_toKML2(pa, z, precision) ==
    [i \in DOMAIN pa |-> [d \in 1..(2 + One(z)) |-> Printed(pa[i][d], precision)]]
Written(pa, z, p) == Leaf("coordinates", 0, pointArray_toKML2(pa, z, p))

askml2_point(g, p) == Node("Point", <<Written(g.body, g.z, p)>>)
askml2_line(g, p)  == Node("LineString", <<Written(g.body, g.z, p)>>)
askml2_poly(g, p)  ==
    LET Ring(i) == Around(<<IF i = 1 THEN "outerBoundaryIs" ELSE "innerBoundaryIs", "LinearRing">>,
                          Written(g.body[i], g.z, p))
    IN  Node("Polygon", [i \in DOMAIN g.body |-> Ring(i)])

askml2_inspected(g, p) ==
    LET Member(x) == CASE x.type = POINTTYPE -> askml2_point(x, p)
                       [] x.type = LINETYPE -> askml2_line(x, p)
                       [] OTHER -> askml2_poly(x, p)
    IN  Node("MultiGeometry", [i \in DOMAIN g.body |-> Member(g.body[i])])

\* A collection is not written, nor is a curve.
geometry_to_kml2(g, p) ==
    CASE g.type = POINTTYPE -> askml2_point(g, p)
      [] g.type = LINETYPE -> askml2_line(g, p)
      [] g.type = POLYGONTYPE -> askml2_poly(g, p)
      [] g.type \in Multis -> askml2_inspected(g, p)
      [] OTHER -> Unwritten

LWGEOM_asKML(version, b, precision) ==
    IF version # 2 THEN Unwritten ELSE geometry_to_kml2(pglwgeom_deserialize(b), Clamped(precision))

-----------------------------------------------------------------------------
(* Reading. *)

parse_kml_double(chars, blanks) == parse_gml_double(chars, blanks)

\* The first of the elements that is coordinates.
parse_kml_coordinates(ws, st) ==
    LET found == Named(SelectSeq(ws, LAMBDA w : w.n.own), {"coordinates"})
        Size(k) == \E i \in DOMAIN found[1].n.text : Len(found[1].n.text[i]) = k
        ok    == \A i \in DOMAIN found[1].n.text : Len(found[1].n.text[i]) \in {2, 3}
    IN  IF found = <<>> THEN [st |-> Require(st, FALSE), pa |-> <<>>]
        ELSE Positioned(st, ok, Size(2), found[1].n.text)

WGS84  == 4326
NoTurn == [srid |-> WGS84, reverse_axis |-> FALSE]
parse_kml_point(w, st) ==
    LET Whole(data) == [st |-> Require(data.st, Len(data.pa) = 1), g |-> Make(POINTTYPE, TRUE, FALSE, WGS84, data.pa)]
    IN  Whole(parse_kml_coordinates(Kids(w), st))
parse_kml_line(w, st) ==
    LET Whole(data) == [st |-> Require(data.st, Len(data.pa) >= 2), g |-> Make(LINETYPE, TRUE, FALSE, WGS84, data.pa)]
    IN  Whole(parse_kml_coordinates(Kids(w), st))

\* Of several shells the last is the shell.
parse_kml_polygon(w, st) ==
    LET Boundaries(name) == LinearRings(Named(OwnKids(w), {name}))
        shells == Boundaries("outerBoundaryIs")
        Add(acc, x) == Ringed(acc.rings, parse_kml_coordinates(Kids(x), acc.st), NoTurn)
        Whole(read) == [st |-> Require(read.st, shells # <<>>),
                        g |-> Make(POLYGONTYPE, TRUE, FALSE, WGS84,
                                   IF shells = <<>> THEN <<>> ELSE SubSeq(read.rings, Len(shells), Len(read.rings)))]
    IN  Whole(FoldLeft(Add, [st |-> st, rings |-> <<>>], shells \o Boundaries("innerBoundaryIs")))

RECURSIVE parse_kml(_, _)

\* Always a collection.  It ends at the first member without content.
parse_kml_multi(w, st) ==
    LET known == Named(OwnKids(w), {"Point", "LineString", "Polygon", "MultiGeometry"})
        bare  == {i \in DOMAIN known : known[i].n.kids = <<>>}
        upto  == IF bare = {} THEN Len(known) ELSE (CHOOSE i \in bare : \A j \in bare : i <= j) - 1
        With(g, m)  == [st |-> m.st, g |-> IF m.st.ok THEN Inserted(g, -1, m.g, COLLECTIONTYPE) ELSE g]
        Add(acc, x) == With(acc.g, parse_kml(<<x>>, acc.st))
    IN  FoldLeft(Add, [st |-> st, g |-> Make(COLLECTIONTYPE, TRUE, FALSE, WGS84, <<>>)], SubSeq(known, 1, upto))

parse_kml(ws, st) ==
    LET own == SelectSeq(ws, LAMBDA w : w.n.own)
        w   == IF own = <<>> THEN Nowhere ELSE own[1]
    IN  CASE w.n.name = "Point" /\ w.n.kids # <<>> -> parse_kml_point(w, st)
          [] w.n.name = "LineString" /\ w.n.kids # <<>> -> parse_kml_line(w, st)
          [] w.n.name = "Polygon" -> parse_kml_polygon(w, st)
          [] w.n.name = "MultiGeometry" -> parse_kml_multi(w, st)
          [] OTHER -> [st |-> Require(st, FALSE), g |-> Failed]

geom_from_kml(root, kept) ==
    IF WellFormed(root) THEN Stored(parse_kml(<<Place(root, <<>>)>>, Fresh(kept))) ELSE Raised

-----------------------------------------------------------------------------
(* GeoJSON. *)

NoJson == [type |-> "error"]
pointArray_to_geojson(pa, z, precision) ==
    [i \in DOMAIN pa |-> [d \in 1..(2 + One(z)) |-> Printed(pa[i][d], precision)]]

asgeojson_srs(srs)       == IF srs = NoSrs THEN <<>> ELSE <<srs>>
asgeojson_bbox(box, z, p) ==
    IF box = NoBox THEN <<>>
    ELSE [i \in DOMAIN (IF z THEN box ELSE Box2d(box)) |-> Printed((IF z THEN box ELSE Box2d(box))[i], p)]

Json(type, g, srs, box, p, coordinates) ==
    [type |-> type, crs |-> asgeojson_srs(srs), bbox |-> asgeojson_bbox(box, g.z, p), coordinates |-> coordinates]

asgeojson_point(g, srs, box, p) == Json("Point", g, srs, box, p, pointArray_to_geojson(g.body, g.z, p)[1])
asgeojson_line(g, srs, box, p)  == Json("LineString", g, srs, box, p, pointArray_to_geojson(g.body, g.z, p))
RingsOf(g, p) == [i \in DOMAIN g.body |-> pointArray_to_geojson(g.body[i], g.z, p)]
asgeojson_poly(g, srs, box, p)  == Json("Polygon", g, srs, box, p, RingsOf(g, p))
asgeojson_multipoint(g, srs, box, p) ==
    Json("MultiPoint", g, srs, box, p, [i \in DOMAIN g.body |-> pointArray_to_geojson(g.body[i].body, g.z, p)[1]])
asgeojson_multiline(g, srs, box, p) ==
    Json("MultiLineString", g, srs, box, p, [i \in DOMAIN g.body |-> pointArray_to_geojson(g.body[i].body, g.z, p)])
asgeojson_multipolygon(g, srs, box, p) ==
    Json("MultiPolygon", g, srs, box, p, [i \in DOMAIN g.body |-> RingsOf(g.body[i], p)])

\* Collections hold no collections.
asgeojson_inspected(g, srs, box, p) ==
    CASE g.type = POINTTYPE -> asgeojson_point(g, srs, box, p)
      [] g.type = LINETYPE -> asgeojson_line(g, srs, box, p)
      [] g.type = POLYGONTYPE -> asgeojson_poly(g, srs, box, p)
      [] g.type = MULTIPOINTTYPE -> asgeojson_multipoint(g, srs, box, p)
      [] g.type = MULTILINETYPE -> asgeojson_multiline(g, srs, box, p)
      [] g.type = MULTIPOLYGONTYPE -> asgeojson_multipolygon(g, srs, box, p)
      [] OTHER -> NoJson
asgeojson_collection(g, srs, box, p) ==
    LET members == [i \in DOMAIN g.body |-> asgeojson_inspected(g.body[i], NoSrs, NoBox, p)]
    IN  IF \E i \in DOMAIN members : members[i] = NoJson THEN NoJson ELSE Json("GeometryCollection", g, srs, box, p, members)

geometry_to_geojson(g, srs, box, p) ==
    IF g.type = COLLECTIONTYPE THEN asgeojson_collection(g, srs, box, p) ELSE asgeojson_inspected(g, srs, box, p)

\* option: 1 for the box, 2 for the short name of the system, 4 for the long.
LWGEOM_asGeoJson(version, b, precision, option) ==
    LET g     == pglwgeom_deserialize(b)
        named == (option \div 2) % 4 # 0 /\ g.srid # -1
        srs   == IF named THEN getSRSbySRID(g.srid, (option \div 4) % 2 = 0) ELSE NoSrs
        box   == IF option % 2 = 1 THEN compute_serialized_box3d(b, 1) ELSE NoBox
    IN  IF version # 1 \/ (named /\ srs = NoSrs) THEN NoJson
        ELSE geometry_to_geojson(g, srs, box, Clamped(precision))

-----------------------------------------------------------------------------
(* SVG.  A path is where it starts and the points, or steps, that follow. *)

\* Upwards is down.  A ring is closed by its path and not by its last point.
Drawn(p, precision) == <<Printed(p[1], precision), Printed(-p[2], precision)>>
Pen(pa, close_ring) == IF close_ring THEN pa ELSE Front(pa)

\* Each step is rounded by itself.
pointArray_svg_rel(pa, close_ring, precision) ==
    [i \in DOMAIN Pen(pa, close_ring) |->
       IF i = 1 THEN Drawn(pa[1], precision)
       ELSE Drawn(<<pa[i][1] - pa[i - 1][1], pa[i][2] - pa[i - 1][2]>>, precision)]
pointArray_svg_abs(pa, close_ring, precision) ==
    [i \in DOMAIN Pen(pa, close_ring) |-> Drawn(pa[i], precision)]

Path(pa, relative, open, p) ==
    [draw |-> IF relative THEN "l" ELSE "L", closed |-> ~open,
     at |-> IF relative THEN pointArray_svg_rel(pa, open, p) ELSE pointArray_svg_abs(pa, open, p)]

\* A point is attributes, those of a circle if not relative.
assvg_point(g, circle, p) == <<[draw |-> IF circle THEN "x y" ELSE "cx cy", closed |-> FALSE, at |-> <<Drawn(g.body[1], p)>>]>>
assvg_line(g, relative, p) == <<Path(g.body, relative, TRUE, p)>>
assvg_polygon(g, relative, p) == [i \in DOMAIN g.body |-> Path(g.body[i], relative, FALSE, p)]
assvg_multipoint(g, relative, p) == FlattenSeq([i \in DOMAIN g.body |-> assvg_point(g.body[i], relative, p)])
assvg_multiline(g, relative, p) == FlattenSeq([i \in DOMAIN g.body |-> assvg_line(g.body[i], relative, p)])
assvg_multipolygon(g, relative, p) == FlattenSeq([i \in DOMAIN g.body |-> assvg_polygon(g.body[i], relative, p)])

NoPaths == <<[draw |-> "error"]>>
assvg_inspected(g, relative, p) ==
    CASE g.type = POINTTYPE -> assvg_point(g, relative, p)
      [] g.type = LINETYPE -> assvg_line(g, relative, p)
      [] g.type = POLYGONTYPE -> assvg_polygon(g, relative, p)
      [] g.type = MULTIPOINTTYPE -> assvg_multipoint(g, relative, p)
      [] g.type = MULTILINETYPE -> assvg_multiline(g, relative, p)
      [] g.type = MULTIPOLYGONTYPE -> assvg_multipolygon(g, relative, p)
      [] OTHER -> NoPaths
assvg_collection(g, relative, p) ==
    LET members == [i \in DOMAIN g.body |-> assvg_inspected(g.body[i], relative, p)]
    IN  IF \E i \in DOMAIN members : members[i] = NoPaths THEN NoPaths ELSE FlattenSeq(members)

geometry_to_svg(g, relative, p) ==
    IF g.type = COLLECTIONTYPE THEN assvg_collection(g, relative, p) ELSE assvg_inspected(g, relative, p)
assvg_geometry(b, relative, precision) ==
    geometry_to_svg(pglwgeom_deserialize(b), relative, Clamped(precision))
==============================================================================
