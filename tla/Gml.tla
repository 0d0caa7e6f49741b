--------------------------------- MODULE Gml ---------------------------------
(***************************************************************************)
(* Geometries as GML: ST_AsGML and ST_GeomFromGML.                         *)
(*                                                                         *)
(* A document is a tree of elements with the attributes the reader looks   *)
(* at.  The content of an element is text (tuples of numbers for           *)
(* coordinates, numbers for pos and posList) or elements; the buffers the  *)
(* text is written to, white space and comments are left out.              *)
(***************************************************************************)
EXTENDS GeometryEditors

CONSTANT SpatialRefSys      \* the SRIDs of spatial_ref_sys: is the system planar?

NoSrs == [form |-> "none", srid |-> -1]

\* id, href: 0 for none.  dim: srsDimension, 0 for none.
Node(name, kids) ==
    [name |-> name, own |-> TRUE, srs |-> NoSrs, dim |-> 0, id |-> 0, href |-> 0,
     interpolation |-> "", seps |-> <<",", " ", ".">>, text |-> <<>>, kids |-> kids]
Leaf(name, dim, text) == [Node(name, <<>>) EXCEPT !.dim = dim, !.text = text]
Titled(node, srs)     == [node EXCEPT !.srs = srs]
Around(names, inner)  == FoldRight(LAMBDA name, n : Node(name, <<n>>), names, inner)

\* Coordinates count tenths here.  With a precision of 0 digits a number is
\* printed as the nearest integer, the even one of two.
Printed(v, precision) ==
    LET r == v % 10
    IN  IF precision > 0 THEN v
        ELSE IF r < 5 \/ (r = 5 /\ (v \div 10) % 2 = 0) THEN v - r ELSE v - r + 10
Clamped(precision) == IF precision > 15 THEN 15 ELSE IF precision < 0 THEN 0 ELSE precision

\* The elements lwgeom_inspect finds.
Inspected(g) == IF g.type \in Pointed \cup {POLYGONTYPE} THEN <<g>> ELSE g.body

\* From spatial_ref_sys, where auth_srid is srid.
getSRSbySRID(srid, short) ==
    IF srid \notin DOMAIN SpatialRefSys THEN NoSrs
    ELSE [form |-> IF short THEN "EPSG" ELSE "urn", srid |-> srid]

-----------------------------------------------------------------------------
(* Writing GML 2. *)

\* M is never written.
pointArray_toGML2(pa, z, precision) ==
    [i \in DOMAIN pa |-> [d \in 1..(2 + One(z)) |-> Printed(pa[i][d], precision)]]
Coordinates(pa, z, precision) == Leaf("coordinates", 0, pointArray_toGML2(pa, z, precision))

asgml2_point(g, srs, p) == Titled(Node("Point", <<Coordinates(g.body, g.z, p)>>), srs)
asgml2_line(g, srs, p)  == Titled(Node("LineString", <<Coordinates(g.body, g.z, p)>>), srs)
asgml2_poly(g, srs, p)  ==
    LET Ring(i) == Around(<<IF i = 1 THEN "outerBoundaryIs" ELSE "innerBoundaryIs", "LinearRing">>,
                          Coordinates(g.body[i], g.z, p))
    IN  Titled(Node("Polygon", [i \in DOMAIN g.body |-> Ring(i)]), srs)

\* Members of other types are passed over; a curve gets an element without name.
asgml2_multi(g, srs, p) ==
    LET name == CASE g.type = MULTIPOINTTYPE -> "MultiPoint"
                  [] g.type = MULTILINETYPE -> "MultiLineString"
                  [] g.type = MULTIPOLYGONTYPE -> "MultiPolygon" [] OTHER -> ""
        Member(x) == CASE x.type = POINTTYPE -> <<Node("pointMember", <<asgml2_point(x, NoSrs, p)>>)>>
                       [] x.type = LINETYPE -> <<Node("lineStringMember", <<asgml2_line(x, NoSrs, p)>>)>>
                       [] x.type = POLYGONTYPE -> <<Node("polygonMember", <<asgml2_poly(x, NoSrs, p)>>)>>
                       [] OTHER -> <<>>
    IN  Titled(Node(name, FlattenSeq([i \in DOMAIN Inspected(g) |-> Member(Inspected(g)[i])])), srs)

RECURSIVE asgml2_collection(_, _, _)
asgml2_collection(g, srs, p) ==
    LET Member(x) == CASE x.type = POINTTYPE -> asgml2_point(x, NoSrs, p)
                       [] x.type = LINETYPE -> asgml2_line(x, NoSrs, p)
                       [] x.type = POLYGONTYPE -> asgml2_poly(x, NoSrs, p)
                       [] x.type = COLLECTIONTYPE -> asgml2_collection(x, NoSrs, p)
                       [] OTHER -> asgml2_multi(x, NoSrs, p)
    IN  Titled(Node("MultiGeometry", [i \in DOMAIN g.body |-> Node("geometryMember", <<Member(g.body[i])>>)]), srs)

\* An element without name is no document: what is returned after lwerror too.
Unwritten == Node("", <<>>)
geometry_to_gml2(g, srs, p) ==
    CASE g.type = POINTTYPE -> asgml2_point(g, srs, p)
      [] g.type = LINETYPE -> asgml2_line(g, srs, p)
      [] g.type = POLYGONTYPE -> asgml2_poly(g, srs, p)
      [] g.type \in Multis -> asgml2_multi(g, srs, p)
      [] g.type = COLLECTIONTYPE -> asgml2_collection(g, srs, p)
      [] OTHER -> Unwritten

-----------------------------------------------------------------------------
(* Writing GML 3. *)

\* Degrees are written latitude first.
pointArray_toGML3(pa, z, precision, degrees) ==
    LET N(v) == Printed(v, precision)
        At(p) == (IF degrees THEN <<N(p[2]), N(p[1])>> ELSE <<N(p[1]), N(p[2])>>)
                 \o (IF z THEN <<N(p[3])>> ELSE <<>>)
    IN  FlattenSeq([i \in DOMAIN pa |-> At(pa[i])])
Positions(name, pa, z, p, degrees) == Leaf(name, 2 + One(z), pointArray_toGML3(pa, z, p, degrees))

asgml3_point(g, srs, p, degrees) ==
    Titled(Node("Point", <<Positions("pos", g.body, g.z, p, degrees)>>), srs)
asgml3_line(g, srs, p, degrees) ==
    Titled(Around(<<"Curve", "segments", "LineStringSegment">>, Positions("posList", g.body, g.z, p, degrees)), srs)
asgml3_poly(g, srs, p, degrees) ==
    LET Ring(i) == Around(<<IF i = 1 THEN "exterior" ELSE "interior", "LinearRing">>,
                          Positions("posList", g.body[i], g.z, p, degrees))
    IN  Titled(Node("Polygon", [i \in DOMAIN g.body |-> Ring(i)]), srs)

asgml3_multi(g, srs, p, degrees) ==
    LET name == CASE g.type = MULTIPOINTTYPE -> "MultiPoint"
                  [] g.type = MULTILINETYPE -> "MultiCurve"
                  [] g.type = MULTIPOLYGONTYPE -> "MultiSurface" [] OTHER -> ""
        Member(x) == CASE x.type = POINTTYPE -> <<Node("pointMember", <<asgml3_point(x, NoSrs, p, degrees)>>)>>
                       [] x.type = LINETYPE -> <<Node("curveMember", <<asgml3_line(x, NoSrs, p, degrees)>>)>>
                       [] x.type = POLYGONTYPE -> <<Node("surfaceMember", <<asgml3_poly(x, NoSrs, p, degrees)>>)>>
                       [] OTHER -> <<>>
    IN  Titled(Node(name, FlattenSeq([i \in DOMAIN Inspected(g) |-> Member(Inspected(g)[i])])), srs)

RECURSIVE asgml3_collection(_, _, _, _)
asgml3_collection(g, srs, p, degrees) ==
    LET Member(x) == CASE x.type = POINTTYPE -> asgml3_point(x, NoSrs, p, degrees)
                       [] x.type = LINETYPE -> asgml3_line(x, NoSrs, p, degrees)
                       [] x.type = POLYGONTYPE -> asgml3_poly(x, NoSrs, p, degrees)
                       [] x.type = COLLECTIONTYPE -> asgml3_collection(x, NoSrs, p, degrees)
                       [] OTHER -> asgml3_multi(x, NoSrs, p, degrees)
    IN  Titled(Node("MultiGeometry", [i \in DOMAIN g.body |-> Node("geometryMember", <<Member(g.body[i])>>)]), srs)

geometry_to_gml3(g, srs, p, degrees) ==
    CASE g.type = POINTTYPE -> asgml3_point(g, srs, p, degrees)
      [] g.type = LINETYPE -> asgml3_line(g, srs, p, degrees)
      [] g.type = POLYGONTYPE -> asgml3_poly(g, srs, p, degrees)
      [] g.type \in Multis -> asgml3_multi(g, srs, p, degrees)
      [] g.type = COLLECTIONTYPE -> asgml3_collection(g, srs, p, degrees)
      [] OTHER -> Unwritten

\* option: 1 for the long name of the system, 16 for degrees, in GML 3 only.
LWGEOM_asGML(version, b, precision, option) ==
    LET g   == pglwgeom_deserialize(b)
        srs == IF g.srid = -1 THEN NoSrs ELSE getSRSbySRID(g.srid, option % 2 = 0)
    IN  CASE version = 2 -> geometry_to_gml2(g, srs, Clamped(precision))
          [] version = 3 -> geometry_to_gml3(g, srs, Clamped(precision), (option \div 16) % 2 = 1)
          [] OTHER -> Unwritten

-----------------------------------------------------------------------------
(* Reading GML: ST_GeomFromGML on a document libxml has parsed.            *)
(*                                                                         *)
(* A place is an element with those around it, outermost first: where the  *)
(* system of a part is found and where links are resolved.  What has been  *)
(* read so far is a record: whether all of it had Z, the SRID of the whole *)
(* (0: not known yet), whether no error was raised, and `kept`: whether a  *)
(* point that repeats the one before it is kept.  That depends on an M     *)
(* nobody has set (pt.m), compared with 0.                                 *)

Fresh(kept)    == [hasz |-> TRUE, root |-> 0, ok |-> TRUE, kept |-> kept]
Require(st, c) == [st EXCEPT !.ok = @ /\ c]

Place(n, up)    == [n |-> n, up |-> up]
Kid(w, i)       == Place(w.n.kids[i], Append(w.up, w.n))
Kids(w)         == [i \in DOMAIN w.n.kids |-> Kid(w, i)]
OwnKids(w)      == SelectSeq(Kids(w), LAMBDA k : k.n.own)
Named(ws, names) == SelectSeq(ws, LAMBDA k : k.n.name \in names)

RECURSIVE Everywhere(_)
Everywhere(w) == <<w>> \o FlattenSeq([i \in DOMAIN w.n.kids |-> Everywhere(Kid(w, i))])

\* A link leads to the one element of the same name with the id, anywhere, but
\* not to one it is in.  A link that leads nowhere ends the query.
Nowhere == Place(Node("", <<>>), <<>>)
get_xlink_node(w) ==
    LET path  == Append(w.up, w.n)
        found == SelectSeq(Everywhere(Place(path[1], <<>>)),
                           LAMBDA x : x.n.name = w.n.name /\ x.n.id = w.n.href)
    IN  IF Len(found) # 1 \/ \E i \in DOMAIN path : path[i].id = w.n.href THEN Nowhere ELSE found[1]
Follow(w) == IF w.n.href = 0 THEN w ELSE get_xlink_node(w)

-----------------------------------------------------------------------------
(* Systems. *)

\* -1: no such system.
gml_is_srid_planar(srid) == IF srid \in DOMAIN SpatialRefSys THEN One(SpatialRefSys[srid]) ELSE -1

\* Mutant of parse_gml_srs: a planar system in the long form is latitude first too.
parse_gml_srsAlwaysReversed(w) ==
    LET titled == SelectSeq(Append(w.up, w.n), LAMBDA a : a.srs # NoSrs)
        s      == Last(titled).srs
    IN  IF titled = <<>> THEN [srid |-> -1, reverse_axis |-> FALSE, ok |-> TRUE]
        ELSE IF s.form \notin {"EPSG", "urn", "url"} \/ gml_is_srid_planar(s.srid) = -1
        THEN [srid |-> -1, reverse_axis |-> FALSE, ok |-> FALSE]
        ELSE [srid |-> s.srid, reverse_axis |-> s.form = "urn", ok |-> TRUE]

\* The srsName of the element or of the nearest around it; a geographic system
\* named by a urn has latitude first.
parse_gml_srs(w) ==
    LET titled == SelectSeq(Append(w.up, w.n), LAMBDA a : a.srs # NoSrs)
        s      == Last(titled).srs
    IN  IF titled = <<>> THEN [srid |-> -1, reverse_axis |-> FALSE, ok |-> TRUE]
        ELSE IF s.form \notin {"EPSG", "urn", "url"} \/ gml_is_srid_planar(s.srid) = -1
        THEN [srid |-> -1, reverse_axis |-> FALSE, ok |-> FALSE]
        ELSE [srid |-> s.srid, ok |-> TRUE,
              reverse_axis |-> gml_is_srid_planar(s.srid) = 0 /\ s.form = "urn"]

gml_reverse_axis_pa(pa) == [i \in DOMAIN pa |-> <<pa[i][2], pa[i][1], pa[i][3]>>]
Turned(srs, pa) == IF srs.reverse_axis THEN gml_reverse_axis_pa(pa) ELSE pa

\* PROJ.4's: a shift that tells the systems apart stands for it.
transform_point(p, in, out) == <<p[1] + 1000 * (out - in), p[2], p[3]>>
gml_reproject_pa(pa, in, out) == [i \in DOMAIN pa |-> transform_point(pa[i], in, out)]

\* The first part to be complete gives the whole its SRID; the others have none
\* of their own and are transformed to that of the whole.
Settled(st, srs, rings) ==
    IF st.root = 0
    THEN [st |-> Require([st EXCEPT !.root = srs.srid], srs.ok), srid |-> srs.srid, rings |-> rings]
    ELSE IF srs.srid = st.root THEN [st |-> Require(st, srs.ok), srid |-> -1, rings |-> rings]
    ELSE [st |-> Require(st, srs.ok /\ -1 \notin {srs.srid, st.root}), srid |-> -1,
          rings |-> [i \in DOMAIN rings |-> gml_reproject_pa(rings[i], srs.srid, st.root)]]

-----------------------------------------------------------------------------
(* Numbers and positions. *)

\* Whether the characters of a number are in an order atof can be given: d a
\* digit, e an exponent, s a sign, p the point, b a blank.
parse_gml_double(chars, blanks) ==
    LET Step == [d |-> ("init" :> "dig" @@ "need_dig" :> "dig" @@ "need_dig_dec" :> "dig_dec"
                        @@ "need_dig_exp" :> "dig_exp" @@ "exp" :> "dig_exp" @@ "dig" :> "dig"
                        @@ "dig_dec" :> "dig_dec" @@ "dig_exp" :> "dig_exp"),
                 p |-> "dig" :> "need_dig_dec",
                 s |-> "init" :> "need_dig" @@ "exp" :> "need_dig_exp",
                 e |-> "dig" :> "exp" @@ "dig_dec" :> "exp",
                 b |-> IF blanks THEN [st \in {"dig", "dig_dec", "dig_exp", "need_dig_dec", "end"} |-> "end"]
                       ELSE "none" :> "none"]
        Read1(st, c) == IF st \in DOMAIN Step[c] THEN Step[c][st] ELSE "error"
    IN  FoldLeft(Read1, "init", chars) \in {"dig", "need_dig_dec", "dig_dec", "dig_exp", "end"}

dynptarray_addPoint4d(pa, p, kept) == IF pa # <<>> /\ ~kept THEN IF Last(pa) = p THEN pa ELSE Append(pa, p)
                                      ELSE Append(pa, p)
\* A point without Z has that of the point before it, until all lose it.
AddTuple(pa, t, kept) ==
    dynptarray_addPoint4d(pa, <<t[1], t[2], IF Len(t) = 3 THEN t[3]
                                            ELSE IF pa = <<>> THEN Garbage ELSE Last(pa)[3]>>, kept)
Tuples(ts, kept) == FoldLeft(LAMBDA pa, t : AddTuple(pa, t, kept), <<>>, ts)
Positioned(st, ok, flat, ts) ==
    [st |-> Require([st EXCEPT !.hasz = @ /\ ~flat], ok), pa |-> IF ok THEN Tuples(ts, st.kept) ELSE <<>>]

parse_gml_coordinates(n, st) ==
    LET Size(k) == \E i \in DOMAIN n.text : Len(n.text[i]) = k
        ok == Cardinality(ToSet(n.seps)) = 3 /\ \A i \in DOMAIN n.text : Len(n.text[i]) \in {2, 3}
    IN  Positioned(st, ok, Size(2), n.text)

parse_gml_coord(n, st) ==
    LET Of(name) == SelectSeq(n.kids, LAMBDA k : k.name = name)
        ok == Len(Of("X")) = 1 /\ Len(Of("Y")) = 1 /\ Len(Of("Z")) <= 1
    IN  Positioned(st, ok, Of("Z") = <<>>,
                   <<FlattenSeq([i \in 1..3 |-> IF Of(<<"X", "Y", "Z">>[i]) = <<>> THEN <<>>
                                                ELSE Of(<<"X", "Y", "Z">>[i])[1].text])>>)

Dimension(n) == IF n.dim = 0 THEN 2 ELSE n.dim

\* All the positions from this one on are read, so the reader of the elements
\* after it finds them again.
parse_gml_pos(ns, st) ==
    LET pos == SelectSeq(ns, LAMBDA n : n.name = "pos")
        ok  == Dimension(ns[1]) \in {2, 3} /\ \A i \in DOMAIN pos : Len(pos[i].text) = Dimension(ns[1])
    IN  Positioned(st, ok, Dimension(ns[1]) = 2, [i \in DOMAIN pos |-> pos[i].text])

parse_gml_poslist(n, st) ==
    LET d  == Dimension(n)
        ok == d \in {2, 3} /\ Len(n.text) % d = 0
    IN  Positioned(st, ok, d = 2, [i \in 1..Len(n.text) \div d |-> SubSeq(n.text, d * (i - 1) + 1, d * i)])

RECURSIVE parse_gml_data(_, _)

\* What was read of a single point becomes part of st, in the system srs.
Pointlike(data, srs) == Settled(Require(data.st, Len(data.pa) = 1), srs, <<Turned(srs, data.pa)>>)
FirstRow(s) == [st |-> s.st, pa |-> s.rings[1]]

\* A point by value or by reference, with a system of its own.
PointProperty(w, st) ==
    LET points == Named(OwnKids(w), {"Point"})
        at     == IF points = <<>> THEN Nowhere ELSE Follow(points[1])
    IN  IF at.n.kids = <<>> THEN [st |-> Require(st, FALSE), pa |-> <<>>]
        ELSE FirstRow(Pointlike(parse_gml_data(at, st), parse_gml_srs(at)))

\* The positions in an element, whatever they are written as.
parse_gml_data(w, st) ==
    LET known   == {"pos", "posList", "coordinates", "coord", "pointRep", "pointProperty"}
        Part(i, s) ==
            LET n == w.n.kids[i]
            IN  CASE n.name = "pos" -> parse_gml_pos(SubSeq(w.n.kids, i, Len(w.n.kids)), s)
                  [] n.name = "posList" -> parse_gml_poslist(n, s)
                  [] n.name = "coordinates" -> parse_gml_coordinates(n, s)
                  [] n.name = "coord" -> parse_gml_coord(n, s)
                  [] OTHER -> PointProperty(Kid(w, i), s)
        Follows(pa, p) == [p EXCEPT !.pa = pa \o @]
        Add(acc, i) == Follows(acc.pa, Part(i, acc.st))
        found == SelectSeq([i \in DOMAIN w.n.kids |-> i],
                           LAMBDA i : w.n.kids[i].own /\ w.n.kids[i].name \in known)
    IN  FoldLeft(Add, [st |-> Require(st, found # <<>>), pa |-> <<>>], found)

-----------------------------------------------------------------------------
(* Geometries. *)

Built(s, type) ==
    [st |-> s.st, g |-> Make(type, TRUE, FALSE, s.srid, IF type = POLYGONTYPE THEN s.rings ELSE s.rings[1])]

Linear(data, srs) ==
    Built(Settled(Require(data.st, Len(data.pa) >= 2), srs, <<Turned(srs, data.pa)>>), LINETYPE)

parse_gml_point(at, st) ==
    LET w == Follow(at) IN Built(Pointlike(parse_gml_data(w, st), parse_gml_srs(w)), POINTTYPE)
parse_gml_line(at, st) ==
    LET w == Follow(at) IN Linear(parse_gml_data(w, st), parse_gml_srs(w))

\* Segments that follow each other become one line.
Touching(p, q, hasz) == IF hasz THEN p = q ELSE SubSeq(p, 1, 2) = SubSeq(q, 1, 2)
Chained(all, srs) ==
    LET Joint(acc, pa) == [st |-> Require(acc.st, Touching(Last(acc.pa), pa[1], acc.st.hasz)), pa |-> acc.pa \o Tail(pa)]
    IN  IF ~all.st.ok THEN [st |-> all.st, g |-> Failed]
        ELSE Linear(FoldLeft(Joint, [st |-> all.st, pa |-> all.pas[1]], Tail(all.pas)), srs)

parse_gml_curve(at, st) ==
    LET w     == Follow(at)
        lists == Named(OwnKids(w), {"segments"})
        segs  == IF lists = <<>> THEN <<>> ELSE Named(OwnKids(lists[1]), {"LineStringSegment"})
        Taken(pas, x, data) ==
            [st |-> Require(data.st, x.n.interpolation \in {"", "linear"} /\ Len(data.pa) >= 2),
             pas |-> Append(pas, data.pa)]
        Add(acc, x) == Taken(acc.pas, x, parse_gml_data(x, acc.st))
    IN  Chained(FoldLeft(Add, [st |-> Require(st, segs # <<>>), pas |-> <<>>], segs), parse_gml_srs(w))

\* One more ring: whether it is closed is asked of the dimensions seen so far.
Ringed(rings, data, srs) ==
    [st |-> Require(data.st, /\ Len(data.pa) >= 4
                             /\ IF data.st.hasz THEN data.pa[1] = Last(data.pa) ELSE ptarray_isclosed2d(data.pa)),
     rings |-> Append(rings, Turned(srs, data.pa))]

\* Of several shells the last is the shell.
Areal(read, shells, srs) ==
    LET rings == IF shells = 0 THEN <<>> ELSE SubSeq(read.rings, shells, Len(read.rings))
    IN  Built(Settled(Require(read.st, rings # <<>>), srs, rings), POLYGONTYPE)

LinearRings(ws) == FlattenSeq([i \in DOMAIN ws |-> Named(OwnKids(ws[i]), {"LinearRing"})])
parse_gml_polygon(at, st) ==
    LET w      == Follow(at)
        srs    == parse_gml_srs(w)
        shells == LinearRings(Named(OwnKids(w), {"outerBoundaryIs", "exterior"}))
        holes  == LinearRings(Named(OwnKids(w), {"innerBoundaryIs", "interior"}))
        Add(acc, x) == Ringed(acc.rings, parse_gml_data(x, acc.st), srs)
    IN  Areal(FoldLeft(Add, [st |-> st, rings |-> <<>>], shells \o holes), Len(shells), srs)

\* A surface of one patch is a polygon.
parse_gml_surface(at, st) ==
    LET w       == Follow(at)
        srs     == parse_gml_srs(w)
        lists   == Named(OwnKids(w), {"patches"})
        patches == IF lists = <<>> THEN <<>> ELSE Named(OwnKids(lists[1]), {"PolygonPatch"})
        patch   == IF patches = <<>> THEN Nowhere ELSE patches[1]
        ok      == Len(patches) = 1 /\ patch.n.interpolation \in {"", "planar"}
        shells  == LinearRings(Named(Kids(patch), {"exterior"}))
        holes   == LinearRings(Named(OwnKids(patch), {"interior"}))
        Add(acc, x) == Ringed(acc.rings, parse_gml_data(x, acc.st), srs)
    IN  Areal(FoldLeft(Add, [st |-> Require(st, ok), rings |-> <<>>], shells \o holes), Len(shells), srs)

-----------------------------------------------------------------------------
(* Collections. *)

RECURSIVE parse_gml(_, _)

\* The members are added one by one, and each says what the whole becomes.
Multi(w, members, st, type, newtype) ==
    LET srs   == parse_gml_srs(w)
        begun == [st |-> Require(IF st.root = 0 THEN [st EXCEPT !.root = srs.srid] ELSE st, srs.ok),
                  g |-> Make(type, TRUE, FALSE, IF st.root = 0 THEN srs.srid ELSE -1, <<>>)]
        With(g, m)  == [st |-> m.st, g |-> IF m.st.ok THEN Inserted(g, -1, m.g, newtype[m.g.type]) ELSE g]
        Add(acc, x) == With(acc.g, parse_gml(Kids(x), acc.st))
    IN  FoldLeft(Add, begun, members)

WithKids(ws) == SelectSeq(ws, LAMBDA w : w.n.kids # <<>>)
Else(type, multi) == [t \in 1..15 |-> IF t = type THEN multi ELSE COLLECTIONTYPE]
Members1(w, name) == WithKids(Named(OwnKids(w), {name}))

parse_gml_mpoint(at, st) ==
    LET w == Follow(at)
    IN  Multi(w, Members1(w, "pointMember"), st, MULTIPOINTTYPE, Else(POINTTYPE, MULTIPOINTTYPE))
parse_gml_mline(at, st) ==
    LET w == Follow(at)
    IN  Multi(w, Members1(w, "lineStringMember"), st, MULTILINETYPE, Else(LINETYPE, MULTILINETYPE))
parse_gml_mcurve(at, st) ==
    LET w == Follow(at)
    IN  Multi(w, Members1(w, "curveMember"), st, MULTILINETYPE, Else(LINETYPE, MULTILINETYPE))
parse_gml_mpoly(at, st) ==
    LET w == Follow(at)
    IN  Multi(w, Members1(w, "polygonMember"), st, MULTIPOLYGONTYPE, Else(POLYGONTYPE, MULTIPOLYGONTYPE))
parse_gml_msurface(at, st) ==
    LET w == Follow(at)
    IN  Multi(w, Members1(w, "surfaceMember"), st, MULTIPOLYGONTYPE, Else(POLYGONTYPE, MULTIPOLYGONTYPE))

\* It ends at the first member without content.
parse_gml_coll(at, st) ==
    LET w   == Follow(at)
        all == Named(OwnKids(w), {"pointMember", "lineStringMember", "polygonMember", "geometryMember"})
        bare == {i \in DOMAIN all : all[i].n.kids = <<>>}
        upto == IF bare = {} THEN Len(all) ELSE (CHOOSE i \in bare : \A j \in bare : i <= j) - 1
    IN  Multi(w, SubSeq(all, 1, upto), st, COLLECTIONTYPE, Else(0, 0))

parse_gml(ws, st) ==
    LET gml == SelectSeq(ws, LAMBDA w : w.n.own)
        w   == IF gml = <<>> THEN Nowhere ELSE gml[1]
        Of(at) == CASE at.n.name = "Point" -> parse_gml_point(w, st)
                    [] at.n.name = "LineString" -> parse_gml_line(w, st)
                    [] at.n.name = "Curve" -> parse_gml_curve(w, st)
                    [] at.n.name = "Polygon" -> parse_gml_polygon(w, st)
                    [] at.n.name = "Surface" -> parse_gml_surface(w, st)
                    [] at.n.name = "MultiPoint" -> parse_gml_mpoint(w, st)
                    [] at.n.name = "MultiLineString" -> parse_gml_mline(w, st)
                    [] at.n.name = "MultiCurve" -> parse_gml_mcurve(w, st)
                    [] at.n.name = "MultiPolygon" -> parse_gml_mpoly(w, st)
                    [] at.n.name = "MultiSurface" -> parse_gml_msurface(w, st)
                    [] at.n.name = "MultiGeometry" -> parse_gml_coll(w, st)
                    [] OTHER -> [st |-> Require(st, FALSE), g |-> Failed]
    IN  IF Follow(w) = Nowhere THEN [st |-> Require(st, FALSE), g |-> Failed] ELSE Of(w)

\* The box comes with it, even that of a point.  Unless every part had Z, no
\* part has.
Flattened(r, b) == IF r.st.hasz THEN b ELSE Reboxed(b, lwgeom_force2d_recursive(b))
Stored(r) ==
    IF r.st.ok THEN Flattened(r, pglwgeom_serialize([r.g EXCEPT !.box = lwgeom_compute_box2d_p(r.g)])) ELSE Raised
RECURSIVE WellFormed(_)
WellFormed(n) == n.name # "" /\ \A i \in DOMAIN n.kids : WellFormed(n.kids[i])
geom_from_gml(root, kept) ==
    IF WellFormed(root) THEN Stored(parse_gml(<<Place(root, <<>>)>>, Fresh(kept))) ELSE Raised
=============================================================================
