----------------------------- MODULE MCRoutines -----------------------------
EXTENDS Routines

Iv(l, h) == [lo |-> l, hi |-> h]

\* With Eps = 1, the coordinates 0 and 1 are one to a fuzzy comparison.
MCIntervals == {Iv(l, h) : l, h \in {0, 1, 3, 5}}
Proper == {i \in MCIntervals : i.lo <= i.hi}
MCBoxes == {<<i, j>> : i \in Proper, j \in {Iv(0, 0), Iv(0, 3), Iv(1, 3)}}
MCQueries == {<<i, j>> : i \in {Iv(0, 0), Iv(0, 3), Iv(1, 5), Iv(3, 3)}, j \in {Iv(0, 1), Iv(3, 3)}}

Few == {<<i, j>> : i \in {Iv(0, 0), Iv(0, 5), Iv(1, 3), Iv(3, 5), Iv(5, 5)}, j \in {Iv(0, 0), Iv(1, 3)}}
MCPages == {<<a, b, c>> : a, b, c \in Few} \cup {<<a, b, b, a>> : a, b \in MCBoxes}

MCGidxBoxes == {<<i, j, Iv(0, 0)>> : i \in {Iv(0, 0), Iv(0, 5), Iv(1, 3), Iv(5, 5)}, j \in {Iv(0, 1), Iv(3, 5)}}
Copies(n, a) == [i \in 1..n |-> a]
MCGidxPages == {Copies(n, a) \o <<b, c>> : n \in {1, 11}, a, b, c \in MCGidxBoxes}

\* Geometries: points, lines, polygons and curves on a small grid, collections
\* of up to two of them and collections in collections; with and without SRID,
\* Z and M.  Lengths are whole: the diagonal of 4 by 3 is 5.
A == <<0, 0>>
B == <<4, 0>>
C == <<4, 3>>
D == <<0, 3>>
Shell == <<A, B, C, D, A>>
Hole  == <<<<1, 1>>, <<1, 2>>, <<2, 2>>, <<1, 1>>>>
Flat(type, what) == Make(type, FALSE, FALSE, -1, what)

Simple == {Flat(POINTTYPE, <<A>>), Flat(POINTTYPE, <<C>>),
           Flat(LINETYPE, <<>>), Flat(LINETYPE, <<A, C>>), Flat(LINETYPE, <<B, C, D>>),
           Flat(POLYGONTYPE, <<Shell>>), Flat(POLYGONTYPE, <<Reverse(Shell), Hole>>),
           Flat(CIRCSTRINGTYPE, <<A, <<2, 2>>, B>>), Flat(CIRCSTRINGTYPE, <<A, B, A>>)}
Kinds == {MULTIPOINTTYPE, MULTILINETYPE, MULTIPOLYGONTYPE, COLLECTIONTYPE, COMPOUNDTYPE,
          CURVEPOLYTYPE, MULTICURVETYPE, MULTISURFACETYPE}
Fit(t) == {g \in Simple : g.type \in MemberTypes[t]}
Singles == UNION {{Flat(t, <<a>>) : a \in Fit(t)} : t \in Kinds}
Doubles2 == UNION {{Flat(t, <<a, b>>) : a, b \in Fit(t)} : t \in Kinds \ {COLLECTIONTYPE, MULTICURVETYPE}}
Nested == {Flat(COLLECTIONTYPE, <<a, c, b>>) : a \in Fit(MULTILINETYPE), b \in Fit(MULTIPOINTTYPE),
                                               c \in {d \in Singles : d.type \in {MULTIPOINTTYPE, COLLECTIONTYPE}}}
Empties == {Flat(t, <<>>) : t \in Multis \cup {COLLECTIONTYPE, POLYGONTYPE}}

\* The same with other dimensions: an ordinate added tells the vertices apart.
RECURSIVE Deep(_, _, _)
Deep(g, z, m) ==
    LET Up(p) == p \o (IF z THEN <<p[1] + 10>> ELSE <<>>) \o (IF m THEN <<p[2] + 20>> ELSE <<>>)
        Row(pa) == [i \in DOMAIN pa |-> Up(pa[i])]
    IN  [g EXCEPT !.z = z, !.m = m,
                  !.body = CASE g.type \in Pointed -> Row(@)
                             [] g.type = POLYGONTYPE -> [i \in DOMAIN @ |-> Row(@[i])]
                             [] OTHER -> [i \in DOMAIN @ |-> Deep(@[i], z, m)]]
ZM(gs) == {Deep(g, z, m) : g \in gs, z, m \in BOOLEAN}

MCGeometries ==
    LET all == ZM(Simple \cup Singles) \cup Doubles2 \cup Nested \cup Empties
    IN  all \cup {[g EXCEPT !.srid = 5] : g \in Simple \cup Singles}
            \cup {lwgeom_add_bbox([g EXCEPT !.srid = 3]) : g \in Doubles2}
MCParts == ZM({g \in Simple : g.body # <<>>}) \cup {g \in Doubles2 : g.type \in Multis /\ Len(g.body) = 2}

\* Coordinates of the texts count tenths: 3 rounds down, 15 and 25 to even, 17
\* up.  3 is a planar system, 5 a geographic one, others are unknown.
MCSpatialRefSys == 3 :> TRUE @@ 5 :> FALSE
P1 == <<3, 15>>
P2 == <<25, 17>>
P3 == <<-16, 38>>
Bits == {Flat(POINTTYPE, <<P1>>), Flat(LINETYPE, <<P1, P2, P3>>), Flat(LINETYPE, <<P2, P2, P1>>),
         Flat(POLYGONTYPE, <<<<P1, P2, P3, P1>>>>)}
TwoOf(t, gs) == {Flat(t, <<a, b>>) : a, b \in gs}
Groups == UNION {TwoOf(t, {g \in Bits : g.type = t - 3}) : t \in Multis} \cup TwoOf(COLLECTIONTYPE, Bits)
Gatherings == {Flat(COLLECTIONTYPE, <<a, b>>) : a \in Bits,
               b \in {Flat(MULTIPOINTTYPE, <<Flat(POINTTYPE, <<P2>>)>>), Flat(COLLECTIONTYPE, <<Flat(POINTTYPE, <<P3>>)>>),
                      Flat(MULTILINETYPE, <<>>), Flat(CIRCSTRINGTYPE, <<P1, P2, P3>>)}}
MCTexted == ZM(Bits) \cup Groups \cup Gatherings \cup {[g EXCEPT !.srid = s] : g \in Bits \cup Groups, s \in {3, 5, 7}}
            \cup {Flat(LINETYPE, <<>>), Flat(POLYGONTYPE, <<Shell, Hole>>), Flat(COMPOUNDTYPE, <<Flat(LINETYPE, <<P1, P2>>)>>)}
            \cup {Flat(t, <<>>) : t \in Multis \cup {COLLECTIONTYPE}}
            \cup {Flat(MULTICURVETYPE, <<Flat(LINETYPE, <<P1, P2>>), Flat(COMPOUNDTYPE, <<Flat(LINETYPE, <<P1, P2>>)>>)>>),
                  Flat(CURVEPOLYTYPE, <<Flat(COMPOUNDTYPE, <<Flat(LINETYPE, <<P1, P2>>), Flat(CIRCSTRINGTYPE, <<P2, P3, P1>>)>>)>>),
                  Flat(COMPOUNDTYPE, <<Flat(LINETYPE, <<P1, P2>>), Flat(LINETYPE, <<P3, P1>>)>>),
                  Flat(MULTISURFACETYPE, <<Flat(CURVEPOLYTYPE, <<Flat(LINETYPE, Shell), Flat(CIRCSTRINGTYPE, <<P1, P2, P1>>)>>)>>)}
MCStyles == {<<2, 1, 0>>, <<2, 0, 1>>, <<3, 1, 0>>, <<3, 0, 17>>, <<3, 1, 16>>}

\* A line, an area and a collection, each said in several ways.
Q == <<<<1, 2>>, <<3, 5>>, <<7, 4>>, <<6, 1>>>>
Srs(form, srid) == [form |-> form, srid |-> srid]
PosList(pa) == Leaf("posList", 2, FlattenSeq(pa))
Coord(p)    == Node("coord", <<Leaf("X", 0, <<p[1]>>), Leaf("Y", 0, <<p[2]>>)>>)
Curve(pas)  == Around(<<"Curve">>, Node("segments", [i \in DOMAIN pas |-> Node("LineStringSegment", <<PosList(pas[i])>>)]))
Lines(srs)  == [i \in 1..5 |-> Titled(<<Node("LineString", <<PosList(Q)>>),
                                        Node("LineString", <<Leaf("coordinates", 0, Q)>>),
                                        Node("LineString", [j \in DOMAIN Q |-> Coord(Q[j])]),
                                        Curve(<<Q>>),
                                        Curve(<<SubSeq(Q, 1, 2), SubSeq(Q, 2, 4)>>)>>[i], srs)]
Ring == Append(Q, Q[1])
Sides2(outer, inner, l) == <<Around(<<outer, "LinearRing">>, l), Around(<<inner, "LinearRing">>, l)>>
Areas(srs) == [i \in 1..3 |-> Titled(<<Node("Polygon", Sides2("exterior", "interior", PosList(Ring))),
                                       Node("Polygon", Sides2("outerBoundaryIs", "innerBoundaryIs", Leaf("coordinates", 0, Ring))),
                                       Around(<<"Surface", "patches">>, Node("PolygonPatch", Sides2("exterior", "interior", PosList(Ring))))>>[i], srs)]
Moved(p, by) == <<p[1] + by, p[2]>>
Dot(p)       == Node("Point", <<Leaf("pos", 2, p)>>)
Dots(ds, srs) == Titled(Node("MultiPoint", [i \in DOMAIN ds |-> Node("pointMember", <<ds[i]>>)]), srs)
\* The second point is said again, by a link, or in another system.
Bunches == {<<Dots(<<Dot(Q[1]), Dot(Q[1])>>, s),
              Dots(<<[Dot(Q[1]) EXCEPT !.id = 1], [Node("Point", <<>>) EXCEPT !.id = 2, !.href = 1]>>, s)>> : s \in {NoSrs, Srs("EPSG", 3)}}
           \cup {<<Dots(<<Dot(Q[1]), Dot(Moved(Q[2], 1000 * (3 - 5)))>>, Srs("EPSG", 3)),
                   Dots(<<Dot(Q[1]), Titled(Dot(Q[2]), Srs("EPSG", 5))>>, Srs("url", 3)),
                   Dots(<<Dot(Q[1]), Titled(Dot(<<Q[2][2], Q[2][1]>>), Srs("urn", 5))>>, Srs("urn", 3))>>}
MCDocuments == {Lines(s) : s \in {NoSrs, Srs("EPSG", 5), Srs("urn", 5)}}
               \cup {Areas(s) : s \in {NoSrs, Srs("url", 3), Srs("urn", 5)}} \cup Bunches
MCNumbers == UNION {[1..n -> {"d", "p", "s", "e", "b"}] : n \in 0..5}
=============================================================================
