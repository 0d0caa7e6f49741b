-------------------------------- MODULE Texts --------------------------------
(***************************************************************************)
(* What the texts geometries are written as are worth: what a reader gets  *)
(* of each, and what it should get.                                        *)
(***************************************************************************)
EXTENDS WebFormats, WellKnown

RECURSIVE HasCurve(_)
HasCurve(g) == \/ g.type \notin Pointed \cup {POLYGONTYPE} \cup Multis \cup {COLLECTIONTYPE, LINETYPE}
               \/ g.type = CIRCSTRINGTYPE
               \/ g.type \in Multis \cup {COLLECTIONTYPE} /\ \E i \in DOMAIN g.body : HasCurve(g.body[i])

\* All the vertices of a geometry, in order.
RECURSIVE Vertices(_)
Vertices(g) ==
    CASE g.type \in Pointed -> g.body
      [] g.type = POLYGONTYPE -> FlattenSeq(g.body)
      [] OTHER -> FlattenSeq([i \in DOMAIN g.body |-> Vertices(g.body[i])])

\* A polygon without rings cannot be written: its first ring is.
RECURSIVE HasHollow(_)
HasHollow(g) == \/ g.type = POLYGONTYPE /\ g.body = <<>>
                \/ g.type \in Multis \cup {COLLECTIONTYPE} /\ \E i \in DOMAIN g.body : HasHollow(g.body[i])

-----------------------------------------------------------------------------
(* What should come back. *)

\* g with the vertices Point makes of its own, without those that repeat the one
\* before unless kept is TRUE; Failed if that leaves too few.
RECURSIVE Came(_, _, _, _)
Came(g, Point(_), kept, z) ==
    LET Add(pa, p) == IF ~kept /\ pa # <<>> /\ Last(pa) = p THEN pa ELSE Append(pa, p)
        Row(pa)    == FoldLeft(Add, <<>>, [i \in DOMAIN pa |-> Point(pa[i])])
        body == CASE g.type \in Pointed -> Row(g.body)
                  [] g.type = POLYGONTYPE -> [i \in DOMAIN g.body |-> Row(g.body[i])]
                  [] OTHER -> [i \in DOMAIN g.body |-> Came(g.body[i], Point, kept, z)]
        short == CASE g.type = LINETYPE -> Len(body) < 2
                   [] g.type = POLYGONTYPE -> \E i \in DOMAIN body : Len(body[i]) < 4
                   [] g.type = POINTTYPE -> FALSE
                   [] OTHER -> \E i \in DOMAIN body : body[i] = Failed
    IN  IF short THEN Failed ELSE Make(g.type, z, FALSE, -1, body)

\* Nothing in a text says whether what has no vertices has Z: it has.
Back3(g) == g.z \/ Vertices(g) = <<>>
Rounded(p, z, precision) == [d \in 1..(2 + One(z)) |-> Printed(p[d], precision)]
Turn(p) == <<p[2], p[1]>> \o SubSeq(p, 3, Len(p))

\* The axes are written in one order and read in another if degrees are asked
\* for without a urn, or a urn of a geographic system without degrees.
ComesTurned(g, version, option) ==
    LET degrees == version = 3 /\ (option \div 16) % 2 = 1
        urn     == option % 2 = 1 /\ g.srid \in DOMAIN SpatialRefSys
    IN  degrees # (urn /\ ~SpatialRefSys[g.srid])

GmlBack(g, version, precision, option, kept) ==
    LET Point(p) == IF ComesTurned(g, version, option) THEN Turn(Rounded(p, g.z, precision))
                    ELSE Rounded(p, g.z, precision)
        r == Came(g, Point, kept, Back3(g))
    IN  IF HasCurve(g) \/ r = Failed THEN Raised
        ELSE lwgeom_serialize([r EXCEPT !.srid = IF g.srid \in DOMAIN SpatialRefSys THEN g.srid ELSE -1])

\* Of a multi, a collection comes back.
KmlBack(g, precision, kept) ==
    LET Point(p) == Rounded(p, g.z, precision)
        r == Came(g, Point, kept, Back3(g))
    IN  IF HasCurve(g) \/ g.type = COLLECTIONTYPE \/ r = Failed THEN Raised
        ELSE lwgeom_serialize([r EXCEPT !.srid = WGS84, !.type = IF @ \in Multis THEN COLLECTIONTYPE ELSE @])

\* What a reader of GeoJSON makes of it, and of the box in it.
JsonTypes == POINTTYPE :> "Point" @@ LINETYPE :> "LineString" @@ POLYGONTYPE :> "Polygon"
             @@ MULTIPOINTTYPE :> "MultiPoint" @@ MULTILINETYPE :> "MultiLineString"
             @@ MULTIPOLYGONTYPE :> "MultiPolygon" @@ COLLECTIONTYPE :> "GeometryCollection"
RECURSIVE FromJson(_, _, _)
FromJson(type, z, c) ==
    Make(type, z, FALSE, -1,
         CASE type = POINTTYPE -> <<c>>
           [] type \in {LINETYPE, POLYGONTYPE} -> c
           [] type = COLLECTIONTYPE ->
                [i \in DOMAIN c |-> FromJson(CHOOSE t \in DOMAIN JsonTypes : JsonTypes[t] = c[i].type, z,
                                             c[i].coordinates)]
           [] OTHER -> [i \in DOMAIN c |-> FromJson(type - 3, z, c[i])])
JsonBox(g) == LET b == PtarrayBox3d(Vertices(g), g.z) IN IF g.z THEN b ELSE Box2d(b)

\* What the formats of the web can say: no curves, no collections in collections.
Flatly(g) == /\ ~HasCurve(g)
             /\ g.type = COLLECTIONTYPE => \A i \in DOMAIN g.body : g.body[i].type # COLLECTIONTYPE

\* The lines of a drawing; a ring is closed without its last point.
RECURSIVE Rows(_)
Rows(g) ==
    CASE g.type \in Pointed -> <<[closed |-> FALSE, at |-> g.body]>>
      [] g.type = POLYGONTYPE -> [i \in DOMAIN g.body |-> [closed |-> TRUE, at |-> Front(g.body[i])]]
      [] OTHER -> FlattenSeq([i \in DOMAIN g.body |-> Rows(g.body[i])])

\* Where a pen that follows the path has been.
Replayed(path) ==
    [i \in DOMAIN path.at |->
       IF path.draw # "l" THEN path.at[i]
       ELSE <<SumOf([j \in 1..i |-> path.at[j][1]]), SumOf([j \in 1..i |-> path.at[j][2]])>>]

-----------------------------------------------------------------------------
(* Well-known text and binary. *)

Closed2(pa)    == Flat2(pa[1]) = Flat2(Last(pa))
OddArcs(pa)    == Len(pa) >= 3 /\ Len(pa) % 2 = 1
RingFine(pa)   == Len(pa) >= 4 /\ Closed2(pa)
FirstVertex(g) == Vertices(g)[1]
LastVertex(g)  == Last(Vertices(g))

\* The compound rings of a curve polygon, counting each place they meet once.
RingLength(g)  == Len(Vertices(g)) - (IF g.type = COMPOUNDTYPE THEN Len(g.body) - 1 ELSE 0)

\* What can be said in text: no empty line, and only a collection has empty members.
RECURSIVE TextFits(_)
TextFits(g) ==
    \/ g.body = <<>> /\ g.type \notin Pointed
    \/ CASE g.type = POINTTYPE -> TRUE
         [] g.type = LINETYPE -> Len(g.body) >= 2
         [] g.type = CIRCSTRINGTYPE -> OddArcs(g.body)
         [] g.type = POLYGONTYPE -> \A i \in DOMAIN g.body : RingFine(g.body[i])
         [] OTHER ->
              /\ \A i \in DOMAIN g.body :
                   /\ TextFits(g.body[i])
                   /\ g.type # COLLECTIONTYPE => g.body[i].body # <<>>
                   /\ g.type = MULTICURVETYPE => g.body[i].type # COMPOUNDTYPE
                   /\ g.type = CURVEPOLYTYPE =>
                        /\ Closed2(Vertices(g.body[i]))
                        /\ RingLength(g.body[i]) >= (IF g.body[i].type = LINETYPE THEN 4 ELSE 3)
              /\ g.type = COMPOUNDTYPE =>
                   \A i \in 1..Len(g.body) - 1 : LastVertex(g.body[i]) = FirstVertex(g.body[i + 1])

\* What can be sent in binary: an empty line cannot.
RECURSIVE BinaryFits(_)
BinaryFits(g) ==
    CASE g.type = POINTTYPE -> TRUE
      [] g.type = LINETYPE -> Len(g.body) >= 2
      [] g.type = CIRCSTRINGTYPE -> OddArcs(g.body)
      [] g.type = POLYGONTYPE -> \A i \in DOMAIN g.body : RingFine(g.body[i])
      [] OTHER -> \A i \in DOMAIN g.body : BinaryFits(g.body[i])

\* The emptiness of a text has no type, and no dimensions but for the M in a
\* name.
RECURSIVE Came2(_, _, _)
Came2(g, z, m) ==
    IF g.body = <<>> THEN Make(COLLECTIONTYPE, z, m, -1, <<>>)
    ELSE IF g.type \in Pointed \cup {POLYGONTYPE} THEN g
    ELSE [g EXCEPT !.z = z, !.m = m, !.body = [i \in DOMAIN @ |-> Came2(@[i], z, m)]]
TextBack(g) ==
    LET none == Vertices(g) = <<>>
    IN  IF ~TextFits(g) THEN Raised
        ELSE LWGEOM_dropBBOX(lwgeom_serialize(
               [Came2(g, g.z /\ ~none, g.m /\ ~(g.z /\ none)) EXCEPT !.srid = g.srid]))

\* A stored geometry but for its box.
Unboxed(b) == IF b = Raised THEN Raised ELSE LWGEOM_dropBBOX(b)
==============================================================================
