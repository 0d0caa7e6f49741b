------------------------------ MODULE TopoGeo ------------------------------
(***************************************************************************)
(* One topology of PostGIS's topology schema: its nodes, edges and faces,  *)
(* the SQL/MM functions that edit them, and the TopoGeometries that refer  *)
(* to them through the relation table.                                     *)
(*                                                                         *)
(* The plane is a set of points; a curve is the sequence of the points it  *)
(* visits, and two curves meet where they share one.  A function that      *)
(* raises rolls its statement back, so only sequences show that it ran.    *)
(***************************************************************************)
EXTENDS Integers, Sequences, FiniteSets, SequencesExt

CONSTANTS
    Points,      \* positions
    Curves,      \* the linestrings a caller can pass
    Rings,       \* [curve, inside]: closed curves with the points they enclose
    Layers,      \* Layers[l]: [type, level, child], rows of topology.layer
    Requests,    \* [layer, type, elements]: what CreateTopoGeom is asked for
    Loaded,      \* what was inserted into the tables before editing starts
    Null,        \* SQL's NULL
    MaxNode,     \* bounds: the last id each sequence gives out
    MaxEdge,
    MaxTopoGeo

VARIABLES
    node,        \* node[n]: [geom, face], containing_face Null or a face
    edge,        \* edge[e]: a row of edge_data
    face,        \* the face ids
    relation,    \* rows [layer, tg, elem, type]
    tgs,         \* the TopoGeometries returned to users: [layer, id, type]
    seq          \* the last id given out: [node, edge, tg]

vars == <<node, edge, face, relation, tgs, seq>>

\* next and abs are the signed and the absolute columns, left and right.
Links       == (-MaxEdge..MaxEdge) \ {0}
Edge(faces) == [start : 1..MaxNode, end : 1..MaxNode,
                nextLeft : Links, nextRight : Links, absLeft : 1..MaxEdge, absRight : 1..MaxEdge,
                left : faces, right : faces, geom : Seq(Points)]
Node(faces) == [geom : Points, face : faces \cup {Null}]

Init ==
    /\ node = Loaded.node /\ edge = Loaded.edge /\ face = Loaded.face
    /\ relation = {} /\ tgs = {}
    /\ seq = [node |-> Cardinality(DOMAIN node), edge |-> Cardinality(DOMAIN edge), tg |-> 0]

-----------------------------------------------------------------------------
(* The geometry functions the SQL calls. *)

On(c)            == ToSet(c)
StartPoint(c)    == c[1]
EndPoint(c)      == c[Len(c)]
Boundary(c)      == IF StartPoint(c) = EndPoint(c) THEN {} ELSE {StartPoint(c), EndPoint(c)}
Within(p, c)     == p \in On(c) \ Boundary(c)
Intersects(c, d) == On(c) \cap On(d) # {}
Segments(c)      == {{c[i], c[i + 1]} : i \in 1..Len(c) - 1}
Crosses(c, d)    == /\ \E p \in Points : Within(p, c) /\ Within(p, d)
                    /\ Segments(c) \cap Segments(d) = {}
IsSimple(c)      == \A i, j \in 1..Len(c) : c[i] = c[j] => i = j \/ {i, j} = {1, Len(c)}

\* line_substring up to and from the point at line_locate_point.
Before(c, p)     == SubSeq(c, 1, CHOOSE i \in 1..Len(c) : c[i] = p)
After(c, p)      == SubSeq(c, CHOOSE i \in 1..Len(c) : c[i] = p, Len(c))

\* polygonize, and the first polygon of its result: Null if the lines have no ring.
Polygonize(cs) ==
    LET rings == {r \in Rings : Segments(r.curve) \subseteq UNION {Segments(c) : c \in cs}}
    IN  IF rings = {} THEN Null
        ELSE (CHOOSE r \in rings : \A s \in rings : Cardinality(r.inside) <= Cardinality(s.inside)).inside

\* An aggregate always returns a row: a face without edges has geometry Null.
FaceGeometry(es, f)   == Polygonize({es[e].geom : e \in {d \in DOMAIN es : f \in {es[d].left, es[d].right}}})
ST_GetFaceGeometry(f) == FaceGeometry(edge, f)

-----------------------------------------------------------------------------
(* Checks the functions share, and the constraints of the tables. *)

\* Mutant of EdgeThrough: only an edge of several segments is met.
EdgeInside(p) == \E e \in DOMAIN edge : Len(edge[e].geom) > 3 /\ p \in On(edge[e].geom)

Abs(e)          == IF e < 0 THEN -e ELSE e
Coincident(p)   == \E n \in DOMAIN node : node[n].geom = p
EdgeThrough(p)  == \E e \in DOMAIN edge : p \in On(edge[e].geom)
Isolated(n)     == \A e \in DOMAIN edge : n \notin {edge[e].start, edge[e].end}
CrossesNode(c)  == \E n \in DOMAIN node : Within(node[n].geom, c)

\* The deferred foreign keys on the absolute columns, at the end of a call.
LinksExist(es)  == \A e \in DOMAIN es : {es[e].absLeft, es[e].absRight} \subseteq DOMAIN es

\* The insert rule of the view "edge" fills in the absolute columns.
NewEdge(s, e, nl, nr, l, r, g) ==
    [start |-> s, end |-> e, nextLeft |-> nl, nextRight |-> nr, absLeft |-> Abs(nl),
     absRight |-> Abs(nr), left |-> l, right |-> r, geom |-> g]

Put(f, x, v)    == [y \in DOMAIN f \cup {x} |-> IF y = x THEN v ELSE f[y]]
Drop(f, x)      == [y \in DOMAIN f \ {x} |-> f[y]]

-----------------------------------------------------------------------------
(* Editing nodes and edges. *)

\* aface may be Null: then no check is made.  Faces are found in no other way.
ST_AddIsoNode(aface, p) ==
    /\ ~Coincident(p) /\ ~EdgeThrough(p)
    /\ aface # Null => ST_GetFaceGeometry(aface) # Null /\ p \in ST_GetFaceGeometry(aface)
    /\ seq.node < MaxNode
    /\ seq' = [seq EXCEPT !.node = @ + 1]
    /\ node' = Put(node, seq'.node, [geom |-> p, face |-> aface])
    /\ UNCHANGED <<edge, face, relation, tgs>>

\* TopoGeo_AddPoint
TopoGeo_AddPoint(p) == ST_AddIsoNode(Null, p)

ST_MoveIsoNode(n, p) ==
    /\ n \in DOMAIN node
    /\ Isolated(n) /\ ~Coincident(p) /\ ~EdgeThrough(p)
    /\ node' = [node EXCEPT ![n].geom = p]
    /\ UNCHANGED <<edge, face, relation, tgs, seq>>

ST_RemoveIsoNode(n) ==
    /\ n \in DOMAIN node
    /\ Isolated(n)
    /\ node' = Drop(node, n)
    /\ UNCHANGED <<edge, face, relation, tgs, seq>>

ST_RemoveIsoEdge(e) ==
    /\ e \in DOMAIN edge
    /\ edge[e].left = edge[e].right
    /\ \A d \in DOMAIN edge \ {e} :
          {edge[d].start, edge[d].end} \cap {edge[e].start, edge[e].end} = {}
    /\ LinksExist(Drop(edge, e))
    /\ edge' = Drop(edge, e)
    /\ UNCHANGED <<node, face, relation, tgs, seq>>

\* The loop over the two nodes compares the face of the first with that of the
\* second, unless one is NULL, and keeps the last; a face that is not NULL
\* leads to "IF ! within(...)", which names no operator and raises.
ST_AddIsoEdge(m, n, c) ==
    /\ {m, n} \subseteq DOMAIN node /\ m # n
    /\ IsSimple(c)
    /\ Null \in {node[m].face, node[n].face}
    /\ Isolated(m) /\ Isolated(n)
    /\ node[m].geom = StartPoint(c) /\ node[n].geom = EndPoint(c)
    /\ ~CrossesNode(c)
    /\ \A e \in DOMAIN edge : ~Intersects(edge[e].geom, c)
    /\ seq.edge < MaxEdge
    /\ seq' = [seq EXCEPT !.edge = @ + 1]
    /\ edge' = Put(edge, seq'.edge, NewEdge(m, n, -seq'.edge, seq'.edge, 0, 0, c))
    /\ UNCHANGED <<node, face, relation, tgs>>

\* Its two end nodes and its edge in one call, which fails as a whole.
TopoGeo_addLinestring(c) ==
    LET m == seq.node + 1
        e == seq.edge + 1
    IN  /\ IsSimple(c) /\ StartPoint(c) # EndPoint(c)
        /\ \A p \in {StartPoint(c), EndPoint(c)} : ~Coincident(p) /\ ~EdgeThrough(p)
        /\ ~CrossesNode(c)
        /\ \A d \in DOMAIN edge : ~Intersects(edge[d].geom, c)
        /\ m < MaxNode /\ e <= MaxEdge
        /\ node' = Put(Put(node, m, [geom |-> StartPoint(c), face |-> Null]),
                       m + 1, [geom |-> EndPoint(c), face |-> Null])
        /\ edge' = Put(edge, e, NewEdge(m, m + 1, -e, e, 0, 0, c))
        /\ seq' = [seq EXCEPT !.node = m + 1, !.edge = e]
        /\ UNCHANGED <<face, relation, tgs>>

ST_ChangeEdgeGeom(e, c) ==
    /\ e \in DOMAIN edge
    /\ IsSimple(c)
    /\ StartPoint(c) = node[edge[e].start].geom /\ EndPoint(c) = node[edge[e].end].geom
    /\ ~CrossesNode(c)
    /\ \A d \in DOMAIN edge \ {e} : ~Intersects(edge[d].geom, c)
    /\ edge' = [edge EXCEPT ![e].geom = c]
    /\ UNCHANGED <<node, face, relation, tgs, seq>>

\* Rows of basic layers that hold the edge; hierarchical ones hold features.
Holding(e) == {r \in relation : Layers[r.layer].level = 0 /\ r.type = 2 /\ Abs(r.elem) = e}

\* Mutant of Redirected: the direction of the row is lost on one of the two.
RedirectedLast(r, e) == [r EXCEPT !.elem = IF r.elem < 0 THEN r.elem ELSE e]

\* A row of the same TopoGeometry for the edge e, in the direction of r.
Redirected(r, e) == [r EXCEPT !.elem = IF r.elem < 0 THEN -e ELSE e]

CanSplit(e, p) ==
    /\ e \in DOMAIN edge
    /\ Within(p, edge[e].geom) /\ ~Coincident(p)
    /\ seq.node < MaxNode

\* SET next = to, abs = |to| WHERE next = from, on one side.
RelinkedLeft(es, from, to) ==
    [e \in DOMAIN es |-> IF es[e].nextLeft = from
                         THEN [es[e] EXCEPT !.nextLeft = to, !.absLeft = Abs(to)] ELSE es[e]]
RelinkedRight(es, from, to) ==
    [e \in DOMAIN es |-> IF es[e].nextRight = from
                         THEN [es[e] EXCEPT !.nextRight = to, !.absRight = Abs(to)] ELSE es[e]]

\* Mutant of NewEdgesRelinked: the left links swapped as the right ones are.
NewEdgesSwapped(es, e, e1, e2) ==
    RelinkedLeft(RelinkedLeft(RelinkedRight(RelinkedRight(es, e, e2), -e, -e1), e, e2), -e, -e1)

\* The four updates of ST_NewEdgesSplit, in their order.
NewEdgesRelinked(es, e, e1, e2) ==
    RelinkedLeft(RelinkedLeft(RelinkedRight(RelinkedRight(es, e, e2), -e, -e1), e, e1), -e, -e2)

ST_NewEdgesSplit(e, p) ==
    LET old == edge[e]
        n   == seq.node + 1
        e1  == seq.edge + 1
        e2  == seq.edge + 2
        one == NewEdge(old.start, n, e2, old.nextRight, old.left, old.right, Before(old.geom, p))
        two == NewEdge(n, old.end, old.nextLeft, -e1, old.left, old.right, After(old.geom, p))
        es  == NewEdgesRelinked(Put(Put(Drop(edge, e), e1, one), e2, two), e, e1, e2)
    IN  /\ CanSplit(e, p) /\ e2 <= MaxEdge
        /\ LinksExist(es)
        /\ edge' = es
        /\ node' = Put(node, n, [geom |-> p, face |-> Null])
        /\ relation' = (relation \ Holding(e))
                          \cup {Redirected(r, d) : r \in Holding(e), d \in {e1, e2}}
        /\ seq' = [seq EXCEPT !.node = n, !.edge = e2]
        /\ UNCHANGED <<face, tgs>>

\* The old row keeps its id; its abs_next_left_edge is not among the columns set.
ST_ModEdgesSplit(e, p) ==
    LET old  == edge[e]
        n    == seq.node + 1
        e2   == seq.edge + 1
        two  == NewEdge(n, old.end, old.nextLeft, -e, old.left, old.right, After(old.geom, p))
        kept == [old EXCEPT !.geom = Before(old.geom, p), !.nextLeft = e2, !.end = n]
    IN  /\ CanSplit(e, p) /\ e2 <= MaxEdge
        /\ edge' = RelinkedLeft(RelinkedRight(Put(Put(edge, e2, two), e, kept), -e, -e2), -e, -e2)
        /\ LinksExist(edge')
        /\ node' = Put(node, n, [geom |-> p, face |-> Null])
        /\ relation' = relation \cup {Redirected(r, e2) : r \in Holding(e)}
        /\ seq' = [seq EXCEPT !.node = n, !.edge = e2]
        /\ UNCHANGED <<face, tgs>>

-----------------------------------------------------------------------------
(* TopoGeometries. *)

\* RelationTrigger, for one row inserted.
RelationAllows(r) ==
    LET lyr == Layers[r.layer]
    IN  IF lyr.level > 0
        THEN /\ r.type = lyr.child
             /\ \E s \in relation : s.layer = lyr.child /\ s.tg = r.elem
        ELSE /\ lyr.type \in {4, r.type}
             /\ r.type = 1 => r.elem \in DOMAIN node
             /\ r.type = 2 => Abs(r.elem) \in DOMAIN edge
             /\ r.type = 3 => r.elem # 0 /\ r.elem \in face

\* q: the layer, the type and the elements.  The id is spent even if a later
\* check raises.
CreateTopoGeom(q) ==
    LET lyr  == Layers[q.layer]
        id   == seq.tg + 1
        rows == {[layer |-> q.layer, tg |-> id, elem |-> x[1], type |-> x[2]] : x \in q.elements}
        ok   == \A r \in rows : /\ IF lyr.level = 0 THEN q.type \in {4, r.type} ELSE r.type = lyr.child
                                /\ RelationAllows(r)
    IN  /\ q.layer \in DOMAIN Layers
        /\ lyr.type \in {4, q.type}
        /\ id <= MaxTopoGeo
        /\ seq' = [seq EXCEPT !.tg = id]
        /\ IF ok THEN /\ relation' = relation \cup rows
                      /\ tgs' = tgs \cup {[layer |-> q.layer, id |-> id, type |-> q.type]}
           ELSE UNCHANGED <<relation, tgs>>
        /\ UNCHANGED <<node, edge, face>>

Rows(tg) == {r \in relation : r.layer = tg.layer /\ r.tg = tg.id}

\* GetTopoGeomElements; layers nest one level here.
GetTopoGeomElements(tg) ==
    IF Layers[tg.layer].level = 0
    THEN {<<Abs(r.elem), r.type>> : r \in Rows(tg)}
    ELSE {<<Abs(s.elem), s.type>> :
             s \in {t \in relation : \E r \in Rows(tg) : t.layer = r.type /\ t.tg = Abs(r.elem)}}

\* equals(TopoGeometry, TopoGeometry)
TopoEquals(a, b) == a.type = b.type /\ GetTopoGeomElements(a) = GetTopoGeomElements(b)

\* Mutant of Ends: the start node twice.
StartOnly(e) == {edge[e].start}

EdgesOf(tg)  == {Abs(r.elem) : r \in Rows(tg)} \cap DOMAIN edge
FacesOf(tg)  == {r.elem : r \in Rows(tg)}
Ends(e)      == {edge[e].start, edge[e].end}
Sides(e)     == {edge[e].left, edge[e].right}

\* Geometry(TopoGeometry) of a basic layer, as the points it covers; of a
\* collection, GEOMETRYCOLLECTION EMPTY.
Geometry(tg) ==
    CASE tg.type = 1 -> {node[r.elem].geom : r \in {s \in Rows(tg) : s.elem \in DOMAIN node}}
      [] tg.type = 2 -> UNION {On(edge[e].geom) : e \in EdgesOf(tg)}
      [] tg.type = 3 ->
            UNION {ST_GetFaceGeometry(f) : f \in {g \in FacesOf(tg) : ST_GetFaceGeometry(g) # Null}}
      [] OTHER -> {}

\* intersects(TopoGeometry, TopoGeometry), one operator for each pair of types.
PointMeetsPoint(a, b) == {r.elem : r \in Rows(a)} \cap {r.elem : r \in Rows(b)} # {}

PointMeetsLine(a, b) == \E e \in EdgesOf(b), r \in Rows(a) : r.elem \in Ends(e)

PointMeetsArea(a, b) ==
    \E r \in Rows(a) :
        /\ r.elem \in DOMAIN node
        /\ \/ node[r.elem].face \in FacesOf(b)
           \/ \E e \in DOMAIN edge : r.elem \in Ends(e) /\ Sides(e) \cap FacesOf(b) # {}

LineMeetsLine(a, b) == \E d \in EdgesOf(a), e \in EdgesOf(b) : Ends(d) \cap Ends(e) # {}

LineMeetsArea(a, b) ==
    \E d \in EdgesOf(a), e \in DOMAIN edge :
        /\ Sides(e) \cap FacesOf(b) # {}
        /\ Sides(d) \cap FacesOf(b) # {} \/ Ends(d) \cap Ends(e) # {}

AreaMeetsArea(a, b) ==
    \E d, e \in DOMAIN edge :
        /\ Sides(d) \cap FacesOf(a) # {} /\ Sides(e) \cap FacesOf(b) # {}
        /\ \/ Sides(d) \cap FacesOf(b) # {} \/ Sides(e) \cap FacesOf(a) # {}
           \/ Ends(d) \cap Ends(e) # {}

\* The lower dimension comes first.
TopoIntersects(a, b) ==
    CASE <<a.type, b.type>> = <<1, 1>> -> PointMeetsPoint(a, b)
      [] <<a.type, b.type>> = <<1, 2>> -> PointMeetsLine(a, b)
      [] <<a.type, b.type>> = <<1, 3>> -> PointMeetsArea(a, b)
      [] <<a.type, b.type>> = <<2, 2>> -> LineMeetsLine(a, b)
      [] <<a.type, b.type>> = <<2, 3>> -> LineMeetsArea(a, b)
      [] <<a.type, b.type>> = <<3, 3>> -> AreaMeetsArea(a, b)

\* The rows ValidateTopology returns, one operator for each of its queries.
Nodes == DOMAIN node
Edges == DOMAIN edge
Found(error, S, T, P(_, _)) == {<<error>> \o x : x \in {y \in S \X T : P(y[1], y[2])}}

CoincidentNodes(m, n) == m < n /\ node[m].geom = node[n].geom
EdgeCrossesNode(n, e) == n \notin Ends(e) /\ node[n].geom \in On(edge[e].geom)
EdgeNotSimple(d, e)   == d = e /\ ~IsSimple(edge[e].geom)
EdgeCrossesEdge(d, e) == d < e /\ Crosses(edge[d].geom, edge[e].geom)
StartMismatch(e, n)   == n = edge[e].start /\ StartPoint(edge[e].geom) # node[n].geom
EndMismatch(e, n)     == n = edge[e].end /\ EndPoint(edge[e].geom) # node[n].geom
FaceWithoutEdges(f, g) == f = g /\ \A e \in Edges : f \notin Sides(e)
FacesShare(f, g) ==
    LET F == ST_GetFaceGeometry(f)
        G == ST_GetFaceGeometry(g)
    IN  f # 0 /\ f < g /\ Null \notin {F, G} /\ F \cap G # {}

ValidateTopology ==
    UNION {Found("coincident nodes", Nodes, Nodes, CoincidentNodes),
           Found("edge crosses node", Nodes, Edges, EdgeCrossesNode),
           Found("edge not simple", Edges, Edges, EdgeNotSimple),
           Found("edge crosses edge", Edges, Edges, EdgeCrossesEdge),
           Found("edge start node geometry mis-match", Edges, Nodes, StartMismatch),
           Found("edge end node geometry mis-match", Edges, Nodes, EndMismatch),
           Found("face without edges", face, face, FaceWithoutEdges),
           Found("face overlaps or is within face", face, face, FacesShare)}

-----------------------------------------------------------------------------
Split == \E e \in DOMAIN edge, p \in Points : ST_NewEdgesSplit(e, p) \/ ST_ModEdgesSplit(e, p)

Next ==
    \/ \E f \in face \cup {Null}, p \in Points : ST_AddIsoNode(f, p)
    \/ \E n \in DOMAIN node : ST_RemoveIsoNode(n) \/ \E p \in Points : ST_MoveIsoNode(n, p)
    \/ \E e \in DOMAIN edge : ST_RemoveIsoEdge(e) \/ \E c \in Curves : ST_ChangeEdgeGeom(e, c)
    \/ \E m, n \in DOMAIN node, c \in Curves : ST_AddIsoEdge(m, n, c)
    \/ \E c \in Curves : TopoGeo_addLinestring(c)
    \/ Split
    \/ \E q \in Requests : CreateTopoGeom(q)

Spec == Init /\ [][Next]_vars

-----------------------------------------------------------------------------
(* What makes nodes ns, edges es and faces fs a topology.                  *)

NodesApart(ns) == \A m, n \in DOMAIN ns : ns[m].geom = ns[n].geom => m = n

EndsMatch(ns, es) ==
    \A e \in DOMAIN es :
        /\ {es[e].start, es[e].end} \subseteq DOMAIN ns
        /\ StartPoint(es[e].geom) = ns[es[e].start].geom
        /\ EndPoint(es[e].geom) = ns[es[e].end].geom

OnlyEndsOn(ns, es) ==
    \A e \in DOMAIN es, n \in DOMAIN ns :
        ns[n].geom \in On(es[e].geom) => n \in {es[e].start, es[e].end}

MeetAtNodes(ns, es) ==
    \A d, e \in DOMAIN es : d # e =>
        \A p \in On(es[d].geom) \cap On(es[e].geom) :
            \E n \in {es[d].start, es[d].end} \cap {es[e].start, es[e].end} : ns[n].geom = p

Curve(c) == c \in Seq(Points) /\ Len(c) >= 2

LeftLinked(es) ==
    \A e \in DOMAIN es :
        LET next == es[e].nextLeft
        IN  /\ Abs(next) \in DOMAIN es
            /\ es[e].end = IF next > 0 THEN es[next].start ELSE es[-next].end

\* A closed edge, or a ring of several, has different faces on its sides.
FacesBounded(fs, es) ==
    /\ \A f \in fs \ {0} : \E e \in DOMAIN es : f \in {es[e].left, es[e].right} /\ es[e].left # es[e].right
    /\ \A e \in DOMAIN es : StartPoint(es[e].geom) = EndPoint(es[e].geom) => es[e].left # es[e].right

FacesApart(fs, es) ==
    \A f, g \in fs \ {0} : f = g \/ Null \in {FaceGeometry(es, f), FaceGeometry(es, g)}
                            \/ FaceGeometry(es, f) \cap FaceGeometry(es, g) = {}

ASSUME LoadedAssumption ==
    LET ns == Loaded.node
        es == Loaded.edge
        fs == Loaded.face
    IN  /\ ns \in Seq(Node(fs)) /\ Len(ns) <= MaxNode /\ es \in Seq(Edge(fs)) /\ Len(es) <= MaxEdge
        /\ 0 \in fs /\ fs \subseteq Nat
        /\ NodesApart(ns) /\ EndsMatch(ns, es) /\ OnlyEndsOn(ns, es) /\ MeetAtNodes(ns, es)
        /\ \A e \in DOMAIN es : Curve(es[e].geom) /\ IsSimple(es[e].geom)
        /\ \A d, e \in DOMAIN es : d # e => ~Crosses(es[d].geom, es[e].geom)
        /\ LeftLinked(es)
        /\ FacesBounded(fs, es) /\ FacesApart(fs, es)

ASSUME CurvesAssumption == \A c \in Curves : Curve(c)

\* The boundaries of polygons.
ASSUME RingsAssumption ==
    \A r \in Rings : Curve(r.curve) /\ Len(r.curve) > 3 /\ IsSimple(r.curve)
                      /\ StartPoint(r.curve) = EndPoint(r.curve)

ASSUME LayersAssumption ==
    \A l \in DOMAIN Layers :
        /\ Layers[l].level \in Nat
        /\ Layers[l].level > 0 => Layers[l].child \in DOMAIN Layers /\ Layers[Layers[l].child].level = 0

ASSUME RequestsAssumption == \A q \in Requests : q.elements \subseteq Int \X Int

ASSUME BoundsAssumption ==
    MaxNode \in Nat /\ MaxEdge \in Nat /\ MaxTopoGeo \in Nat /\ Null \notin Int /\ Null \notin Loaded.face

-----------------------------------------------------------------------------
TypeOK ==
    /\ seq \in [node : 0..MaxNode, edge : 0..MaxEdge, tg : 0..MaxTopoGeo]
    /\ DOMAIN node \subseteq 1..seq.node /\ DOMAIN edge \subseteq 1..seq.edge
    /\ \A n \in DOMAIN node : node[n] \in Node(face)
    /\ \A e \in DOMAIN edge : edge[e] \in Edge(face)
    /\ relation \subseteq [layer : DOMAIN Layers, tg : 1..MaxTopoGeo, elem : Int, type : Int]

\* The validator finds nothing, whatever was edited: the checks each function
\* makes on its own keep nodes apart, edges simple and meeting only at nodes,
\* and every face bounded.  The world face alone may have no edges.
ValidatorFindsNothing == ValidateTopology \subseteq {<<"face without edges", 0, 0>>}

\* The left links of the edges lead on from their end nodes, through any
\* sequence of splits.
LeftLinksMeet == LeftLinked(edge)

\* The comment "Update all next edge references to match new layout" of both
\* splits: the right links too lead on, from their start nodes.
RightLinksMeet ==
    \A e \in DOMAIN edge :
        LET next == edge[e].nextRight
        IN  /\ Abs(next) \in DOMAIN edge
            /\ edge[e].start = IF next > 0 THEN edge[next].start ELSE edge[-next].end

\* intersects() looks at ids only, and yet says of points and lines what their
\* geometries say, also after splits and removals of what they refer to.
IntersectsIsGeometric ==
    \A a, b \in tgs :
        /\ <<a.type, b.type>> \in {<<1, 2>>, <<2, 2>>}
        /\ Layers[a.layer].level = 0 /\ Layers[b.layer].level = 0
        => TopoIntersects(a, b) = (Geometry(a) \cap Geometry(b) # {})

\* Splitting an edge changes the geometry of no TopoGeometry, of any type, and
\* leaves equal ones equal.
SplitsKeepGeometry ==
    [][Split => \A a, b \in tgs :
          /\ Layers[a.layer].level = 0 => Geometry(a)' = Geometry(a)
          /\ TopoEquals(a, b)' = TopoEquals(a, b)]_vars

=============================================================================
