----------------------------- MODULE Predicates -----------------------------
(***************************************************************************)
(* The spatial predicates of lwgeom_geos.c and the state a call site keeps *)
(* between the rows of a query: for a point against a polygon an index of  *)
(* the polygon's rings, otherwise a geometry GEOS has prepared.  Both sit  *)
(* in the same pointer, fn_extra, told apart by a type tag.                *)
(*                                                                         *)
(* A geometry is its kind and two sets of points of a grid, its interior   *)
(* and its boundary; that two geometries are equal stands for their bytes  *)
(* being equal.  GEOS is external: GEOS(f, a, b) is what it answers.       *)
(***************************************************************************)
EXTENDS Integers, FiniteSets

CONSTANTS
    Geoms,       \* geometries the rows hold
    Funs,        \* predicates a query uses
    NoGeom,      \* no geometry
    MaxContexts  \* bound: how many prepared-geometry caches a query makes

VARIABLES
    fun,         \* the predicate of this call site
    extra,       \* fn_extra: the cache the call site holds
    prepHash,    \* PrepGeomHash[c]: the geometry prepared in context c
    contexts,    \* how many prepared-geometry contexts the query has made
    alive,       \* GEOS objects not yet destroyed: <<context, geometry>>
    answer       \* the last call and its result

vars == <<fun, extra, prepHash, contexts, alive, answer>>

Contexts == 1..MaxContexts
MaybeGeom == Geoms \cup {NoGeom}

\* type 1 is an RTREE_POLY_CACHE, type 2 a PrepGeomCache, 0 no cache at all.
Extra == [type : 0..2, poly : MaybeGeom, context : 0..MaxContexts,
          key1 : MaybeGeom, key2 : MaybeGeom, prepared : MaybeGeom, argnum : 0..2]

NoCache == [type |-> 0, poly |-> NoGeom, context |-> 0, key1 |-> NoGeom, key2 |-> NoGeom,
            prepared |-> NoGeom, argnum |-> 0]

NoAnswer == [a |-> NoGeom, b |-> NoGeom, result |-> FALSE]

Init ==
    /\ fun \in Funs
    /\ extra = NoCache
    /\ prepHash = [c \in Contexts |-> NoGeom]
    /\ contexts = 0
    /\ alive = {}
    /\ answer = NoAnswer

-----------------------------------------------------------------------------
Points(g) == g.int \cup g.bnd

GEOS(f, a, b) ==
    LET touch  == Points(a) \cap Points(b) # {}
        meet   == a.int \cap b.int # {}
        within(p, q) == Points(p) \subseteq Points(q)
    IN  CASE f = "intersects"       -> touch
          [] f = "disjoint"         -> ~touch
          [] f = "touches"          -> touch /\ ~meet
          [] f = "overlaps"         -> meet /\ ~within(a, b) /\ ~within(b, a) /\ a.kind = b.kind
          [] f = "crosses"          -> meet /\ ~within(a, b) /\ ~within(b, a) /\ a.kind # b.kind
          [] f = "geomequals"       -> within(a, b) /\ within(b, a)
          [] f = "contains"         -> within(b, a) /\ meet
          [] f = "containsproperly" -> Points(b) \subseteq a.int
          [] f = "covers"           -> within(b, a)
          [] f = "within"           -> within(a, b) /\ meet
          [] f = "coveredby"        -> within(a, b)

Least(S) == CHOOSE x \in S : \A y \in S : x <= y
Most(S)  == CHOOSE x \in S : \A y \in S : x >= y

Box(g) == LET xs == {p[1] : p \in Points(g)}
              ys == {p[2] : p \in Points(g)}
          IN  [xmin |-> Least(xs), xmax |-> Most(xs), ymin |-> Least(ys), ymax |-> Most(ys)]

\* An empty geometry has no box, and then no test is made.
Boxed(a, b) == Points(a) # {} /\ Points(b) # {}

BoxOutside(a, b) ==
    /\ Boxed(a, b)
    /\ \/ Box(b).xmin < Box(a).xmin \/ Box(b).xmax > Box(a).xmax
       \/ Box(b).ymin < Box(a).ymin \/ Box(b).ymax > Box(a).ymax

BoxApart(a, b) ==
    /\ Boxed(a, b)
    /\ \/ Box(b).xmax < Box(a).xmin \/ Box(b).xmin > Box(a).xmax
       \/ Box(b).ymax < Box(a).ymin \/ Box(b).ymin > Box(a).ymax

\* overlaps and crosses compare box2.ymin with box2.ymax in the last place.
BoxApartButAbove(a, b) ==
    /\ Boxed(a, b)
    /\ \/ Box(b).xmax < Box(a).xmin \/ Box(b).xmin > Box(a).xmax
       \/ Box(b).ymax < Box(a).ymin \/ Box(b).ymin > Box(b).ymax

\* geomequals compares box2.ymin with itself.
BoxDiffers(a, b) ==
    /\ Boxed(a, b)
    /\ \/ Box(b).xmax # Box(a).xmax \/ Box(b).xmin # Box(a).xmin
       \/ Box(b).ymax # Box(a).ymax \/ Box(b).ymin # Box(b).ymin

\* Mutant of BoxDecides: within tests its boxes the way contains does.
BoxDecidesOneWay(f, a, b) ==
    CASE f \in {"contains", "containsproperly", "covers", "within", "coveredby"} -> BoxOutside(a, b)
      [] OTHER -> BoxApart(a, b)

\* Short-circuit 1: the boxes alone decide.
BoxDecides(f, a, b) ==
    CASE f \in {"contains", "containsproperly", "covers"} -> BoxOutside(a, b)
      [] f \in {"within", "coveredby"}                    -> BoxOutside(b, a)
      [] f \in {"intersects", "touches", "disjoint"}      -> BoxApart(a, b)
      [] f \in {"overlaps", "crosses"}                    -> BoxApartButAbove(a, b)
      [] f = "geomequals"                                 -> BoxDiffers(a, b)

BoxAnswer(f) == f = "disjoint"

-----------------------------------------------------------------------------
\* Short-circuit 2: the polygon of a call that tests a point against one.
PointInPolygonCase(f, a, b) ==
    \/ f \in {"contains", "covers", "intersects"} /\ a.kind = "poly" /\ b.kind = "point"
    \/ f \in {"within", "coveredby", "intersects"} /\ b.kind = "poly" /\ a.kind = "point"

PolygonOf(a, b) == IF a.kind = "poly" THEN a ELSE b
PointOf(a, b)   == IF a.kind = "poly" THEN b ELSE a

\* point_in_polygon, point_in_multipolygon and point_in_multipolygon_rtree.
PointIn(poly, point) ==
    IF point.int \subseteq poly.int THEN 1 ELSE IF point.int \subseteq poly.bnd THEN 0 ELSE -1

\* Mutant of RetrievedCache: a populated cache is taken to be the right one.
RetrievedStale(poly) ==
    IF extra.type # 1 THEN [NoCache EXCEPT !.type = 1]
    ELSE IF extra.poly = NoGeom THEN [extra EXCEPT !.poly = poly]
    ELSE extra

\* retrieveCache: a new cache, and one whose polygon was another, stay empty
\* until the next call.  A PrepGeomCache found in fn_extra is let go.
RetrievedCache(poly) ==
    IF extra.type # 1 THEN [NoCache EXCEPT !.type = 1]
    ELSE IF extra.poly = NoGeom THEN [extra EXCEPT !.poly = poly]
    ELSE IF extra.poly = poly THEN extra
    ELSE [extra EXCEPT !.poly = NoGeom]

Inside(f, r) == IF f \in {"contains", "within"} THEN r = 1 ELSE r # -1

PointInPolygon(a, b) ==
    LET poly  == PolygonOf(a, b)
        cache == RetrievedCache(poly)
        used  == IF cache.poly = NoGeom THEN poly ELSE cache.poly
    IN  /\ extra' = cache
        /\ answer' = [a |-> a, b |-> b, result |-> Inside(fun, PointIn(used, PointOf(a, b)))]
        /\ UNCHANGED <<fun, prepHash, contexts, alive>>

-----------------------------------------------------------------------------
Prepares(f) == f \in {"contains", "containsproperly", "covers", "intersects"}

\* Key and argument agree in size and bytes.  VARSIZE + VARHDRSZ bytes are
\* compared, four past the value's end: equal geometries may seem to differ.
SameKey(key, g, lucky) == key = g /\ lucky

\* GetPrepGeomCache when fn_extra holds no PrepGeomCache: a new one with a
\* context and a hash entry of its own.  The geometries become its keys.
NewPrepGeomCache(k1, k2) ==
    /\ contexts < MaxContexts
    /\ contexts' = contexts + 1
    /\ extra' = [NoCache EXCEPT !.type = 2, !.context = contexts + 1, !.key1 = k1, !.key2 = k2]
    /\ prepHash' = [prepHash EXCEPT ![contexts + 1] = NoGeom]
    /\ UNCHANGED alive

\* The key of argument n was seen before: now it is worth preparing.
Hit(n, g) ==
    /\ IF extra.prepared # NoGeom
       THEN UNCHANGED <<extra, prepHash, alive>>
       ELSE /\ extra' = [extra EXCEPT !.prepared = g, !.argnum = n]
            /\ prepHash' = [prepHash EXCEPT ![extra.context] = g]
            /\ alive' = alive \cup {<<extra.context, g>>}
    /\ UNCHANGED contexts

\* Mutants of Miss: the entry keeps pointing at what was destroyed; argnum is
\* left as it was.
MissKeepsEntry(k1, k2) ==
    /\ extra' = [extra EXCEPT !.prepared = NoGeom, !.argnum = 0, !.key1 = k1,
                              !.key2 = IF k2 = NoGeom THEN @ ELSE k2]
    /\ alive' = alive \ {<<extra.context, extra.prepared>>}
    /\ UNCHANGED <<contexts, prepHash>>

\* Neither key fits: what was prepared is destroyed, the keys are replaced.
Miss(k1, k2) ==
    /\ extra' = [extra EXCEPT !.prepared = NoGeom,
                              !.argnum = IF extra.prepared # NoGeom THEN 0 ELSE @,
                              !.key1 = k1, !.key2 = IF k2 = NoGeom THEN @ ELSE k2]
    /\ prepHash' = IF extra.prepared # NoGeom
                   THEN [prepHash EXCEPT ![extra.context] = NoGeom] ELSE prepHash
    /\ alive' = alive \ {<<extra.context, extra.prepared>>}
    /\ UNCHANGED contexts

GetPrepGeomCache(k1, k2) ==
    \E l1, l2 \in BOOLEAN :
        LET hit1 == extra.argnum # 2 /\ SameKey(extra.key1, k1, l1)
            hit2 == k2 # NoGeom /\ extra.argnum # 1 /\ SameKey(extra.key2, k2, l2)
        IN  \/ extra.type # 2 /\ NewPrepGeomCache(k1, k2)
            \/ extra.type = 2 /\ hit1 /\ Hit(1, k1)
            \/ extra.type = 2 /\ ~hit1 /\ hit2 /\ Hit(2, k2)
            \/ extra.type = 2 /\ ~hit1 /\ ~hit2 /\ Miss(k1, k2)

\* GEOS is asked with what is prepared in place of argument argnum.  contains
\* and its kin pass no second key: theirs is never prepared.
PreparedAnswer(cache, a, b) ==
    CASE cache.prepared = NoGeom -> GEOS(fun, a, b)
      [] cache.prepared # NoGeom /\ cache.argnum = 1 -> GEOS(fun, cache.prepared, b)
      [] cache.prepared # NoGeom /\ cache.argnum # 1 ->
            IF fun = "intersects" THEN GEOS(fun, cache.prepared, a) ELSE GEOS(fun, a, b)

Prepared(a, b) ==
    /\ GetPrepGeomCache(a, IF fun = "intersects" THEN b ELSE NoGeom)
    /\ answer' = [a |-> a, b |-> b, result |-> PreparedAnswer(extra', a, b)]
    /\ UNCHANGED fun

-----------------------------------------------------------------------------
\* One call of the predicate, for one row of the query.
BoxCall(a, b) ==
    /\ BoxDecides(fun, a, b)
    /\ answer' = [a |-> a, b |-> b, result |-> BoxAnswer(fun)]
    /\ UNCHANGED <<fun, extra, prepHash, contexts, alive>>

PointCall(a, b) ==
    /\ ~BoxDecides(fun, a, b)
    /\ PointInPolygonCase(fun, a, b)
    /\ PointInPolygon(a, b)

PreparedCall(a, b) ==
    /\ ~BoxDecides(fun, a, b) /\ ~PointInPolygonCase(fun, a, b)
    /\ Prepares(fun)
    /\ Prepared(a, b)

PlainCall(a, b) ==
    /\ ~BoxDecides(fun, a, b) /\ ~PointInPolygonCase(fun, a, b)
    /\ ~Prepares(fun)
    /\ answer' = [a |-> a, b |-> b, result |-> GEOS(fun, a, b)]
    /\ UNCHANGED <<fun, extra, prepHash, contexts, alive>>

\* The query ends or fails: PreparedCacheDelete destroys, for each context,
\* the objects its entry names.
Freed == {<<c, prepHash[c]>> : c \in {d \in Contexts : prepHash[d] # NoGeom}}

EndQuery ==
    /\ extra' = NoCache
    /\ alive' = alive \ Freed
    /\ prepHash' = [c \in Contexts |-> NoGeom]
    /\ contexts' = 0
    /\ answer' = NoAnswer
    /\ UNCHANGED fun

Next ==
    \/ \E a, b \in Geoms :
          BoxCall(a, b) \/ PointCall(a, b) \/ PreparedCall(a, b) \/ PlainCall(a, b)
    \/ EndQuery

Spec == Init /\ [][Next]_vars

-----------------------------------------------------------------------------
\* Whatever rows came before, a call answers what GEOS would answer for its
\* two geometries: no box test, point-in-polygon index or prepared geometry of
\* another row ever decides it.
AnswersAreExact ==
    answer.a # NoGeom => answer.result = GEOS(fun, answer.a, answer.b)

\* Every GEOS object alive is in the entry of its context, and every entry
\* names an object alive: the end of the query frees each of them, once.
EntriesNameTheLiving == alive = Freed
=============================================================================
