------------------------------ MODULE Backend ------------------------------
(***************************************************************************)
(* One PostgreSQL backend running PostGIS queries: the projections a       *)
(* transform() call site caches and the geometries a predicate's call site *)
(* caches live in the query's memory and end with it.  A query here has    *)
(* one call site; the two caches share nothing but the query's end.        *)
(***************************************************************************)
EXTENDS ProjCache

CONSTANTS
    Geoms, Funs, NoGeom,    \* as in Predicates
    MaxPrepared             \* its bound on contexts

ASSUME GeomsAssumption == NoGeom \notin Geoms /\ MaxPrepared \in Nat

VARIABLES
    site,        \* the call site of the query: none yet, or which cache it uses
    fun, extra, prepHash, contexts, alive, answer    \* as in Predicates

G == INSTANCE Predicates WITH MaxContexts <- MaxPrepared

predicateVars == <<fun, extra, prepHash, contexts, alive, answer>>
backendVars   == <<vars, site, predicateVars>>

BackendInit ==
    /\ Init
    /\ G!Init
    /\ site = "none"

TransformStep ==
    /\ site \in {"none", "transform"}
    /\ \/ \E f, t \in Srids : Transform(f, t)
       \/ TakeOutput
       \/ TakeInput
       \/ Return
    /\ site' = "transform"
    /\ UNCHANGED predicateVars

PredicateStep ==
    /\ site \in {"none", "predicate"}
    /\ \E a, b \in Geoms :
          G!BoxCall(a, b) \/ G!PointCall(a, b) \/ G!PreparedCall(a, b) \/ G!PlainCall(a, b)
    /\ site' = "predicate"
    /\ UNCHANGED vars

\* The query's memory context goes: the callbacks of both caches run.
QueryEnds ==
    /\ EndQuery
    /\ G!EndQuery
    /\ site' = "none"

BackendNext == TransformStep \/ PredicateStep \/ QueryEnds

BackendSpec == BackendInit /\ [][BackendNext]_backendVars

\* Of MCBackend's geometries the box tests and the crossing of a ray say what
\* GEOS would: BackendProofs supposes it of all others.
ShortcutsAreSound ==
    \A f \in Funs, a, b \in Geoms :
       /\ G!BoxDecides(f, a, b) => G!BoxAnswer(f) = G!GEOS(f, a, b)
       /\ ~G!BoxDecides(f, a, b) /\ G!PointInPolygonCase(f, a, b) =>
             G!Inside(f, G!PointIn(G!PolygonOf(a, b), G!PointOf(a, b))) = G!GEOS(f, a, b)

\* The properties of Predicates, of which see there.
AnswersAreExact      == G!AnswersAreExact
EntriesNameTheLiving == G!EntriesNameTheLiving
=============================================================================
