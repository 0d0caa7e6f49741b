----------------------------- MODULE TopoLayers -----------------------------
(***************************************************************************)
(* The registry of PostGIS's topology schema: topologies, each a database  *)
(* schema of its own, their layers, which are TopoGeometry columns of user *)
(* tables, and the rows of their relation tables, with the triggers that   *)
(* guard layers.  Creating a topology adds the geometry columns of its     *)
(* node and edge tables to geometry_columns; dropping one drops its schema.*)
(*                                                                         *)
(* TopoGeo models what is inside one topology; here the elements of a      *)
(* basic layer always exist, and a feature column stands for its table.    *)
(***************************************************************************)
EXTENDS Integers, GeometryColumns

CONSTANTS
    Names,       \* names of topologies
    FeatCols,    \* TopoGeometry columns of user tables
    UserCols,    \* geometry columns outside topologies
    TopoSrid,    \* the SRID topologies are created with
    MaxId,       \* bound: topologies created
    MaxLayer,    \* bound: layers created in a topology
    MaxTopoGeom  \* bound: TopoGeometries created in a layer

VARIABLES
    topology,    \* topology[n]: its row's id in topology.topology, or Nil
    schema,      \* schema[n]: Nil, or the contents of schema n: the sequences
                 \* [layers, tgs] and the relation table
    layer,       \* rows of topology.layer
    feature,     \* feature[f]: the TopoGeometries in column f, Nil if no column
    nextId       \* the sequence of topology ids

topoVars == <<topology, schema, layer, feature, nextId>>
vars     == <<gcVars, topoVars>>

Layer    == [topo : 1..MaxId, id : 1..MaxLayer, col : FeatCols, level : Nat, child : 0..MaxLayer]
TopoGeom == [topo : 1..MaxId, layer : 1..MaxLayer, id : 1..MaxTopoGeom]
Relation == [layer : 1..MaxLayer, tg : 1..MaxTopoGeom, elem : 1..MaxTopoGeom]
Schema   == [layers : 0..MaxLayer, tgs : UNION {[S -> 0..MaxTopoGeom] : S \in SUBSET (1..MaxLayer)},
             relation : SUBSET Relation]

ASSUME BoundsAssumption == MaxId \in Nat /\ MaxLayer \in Nat /\ MaxTopoGeom \in Nat
ASSUME NoneAssumption   == Nil \notin Nat /\ Nil \notin Schema

TopoInit ==
    /\ GCInit
    /\ topology = [n \in Names |-> Nil]
    /\ schema = [n \in Names |-> Nil]
    /\ layer = {}
    /\ feature = [f \in FeatCols |-> Nil]
    /\ nextId = 0

\* CreateTopology's two geometry columns.
TopoType(c)    == IF c.table = "node" THEN "POINT" ELSE "LINESTRING"
GeomColsOf(n)  == {c \in Cols : c.schema = n}

ASSUME ColsAssumption ==
    /\ UserCols \subseteq Cols /\ TopoSrid \in Srids
    /\ \A n \in Names : \A c \in GeomColsOf(n) : TopoType(c) \in Types /\ TopoType(c) # "GEOMETRY"

Registered     == {n \in Names : topology[n] # Nil}
RowsOf(t, l)   == {r \in schema[t].relation : r.layer = l}
NewSchema      == [layers |-> 0, tgs |-> [l \in {} |-> 0], relation |-> {}]

\* CreateTopology (and ST_InitTopoGeo): the schema must be free.  Both tables
\* get their geometry column through AddGeometryColumn.
CreateTopology(n) ==
    /\ schema[n] = Nil /\ topology[n] = Nil
    /\ nextId < MaxId
    /\ nextId' = nextId + 1
    /\ schema' = [schema EXCEPT ![n] = NewSchema]
    /\ topology' = [topology EXCEPT ![n] = nextId']
    /\ column' = [c \in Cols |-> IF c \in GeomColsOf(n)
                                 THEN AddedColumn(TopoSrid, TopoType(c), 2) ELSE column[c]]
    /\ gc' = [c \in Cols |-> IF c \in GeomColsOf(n)
                             THEN RowOf(TopoSrid, 2, TopoType(c)) ELSE gc[c]]
    /\ stale' = stale \ GeomColsOf(n)
    /\ UNCHANGED <<layer, feature>>

\* child: 0 for none, otherwise looked up by layer id alone, in no particular
\* topology; level 0 - 1 + 1 for a basic layer.
Levels(child) == IF child = 0 THEN {0} ELSE {l.level + 1 : l \in {m \in layer : m.id = child}}

AddTopoGeometryColumn(n, f, child) ==
    LET id == schema[n].layers + 1
    IN  /\ n \in Registered /\ schema[n] # Nil
        /\ feature[f] = Nil /\ \A l \in layer : l.col # f
        /\ id <= MaxLayer
        /\ \E v \in Levels(child) :
              layer' = layer \cup {[topo |-> topology[n], id |-> id, col |-> f,
                                    level |-> v, child |-> child]}
        /\ schema' = [schema EXCEPT ![n].layers = id,
              ![n].tgs = [i \in DOMAIN @ \cup {id} |-> IF i = id THEN 0 ELSE @[i]]]
        /\ feature' = [feature EXCEPT ![f] = {}]
        /\ UNCHANGED <<gcVars, topology, nextId>>

\* A user inserts CreateTopoGeom(n, ...) into column f, whose check constraint
\* demands its layer; RelationTrigger demands that the child's element exists.
CreateTopoGeom(n, f, elem) ==
    \E l \in layer :
        LET tg == schema[n].tgs[l.id] + 1
        IN  /\ n \in Registered /\ l.topo = topology[n] /\ l.col = f /\ feature[f] # Nil
            /\ l.level > 0 => \E r \in RowsOf(n, l.child) : r.tg = elem
            /\ l.id \in DOMAIN schema[n].tgs /\ tg <= MaxTopoGeom
            /\ schema' = [schema EXCEPT ![n].tgs[l.id] = tg,
                             ![n].relation = @ \cup {[layer |-> l.id, tg |-> tg, elem |-> elem]}]
            /\ feature' = [feature EXCEPT ![f] = @ \cup {[topo |-> l.topo, layer |-> l.id, id |-> tg]}]
            /\ UNCHANGED <<gcVars, topology, layer, nextId>>

\* A user's row goes; its rows of the relation table stay.
DeleteFeature(f) ==
    /\ feature[f] # Nil
    /\ \E x \in feature[f] : feature' = [feature EXCEPT ![f] = @ \ {x}]
    /\ UNCHANGED <<gcVars, topology, schema, layer, nextId>>

\* Mutant of LayerMayGo: the trigger lets every row go.
LayerGoes(l, feat, sch) == TRUE

\* LayerTrigger on DELETE, given the tables as they are then: no feature of the
\* layer, and no row of the relation table with its layer and with the
\* topology's id for topogeo_id.
LayerMayGo(l, feat, sch) ==
    /\ feat[l.col] # Nil => \A x \in feat[l.col] : x.layer # l.id
    /\ \A n \in Registered :
          topology[n] = l.topo /\ sch[n] # Nil =>
             \A r \in sch[n].relation : ~(r.tg = l.topo /\ r.layer = l.id)

\* Mutant of Cleaned: the relation table is not cleaned up.
SequencesOnly(x, ids) == [x EXCEPT !.tgs = [i \in DOMAIN @ \ ids |-> @[i]]]

\* Schema x without the rows and the TopoGeometry sequences of some layer ids.
Cleaned(x, ids) == [x EXCEPT !.tgs = [i \in DOMAIN @ \ ids |-> @[i]],
                             !.relation = {r \in @ : r.layer \notin ids}]

\* DropTopoGeometryColumn for the layers L of a topology.  Its SELECT over
\* topology.topology and topology.layer has no join condition: the row it ends
\* with, paired[l], may name any topology, whose relation table is cleaned up.
\* DROP SEQUENCE raises if that one has no such layer id.
SchemaAfter(L, paired) ==
    [n \in Names |-> IF schema[n] = Nil THEN Nil
                     ELSE Cleaned(schema[n], {l.id : l \in {m \in L : paired[m] = n}})]


FeatureAfter(L) == [f \in FeatCols |-> IF \E l \in L : l.col = f THEN Nil ELSE feature[f]]

CanDrop(L, paired) == \A l \in L : l.id \in DOMAIN schema[paired[l]].tgs

DropTopoGeometryColumn(f) ==
    \E l \in layer, n \in Registered :
        LET paired == [m \in {l} |-> n]
        IN  /\ l.col = f
            /\ CanDrop({l}, paired)
            /\ schema' = SchemaAfter({l}, paired)
            /\ feature' = FeatureAfter({l})
            /\ layer' = IF LayerMayGo(l, feature', schema') THEN layer \ {l} ELSE layer
            /\ UNCHANGED <<gcVars, topology, nextId>>

\* DELETE FROM topology.layer by hand: the trigger may turn it into nothing.
DeleteLayer(l) ==
    /\ LayerMayGo(l, feature, schema)
    /\ layer' = layer \ {l}
    /\ UNCHANGED <<gcVars, topology, schema, feature, nextId>>

\* DropTopology drops every layer as above, then the topology's row, which a
\* layer row left behind would refuse, and the schema with whatever is in it.
\* DROP SCHEMA CASCADE does not reach the catalogue: the rows of the topology's
\* geometry columns stay behind, as after a DROP by hand (see DropIsComplete).
DropTopology(n) ==
    LET L == {l \in layer : l.topo = topology[n]}
    IN  /\ topology[n] # Nil
        /\ \E paired \in [L -> Registered] :
              /\ CanDrop(L, paired)
              /\ \A l \in L : LayerMayGo(l, FeatureAfter(L), SchemaAfter(L, paired))
              /\ schema' = [SchemaAfter(L, paired) EXCEPT ![n] = Nil]
        /\ feature' = FeatureAfter(L)
        /\ layer' = layer \ L
        /\ topology' = [topology EXCEPT ![n] = Nil]
        /\ PlainDrop({c \in GeomColsOf(n) : column[c] # Nil})
        /\ UNCHANGED nextId

TopoStep ==
    \/ \E n \in Names :
          \/ CreateTopology(n) \/ DropTopology(n)
          \/ \E f \in FeatCols : \/ \E c \in 0..MaxLayer : AddTopoGeometryColumn(n, f, c)
                                 \/ \E x \in 1..MaxTopoGeom : CreateTopoGeom(n, f, x)
    \/ \E f \in FeatCols : DeleteFeature(f) \/ DropTopoGeometryColumn(f)
    \/ \E l \in layer : DeleteLayer(l)

Next ==
    \/ TopoStep
    \/ /\ \/ CatalogueStep
          \/ \E c \in UserCols : UserStep(c)
       /\ UNCHANGED topoVars

Spec == TopoInit /\ [][Next]_vars

-----------------------------------------------------------------------------
TypeOK ==
    /\ GCTypeOK
    /\ topology \in [Names -> (1..MaxId) \cup {Nil}]
    /\ nextId \in 0..MaxId
    /\ layer \subseteq Layer
    /\ schema \in [Names -> Schema \cup {Nil}]
    /\ feature \in [FeatCols -> (SUBSET TopoGeom) \cup {Nil}]

\* A TopoGeometry stored in a user's column belongs to a layer registered on
\* that column: no drop, by function or by hand, takes a layer from under it.
FeaturesHaveLayers ==
    \A f \in FeatCols : feature[f] # Nil =>
        \A x \in feature[f] : \E l \in layer : l.topo = x.topo /\ l.id = x.layer /\ l.col = f

\* A layer lies one level above its child, for as long as both are registered.
LevelsAscend ==
    \A l, m \in layer : l.topo = m.topo /\ l.child = m.id => l.level = m.level + 1

\* "Drop a TopoGeometry column, unregister the associated layer, cleanup the
\* relation table": of the layer's own topology.
DropCleansUp ==
    [][\A f \in FeatCols : DropTopoGeometryColumn(f) =>
          \A l \in layer : l.col = f =>
             /\ l \notin layer'
             /\ \A n \in Names : topology[n] = l.topo =>
                   \A r \in schema'[n].relation : r.layer # l.id]_vars

\* "Drops a topology schema getting rid of every dependent object": no row of
\* geometry_columns names a schema that DropTopology has dropped.  Not true:
\* the rows of its node and edge tables stay, until CreateTopology, or a
\* populate_geometry_columns, takes them away.
DropIsComplete ==
    [][\A n \in Names : DropTopology(n) => \A c \in GeomColsOf(n) : gc'[c] = Nil]_vars
=============================================================================
