-------------------------- MODULE DatabaseProofs --------------------------
(***************************************************************************)
(* Theorems about what is kept in the database and on disk:                *)
(* geometry_columns, the topology registry, a table that shp2pgsql loads,  *)
(* and the shapefiles that pgsql2shp and a caller of shpopen.c write.      *)
(***************************************************************************)
EXTENDS TopoLayers, ShapeExchange, FileClients, SequenceTheorems, FiniteSetTheorems,
        WellFoundedInduction, TLAPS

(* geometry_columns, column by column.  A row can only say what its column *)
(* enforces because every stored geometry meets the constraints there are: *)
(* this is what ADD CONSTRAINT and every INSERT check.                     *)

Enforced(c) ==
    /\ column[c] # Nil => Holds(column[c])
    /\ c \notin stale /\ gc[c] # Nil =>
          /\ column[c] # Nil /\ column[c].srid # Nil
          /\ \/ column[c].srid.srid = gc[c].srid
             \/ gc[c].fixed /\ <<gc[c].srid, column[c].srid.srid>> \in SridFound

GCInv == GCTypeOK /\ \A c \in Cols : Enforced(c)

LEMMA RegisteredFollows == GCInv => RegisteredIsEnforced
<1> SUFFICES ASSUME GCInv, NEW c \in Cols \ stale, gc[c] # Nil
             PROVE  /\ column[c] # Nil /\ column[c].srid # Nil
                    /\ \/ gc[c].srid = column[c].srid.srid
                       \/ gc[c].fixed /\ <<gc[c].srid, column[c].srid.srid>> \in SridFound
                    /\ \A g \in column[c].stored : g.srid = column[c].srid.srid
  BY DEF RegisteredIsEnforced
<1>1. Enforced(c) /\ column[c] # Nil
  BY DEF GCInv, Enforced
<1>2. \A g \in column[c].stored : Satisfies(g, column[c])
  BY <1>1 DEF Enforced, Holds
<1> QED
  BY <1>1, <1>2 DEF Enforced, Satisfies

\* A column as AddGeometryColumn makes it, with its row.
LEMMA AddedHolds ==
    ASSUME NEW srid \in Srids, NEW type \in Types \cup {"GEOMETRY"}, NEW dims \in Dims
    PROVE  LET k == AddedColumn(srid, type, dims)
               r == RowOf(srid, dims, type)
           IN  /\ k \in Column /\ k # Nil /\ Holds(k) /\ r \in Row
               /\ k.srid # Nil /\ k.srid.srid = r.srid
<1> DEFINE k == AddedColumn(srid, type, dims)
<1>1. k.srid \in SridCheck /\ k.srid.srid = srid /\ k.stored = {}
  BY DEF AddedColumn, SridCheck
<1>2. k \in Column
  <2>1. [fn |-> "st_srid", srid |-> srid] \in SridCheck
    BY DEF SridCheck
  <2>2. (IF type = "GEOMETRY" THEN Nil ELSE type) \in Types \cup {Nil}
    OBVIOUS
  <2> HIDE DEF k
  <2>3. QED
    BY <2>1, <2>2 DEF AddedColumn, Column, k
<1>3. RowOf(srid, dims, type) \in Row
  BY DEF Row, RowOf
<1>4. QED
  BY <1>1, <1>2, <1>3, NilAssumption DEF Holds, RowOf

LEMMA UserStepsEnforce ==
    ASSUME GCInv, NEW c \in Cols, UserStep(c)
    PROVE  GCInv'
<1> USE DEF GCInv, GCTypeOK
<1>1. ASSUME NEW srid \in Srids, NEW type \in Types \cup {"GEOMETRY"}, NEW dims \in Dims,
             AddGeometryColumn(c, srid, type, dims)
      PROVE  GCInv'
  <2> DEFINE k == AddedColumn(srid, type, dims)
             r == RowOf(srid, dims, type)
  <2>1. k \in Column /\ k # Nil /\ Holds(k) /\ r \in Row /\ k.srid # Nil /\ k.srid.srid = r.srid
    BY AddedHolds
  <2>2. column' = [column EXCEPT ![c] = k] /\ gc' = [gc EXCEPT ![c] = r] /\ stale' = stale \ {c}
    BY <1>1 DEF AddGeometryColumn
  <2> HIDE DEF k, r
  <2>3. GCTypeOK'
    BY <2>1, <2>2
  <2>4. ASSUME NEW d \in Cols PROVE Enforced(d)'
    BY <2>1, <2>2 DEF Enforced, Holds, Satisfies
  <2>5. QED
    BY <2>3, <2>4
<1>2. CASE DropGeometryColumn(c) \/ DropGeometryTable(c)
  <2>1. GCTypeOK'
    BY <1>2 DEF DropGeometryColumn, DropGeometryTable
  <2>2. ASSUME NEW d \in Cols PROVE Enforced(d)'
    BY <1>2 DEF DropGeometryColumn, DropGeometryTable, Enforced, Holds, Satisfies
  <2>3. QED
    BY <2>1, <2>2
<1>3. ASSUME NEW srid \in Srids, UpdateGeometrySRID(c, srid) PROVE GCInv'
  <2> DEFINE k == UpdatedColumn(column[c], srid)
  <2>1. column[c] \in Column /\ gc[c] \in Row /\ Holds(column[c])
    BY <1>3 DEF UpdateGeometrySRID, Enforced
  <2>2. /\ k.srid = [fn |-> "srid", srid |-> srid] /\ k.dims = column[c].dims
        /\ k.type = column[c].type /\ k.stored = SetSrid(column[c].stored, srid)
    BY <2>1 DEF UpdatedColumn, Column
  <2>3. SetSrid(column[c].stored, srid) \in SUBSET Geometry
    BY <2>1 DEF SetSrid, Column, Geometry
  <2>4. k \in Column /\ k.srid \in SridCheck
    BY <2>1, <2>2, <2>3 DEF UpdatedColumn, Column, SridCheck
  <2>5. Holds(k)
    <3>1. ASSUME NEW g \in column[c].stored PROVE Satisfies([g EXCEPT !.srid = srid], k)
      <4>1. g \in Geometry /\ Satisfies(g, column[c])
        BY <2>1 DEF Column, Holds
      <4>2. QED
        BY <2>2, <4>1 DEF Satisfies, Geometry
    <3>2. QED
      BY <2>2, <3>1 DEF Holds, SetSrid
  <2>6. /\ column' = [column EXCEPT ![c] = k] /\ stale' = stale
        /\ gc' = [gc EXCEPT ![c] = [gc[c] EXCEPT !.srid = srid]]
    BY <1>3 DEF UpdateGeometrySRID
  <2>7. [gc[c] EXCEPT !.srid = srid] \in Row /\ [gc[c] EXCEPT !.srid = srid].srid = srid
    BY <2>1 DEF Row
  <2>8. k # Nil /\ k.srid # Nil /\ k.srid.srid = srid
    BY <2>2, <2>4, NilAssumption
  <2> HIDE DEF k
  <2>9. GCTypeOK'
    BY <2>4, <2>6, <2>7
  <2>10. ASSUME NEW d \in Cols PROVE Enforced(d)'
    BY <2>5, <2>6, <2>7, <2>8 DEF Enforced, Holds, Satisfies
  <2>11. QED
    BY <2>9, <2>10
<1>4. ASSUME NEW g \in Geometry, Store(c, g) PROVE GCInv'
  <2> DEFINE k == [column[c] EXCEPT !.stored = column[c].stored \cup {g}]
  <2>1. column[c] \in Column /\ Holds(column[c]) /\ Satisfies(g, column[c])
    BY <1>4 DEF Store, Enforced
  <2>2. k \in Column /\ k.stored = column[c].stored \cup {g} /\ k.srid = column[c].srid
        /\ k.dims = column[c].dims /\ k.type = column[c].type
    BY <2>1 DEF Column
  <2>3. Holds(k)
    BY <2>1, <2>2 DEF Holds, Satisfies
  <2>4. column' = [column EXCEPT ![c] = k] /\ gc' = gc /\ stale' = stale /\ column[c] # Nil
    BY <1>4 DEF Store
  <2>5. k # Nil
    BY <2>2, NilAssumption
  <2> HIDE DEF k
  <2>6. GCTypeOK'
    BY <2>2, <2>4
  <2>7. ASSUME NEW d \in Cols PROVE Enforced(d)'
    BY <2>2, <2>3, <2>4, <2>5 DEF Enforced, Holds, Satisfies
  <2>8. QED
    BY <2>6, <2>7
<1>5. CASE PlainDrop({c})
  <2>1. GCTypeOK'
    BY <1>5 DEF PlainDrop
  <2>2. ASSUME NEW d \in Cols PROVE Enforced(d)'
    BY <1>5 DEF PlainDrop, Enforced, Holds, Satisfies
  <2>3. QED
    BY <2>1, <2>2
<1>6. CASE PlainAdd(c)
  <2> DEFINE k == [srid |-> Nil, dims |-> Nil, type |-> Nil, stored |-> {}]
  <2>1. k \in Column /\ Holds(k) /\ column[c] = Nil
    BY <1>6 DEF Column, Holds, PlainAdd
  <2>2. column' = [column EXCEPT ![c] = k] /\ gc' = gc /\ stale' = stale
    BY <1>6 DEF PlainAdd
  <2> HIDE DEF k
  <2>3. GCTypeOK'
    BY <2>1, <2>2
  <2>4. ASSUME NEW d \in Cols PROVE Enforced(d)'
    BY <2>1, <2>2 DEF Enforced, Holds, Satisfies
  <2>5. QED
    BY <2>3, <2>4
<1>7. CASE PlainUnregister(c)
  <2>1. GCTypeOK'
    BY <1>7 DEF PlainUnregister
  <2>2. ASSUME NEW d \in Cols PROVE Enforced(d)'
    BY <1>7 DEF PlainUnregister, Enforced, Holds, Satisfies
  <2>3. QED
    BY <2>1, <2>2
<1>8. QED
  BY <1>1, <1>2, <1>3, <1>4, <1>5, <1>6, <1>7 DEF UserStep

\* What populate_geometry_columns makes of a column keeps what its constraints
\* say true, and registers no SRID that is not the constraint's.
LEMMA PopulatedEnforces ==
    ASSUME NEW k \in Column, Holds(k), NEW p \in Populated(k)
    PROVE  /\ p.column \in Column /\ Holds(p.column) /\ p.row \in Row \cup {Nil}
           /\ p.row # Nil => p.column.srid # Nil /\ p.column.srid.srid = p.row.srid
<1>1. CASE k.stored = {}
  <2>1. p.column = k /\ p.row = (IF Known(k) THEN RowOf(k.srid.srid, k.dims, k.type)
                                 ELSE Nil)
    BY <1>1 DEF Populated
  <2>2. CASE Known(k)
    <3>1. k.srid \in SridCheck /\ k.dims \in Dims /\ k.type \in Types
      BY <2>2 DEF Known, Column
    <3>2. k.srid.srid \in Srids
      BY <3>1 DEF SridCheck
    <3>3. QED
      BY <2>1, <2>2, <3>1, <3>2, NilAssumption DEF Row, RowOf
  <2>3. QED
    BY <2>1, <2>2
<1>2. CASE k.stored # {}
  <2>1. PICK g \in k.stored :
           p = [column |-> LET s == Kept(k, WithSrid(k, g))
                               d == Kept(s, WithDims(s, g))
                           IN  Kept(d, WithType(d, g)),
                row |-> PopulatedRow(k, g)]
    BY <1>2 DEF Populated
  <2>2. g \in Geometry
    BY DEF Column
  <2>3. ASSUME NEW q \in Column
        PROVE  /\ WithSrid(q, g) \in Column /\ WithSrid(q, g).srid \in SridCheck
               /\ WithDims(q, g) \in Column /\ WithDims(q, g).srid = q.srid
               /\ WithDims(q, g).dims \in Dims
               /\ WithType(q, g) \in Column /\ WithType(q, g).srid = q.srid
               /\ WithType(q, g).type \in Types
    <3>1. q.srid \in SridCheck \cup {Nil} /\ q.dims \in Dims \cup {Nil} /\ q.type \in Types \cup {Nil}
      BY DEF Column
    <3>2. g.srid \in Srids /\ g.dims \in Dims /\ g.type \in Types
      BY <2>2 DEF Geometry
    <3>3. (IF q.srid = Nil THEN [fn |-> "srid", srid |-> g.srid] ELSE q.srid) \in SridCheck
      BY <3>1, <3>2 DEF SridCheck
    <3>4. WithSrid(q, g) \in Column /\ WithSrid(q, g).srid \in SridCheck
      BY <3>3 DEF WithSrid, Column
    <3>5. /\ WithDims(q, g) \in Column /\ WithDims(q, g).srid = q.srid
          /\ WithDims(q, g).dims \in Dims
      BY <3>1, <3>2 DEF WithDims, Column
    <3>6. /\ WithType(q, g) \in Column /\ WithType(q, g).srid = q.srid
          /\ WithType(q, g).type \in Types
      BY <3>1, <3>2 DEF WithType, Column
    <3>7. QED
      BY <3>4, <3>5, <3>6
  <2>4. ASSUME NEW q \in Column, Holds(q), NEW new \in Column
        PROVE  Kept(q, new) \in Column /\ Holds(Kept(q, new)) /\ Kept(q, new) \in {q, new}
    BY <2>4 DEF Kept
  <2> DEFINE s == Kept(k, WithSrid(k, g))
             d == Kept(s, WithDims(s, g))
             e == Kept(d, WithType(d, g))
  <2>5. s \in Column /\ Holds(s)
    BY <2>3, <2>4
  <2>6. d \in Column /\ Holds(d) /\ d.srid = s.srid
    <3> HIDE DEF s
    <3>1. QED
      BY <2>3, <2>4, <2>5
  <2>7. e \in Column /\ Holds(e) /\ e.srid = s.srid
    <3> HIDE DEF d, s
    <3>1. QED
      BY <2>3, <2>4, <2>6
  <2>8. p.column = e /\ p.row = PopulatedRow(k, g)
    BY <2>1
  <2>9. CASE PopulatedRow(k, g) # Nil
    <3>1. /\ Holds(WithSrid(k, g))
          /\ PopulatedRow(k, g) = RowOf(WithSrid(k, g).srid.srid, WithDims(k, g).dims, WithType(k, g).type)
      BY <2>9 DEF PopulatedRow
    <3>2. s = WithSrid(k, g)
      BY <3>1 DEF Kept
    <3>3. WithSrid(k, g).srid \in SridCheck /\ WithSrid(k, g).srid.srid \in Srids
      BY <2>3 DEF SridCheck
    <3>4. PopulatedRow(k, g) \in Row
      BY <2>3, <3>1, <3>3 DEF Row, RowOf
    <3>5. p.row.srid = s.srid.srid /\ s.srid # Nil
      BY <2>8, <3>1, <3>2, <3>3, NilAssumption DEF RowOf
    <3> HIDE DEF s, d, e
    <3>6. QED
      BY <2>7, <2>8, <3>4, <3>5
  <2> HIDE DEF s, d, e
  <2>10. QED
    BY <2>7, <2>8, <2>9
<1>3. QED
  BY <1>1, <1>2

LEMMA CatalogueStepsEnforce ==
    ASSUME GCInv, CatalogueStep
    PROVE  GCInv'
<1> USE DEF GCInv, GCTypeOK
<1>1. CASE PopulateGeometryColumns
  <2>1. PICK done \in [Existing -> UNION {Populated(column[c]) : c \in Existing}] :
           /\ \A c \in Existing : done[c] \in Populated(column[c])
           /\ column' = [c \in Cols |-> IF c \in Existing THEN done[c].column ELSE Nil]
           /\ gc' = [c \in Cols |-> IF c \in Existing THEN done[c].row ELSE Nil]
           /\ stale' = {}
    BY <1>1 DEF PopulateGeometryColumns
  <2>2. ASSUME NEW c \in Existing
        PROVE  /\ done[c].column \in Column /\ Holds(done[c].column) /\ done[c].row \in Row \cup {Nil}
               /\ done[c].row # Nil =>
                     /\ done[c].column.srid # Nil
                     /\ done[c].column.srid.srid = done[c].row.srid
    <3>1. column[c] \in Column /\ Holds(column[c])
      BY DEF Existing, Enforced
    <3>2. QED
      BY <2>1, <3>1, PopulatedEnforces
  <2>3. GCTypeOK'
    BY <2>1, <2>2
  <2>4. ASSUME NEW c \in Cols PROVE Enforced(c)'
    BY <2>1, <2>2, <2>4, NilAssumption DEF Enforced, Holds, Satisfies
  <2>5. QED
    BY <2>3, <2>4
<1>2. CASE ProbeGeometryColumns
  <2>1. /\ gc' = [c \in Cols |-> IF c \in Probed
                                 THEN RowOf(column[c].srid.srid, 2, column[c].type)
                                 ELSE gc[c]]
        /\ column' = column /\ stale' = stale
    BY <1>2 DEF ProbeGeometryColumns
  <2>2. ASSUME NEW c \in Probed
        PROVE  RowOf(column[c].srid.srid, 2, column[c].type) \in Row
    <3>1. column[c] \in Column /\ column[c].srid # Nil /\ column[c].type # Nil
      BY DEF Probed, Existing
    <3>2. column[c].srid.srid \in Srids /\ column[c].type \in Types
      BY <3>1 DEF Column, SridCheck
    <3>3. QED
      BY <3>2 DEF Row, RowOf, Dims
  <2>3. GCTypeOK'
    BY <2>1, <2>2
  <2>4. ASSUME NEW c \in Cols PROVE Enforced(c)'
    <3>1. CASE c \in Probed
      BY <2>1, <3>1 DEF Enforced, Holds, Satisfies, Probed, Existing, RowOf
    <3>2. CASE c \notin Probed
      BY <2>1, <3>2 DEF Enforced, Holds, Satisfies
    <3>3. QED
      BY <3>1, <3>2
  <2>5. QED
    BY <2>3, <2>4
<1>3. CASE FixGeometryColumns
  <2>1. PICK move \in [{c \in Cols : \E d \in Cols : Fixable(c, d)} -> Cols] :
           /\ \A c \in DOMAIN move : Fixable(c, move[c])
           /\ \A c, e \in DOMAIN move : move[c] = move[e] => c = e
           /\ gc' = [d \in Cols |-> IF d \in DOMAIN move THEN Nil
                                  ELSE IF \E c \in DOMAIN move : move[c] = d
                                  THEN [gc[CHOOSE c \in DOMAIN move : move[c] = d]
                                           EXCEPT !.fixed = TRUE]
                                  ELSE gc[d]]
           /\ stale' = stale \ DOMAIN move
           /\ column' = column
    BY <1>3 DEF FixGeometryColumns
  <2>2. DOMAIN move \subseteq Cols
    OBVIOUS
  <2>3. ASSUME NEW d \in Cols
        PROVE  gc'[d] \in Row \cup {Nil} /\ Enforced(d)'
    <3>1. CASE d \in DOMAIN move
      BY <2>1, <3>1 DEF Enforced, Holds, Satisfies
    <3>2. ASSUME d \notin DOMAIN move, NEW e \in DOMAIN move, move[e] = d
          PROVE  gc'[d] \in Row \cup {Nil} /\ Enforced(d)'
      <4> DEFINE c == CHOOSE x \in DOMAIN move : move[x] = d
      <4>1. c \in DOMAIN move /\ move[c] = d
        BY <3>2
      <4>2. gc'[d] = [gc[c] EXCEPT !.fixed = TRUE]
        BY <2>1, <3>2
      <4> HIDE DEF c
      <4>3. Fixable(c, d) /\ c \in Cols
        BY <2>1, <2>2, <4>1
      <4>4. column' = column /\ column[d] # Nil /\ gc[c] \in Row
        BY <2>1, <4>3 DEF Fixable, Existing
      <4>5. column[d].srid # Nil /\ <<gc[c].srid, column[d].srid.srid>> \in SridFound
        BY <4>3 DEF Fixable
      <4>6. gc'[d] \in Row /\ gc'[d].srid = gc[c].srid /\ gc'[d].fixed
        BY <4>2, <4>4 DEF Row
      <4>7. Enforced(d)'
        BY <4>4, <4>5, <4>6 DEF Enforced, Holds, Satisfies
      <4>8. QED
        BY <4>6, <4>7
    <3>3. CASE d \notin DOMAIN move /\ ~(\E c \in DOMAIN move : move[c] = d)
      BY <2>1, <3>3 DEF Enforced, Holds, Satisfies
    <3>4. QED
      BY <3>1, <3>2, <3>3
  <2>4. gc' \in [Cols -> Row \cup {Nil}]
    BY <2>1, <2>3
  <2>5. QED
    BY <2>1, <2>3, <2>4
<1>4. QED
  BY <1>1, <1>2, <1>3 DEF CatalogueStep

-----------------------------------------------------------------------------
(* The registry of topologies. *)

LEMMA TopoStepsEnforce ==
    ASSUME GCInv, TopoStep
    PROVE  GCInv'
<1> USE DEF GCInv, GCTypeOK
<1>1. ASSUME NEW n \in Names, CreateTopology(n) PROVE GCInv'
  <2> DEFINE k(c) == AddedColumn(TopoSrid, TopoType(c), 2)
             r(c) == RowOf(TopoSrid, 2, TopoType(c))
  <2>1. ASSUME NEW c \in GeomColsOf(n)
        PROVE  /\ k(c) \in Column /\ k(c) # Nil /\ Holds(k(c)) /\ r(c) \in Row
               /\ k(c).srid # Nil /\ k(c).srid.srid = r(c).srid
    <3>1. TopoSrid \in Srids /\ TopoType(c) \in Types /\ 2 \in Dims
      BY ColsAssumption DEF Dims
    <3>2. QED
      BY <3>1, AddedHolds
  <2>2. /\ column' = [c \in Cols |-> IF c \in GeomColsOf(n) THEN k(c) ELSE column[c]]
        /\ gc' = [c \in Cols |-> IF c \in GeomColsOf(n) THEN r(c) ELSE gc[c]]
        /\ stale' = stale \ GeomColsOf(n)
    BY <1>1 DEF CreateTopology
  <2> HIDE DEF k, r
  <2>3. GCTypeOK'
    BY <2>1, <2>2
  <2>4. ASSUME NEW d \in Cols PROVE Enforced(d)'
    BY <2>1, <2>2 DEF Enforced, Holds, Satisfies
  <2>5. QED
    BY <2>3, <2>4
<1>2. ASSUME NEW n \in Names, DropTopology(n) PROVE GCInv'
  <2>1. PICK C \in SUBSET Cols : PlainDrop(C)
    BY <1>2 DEF DropTopology, GeomColsOf
  <2>2. GCTypeOK'
    BY <2>1 DEF PlainDrop
  <2>3. ASSUME NEW d \in Cols PROVE Enforced(d)'
    BY <2>1 DEF PlainDrop, Enforced, Holds, Satisfies
  <2>4. QED
    BY <2>2, <2>3
<1>3. ASSUME UNCHANGED gcVars PROVE GCInv'
  BY <1>3 DEF gcVars, Enforced, Holds, Satisfies
<1>4. ASSUME NEW n \in Names, NEW f \in FeatCols, NEW x,
             AddTopoGeometryColumn(n, f, x) \/ CreateTopoGeom(n, f, x)
      PROVE  UNCHANGED gcVars
  BY <1>4 DEF AddTopoGeometryColumn, CreateTopoGeom
<1>5. ASSUME NEW f \in FeatCols, DeleteFeature(f) \/ DropTopoGeometryColumn(f) PROVE UNCHANGED gcVars
  BY <1>5 DEF DeleteFeature, DropTopoGeometryColumn
<1>6. ASSUME NEW l \in layer, DeleteLayer(l) PROVE UNCHANGED gcVars
  BY <1>6 DEF DeleteLayer
<1>7. QED
  BY <1>1, <1>2, <1>3, <1>4, <1>5, <1>6 DEF TopoStep

LEMMA CatalogueInvariant == Spec => []GCInv
<1>1. TopoInit => GCInv
  BY DEF TopoInit, GCInit, GCInv, GCTypeOK, Enforced
<1>2. GCInv /\ [Next]_vars => GCInv'
  <2> SUFFICES ASSUME GCInv, [Next]_vars PROVE GCInv'
    OBVIOUS
  <2>1. CASE TopoStep
    BY <2>1, TopoStepsEnforce
  <2>2. CASE CatalogueStep
    BY <2>2, CatalogueStepsEnforce
  <2>3. ASSUME NEW c \in UserCols, UserStep(c) PROVE GCInv'
    BY <2>3, ColsAssumption, UserStepsEnforce
  <2>4. CASE UNCHANGED vars
    BY <2>4 DEF vars, gcVars, GCInv, GCTypeOK, Enforced, Holds, Satisfies
  <2>5. QED
    BY <2>1, <2>2, <2>3, <2>4 DEF Next
<1>3. QED
  BY <1>1, <1>2, PTL DEF Spec

\* What geometry_columns registers of a column is enforced by its constraints,
\* whichever function wrote the row, unless a DROP left the row behind; but a
\* row that fix_geometry_columns moved may register an SRID whose digits only
\* begin the enforced one's.
THEOREM RegistrationEnforced == Spec => []RegisteredIsEnforced
BY CatalogueInvariant, RegisteredFollows, PTL

-----------------------------------------------------------------------------
(* Layers: a column belongs to one of them, and a topology that is         *)
(* registered has its schema.                                              *)

LayerTypes ==
    /\ topology \in [Names -> (1..MaxId) \cup {Nil}]
    /\ nextId \in 0..MaxId
    /\ layer \subseteq Layer
    /\ schema \in [Names -> Schema \cup {Nil}]
    /\ feature \in [FeatCols -> (SUBSET TopoGeom) \cup {Nil}]

SchemasExist == \A n \in Names : topology[n] # Nil => schema[n] # Nil

OneLayerPerColumn == \A l, m \in layer : l.col = m.col => l = m

LayerInv ==
    /\ SchemasExist
    /\ OneLayerPerColumn
    /\ FeaturesHaveLayers

TgsOf(S) == UNION {[T -> 0..MaxTopoGeom] : T \in SUBSET S}

LEMMA SequencesTyped ==
    ASSUME NEW t \in TgsOf(1..MaxLayer), NEW id \in 1..MaxLayer, NEW v \in 0..MaxTopoGeom
    PROVE  /\ [i \in DOMAIN t \cup {id} |-> IF i = id THEN v ELSE t[i]] \in TgsOf(1..MaxLayer)
           /\ [t EXCEPT ![id] = v] \in TgsOf(1..MaxLayer)
           /\ DOMAIN t \subseteq 1..MaxLayer /\ \A i \in DOMAIN t : t[i] \in 0..MaxTopoGeom
<1> DEFINE u == [i \in DOMAIN t \cup {id} |-> IF i = id THEN v ELSE t[i]]
<1>1. PICK S \in SUBSET (1..MaxLayer) : t \in [S -> 0..MaxTopoGeom]
  BY DEF TgsOf
<1>2. DOMAIN t = S /\ \A i \in S : t[i] \in 0..MaxTopoGeom
  BY <1>1
<1>3. S \cup {id} \in SUBSET (1..MaxLayer)
  OBVIOUS
<1>4. u \in [S \cup {id} -> 0..MaxTopoGeom]
  BY <1>2
<1>5. [t EXCEPT ![id] = v] \in [S -> 0..MaxTopoGeom]
  BY <1>1
<1> HIDE DEF u
<1>6. u \in TgsOf(1..MaxLayer)
  BY <1>3, <1>4 DEF TgsOf
<1>7. [t EXCEPT ![id] = v] \in TgsOf(1..MaxLayer)
  BY <1>5 DEF TgsOf
<1>8. QED
  BY <1>2, <1>6, <1>7 DEF u

LEMMA CleanedTyped ==
    ASSUME NEW x \in Schema, NEW ids
    PROVE  Cleaned(x, ids) \in Schema
<1>1. PICK S \in SUBSET (1..MaxLayer) : x.tgs \in [S -> 0..MaxTopoGeom]
  BY DEF Schema
<1> DEFINE t == [i \in DOMAIN x.tgs \ ids |-> x.tgs[i]]
           r == {q \in x.relation : q.layer \notin ids}
<1>2. t \in [S \ ids -> 0..MaxTopoGeom] /\ S \ ids \in SUBSET (1..MaxLayer)
  BY <1>1
<1>3. t \in UNION {[T -> 0..MaxTopoGeom] : T \in SUBSET (1..MaxLayer)}
  BY <1>2
<1>4. r \in SUBSET Relation
  BY DEF Schema
<1>5. Cleaned(x, ids) = [[x EXCEPT !.tgs = t] EXCEPT !.relation = r]
  BY DEF Cleaned, Schema
<1> HIDE DEF t, r
<1>6. QED
  BY <1>3, <1>4, <1>5 DEF Schema

LEMMA SchemaAfterTyped ==
    ASSUME LayerTypes, NEW L, NEW paired
    PROVE  /\ SchemaAfter(L, paired) \in [Names -> Schema \cup {Nil}]
           /\ \A n \in Names : schema[n] # Nil => SchemaAfter(L, paired)[n] # Nil
<1>1. ASSUME NEW n \in Names, schema[n] # Nil
      PROVE  /\ SchemaAfter(L, paired)[n] \in Schema
             /\ SchemaAfter(L, paired)[n] = Cleaned(schema[n], {l.id : l \in {m \in L : paired[m] = n}})
  <2>1. schema[n] \in Schema
    BY <1>1 DEF LayerTypes
  <2>2. QED
    BY <1>1, <2>1, CleanedTyped DEF SchemaAfter
<1>2. ASSUME NEW n \in Names, schema[n] = Nil PROVE SchemaAfter(L, paired)[n] = Nil
  BY <1>2 DEF SchemaAfter
<1>3. SchemaAfter(L, paired) = [n \in Names |-> SchemaAfter(L, paired)[n]]
  BY DEF SchemaAfter
<1>4. QED
  BY <1>1, <1>2, <1>3, NoneAssumption

LEMMA LayerTypesStep ==
    ASSUME LayerTypes, LayerInv, TopoStep
    PROVE  LayerTypes' /\ SchemasExist'
<1> USE DEF LayerTypes, SchemasExist
<1>0. SchemasExist
  BY DEF LayerInv
<1>1. ASSUME NEW n \in Names, CreateTopology(n) PROVE LayerTypes' /\ SchemasExist'
  <2>1. NewSchema \in Schema
    <3>1. [l \in {} |-> 0] \in [{} -> 0..MaxTopoGeom] /\ {} \in SUBSET (1..MaxLayer)
      OBVIOUS
    <3>2. [l \in {} |-> 0] \in UNION {[S -> 0..MaxTopoGeom] : S \in SUBSET (1..MaxLayer)}
      BY <3>1
    <3>3. 0 \in 0..MaxLayer
      BY BoundsAssumption
    <3>4. QED
      BY <3>2, <3>3 DEF NewSchema, Schema
  <2>2. nextId' \in 1..MaxId
    BY <1>1, BoundsAssumption DEF CreateTopology
  <2>3. QED
    BY <1>0, <1>1, <2>1, <2>2, NoneAssumption DEF CreateTopology
<1>2. ASSUME NEW n \in Names, NEW f \in FeatCols, NEW child \in 0..MaxLayer,
             AddTopoGeometryColumn(n, f, child)
      PROVE  LayerTypes' /\ SchemasExist'
  <2> DEFINE id == schema[n].layers + 1
  <2>1. schema[n] \in Schema /\ topology[n] \in 1..MaxId /\ id \in 1..MaxLayer
    <3>1. schema[n] \in Schema /\ topology[n] \in 1..MaxId /\ id <= MaxLayer
      BY <1>2 DEF AddTopoGeometryColumn, Registered
    <3>2. schema[n].layers \in 0..MaxLayer
      BY <3>1 DEF Schema
    <3>3. QED
      BY <3>1, <3>2, BoundsAssumption
  <2>2. Levels(child) \subseteq Nat
    BY DEF Levels, Layer
  <2>3. layer' \subseteq Layer
    <3>1. PICK v \in Levels(child) :
             layer' = layer \cup {[topo |-> topology[n], id |-> id, col |-> f, level |-> v, child |-> child]}
      BY <1>2 DEF AddTopoGeometryColumn
    <3>2. [topo |-> topology[n], id |-> id, col |-> f, level |-> v, child |-> child] \in Layer
      BY <2>1, <2>2 DEF Layer
    <3>3. QED
      BY <3>1, <3>2
  <2> DEFINE t == [i \in DOMAIN schema[n].tgs \cup {id} |-> IF i = id THEN 0 ELSE schema[n].tgs[i]]
  <2>4. schema' = [schema EXCEPT ![n] = [schema[n] EXCEPT !.layers = id, !.tgs = t]]
    BY <1>2, <2>1 DEF AddTopoGeometryColumn, Schema
  <2>5. t \in UNION {[S -> 0..MaxTopoGeom] : S \in SUBSET (1..MaxLayer)}
    <3>1. schema[n].tgs \in TgsOf(1..MaxLayer) /\ 0 \in 0..MaxTopoGeom
      BY <2>1, BoundsAssumption DEF Schema, TgsOf
    <3>2. id \in 1..MaxLayer
      BY <2>1
    <3> HIDE DEF id
    <3>3. t \in TgsOf(1..MaxLayer)
      BY <3>1, <3>2, SequencesTyped
    <3> HIDE DEF t
    <3>4. QED
      BY <3>3 DEF TgsOf
  <2>6. [schema[n] EXCEPT !.layers = id, !.tgs = t] \in Schema
    <3>1. id \in 0..MaxLayer
      BY <2>1, BoundsAssumption
    <3> HIDE DEF id, t
    <3>2. QED
      BY <2>1, <2>5, <3>1 DEF Schema
  <2> HIDE DEF id, t
  <2>7. schema' \in [Names -> Schema \cup {Nil}] /\ \A m \in Names : schema[m] # Nil => schema'[m] # Nil
    BY <2>4, <2>6, NoneAssumption DEF t
  <2>8. feature' \in [FeatCols -> (SUBSET TopoGeom) \cup {Nil}] /\ topology' = topology /\ nextId' = nextId
    BY <1>2 DEF AddTopoGeometryColumn
  <2>9. QED
    BY <1>0, <2>3, <2>7, <2>8
<1>3. ASSUME NEW n \in Names, NEW f \in FeatCols, NEW elem \in 1..MaxTopoGeom, CreateTopoGeom(n, f, elem)
      PROVE  LayerTypes' /\ SchemasExist'
  <2>1. PICK l \in layer :
           /\ n \in Registered /\ l.topo = topology[n] /\ l.col = f /\ feature[f] # Nil
           /\ l.id \in DOMAIN schema[n].tgs /\ schema[n].tgs[l.id] + 1 <= MaxTopoGeom
           /\ schema' = [schema EXCEPT
                 ![n] = [schema[n] EXCEPT
                    !.tgs = [schema[n].tgs EXCEPT ![l.id] = schema[n].tgs[l.id] + 1],
                    !.relation = schema[n].relation \cup
                       {[layer |-> l.id, tg |-> schema[n].tgs[l.id] + 1, elem |-> elem]}]]
           /\ feature' = [feature EXCEPT ![f] =
                 feature[f] \cup {[topo |-> l.topo, layer |-> l.id, id |-> schema[n].tgs[l.id] + 1]}]
           /\ UNCHANGED <<gcVars, topology, layer, nextId>>
    BY <1>3 DEF CreateTopoGeom
  <2>2. l \in Layer /\ l.id \in 1..MaxLayer /\ l.topo \in 1..MaxId
    BY DEF Layer
  <2>3. CASE schema[n] \in Schema
    <3> DEFINE tg == schema[n].tgs[l.id] + 1
               t  == [schema[n].tgs EXCEPT ![l.id] = tg]
    <3>1. schema[n].tgs \in TgsOf(1..MaxLayer) /\ 0 \in 0..MaxTopoGeom
      BY <2>3, BoundsAssumption DEF Schema, TgsOf
    <3>2. tg \in 1..MaxTopoGeom
      <4>1. schema[n].tgs[l.id] \in 0..MaxTopoGeom
        BY <2>1, <2>2, <3>1, SequencesTyped
      <4>2. QED
        BY <2>1, <4>1, BoundsAssumption
    <3>3. t \in UNION {[T -> 0..MaxTopoGeom] : T \in SUBSET (1..MaxLayer)}
      <4>1. tg \in 0..MaxTopoGeom
        BY <3>2
      <4> HIDE DEF tg
      <4>2. QED
        BY <2>2, <3>1, <4>1, SequencesTyped DEF TgsOf
    <3>4. [layer |-> l.id, tg |-> tg, elem |-> elem] \in Relation
      BY <2>2, <3>2 DEF Relation
    <3>5. [topo |-> l.topo, layer |-> l.id, id |-> tg] \in TopoGeom
      BY <2>2, <3>2 DEF TopoGeom
    <3>6. schema' = [schema EXCEPT ![n] = [schema[n] EXCEPT !.tgs = t, !.relation =
                       schema[n].relation \cup {[layer |-> l.id, tg |-> tg, elem |-> elem]}]]
      BY <2>1
    <3>7. feature' = [feature EXCEPT ![f] = feature[f] \cup {[topo |-> l.topo, layer |-> l.id, id |-> tg]}]
      BY <2>1
    <3> HIDE DEF t, tg
    <3>8. [schema[n] EXCEPT !.tgs = t, !.relation =
              schema[n].relation \cup {[layer |-> l.id, tg |-> tg, elem |-> elem]}] \in Schema
      BY <2>3, <3>3, <3>4 DEF Schema
    <3>9. feature[f] \in SUBSET TopoGeom
      BY <2>1
    <3>10. schema' \in [Names -> Schema \cup {Nil}] /\ \A m \in Names : schema[m] # Nil => schema'[m] # Nil
      BY <3>6, <3>8, NoneAssumption
    <3>11. feature' \in [FeatCols -> (SUBSET TopoGeom) \cup {Nil}]
      BY <3>5, <3>7, <3>9
    <3>12. QED
      BY <1>0, <2>1, <3>10, <3>11
  <2>4. schema[n] # Nil
    BY <1>0, <2>1 DEF Registered
  <2>5. QED
    BY <2>3, <2>4
<1>4. ASSUME NEW f \in FeatCols, DeleteFeature(f) PROVE LayerTypes' /\ SchemasExist'
  BY <1>0, <1>4 DEF DeleteFeature
<1>5. ASSUME NEW L PROVE FeatureAfter(L) \in [FeatCols -> (SUBSET TopoGeom) \cup {Nil}]
  BY DEF FeatureAfter
<1>6. ASSUME NEW f \in FeatCols, DropTopoGeometryColumn(f) PROVE LayerTypes' /\ SchemasExist'
  <2>1. PICK l \in layer, n \in Registered :
           /\ schema' = SchemaAfter({l}, [m \in {l} |-> n])
           /\ feature' = FeatureAfter({l})
           /\ layer' \subseteq layer /\ UNCHANGED <<topology, nextId>>
    BY <1>6 DEF DropTopoGeometryColumn
  <2>2. QED
    BY <1>0, <1>5, <2>1, SchemaAfterTyped
<1>7. ASSUME NEW l \in layer, DeleteLayer(l) PROVE LayerTypes' /\ SchemasExist'
  BY <1>0, <1>7 DEF DeleteLayer
<1>8. ASSUME NEW n \in Names, DropTopology(n) PROVE LayerTypes' /\ SchemasExist'
  <2>1. PICK L, paired :
           /\ schema' = [SchemaAfter(L, paired) EXCEPT ![n] = Nil]
           /\ feature' = FeatureAfter(L)
           /\ layer' \subseteq layer /\ nextId' = nextId
           /\ topology' = [topology EXCEPT ![n] = Nil]
    BY <1>8 DEF DropTopology
  <2>2. QED
    BY <1>0, <1>5, <2>1, SchemaAfterTyped
<1>9. QED
  BY <1>1, <1>2, <1>3, <1>4, <1>6, <1>7, <1>8 DEF TopoStep

\* What a column holds keeps the layer it belongs to.
LEMMA FeaturesStep ==
    ASSUME LayerTypes, LayerInv, TopoStep
    PROVE  FeaturesHaveLayers'
<1> USE DEF LayerTypes
<1>0. /\ FeaturesHaveLayers
      /\ \A f \in FeatCols : feature[f] # Nil =>
            \A x \in feature[f] : \E l \in layer : l.topo = x.topo /\ l.id = x.layer /\ l.col = f
  BY DEF LayerInv, FeaturesHaveLayers
<1>1. ASSUME NEW n \in Names, CreateTopology(n) PROVE FeaturesHaveLayers'
  BY <1>0, <1>1 DEF CreateTopology, FeaturesHaveLayers
<1>2. ASSUME NEW n \in Names, NEW f \in FeatCols, NEW child, AddTopoGeometryColumn(n, f, child)
      PROVE  FeaturesHaveLayers'
  <2>1. layer \subseteq layer' /\ feature' = [feature EXCEPT ![f] = {}]
    BY <1>2 DEF AddTopoGeometryColumn
  <2>2. QED
    BY <1>0, <2>1 DEF FeaturesHaveLayers
<1>3. ASSUME NEW n \in Names, NEW f \in FeatCols, NEW elem, CreateTopoGeom(n, f, elem)
      PROVE  FeaturesHaveLayers'
  <2> DEFINE x(l) == [topo |-> l.topo, layer |-> l.id, id |-> schema[n].tgs[l.id] + 1]
  <2>1. PICK l \in layer :
           /\ l.col = f /\ feature[f] # Nil /\ layer' = layer
           /\ feature' = [feature EXCEPT ![f] = feature[f] \cup {x(l)}]
    BY <1>3 DEF CreateTopoGeom
  <2>2. x(l).topo = l.topo /\ x(l).layer = l.id
    OBVIOUS
  <2> HIDE DEF x
  <2>3. QED
    BY <1>0, <2>1, <2>2 DEF FeaturesHaveLayers
<1>4. ASSUME NEW f \in FeatCols, DeleteFeature(f) PROVE FeaturesHaveLayers'
  <2>1. PICK x : feature' = [feature EXCEPT ![f] = feature[f] \ {x}] /\ feature[f] # Nil /\ layer' = layer
    BY <1>4 DEF DeleteFeature
  <2>2. QED
    BY <1>0, <2>1 DEF FeaturesHaveLayers
<1>5. ASSUME NEW L \in SUBSET layer, feature' = FeatureAfter(L), layer \ L \subseteq layer'
      PROVE  FeaturesHaveLayers'
  <2>1. ASSUME NEW f \in FeatCols, feature'[f] # Nil, NEW x \in feature'[f]
        PROVE  \E l \in layer' : l.topo = x.topo /\ l.id = x.layer /\ l.col = f
    <3>1. feature[f] = feature'[f] /\ \A l \in L : l.col # f
      BY <1>5, <2>1 DEF FeatureAfter
    <3>2. QED
      BY <1>0, <1>5, <2>1, <3>1
  <2>2. QED
    BY <2>1 DEF FeaturesHaveLayers
<1>6. ASSUME NEW f \in FeatCols, DropTopoGeometryColumn(f) PROVE FeaturesHaveLayers'
  <2>1. PICK l \in layer : feature' = FeatureAfter({l}) /\ layer \ {l} \subseteq layer'
    BY <1>6 DEF DropTopoGeometryColumn
  <2>2. QED
    BY <1>5, <2>1
<1>7. ASSUME NEW l \in layer, DeleteLayer(l) PROVE FeaturesHaveLayers'
  <2>1. /\ layer' = layer \ {l} /\ feature' = feature
        /\ feature[l.col] # Nil => \A x \in feature[l.col] : x.layer # l.id
    BY <1>7 DEF DeleteLayer, LayerMayGo
  <2>2. QED
    BY <1>0, <2>1 DEF FeaturesHaveLayers
<1>8. ASSUME NEW n \in Names, DropTopology(n) PROVE FeaturesHaveLayers'
  <2>1. PICK L \in SUBSET layer : feature' = FeatureAfter(L) /\ layer' = layer \ L
    BY <1>8 DEF DropTopology
  <2>2. QED
    BY <1>5, <2>1
<1>9. QED
  BY <1>1, <1>2, <1>3, <1>4, <1>6, <1>7, <1>8 DEF TopoStep

LEMMA OneLayerStep ==
    ASSUME OneLayerPerColumn, TopoStep
    PROVE  OneLayerPerColumn'
<1>1. ASSUME NEW n \in Names, NEW f \in FeatCols, NEW child, AddTopoGeometryColumn(n, f, child)
      PROVE  OneLayerPerColumn'
  <2> DEFINE k(v) == [topo |-> topology[n], id |-> schema[n].layers + 1, col |-> f,
                      level |-> v, child |-> child]
  <2>1. PICK v : layer' = layer \cup {k(v)}
    BY <1>1 DEF AddTopoGeometryColumn
  <2>2. k(v).col = f /\ \A l \in layer : l.col # f
    BY <1>1 DEF AddTopoGeometryColumn
  <2> HIDE DEF k
  <2>3. QED
    BY <2>1, <2>2 DEF OneLayerPerColumn
<1>2. ASSUME layer' \subseteq layer PROVE OneLayerPerColumn'
  BY <1>2 DEF OneLayerPerColumn
<1>3. ASSUME NEW n \in Names, CreateTopology(n) \/ DropTopology(n) PROVE layer' \subseteq layer
  BY <1>3 DEF CreateTopology, DropTopology
<1>4. ASSUME NEW n \in Names, NEW f \in FeatCols, NEW x, CreateTopoGeom(n, f, x) PROVE layer' \subseteq layer
  BY <1>4 DEF CreateTopoGeom
<1>5. ASSUME NEW f \in FeatCols, DeleteFeature(f) \/ DropTopoGeometryColumn(f) PROVE layer' \subseteq layer
  BY <1>5 DEF DeleteFeature, DropTopoGeometryColumn
<1>6. ASSUME NEW l \in layer, DeleteLayer(l) PROVE layer' \subseteq layer
  BY <1>6 DEF DeleteLayer
<1>7. QED
  BY <1>1, <1>2, <1>3, <1>4, <1>5, <1>6 DEF TopoStep

LayersInv == LayerTypes /\ LayerInv

LEMMA LayersInvariant == Spec => []LayersInv
<1> USE DEF LayersInv, LayerInv
<1>1. TopoInit => LayersInv
  BY BoundsAssumption DEF TopoInit, LayerTypes, SchemasExist, FeaturesHaveLayers, OneLayerPerColumn
<1>2. LayersInv /\ [Next]_vars => LayersInv'
  <2> SUFFICES ASSUME LayersInv, [Next]_vars PROVE LayersInv'
    OBVIOUS
  <2>1. CASE TopoStep
    BY <2>1, LayerTypesStep, FeaturesStep, OneLayerStep
  <2>2. CASE UNCHANGED topoVars
    BY <2>2 DEF topoVars, LayerTypes, SchemasExist, FeaturesHaveLayers, OneLayerPerColumn
  <2>3. QED
    BY <2>1, <2>2 DEF Next, vars
<1>3. QED
  BY <1>1, <1>2, PTL DEF Spec

\* Type correctness of the catalogue and the registry, whatever the bounds.
THEOREM DatabaseTypesCorrect == Spec => []TypeOK
<1>1. GCInv /\ LayersInv => TypeOK
  BY DEF GCInv, LayersInv, LayerTypes, TypeOK
<1>2. QED
  BY <1>1, CatalogueInvariant, LayersInvariant, PTL

\* A TopoGeometry in a user's column has its layer: however columns, layers and
\* topologies are created, dropped by function or deleted by hand.
THEOREM FeaturesKeepTheirLayers == Spec => []FeaturesHaveLayers
<1>1. LayersInv => FeaturesHaveLayers
  BY DEF LayersInv, LayerInv
<1>2. QED
  BY <1>1, LayersInvariant, PTL

\* In a database of one topology DropTopoGeometryColumn unregisters the layer of
\* its column and cleans up the relation table.  (With two its join pairs the
\* layer with either.)  The layer of a column is one, and so is the topology
\* whose table is cleaned up; LayerTrigger, which looks at the tables as the
\* function leaves them, finds nothing to hold the layer's row back.
THEOREM OneTopologyDropsClean ==
    ASSUME \A m, n \in Names : m = n
    PROVE  Spec => DropCleansUp
<1> DEFINE A == \A f \in FeatCols : DropTopoGeometryColumn(f) =>
                  \A l \in layer : l.col = f =>
                     /\ l \notin layer'
                     /\ \A n \in Names : topology[n] = l.topo =>
                           \A r \in schema'[n].relation : r.layer # l.id
<1>1. ASSUME LayersInv, NEW f \in FeatCols, DropTopoGeometryColumn(f), NEW l \in layer, l.col = f
      PROVE  /\ l \notin layer'
             /\ \A n \in Names : topology[n] = l.topo => \A r \in schema'[n].relation : r.layer # l.id
  <2>1. PICK k \in layer, n \in Registered :
           /\ k.col = f
           /\ schema' = SchemaAfter({k}, [m \in {k} |-> n])
           /\ feature' = FeatureAfter({k})
           /\ layer' = IF LayerMayGo(k, feature', schema') THEN layer \ {k} ELSE layer
    BY <1>1 DEF DropTopoGeometryColumn
  <2>2. k = l
    BY <1>1, <2>1 DEF LayersInv, LayerInv, OneLayerPerColumn
  <2>3. ASSUME NEW m \in Names, topology[m] = l.topo
        PROVE  \A r \in schema'[m].relation : r.layer # l.id
    <3>1. topology[m] # Nil
      BY <1>1, <2>3, NoneAssumption DEF LayersInv, LayerTypes, Layer
    <3>2. m = n /\ n \in Names /\ schema[m] \in Schema
      BY <1>1, <2>1, <3>1 DEF Registered, LayersInv, LayerTypes, LayerInv, SchemasExist
    <3> DEFINE ids == {q.id : q \in {p \in {l} : [x \in {l} |-> n][p] = m}}
    <3>3. l.id \in ids
      BY <3>2
    <3>4. schema'[m] = Cleaned(schema[m], ids)
      BY <2>1, <2>2, <3>2, NoneAssumption DEF SchemaAfter
    <3> HIDE DEF ids
    <3>5. schema'[m].relation = {r \in schema[m].relation : r.layer \notin ids}
      BY <3>2, <3>4 DEF Cleaned, Schema
    <3>6. QED
      BY <3>3, <3>5
  <2>4. LayerMayGo(l, feature', schema')
    <3>1. feature'[l.col] = Nil
      BY <1>1, <2>1, <2>2 DEF FeatureAfter
    <3>2. QED
      BY <2>3, <3>1 DEF LayerMayGo, Registered
  <2>5. QED
    BY <2>1, <2>2, <2>3, <2>4
<1>2. LayersInv /\ [Next]_vars => [A]_vars
  BY <1>1
<1>3. QED
  BY <1>2, LayersInvariant, PTL DEF Spec, DropCleansUp

-----------------------------------------------------------------------------
(* A load of shp2pgsql.  What is still to be executed of its script says   *)
(* where the transaction is: drops, BEGIN, work, and COMMIT at the end.    *)

IsScript(s) == \E S : s \in Seq(S)
IsDrop(st)  == st.do \in {"drop geometry", "drop table"}
IsWork(st)  == st.do \in {"create", "add geometry", "copy", "line", "insert", "index"}

\* The loader has written all of its script.
Complete ==
    /\ loader.at \in {"done", "killed"} /\ {"item", "st"} \subseteq DOMAIN loader
    /\ loader.item = loader.st.num_entities

\* From place k on, a script is work, and ends in COMMIT when it is complete.
WorkFrom(s, k) == \A i \in k..Len(s) : IsWork(s[i]) \/ (s[i].do = "commit" /\ i = Len(s) /\ Complete)

\* A script of which BEGIN is not executed: it may have been cut short before BEGIN.
Ahead(s) ==
    \/ \E k \in 1..Len(s) : s[k].do = "begin" /\ (\A i \in 1..k - 1 : IsDrop(s[i])) /\ WorkFrom(s, k + 1)
    \/ loader.at # "rows" /\ \A i \in 1..Len(s) : IsDrop(s[i])

Dropping == loader.load.config.opt = "d"

\* The table before the load, or what -d leaves of it.
Undone ==
    \/ target = loader.load.before
    \/ Dropping /\ target \in {NoFile} \cup {WithoutGeometry(b) : b \in {loader.load.before} \ {NoFile}}

LoaderTyped ==
    /\ loader = [x \in DOMAIN loader |-> loader[x]] /\ "at" \in DOMAIN loader
    /\ loader.at \in {"absent", "rows", "done", "stopped", "killed"}
    /\ loader.at # "absent" => "load" \in DOMAIN loader /\ loader.load \in start.loads
    /\ loader.at \in {"rows", "done"} => {"item", "st"} \subseteq DOMAIN loader
    /\ loader.at = "done" => loader.item = loader.st.num_entities

SessionTyped ==
    /\ session = [at |-> session.at, work |-> session.work]
    /\ session.at \in {"idle", "open", "refusing", "committed", "left", "ended"}

LoadInv ==
    /\ start \in StartChoices /\ LoaderTyped /\ SessionTyped /\ IsScript(script)
    /\ loader.at = "absent" => session.at = "idle" /\ script = <<>>
    /\ loader.at # "absent" =>
         /\ session.at # "committed" => Undone
         /\ session.at = "idle" => Ahead(script) /\ \A i \in 1..Len(script) : IsDrop(script[i]) => Dropping
         /\ session.at \in {"open", "refusing"} => WorkFrom(script, 1)
         /\ session.at = "committed" => script = <<>> /\ Complete
         /\ session.at \in {"left", "ended"} => loader.at # "rows"

-----------------------------------------------------------------------------
(* Scripts. *)

LEMMA ScriptFacts ==
    ASSUME NEW s, IsScript(s)
    PROVE  /\ Len(s) \in Nat
           /\ s = <<>> <=> Len(s) = 0
           /\ s # <<>> => /\ Head(s) = s[1] /\ IsScript(Tail(s)) /\ Len(Tail(s)) = Len(s) - 1
                          /\ \A i \in 1..Len(s) - 1 : Tail(s)[i] = s[i + 1]
<1>1. PICK S : s \in Seq(S)
  BY DEF IsScript
<1>2. s # <<>> => Tail(s) \in Seq(S)
  BY <1>1, HeadTailProperties
<1>3. QED
  BY <1>1, <1>2, HeadTailProperties, LenProperties, EmptySeq DEF IsScript

LEMMA JoinFacts ==
    ASSUME NEW s, IsScript(s), NEW t, IsScript(t)
    PROVE  /\ IsScript(s \o t) /\ Len(s \o t) = Len(s) + Len(t)
           /\ \A i \in 1..Len(s) + Len(t) : (s \o t)[i] = IF i <= Len(s) THEN s[i] ELSE t[i - Len(s)]
<1>1. PICK S, T : s \in Seq(S) /\ t \in Seq(T)
  BY DEF IsScript
<1>2. s \in Seq(S \cup T) /\ t \in Seq(S \cup T)
  BY <1>1
<1>3. QED
  BY <1>2, ConcatProperties DEF IsScript

LEMMA CutFacts ==
    ASSUME NEW s, IsScript(s), NEW n \in 0..Len(s)
    PROVE  /\ IsScript(SubSeq(s, 1, n)) /\ Len(SubSeq(s, 1, n)) = n
           /\ \A i \in 1..n : SubSeq(s, 1, n)[i] = s[i]
<1>1. PICK S : s \in Seq(S)
  BY DEF IsScript
<1>2. Len(s) \in Nat /\ n \in Nat /\ \A i \in 1..n : s[i] \in S
  BY <1>1, LenProperties
<1>3. SubSeq(s, 1, n) \in Seq(S) /\ Len(SubSeq(s, 1, n)) = n /\ \A i \in 1..n : SubSeq(s, 1, n)[i] = s[i]
  BY <1>1, <1>2, SubSeqProperties
<1>4. QED
  BY <1>3 DEF IsScript

LEMMA OneStatement == \A x : IsScript(<<x>>) /\ Len(<<x>>) = 1 /\ <<x>>[1] = x
<1> SUFFICES ASSUME NEW x PROVE IsScript(<<x>>) /\ Len(<<x>>) = 1 /\ <<x>>[1] = x
  OBVIOUS
<1>1. <<x>> \in Seq({x})
  OBVIOUS
<1>2. QED
  BY <1>1 DEF IsScript

LEMMA NoStatement == IsScript(<<>>) /\ Len(<<>>) = 0
<1>1. <<>> \in Seq({})
  OBVIOUS
<1>2. QED
  BY <1>1 DEF IsScript

LEMMA DropFacts ==
    ASSUME NEW st
    PROVE  LET d == DropStatements(st)
           IN  IsScript(d) /\ \A i \in 1..Len(d) : IsDrop(d[i]) /\ st.config.opt = "d"
<1> DEFINE a  == [do |-> "drop geometry", geom |-> st.config.geom]
           b  == [do |-> "drop table"]
           d  == DropStatements(st)
<1>1. CASE st.config.opt # "d"
  <2>1. d = <<>>
    BY <1>1 DEF DropStatements
  <2>2. QED
    BY <2>1, NoStatement
<1>2. CASE st.config.opt = "d"
  <2> DEFINE g == IF Planar(st) THEN <<a>> ELSE <<>>
  <2>1. d = g \o <<b>>
    BY <1>2 DEF DropStatements
  <2>5. IsDrop(a) /\ IsDrop(b)
    BY DEF IsDrop
  <2> HIDE DEF a, b
  <2>2. IsScript(g) /\ Len(g) \in Nat /\ \A i \in 1..Len(g) : g[i] = a
    BY NoStatement, OneStatement
  <2> HIDE DEF g, d
  <2>3. IsScript(<<b>>) /\ Len(<<b>>) = 1 /\ <<b>>[1] = b
    BY OneStatement
  <2>4. \A i \in 1..Len(d) : d[i] \in {a, b}
    <3>1. Len(d) = Len(g) + 1 /\ \A i \in 1..Len(g) + 1 : d[i] = IF i <= Len(g) THEN g[i] ELSE <<b>>[i - Len(g)]
      BY <2>1, <2>2, <2>3, JoinFacts
    <3>2. QED
      BY <3>1, <2>2, <2>3
  <2>6. IsScript(d)
    BY <2>1, <2>2, <2>3, JoinFacts
  <2>7. QED
    BY <1>2, <2>4, <2>5, <2>6 DEF d
<1>3. QED
  BY <1>1, <1>2

LEMMA CreateFacts ==
    ASSUME NEW st
    PROVE  LET c == CreateStatements(st) IN IsScript(c) /\ \A i \in 1..Len(c) : IsWork(c[i])
<1> DEFINE c  == CreateStatements(st)
           t  == [do |-> "create", columns |-> Columns(st),
                  geom |-> IF st.config.readshape /\ st.config.geography
                           THEN GeometryColumn(st, 4326, IF pgdims(st.config, st.shpfiletype) = 4 THEN "ZM" ELSE "") ELSE NoFile]
           a  == [do |-> "add geometry", geom |-> GeometryColumn(st, st.config.sr_id, "")]
<1>1. CASE st.config.opt = "a"
  <2>1. c = <<>>
    BY <1>1 DEF CreateStatements
  <2>2. QED
    BY <2>1, NoStatement
<1>2. CASE st.config.opt # "a"
  <2> DEFINE g == IF Planar(st) THEN <<a>> ELSE <<>>
  <2>1. c = <<t>> \o g
    BY <1>2 DEF CreateStatements
  <2>2. IsWork(a) /\ IsWork(t)
    BY DEF IsWork
  <2> HIDE DEF a, t
  <2>3. IsScript(g) /\ Len(g) \in Nat /\ \A i \in 1..Len(g) : g[i] = a
    BY NoStatement, OneStatement
  <2> HIDE DEF g, c
  <2>4. IsScript(<<t>>) /\ Len(<<t>>) = 1 /\ <<t>>[1] = t
    BY OneStatement
  <2>5. IsScript(c) /\ Len(c) = 1 + Len(g) /\ \A i \in 1..1 + Len(g) : c[i] = IF i <= 1 THEN <<t>>[i] ELSE g[i - 1]
    BY <2>1, <2>3, <2>4, JoinFacts
  <2>6. \A i \in 1..Len(c) : IsWork(c[i])
    BY <2>2, <2>3, <2>4, <2>5
  <2>7. QED
    BY <2>5, <2>6 DEF c
<1>3. QED
  BY <1>1, <1>2

\* The header: drops, which only -d has, BEGIN, and the table's creation.
LEMMA HeaderFacts ==
    ASSUME NEW st, NEW h, h = DropStatements(st) \o <<[do |-> "begin"]>> \o CreateStatements(st)
    PROVE  /\ IsScript(h)
           /\ \E k \in 1..Len(h) : /\ h[k].do = "begin" /\ \A i \in 1..k - 1 : IsDrop(h[i])
                                   /\ \A i \in k + 1..Len(h) : IsWork(h[i])
           /\ \A i \in 1..Len(h) : IsDrop(h[i]) => st.config.opt = "d"
<1> DEFINE d == DropStatements(st)
           c == CreateStatements(st)
           b == [do |-> "begin"]
           e == d \o <<b>>
<1>1. IsScript(d) /\ (\A i \in 1..Len(d) : IsDrop(d[i]) /\ st.config.opt = "d") /\ Len(d) \in Nat
  BY DropFacts, ScriptFacts
<1>2. IsScript(c) /\ (\A i \in 1..Len(c) : IsWork(c[i])) /\ Len(c) \in Nat
  BY CreateFacts, ScriptFacts
<1>3. IsScript(<<b>>) /\ Len(<<b>>) = 1 /\ <<b>>[1] = b
  BY OneStatement
<1>4. h = e \o c
  OBVIOUS
<1>0. b.do = "begin" /\ ~IsDrop(b)
  BY DEF IsDrop
<1> HIDE DEF d, c, b
<1>5. IsScript(e) /\ Len(e) = Len(d) + 1 /\ \A i \in 1..Len(d) + 1 : e[i] = IF i <= Len(d) THEN d[i] ELSE <<b>>[i - Len(d)]
  BY <1>1, <1>3, JoinFacts
<1> HIDE DEF e
<1>6. /\ IsScript(h) /\ Len(h) = Len(d) + 1 + Len(c)
      /\ \A i \in 1..Len(d) + 1 + Len(c) : h[i] = IF i <= Len(d) + 1 THEN e[i] ELSE c[i - (Len(d) + 1)]
  <2>1. /\ IsScript(e \o c) /\ Len(e \o c) = Len(e) + Len(c)
        /\ \A i \in 1..Len(e) + Len(c) : (e \o c)[i] = IF i <= Len(e) THEN e[i] ELSE c[i - Len(e)]
    BY <1>2, <1>5, JoinFacts
  <2>2. QED
    BY <1>4, <1>5, <2>1
<1>7. \A i \in 1..Len(d) : h[i] = d[i]
  <2> SUFFICES ASSUME NEW i \in 1..Len(d) PROVE h[i] = d[i]
    OBVIOUS
  <2>1. i \in 1..Len(d) + 1 /\ i \in 1..Len(d) + 1 + Len(c) /\ i <= Len(d) /\ i <= Len(d) + 1
    BY <1>1, <1>2
  <2>2. e[i] = d[i]
    BY <1>5, <2>1
  <2>3. h[i] = e[i]
    BY <1>6, <2>1
  <2>4. QED
    BY <2>2, <2>3
<1>8. h[Len(d) + 1] = b
  <2>1. /\ Len(d) + 1 \in 1..Len(d) + 1 + Len(c)
        /\ Len(d) + 1 \in 1..Len(d) + 1
        /\ ~(Len(d) + 1 <= Len(d))
        /\ Len(d) + 1 <= Len(d) + 1
        /\ Len(d) + 1 - Len(d) = 1
    BY <1>1, <1>2
  <2>2. e[Len(d) + 1] = b
    BY <1>3, <1>5, <2>1
  <2>3. h[Len(d) + 1] = e[Len(d) + 1]
    BY <1>6, <2>1
  <2>4. QED
    BY <2>2, <2>3
<1>9. \A i \in Len(d) + 2..Len(h) : h[i] = c[i - (Len(d) + 1)] /\ i - (Len(d) + 1) \in 1..Len(c)
  BY <1>1, <1>2, <1>6
<1>10. Len(d) + 1 \in 1..Len(h) /\ (Len(d) + 1) - 1 = Len(d) /\ (Len(d) + 1) + 1 = Len(d) + 2
  BY <1>1, <1>2, <1>6
<1>11. \A x : IsWork(x) => ~IsDrop(x)
  BY DEF IsWork, IsDrop
<1>12. \A i \in 1..Len(h) : IsDrop(h[i]) => st.config.opt = "d"
  <2> SUFFICES ASSUME NEW i \in 1..Len(h), IsDrop(h[i]) PROVE st.config.opt = "d"
    OBVIOUS
  <2>1. i \in 1..Len(d) \/ i = Len(d) + 1 \/ i \in Len(d) + 2..Len(h)
    BY <1>1, <1>2, <1>6
  <2>2. QED
    BY <2>1, <1>0, <1>1, <1>2, <1>8, <1>9, <1>11
<1>13. \E k \in 1..Len(h) : /\ h[k].do = "begin" /\ \A i \in 1..k - 1 : IsDrop(h[i])
                            /\ \A i \in k + 1..Len(h) : IsWork(h[i])
  <2> DEFINE k == Len(d) + 1
  <2>1. h[k].do = "begin"
    BY <1>0, <1>8
  <2>2. \A i \in 1..k - 1 : IsDrop(h[i])
    BY <1>1, <1>7, <1>10
  <2>3. \A i \in k + 1..Len(h) : IsWork(h[i])
    BY <1>2, <1>9, <1>10
  <2>4. QED
    BY <1>10, <2>1, <2>2, <2>3
<1>14. QED
  BY <1>6, <1>12, <1>13

\* The statements of a row, the COPY before them and the end.
LEMMA RowStatementFacts ==
    ASSUME NEW st, NEW i, NEW r, r = ShpLoaderGenerateSQLRowStatement(st, i), r # NoFile
    PROVE  IsScript(r) /\ \A j \in 1..Len(r) : IsWork(r[j])
<1>1. \A v, g : IsWork(StatementOf(st, v, g))
  BY DEF StatementOf, IsWork
<1>2. r = <<>> \/ \E v, g : r = <<StatementOf(st, v, g)>>
  BY DEF ShpLoaderGenerateSQLRowStatement
<1>3. QED
  BY <1>1, <1>2, NoStatement, OneStatement

LEMMA CopyFacts ==
    ASSUME NEW st
    PROVE  LET c == ShpLoaderGetSQLCopyStatement(st) IN IsScript(c) /\ \A i \in 1..Len(c) : IsWork(c[i])
<1>1. IsWork([do |-> "copy", names |-> ColumnNames(st)])
  BY DEF IsWork
<1>2. QED
  BY <1>1, NoStatement, OneStatement DEF ShpLoaderGetSQLCopyStatement

LEMMA FooterFacts ==
    ASSUME NEW st
    PROVE  LET f == ShpLoaderGetSQLFooter(st)
           IN  IsScript(f) /\ \A i \in 1..Len(f) : IsWork(f[i]) \/ (f[i].do = "commit" /\ i = Len(f))
<1> DEFINE x == [do |-> "index", geom |-> st.config.geom]
           c == [do |-> "commit"]
           d == IF st.config.createindex THEN <<x>> ELSE <<>>
           f == ShpLoaderGetSQLFooter(st)
<1>1. IsWork(x)
  BY DEF IsWork
<1>2. IsScript(d) /\ Len(d) \in Nat /\ \A i \in 1..Len(d) : d[i] = x
  BY NoStatement, OneStatement
<1>3. IsScript(<<c>>) /\ Len(<<c>>) = 1 /\ <<c>>[1] = c
  BY OneStatement
<1>4. f = d \o <<c>>
  BY DEF ShpLoaderGetSQLFooter
<1> HIDE DEF d, f, x
<1>5. IsScript(f) /\ Len(f) = Len(d) + 1 /\ \A i \in 1..Len(d) + 1 : f[i] = IF i <= Len(d) THEN d[i] ELSE <<c>>[i - Len(d)]
  BY <1>2, <1>3, <1>4, JoinFacts
<1>6. \A i \in 1..Len(f) : IsWork(f[i]) \/ (f[i].do = "commit" /\ i = Len(f))
  BY <1>1, <1>2, <1>3, <1>5
<1>7. QED
  BY <1>5, <1>6 DEF f

-----------------------------------------------------------------------------
(* Steps. *)

\* shp2pgsql writes on: work, and COMMIT last.
LEMMA Appended ==
    ASSUME LoadInv, loader.at = "rows", LoaderTyped',
           loader'.at \in {"rows", "done"}, loader'.load = loader.load,
           NEW w, IsScript(w), script' = script \o w,
           \A i \in 1..Len(w) : IsWork(w[i]) \/ (w[i].do = "commit" /\ i = Len(w) /\ Complete'),
           UNCHANGED <<start, session, target>>
    PROVE  LoadInv'
<1>1. IsScript(script) /\ ~Complete /\ Len(script) \in Nat /\ Len(w) \in Nat
  BY ScriptFacts DEF LoadInv, Complete
<1>2. /\ IsScript(script') /\ Len(script') = Len(script) + Len(w)
      /\ \A i \in 1..Len(script) + Len(w) : script'[i] = IF i <= Len(script) THEN script[i] ELSE w[i - Len(script)]
  BY <1>1, JoinFacts
<1>3. \A x : IsWork(x) \/ x.do = "commit" => ~IsDrop(x)
  BY DEF IsWork, IsDrop
<1>4. ASSUME NEW k \in 1..Len(script) + 1, WorkFrom(script, k) PROVE WorkFrom(script, k)'
  <2> SUFFICES ASSUME NEW i \in k..Len(script')
               PROVE  IsWork(script'[i]) \/ (script'[i].do = "commit" /\ i = Len(script') /\ Complete')
    BY DEF WorkFrom
  <2>1. CASE i <= Len(script)
    <3>1. i \in k..Len(script) /\ script'[i] = script[i]
      BY <1>1, <1>2, <2>1
    <3>2. QED
      BY <1>1, <1>4, <3>1 DEF WorkFrom
  <2>2. CASE ~(i <= Len(script))
    <3>1. i - Len(script) \in 1..Len(w) /\ script'[i] = w[i - Len(script)]
      BY <1>1, <1>2, <2>2
    <3>2. i - Len(script) = Len(w) => i = Len(script')
      BY <1>1, <1>2
    <3>3. QED
      BY <3>1, <3>2
  <2>3. QED
    BY <2>1, <2>2
<1>5. CASE session.at = "idle"
  <2>1. PICK k \in 1..Len(script) : /\ script[k].do = "begin" /\ \A i \in 1..k - 1 : IsDrop(script[i])
                                    /\ WorkFrom(script, k + 1)
    BY <1>5 DEF LoadInv, Ahead
  <2>2. k \in 1..Len(script') /\ k + 1 \in 1..Len(script) + 1 /\ script'[k] = script[k]
        /\ \A i \in 1..k - 1 : script'[i] = script[i]
    BY <1>1, <1>2
  <2>3. Ahead(script)'
    BY <1>4, <2>1, <2>2 DEF Ahead
  <2>4. ASSUME NEW i \in 1..Len(script'), IsDrop(script'[i]) PROVE Dropping'
    <3>1. CASE i <= Len(script)
      <4>1. i \in 1..Len(script) /\ script'[i] = script[i]
        BY <1>1, <1>2, <3>1
      <4>2. QED
        BY <1>5, <2>4, <4>1 DEF LoadInv, Dropping
    <3>2. CASE ~(i <= Len(script))
      <4>1. i - Len(script) \in 1..Len(w) /\ script'[i] = w[i - Len(script)]
        BY <1>1, <1>2, <3>2
      <4>2. QED
        BY <1>3, <2>4, <4>1
    <3>3. QED
      BY <3>1, <3>2
  <2>5. Undone'
    BY <1>5 DEF LoadInv, Undone, Dropping
  <2>6. QED
    BY <1>2, <1>5, <2>3, <2>4, <2>5 DEF LoadInv, SessionTyped
<1>6. CASE session.at \in {"open", "refusing"}
  <2>1. WorkFrom(script, 1)'
    BY <1>1, <1>4, <1>6 DEF LoadInv
  <2>2. Undone'
    BY <1>6 DEF LoadInv, Undone, Dropping
  <2>3. QED
    BY <1>2, <1>6, <2>1, <2>2 DEF LoadInv, SessionTyped
<1>7. session.at \in {"idle", "open", "refusing"}
  BY <1>1 DEF LoadInv, SessionTyped
<1>8. QED
  BY <1>5, <1>6, <1>7

\* shp2pgsql stops or is killed, and the end of what it wrote may be lost.
LEMMA LoaderEnds ==
    ASSUME LoadInv, loader.at \in {"rows", "done"}, NEW a \in {"stopped", "killed"},
           loader.at = "done" => a = "killed",
           loader' = [loader EXCEPT !.at = a],
           NEW n \in 0..Len(script), script' = SubSeq(script, 1, n),
           UNCHANGED <<start, session, target>>
    PROVE  LoadInv'
<1>1. IsScript(script) /\ Len(script) \in Nat
  BY ScriptFacts DEF LoadInv
<1>2. IsScript(script') /\ Len(script') = n /\ \A i \in 1..n : script'[i] = script[i]
  BY <1>1, CutFacts
<1>3. /\ LoaderTyped' /\ loader'.at = a /\ loader'.load = loader.load
      /\ Complete => Complete'
  BY DEF LoadInv, LoaderTyped, Complete
<1>4. ASSUME NEW k \in 1..Len(script) + 1, WorkFrom(script, k) PROVE WorkFrom(script, k)'
  BY <1>1, <1>2, <1>3, <1>4 DEF WorkFrom
<1>5. Undone => Undone'
  BY <1>3 DEF Undone, Dropping
<1>6. CASE session.at = "idle"
  <2>1. Ahead(script)'
    <3>1. CASE \E k \in 1..n : script[k].do = "begin" /\ (\A i \in 1..k - 1 : IsDrop(script[i])) /\ WorkFrom(script, k + 1)
      <4>1. PICK k \in 1..n : script[k].do = "begin" /\ (\A i \in 1..k - 1 : IsDrop(script[i])) /\ WorkFrom(script, k + 1)
        BY <3>1
      <4>2. k \in 1..Len(script') /\ k + 1 \in 1..Len(script) + 1 /\ script'[k] = script[k]
            /\ \A i \in 1..k - 1 : script'[i] = script[i]
        BY <1>1, <1>2
      <4>3. QED
        BY <1>4, <4>1, <4>2 DEF Ahead
    <3>2. CASE \A i \in 1..n : IsDrop(script[i])
      BY <1>2, <1>3, <3>2 DEF Ahead
    <3>3. Ahead(script)
      BY <1>6 DEF LoadInv
    <3>4. CASE \E k \in 1..Len(script) : script[k].do = "begin" /\ (\A i \in 1..k - 1 : IsDrop(script[i]))
                                            /\ WorkFrom(script, k + 1)
      <4>1. PICK k \in 1..Len(script) : script[k].do = "begin" /\ (\A i \in 1..k - 1 : IsDrop(script[i]))
                                            /\ WorkFrom(script, k + 1)
        BY <3>4
      <4>2. k \in 1..n \/ 1..n \subseteq 1..k - 1
        BY <1>1
      <4>3. QED
        BY <3>1, <3>2, <4>1, <4>2
    <3>5. CASE \A i \in 1..Len(script) : IsDrop(script[i])
      BY <1>1, <3>2, <3>5
    <3>6. QED
      BY <3>3, <3>4, <3>5 DEF Ahead
  <2>2. \A i \in 1..Len(script') : IsDrop(script'[i]) => Dropping'
    BY <1>1, <1>2, <1>3, <1>6 DEF LoadInv, Dropping
  <2>3. QED
    BY <1>2, <1>3, <1>5, <1>6, <2>1, <2>2 DEF LoadInv, SessionTyped
<1>7. CASE session.at \in {"open", "refusing"}
  <2>1. WorkFrom(script, 1)'
    <3>1. 1 \in 1..Len(script) + 1 /\ WorkFrom(script, 1)
      BY <1>1, <1>7 DEF LoadInv
    <3>2. QED
      BY <1>4, <3>1
  <2>2. Undone'
    BY <1>5, <1>7 DEF LoadInv
  <2>3. QED
    BY <1>2, <1>3, <1>7, <2>1, <2>2 DEF LoadInv, SessionTyped
<1>8. CASE session.at = "committed"
  <2>1. script' = <<>>
    BY <1>1, <1>2, <1>8, ScriptFacts DEF LoadInv
  <2>2. QED
    BY <1>2, <1>3, <1>8, <2>1 DEF LoadInv, SessionTyped
<1>9. CASE session.at \in {"left", "ended"}
  BY <1>2, <1>3, <1>5, <1>9 DEF LoadInv, SessionTyped
<1>10. QED
  BY <1>6, <1>7, <1>8, <1>9 DEF LoadInv, SessionTyped

\* What a drop leaves, if the server does not refuse it.
LEMMA DropEffect ==
    ASSUME NEW t, NEW b, NEW st, IsDrop(st), b # NoFile => {"geom", "rows"} \subseteq DOMAIN b,
           t \in {b, NoFile} \cup {WithoutGeometry(c) : c \in {b} \ {NoFile}}, Effect(t, st).ok
    PROVE  Effect(t, st).table \in {b, NoFile} \cup {WithoutGeometry(c) : c \in {b} \ {NoFile}}
<1>1. ~Failure.ok /\ \A u : Result(u).ok /\ Result(u).table = u
  BY DEF Failure, Result
<1>2. st.do # "create" /\ st.do \in {"drop geometry", "drop table"}
  BY DEF IsDrop
<1>3. t # NoFile
  <2>1. t = NoFile => Effect(t, st) = Failure
    BY <1>2 DEF Effect
  <2>2. QED
    BY <1>1, <2>1
<1>4. CASE st.do = "drop table"
  <2>1. Effect(t, st) = Result(NoFile)
    BY <1>3, <1>4 DEF Effect
  <2>2. QED
    BY <1>1, <2>1
<1>5. CASE st.do = "drop geometry"
  <2>1. Effect(t, st) = IF (IF t.geom = NoFile THEN TRUE ELSE t.geom.name # st.geom) THEN Failure ELSE Result(WithoutGeometry(t))
    BY <1>3, <1>5 DEF Effect
  <2>2. t.geom # NoFile /\ Effect(t, st).table = WithoutGeometry(t)
    BY <1>1, <2>1
  <2>3. b # NoFile => WithoutGeometry(b).geom = NoFile
    BY DEF WithoutGeometry
  <2>4. t = b
    BY <1>3, <2>2, <2>3
  <2>5. QED
    BY <1>3, <2>2, <2>4
<1>6. QED
  BY <1>2, <1>4, <1>5

LEMMA Executed ==
    ASSUME PsqlExecutes, NEW st, st = Head(script)
    PROVE  /\ script # <<>> /\ script' = Tail(script) /\ start' = start /\ loader' = loader
           /\ st.do = "begin" => session' = [at |-> "open", work |-> target] /\ target' = target
           /\ st.do = "commit" /\ session.at = "open" => session' = [session EXCEPT !.at = "committed"]
           /\ st.do = "commit" /\ session.at # "open" => session' = [session EXCEPT !.at = "idle"] /\ target' = target
           /\ st.do \notin {"begin", "commit"} /\ session.at = "open" =>
                /\ target' = target
                /\ session' = [session EXCEPT !.at = "refusing"] \/ \E w : session' = [session EXCEPT !.work = w]
           /\ st.do \notin {"begin", "commit"} /\ session.at = "refusing" => session' = session /\ target' = target
           /\ st.do \notin {"begin", "commit"} /\ session.at = "idle" =>
                /\ session' = session
                /\ target' = target \/ (Effect(target, st).ok /\ target' = Effect(target, st).table)
<1> DEFINE e == IF st.do \in {"begin", "commit"} \/ session.at = "refusing" THEN Failure
                ELSE Effect(IF session.at = "open" THEN session.work ELSE target, st)
<1>1. script # <<>> /\ script' = Tail(script) /\ start' = start /\ loader' = loader
  BY DEF PsqlExecutes, dumping
<1>2. CASE st.do = "begin"
  BY <1>1, <1>2 DEF PsqlExecutes
<1>3. CASE st.do = "commit"
  BY <1>1, <1>3 DEF PsqlExecutes
<1>4. CASE st.do \notin {"begin", "commit"}
  <2>1. IF session.at = "open"
        THEN /\ session' = IF e.ok THEN [session EXCEPT !.work = e.table] ELSE [session EXCEPT !.at = "refusing"]
             /\ target' = target
        ELSE target' = (IF e.ok THEN e.table ELSE target) /\ session' = session
    BY <1>4 DEF PsqlExecutes
  <2>2. session.at = "refusing" => ~e.ok
    BY DEF Failure
  <2>3. session.at = "idle" => e = Effect(target, st)
    BY <1>4
  <2> HIDE DEF e
  <2>4. QED
    BY <1>1, <1>4, <2>1, <2>2, <2>3
<1>5. QED
  BY <1>2, <1>3, <1>4

\* psql executes the next statement of the script.
LEMMA PsqlExecutesKeeps ==
    ASSUME LoadInv, PsqlExecutes
    PROVE  LoadInv'
<1> DEFINE st == script[1]
           n  == Len(script)
<1>1. IsScript(script) /\ script # <<>> /\ n \in Nat /\ n >= 1 /\ st = Head(script)
  BY ScriptFacts, Executed DEF LoadInv
<1>2. /\ IsScript(script') /\ Len(script') = n - 1
      /\ \A i \in 1..n - 1 : script'[i] = script[i + 1]
  <2>1. script' = Tail(script)
    BY Executed
  <2>2. QED
    BY <1>1, <2>1, ScriptFacts
<1>3. start' = start /\ loader' = loader /\ LoaderTyped' /\ loader.at # "absent" /\ session.at # "committed"
  <2>1. start' = start /\ loader' = loader
    BY Executed
  <2>2. QED
    BY <1>1, <2>1 DEF LoadInv, LoaderTyped
<1>4. Complete' <=> Complete
  BY <1>3 DEF Complete
<1>5. ASSUME NEW k \in 1..n, WorkFrom(script, k + 1) PROVE WorkFrom(script, k)'
  <2>1. ASSUME NEW i \in k..n - 1 PROVE i + 1 \in k + 1..n /\ script'[i] = script[i + 1] /\ (i + 1 = n => i = n - 1)
    BY <1>1, <1>2
  <2>2. QED
    BY <1>2, <1>4, <1>5, <2>1 DEF WorkFrom
<1>6. ASSUME target' = target PROVE Undone => Undone'
  BY <1>3, <1>6 DEF Undone, Dropping
<1>7. CASE session.at = "idle"
  <2>1. Undone /\ Ahead(script) /\ \A i \in 1..n : IsDrop(script[i]) => Dropping
    BY <1>3, <1>7 DEF LoadInv
  <2>2. \A i \in 1..n - 1 : IsDrop(script'[i]) => Dropping'
    <3>1. \A i \in 1..n - 1 : i + 1 \in 1..n
      BY <1>1
    <3>2. QED
      BY <1>2, <1>3, <2>1, <3>1 DEF Dropping
  <2>3. CASE IsDrop(st)
    <3>1. st.do \notin {"begin", "commit"}
      BY <2>3 DEF IsDrop
    <3>2. session' = session /\ (target' = target \/ (Effect(target, st).ok /\ target' = Effect(target, st).table))
      BY <1>1, <1>7, <3>1, Executed
    <3>3. Dropping
      BY <1>1, <2>1, <2>3
    <3>4. Undone'
      <4> DEFINE b == loader.load.before
                 u == {b, NoFile} \cup {WithoutGeometry(c) : c \in {b} \ {NoFile}}
      <4>1. b # NoFile => {"geom", "rows"} \subseteq DOMAIN b
        BY <1>3, LoadsAssumption DEF LoadInv, LoaderTyped
      <4>2. target \in u
        BY <2>1 DEF Undone
      <4>3. target' \in u
        BY <2>3, <3>2, <4>1, <4>2, DropEffect
      <4>4. QED
        BY <1>3, <3>3, <4>3 DEF Undone, Dropping
    <3>5. Ahead(script)'
      <4>1. CASE \E k \in 1..n : /\ script[k].do = "begin" /\ \A i \in 1..k - 1 : IsDrop(script[i])
                                 /\ WorkFrom(script, k + 1)
        <5>1. PICK k \in 1..n : /\ script[k].do = "begin" /\ \A i \in 1..k - 1 : IsDrop(script[i])
                                /\ WorkFrom(script, k + 1)
          BY <4>1
        <5>2. k # 1
          BY <3>1, <5>1
        <5>3. /\ k - 1 \in 1..n - 1 /\ (k - 1) + 1 = k /\ script'[k - 1] = script[k]
              /\ \A i \in 1..(k - 1) - 1 : i + 1 \in 1..k - 1 /\ script'[i] = script[i + 1]
          BY <1>1, <1>2, <5>2
        <5>4. WorkFrom(script, (k - 1) + 1)'
          BY <1>5, <5>1, <5>3
        <5>5. QED
          BY <1>2, <5>1, <5>3, <5>4 DEF Ahead
      <4>2. CASE loader.at # "rows" /\ \A i \in 1..n : IsDrop(script[i])
        <5>1. \A i \in 1..n - 1 : i + 1 \in 1..n /\ script'[i] = script[i + 1]
          BY <1>1, <1>2
        <5>2. QED
          BY <1>2, <1>3, <4>2, <5>1 DEF Ahead
      <4>3. QED
        BY <2>1, <4>1, <4>2 DEF Ahead
    <3>6. QED
      BY <1>2, <1>3, <1>7, <2>2, <3>2, <3>4, <3>5 DEF LoadInv, SessionTyped
  <2>4. CASE ~IsDrop(st)
    <3>1. st.do = "begin" /\ WorkFrom(script, 1 + 1)
      <4>1. ~(\A i \in 1..n : IsDrop(script[i]))
        BY <1>1, <2>4
      <4>2. PICK k \in 1..n : /\ script[k].do = "begin" /\ \A i \in 1..k - 1 : IsDrop(script[i])
                              /\ WorkFrom(script, k + 1)
        BY <2>1, <4>1 DEF Ahead
      <4>3. k = 1
        BY <1>1, <2>4, <4>2
      <4>4. QED
        BY <4>2, <4>3
    <3>2. session' = [at |-> "open", work |-> target] /\ target' = target
      BY <1>1, <3>1, Executed
    <3>3. WorkFrom(script, 1)'
      BY <1>1, <1>5, <3>1
    <3>4. QED
      BY <1>2, <1>3, <1>6, <2>1, <3>2, <3>3 DEF LoadInv, SessionTyped
  <2>5. QED
    BY <2>3, <2>4
<1>8. CASE session.at \in {"open", "refusing"}
  <2>1. Undone /\ WorkFrom(script, 1)
    BY <1>3, <1>8 DEF LoadInv
  <2>2. 1 \in 1..n /\ WorkFrom(script, 1 + 1)
    BY <1>1, <2>1 DEF WorkFrom
  <2>3. WorkFrom(script, 1)'
    BY <1>5, <2>2
  <2>4. CASE st.do = "commit"
    <3>1. n = 1 /\ Complete
      <4>1. IsWork(script[1]) \/ (script[1].do = "commit" /\ 1 = n /\ Complete)
        BY <2>1, <2>2 DEF WorkFrom
      <4>2. ~IsWork(st)
        BY <2>4 DEF IsWork
      <4>3. QED
        BY <4>1, <4>2
    <3>2. script' = <<>> /\ \A i \in 1..Len(script') : FALSE
      BY <1>2, <3>1, ScriptFacts
    <3>3. CASE session.at = "open"
      <4>1. session' = [session EXCEPT !.at = "committed"]
        BY <1>1, <2>4, <3>3, Executed
      <4>2. SessionTyped' /\ session'.at = "committed"
        BY <4>1 DEF LoadInv, SessionTyped
      <4>3. QED
        BY <1>2, <1>3, <1>4, <3>1, <3>2, <4>2 DEF LoadInv
    <3>4. CASE session.at = "refusing"
      <4>1. session' = [session EXCEPT !.at = "idle"] /\ target' = target
        BY <1>1, <2>4, <3>4, Executed
      <4>2. SessionTyped' /\ session'.at = "idle"
        BY <4>1 DEF LoadInv, SessionTyped
      <4>3. Ahead(script)'
        BY <1>3, <3>1, <3>2 DEF Ahead, Complete
      <4>4. QED
        BY <1>2, <1>3, <1>6, <2>1, <3>2, <4>1, <4>2, <4>3 DEF LoadInv
    <3>5. QED
      BY <1>8, <3>3, <3>4
  <2>5. CASE IsWork(st)
    <3>1. st.do \notin {"begin", "commit"}
      BY <2>5 DEF IsWork
    <3>2. /\ target' = target
          /\ session' = session \/ session' = [session EXCEPT !.at = "refusing"] \/ \E w : session' = [session EXCEPT !.work = w]
      BY <1>1, <1>8, <3>1, Executed
    <3>3. SessionTyped' /\ session'.at \in {"open", "refusing"}
      BY <1>8, <3>2 DEF LoadInv, SessionTyped
    <3>4. QED
      BY <1>2, <1>3, <1>6, <2>1, <2>3, <3>2, <3>3 DEF LoadInv
  <2>6. QED
    BY <1>1, <2>1, <2>4, <2>5 DEF WorkFrom
<1>9. session.at \notin {"left", "ended"}
  BY DEF PsqlExecutes
<1>10. QED
  BY <1>3, <1>7, <1>8, <1>9 DEF LoadInv, SessionTyped

\* The loader opens the files, and writes the header and the start of a COPY.
LEMMA LoadOpenKeeps ==
    ASSUME LoadInv, LoadOpen
    PROVE  LoadInv'
<1>1. /\ loader.at = "absent" /\ session.at = "idle" /\ script = <<>>
      /\ start' = start /\ session' = session /\ start \in StartChoices
  BY DEF LoadOpen, LoadInv, dumping
<1>2. PICK load \in start.loads, fresh \in {0, Garbage} :
         LET st == ShpLoaderOpenShape(load.config, shapefile, fresh)
             header == IF st = NoFile THEN NoFile ELSE ShpLoaderGetSQLHeader(st)
         IN  /\ target' = load.before
             /\ IF header = NoFile
                THEN loader' = [at |-> "stopped", load |-> load] /\ UNCHANGED script
                ELSE /\ loader' = [at |-> "rows", load |-> load, st |-> st,
                                   item |-> IF load.config.opt = "p" THEN st.num_entities ELSE 0]
                     /\ script' = header \o (IF load.config.opt = "p" THEN <<>> ELSE ShpLoaderGetSQLCopyStatement(st))
  BY DEF LoadOpen
<1> DEFINE st == ShpLoaderOpenShape(load.config, shapefile, fresh)
           header == IF st = NoFile THEN NoFile ELSE ShpLoaderGetSQLHeader(st)
<1>3. CASE header = NoFile
  <2>1. loader' = [at |-> "stopped", load |-> load] /\ script' = <<>> /\ target' = load.before
    BY <1>1, <1>2, <1>3
  <2>2. LoaderTyped' /\ loader'.at = "stopped" /\ loader'.load = load
    BY <1>1, <2>1 DEF LoaderTyped
  <2>3. IsScript(script)' /\ \A i \in 1..Len(script') : FALSE
    BY <2>1, NoStatement
  <2>4. QED
    BY <1>1, <2>1, <2>2, <2>3 DEF LoadInv, SessionTyped, Undone, Ahead
<1>4. CASE header # NoFile
  <2> DEFINE w == IF load.config.opt = "p" THEN <<>> ELSE ShpLoaderGetSQLCopyStatement(st)
  <2>1. /\ loader' = [at |-> "rows", load |-> load, st |-> st,
                      item |-> IF load.config.opt = "p" THEN st.num_entities ELSE 0]
        /\ script' = header \o w /\ target' = load.before
    BY <1>2, <1>4
  <2>2. st # NoFile /\ header = DropStatements(st) \o <<[do |-> "begin"]>> \o CreateStatements(st)
    BY <1>4 DEF ShpLoaderGetSQLHeader
  <2>3. st.config.opt = load.config.opt
    <3>1. {"opt", "readshape"} \subseteq DOMAIN load.config
      BY <1>1, LoadsAssumption
    <3>2. PICK r : st.config = [load.config EXCEPT !.readshape = r]
      BY <2>2 DEF ShpLoaderOpenShape
    <3>3. QED
      BY <3>1, <3>2
  <2>4. /\ IsScript(header) /\ Len(header) \in Nat
        /\ \E k \in 1..Len(header) : /\ header[k].do = "begin" /\ \A i \in 1..k - 1 : IsDrop(header[i])
                                     /\ \A i \in k + 1..Len(header) : IsWork(header[i])
        /\ \A i \in 1..Len(header) : IsDrop(header[i]) => st.config.opt = "d"
    BY <2>2, HeaderFacts, ScriptFacts
  <2>5. IsScript(w) /\ Len(w) \in Nat /\ \A i \in 1..Len(w) : IsWork(w[i])
    BY NoStatement, CopyFacts, ScriptFacts
  <2>6. LoaderTyped' /\ loader'.at = "rows" /\ loader'.load = load
    BY <1>1, <2>1 DEF LoaderTyped
  <2> HIDE DEF header, w, st
  <2>7. /\ IsScript(script') /\ Len(script') = Len(header) + Len(w)
        /\ \A i \in 1..Len(header) + Len(w) : script'[i] = IF i <= Len(header) THEN header[i] ELSE w[i - Len(header)]
    BY <2>1, <2>4, <2>5, JoinFacts
  <2>8. Ahead(script)'
    <3>1. PICK k \in 1..Len(header) : /\ header[k].do = "begin" /\ \A i \in 1..k - 1 : IsDrop(header[i])
                                      /\ \A i \in k + 1..Len(header) : IsWork(header[i])
      BY <2>4
    <3>2. k \in 1..Len(script') /\ script'[k] = header[k] /\ \A i \in 1..k - 1 : script'[i] = header[i]
      BY <2>4, <2>5, <2>7
    <3>3. ASSUME NEW i \in k + 1..Len(script') PROVE IsWork(script'[i])
      <4>1. CASE i <= Len(header)
        BY <2>4, <2>5, <2>7, <3>1, <4>1
      <4>2. CASE ~(i <= Len(header))
        <5>1. i - Len(header) \in 1..Len(w) /\ script'[i] = w[i - Len(header)]
          BY <2>4, <2>5, <2>7, <4>2
        <5>2. QED
          BY <2>5, <5>1
      <4>3. QED
        BY <4>1, <4>2
    <3>4. QED
      BY <3>1, <3>2, <3>3 DEF Ahead, WorkFrom
  <2>9. ASSUME NEW i \in 1..Len(script'), IsDrop(script'[i]) PROVE Dropping'
    <3>1. i <= Len(header)
      <4>1. CASE ~(i <= Len(header))
        <5>1. i - Len(header) \in 1..Len(w) /\ script'[i] = w[i - Len(header)]
          BY <2>4, <2>5, <2>7, <4>1
        <5>2. QED
          BY <2>5, <2>9, <5>1 DEF IsWork, IsDrop
      <4>2. QED
        BY <4>1
    <3>2. i \in 1..Len(header) /\ script'[i] = header[i]
      BY <2>4, <2>5, <2>7, <3>1
    <3>3. QED
      BY <2>3, <2>4, <2>6, <2>9, <3>2 DEF Dropping
  <2>10. QED
    BY <1>1, <2>1, <2>6, <2>7, <2>8, <2>9 DEF LoadInv, SessionTyped, Undone
<1>5. QED
  BY <1>3, <1>4

LEMMA LoadRowKeeps ==
    ASSUME LoadInv, LoadRow
    PROVE  LoadInv'
<1> DEFINE row == ShpLoaderGenerateSQLRowStatement(loader.st, loader.item)
<1>1. loader.at = "rows" /\ LoaderTyped /\ UNCHANGED <<start, session, target>>
  BY DEF LoadRow, LoadInv, dumping
<1>2. CASE row = NoFile
  <2>1. loader' = [loader EXCEPT !.at = "stopped"] /\ script' = script
    BY <1>2 DEF LoadRow
  <2>2. PICK S : script \in Seq(S)
    BY DEF LoadInv, IsScript
  <2>3. script = SubSeq(script, 1, Len(script)) /\ Len(script) \in 0..Len(script)
    BY <2>2, SubSeqFull, LenProperties
  <2>4. QED
    BY <1>1, <2>1, <2>3, LoaderEnds
<1>3. CASE row # NoFile
  <2>1. loader' = [loader EXCEPT !.item = loader.item + 1] /\ script' = script \o row
    BY <1>3 DEF LoadRow
  <2>2. LoaderTyped' /\ loader'.at = "rows" /\ loader'.load = loader.load
    BY <1>1, <2>1 DEF LoaderTyped
  <2>3. IsScript(row) /\ \A j \in 1..Len(row) : IsWork(row[j])
    BY <1>3, RowStatementFacts
  <2> HIDE DEF row
  <2>4. QED
    BY <1>1, <2>1, <2>2, <2>3, Appended
<1>4. QED
  BY <1>2, <1>3

LEMMA LoadFooterKeeps ==
    ASSUME LoadInv, LoadFooter
    PROVE  LoadInv'
<1> DEFINE f == ShpLoaderGetSQLFooter(loader.st)
<1>1. /\ loader.at = "rows" /\ LoaderTyped /\ loader.item = loader.st.num_entities /\ UNCHANGED <<start, session, target>>
      /\ loader' = [loader EXCEPT !.at = "done"] /\ script' = script \o f
  BY DEF LoadFooter, LoadInv, dumping
<1>2. LoaderTyped' /\ loader'.at = "done" /\ loader'.load = loader.load /\ Complete'
  BY <1>1 DEF LoaderTyped, Complete
<1>3. IsScript(f) /\ \A i \in 1..Len(f) : IsWork(f[i]) \/ (f[i].do = "commit" /\ i = Len(f))
  BY FooterFacts
<1> HIDE DEF f
<1>4. QED
  BY <1>1, <1>2, <1>3, Appended

\* psql is killed, or comes to the end of the script.
LEMMA PsqlEndsKeeps ==
    ASSUME LoadInv, PsqlKilled \/ PsqlLeaves
    PROVE  LoadInv'
<1>1. /\ loader.at # "absent" /\ session.at # "committed" /\ start' = start /\ target' = target
      /\ SessionTyped' /\ session'.at \in {"left", "ended"}
  <2>1. CASE PsqlKilled
    BY <2>1 DEF PsqlKilled, dumping, SessionTyped
  <2>2. CASE PsqlLeaves
    BY <2>2 DEF PsqlLeaves, dumping, SessionTyped
  <2>3. QED
    BY <2>1, <2>2
<1>2. /\ LoaderTyped' /\ loader'.at \notin {"absent", "rows"} /\ loader'.load = loader.load
      /\ IsScript(script)'
  <2>1. CASE PsqlKilled
    <3>1. loader' = [loader EXCEPT !.at = "killed"] /\ script' = <<>>
      BY <2>1 DEF PsqlKilled
    <3>2. QED
      BY <1>1, <3>1, NoStatement DEF LoadInv, LoaderTyped
  <2>2. CASE PsqlLeaves
    <3>1. loader' = loader /\ script' = script /\ loader.at \in {"stopped", "killed", "done"}
      BY <2>2 DEF PsqlLeaves
    <3>2. QED
      BY <1>1, <3>1 DEF LoadInv, LoaderTyped
  <2>3. QED
    BY <2>1, <2>2
<1>3. Undone'
  BY <1>1, <1>2 DEF LoadInv, Undone, Dropping
<1>4. QED
  BY <1>1, <1>2, <1>3 DEF LoadInv

\* A step of the dump, or of another session.
LEMMA LoadUnmoved ==
    ASSUME LoadInv, UNCHANGED <<start, loader, script, session, target>>
    PROVE  LoadInv'
BY DEF LoadInv, LoaderTyped, SessionTyped, Undone, Dropping, Ahead, WorkFrom, Complete

\* A load changes the table as a whole or not at all: COMMIT is the last thing
\* shp2pgsql writes, and it only writes it when every row is written; what is cut
\* off before it, by whatever failure, is undone with the transaction.
THEOREM LoadsAreAtomic == ExchangeSpec => []LoadIsAtomic
<1>1. ExchangeInit => LoadInv
  BY NoStatement DEF ExchangeInit, LoadInv, LoaderTyped, SessionTyped
<1>2. LoadInv /\ [ExchangeNext]_exchange => LoadInv'
  <2> SUFFICES ASSUME LoadInv, [ExchangeNext]_exchange PROVE LoadInv'
    OBVIOUS
  <2>1. CASE DumpColumns \/ DumpType \/ DumpDims \/ DumpDeclare \/ DumpRow \/ DumpClose \/ DumpKilled \/ OtherWrites
    <3>1. UNCHANGED <<start, loader, script, session, target>>
      BY <2>1 DEF DumpColumns, DumpType, DumpDims, DumpDeclare, DumpRow, DumpClose, DumpKilled, OtherWrites, loading
    <3>2. QED
      BY <3>1, LoadUnmoved
  <2>2. CASE LoadOpen
    BY <2>2, LoadOpenKeeps
  <2>3. CASE LoadRow
    BY <2>3, LoadRowKeeps
  <2>4. CASE LoadFooter
    BY <2>4, LoadFooterKeeps
  <2>5. CASE LoadKilled
    BY <2>5, LoaderEnds DEF LoadKilled, dumping
  <2>6. CASE PsqlExecutes
    BY <2>6, PsqlExecutesKeeps
  <2>7. CASE PsqlKilled \/ PsqlLeaves
    BY <2>7, PsqlEndsKeeps
  <2>8. CASE UNCHANGED exchange
    BY <2>8, LoadUnmoved DEF exchange
  <2>9. QED
    BY <2>1, <2>2, <2>3, <2>4, <2>5, <2>6, <2>7, <2>8 DEF ExchangeNext
<1>3. LoadInv => LoadIsAtomic
  BY DEF LoadInv, LoadIsAtomic, Undone, Dropping, Complete
<1>4. QED
  BY <1>1, <1>2, <1>3, PTL DEF ExchangeSpec

-----------------------------------------------------------------------------
(* Shapefiles. *)

\* Of some numbers one is the least.
LEMMA FirstOfNumbers ==
    ASSUME NEW T, T \subseteq Nat, T # {}
    PROVE  \E x \in T : \A y \in T : x <= y
<1> DEFINE R == OpToRel(<, Nat)
<1>1. IsWellFoundedOn(R, Nat)
  BY NatLessThanWellFounded
<1>2. \A x, y \in Nat : y < x => <<y, x>> \in R
  BY DEF OpToRel
<1> HIDE DEF R
<1>3. PICK x \in T : \A y \in T : <<y, x>> \notin R
  BY <1>1, WFMin
<1>4. ASSUME NEW y \in T PROVE x <= y
  <2>1. x \in Nat /\ y \in Nat
    OBVIOUS
  <2>2. <<y, x>> \notin R
    BY <1>3
  <2>3. ~(y < x)
    BY <1>2, <2>1, <2>2
  <2>4. QED
    BY <2>1, <2>3
<1>5. QED
  BY <1>4

\* Numbers that are not all alike have a least and a greatest: the first
\* prefix that has none would be one longer than a prefix that has.
LEMMA LeastAndGreatest ==
    ASSUME NEW f \in Seq(Int), Len(f) > 0
    PROVE  /\ \E i \in 1..Len(f) : \A j \in 1..Len(f) : f[i] <= f[j]
           /\ \E i \in 1..Len(f) : \A j \in 1..Len(f) : f[i] >= f[j]
<1> DEFINE P(n) == /\ \E i \in 1..n : \A j \in 1..n : f[i] <= f[j]
                   /\ \E i \in 1..n : \A j \in 1..n : f[i] >= f[j]
           U == {n \in 1..Len(f) : ~P(n)}
<1>1. Len(f) \in Nat /\ \A i \in 1..Len(f) : f[i] \in Int
  OBVIOUS
<1>2. P(1)
  BY <1>1
<1>3. ASSUME NEW n \in 1..Len(f), n + 1 \in 1..Len(f), P(n) PROVE P(n + 1)
  <2>1. PICK a \in 1..n : \A j \in 1..n : f[a] <= f[j]
    BY <1>3
  <2>2. PICK b \in 1..n : \A j \in 1..n : f[b] >= f[j]
    BY <1>3
  <2>a. Len(f) \in Nat /\ n \in Nat
    BY <1>1
  <2>3. /\ \A j \in 1..n + 1 : (j \in 1..n \/ j = n + 1) /\ j \in 1..Len(f)
        /\ a \in 1..n + 1 /\ b \in 1..n + 1 /\ n + 1 \in 1..n + 1
    BY <1>3, <2>a
  <2>4. f[n + 1] \in Int /\ f[a] \in Int /\ f[b] \in Int /\ \A j \in 1..n + 1 : f[j] \in Int
    BY <1>1, <2>3
  <2>b. f[n + 1] \in Int /\ f[a] \in Int /\ f[b] \in Int
    BY <2>4
  <2>5. \E i \in 1..n + 1 : \A j \in 1..n + 1 : f[i] <= f[j]
    <3>1. CASE f[a] <= f[n + 1]
      <4>1. \A j \in 1..n + 1 : f[a] <= f[j]
        BY <2>1, <2>3, <3>1
      <4>2. QED
        BY <2>3, <4>1
    <3>2. CASE ~(f[a] <= f[n + 1])
      <4>1. ASSUME NEW j \in 1..n + 1 PROVE f[n + 1] <= f[j]
        <5>1. CASE j = n + 1
          BY <2>b, <5>1
        <5>2. CASE j \in 1..n
          <6>1. f[a] <= f[j] /\ f[j] \in Int
            BY <2>1, <2>4, <5>2
          <6>2. QED
            BY <2>b, <3>2, <6>1
        <5>3. QED
          BY <2>3, <5>1, <5>2
      <4>2. QED
        BY <2>3, <4>1
    <3>3. QED
      BY <3>1, <3>2
  <2>6. \E i \in 1..n + 1 : \A j \in 1..n + 1 : f[i] >= f[j]
    <3>1. CASE f[b] >= f[n + 1]
      <4>1. \A j \in 1..n + 1 : f[b] >= f[j]
        BY <2>2, <2>3, <3>1
      <4>2. QED
        BY <2>3, <4>1
    <3>2. CASE ~(f[b] >= f[n + 1])
      <4>1. ASSUME NEW j \in 1..n + 1 PROVE f[n + 1] >= f[j]
        <5>1. CASE j = n + 1
          BY <2>b, <5>1
        <5>2. CASE j \in 1..n
          <6>1. f[b] >= f[j] /\ f[j] \in Int
            BY <2>2, <2>4, <5>2
          <6>2. QED
            BY <2>b, <3>2, <6>1
        <5>3. QED
          BY <2>3, <5>1, <5>2
      <4>2. QED
        BY <2>3, <4>1
    <3>3. QED
      BY <3>1, <3>2
  <2>7. QED
    BY <2>5, <2>6
<1> HIDE DEF P
<1>4. U = {}
  <2> SUFFICES ASSUME U # {} PROVE FALSE
    OBVIOUS
  <2>1. U \subseteq Nat
    BY <1>1
  <2>2. PICK x \in U : \A y \in U : x <= y
    BY <2>1, FirstOfNumbers
  <2>3. x \in 1..Len(f) /\ ~P(x)
    BY <2>2
  <2>4. x # 1 /\ x - 1 \in 1..Len(f) /\ (x - 1) + 1 = x
    BY <1>1, <1>2, <2>3
  <2>5. x - 1 \notin U
    BY <2>2, <2>3, <2>4
  <2>6. P(x - 1)
    BY <2>4, <2>5
  <2>7. P((x - 1) + 1)
    BY <1>3, <2>3, <2>4, <2>6
  <2>8. QED
    BY <2>3, <2>4, <2>7
<1>5. P(Len(f))
  BY <1>1, <1>4
<1>6. QED
  BY <1>5 DEF P

Bounds == [lo : [1..4 -> Int], hi : [1..4 -> Int]]

\* A vertex is four numbers, each by its index.
LEMMA VertexFacts ==
    ASSUME NEW vs \in Seq(Vertex)
    PROVE  \A i \in 1..Len(vs) : /\ vs[i] \in Vertex
                                 /\ \A d \in 1..4 : vs[i][d] \in Int
                                 /\ vs[i] = <<vs[i][1], vs[i][2], vs[i][3], vs[i][4]>>
<1> SUFFICES ASSUME NEW i \in 1..Len(vs)
             PROVE  /\ vs[i] \in Vertex /\ \A d \in 1..4 : vs[i][d] \in Int
                    /\ vs[i] = <<vs[i][1], vs[i][2], vs[i][3], vs[i][4]>>
  OBVIOUS
<1>1. vs[i] \in Vertex
  OBVIOUS
<1>2. vs[i][1] \in Int /\ vs[i][2] \in Int /\ vs[i][3] \in Int /\ vs[i][4] \in Int
      /\ vs[i] = <<vs[i][1], vs[i][2], vs[i][3], vs[i][4]>>
  BY <1>1 DEF Vertex
<1>3. 1..4 = {1, 2, 3, 4}
  OBVIOUS
<1>4. QED
  BY <1>1, <1>2, <1>3

\* SHPComputeExtents holds every vertex.
LEMMA ExtentsFacts ==
    ASSUME NEW vs \in Seq(Vertex)
    PROVE  /\ SHPComputeExtents(vs) \in Bounds
           /\ \A i \in 1..Len(vs), d \in 1..4 : /\ SHPComputeExtents(vs).lo[d] <= vs[i][d]
                                                /\ vs[i][d] <= SHPComputeExtents(vs).hi[d]
<1> DEFINE e == SHPComputeExtents(vs)
<1>0. Len(vs) \in Nat /\ DOMAIN vs = 1..Len(vs)
  OBVIOUS
<1>1. CASE vs = <<>>
  <2>1. e = NoBounds /\ Len(vs) = 0
    BY <1>1 DEF SHPComputeExtents
  <2>2. NoBounds \in Bounds
    BY DEF NoBounds, Bounds
  <2>3. QED
    BY <2>1, <2>2
<1>2. CASE vs # <<>>
  <2>0. Len(vs) > 0
    BY <1>0, <1>2
  <2>1. e = [lo |-> [d \in 1..4 |-> Min(ToSet(Along(vs, d)))], hi |-> [d \in 1..4 |-> Max(ToSet(Along(vs, d)))]]
    BY <1>2 DEF SHPComputeExtents
  <2>2. ASSUME NEW d \in 1..4
        PROVE  /\ e.lo[d] \in Int /\ e.hi[d] \in Int
               /\ \A i \in 1..Len(vs) : e.lo[d] <= vs[i][d] /\ vs[i][d] <= e.hi[d]
    <3> DEFINE f == Along(vs, d)
    <3>1. f \in Seq(Int) /\ Len(f) = Len(vs) /\ \A i \in 1..Len(vs) : f[i] = vs[i][d]
      <4>1. f = [i \in 1..Len(vs) |-> vs[i][d]]
        BY <1>0 DEF Along
      <4>2. \A i \in 1..Len(vs) : vs[i][d] \in Int
        BY VertexFacts
      <4> HIDE DEF f
      <4>3. QED
        BY <1>0, <4>1, <4>2
    <3>2. ToSet(f) = {f[i] : i \in 1..Len(vs)}
      BY <3>1 DEF ToSet
    <3>3. e.lo[d] = Min(ToSet(f)) /\ e.hi[d] = Max(ToSet(f))
      BY <2>1
    <3> HIDE DEF f, e
    <3>4. /\ \E i \in 1..Len(f) : \A j \in 1..Len(f) : f[i] <= f[j]
          /\ \E i \in 1..Len(f) : \A j \in 1..Len(f) : f[i] >= f[j]
      BY <2>0, <3>1, LeastAndGreatest
    <3>a. /\ \E x \in ToSet(f) : \A y \in ToSet(f) : x <= y
          /\ \E x \in ToSet(f) : \A y \in ToSet(f) : x >= y
      <4>1. PICK i \in 1..Len(f) : \A j \in 1..Len(f) : f[i] <= f[j]
        BY <3>4
      <4>2. f[i] \in ToSet(f) /\ \A y \in ToSet(f) : f[i] <= y
        BY <3>1, <3>2, <4>1
      <4>3. PICK k \in 1..Len(f) : \A j \in 1..Len(f) : f[k] >= f[j]
        BY <3>4
      <4>4. f[k] \in ToSet(f) /\ \A y \in ToSet(f) : f[k] >= y
        BY <3>1, <3>2, <4>3
      <4>5. QED
        BY <4>2, <4>4
    <3>5. Min(ToSet(f)) \in ToSet(f) /\ \A y \in ToSet(f) : Min(ToSet(f)) <= y
      BY <3>a DEF Min
    <3>6. Max(ToSet(f)) \in ToSet(f) /\ \A y \in ToSet(f) : Max(ToSet(f)) >= y
      BY <3>a DEF Max
    <3>7. ToSet(f) \subseteq Int
      BY <3>1, <3>2
    <3>8. QED
      BY <3>1, <3>2, <3>3, <3>5, <3>6, <3>7
  <2>3. e \in Bounds
    <3>1. e.lo = [d \in 1..4 |-> e.lo[d]] /\ e.hi = [d \in 1..4 |-> e.hi[d]] /\ e = [lo |-> e.lo, hi |-> e.hi]
      BY <2>1
    <3> HIDE DEF e
    <3>2. e.lo \in [1..4 -> Int] /\ e.hi \in [1..4 -> Int]
      BY <2>2, <3>1
    <3>3. QED
      BY <3>1, <3>2 DEF Bounds
  <2>4. QED
    BY <2>2, <2>3
<1>3. QED
  BY <1>1, <1>2

-----------------------------------------------------------------------------
\* What is written at a place of a file, or at its end, is there, and the rest
\* is what it was.
LEMMA WriteAtFacts ==
    ASSUME NEW file \in Seq(Int), NEW at \in Nat, NEW cells \in Seq(Int), at <= Len(file)
    PROVE  LET new == WriteAt(file, at, cells)
           IN  /\ new \in Seq(Int) /\ Len(new) = Bigger(Len(file), at + Len(cells))
               /\ \A k \in 1..Len(new) : new[k] = IF at < k /\ k <= at + Len(cells) THEN cells[k - at] ELSE file[k]
<1> DEFINE a == SubSeq(file, 1, Smaller(at, Len(file)))
           g == Char(0, at - Len(file))
           z == SubSeq(file, at + Len(cells) + 1, Len(file))
<1>0. Len(file) \in Nat /\ Len(cells) \in Nat
  OBVIOUS
<1>1. a \in Seq(Int) /\ Len(a) = at /\ \A k \in 1..at : a[k] = file[k]
  <2>1. Smaller(at, Len(file)) = at
    BY <1>0 DEF Smaller
  <2>2. a = SubSeq(file, 1, at) /\ 1 \in Int /\ at \in Int /\ \A i \in 1..at : file[i] \in Int
    BY <1>0, <2>1
  <2>3. a \in Seq(Int) /\ Len(a) = (IF 1 <= at THEN at - 1 + 1 ELSE 0) /\ \A i \in 1..at - 1 + 1 : a[i] = file[1 + i - 1]
    <3> HIDE DEF a
    <3>1. QED
      BY <2>2, SubSeqProperties
  <2> HIDE DEF a
  <2>4. QED
    BY <2>3
<1>2. g \in Seq(Int) /\ Len(g) = 0
  <2>1. at - Len(file) <= 0 /\ at - Len(file) \in Int
    BY <1>0
  <2>2. g = [i \in 1..0 |-> 0]
    BY <2>1 DEF Char
  <2>3. \A m \in Nat : [i \in 1..m |-> 0] \in Seq(Int) /\ Len([i \in 1..m |-> 0]) = m
    OBVIOUS
  <2> HIDE DEF g
  <2>4. QED
    BY <2>2, <2>3
<1>3. z \in Seq(Int) /\ Len(z) = Bigger(0, Len(file) - (at + Len(cells)))
      /\ \A k \in 1..Len(z) : z[k] = file[at + Len(cells) + k]
  <2>1. /\ at + Len(cells) + 1 \in Int /\ Len(file) \in Int
        /\ \A i \in at + Len(cells) + 1..Len(file) : file[i] \in Int
    BY <1>0
  <2>2. /\ z \in Seq(Int)
        /\ Len(z) = IF at + Len(cells) + 1 <= Len(file) THEN Len(file) - (at + Len(cells) + 1) + 1 ELSE 0
        /\ \A i \in 1..Len(file) - (at + Len(cells) + 1) + 1 : z[i] = file[at + Len(cells) + 1 + i - 1]
    BY <2>1, SubSeqProperties
  <2> HIDE DEF z
  <2>3. QED
    BY <1>0, <2>2 DEF Bigger
<1> DEFINE b == a \o g
           c == b \o cells
           n == c \o z
<1>4. b \in Seq(Int) /\ Len(b) = at /\ \A k \in 1..at : b[k] = file[k]
  <2> HIDE DEF a, g
  <2>1. b \in Seq(Int) /\ Len(b) = Len(a) + Len(g) /\ \A k \in 1..Len(a) + Len(g) : b[k] = IF k <= Len(a) THEN a[k] ELSE g[k - Len(a)]
    BY <1>1, <1>2, ConcatProperties
  <2> HIDE DEF b
  <2>2. QED
    BY <1>1, <1>2, <2>1
<1>5. /\ c \in Seq(Int) /\ Len(c) = at + Len(cells)
      /\ \A k \in 1..at + Len(cells) : c[k] = IF k <= at THEN file[k] ELSE cells[k - at]
  <2> HIDE DEF b
  <2>1. c \in Seq(Int) /\ Len(c) = Len(b) + Len(cells)
        /\ \A k \in 1..Len(b) + Len(cells) : c[k] = IF k <= Len(b) THEN b[k] ELSE cells[k - Len(b)]
    BY <1>4, ConcatProperties
  <2>2. Len(b) = at /\ \A k \in 1..at + Len(cells) : k <= at => b[k] = file[k]
    <3>1. \A k \in 1..at + Len(cells) : k <= at => k \in 1..at
      BY <1>0
    <3>2. QED
      BY <1>4, <3>1
  <2> HIDE DEF c
  <2>3. QED
    BY <2>1, <2>2
<1>6. /\ n \in Seq(Int) /\ Len(n) = Len(c) + Len(z)
      /\ \A k \in 1..Len(c) + Len(z) : n[k] = IF k <= Len(c) THEN c[k] ELSE z[k - Len(c)]
  <2>1. c \in Seq(Int) /\ z \in Seq(Int)
    BY <1>3, <1>5
  <2> HIDE DEF a, g, b, c, z
  <2>2. QED
    BY <2>1, ConcatProperties
<1>7. WriteAt(file, at, cells) = n
  BY DEF WriteAt
<1> HIDE DEF a, g, z, b, c, n
<1>8. Len(n) = Bigger(Len(file), at + Len(cells))
  <2>1. Len(n) = Len(c) + Len(z) /\ Len(c) = at + Len(cells) /\ Len(z) = Bigger(0, Len(file) - (at + Len(cells)))
    BY <1>3, <1>5, <1>6
  <2>2. \A x, y, u, v, w \in Int : u = v + w /\ v = y /\ w = Bigger(0, x - y) => u = Bigger(x, y)
    BY DEF Bigger
  <2>3. at + Len(cells) \in Int /\ Len(file) \in Int /\ Len(n) \in Int /\ Len(c) \in Int /\ Len(z) \in Int
    BY <1>0, <1>3, <1>5, <1>6
  <2>4. QED
    BY <2>1, <2>2, <2>3
<1>9. ASSUME NEW k \in 1..Len(n)
      PROVE  n[k] = IF at < k /\ k <= at + Len(cells) THEN cells[k - at] ELSE file[k]
  <2>0. /\ Len(c) \in Nat /\ Len(z) \in Nat /\ Len(c) = at + Len(cells)
        /\ k \in 1..Len(c) + Len(z) /\ k \in Nat /\ 1 <= k
    <3>1. c \in Seq(Int) /\ z \in Seq(Int) /\ Len(n) = Len(c) + Len(z)
      BY <1>3, <1>5, <1>6
    <3>2. Len(c) \in Nat /\ Len(z) \in Nat
      BY <3>1
    <3>3. k \in 1..Len(c) + Len(z)
      BY <1>9, <3>1
    <3>4. QED
      BY <1>5, <3>2, <3>3
  <2>1. CASE k <= Len(c)
    <3>1. k \in 1..Len(c) /\ k <= at + Len(cells)
      BY <2>0, <2>1
    <3>2. n[k] = c[k]
      BY <1>6, <2>0, <2>1
    <3>3. c[k] = IF at < k THEN cells[k - at] ELSE file[k]
      BY <1>5, <2>0, <3>1
    <3>4. QED
      BY <3>1, <3>2, <3>3
  <2>2. CASE k > Len(c)
    <3>1. k - Len(c) \in 1..Len(z) /\ at + Len(cells) + (k - Len(c)) = k /\ ~(k <= at + Len(cells)) /\ ~(k <= Len(c))
      BY <1>0, <2>0, <2>2
    <3>2. n[k] = z[k - Len(c)]
      BY <1>6, <2>0, <3>1
    <3>3. z[k - Len(c)] = file[k]
      BY <1>3, <3>1
    <3>4. QED
      BY <3>1, <3>2, <3>3
  <2>3. QED
    BY <2>0, <2>1, <2>2
<1>10. QED
  BY <1>6, <1>7, <1>8, <1>9

-----------------------------------------------------------------------------
(* Records: what begins as a record does is read as its shape. *)

Begins(c, p) == Len(p) <= Len(c) /\ \A k \in 1..Len(p) : c[k] = p[k]

\* A record of two pieces begins with the first and has the second after it.
LEMMA BeginsWithBoth ==
    ASSUME NEW a \in Seq(Int), NEW b \in Seq(Int), NEW c \in Seq(Int), Begins(c, a \o b)
    PROVE  /\ Begins(c, a) /\ Len(a) + Len(b) <= Len(c)
           /\ \A k \in 1..Len(b) : c[Len(a) + k] = b[k]
<1> DEFINE p == a \o b
<1>1. p \in Seq(Int) /\ Len(p) = Len(a) + Len(b)
      /\ \A k \in 1..Len(a) + Len(b) : p[k] = IF k <= Len(a) THEN a[k] ELSE b[k - Len(a)]
  BY ConcatProperties
<1>2. Len(a) \in Nat /\ Len(b) \in Nat /\ Len(c) \in Nat
  OBVIOUS
<1> HIDE DEF p
<1>3. Begins(c, p)
  BY DEF p
<1>4. ASSUME NEW k \in 1..Len(b) PROVE c[Len(a) + k] = b[k]
  <2>a. Len(p) = Len(a) + Len(b)
    BY <1>1
  <2>1. Len(a) + k \in 1..Len(p) /\ ~(Len(a) + k <= Len(a)) /\ (Len(a) + k) - Len(a) = k
    BY <1>2, <2>a
  <2>2. c[Len(a) + k] = p[Len(a) + k]
    BY <1>3, <2>1 DEF Begins
  <2>3. QED
    BY <1>1, <2>1, <2>2
<1>5. Begins(c, a)
  <2>1. \A k \in 1..Len(a) : k \in 1..Len(p) /\ k <= Len(a)
    BY <1>1, <1>2
  <2>2. QED
    BY <1>1, <1>2, <1>3, <2>1 DEF Begins
<1>6. QED
  BY <1>1, <1>3, <1>4, <1>5 DEF Begins

\* The pieces of a record.
LEMMA PiecesFacts ==
    ASSUME NEW vs \in Seq(Vertex), NEW e \in Bounds
    PROVE  /\ _SHPSetBounds(e) \in Seq(Int) /\ Len(_SHPSetBounds(e)) = 4
           /\ XY(vs) \in Seq(Int) /\ Len(XY(vs)) = 2 * Len(vs)
           /\ \A i \in 1..Len(vs) : XY(vs)[2 * i - 1] = vs[i][1] /\ XY(vs)[2 * i] = vs[i][2]
           /\ \A d \in 1..4 : /\ Ranged(vs, e, d) \in Seq(Int) /\ Len(Ranged(vs, e, d)) = Len(vs) + 2
                              /\ \A i \in 1..Len(vs) : Ranged(vs, e, d)[2 + i] = vs[i][d]
<1>0. Len(vs) \in Nat /\ DOMAIN vs = 1..Len(vs)
  OBVIOUS
<1>1. _SHPSetBounds(e) \in Seq(Int) /\ Len(_SHPSetBounds(e)) = 4
  <2>1. e.lo[1] \in Int /\ e.lo[2] \in Int /\ e.hi[1] \in Int /\ e.hi[2] \in Int
    BY DEF Bounds
  <2>2. QED
    BY <2>1 DEF _SHPSetBounds
<1>2. /\ XY(vs) \in Seq(Int) /\ Len(XY(vs)) = 2 * Len(vs)
      /\ \A i \in 1..Len(vs) : XY(vs)[2 * i - 1] = vs[i][1] /\ XY(vs)[2 * i] = vs[i][2]
  <2> DEFINE F(k) == IF k % 2 = 1 THEN vs[(k + 1) \div 2][1] ELSE vs[k \div 2][2]
  <2>1. \A k \in 1..2 * Len(vs) : F(k) \in Int
    <3> SUFFICES ASSUME NEW k \in 1..2 * Len(vs) PROVE F(k) \in Int
      OBVIOUS
    <3>1. CASE k % 2 = 1
      <4>1. (k + 1) \div 2 \in 1..Len(vs) /\ 1 \in 1..4
        BY <1>0
      <4>2. QED
        BY <3>1, <4>1, VertexFacts
    <3>2. CASE k % 2 # 1
      <4>1. k \div 2 \in 1..Len(vs) /\ 2 \in 1..4
        BY <1>0, <3>2
      <4>2. QED
        BY <3>2, <4>1, VertexFacts
    <3>3. QED
      BY <3>1, <3>2
  <2>2. XY(vs) = [k \in 1..2 * Len(vs) |-> F(k)]
    BY DEF XY
  <2>3. \A i \in 1..Len(vs) : F(2 * i - 1) = vs[i][1] /\ F(2 * i) = vs[i][2]
    <3> SUFFICES ASSUME NEW i \in 1..Len(vs) PROVE F(2 * i - 1) = vs[i][1] /\ F(2 * i) = vs[i][2]
      OBVIOUS
    <3>1. i \in Int
      OBVIOUS
    <3>2. (2 * i - 1) % 2 = 1 /\ (2 * i - 1 + 1) \div 2 = i /\ (2 * i) % 2 = 0 /\ (2 * i) \div 2 = i
      BY <3>1
    <3>3. QED
      BY <3>2
  <2> HIDE DEF F
  <2>4. 2 * Len(vs) \in Nat
    BY <1>0
  <2>5. XY(vs) \in Seq(Int) /\ Len(XY(vs)) = 2 * Len(vs) /\ \A k \in 1..2 * Len(vs) : XY(vs)[k] = F(k)
    BY <2>1, <2>2, <2>4
  <2>6. \A i \in 1..Len(vs) : 2 * i - 1 \in 1..2 * Len(vs) /\ 2 * i \in 1..2 * Len(vs)
    BY <1>0
  <2>7. QED
    BY <2>3, <2>5, <2>6
<1>3. ASSUME NEW d \in 1..4
      PROVE  /\ Ranged(vs, e, d) \in Seq(Int) /\ Len(Ranged(vs, e, d)) = Len(vs) + 2
             /\ \A i \in 1..Len(vs) : Ranged(vs, e, d)[2 + i] = vs[i][d]
  <2> DEFINE r == <<e.lo[d], e.hi[d]>>
             a == Along(vs, d)
  <2>1. r \in Seq(Int) /\ Len(r) = 2
    <3>1. e.lo[d] \in Int /\ e.hi[d] \in Int
      BY DEF Bounds
    <3>2. QED
      BY <3>1
  <2>2. a \in Seq(Int) /\ Len(a) = Len(vs) /\ \A i \in 1..Len(vs) : a[i] = vs[i][d]
    <3>1. a = [i \in 1..Len(vs) |-> vs[i][d]]
      BY <1>0 DEF Along
    <3>2. \A i \in 1..Len(vs) : vs[i][d] \in Int
      BY VertexFacts
    <3> HIDE DEF a
    <3>3. QED
      BY <1>0, <3>1, <3>2
  <2> HIDE DEF r, a
  <2>3. /\ r \o a \in Seq(Int) /\ Len(r \o a) = Len(r) + Len(a)
        /\ \A i \in 1..Len(r) + Len(a) : (r \o a)[i] = IF i <= Len(r) THEN r[i] ELSE a[i - Len(r)]
    <3>1. r \in Seq(Int) /\ a \in Seq(Int)
      BY <2>1, <2>2
    <3>2. QED
      BY <3>1, ConcatProperties
  <2>4. Ranged(vs, e, d) = r \o a
    BY DEF Ranged, r, a
  <2>5. \A i \in 1..Len(vs) : 2 + i \in 1..2 + Len(vs) /\ ~(2 + i <= 2) /\ (2 + i) - 2 = i
    BY <1>0
  <2>6. QED
    BY <1>0, <2>1, <2>2, <2>3, <2>4, <2>5
<1>4. QED
  BY <1>1, <1>2, <1>3

\* The vertices vs lie in c after the cell at, with z and m or without.
Extra(b, n) == IF b THEN n + 2 ELSE 0
VerticesLie(c, at, vs, z, w) ==
    /\ at + 2 * Len(vs) + Extra(z, Len(vs)) + Extra(w, Len(vs)) <= Len(c)
    /\ \A k \in 1..2 * Len(vs) : c[at + k] = XY(vs)[k]
    /\ \A i \in 1..Len(vs) : /\ z => c[at + 2 * Len(vs) + 2 + i] = vs[i][3]
                             /\ ~z => vs[i][3] = 0
                             /\ w => c[at + 2 * Len(vs) + Extra(z, Len(vs)) + 2 + i] = vs[i][4]

\* v is what is read of vs, which was written with m or without.
ReadFrom(vs, w, v) ==
    /\ v.vertices \in Seq(Vertex) /\ Len(v.vertices) = Len(vs) /\ v.measured \in BOOLEAN
    /\ \A i \in 1..Len(vs) : /\ v.vertices[i][1] = vs[i][1] /\ v.vertices[i][2] = vs[i][2]
                             /\ v.vertices[i][3] = vs[i][3] /\ (~v.measured => v.vertices[i][4] = 0)
    /\ w => v.measured /\ v.vertices = vs

\* Vertices are read as they were written, with measures nobody wrote if there
\* are cells for them.
LEMMA VerticesRead ==
    ASSUME NEW vs \in Seq(Vertex), NEW c \in Seq(Int), NEW at \in Nat, NEW z \in BOOLEAN, NEW w \in BOOLEAN,
           VerticesLie(c, at, vs, z, w)
    PROVE  LET v == VerticesAt(c, at, Len(vs), z)
           IN  /\ ReadFrom(vs, w, v)
               /\ ~w /\ Len(c) = at + 2 * Len(vs) + Extra(z, Len(vs)) => ~v.measured
<1> DEFINE n == Len(vs)
           zs == IF z THEN at + 2 * n + 2 ELSE 0
           ms == at + 2 * n + (IF z THEN n + 2 ELSE 0) + 2
           hasM == Len(c) >= ms + n
           V(i) == <<c[at + 2 * i - 1], c[at + 2 * i], IF z THEN c[zs + i] ELSE 0, IF hasM THEN c[ms + i] ELSE 0>>
           v == VerticesAt(c, at, n, z)
<1>0. n \in Nat /\ Len(c) \in Nat /\ DOMAIN vs = 1..n
  OBVIOUS
<1>a. at + 2 * n + Extra(z, n) + Extra(w, n) <= Len(c)
  BY DEF VerticesLie
<1>1. v = [vertices |-> [i \in 1..n |-> V(i)], measured |-> hasM]
  BY DEF VerticesAt
<1>2. ms = at + 2 * n + Extra(z, n) + 2 /\ Extra(z, n) \in Nat
  BY <1>0 DEF Extra
<1>3. w => hasM
  <2> HIDE DEF n
  <2>1. QED
    BY <1>0, <1>a DEF Extra
<1>4. ~w /\ Len(c) = at + 2 * n + Extra(z, n) => ~hasM
  <2> HIDE DEF n
  <2>1. QED
    BY <1>0 DEF Extra
<1>5. ASSUME NEW i \in 1..n
      PROVE  /\ V(i)[1] = vs[i][1] /\ V(i)[2] = vs[i][2] /\ V(i)[3] = vs[i][3] /\ (~hasM => V(i)[4] = 0)
             /\ V(i)[4] \in Int /\ (w => V(i)[4] = vs[i][4])
  <2>1. 2 * i - 1 \in 1..2 * n /\ 2 * i \in 1..2 * n /\ at + (2 * i - 1) = at + 2 * i - 1
    <3> HIDE DEF n
    <3>1. QED
      BY <1>0
  <2>2. c[at + 2 * i - 1] = vs[i][1] /\ c[at + 2 * i] = vs[i][2]
    <3>1. c[at + (2 * i - 1)] = XY(vs)[2 * i - 1] /\ c[at + 2 * i] = XY(vs)[2 * i]
      BY <2>1 DEF VerticesLie
    <3>2. XY(vs)[2 * i - 1] = vs[i][1] /\ XY(vs)[2 * i] = vs[i][2]
      <4>1. NoBounds \in Bounds
        BY DEF NoBounds, Bounds
      <4>2. QED
        BY <4>1, PiecesFacts
    <3>3. QED
      BY <2>1, <3>1, <3>2
  <2>3. z => c[zs + i] = vs[i][3]
    BY DEF VerticesLie
  <2>4. ~z => vs[i][3] = 0
    BY DEF VerticesLie
  <2>5. w => c[ms + i] = vs[i][4]
    <3>1. w => c[at + 2 * n + Extra(z, n) + 2 + i] = vs[i][4]
      BY DEF VerticesLie
    <3> HIDE DEF n, ms
    <3>2. QED
      BY <1>2, <3>1
  <2>6. hasM => ms + i \in 1..Len(c)
    <3> HIDE DEF n
    <3>1. i \in Nat /\ 1 <= i /\ i <= n /\ ms \in Nat
      BY <1>0, <1>2
    <3> HIDE DEF ms
    <3>2. QED
      BY <1>0, <3>1
  <2>7. hasM => c[ms + i] \in Int
    <3> HIDE DEF hasM, ms
    <3>1. QED
      BY <2>6
  <2> HIDE DEF zs, ms, hasM
  <2>8. V(i)[1] = c[at + 2 * i - 1] /\ V(i)[2] = c[at + 2 * i] /\ V(i)[3] = (IF z THEN c[zs + i] ELSE 0)
        /\ V(i)[4] = (IF hasM THEN c[ms + i] ELSE 0)
    OBVIOUS
  <2> HIDE DEF V
  <2>9. V(i)[1] = vs[i][1] /\ V(i)[2] = vs[i][2] /\ V(i)[3] = vs[i][3]
    BY <2>2, <2>3, <2>4, <2>8
  <2>10. QED
    BY <1>3, <2>5, <2>7, <2>8, <2>9
<1>6. ASSUME NEW i \in 1..n PROVE V(i) \in Vertex /\ (w => V(i) = vs[i])
  <2>1. vs[i] = <<vs[i][1], vs[i][2], vs[i][3], vs[i][4]>>
        /\ vs[i][1] \in Int /\ vs[i][2] \in Int /\ vs[i][3] \in Int
    BY VertexFacts
  <2>2. V(i) = <<V(i)[1], V(i)[2], V(i)[3], V(i)[4]>>
    <3> HIDE DEF zs, ms, hasM
    <3>1. QED
      OBVIOUS
  <2>3. V(i)[1] \in Int /\ V(i)[2] \in Int /\ V(i)[3] \in Int /\ V(i)[4] \in Int
    BY <1>5, <2>1
  <2>4. w => V(i)[1] = vs[i][1] /\ V(i)[2] = vs[i][2] /\ V(i)[3] = vs[i][3] /\ V(i)[4] = vs[i][4]
    BY <1>5
  <2> HIDE DEF V
  <2>5. V(i) \in Vertex
    BY <2>2, <2>3 DEF Vertex
  <2>6. QED
    BY <2>1, <2>2, <2>4, <2>5
<1>7. v.vertices = [i \in 1..n |-> V(i)] /\ v.measured = hasM /\ hasM \in BOOLEAN
  BY <1>1
<1> HIDE DEF V, v, hasM, ms, zs
<1>8. v.vertices \in Seq(Vertex) /\ Len(v.vertices) = n /\ \A i \in 1..n : v.vertices[i] = V(i)
  BY <1>0, <1>6, <1>7
<1>9. w => v.vertices = vs
  BY <1>0, <1>6, <1>8, SeqEqual
<1>10. QED
  BY <1>3, <1>4, <1>5, <1>7, <1>8, <1>9 DEF v, ReadFrom

\* What the tests of shpopen.c say of the types of shapes.
LEMMA TypeFacts ==
    ASSUME NEW t \in ShapeTypes
    PROVE  /\ t \in Nat
           /\ Parted(t) => Base(t) # SHPT_MULTIPOINT /\ Base(t) # SHPT_POINT /\ t # SHPT_NULL
           /\ Base(t) = SHPT_MULTIPOINT => Base(t) # SHPT_POINT /\ t # SHPT_NULL
           /\ Base(t) = SHPT_POINT => t # SHPT_NULL
           /\ Parted(t) \/ Base(t) = SHPT_MULTIPOINT \/ Base(t) = SHPT_POINT \/ t = SHPT_NULL
           /\ HasZ(t) \in BOOLEAN /\ HasM(t) \in BOOLEAN /\ ~HasM(SHPT_NULL)
           /\ t = SHPT_MULTIPATCH => Parted(t)
<1>1. t \in {0, 31, 1, 3, 5, 8, 11, 13, 15, 18, 21, 23, 25, 28}
  BY DEF ShapeTypes, SHPT_NULL, SHPT_MULTIPATCH, SHPT_POINT, SHPT_ARC, SHPT_POLYGON, SHPT_MULTIPOINT
<1>2. QED
  BY <1>1 DEF Parted, Base, HasZ, HasM, SHPT_NULL, SHPT_MULTIPATCH, SHPT_POINT, SHPT_ARC, SHPT_POLYGON, SHPT_MULTIPOINT

\* The fields of a shape.
LEMMA ShapeFacts ==
    ASSUME NEW s \in Shapes
    PROVE  /\ s.type \in ShapeTypes /\ s.starts \in Seq(Int) /\ s.partTypes \in Seq(Int) /\ s.vertices \in Seq(Vertex)
           /\ s.measured \in BOOLEAN /\ WritesM(s) \in BOOLEAN
           /\ s = [type |-> s.type, starts |-> s.starts, partTypes |-> s.partTypes, vertices |-> s.vertices, measured |-> s.measured]
<1>1. s \in [type : ShapeTypes, starts : Seq(Nat), partTypes : Seq(Int), vertices : Seq(Vertex), measured : BOOLEAN]
  BY DEF Shapes
<1>2. s.starts \in Seq(Int)
  BY <1>1
<1>3. QED
  BY <1>1, <1>2 DEF WritesM

\* A shape made of what is read of a shape's vertices is one that a record can
\* hold, and the one stored unless measures have come to it.
LEMMA ShapeRead ==
    ASSUME NEW s \in Shapes, NEW v, ReadFrom(s.vertices, WritesM(s), v), s.type = SHPT_NULL => ~v.measured
    PROVE  /\ Shape(s.type, s.starts, s.partTypes, v) \in Shapes
           /\ WritesM(s) \/ ~v.measured => Shape(s.type, s.starts, s.partTypes, v) = Stored(s)
<1> DEFINE r == Shape(s.type, s.starts, s.partTypes, v)
           n == Len(s.vertices)
<1>1. /\ s.type \in ShapeTypes /\ s.starts \in Seq(Nat) /\ s.partTypes \in Seq(Int) /\ s.vertices \in Seq(Vertex)
      /\ s.measured \in BOOLEAN
      /\ s = [type |-> s.type, starts |-> s.starts, partTypes |-> s.partTypes, vertices |-> s.vertices, measured |-> s.measured]
  BY ShapeFacts DEF Shapes
<1>2. r = [type |-> s.type, starts |-> s.starts, partTypes |-> s.partTypes, vertices |-> v.vertices, measured |-> v.measured]
  BY DEF Shape
<1>3. /\ v.vertices \in Seq(Vertex) /\ Len(v.vertices) = n /\ v.measured \in BOOLEAN
      /\ \A i \in 1..n : /\ v.vertices[i][1] = s.vertices[i][1] /\ v.vertices[i][2] = s.vertices[i][2]
                         /\ v.vertices[i][3] = s.vertices[i][3] /\ (~v.measured => v.vertices[i][4] = 0)
      /\ WritesM(s) => v.measured /\ v.vertices = s.vertices
  BY DEF ReadFrom
<1>4. n \in Nat /\ DOMAIN s.vertices = 1..n /\ DOMAIN v.vertices = 1..n
  BY <1>1, <1>3
<1>5. /\ r \in [type : ShapeTypes, starts : Seq(Nat), partTypes : Seq(Int), vertices : Seq(Vertex), measured : BOOLEAN]
      /\ r.type = s.type /\ r.starts = s.starts /\ r.partTypes = s.partTypes /\ r.vertices = v.vertices /\ r.measured = v.measured
  BY <1>1, <1>2, <1>3
<1> HIDE DEF r
<1>6. r \in Shapes
  <2>1. PartsInOrder(r)
    <3>1. PartsInOrder(s)
      BY DEF Shapes
    <3>2. QED
      BY <1>3, <1>5, <3>1 DEF PartsInOrder
  <2>2. RightCount(r)
    <3>1. RightCount(s)
      BY DEF Shapes
    <3>2. s.type = SHPT_NULL => n = 0
      BY <3>1 DEF RightCount
    <3>3. s.type = SHPT_NULL => v.vertices = <<>>
      BY <1>3, <3>2
    <3>4. QED
      BY <1>3, <1>5, <3>1, <3>3 DEF RightCount
  <2>3. NothingElse(r)
    <3>1. NothingElse(s)
      BY DEF Shapes
    <3>2. QED
      BY <1>3, <1>4, <1>5, <3>1 DEF NothingElse
  <2>4. QED
    BY <1>5, <2>1, <2>2, <2>3 DEF Shapes
<1>7. ASSUME WritesM(s) PROVE r = Stored(s)
  BY <1>1, <1>2, <1>3, <1>7 DEF WritesM, Stored
<1>8. ASSUME ~WritesM(s), ~v.measured PROVE r = Stored(s)
  <2>1. \A i \in 1..n : /\ v.vertices[i] = <<s.vertices[i][1], s.vertices[i][2], s.vertices[i][3], 0>>
                        /\ s.vertices[i] = <<s.vertices[i][1], s.vertices[i][2], s.vertices[i][3], s.vertices[i][4]>>
    BY <1>1, <1>3, <1>8, VertexFacts
  <2>2. CASE HasM(s.type)
    <3>1. ~s.measured
      BY <1>8, <2>2 DEF WritesM
    <3>2. \A i \in 1..n : s.vertices[i][4] = 0
      BY <1>4, <3>1 DEF Shapes, NothingElse
    <3>3. \A i \in 1..n : v.vertices[i] = s.vertices[i]
      BY <2>1, <3>2
    <3>4. v.vertices = s.vertices
      BY <1>1, <1>3, <3>3, SeqEqual
    <3>5. v.measured = s.measured
      BY <1>1, <1>3, <1>8, <3>1
    <3>6. QED
      BY <1>1, <1>2, <2>2, <3>4, <3>5 DEF Stored
  <2>3. CASE ~HasM(s.type)
    <3> DEFINE u == [i \in 1..n |-> <<s.vertices[i][1], s.vertices[i][2], s.vertices[i][3], 0>>]
    <3>1. Stored(s) = [type |-> s.type, starts |-> s.starts, partTypes |-> s.partTypes, vertices |-> u, measured |-> FALSE]
      BY <1>1, <1>4, <2>3 DEF Stored
    <3>2. v.vertices = u
      <4>1. v.vertices = [i \in 1..n |-> v.vertices[i]]
        BY <1>3, <1>4
      <4>2. QED
        BY <2>1, <4>1
    <3>3. QED
      BY <1>2, <1>3, <1>8, <3>1, <3>2
  <2>4. QED
    BY <2>2, <2>3
<1>9. QED
  BY <1>6, <1>7, <1>8 DEF r

\* The length of two pieces, one after the other.
LEMMA JoinedFacts ==
    ASSUME NEW a \in Seq(Int), NEW b \in Seq(Int)
    PROVE  a \o b \in Seq(Int) /\ Len(a \o b) = Len(a) + Len(b)
BY ConcatProperties

\* A piece that is left out.
LEMMA EmptyPiece == <<>> \in Seq(Int) /\ Len(<<>>) = 0
OBVIOUS

\* The records with vertices end alike: x and y, then z, then m.
RecordOf(t, q, vs, e, z, w) ==
    <<t>> \o (q \o XY(vs) \o (IF z THEN Ranged(vs, e, 3) ELSE <<>>) \o (IF w THEN Ranged(vs, e, 4) ELSE <<>>))

LEMMA VerticesPlaced ==
    ASSUME NEW t \in Int, NEW q \in Seq(Int), NEW vs \in Seq(Vertex), NEW e \in Bounds, NEW z \in BOOLEAN, NEW w \in BOOLEAN,
           ~z => \A i \in 1..Len(vs) : vs[i][3] = 0
    PROVE  /\ RecordOf(t, q, vs, e, z, w) \in Seq(Int)
           /\ Len(RecordOf(t, q, vs, e, z, w)) = Len(q) + 1 + 2 * Len(vs) + Extra(z, Len(vs)) + Extra(w, Len(vs))
           /\ \A c \in Seq(Int) : Begins(c, RecordOf(t, q, vs, e, z, w)) =>
                 /\ c[1] = t /\ \A k \in 1..Len(q) : c[1 + k] = q[k]
                 /\ Len(q) + 1 <= Len(c) /\ VerticesLie(c, Len(q) + 1, vs, z, w)
<1> DEFINE X == XY(vs)
           Z == IF z THEN Ranged(vs, e, 3) ELSE <<>>
           M == IF w THEN Ranged(vs, e, 4) ELSE <<>>
           n == Len(vs)
           a == q \o X
           b == a \o Z
           r == b \o M
           one == <<t>>
<1>0. n \in Nat /\ Len(q) \in Nat
  OBVIOUS
<1>1. X \in Seq(Int) /\ Len(X) = 2 * n
  BY PiecesFacts
<1>2. /\ Z \in Seq(Int) /\ Len(Z) = Extra(z, n) /\ Extra(z, n) \in Nat
      /\ z => \A i \in 1..n : Z[2 + i] = vs[i][3]
  <2>1. CASE z
    <3>a. 1..4 = {1, 2, 3, 4}
      OBVIOUS
    <3>b. /\ Ranged(vs, e, 3) \in Seq(Int) /\ Len(Ranged(vs, e, 3)) = Len(vs) + 2
          /\ \A i \in 1..Len(vs) : Ranged(vs, e, 3)[2 + i] = vs[i][3]
      BY <3>a, PiecesFacts
    <3>1. Z = Ranged(vs, e, 3) /\ Extra(z, n) = n + 2
      BY <2>1 DEF Extra
    <3>2. n + 2 \in Nat
      BY <1>0
    <3> HIDE DEF Z
    <3>3. QED
      BY <3>1, <3>2, <3>b
  <2>2. CASE ~z
    BY <2>2, EmptyPiece DEF Extra
  <2>3. QED
    BY <2>1, <2>2
<1>3. /\ M \in Seq(Int) /\ Len(M) = Extra(w, n) /\ Extra(w, n) \in Nat
      /\ w => \A i \in 1..n : M[2 + i] = vs[i][4]
  <2>1. CASE w
    <3>a. 1..4 = {1, 2, 3, 4}
      OBVIOUS
    <3>b. /\ Ranged(vs, e, 4) \in Seq(Int) /\ Len(Ranged(vs, e, 4)) = Len(vs) + 2
          /\ \A i \in 1..Len(vs) : Ranged(vs, e, 4)[2 + i] = vs[i][4]
      BY <3>a, PiecesFacts
    <3>1. M = Ranged(vs, e, 4) /\ Extra(w, n) = n + 2
      BY <2>1 DEF Extra
    <3>2. n + 2 \in Nat
      BY <1>0
    <3> HIDE DEF M
    <3>3. QED
      BY <3>1, <3>2, <3>b
  <2>2. CASE ~w
    BY <2>2, EmptyPiece DEF Extra
  <2>3. QED
    BY <2>1, <2>2
<1> HIDE DEF X, Z, M
<1>b. Extra(z, n) \in Nat /\ Extra(w, n) \in Nat
  BY <1>2, <1>3
<1>c. \A u, v, x, y, k \in Nat : u + 1 + 2 * k + x + y = 1 + (((u + 2 * k) + x) + y)
  OBVIOUS
<1>4. a \in Seq(Int) /\ Len(a) = Len(q) + Len(X)
  BY <1>1, JoinedFacts
<1>5. b \in Seq(Int) /\ Len(b) = Len(a) + Len(Z)
  <2> HIDE DEF a
  <2>1. QED
    BY <1>2, <1>4, JoinedFacts
<1>6. r \in Seq(Int) /\ Len(r) = Len(b) + Len(M)
  <2> HIDE DEF a, b
  <2>1. QED
    BY <1>3, <1>5, JoinedFacts
<1>7. one \in Seq(Int) /\ Len(one) = 1 /\ one[1] = t
  OBVIOUS
<1>8. one \o r \in Seq(Int) /\ Len(one \o r) = Len(one) + Len(r)
  <2> HIDE DEF r, one
  <2>1. QED
    BY <1>6, <1>7, JoinedFacts
<1>9. RecordOf(t, q, vs, e, z, w) = one \o r
  BY DEF RecordOf, X, Z, M
<1> HIDE DEF a, b, r, one
<1>10. Len(one \o r) = Len(q) + 1 + 2 * n + Extra(z, n) + Extra(w, n)
  <2>1. Len(one \o r) = 1 + (((Len(q) + 2 * n) + Extra(z, n)) + Extra(w, n))
    BY <1>1, <1>2, <1>3, <1>4, <1>5, <1>6, <1>7, <1>8
  <2> HIDE DEF n
  <2>2. QED
    BY <1>0, <1>b, <2>1
<1>11. ASSUME NEW c \in Seq(Int), Begins(c, one \o r)
       PROVE  /\ c[1] = t /\ \A k \in 1..Len(q) : c[1 + k] = q[k]
              /\ Len(q) + 1 <= Len(c) /\ VerticesLie(c, Len(q) + 1, vs, z, w)
  <2> DEFINE d == Tail(c)
  <2>1. /\ Begins(c, one) /\ Len(one) + Len(r) <= Len(c)
        /\ \A k \in 1..Len(r) : c[Len(one) + k] = r[k]
    BY <1>6, <1>7, <1>11, BeginsWithBoth
  <2>2. c[1] = t /\ c # <<>> /\ Len(c) \in Nat /\ Len(c) >= 1
    <3>1. 1 \in 1..Len(one) /\ Len(c) \in Nat /\ Len(c) >= 1
      BY <1>7, <2>1 DEF Begins
    <3>2. QED
      BY <1>7, <2>1, <3>1 DEF Begins
  <2>3. d \in Seq(Int) /\ Len(d) = Len(c) - 1 /\ \A k \in 1..Len(d) : d[k] = c[k + 1]
    BY <2>2, HeadTailProperties
  <2> HIDE DEF d
  <2>4. Begins(d, b \o M)
    <3>1. Len(r) \in Nat /\ Len(r) <= Len(d)
      BY <1>6, <1>7, <2>1, <2>2, <2>3
    <3>2. \A k \in 1..Len(r) : k \in 1..Len(d) /\ k + 1 = Len(one) + k
      BY <1>7, <2>2, <2>3, <3>1
    <3>3. \A k \in 1..Len(r) : d[k] = r[k]
      BY <2>1, <2>3, <3>2
    <3>4. QED
      BY <3>1, <3>3 DEF Begins, r
  <2>5. Begins(d, a \o Z) /\ Len(b) + Len(M) <= Len(d) /\ \A k \in 1..Len(M) : d[Len(b) + k] = M[k]
    BY <1>3, <1>5, <2>3, <2>4, BeginsWithBoth DEF b
  <2>6. Begins(d, q \o X) /\ Len(a) + Len(Z) <= Len(d) /\ \A k \in 1..Len(Z) : d[Len(a) + k] = Z[k]
    BY <1>2, <1>4, <2>3, <2>5, BeginsWithBoth DEF a
  <2>7. Begins(d, q) /\ Len(q) + Len(X) <= Len(d) /\ \A k \in 1..Len(X) : d[Len(q) + k] = X[k]
    BY <1>1, <2>3, <2>6, BeginsWithBoth
  <2>8. \A k \in Nat : k >= 1 /\ k <= Len(d) => c[1 + k] = d[k]
    <3>1. Len(d) \in Nat /\ \A k \in 1..Len(d) : d[k] = c[k + 1]
      BY <2>3
    <3>2. \A k \in Nat : k >= 1 /\ k <= Len(d) => k \in 1..Len(d) /\ 1 + k = k + 1
      BY <3>1
    <3>3. QED
      BY <3>1, <3>2
  <2>a. /\ Len(X) = 2 * n /\ Len(a) = Len(q) + 2 * n /\ Len(b) = Len(q) + 2 * n + Extra(z, n)
        /\ Len(Z) = Extra(z, n) /\ Len(M) = Extra(w, n) /\ Len(d) = Len(c) - 1
    <3>1. /\ Len(a) = Len(q) + Len(X) /\ Len(b) = Len(a) + Len(Z) /\ Len(X) = 2 * n
          /\ Len(Z) = Extra(z, n) /\ Len(M) = Extra(w, n) /\ Len(d) = Len(c) - 1
      BY <1>1, <1>2, <1>3, <1>4, <1>5, <2>3
    <3>2. Len(a) = Len(q) + 2 * n
      BY <3>1
    <3>3. Len(b) = Len(q) + 2 * n + Extra(z, n)
      BY <3>1, <3>2
    <3>4. QED
      BY <3>1, <3>2, <3>3
  <2>9. \A k \in 1..Len(q) : c[1 + k] = q[k]
    <3>1. \A k \in 1..Len(q) : k \in Nat /\ k >= 1 /\ k <= Len(d)
      <4>1. Len(q) <= Len(d)
        BY <2>7 DEF Begins
      <4>2. Len(d) \in Nat
        BY <2>3
      <4>3. QED
        BY <1>0, <4>1, <4>2
    <3>2. QED
      BY <2>7, <2>8, <3>1 DEF Begins
  <2>10. VerticesLie(c, Len(q) + 1, vs, z, w)
    <3> DEFINE at == Len(q) + 1
    <3>0. Len(d) \in Nat /\ Len(c) \in Nat
      BY <2>3
    <3>1. at + 2 * n + Extra(z, n) + Extra(w, n) <= Len(c)
      <4> HIDE DEF n
      <4>1. Len(b) + Len(M) <= Len(d)
        BY <2>5
      <4>2. (Len(q) + 2 * n + Extra(z, n)) + Extra(w, n) <= Len(c) - 1
        BY <2>a, <4>1
      <4>3. \A x, y \in Nat : (Len(q) + 2 * n + x) + y <= Len(c) - 1 => Len(q) + 1 + 2 * n + x + y <= Len(c)
        BY <1>0, <3>0
      <4>4. QED
        BY <1>b, <4>2, <4>3
    <3>2. \A k \in 1..2 * n : c[at + k] = X[k]
      <4> HIDE DEF n
      <4>1. ASSUME NEW k \in 1..2 * n PROVE c[at + k] = X[k]
        <5>1. Len(q) + Len(X) <= Len(d)
          BY <2>7
        <5>2. Len(q) + k \in Nat /\ Len(q) + k >= 1 /\ Len(q) + k <= Len(d) /\ 1 + (Len(q) + k) = at + k /\ k \in 1..Len(X)
          <6>1. Len(X) = 2 * n /\ k \in 1..2 * n /\ at = Len(q) + 1 /\ n \in Nat /\ Len(q) \in Nat /\ Len(d) \in Nat
            BY <1>0, <2>a, <3>0, <4>1
          <6>2. \A y, u, v, m \in Nat : u + 2 * m <= v => \A j \in 1..2 * m :
                   u + j \in Nat /\ u + j >= 1 /\ u + j <= v /\ 1 + (u + j) = u + 1 + j
            OBVIOUS
          <6>3. QED
            BY <5>1, <6>1, <6>2
        <5>3. QED
          BY <2>7, <2>8, <5>2
      <4>2. QED
        BY <4>1
    <3>3. ASSUME NEW i \in 1..n, z PROVE c[at + 2 * n + 2 + i] = vs[i][3]
      <4>1. Extra(z, n) = n + 2 /\ Len(a) + Len(Z) <= Len(d)
        BY <2>6, <3>3 DEF Extra
      <4>2. Z[2 + i] = vs[i][3]
        BY <1>2, <3>3
      <4> HIDE DEF n
      <4>3. /\ Len(a) + (2 + i) \in Nat /\ Len(a) + (2 + i) >= 1 /\ Len(a) + (2 + i) <= Len(d)
            /\ 1 + (Len(a) + (2 + i)) = at + 2 * n + 2 + i /\ 2 + i \in 1..Len(Z)
        <5>1. /\ n \in Nat /\ Len(q) \in Nat /\ Len(d) \in Nat /\ Len(a) = Len(q) + 2 * n /\ Len(Z) = n + 2
              /\ Len(a) + (n + 2) <= Len(d) /\ at = Len(q) + 1
          BY <1>0, <2>a, <3>0, <4>1
        <5>2. \A u, v, m \in Nat : u + 2 * m + (m + 2) <= v => \A j \in 1..m :
                 /\ u + 2 * m + (2 + j) \in Nat /\ u + 2 * m + (2 + j) >= 1 /\ u + 2 * m + (2 + j) <= v
                 /\ 1 + (u + 2 * m + (2 + j)) = u + 1 + 2 * m + 2 + j /\ 2 + j \in 1..m + 2
          OBVIOUS
        <5>3. QED
          BY <3>3, <5>1, <5>2
      <4>4. QED
        BY <2>6, <2>8, <4>2, <4>3
    <3>4. ASSUME NEW i \in 1..n, w PROVE c[at + 2 * n + Extra(z, n) + 2 + i] = vs[i][4]
      <4>1. Extra(w, n) = n + 2 /\ Len(b) + Len(M) <= Len(d)
        BY <2>5, <3>4 DEF Extra
      <4>2. M[2 + i] = vs[i][4]
        BY <1>3, <3>4
      <4> HIDE DEF n
      <4>3. /\ Len(b) + (2 + i) \in Nat /\ Len(b) + (2 + i) >= 1 /\ Len(b) + (2 + i) <= Len(d)
            /\ 1 + (Len(b) + (2 + i)) = at + 2 * n + Extra(z, n) + 2 + i /\ 2 + i \in 1..Len(M)
        <5>1. (Len(q) + 2 * n + Extra(z, n)) + (n + 2) <= Len(d) /\ Len(M) = n + 2
          BY <2>a, <4>1
        <5>2. \A x \in Nat : (Len(q) + 2 * n + x) + (n + 2) <= Len(d) =>
                 /\ (Len(q) + 2 * n + x) + (2 + i) \in Nat /\ (Len(q) + 2 * n + x) + (2 + i) >= 1
                 /\ (Len(q) + 2 * n + x) + (2 + i) <= Len(d)
                 /\ 1 + ((Len(q) + 2 * n + x) + (2 + i)) = Len(q) + 1 + 2 * n + x + 2 + i
          BY <1>0, <3>0
        <5>3. 2 + i \in 1..n + 2
          BY <1>0
        <5>4. QED
          BY <1>b, <2>a, <5>1, <5>2, <5>3
      <4>4. QED
        BY <2>5, <2>8, <4>2, <4>3
    <3>5. QED
      BY <3>1, <3>2, <3>3, <3>4 DEF VerticesLie, X
  <2>11. Len(q) + 1 <= Len(c)
    <3>1. Len(q) <= Len(d) /\ Len(d) \in Nat
      BY <2>3, <2>7 DEF Begins
    <3>2. QED
      BY <1>0, <2>2, <2>3, <3>1
  <2>12. QED
    BY <2>2, <2>9, <2>10, <2>11
<1>12. QED
  BY <1>8, <1>9, <1>10, <1>11

\* What a record has begun with is read, whatever follows it.
Recorded(s) ==
    /\ Content(s) \in Seq(Int) /\ Len(Content(s)) > 0
    /\ \A c \in Seq(Int) : Begins(c, Content(s)) =>
          /\ ShapeOf(c) \in Shapes
          /\ Len(c) = Len(Content(s)) => ShapeOf(c) = Stored(s)

\* The two kinds of records with vertices.
LEMMA RecordedByVertices ==
    ASSUME NEW s \in Shapes, NEW q \in Seq(Int), NEW e \in Bounds, s.type # SHPT_NULL,
           Content(s) = RecordOf(s.type, q, s.vertices, e, HasZ(s.type), WritesM(s)),
           \A c \in Seq(Int) : /\ c[1] = s.type /\ \A k \in 1..Len(q) : c[1 + k] = q[k]
                               /\ Len(q) + 1 <= Len(c)
                               /\ Len(c) >= Len(q) + 1 + 2 * Len(s.vertices) + Extra(HasZ(s.type), Len(s.vertices))
                               => ShapeOf(c) = Shape(s.type, s.starts, s.partTypes,
                                                     VerticesAt(c, Len(q) + 1, Len(s.vertices), HasZ(s.type)))
    PROVE  Recorded(s)
<1> DEFINE t == s.type
           vs == s.vertices
           z == HasZ(s.type)
           w == WritesM(s)
           n == Len(vs)
<1>1. /\ t \in ShapeTypes /\ t \in Int /\ vs \in Seq(Vertex) /\ z \in BOOLEAN /\ w \in BOOLEAN
      /\ ~z => \A i \in 1..Len(vs) : vs[i][3] = 0
  <2>1. NothingElse(s)
    BY DEF Shapes
  <2>2. DOMAIN vs = 1..Len(vs)
    BY ShapeFacts
  <2>3. QED
    BY <2>1, <2>2, ShapeFacts, TypeFacts DEF NothingElse
<1>a. n \in Nat /\ Len(q) \in Nat /\ Extra(z, n) \in Nat /\ Extra(w, n) \in Nat
  <2>1. n \in Nat /\ Len(q) \in Nat
    BY <1>1
  <2> HIDE DEF n
  <2>2. QED
    BY <2>1 DEF Extra
<1>2. /\ Content(s) \in Seq(Int)
      /\ Len(Content(s)) = Len(q) + 1 + 2 * n + Extra(z, n) + Extra(w, n)
      /\ \A c \in Seq(Int) : Begins(c, Content(s)) =>
            /\ c[1] = t /\ \A k \in 1..Len(q) : c[1 + k] = q[k]
            /\ Len(q) + 1 <= Len(c) /\ VerticesLie(c, Len(q) + 1, vs, z, w)
  <2> HIDE DEF t, vs, z, w
  <2>1. Content(s) = RecordOf(t, q, vs, e, z, w)
    BY DEF t, vs, z, w
  <2>2. QED
    BY <1>1, <2>1, VerticesPlaced
<1>3. ASSUME NEW c \in Seq(Int), Begins(c, Content(s))
      PROVE  ShapeOf(c) \in Shapes /\ (Len(c) = Len(Content(s)) => ShapeOf(c) = Stored(s))
  <2> DEFINE at == Len(q) + 1
             v == VerticesAt(c, at, n, z)
  <2>1. /\ c[1] = t /\ \A k \in 1..Len(q) : c[1 + k] = q[k]
        /\ Len(q) + 1 <= Len(c) /\ VerticesLie(c, at, vs, z, w)
    BY <1>2, <1>3
  <2>2. Len(c) \in Nat /\ Len(c) >= Len(q) + 1 + 2 * n + Extra(z, n)
    <3>1. at + 2 * n + Extra(z, n) + Extra(w, n) <= Len(c)
      <4> HIDE DEF z, w, at
      <4>1. QED
        BY <2>1 DEF VerticesLie
    <3>a. Len(c) \in Nat
      OBVIOUS
    <3> HIDE DEF n
    <3>2. \A x, y \in Nat : at + 2 * n + x + y <= Len(c) => Len(c) >= Len(q) + 1 + 2 * n + x
      BY <1>a, <3>a
    <3>3. QED
      BY <1>a, <3>1, <3>2, <3>a
  <2>3. ShapeOf(c) = Shape(t, s.starts, s.partTypes, v)
    BY <2>1, <2>2
  <2>4. ReadFrom(vs, w, v) /\ (~w /\ Len(c) = at + 2 * n + Extra(z, n) => ~v.measured)
    <3>1. at \in Nat
      BY <1>a
    <3> HIDE DEF at, vs, z, w
    <3>2. QED
      BY <1>1, <2>1, <3>1, VerticesRead
  <2> HIDE DEF v
  <2>5. /\ Shape(t, s.starts, s.partTypes, v) \in Shapes
        /\ w \/ ~v.measured => Shape(t, s.starts, s.partTypes, v) = Stored(s)
    BY <2>4, ShapeRead
  <2>6. Len(c) = Len(Content(s)) /\ ~w => ~v.measured
    <3>1. ~w => Extra(w, n) = 0
      BY DEF Extra
    <3>2. Len(c) = Len(Content(s)) /\ ~w => Len(c) = at + 2 * n + Extra(z, n) + 0
      BY <1>2, <3>1
    <3> HIDE DEF n, z, w
    <3>3. \A x \in Nat : at + 2 * n + x + 0 = at + 2 * n + x
      BY <1>a
    <3>4. QED
      BY <1>a, <2>4, <3>2, <3>3 DEF n
  <2>7. QED
    BY <2>3, <2>5, <2>6
<1>4. Len(Content(s)) > 0
  <2> HIDE DEF n
  <2>1. \A x, y \in Nat : Len(q) + 1 + 2 * n + x + y > 0
    BY <1>a
  <2>2. QED
    BY <1>2, <1>a, <2>1 DEF n
<1>5. QED
  BY <1>2, <1>3, <1>4 DEF Recorded

\* The records of multipoints are read as they are written ...
LEMMA MultiPointRecorded ==
    ASSUME NEW s \in Shapes, Base(s.type) = SHPT_MULTIPOINT
    PROVE  Recorded(s)
<1> DEFINE vs == s.vertices
           n == Len(vs)
           e == SHPComputeExtents(vs)
           b == _SHPSetBounds(e)
           q == b \o <<n>>
<1>1. s.type \in ShapeTypes /\ vs \in Seq(Vertex) /\ n \in Nat /\ ~Parted(s.type) /\ s.type # SHPT_NULL
  BY ShapeFacts, TypeFacts
<1>2. e \in Bounds
  BY <1>1, ExtentsFacts
<1>3. b \in Seq(Int) /\ Len(b) = 4
  <2> HIDE DEF e
  <2>1. QED
    BY <1>1, <1>2, PiecesFacts
<1>4. q \in Seq(Int) /\ Len(q) = 5 /\ q[5] = n
  <2> HIDE DEF b, n
  <2>1. <<n>> \in Seq(Int) /\ Len(<<n>>) = 1 /\ <<n>>[1] = n
    BY <1>1
  <2>2. /\ q \in Seq(Int) /\ Len(q) = Len(b) + Len(<<n>>)
        /\ \A i \in 1..Len(b) + Len(<<n>>) : q[i] = IF i <= Len(b) THEN b[i] ELSE <<n>>[i - Len(b)]
    BY <1>3, <2>1, ConcatProperties
  <2> HIDE DEF q
  <2>3. QED
    BY <1>3, <2>1, <2>2
<1>5. Content(s) = RecordOf(s.type, q, vs, e, HasZ(s.type), WritesM(s))
  <2>1. Content(s) = <<s.type>> \o MultiPointRecord(s, e)
    <3> HIDE DEF e
    <3>1. ASSUME NEW x, NEW y, NEW w
          PROVE  (CASE Parted(s.type) -> x [] Base(s.type) = SHPT_MULTIPOINT -> y [] Base(s.type) = SHPT_POINT -> w
                    [] OTHER -> <<>>) = y
      BY <1>1, TypeFacts
    <3>2. QED
      BY <3>1 DEF Content, e
  <2>2. QED
    BY <2>1 DEF MultiPointRecord, RecordOf
<1>6. s.starts = <<>> /\ s.partTypes = <<>>
  <2>1. PartsInOrder(s)
    BY DEF Shapes
  <2>2. QED
    BY <1>1, <2>1 DEF PartsInOrder
<1> HIDE DEF q, e
<1>7. ASSUME NEW c \in Seq(Int), c[1] = s.type, \A k \in 1..Len(q) : c[1 + k] = q[k], Len(q) + 1 <= Len(c),
             Len(c) >= Len(q) + 1 + 2 * n + Extra(HasZ(s.type), n)
      PROVE  ShapeOf(c) = Shape(s.type, s.starts, s.partTypes, VerticesAt(c, Len(q) + 1, n, HasZ(s.type)))
  <2>1. c[6] = n
    <3>1. 5 \in 1..Len(q) /\ 1 + 5 = 6
      BY <1>4
    <3>2. c[1 + 5] = q[5]
      BY <1>7, <3>1
    <3>3. QED
      BY <1>4, <3>2
  <2>2. Len(c) \in Nat /\ ~(Len(c) < 6)
    <3>1. Len(c) \in Nat
      BY <1>7
    <3>2. 5 + 1 <= Len(c)
      BY <1>4, <1>7
    <3>3. QED
      BY <3>1, <3>2
  <2>3. Len(q) + 1 = 6
    BY <1>4
  <2>4. ShapeOf(c) = ReadMultiPoint(c, n)
    BY <1>1, <1>7, <2>1, <2>2 DEF ShapeOf
  <2>5. ~(Len(c) < 6 + 2 * n + (IF HasZ(c[1]) THEN 2 + n ELSE 0))
    <3>1. (IF HasZ(c[1]) THEN 2 + n ELSE 0) = Extra(HasZ(s.type), n) /\ Extra(HasZ(s.type), n) \in Nat
      <4> HIDE DEF n
      <4>1. QED
        BY <1>1, <1>7 DEF Extra
    <3>2. Len(c) >= 6 + 2 * n + Extra(HasZ(s.type), n)
      BY <1>7, <2>3
    <3> HIDE DEF n
    <3>3. \A x \in Nat : Len(c) >= 6 + 2 * n + x => ~(Len(c) < 6 + 2 * n + x)
      BY <1>1, <2>2
    <3>4. QED
      BY <3>1, <3>2, <3>3
  <2>6. QED
    BY <1>6, <1>7, <2>3, <2>4, <2>5 DEF ReadMultiPoint
<1>8. QED
  BY <1>1, <1>2, <1>4, <1>5, <1>7, RecordedByVertices

\* Two pieces, one after the other, cell by cell.
LEMMA ConcatFacts ==
    ASSUME NEW a \in Seq(Int), NEW b \in Seq(Int)
    PROVE  /\ a \o b \in Seq(Int) /\ Len(a \o b) = Len(a) + Len(b)
           /\ \A k \in 1..Len(a) : (a \o b)[k] = a[k]
           /\ \A k \in 1..Len(b) : (a \o b)[Len(a) + k] = b[k]
<1> DEFINE p == a \o b
<1>1. p \in Seq(Int) /\ Len(p) = Len(a) + Len(b)
      /\ \A k \in 1..Len(a) + Len(b) : p[k] = IF k <= Len(a) THEN a[k] ELSE b[k - Len(a)]
  BY ConcatProperties
<1>2. Len(a) \in Nat /\ Len(b) \in Nat
  OBVIOUS
<1> HIDE DEF p
<1>3. \A k \in 1..Len(a) : k \in 1..Len(a) + Len(b) /\ k <= Len(a)
  BY <1>2
<1>4. \A k \in 1..Len(b) : Len(a) + k \in 1..Len(a) + Len(b) /\ ~(Len(a) + k <= Len(a)) /\ (Len(a) + k) - Len(a) = k
  BY <1>2
<1>5. /\ \A k \in 1..Len(a) : p[k] = a[k]
      /\ \A k \in 1..Len(b) : p[Len(a) + k] = b[k]
  BY <1>1, <1>3, <1>4
<1>6. QED
  BY <1>1, <1>5 DEF p

\* A stretch of cells.
LEMMA SubSeqFacts ==
    ASSUME NEW c \in Seq(Int), NEW a \in Nat, NEW z \in Nat, 1 <= a, a <= z + 1, z <= Len(c)
    PROVE  /\ SubSeq(c, a, z) \in Seq(Int) /\ Len(SubSeq(c, a, z)) = z + 1 - a
           /\ \A i \in 1..z + 1 - a : SubSeq(c, a, z)[i] = c[a + i - 1]
<1> DEFINE ss == SubSeq(c, a, z)
<1>1. Len(c) \in Nat /\ \A i \in a..z : c[i] \in Int
  OBVIOUS
<1>2. ss \in Seq(Int) /\ Len(ss) = (IF a <= z THEN z - a + 1 ELSE 0) /\ \A i \in 1..z - a + 1 : ss[i] = c[a + i - 1]
  BY <1>1, SubSeqProperties
<1> HIDE DEF ss
<1>3. Len(ss) = z + 1 - a /\ z - a + 1 = z + 1 - a
  BY <1>2
<1>4. QED
  BY <1>2, <1>3 DEF ss

\* ... those of arcs, polygons and multipatches, their parts with them ...
LEMMA PartsRecorded ==
    ASSUME NEW s \in Shapes, Parted(s.type)
    PROVE  Recorded(s)
<1> DEFINE vs == s.vertices
           n == Len(vs)
           p == Len(s.starts)
           e == SHPComputeExtents(vs)
           b == _SHPSetBounds(e)
           two == <<p, n>>
           T == IF s.type = SHPT_MULTIPATCH THEN s.partTypes ELSE <<>>
           o == b \o two
           u == o \o s.starts
           q == u \o T
<1>1. /\ s.type \in ShapeTypes /\ vs \in Seq(Vertex) /\ n \in Nat /\ s.starts \in Seq(Int) /\ s.partTypes \in Seq(Int)
      /\ p \in Nat /\ s.type # SHPT_NULL
  BY ShapeFacts, TypeFacts
<1>2. /\ GoodStarts(s.starts, n) /\ Len(s.partTypes) = p
      /\ s.type = SHPT_MULTIPATCH \/ \A k \in DOMAIN s.partTypes : s.partTypes[k] = SHPP_RING
  BY DEF Shapes, PartsInOrder
<1>3. e \in Bounds
  BY <1>1, ExtentsFacts
<1>4. b \in Seq(Int) /\ Len(b) = 4
  <2> HIDE DEF e
  <2>1. QED
    BY <1>1, <1>3, PiecesFacts
<1>5. T \in Seq(Int) /\ Len(T) = (IF s.type = SHPT_MULTIPATCH THEN p ELSE 0)
  BY <1>1, <1>2
<1>6. two \in Seq(Int) /\ Len(two) = 2 /\ two[1] = p /\ two[2] = n
  BY <1>1
<1>a. Content(s) = RecordOf(s.type, q, vs, e, HasZ(s.type), WritesM(s))
  <2>1. Content(s) = <<s.type>> \o PartsRecord(s, e)
    <3> HIDE DEF e
    <3>1. ASSUME NEW x, NEW y, NEW w
          PROVE  (CASE Parted(s.type) -> x [] Base(s.type) = SHPT_MULTIPOINT -> y [] Base(s.type) = SHPT_POINT -> w
                    [] OTHER -> <<>>) = x
      BY <1>1, TypeFacts
    <3>2. QED
      BY <3>1 DEF Content, e
  <2>2. QED
    BY <2>1 DEF PartsRecord, RecordOf
<1> HIDE DEF T, e, b, two
<1>7. o \in Seq(Int) /\ Len(o) = 6 /\ o[5] = p /\ o[6] = n
  <2>1. /\ o \in Seq(Int) /\ Len(o) = Len(b) + Len(two)
        /\ \A k \in 1..Len(two) : o[Len(b) + k] = two[k]
    BY <1>4, <1>6, ConcatFacts
  <2>2. 1 \in 1..Len(two) /\ 2 \in 1..Len(two) /\ Len(b) + 1 = 5 /\ Len(b) + 2 = 6
    BY <1>4, <1>6
  <2> HIDE DEF o, p, n
  <2>3. QED
    BY <1>4, <1>6, <2>1, <2>2
<1> HIDE DEF o
<1>8. u \in Seq(Int) /\ Len(u) = 6 + p /\ u[5] = p /\ u[6] = n /\ \A k \in 1..p : u[6 + k] = s.starts[k]
  <2>1. /\ u \in Seq(Int) /\ Len(u) = Len(o) + p
        /\ \A k \in 1..Len(o) : u[k] = o[k]
        /\ \A k \in 1..p : u[Len(o) + k] = s.starts[k]
    BY <1>1, <1>7, ConcatFacts
  <2>2. 5 \in 1..Len(o) /\ 6 \in 1..Len(o)
    BY <1>7
  <2> HIDE DEF u, p, n
  <2>3. QED
    BY <1>7, <2>1, <2>2
<1> HIDE DEF u
<1>9. /\ q \in Seq(Int) /\ Len(q) = 6 + p + Len(T) /\ q[5] = p /\ q[6] = n
      /\ \A k \in 1..p : q[6 + k] = s.starts[k]
      /\ \A k \in 1..Len(T) : q[6 + p + k] = T[k]
  <2>1. /\ q \in Seq(Int) /\ Len(q) = Len(u) + Len(T)
        /\ \A k \in 1..Len(u) : q[k] = u[k]
        /\ \A k \in 1..Len(T) : q[Len(u) + k] = T[k]
    BY <1>5, <1>8, ConcatFacts
  <2>2. p \in Nat
    BY <1>1
  <2> HIDE DEF q, p, n
  <2>3. 5 \in 1..Len(u) /\ 6 \in 1..Len(u) /\ \A k \in 1..p : 6 + k \in 1..Len(u)
    BY <1>8, <2>2
  <2>4. \A k \in 1..p : q[6 + k] = s.starts[k]
    BY <1>8, <2>1, <2>3
  <2>5. \A k \in 1..Len(T) : q[6 + p + k] = T[k]
    BY <1>8, <2>1
  <2>6. q[5] = p /\ q[6] = n
    BY <1>8, <2>1, <2>3
  <2>7. QED
    BY <1>8, <2>1, <2>4, <2>5, <2>6
<1> HIDE DEF q, u
<1>10. ASSUME NEW c \in Seq(Int), c[1] = s.type, \A k \in 1..Len(q) : c[1 + k] = q[k], Len(q) + 1 <= Len(c),
              Len(c) >= Len(q) + 1 + 2 * n + Extra(HasZ(s.type), n)
       PROVE  ShapeOf(c) = Shape(s.type, s.starts, s.partTypes, VerticesAt(c, Len(q) + 1, n, HasZ(s.type)))
  <2> DEFINE patch == c[1] = SHPT_MULTIPATCH
             at == 7 + p + (IF patch THEN p ELSE 0)
             ss == SubSeq(c, 8, 7 + p)
             ts == SubSeq(c, 8 + p, 7 + 2 * p)
  <2>0. Len(c) \in Nat /\ Len(T) \in Nat /\ Len(q) \in Nat
    <3>1. Len(c) \in Nat
      OBVIOUS
    <3>2. Len(T) \in Nat
      BY <1>5
    <3>3. Len(q) \in Nat
      BY <1>9
    <3>4. QED
      BY <3>1, <3>2, <3>3
  <2>1. c[6] = p /\ c[7] = n
    <3>1. 5 \in 1..Len(q) /\ 6 \in 1..Len(q) /\ 1 + 5 = 6 /\ 1 + 6 = 7
      BY <1>1, <1>9, <2>0
    <3>2. c[1 + 5] = q[5] /\ c[1 + 6] = q[6]
      BY <1>10, <3>1
    <3>3. QED
      BY <1>9, <3>1, <3>2
  <2>2. Len(q) + 1 = at /\ 7 + p <= Len(c) /\ ~(Len(c) < 7) /\ (patch => 7 + 2 * p <= Len(c))
    <3>1. /\ p \in Nat /\ Len(q) = 6 + p + Len(T) /\ Len(T) = (IF patch THEN p ELSE 0)
          /\ Len(c) \in Nat /\ Len(q) + 1 <= Len(c)
      BY <1>1, <1>5, <1>9, <1>10, <2>0
    <3> HIDE DEF p, patch
    <3>2. QED
      BY <3>1
  <2>3. ss = s.starts
    <3>1. 8 \in Nat /\ 7 + p \in Nat /\ 1 <= 8 /\ 8 <= 7 + p + 1 /\ 7 + p <= Len(c) /\ 7 + p + 1 - 8 = p
      BY <1>1, <2>2
    <3>2. ss \in Seq(Int) /\ Len(ss) = p /\ \A i \in 1..p : ss[i] = c[8 + i - 1]
      <4> HIDE DEF p
      <4>1. /\ SubSeq(c, 8, 7 + p) \in Seq(Int) /\ Len(SubSeq(c, 8, 7 + p)) = 7 + p + 1 - 8
            /\ \A i \in 1..7 + p + 1 - 8 : SubSeq(c, 8, 7 + p)[i] = c[8 + i - 1]
        BY <3>1, SubSeqFacts
      <4>2. QED
        BY <3>1, <4>1
    <3>3. \A k \in 1..p : ss[k] = c[1 + (6 + k)] /\ c[1 + (6 + k)] = q[6 + k]
      <4>1. \A k \in 1..p : 8 + k - 1 = 1 + (6 + k) /\ 6 + k \in 1..Len(q)
        <5>1. p \in Nat /\ Len(T) \in Nat /\ Len(q) = 6 + p + Len(T)
          BY <1>1, <1>9, <2>0
        <5> HIDE DEF p
        <5>2. QED
          BY <5>1
      <4> HIDE DEF ss, p
      <4>2. QED
        BY <1>10, <3>2, <4>1
    <3>4. \A k \in 1..p : ss[k] = s.starts[k]
      BY <1>9, <3>3
    <3> HIDE DEF ss
    <3>5. QED
      BY <1>1, <3>2, <3>4, SeqEqual
  <2>4. patch => ts = s.partTypes
    <3> SUFFICES ASSUME patch PROVE ts = s.partTypes
      OBVIOUS
    <3>0. T = s.partTypes /\ Len(T) = p
      BY <1>5, <1>10 DEF T
    <3>1. /\ 8 + p \in Nat /\ 7 + 2 * p \in Nat /\ 1 <= 8 + p /\ 8 + p <= 7 + 2 * p + 1 /\ 7 + 2 * p <= Len(c)
          /\ 7 + 2 * p + 1 - (8 + p) = p
      <4> HIDE DEF p
      <4>1. QED
        BY <1>1, <2>2
    <3>2. ts \in Seq(Int) /\ Len(ts) = p /\ \A i \in 1..p : ts[i] = c[8 + p + i - 1]
      <4> DEFINE f == 8 + p
                 l == 7 + 2 * p
      <4>1. f \in Nat /\ l \in Nat /\ 1 <= f /\ f <= l + 1 /\ l <= Len(c) /\ l + 1 - f = p
        BY <3>1
      <4> HIDE DEF p, f, l
      <4>2. /\ SubSeq(c, f, l) \in Seq(Int) /\ Len(SubSeq(c, f, l)) = p
            /\ \A i \in 1..p : SubSeq(c, f, l)[i] = c[f + i - 1]
        BY <4>1, SubSeqFacts
      <4>3. QED
        BY <4>2 DEF f, l
    <3>3. \A k \in 1..p : ts[k] = c[1 + (6 + p + k)] /\ c[1 + (6 + p + k)] = q[6 + p + k]
      <4>1. \A k \in 1..p : 8 + p + k - 1 = 1 + (6 + p + k) /\ 6 + p + k \in 1..Len(q)
        <5>1. Len(T) = p /\ Len(q) = 6 + p + Len(T) /\ p \in Nat
          BY <1>1, <1>9, <3>0
        <5> HIDE DEF p
        <5>2. QED
          BY <5>1
      <4> HIDE DEF ts, p
      <4>2. QED
        BY <1>10, <3>2, <4>1
    <3>4. \A k \in 1..p : ts[k] = s.partTypes[k]
      BY <1>9, <3>0, <3>3
    <3>5. ts \in Seq(Int) /\ s.partTypes \in Seq(Int) /\ Len(ts) = p /\ Len(s.partTypes) = p
      BY <1>1, <1>2, <3>2
    <3> HIDE DEF ts, p
    <3>6. QED
      BY <3>4, <3>5, SeqEqual
  <2>5. ~patch => [i \in 1..p |-> SHPP_RING] = s.partTypes
    <3> SUFFICES ASSUME ~patch PROVE [i \in 1..p |-> SHPP_RING] = s.partTypes
      OBVIOUS
    <3>1. \A k \in 1..p : s.partTypes[k] = SHPP_RING
      <4>1. DOMAIN s.partTypes = 1..p
        BY <1>1, <1>2
      <4>2. s.type # SHPT_MULTIPATCH
        BY <1>10
      <4>3. QED
        BY <1>2, <4>1, <4>2
    <3>2. s.partTypes = [i \in 1..p |-> s.partTypes[i]]
      BY <1>1, <1>2
    <3>3. QED
      BY <3>1, <3>2
  <2>6. ShapeOf(c) = ReadParts(c, p, n)
    BY <1>10, <2>1, <2>2 DEF ShapeOf
  <2>7. ~(Len(c) < at + 2 * n + (IF HasZ(c[1]) THEN 2 + n ELSE 0))
    <3>1. (IF HasZ(c[1]) THEN 2 + n ELSE 0) = Extra(HasZ(s.type), n) /\ Extra(HasZ(s.type), n) \in Nat
      <4> HIDE DEF n
      <4>1. QED
        BY <1>1, <1>10 DEF Extra
    <3>2. Len(c) >= at + 2 * n + Extra(HasZ(s.type), n) /\ at \in Nat
      <4> HIDE DEF n, at
      <4>1. at = Len(q) + 1 /\ Len(q) \in Nat
        BY <2>0, <2>2
      <4>2. Len(c) >= Len(q) + 1 + 2 * n + Extra(HasZ(s.type), n)
        BY <1>10
      <4>3. QED
        BY <4>1, <4>2
    <3> HIDE DEF n, at
    <3>3. \A x \in Nat : Len(c) >= at + 2 * n + x => ~(Len(c) < at + 2 * n + x)
      BY <1>1, <2>0, <3>2
    <3>4. QED
      BY <3>1, <3>2, <3>3
  <2>8. GoodStarts(ss, n)
    BY <1>2, <2>3
  <2>9. ReadParts(c, p, n) = Shape(c[1], ss, IF patch THEN ts ELSE [i \in 1..p |-> SHPP_RING], VerticesAt(c, at, n, HasZ(c[1])))
    <3>1. ReadParts(c, p, n) =
            IF Len(c) < at + 2 * n + (IF HasZ(c[1]) THEN 2 + n ELSE 0) \/ ~GoodStarts(ss, n) THEN NoFile
            ELSE Shape(c[1], ss, IF patch THEN ts ELSE [i \in 1..p |-> SHPP_RING], VerticesAt(c, at, n, HasZ(c[1])))
      BY DEF ReadParts
    <3> HIDE DEF at, ss, ts, n, p, patch
    <3>2. QED
      BY <2>7, <2>8, <3>1
  <2> HIDE DEF at, ss, ts
  <2>10. (IF patch THEN ts ELSE [i \in 1..p |-> SHPP_RING]) = s.partTypes
    BY <2>4, <2>5
  <2>11. QED
    BY <1>10, <2>2, <2>3, <2>6, <2>9, <2>10
<1>11. QED
  BY <1>1, <1>3, <1>9, <1>a, <1>10, RecordedByVertices

\* ... of shapes that are none ...
LEMMA NullRecorded ==
    ASSUME NEW s \in Shapes, s.type = SHPT_NULL
    PROVE  Recorded(s)
<1> DEFINE v == [vertices |-> <<>>, measured |-> FALSE]
<1>1. /\ s.type \in ShapeTypes /\ ~Parted(s.type) /\ Base(s.type) # SHPT_MULTIPOINT /\ Base(s.type) # SHPT_POINT
      /\ s.type \in Int /\ ~HasM(s.type)
  BY ShapeFacts, TypeFacts
<1>2. s.starts = <<>> /\ s.partTypes = <<>> /\ s.vertices = <<>> /\ ~s.measured
  <2>1. PartsInOrder(s) /\ RightCount(s)
    BY DEF Shapes
  <2>2. QED
    BY <1>1, <2>1 DEF PartsInOrder, RightCount
<1>3. Content(s) = <<s.type>> \o <<>>
  <2>1. ASSUME NEW x, NEW y, NEW w
        PROVE  (CASE Parted(s.type) -> x [] Base(s.type) = SHPT_MULTIPOINT -> y [] Base(s.type) = SHPT_POINT -> w
                  [] OTHER -> <<>>) = <<>>
    BY <1>1
  <2>2. QED
    BY <2>1 DEF Content
<1>4. Content(s) \in Seq(Int) /\ Len(Content(s)) = 1 /\ Content(s)[1] = s.type
  <2>1. <<s.type>> \in Seq(Int) /\ Len(<<s.type>>) = 1 /\ <<s.type>>[1] = s.type
    BY <1>1
  <2>2. QED
    BY <1>3, <2>1, EmptyPiece, ConcatFacts
<1>5. ASSUME NEW c \in Seq(Int), Begins(c, Content(s)) PROVE ShapeOf(c) \in Shapes /\ ShapeOf(c) = Stored(s)
  <2>1. c[1] = s.type
    <3>1. 1 \in 1..Len(Content(s))
      BY <1>4
    <3>2. QED
      BY <1>4, <1>5, <3>1 DEF Begins
  <2>2. ShapeOf(c) = Shape(s.type, s.starts, s.partTypes, v)
    BY <1>1, <1>2, <2>1 DEF ShapeOf
  <2>3. ReadFrom(s.vertices, WritesM(s), v) /\ ~v.measured
    <3>1. v.vertices = <<>> /\ v.measured = FALSE /\ <<>> \in Seq(Vertex) /\ Len(<<>>) = 0 /\ ~WritesM(s)
      BY <1>2 DEF WritesM
    <3>2. Len(s.vertices) = 0 /\ 1..0 = {}
      BY <1>2, <3>1
    <3> HIDE DEF v
    <3>3. QED
      BY <1>2, <3>1, <3>2 DEF ReadFrom
  <2> HIDE DEF v
  <2>4. QED
    BY <2>2, <2>3, ShapeRead
<1>6. QED
  BY <1>4, <1>5 DEF Recorded

\* ... and of points, which have neither bounds nor ranges.
LEMMA PointRecorded ==
    ASSUME NEW s \in Shapes, Base(s.type) = SHPT_POINT
    PROVE  Recorded(s)
<1> DEFINE x == s.vertices[1]
           z == HasZ(s.type)
           w == WritesM(s)
           one == <<s.type>>
           A == <<x[1], x[2]>>
           Z == IF z THEN <<x[3]>> ELSE <<>>
           M == IF w THEN <<x[4]>> ELSE <<>>
           b == A \o Z
           r == b \o M
           ms == IF z THEN 5 ELSE 4
<1>1. /\ s.type \in ShapeTypes /\ ~Parted(s.type) /\ Base(s.type) # SHPT_MULTIPOINT /\ s.type # SHPT_NULL
      /\ s.type \in Int /\ z \in BOOLEAN /\ w \in BOOLEAN /\ s.vertices \in Seq(Vertex)
  BY ShapeFacts, TypeFacts
<1>2. s.starts = <<>> /\ s.partTypes = <<>> /\ Len(s.vertices) = 1 /\ (~z => x[3] = 0)
  <2>1. PartsInOrder(s) /\ RightCount(s) /\ NothingElse(s)
    BY DEF Shapes
  <2>2. Len(s.vertices) = 1
    BY <2>1 DEF RightCount
  <2>3. 1 \in DOMAIN s.vertices
    BY <1>1, <2>2
  <2>4. QED
    BY <1>1, <2>1, <2>2, <2>3 DEF PartsInOrder, NothingElse
<1>3. x \in Vertex /\ x[1] \in Int /\ x[2] \in Int /\ x[3] \in Int /\ x[4] \in Int /\ x = <<x[1], x[2], x[3], x[4]>>
  <2>1. 1 \in 1..Len(s.vertices)
    BY <1>2
  <2>2. x \in Vertex
    BY <1>1, <2>1
  <2> HIDE DEF x
  <2>3. QED
    BY <2>2 DEF Vertex
<1>4. Content(s) = one \o r
  <2>1. ASSUME NEW u, NEW y, NEW k
        PROVE  (CASE Parted(s.type) -> u [] Base(s.type) = SHPT_MULTIPOINT -> y [] Base(s.type) = SHPT_POINT -> k
                  [] OTHER -> <<>>) = k
    BY <1>1
  <2>2. Content(s) = one \o PointRecord(s)
    BY <2>1 DEF Content
  <2>3. SubSeq(x, 1, 2) = A
    <3>1. x \in Seq(Int) /\ Len(x) = 4
      <4> HIDE DEF x
      <4>1. <<x[1], x[2], x[3], x[4]>> \in Seq(Int) /\ Len(<<x[1], x[2], x[3], x[4]>>) = 4
        BY <1>3
      <4>2. QED
        BY <1>3, <4>1
    <3>2. 1 \in Nat /\ 2 \in Nat /\ 1 <= 1 /\ 1 <= 2 + 1 /\ 2 <= 4 /\ 2 + 1 - 1 = 2
      OBVIOUS
    <3> HIDE DEF x
    <3>3. SubSeq(x, 1, 2) \in Seq(Int) /\ Len(SubSeq(x, 1, 2)) = 2 /\ \A i \in 1..2 : SubSeq(x, 1, 2)[i] = x[1 + i - 1]
      <4> DEFINE y == SubSeq(x, 1, 2)
      <4>1. y \in Seq(Int) /\ Len(y) = 2 + 1 - 1 /\ \A i \in 1..2 + 1 - 1 : y[i] = x[1 + i - 1]
        BY <3>1, <3>2, SubSeqFacts
      <4> HIDE DEF y
      <4>2. y \in Seq(Int) /\ Len(y) = 2 /\ \A i \in 1..2 : y[i] = x[1 + i - 1]
        BY <3>2, <4>1
      <4>3. QED
        BY <4>2 DEF y
    <3>4. A \in Seq(Int) /\ Len(A) = 2 /\ \A i \in 1..2 : A[i] = x[1 + i - 1]
      BY <1>3
    <3>5. QED
      BY <3>3, <3>4, SeqEqual
  <2>4. QED
    BY <2>2, <2>3 DEF PointRecord
<1>5. one \in Seq(Int) /\ Len(one) = 1 /\ one[1] = s.type
  BY <1>1
<1>6. A \in Seq(Int) /\ Len(A) = 2 /\ A[1] = x[1] /\ A[2] = x[2]
  <2> HIDE DEF x
  <2>1. QED
    BY <1>3
<1>7. Z \in Seq(Int) /\ Len(Z) = ms - 4 /\ (z => Z[1] = x[3])
  <2> HIDE DEF x, z
  <2>1. QED
    BY <1>3, EmptyPiece
<1>8. M \in Seq(Int) /\ Len(M) = (IF w THEN 1 ELSE 0) /\ (w => M[1] = x[4])
  <2> HIDE DEF x, w
  <2>1. QED
    BY <1>3, EmptyPiece
<1>a. ms \in 4..5 /\ (z => ms = 5) /\ (~z => ms = 4)
  OBVIOUS
<1> HIDE DEF x, z, w, one, A, Z, M, ms
<1>9. b \in Seq(Int) /\ Len(b) = ms - 2
  <2>1. b \in Seq(Int) /\ Len(b) = Len(A) + Len(Z)
    BY <1>6, <1>7, JoinedFacts
  <2> HIDE DEF b
  <2>2. QED
    BY <1>6, <1>7, <1>a, <2>1
<1>10. r \in Seq(Int) /\ Len(r) = ms - 2 + Len(M)
  <2> HIDE DEF b
  <2>1. QED
    BY <1>8, <1>9, JoinedFacts
<1>11. one \o r \in Seq(Int) /\ Len(one \o r) = ms - 1 + Len(M)
  <2>1. Len(one \o r) = Len(one) + Len(r) /\ one \o r \in Seq(Int)
    <3> HIDE DEF r
    <3>1. QED
      BY <1>5, <1>10, JoinedFacts
  <2> HIDE DEF r
  <2>2. QED
    BY <1>5, <1>8, <1>10, <1>a, <2>1
<1>12. ASSUME NEW c \in Seq(Int), Begins(c, one \o r)
       PROVE  /\ Len(c) \in Nat /\ Len(c) >= ms - 1 /\ (w => Len(c) >= ms)
              /\ c[1] = s.type /\ c[2] = x[1] /\ c[3] = x[2] /\ (z => c[4] = x[3]) /\ (w => c[ms] = x[4])
  <2>0. Len(c) \in Nat
    OBVIOUS
  <2>1. \A k \in 1..Len(one \o r) : c[k] = (one \o r)[k]
    BY <1>12 DEF Begins
  <2>2. Len(c) >= ms - 1 /\ (w => Len(c) >= ms)
    BY <1>8, <1>11, <1>12, <1>a, <2>0 DEF Begins
  <2>3. (\A k \in 1..1 : (one \o r)[k] = one[k]) /\ \A k \in 1..Len(r) : (one \o r)[1 + k] = r[k]
    <3> HIDE DEF r
    <3>1. /\ \A k \in 1..Len(one) : (one \o r)[k] = one[k]
          /\ \A k \in 1..Len(r) : (one \o r)[Len(one) + k] = r[k]
      BY <1>5, <1>10, ConcatFacts
    <3>2. QED
      BY <1>5, <3>1
  <2>4. (\A k \in 1..Len(b) : r[k] = b[k]) /\ \A k \in 1..Len(M) : r[Len(b) + k] = M[k]
    <3> HIDE DEF b
    <3>1. QED
      BY <1>8, <1>9, ConcatFacts
  <2>5. (\A k \in 1..Len(A) : b[k] = A[k]) /\ \A k \in 1..Len(Z) : b[Len(A) + k] = Z[k]
    BY <1>6, <1>7, ConcatFacts
  <2> DEFINE all == one \o r
  <2> HIDE DEF all, r, b
  <2>6. /\ 1 \in 1..Len(all) /\ 2 \in 1..Len(all) /\ 3 \in 1..Len(all) /\ (z => 4 \in 1..Len(all)) /\ (w => ms \in 1..Len(all))
        /\ 1 \in 1..Len(r) /\ 2 \in 1..Len(r) /\ (z => 3 \in 1..Len(r)) /\ (w => ms - 1 \in 1..Len(r))
        /\ 1 \in 1..Len(b) /\ 2 \in 1..Len(b) /\ (z => 3 \in 1..Len(b))
        /\ 1 \in 1..Len(A) /\ 2 \in 1..Len(A) /\ (z => 1 \in 1..Len(Z)) /\ (w => 1 \in 1..Len(M))
    <3>1. /\ Len(all) = ms - 1 + Len(M) /\ Len(r) = ms - 2 + Len(M) /\ Len(b) = ms - 2 /\ Len(A) = 2 /\ Len(Z) = ms - 4
          /\ Len(M) = (IF w THEN 1 ELSE 0)
      BY <1>6, <1>7, <1>8, <1>9, <1>10, <1>11 DEF all
    <3>2. ms \in {4, 5} /\ (z => ms = 5) /\ Len(M) \in {0, 1} /\ (w => Len(M) = 1)
      BY <1>a, <3>1
    <3>3. Len(Z) \in {0, 1} /\ (z => Len(Z) = 1) /\ Len(b) \in {2, 3} /\ (z => Len(b) = 3)
      BY <3>1, <3>2
    <3>4. Len(r) \in {2, 3, 4} /\ Len(all) \in {3, 4, 5} /\ (z => Len(r) >= 3 /\ Len(all) >= 4)
          /\ (w => ms <= Len(all) /\ ms - 1 <= Len(r))
      BY <3>1, <3>2
    <3>5. QED
      BY <3>1, <3>2, <3>3, <3>4
  <2>7. c[1] = s.type
    <3>1. c[1] = all[1]
      BY <2>1, <2>6 DEF all
    <3>2. all[1] = one[1]
      <4>1. 1 \in 1..1
        OBVIOUS
      <4>2. QED
        BY <2>3, <4>1 DEF all
    <3>3. QED
      BY <1>5, <3>1, <3>2
  <2>8. c[2] = x[1]
    <3>1. c[2] = all[2] /\ all[1 + 1] = r[1] /\ r[1] = b[1] /\ b[1] = A[1] /\ 1 + 1 = 2
      BY <2>1, <2>3, <2>4, <2>5, <2>6 DEF all
    <3>2. QED
      BY <1>6, <3>1
  <2>9. c[3] = x[2]
    <3>1. c[3] = all[3] /\ all[1 + 2] = r[2] /\ r[2] = b[2] /\ b[2] = A[2] /\ 1 + 2 = 3
      BY <2>1, <2>3, <2>4, <2>5, <2>6 DEF all
    <3>2. QED
      BY <1>6, <3>1
  <2>10. z => c[4] = x[3]
    <3>1. z => c[4] = all[4] /\ all[1 + 3] = r[3] /\ r[3] = b[3] /\ b[Len(A) + 1] = Z[1] /\ 1 + 3 = 4 /\ Len(A) + 1 = 3
      BY <1>6, <2>1, <2>3, <2>4, <2>5, <2>6 DEF all
    <3>2. QED
      BY <1>7, <3>1
  <2>11. w => c[ms] = x[4]
    <3> SUFFICES ASSUME w PROVE c[ms] = x[4]
      OBVIOUS
    <3>1. c[ms] = all[ms]
      BY <2>1, <2>6 DEF all
    <3>2. 1 + (ms - 1) = ms /\ Len(b) + 1 = ms - 1
      BY <1>9, <1>a
    <3>3. all[1 + (ms - 1)] = r[ms - 1]
      BY <2>3, <2>6 DEF all
    <3>4. r[Len(b) + 1] = M[1]
      BY <2>4, <2>6
    <3>5. QED
      BY <1>8, <3>1, <3>2, <3>3, <3>4
  <2>12. QED
    BY <2>0, <2>2, <2>7, <2>8, <2>9, <2>10, <2>11
<1> HIDE DEF r
<1>13. ASSUME NEW c \in Seq(Int), Begins(c, one \o r)
       PROVE  ShapeOf(c) \in Shapes /\ (Len(c) = Len(one \o r) => ShapeOf(c) = Stored(s))
  <2> DEFINE has == Len(c) >= ms
             y == <<c[2], c[3], IF z THEN c[4] ELSE 0, IF has THEN c[ms] ELSE 0>>
             v == [vertices |-> <<y>>, measured |-> has]
  <2>1. ShapeOf(c) = Shape(s.type, s.starts, s.partTypes, v)
    <3>1. ShapeOf(c) = ReadPoint(c)
      BY <1>1, <1>12, <1>13 DEF ShapeOf
    <3>2. ~(Len(c) < ms - 1)
      BY <1>12, <1>13, <1>a
    <3>3. c[1] = s.type
      BY <1>12, <1>13
    <3>4. QED
      BY <1>2, <3>1, <3>2, <3>3 DEF ReadPoint, ms, z
  <2>2. ReadFrom(s.vertices, w, v) /\ (Len(c) = Len(one \o r) /\ ~w => ~v.measured)
    <3>1. has => c[ms] \in Int
      BY <1>12, <1>13, <1>a
    <3>2. (w => has) /\ has \in BOOLEAN
      BY <1>12, <1>13
    <3>3. Len(c) = Len(one \o r) /\ ~w => ~has
      BY <1>8, <1>11, <1>a
    <3> HIDE DEF has
    <3>4. y[1] = x[1] /\ y[2] = x[2] /\ y[3] = x[3] /\ y[4] \in Int /\ (~has => y[4] = 0) /\ (w => y[4] = x[4])
          /\ y = <<y[1], y[2], y[3], y[4]>>
      BY <1>2, <1>12, <1>13, <3>1, <3>2 DEF z
    <3>5. v.vertices = <<y>> /\ v.measured = has
      OBVIOUS
    <3> HIDE DEF y, v
    <3>6. y \in Vertex /\ (w => y = x)
      <4>1. y \in Vertex
        BY <1>3, <3>4 DEF Vertex
      <4>2. QED
        BY <1>3, <3>4, <4>1
    <3>7. v.vertices \in Seq(Vertex) /\ Len(v.vertices) = 1 /\ v.vertices[1] = y
      BY <3>5, <3>6
    <3>8. s.vertices[1] = x
      BY DEF x
    <3>9. w => v.vertices = s.vertices
      <4>1. \A i \in 1..1 : w => v.vertices[i] = s.vertices[i]
        BY <3>6, <3>7, <3>8
      <4>2. QED
        BY <1>1, <1>2, <3>7, <4>1, SeqEqual
    <3>10. \A i \in 1..Len(s.vertices) : i = 1
      BY <1>2
    <3>11. QED
      BY <1>2, <3>2, <3>3, <3>4, <3>5, <3>7, <3>8, <3>9, <3>10 DEF ReadFrom
  <2> HIDE DEF v
  <2>3. QED
    BY <1>1, <2>1, <2>2, ShapeRead DEF w
<1>14. QED
  <2>1. Len(one \o r) > 0
    BY <1>8, <1>11, <1>a
  <2>2. QED
    BY <1>4, <1>11, <1>13, <2>1 DEF Recorded, r

\* Whatever the type, a record is read as the shape it is of.
LEMMA AllRecorded ==
    ASSUME NEW s \in Shapes
    PROVE  Recorded(s)
<1>1. Parted(s.type) \/ Base(s.type) = SHPT_MULTIPOINT \/ Base(s.type) = SHPT_POINT \/ s.type = SHPT_NULL
  BY ShapeFacts, TypeFacts
<1>2. QED
  BY <1>1, PartsRecorded, MultiPointRecorded, PointRecorded, NullRecorded

\* What a record keeps of a shape is a shape, and all of one that the program
\* wrote.
LEMMA StoredIsShape ==
    ASSUME NEW s \in Shapes
    PROVE  /\ Stored(s) \in Shapes /\ Stored(s).type = s.type
           /\ Len(Stored(s).vertices) = Len(s.vertices)
           /\ \A i \in 1..Len(s.vertices) : /\ \A d \in 1..3 : Stored(s).vertices[i][d] = s.vertices[i][d]
                                            /\ HasM(s.type) => Stored(s).vertices[i] = s.vertices[i]
           /\ (s.measured => HasM(s.type)) => Stored(s) = s
<1> DEFINE vs == s.vertices
           n == Len(vs)
           u == [i \in 1..n |-> <<vs[i][1], vs[i][2], vs[i][3], 0>>]
<1>1. /\ s.type \in ShapeTypes /\ s.starts \in Seq(Nat) /\ s.partTypes \in Seq(Int) /\ vs \in Seq(Vertex)
      /\ s.measured \in BOOLEAN
      /\ s = [type |-> s.type, starts |-> s.starts, partTypes |-> s.partTypes, vertices |-> s.vertices, measured |-> s.measured]
      /\ n \in Nat /\ DOMAIN vs = 1..n
      /\ PartsInOrder(s) /\ RightCount(s) /\ NothingElse(s)
  BY ShapeFacts DEF Shapes
<1>2. CASE HasM(s.type)
  <2>1. Stored(s) = s
    BY <1>2 DEF Stored
  <2>2. \A i \in 1..n : \A d \in 1..3 : s.vertices[i][d] = s.vertices[i][d]
    OBVIOUS
  <2>3. QED
    BY <2>1, <2>2
<1>3. CASE ~HasM(s.type)
  <2>1. Stored(s) = [type |-> s.type, starts |-> s.starts, partTypes |-> s.partTypes, vertices |-> u, measured |-> FALSE]
    BY <1>1, <1>3 DEF Stored
  <2>2. \A i \in 1..n : /\ vs[i] = <<vs[i][1], vs[i][2], vs[i][3], vs[i][4]>>
                        /\ vs[i][1] \in Int /\ vs[i][2] \in Int /\ vs[i][3] \in Int
    BY <1>1, VertexFacts
  <2>3. \A i \in 1..n : /\ u[i] = <<vs[i][1], vs[i][2], vs[i][3], 0>> /\ u[i] \in Vertex
    BY <2>2 DEF Vertex
  <2>4. u \in Seq(Vertex) /\ Len(u) = n /\ DOMAIN u = 1..n
    <3>1. \A i \in 1..n : <<vs[i][1], vs[i][2], vs[i][3], 0>> \in Vertex
      BY <2>2 DEF Vertex
    <3>2. QED
      BY <1>1, <3>1
  <2>5. \A i \in 1..n : u[i][1] = vs[i][1] /\ u[i][2] = vs[i][2] /\ u[i][3] = vs[i][3] /\ u[i][4] = 0
    BY <2>3
  <2> HIDE DEF u
  <2> DEFINE r == Stored(s)
  <2>6. /\ r \in [type : ShapeTypes, starts : Seq(Nat), partTypes : Seq(Int), vertices : Seq(Vertex), measured : BOOLEAN]
        /\ r.type = s.type /\ r.starts = s.starts /\ r.partTypes = s.partTypes /\ r.vertices = u /\ r.measured = FALSE
    BY <1>1, <2>1, <2>4
  <2> HIDE DEF r
  <2>7. PartsInOrder(r)
    BY <1>1, <2>4, <2>6 DEF PartsInOrder
  <2>8. RightCount(r)
    <3>1. s.type = SHPT_NULL => n = 0
      BY <1>1 DEF RightCount
    <3>2. s.type = SHPT_NULL => u = <<>>
      BY <2>4, <3>1
    <3>3. QED
      BY <1>1, <2>4, <2>6, <3>2 DEF RightCount
  <2>9. NothingElse(r)
    BY <1>1, <2>4, <2>5, <2>6 DEF NothingElse
  <2>10. r \in Shapes
    BY <2>6, <2>7, <2>8, <2>9 DEF Shapes
  <2>11. ~s.measured => r = s
    <3> SUFFICES ASSUME ~s.measured PROVE r = s
      OBVIOUS
    <3>1. \A i \in 1..n : vs[i][4] = 0
      BY <1>1 DEF NothingElse
    <3>2. \A i \in 1..n : u[i] = vs[i]
      BY <2>2, <2>3, <3>1
    <3>3. u = vs
      BY <1>1, <2>4, <3>2, SeqEqual
    <3>4. s.measured = FALSE
      BY <1>1
    <3>5. QED
      BY <1>1, <2>1, <3>3, <3>4 DEF r
  <2>12. \A i \in 1..n : \A d \in 1..3 : u[i][d] = vs[i][d]
    <3>1. 1..3 = {1, 2, 3}
      OBVIOUS
    <3>2. QED
      BY <2>5, <3>1
  <2>13. QED
    BY <1>3, <2>4, <2>6, <2>10, <2>11, <2>12 DEF r
<1>4. QED
  BY <1>2, <1>3

\* Winding turns rings round within their parts.
LEMMA RewoundIsShape ==
    ASSUME NEW s \in Shapes
    PROVE  SHPRewindObject(s) \in Shapes
<1> DEFINE vs == s.vertices
           n == Len(vs)
           p == Len(s.starts)
           W == WrongWay(s)
           u == [i \in 1..n |-> vs[Source(s, W, i)]]
<1>1. /\ s.type \in ShapeTypes /\ s.starts \in Seq(Nat) /\ s.partTypes \in Seq(Int) /\ vs \in Seq(Vertex)
      /\ s.measured \in BOOLEAN
      /\ s = [type |-> s.type, starts |-> s.starts, partTypes |-> s.partTypes, vertices |-> s.vertices, measured |-> s.measured]
      /\ n \in Nat /\ DOMAIN vs = 1..n /\ p \in Nat /\ DOMAIN s.starts = 1..p
      /\ PartsInOrder(s) /\ RightCount(s) /\ NothingElse(s)
  BY ShapeFacts DEF Shapes
<1>2. CASE Base(s.type) # SHPT_POLYGON \/ vs = <<>> \/ s.starts = <<>>
  BY <1>2 DEF SHPRewindObject
<1>3. CASE ~(Base(s.type) # SHPT_POLYGON \/ vs = <<>> \/ s.starts = <<>>)
  <2>1. Parted(s.type) /\ Base(s.type) = SHPT_POLYGON /\ Base(s.type) # SHPT_POINT /\ s.type # SHPT_NULL
    <3>1. Parted(s.type)
      BY <1>3 DEF Parted
    <3>2. QED
      BY <1>1, <1>3, <3>1, TypeFacts
  <2>2. GoodStarts(s.starts, n)
    BY <1>1, <2>1 DEF PartsInOrder
  <2>3. W \subseteq 1..p
    BY <1>1 DEF WrongWay, PartsOf
  <2> HIDE DEF W
  <2>4. \A i \in 1..n : Source(s, W, i) \in 1..n
    <3> SUFFICES ASSUME NEW i \in 1..n PROVE Source(s, W, i) \in 1..n
      OBVIOUS
    <3> DEFINE Q(k) == s.starts[k] < i /\ i <= PartEnd(s, k)
    <3>1. CASE ~\E k \in W : Q(k)
      BY <3>1 DEF Source
    <3>2. CASE \E k \in W : Q(k)
      <4> DEFINE k == CHOOSE k \in W : Q(k)
      <4>1. k \in W /\ Q(k)
        BY <3>2
      <4>2. Source(s, W, i) = s.starts[k] + 1 + PartEnd(s, k) - i
        BY <3>2 DEF Source
      <4> HIDE DEF k
      <4>3. k \in 1..p /\ s.starts[k] \in Nat
        BY <1>1, <2>3, <4>1
      <4>4. PartEnd(s, k) \in Nat /\ PartEnd(s, k) <= n
        <5>1. CASE k = p
          BY <1>1, <5>1 DEF PartEnd
        <5>2. CASE k # p
          <6>1. k + 1 \in 1..p
            BY <1>1, <4>3, <5>2
          <6>2. s.starts[k + 1] \in Nat /\ (n > 0 => s.starts[k + 1] < n)
            BY <1>1, <2>2, <6>1 DEF GoodStarts
          <6>3. n > 0
            BY <1>1
          <6>4. PartEnd(s, k) = s.starts[k + 1]
            BY <5>2 DEF PartEnd
          <6>5. QED
            BY <1>1, <6>2, <6>3, <6>4
        <5>3. QED
          BY <5>1, <5>2
      <4>5. s.starts[k] < i /\ i <= PartEnd(s, k)
        BY <4>1
      <4>6. i \in Nat /\ n \in Nat
        BY <1>1
      <4>7. \A a, y \in Nat : a < i /\ i <= y /\ y <= n => a + 1 + y - i \in 1..n
        BY <4>6
      <4> HIDE DEF n
      <4>8. QED
        BY <4>2, <4>3, <4>4, <4>5, <4>7
    <3>3. QED
      BY <3>1, <3>2
  <2>5. u \in Seq(Vertex) /\ Len(u) = n /\ DOMAIN u = 1..n /\ \A i \in 1..n : \E j \in 1..n : u[i] = vs[j]
    <3>1. \A i \in 1..n : vs[Source(s, W, i)] \in Vertex
      BY <1>1, <2>4
    <3>2. \A i \in 1..n : u[i] = vs[Source(s, W, i)]
      OBVIOUS
    <3>3. u \in Seq(Vertex) /\ Len(u) = n /\ DOMAIN u = 1..n
      BY <1>1, <3>1
    <3> HIDE DEF u
    <3>4. QED
      BY <2>4, <3>2, <3>3
  <2> DEFINE r == SHPRewindObject(s)
  <2>6. r = [type |-> s.type, starts |-> s.starts, partTypes |-> s.partTypes, vertices |-> u, measured |-> s.measured]
    <3>1. r = [s EXCEPT !.vertices = [i \in DOMAIN @ |-> @[Source(s, WrongWay(s), i)]]]
      BY <1>3 DEF SHPRewindObject
    <3>2. [i \in DOMAIN vs |-> vs[Source(s, WrongWay(s), i)]] = u
      BY <1>1 DEF W
    <3>3. r = [s EXCEPT !.vertices = u]
      BY <3>1, <3>2
    <3> HIDE DEF u, r
    <3>4. QED
      BY <1>1, <3>3
  <2> HIDE DEF u
  <2>7. /\ r \in [type : ShapeTypes, starts : Seq(Nat), partTypes : Seq(Int), vertices : Seq(Vertex), measured : BOOLEAN]
        /\ r.type = s.type /\ r.starts = s.starts /\ r.partTypes = s.partTypes /\ r.vertices = u /\ r.measured = s.measured
    BY <1>1, <2>5, <2>6
  <2> HIDE DEF r
  <2>8. PartsInOrder(r)
    BY <1>1, <2>5, <2>7 DEF PartsInOrder
  <2>9. RightCount(r)
    BY <2>1, <2>7 DEF RightCount
  <2>10. NothingElse(r)
    <3>1. ASSUME NEW i \in 1..n
          PROVE  (~HasZ(s.type) => u[i][3] = 0) /\ (~s.measured => u[i][4] = 0)
      <4>1. PICK j \in 1..n : u[i] = vs[j]
        BY <2>5
      <4>2. QED
        BY <1>1, <4>1 DEF NothingElse
    <3>2. QED
      BY <2>5, <2>7, <3>1 DEF NothingElse
  <2>11. QED
    BY <2>7, <2>8, <2>9, <2>10 DEF Shapes, r
<1>4. QED
  BY <1>2, <1>3

-----------------------------------------------------------------------------
(* Places: what lies at each is a shape, and no two overlap. *)

Places == [offset : Nat, size : Nat]
Headings == [type : ShapeTypes, bounds : Bounds, nFileSize : Nat, records : Seq(Places)]
Handles == [nShapeType : ShapeTypes, bounds : Bounds, nFileSize : Nat, records : Seq(Places), cells : Seq(Int),
            written : Headings, updated : BOOLEAN]

PlaceEnd(r)  == r.offset + 2 + r.size
At(cells, r) == SubSeq(cells, r.offset + 3, r.offset + 2 + r.size)
Clear(r, q)  == PlaceEnd(r) <= q.offset \/ PlaceEnd(q) <= r.offset
Apart(R, N)  == \A i \in 1..Len(R) : PlaceEnd(R[i]) <= N /\ \A j \in 1..Len(R) : i # j => Clear(R[i], R[j])
Bounding(s, b) == AtOrigin(s) \/ Within(s, b)

\* Headers and cells that tell of shapes, within the bounds but for those in ub.
FileOK(hd, cells, ub) ==
    /\ hd \in Headings /\ cells \in Seq(Int) /\ hd.nFileSize <= Len(cells)
    /\ Apart(hd.records, hd.nFileSize)
    /\ \A i \in 1..Len(hd.records) : /\ ShapeOf(At(cells, hd.records[i])) \in Shapes
                                     /\ i \in ub \/ Bounding(ShapeOf(At(cells, hd.records[i])), hd.bounds)

\* A record is where the headers say, and not longer, or beyond all they tell of;
\* it is as they say unless it was written over.
Since(h, rw) ==
    /\ Len(h.written.records) <= Len(h.records) /\ h.written.nFileSize <= h.nFileSize
    /\ \A i \in 1..Len(h.records) :
          \/ h.written.nFileSize <= h.records[i].offset
          \/ /\ i <= Len(h.written.records) /\ h.records[i].offset = h.written.records[i].offset
             /\ h.records[i].size <= h.written.records[i].size
    /\ \A i \in 1..Len(h.written.records) : i \in rw \/ h.written.records[i] = h.records[i]

ReadsAs(h, ss) == /\ ss \in Seq(Shapes) /\ Len(ss) = Len(h.records)
               /\ \A i \in 1..Len(ss) : ShapeOf(At(h.cells, h.records[i])) = ss[i]

LayerOK(h, ss, rw, ub) ==
    /\ h \in Handles
    /\ FileOK(Headers(h), h.cells, ub)
    /\ FileOK(h.written, h.cells, rw \cup ub)
    /\ ReadsAs(h, ss)
    /\ Since(h, rw)
    /\ ~h.updated => h.written = Headers(h)

ShapefileInv ==
    /\ hSHP # NoFile => LayerOK(hSHP, shapes, rewritten, unbounded) /\ files = NoFile
    /\ files # NoFile => /\ FileOK(files.headers, files.cells, unbounded)
                         /\ files = [headers |-> files.headers, cells |-> files.cells]

\* A sequence with one item replaced, or one more at its end, as arrays of
\* panRecOffset and panRecSize are changed.
LEMMA ReplacedFacts ==
    ASSUME NEW R \in Seq(Places), NEW r \in Places, NEW i \in 1..Len(R) + 1
    PROVE  LET N == SubSeq(R, 1, i - 1) \o <<r>> \o SubSeq(R, i + 1, Len(R))
           IN  /\ N \in Seq(Places) /\ Len(N) = Bigger(Len(R), i) /\ N[i] = r
               /\ \A j \in 1..Len(N) : j # i => j \in 1..Len(R) /\ N[j] = R[j]
<1> DEFINE a == SubSeq(R, 1, i - 1)
           one == <<r>>
           z == SubSeq(R, i + 1, Len(R))
           b == a \o one
           N == b \o z
<1>0. Len(R) \in Nat /\ i \in Nat /\ 1 <= i /\ i <= Len(R) + 1
  OBVIOUS
<1>1. a \in Seq(Places) /\ Len(a) = i - 1 /\ \A k \in 1..i - 1 : a[k] = R[k]
  <2>1. 1 \in Int /\ i - 1 \in Int /\ \A k \in 1..i - 1 : R[k] \in Places
    BY <1>0
  <2>2. /\ a \in Seq(Places) /\ Len(a) = (IF 1 <= i - 1 THEN i - 1 - 1 + 1 ELSE 0)
        /\ \A k \in 1..i - 1 - 1 + 1 : a[k] = R[1 + k - 1]
    BY <2>1, SubSeqProperties
  <2> HIDE DEF a
  <2>3. QED
    BY <1>0, <2>2
<1>2. z \in Seq(Places) /\ Len(z) = Bigger(Len(R), i) - i /\ \A k \in 1..Len(z) : z[k] = R[i + k]
  <2>1. i + 1 \in Int /\ Len(R) \in Int /\ \A k \in i + 1..Len(R) : R[k] \in Places
    BY <1>0
  <2>2. /\ z \in Seq(Places) /\ Len(z) = (IF i + 1 <= Len(R) THEN Len(R) - (i + 1) + 1 ELSE 0)
        /\ \A k \in 1..Len(R) - (i + 1) + 1 : z[k] = R[i + 1 + k - 1]
    BY <2>1, SubSeqProperties
  <2> HIDE DEF z
  <2>3. QED
    BY <1>0, <2>2 DEF Bigger
<1>3. one \in Seq(Places) /\ Len(one) = 1 /\ one[1] = r
  OBVIOUS
<1> HIDE DEF a, one, z
<1>4. b \in Seq(Places) /\ Len(b) = i /\ b[i] = r /\ \A k \in 1..i - 1 : b[k] = R[k]
  <2>1. /\ b \in Seq(Places) /\ Len(b) = Len(a) + Len(one)
        /\ \A k \in 1..Len(a) + Len(one) : b[k] = IF k <= Len(a) THEN a[k] ELSE one[k - Len(a)]
    BY <1>1, <1>3, ConcatProperties
  <2> HIDE DEF b
  <2>2. Len(b) = i /\ \A k \in 1..i : b[k] = IF k <= i - 1 THEN a[k] ELSE one[k - (i - 1)]
    BY <1>0, <1>1, <1>3, <2>1
  <2>3. i - (i - 1) = 1 /\ i \in 1..i /\ ~(i <= i - 1) /\ \A k \in 1..i - 1 : k \in 1..i /\ k <= i - 1
    BY <1>0
  <2>4. QED
    BY <1>1, <1>3, <2>1, <2>2, <2>3
<1> HIDE DEF b
<1>5. /\ N \in Seq(Places) /\ Len(N) = Len(b) + Len(z)
      /\ \A k \in 1..Len(b) + Len(z) : N[k] = IF k <= Len(b) THEN b[k] ELSE z[k - Len(b)]
  BY <1>2, <1>4, ConcatProperties
<1> HIDE DEF N
<1>6. Len(N) = Bigger(Len(R), i) /\ Len(z) \in Nat /\ i + Len(z) = Len(N) /\ Len(N) \in Nat
  BY <1>0, <1>2, <1>4, <1>5 DEF Bigger
<1>7. N[i] = r
  BY <1>0, <1>4, <1>5, <1>6
<1>8. ASSUME NEW j \in 1..Len(N), j # i PROVE j \in 1..Len(R) /\ N[j] = R[j]
  <2>1. CASE j < i
    BY <1>0, <1>4, <1>5, <1>6, <2>1
  <2>2. CASE j > i
    <3>1. j - i \in 1..Len(z) /\ i + (j - i) = j /\ ~(j <= Len(b)) /\ j \in 1..Len(b) + Len(z) /\ j - Len(b) = j - i
      BY <1>0, <1>4, <1>6, <2>2
    <3>2. N[j] = R[j]
      BY <1>2, <1>5, <3>1
    <3>3. Len(N) = Len(R)
      BY <1>0, <1>6, <2>2 DEF Bigger
    <3>4. QED
      BY <3>2, <3>3
  <2>3. QED
    BY <1>0, <1>6, <1>8, <2>1, <2>2
<1>9. QED
  BY <1>5, <1>6, <1>7, <1>8 DEF N, b, a, one, z

\* What lies at a place.
LEMMA AtFacts ==
    ASSUME NEW cells \in Seq(Int), NEW r \in Places, PlaceEnd(r) <= Len(cells)
    PROVE  /\ At(cells, r) \in Seq(Int) /\ Len(At(cells, r)) = r.size
           /\ \A k \in 1..r.size : At(cells, r)[k] = cells[r.offset + 2 + k]
<1>1. r.offset \in Nat /\ r.size \in Nat /\ Len(cells) \in Nat
  BY DEF Places
<1> DEFINE a == r.offset + 3
           z == r.offset + 2 + r.size
<1>2. a \in Nat /\ z \in Nat /\ 1 <= a /\ a <= z + 1 /\ z <= Len(cells) /\ z + 1 - a = r.size
      /\ \A k \in 1..r.size : a + k - 1 = r.offset + 2 + k
  <2>1. r.offset + 2 + r.size <= Len(cells)
    BY DEF PlaceEnd
  <2>2. \A o, n, l \in Nat : o + 2 + n <= l =>
           /\ o + 3 \in Nat /\ o + 2 + n \in Nat /\ 1 <= o + 3 /\ o + 3 <= o + 2 + n + 1 /\ o + 2 + n + 1 - (o + 3) = n
           /\ \A k \in 1..n : o + 3 + k - 1 = o + 2 + k
    OBVIOUS
  <2>3. QED
    BY <1>1, <2>1, <2>2
<1> HIDE DEF a, z
<1>3. /\ SubSeq(cells, a, z) \in Seq(Int) /\ Len(SubSeq(cells, a, z)) = z + 1 - a
      /\ \A i \in 1..z + 1 - a : SubSeq(cells, a, z)[i] = cells[a + i - 1]
  BY <1>2, SubSeqFacts
<1>4. At(cells, r) = SubSeq(cells, a, z)
  BY DEF At, a, z
<1>5. QED
  BY <1>2, <1>3, <1>4

\* What is written at one place is found there, in as much room as it has, and
\* changes nothing at a place clear of it.
LEMMA AtWritten ==
    ASSUME NEW cells \in Seq(Int), NEW q \in Places, NEW i \in Int, NEW c \in Seq(Int), q.size = Len(c),
           q.offset <= Len(cells)
    PROVE  LET new == WriteAt(cells, q.offset, <<i, Len(c)>> \o c)
           IN  /\ new \in Seq(Int) /\ Len(cells) <= Len(new) /\ PlaceEnd(q) <= Len(new)
               /\ \A r \in Places : r.offset = q.offset /\ q.size <= r.size /\ PlaceEnd(r) <= Len(new) =>
                     Begins(At(new, r), c)
               /\ \A r \in Places : PlaceEnd(r) <= Len(cells) /\ Clear(r, q) => At(new, r) = At(cells, r)
<1> DEFINE two == <<i, Len(c)>>
           x == two \o c
           new == WriteAt(cells, q.offset, x)
<1>0. q.offset \in Nat /\ q.size \in Nat /\ Len(c) \in Nat /\ Len(cells) \in Nat
  BY DEF Places
<1>1. two \in Seq(Int) /\ Len(two) = 2
  BY <1>0
<1> HIDE DEF two
<1>2. x \in Seq(Int) /\ Len(x) = 2 + Len(c) /\ \A k \in 1..Len(c) : x[2 + k] = c[k]
  <2>1. x \in Seq(Int) /\ Len(x) = Len(two) + Len(c) /\ \A k \in 1..Len(c) : x[Len(two) + k] = c[k]
    BY <1>1, ConcatFacts
  <2> HIDE DEF x
  <2>2. QED
    BY <1>1, <2>1
<1> HIDE DEF x
<1>3. /\ new \in Seq(Int) /\ Len(new) = Bigger(Len(cells), q.offset + Len(x))
      /\ \A k \in 1..Len(new) : new[k] = IF q.offset < k /\ k <= q.offset + Len(x) THEN x[k - q.offset] ELSE cells[k]
  BY <1>0, <1>2, WriteAtFacts
<1> HIDE DEF new
<1>4. Len(new) \in Nat /\ Len(cells) <= Len(new) /\ PlaceEnd(q) <= Len(new)
  BY <1>0, <1>2, <1>3 DEF Bigger, PlaceEnd
<1>5. ASSUME NEW r \in Places, r.offset = q.offset, q.size <= r.size, PlaceEnd(r) <= Len(new)
      PROVE  Begins(At(new, r), c)
  <2>0. r.offset \in Nat /\ r.size \in Nat
    BY DEF Places
  <2>1. /\ At(new, r) \in Seq(Int) /\ Len(At(new, r)) = r.size
        /\ \A k \in 1..r.size : At(new, r)[k] = new[r.offset + 2 + k]
    BY <1>3, <1>5, AtFacts
  <2>2. ASSUME NEW k \in 1..Len(c) PROVE At(new, r)[k] = c[k]
    <3> DEFINE l == r.offset + 2 + k
    <3>1. k \in 1..r.size /\ l \in 1..Len(new) /\ q.offset < l /\ l <= q.offset + Len(x) /\ l - q.offset = 2 + k
      <4>1. /\ r.offset + 2 + r.size <= Len(new) /\ Len(c) <= r.size /\ q.offset = r.offset /\ Len(x) = 2 + Len(c)
            /\ k \in Nat /\ 1 <= k /\ k <= Len(c)
        BY <1>0, <1>2, <1>5 DEF PlaceEnd
      <4> DEFINE o == r.offset
                 n == r.size
                 m == Len(new)
                 b == Len(c)
      <4>2. /\ o \in Nat /\ n \in Nat /\ m \in Nat /\ b \in Nat /\ q.offset = o /\ Len(x) = 2 + b /\ l = o + 2 + k
            /\ o + 2 + n <= m /\ b <= n /\ k \in Nat /\ 1 <= k /\ k <= b
        BY <1>0, <1>4, <2>0, <4>1
      <4> HIDE DEF o, n, m, b, l
      <4>3. k \in 1..n /\ l \in 1..m /\ o < l /\ l <= o + (2 + b) /\ l - o = 2 + k
        BY <4>2
      <4>4. QED
        BY <4>2, <4>3 DEF n, m
    <3>2. At(new, r)[k] = new[l]
      BY <2>1, <3>1
    <3> HIDE DEF l
    <3>3. new[l] = x[2 + k]
      BY <1>3, <3>1
    <3>4. QED
      BY <1>2, <3>2, <3>3
  <2>3. QED
    BY <1>5, <2>1, <2>2 DEF Begins
<1>6. ASSUME NEW r \in Places, PlaceEnd(r) <= Len(cells), Clear(r, q)
      PROVE  At(new, r) = At(cells, r)
  <2>0. r.offset \in Nat /\ r.size \in Nat /\ PlaceEnd(r) <= Len(new)
    <3>1. r.offset \in Nat /\ r.size \in Nat
      BY DEF Places
    <3>2. QED
      BY <1>0, <1>4, <1>6, <3>1 DEF PlaceEnd
  <2>1. /\ At(new, r) \in Seq(Int) /\ Len(At(new, r)) = r.size
        /\ \A k \in 1..r.size : At(new, r)[k] = new[r.offset + 2 + k]
    BY <1>3, <2>0, AtFacts
  <2>2. /\ At(cells, r) \in Seq(Int) /\ Len(At(cells, r)) = r.size
        /\ \A k \in 1..r.size : At(cells, r)[k] = cells[r.offset + 2 + k]
    BY <1>6, AtFacts
  <2>3. ASSUME NEW k \in 1..r.size PROVE At(new, r)[k] = At(cells, r)[k]
    <3> DEFINE l == r.offset + 2 + k
    <3>1. l \in 1..Len(new) /\ ~(q.offset < l /\ l <= q.offset + Len(x))
      <4>1. /\ r.offset + 2 + r.size <= Len(new) /\ q.size = Len(c) /\ Len(x) = 2 + Len(c)
            /\ k \in Nat /\ 1 <= k /\ k <= r.size
            /\ r.offset + 2 + r.size <= q.offset \/ q.offset + 2 + Len(c) <= r.offset
        BY <1>2, <1>6, <2>0 DEF PlaceEnd, Clear
      <4>2. \A o, n, m, b, j, u \in Nat : /\ o + 2 + n <= m /\ 1 <= j /\ j <= n
                                          /\ o + 2 + n <= u \/ u + 2 + b <= o
                                          => o + 2 + j \in 1..m /\ ~(u < o + 2 + j /\ o + 2 + j <= u + (2 + b))
        OBVIOUS
      <4>3. r.offset + 2 + k \in 1..Len(new) /\ ~(q.offset < r.offset + 2 + k /\ r.offset + 2 + k <= q.offset + (2 + Len(c)))
        BY <1>0, <1>4, <2>0, <4>1, <4>2
      <4>4. QED
        BY <4>1, <4>3
    <3>2. At(new, r)[k] = new[l] /\ At(cells, r)[k] = cells[l]
      BY <2>1, <2>2
    <3> HIDE DEF l
    <3>3. new[l] = cells[l]
      BY <1>3, <3>1
    <3>4. QED
      BY <3>2, <3>3
  <2>4. QED
    BY <2>1, <2>2, <2>3, SeqEqual
<1>7. QED
  BY <1>3, <1>4, <1>5, <1>6 DEF new, x, two

\* Bounds that hold a shape still do when they grow.
LEMMA WithinWider ==
    ASSUME NEW a \in Bounds, NEW b \in Bounds, NEW t \in Shapes, Within(t, b),
           \A d \in 1..4 : a.lo[d] <= b.lo[d] /\ b.hi[d] <= a.hi[d]
    PROVE  Within(t, a)
<1>1. t.vertices \in Seq(Vertex) /\ DOMAIN t.vertices = 1..Len(t.vertices)
  BY ShapeFacts
<1>2. ASSUME NEW i \in DOMAIN t.vertices, NEW d \in 1..(IF HasM(t.type) THEN 4 ELSE 3)
      PROVE  a.lo[d] <= t.vertices[i][d] /\ t.vertices[i][d] <= a.hi[d]
  <2>1. d \in 1..4
    OBVIOUS
  <2>2. t.vertices[i][d] \in Int
    BY <1>1, <2>1, VertexFacts
  <2>3. a.lo[d] \in Int /\ b.lo[d] \in Int /\ a.hi[d] \in Int /\ b.hi[d] \in Int
    BY <2>1 DEF Bounds
  <2>4. b.lo[d] <= t.vertices[i][d] /\ t.vertices[i][d] <= b.hi[d]
    BY DEF Within
  <2>5. a.lo[d] <= b.lo[d] /\ b.hi[d] <= a.hi[d]
    BY <2>1
  <2>6. \A u, v, w, x, y \in Int : u <= v /\ v <= w /\ w <= x /\ x <= y => u <= w /\ w <= y
    OBVIOUS
  <2>7. QED
    BY <2>2, <2>3, <2>4, <2>5, <2>6
<1>3. QED
  BY <1>2 DEF Within

\* The bounds of a layer come to hold the shape that is written, and lose none.
LEMMA BoundedFacts ==
    ASSUME NEW b \in Bounds, NEW s \in Shapes
    PROVE  /\ Bounded(b, s) \in Bounds
           /\ Bounding(Stored(s), Bounded(b, s))
           /\ \A t \in Shapes : Bounding(t, b) => Bounding(t, Bounded(b, s))
<1> DEFINE vs == s.vertices
           e == SHPComputeExtents(vs)
           w == [lo |-> [d \in 1..4 |-> Smaller(b.lo[d], e.lo[d])], hi |-> [d \in 1..4 |-> Bigger(b.hi[d], e.hi[d])]]
<1>1. vs \in Seq(Vertex) /\ DOMAIN vs = 1..Len(vs)
  BY ShapeFacts
<1>2. e \in Bounds /\ \A i \in 1..Len(vs), d \in 1..4 : e.lo[d] <= vs[i][d] /\ vs[i][d] <= e.hi[d]
  BY <1>1, ExtentsFacts
<1>3. /\ Stored(s) \in Shapes /\ Stored(s).type = s.type /\ Len(Stored(s).vertices) = Len(vs)
      /\ \A i \in 1..Len(vs) : /\ \A d \in 1..3 : Stored(s).vertices[i][d] = vs[i][d]
                               /\ HasM(s.type) => Stored(s).vertices[i] = vs[i]
  BY StoredIsShape
<1>4. DOMAIN Stored(s).vertices = 1..Len(vs)
  BY <1>3, ShapeFacts
<1>5. Bounded(b, s) = IF _SHPSetBounds(b) = <<0, 0, 0, 0>> THEN e ELSE IF vs = <<>> THEN b ELSE w
  BY DEF Bounded
<1> HIDE DEF e
<1>6. Within(Stored(s), e)
  <2>1. ASSUME NEW i \in 1..Len(vs), NEW d \in 1..(IF HasM(s.type) THEN 4 ELSE 3)
        PROVE  e.lo[d] <= Stored(s).vertices[i][d] /\ Stored(s).vertices[i][d] <= e.hi[d]
    <3>1. d \in 1..4 /\ (HasM(s.type) \/ d \in 1..3)
      OBVIOUS
    <3>2. Stored(s).vertices[i][d] = vs[i][d]
      BY <1>3, <3>1
    <3>3. QED
      BY <1>2, <3>1, <3>2
  <2>2. QED
    BY <1>3, <1>4, <2>1 DEF Within
<1>7. CASE _SHPSetBounds(b) = <<0, 0, 0, 0>>
  <2>1. b.lo[1] = 0 /\ b.lo[2] = 0 /\ b.hi[1] = 0 /\ b.hi[2] = 0
    BY <1>7 DEF _SHPSetBounds
  <2>2. ASSUME NEW t \in Shapes, Within(t, b) PROVE AtOrigin(t)
    <3>1. t.vertices \in Seq(Vertex) /\ DOMAIN t.vertices = 1..Len(t.vertices)
      BY ShapeFacts
    <3>2. ASSUME NEW i \in DOMAIN t.vertices PROVE t.vertices[i][1] = 0 /\ t.vertices[i][2] = 0
      <4>1. 1 \in 1..4 /\ 2 \in 1..4 /\ 1 \in 1..(IF HasM(t.type) THEN 4 ELSE 3) /\ 2 \in 1..(IF HasM(t.type) THEN 4 ELSE 3)
        OBVIOUS
      <4>2. t.vertices[i][1] \in Int /\ t.vertices[i][2] \in Int
        BY <3>1, <4>1, VertexFacts
      <4>3. /\ b.lo[1] <= t.vertices[i][1] /\ t.vertices[i][1] <= b.hi[1]
            /\ b.lo[2] <= t.vertices[i][2] /\ t.vertices[i][2] <= b.hi[2]
        BY <2>2, <4>1 DEF Within
      <4>4. \A x \in Int : 0 <= x /\ x <= 0 => x = 0
        OBVIOUS
      <4>5. QED
        BY <2>1, <4>2, <4>3, <4>4
    <3>3. QED
      BY <3>2 DEF AtOrigin
  <2>3. QED
    BY <1>2, <1>5, <1>6, <1>7, <2>2 DEF Bounding
<1>8. CASE _SHPSetBounds(b) # <<0, 0, 0, 0>> /\ vs = <<>>
  <2>1. Bounded(b, s) = b /\ Len(vs) = 0
    BY <1>5, <1>8
  <2>2. AtOrigin(Stored(s))
    <3>1. DOMAIN Stored(s).vertices = {}
      BY <1>4, <2>1
    <3>2. QED
      BY <3>1 DEF AtOrigin
  <2>3. QED
    BY <2>1, <2>2 DEF Bounding
<1>9. CASE _SHPSetBounds(b) # <<0, 0, 0, 0>> /\ vs # <<>>
  <2>1. Bounded(b, s) = w
    BY <1>5, <1>9
  <2>2. ASSUME NEW d \in 1..4
        PROVE  /\ w.lo[d] \in Int /\ w.hi[d] \in Int
               /\ w.lo[d] <= b.lo[d] /\ b.hi[d] <= w.hi[d] /\ w.lo[d] <= e.lo[d] /\ e.hi[d] <= w.hi[d]
    <3>1. b.lo[d] \in Int /\ e.lo[d] \in Int /\ b.hi[d] \in Int /\ e.hi[d] \in Int
      BY <1>2 DEF Bounds
    <3>2. w.lo[d] = Smaller(b.lo[d], e.lo[d]) /\ w.hi[d] = Bigger(b.hi[d], e.hi[d])
      OBVIOUS
    <3>3. \A x, y \in Int : /\ Smaller(x, y) \in Int /\ Smaller(x, y) <= x /\ Smaller(x, y) <= y
                            /\ Bigger(x, y) \in Int /\ x <= Bigger(x, y) /\ y <= Bigger(x, y)
      BY DEF Smaller, Bigger
    <3> HIDE DEF w
    <3>4. w.lo[d] \in Int /\ w.lo[d] <= b.lo[d] /\ w.lo[d] <= e.lo[d]
      <4>1. /\ Smaller(b.lo[d], e.lo[d]) \in Int
            /\ Smaller(b.lo[d], e.lo[d]) <= b.lo[d] /\ Smaller(b.lo[d], e.lo[d]) <= e.lo[d]
        BY <3>1, <3>3
      <4>2. QED
        BY <3>2, <4>1
    <3>5. w.hi[d] \in Int /\ b.hi[d] <= w.hi[d] /\ e.hi[d] <= w.hi[d]
      <4>1. /\ Bigger(b.hi[d], e.hi[d]) \in Int
            /\ b.hi[d] <= Bigger(b.hi[d], e.hi[d]) /\ e.hi[d] <= Bigger(b.hi[d], e.hi[d])
        BY <3>1, <3>3
      <4>2. QED
        BY <3>2, <4>1
    <3>6. QED
      BY <3>4, <3>5
  <2>3. w \in Bounds
    <3>1. w = [lo |-> w.lo, hi |-> w.hi] /\ w.lo = [d \in 1..4 |-> w.lo[d]] /\ w.hi = [d \in 1..4 |-> w.hi[d]]
      OBVIOUS
    <3> HIDE DEF w
    <3>2. w.lo \in [1..4 -> Int] /\ w.hi \in [1..4 -> Int]
      BY <2>2, <3>1
    <3>3. QED
      BY <3>1, <3>2 DEF Bounds
  <2> HIDE DEF w
  <2>4. Within(Stored(s), w)
    BY <1>2, <1>3, <1>6, <2>2, <2>3, WithinWider
  <2>5. \A t \in Shapes : Within(t, b) => Within(t, w)
    BY <2>2, <2>3, WithinWider
  <2>6. QED
    BY <2>1, <2>3, <2>4, <2>5 DEF Bounding
<1>10. QED
  BY <1>7, <1>8, <1>9

\* Where the record of a shape goes.
PlaceFor(h, i, c) ==
    [offset |-> IF i > Len(h.records) THEN h.nFileSize
                ELSE IF h.records[i].size < Len(c) THEN h.nFileSize ELSE h.records[i].offset,
     size   |-> Len(c)]

\* A shape that is written gets the place it had, when it fits there, or one at
\* the end of the file: in either case a place no other overlaps.
LEMMA PlacedFacts ==
    ASSUME NEW h \in Handles, NEW s \in Shapes, NEW i \in 1..Len(h.records) + 1, NEW c \in Seq(Int),
           h.nFileSize <= Len(h.cells), Apart(h.records, h.nFileSize)
    PROVE  LET g == Placed(h, i, s, c)
               q == PlaceFor(h, i, c)
           IN  /\ q \in Places /\ q.size = Len(c) /\ q.offset <= Len(h.cells)
               /\ g \in Handles /\ g.updated /\ g.nShapeType = h.nShapeType /\ g.written = h.written
               /\ g.bounds = Bounded(h.bounds, s) /\ g.nFileSize = Bigger(h.nFileSize, PlaceEnd(q))
               /\ g.cells = WriteAt(h.cells, q.offset, <<i, Len(c)>> \o c)
               /\ Len(g.records) = Bigger(Len(h.records), i) /\ g.records[i] = q
               /\ \A j \in 1..Len(g.records) : j # i => j \in 1..Len(h.records) /\ g.records[j] = h.records[j]
               /\ \/ q.offset = h.nFileSize
                  \/ i \in 1..Len(h.records) /\ q.offset = h.records[i].offset /\ q.size <= h.records[i].size
<1> DEFINE g == Placed(h, i, s, c)
           q == PlaceFor(h, i, c)
           N == SubSeq(h.records, 1, i - 1) \o <<q>> \o SubSeq(h.records, i + 1, Len(h.records))
           x == WriteAt(h.cells, q.offset, <<i, Len(c)>> \o c)
<1>1. /\ h.records \in Seq(Places) /\ h.nFileSize \in Nat /\ h.cells \in Seq(Int) /\ h.bounds \in Bounds
      /\ h.nShapeType \in ShapeTypes /\ h.written \in Headings
      /\ Len(h.records) \in Nat /\ i \in Nat /\ Len(c) \in Nat /\ Len(h.cells) \in Nat
      /\ h = [nShapeType |-> h.nShapeType, bounds |-> h.bounds, nFileSize |-> h.nFileSize, records |-> h.records,
              cells |-> h.cells, written |-> h.written, updated |-> h.updated]
  BY DEF Handles
<1>2. /\ q.size = Len(c) /\ q \in Places
      /\ \/ q.offset = h.nFileSize
         \/ i \in 1..Len(h.records) /\ q.offset = h.records[i].offset /\ q.size <= h.records[i].size
  <2>0. q.size = Len(c) /\ q = [offset |-> q.offset, size |-> q.size]
    BY DEF PlaceFor
  <2>1. CASE i > Len(h.records)
    <3>1. q.offset = h.nFileSize
      BY <2>1 DEF PlaceFor
    <3> HIDE DEF q
    <3>2. QED
      BY <1>1, <2>0, <3>1 DEF Places
  <2>2. CASE ~(i > Len(h.records))
    <3>1. i \in 1..Len(h.records) /\ h.records[i] \in Places
      BY <1>1, <2>2
    <3>2. h.records[i].offset \in Nat /\ h.records[i].size \in Nat
      BY <3>1 DEF Places
    <3>3. q.offset = IF h.records[i].size < Len(c) THEN h.nFileSize ELSE h.records[i].offset
      BY <2>2 DEF PlaceFor
    <3> HIDE DEF q
    <3>4. q.offset \in Nat
      BY <1>1, <3>2, <3>3
    <3>5. q \in Places
      BY <1>1, <2>0, <3>4 DEF Places
    <3>6. CASE h.records[i].size < Len(c)
      BY <2>0, <3>3, <3>5, <3>6
    <3>7. CASE ~(h.records[i].size < Len(c))
      <4>1. Len(c) <= h.records[i].size
        BY <1>1, <3>2, <3>7
      <4>2. QED
        BY <2>0, <3>1, <3>3, <3>5, <3>7, <4>1
    <3>8. QED
      BY <3>6, <3>7
  <2>3. QED
    BY <2>1, <2>2
<1>3. g = [h EXCEPT !.updated = TRUE, !.records = N, !.cells = x,
                    !.nFileSize = Bigger(@, q.offset + 2 + Len(c)), !.bounds = Bounded(@, s)]
  BY DEF Placed, PlacedAt, PlaceFor
<1> HIDE DEF q
<1>4. q.offset <= Len(h.cells)
  <2>1. CASE q.offset = h.nFileSize
    BY <2>1
  <2>2. CASE i \in 1..Len(h.records) /\ q.offset = h.records[i].offset
    <3>1. PlaceEnd(h.records[i]) <= h.nFileSize
      BY <2>2 DEF Apart
    <3>2. h.records[i] \in Places
      BY <1>1, <2>2
    <3>3. h.records[i].offset \in Nat /\ h.records[i].size \in Nat
      BY <3>2 DEF Places
    <3>4. h.records[i].offset + 2 + h.records[i].size <= h.nFileSize
      BY <3>1 DEF PlaceEnd
    <3>5. \A o, n, f, l \in Nat : o + 2 + n <= f /\ f <= l => o <= l
      OBVIOUS
    <3>6. QED
      BY <1>1, <2>2, <3>3, <3>4, <3>5
  <2>3. QED
    BY <1>2, <2>1, <2>2
<1>5. /\ N \in Seq(Places) /\ Len(N) = Bigger(Len(h.records), i) /\ N[i] = q
      /\ \A j \in 1..Len(N) : j # i => j \in 1..Len(h.records) /\ N[j] = h.records[j]
  <2> DEFINE R == h.records
             M == SubSeq(R, 1, i - 1) \o <<q>> \o SubSeq(R, i + 1, Len(R))
  <2>1. R \in Seq(Places) /\ q \in Places /\ i \in 1..Len(R) + 1
    BY <1>1, <1>2
  <2> HIDE DEF R
  <2>2. /\ M \in Seq(Places) /\ Len(M) = Bigger(Len(R), i) /\ M[i] = q
        /\ \A j \in 1..Len(M) : j # i => j \in 1..Len(R) /\ M[j] = R[j]
    BY <2>1, ReplacedFacts
  <2>3. M = N
    BY DEF R
  <2> HIDE DEF M, N
  <2>4. QED
    BY <2>2, <2>3 DEF R
<1>6. x \in Seq(Int)
  BY <1>1, <1>2, <1>4, AtWritten
<1>7. Bounded(h.bounds, s) \in Bounds
  BY <1>1, BoundedFacts
<1> HIDE DEF N, x
<1>8. g = [nShapeType |-> h.nShapeType, bounds |-> Bounded(h.bounds, s), nFileSize |-> Bigger(h.nFileSize, q.offset + 2 + Len(c)),
           records |-> N, cells |-> x, written |-> h.written, updated |-> TRUE]
  <2> HIDE DEF g
  <2>1. QED
    BY <1>1, <1>3
<1>9. PlaceEnd(q) = q.offset + 2 + Len(c)
  BY <1>2 DEF PlaceEnd
<1>10. Bigger(h.nFileSize, q.offset + 2 + Len(c)) \in Nat
  <2>1. q.offset \in Nat
    BY <1>2 DEF Places
  <2>2. q.offset + 2 + Len(c) \in Nat
    BY <1>1, <2>1
  <2>3. QED
    BY <1>1, <2>2 DEF Bigger
<1> HIDE DEF g
<1>11. g \in Handles
  BY <1>1, <1>5, <1>6, <1>7, <1>8, <1>10 DEF Handles
<1>12. QED
  BY <1>2, <1>4, <1>5, <1>8, <1>9, <1>11 DEF g, q, x

\* The larger of two numbers.
LEMMA BiggerFacts ==
    \A x, y \in Nat : /\ Bigger(x, y) \in Nat /\ x <= Bigger(x, y) /\ y <= Bigger(x, y)
                      /\ \A z \in Nat : x <= z /\ y <= z => Bigger(x, y) <= z
BY DEF Bigger

\* Sizes that shrink, one after the other.
LEMMA NoLonger == \A x, y, z \in Nat : x <= y /\ y <= z => x <= z
OBVIOUS

\* Who is clear of a place is clear of what becomes of it when it shrinks.
LEMMA ClearOfPart ==
    ASSUME NEW q \in Places, NEW r \in Places, q.offset = r.offset, q.size <= r.size, NEW t \in Places, Clear(t, r)
    PROVE  Clear(t, q)
<1>1. q.offset \in Nat /\ q.size \in Nat /\ r.offset \in Nat /\ r.size \in Nat /\ t.offset \in Nat /\ t.size \in Nat
  BY DEF Places
<1>2. t.offset + 2 + t.size <= q.offset \/ r.offset + 2 + r.size <= t.offset
  BY DEF Clear, PlaceEnd
<1>3. \A o, n, m, k \in Nat : n <= m /\ o + 2 + m <= k => o + 2 + n <= k
  OBVIOUS
<1>4. t.offset + 2 + t.size <= q.offset \/ q.offset + 2 + q.size <= t.offset
  BY <1>1, <1>2, <1>3
<1>5. QED
  BY <1>4 DEF Clear, PlaceEnd

\* Writing a shape keeps every other, at its place, and in the files that a
\* program would leave that ended here.
LEMMA WriteKeeps ==
    ASSUME NEW h, NEW ss, NEW rw, NEW ub, LayerOK(h, ss, rw, ub),
           NEW s \in Shapes, NEW i \in 1..Len(h.records) + 1, NEW ts, NEW rv, NEW uc,
           ts \in Seq(Shapes), Len(ts) = Bigger(Len(ss), i), ts[i] = Stored(s),
           \A j \in 1..Len(ts) : j # i => ts[j] = ss[j],
           i <= Len(ss) => i \in rv,
           \A j : j # i => (j \in rv <=> j \in rw) /\ (j \in uc <=> j \in ub)
    PROVE  LayerOK(Placed(h, i, s, Content(s)), ts, rv, uc)
<1> DEFINE c == Content(s)
           g == Placed(h, i, s, c)
           q == PlaceFor(h, i, c)
           R == h.records
           S == g.records
           W == h.written.records
           n == Len(R)
<1>1. /\ h \in Handles /\ ReadsAs(h, ss) /\ Since(h, rw)
      /\ Headers(h) \in Headings /\ h.cells \in Seq(Int) /\ h.nFileSize <= Len(h.cells) /\ Apart(R, h.nFileSize)
      /\ \A j \in 1..n : ShapeOf(At(h.cells, R[j])) \in Shapes /\ (j \in ub \/ Bounding(ShapeOf(At(h.cells, R[j])), h.bounds))
      /\ h.written \in Headings /\ h.written.nFileSize <= Len(h.cells) /\ Apart(W, h.written.nFileSize)
      /\ \A j \in 1..Len(W) : /\ ShapeOf(At(h.cells, W[j])) \in Shapes
                              /\ j \in rw \cup ub \/ Bounding(ShapeOf(At(h.cells, W[j])), h.written.bounds)
  BY DEF LayerOK, FileOK, Headers
<1>2. /\ R \in Seq(Places) /\ n \in Nat /\ W \in Seq(Places) /\ Len(W) \in Nat /\ h.nFileSize \in Nat
      /\ h.written.nFileSize \in Nat /\ h.bounds \in Bounds /\ Len(h.cells) \in Nat /\ i \in Nat
  BY <1>1 DEF Handles, Headings
<1>3. Recorded(s)
  BY AllRecorded
<1>4. c \in Seq(Int) /\ Len(c) \in Nat
  BY <1>3 DEF Recorded
<1> HIDE DEF c
<1>5. /\ q \in Places /\ q.size = Len(c) /\ q.offset <= Len(h.cells)
      /\ g \in Handles /\ g.updated /\ g.nShapeType = h.nShapeType /\ g.written = h.written
      /\ g.bounds = Bounded(h.bounds, s) /\ g.nFileSize = Bigger(h.nFileSize, PlaceEnd(q))
      /\ g.cells = WriteAt(h.cells, q.offset, <<i, Len(c)>> \o c)
      /\ Len(S) = Bigger(n, i) /\ S[i] = q
      /\ \A j \in 1..Len(S) : j # i => j \in 1..n /\ S[j] = R[j]
      /\ \/ q.offset = h.nFileSize
         \/ i \in 1..n /\ q.offset = R[i].offset /\ q.size <= R[i].size
  BY <1>1, <1>4, PlacedFacts
<1> HIDE DEF g, q
<1>6. /\ g.cells \in Seq(Int) /\ Len(h.cells) <= Len(g.cells) /\ PlaceEnd(q) <= Len(g.cells)
      /\ \A r \in Places : r.offset = q.offset /\ q.size <= r.size /\ PlaceEnd(r) <= Len(g.cells) => Begins(At(g.cells, r), c)
      /\ \A r \in Places : PlaceEnd(r) <= Len(h.cells) /\ Clear(r, q) => At(g.cells, r) = At(h.cells, r)
  <2>1. q \in Places /\ q.size = Len(c) /\ q.offset <= Len(h.cells) /\ i \in Int /\ h.cells \in Seq(Int)
    BY <1>1, <1>2, <1>5
  <2>2. g.cells = WriteAt(h.cells, q.offset, <<i, Len(c)>> \o c)
    BY <1>5
  <2>3. QED
    BY <1>4, <2>1, <2>2, AtWritten
<1>7. Len(g.cells) \in Nat /\ PlaceEnd(q) \in Nat /\ q.offset \in Nat /\ q.size \in Nat
  <2>1. q.offset \in Nat /\ q.size \in Nat
    BY <1>5 DEF Places
  <2>2. q.offset + 2 + q.size \in Nat
    BY <2>1
  <2>3. PlaceEnd(q) \in Nat
    BY <2>2 DEF PlaceEnd
  <2>4. Len(g.cells) \in Nat
    BY <1>6
  <2>5. QED
    BY <2>1, <2>3, <2>4
<1>8. \A r \in Places : r.offset \in Nat /\ r.size \in Nat /\ PlaceEnd(r) \in Nat /\ PlaceEnd(r) = r.offset + 2 + r.size
  BY DEF PlaceEnd, Places
<1>9. (\A j \in 1..n : R[j] \in Places) /\ (\A j \in 1..Len(W) : W[j] \in Places)
  BY <1>2
<1>10. \A j \in 1..n : j # i => PlaceEnd(R[j]) <= Len(h.cells) /\ PlaceEnd(R[j]) <= h.nFileSize /\ Clear(R[j], q)
  <2> SUFFICES ASSUME NEW j \in 1..n, j # i
               PROVE  PlaceEnd(R[j]) <= Len(h.cells) /\ PlaceEnd(R[j]) <= h.nFileSize /\ Clear(R[j], q)
    OBVIOUS
  <2>1. PlaceEnd(R[j]) <= h.nFileSize /\ R[j] \in Places /\ PlaceEnd(R[j]) \in Nat
    BY <1>1, <1>8, <1>9 DEF Apart
  <2>2. PlaceEnd(R[j]) <= Len(h.cells)
    BY <1>1, <1>2, <2>1
  <2>3. CASE q.offset = h.nFileSize
    BY <2>1, <2>2, <2>3 DEF Clear
  <2>4. CASE i \in 1..n /\ q.offset = R[i].offset /\ q.size <= R[i].size
    <3>1. Clear(R[j], R[i])
      BY <1>1, <2>4 DEF Apart
    <3>2. Clear(R[j], q)
      BY <1>5, <1>9, <2>1, <2>4, <3>1, ClearOfPart
    <3>3. QED
      BY <2>1, <2>2, <3>2
  <2>5. QED
    BY <1>5, <2>3, <2>4
<1>11. \A j \in 1..n : j # i => At(g.cells, R[j]) = At(h.cells, R[j])
  BY <1>6, <1>9, <1>10
<1>12. At(g.cells, q) \in Seq(Int) /\ ShapeOf(At(g.cells, q)) = Stored(s)
  <2>1. Begins(At(g.cells, q), c)
    <3>1. q.size <= q.size
      BY <1>7
    <3>2. QED
      BY <1>5, <1>6, <3>1
  <2>2. At(g.cells, q) \in Seq(Int) /\ Len(At(g.cells, q)) = q.size
    BY <1>5, <1>6, AtFacts
  <2>3. QED
    BY <1>3, <1>5, <2>1, <2>2 DEF Recorded, c
<1>13. n = Len(ss) /\ ss \in Seq(Shapes) /\ \A j \in 1..n : ShapeOf(At(h.cells, R[j])) = ss[j]
  BY <1>1 DEF ReadsAs
<1>14. Len(ts) = Len(S) /\ Len(S) \in Nat /\ i \in 1..Len(S) /\ \A j \in 1..Len(S) : ShapeOf(At(g.cells, S[j])) = ts[j]
  <2>1. Len(ts) = Len(S) /\ Len(S) \in Nat /\ i \in 1..Len(S)
    BY <1>2, <1>5, <1>13 DEF Bigger
  <2>2. ASSUME NEW j \in 1..Len(S) PROVE ShapeOf(At(g.cells, S[j])) = ts[j]
    <3>1. CASE j = i
      BY <1>5, <1>12, <3>1
    <3>2. CASE j # i
      <4>1. j \in 1..n /\ S[j] = R[j]
        BY <1>5, <3>2
      <4>2. ts[j] = ss[j]
        BY <2>1, <3>2
      <4>3. QED
        BY <1>11, <1>13, <3>2, <4>1, <4>2
    <3>3. QED
      BY <3>1, <3>2
  <2>3. QED
    BY <2>1, <2>2
<1>15. ReadsAs(g, ts)
  BY <1>14 DEF ReadsAs
<1>16. FileOK(Headers(g), g.cells, uc)
  <2>1. Headers(g) \in Headings
    BY <1>5 DEF Headers, Headings, Handles
  <2>2. g.nFileSize \in Nat /\ h.nFileSize <= g.nFileSize /\ PlaceEnd(q) <= g.nFileSize /\ g.nFileSize <= Len(g.cells)
    <3>1. h.nFileSize <= Len(g.cells)
      BY <1>1, <1>2, <1>6, <1>7, NoLonger
    <3>2. /\ g.nFileSize = Bigger(h.nFileSize, PlaceEnd(q)) /\ h.nFileSize \in Nat /\ PlaceEnd(q) \in Nat
          /\ Len(g.cells) \in Nat /\ PlaceEnd(q) <= Len(g.cells)
      BY <1>2, <1>5, <1>6, <1>7
    <3> HIDE DEF R, S, W, n
    <3>3. QED
      BY <3>1, <3>2, BiggerFacts
  <2>3. Apart(S, g.nFileSize)
    <3>1. ASSUME NEW j \in 1..Len(S) PROVE PlaceEnd(S[j]) <= g.nFileSize
      <4>1. CASE j = i
        BY <1>5, <2>2, <4>1
      <4>2. CASE j # i
        <5>1. j \in 1..n /\ S[j] = R[j] /\ PlaceEnd(R[j]) <= h.nFileSize /\ PlaceEnd(R[j]) \in Nat
          BY <1>5, <1>8, <1>9, <1>10, <4>2
        <5>2. QED
          BY <1>2, <2>2, <5>1
      <4>3. QED
        BY <4>1, <4>2
    <3>2. ASSUME NEW j \in 1..Len(S), NEW k \in 1..Len(S), j # k PROVE Clear(S[j], S[k])
      <4>1. CASE j = i
        <5>1. k \in 1..n /\ S[k] = R[k] /\ Clear(R[k], q)
          BY <1>5, <1>10, <3>2, <4>1
        <5>2. QED
          BY <1>5, <4>1, <5>1 DEF Clear
      <4>2. CASE k = i
        <5>1. j \in 1..n /\ S[j] = R[j] /\ Clear(R[j], q)
          BY <1>5, <1>10, <3>2, <4>2
        <5>2. QED
          BY <1>5, <4>2, <5>1
      <4>3. CASE j # i /\ k # i
        <5>1. j \in 1..n /\ S[j] = R[j] /\ k \in 1..n /\ S[k] = R[k]
          BY <1>5, <4>3
        <5>2. QED
          BY <1>1, <3>2, <5>1 DEF Apart
      <4>4. QED
        BY <4>1, <4>2, <4>3
    <3>3. QED
      BY <3>1, <3>2 DEF Apart
  <2>4. ASSUME NEW j \in 1..Len(S)
        PROVE  ShapeOf(At(g.cells, S[j])) \in Shapes /\ (j \in uc \/ Bounding(ShapeOf(At(g.cells, S[j])), g.bounds))
    <3>1. CASE j = i
      <4>1. Stored(s) \in Shapes /\ Bounding(Stored(s), g.bounds)
        BY <1>2, <1>5, StoredIsShape, BoundedFacts
      <4>2. QED
        BY <1>5, <1>12, <3>1, <4>1
    <3>2. CASE j # i
      <4>1. j \in 1..n /\ S[j] = R[j] /\ At(g.cells, S[j]) = At(h.cells, R[j])
        BY <1>5, <1>11, <3>2
      <4>2. ShapeOf(At(h.cells, R[j])) \in Shapes /\ (j \in ub \/ Bounding(ShapeOf(At(h.cells, R[j])), h.bounds))
        BY <1>1, <4>1
      <4>3. Bounding(ShapeOf(At(h.cells, R[j])), h.bounds) => Bounding(ShapeOf(At(h.cells, R[j])), g.bounds)
        BY <1>2, <1>5, <4>2, BoundedFacts
      <4>4. QED
        BY <3>2, <4>1, <4>2, <4>3
    <3>3. QED
      BY <3>1, <3>2
  <2>5. Headers(g).nFileSize = g.nFileSize /\ Headers(g).records = S /\ Headers(g).bounds = g.bounds
    BY DEF Headers
  <2>6. QED
    BY <1>6, <2>1, <2>2, <2>3, <2>4, <2>5 DEF FileOK
<1>17. /\ Len(W) <= n /\ h.written.nFileSize <= h.nFileSize
       /\ \A j \in 1..n : \/ h.written.nFileSize <= R[j].offset
                          \/ j <= Len(W) /\ R[j].offset = W[j].offset /\ R[j].size <= W[j].size
       /\ \A j \in 1..Len(W) : j \in rw \/ W[j] = R[j]
  BY <1>1 DEF Since
<1>18. \/ h.written.nFileSize <= q.offset
       \/ i \in 1..Len(W) /\ i \in 1..n /\ q.offset = W[i].offset /\ q.size <= W[i].size
  <2>1. CASE q.offset = h.nFileSize
    BY <1>17, <2>1
  <2>2. CASE i \in 1..n /\ q.offset = R[i].offset /\ q.size <= R[i].size
    <3>1. CASE h.written.nFileSize <= R[i].offset
      BY <2>2, <3>1
    <3>2. CASE i <= Len(W) /\ R[i].offset = W[i].offset /\ R[i].size <= W[i].size
      <4>1. i \in 1..Len(W) /\ W[i] \in Places /\ R[i] \in Places
        BY <1>2, <1>9, <2>2, <3>2
      <4>2. q.size <= W[i].size
        <5>1. q.size \in Nat /\ R[i].size \in Nat /\ W[i].size \in Nat
          BY <1>7, <1>8, <4>1
        <5>2. q.size <= R[i].size /\ R[i].size <= W[i].size
          BY <2>2, <3>2
        <5>3. QED
          BY <5>1, <5>2, NoLonger
      <4>3. QED
        BY <2>2, <3>2, <4>1, <4>2
    <3>3. QED
      BY <1>17, <2>2, <3>1, <3>2
  <2>3. QED
    BY <1>5, <2>1, <2>2
<1>19. ASSUME NEW j \in 1..Len(W)
       PROVE  /\ ShapeOf(At(g.cells, W[j])) \in Shapes
              /\ j # i => At(g.cells, W[j]) = At(h.cells, W[j])
  <2>1. W[j] \in Places /\ PlaceEnd(W[j]) \in Nat /\ PlaceEnd(W[j]) <= h.written.nFileSize /\ PlaceEnd(W[j]) <= Len(h.cells)
    <3>1. W[j] \in Places
      BY <1>9
    <3>2. PlaceEnd(W[j]) \in Nat
      BY <1>8, <3>1
    <3>3. PlaceEnd(W[j]) <= h.written.nFileSize
      BY <1>1 DEF Apart
    <3>4. PlaceEnd(W[j]) <= Len(h.cells)
      BY <1>1, <1>2, <3>2, <3>3, NoLonger
    <3>5. QED
      BY <3>1, <3>2, <3>3, <3>4
  <2>2. CASE Clear(W[j], q)
    <3>1. At(g.cells, W[j]) = At(h.cells, W[j])
      BY <1>6, <2>1, <2>2
    <3>2. QED
      BY <1>1, <3>1
  <2>3. CASE h.written.nFileSize <= q.offset
    <3>1. Clear(W[j], q)
      BY <1>2, <1>7, <2>1, <2>3 DEF Clear
    <3>2. QED
      BY <2>2, <3>1
  <2>4. CASE i \in 1..Len(W) /\ q.offset = W[i].offset /\ q.size <= W[i].size /\ j # i
    <3>1. Clear(W[j], W[i])
      BY <1>1, <2>4 DEF Apart
    <3>2. Clear(W[j], q)
      BY <1>5, <1>9, <2>1, <2>4, <3>1, ClearOfPart
    <3>3. QED
      BY <2>2, <3>2
  <2>5. CASE q.offset = W[j].offset /\ q.size <= W[j].size /\ j = i
    <3>1. PlaceEnd(W[j]) <= Len(g.cells)
      BY <1>2, <1>6, <1>7, <2>1
    <3>2. Begins(At(g.cells, W[j]), c)
      BY <1>6, <2>1, <2>5, <3>1
    <3>3. At(g.cells, W[j]) \in Seq(Int)
      BY <1>6, <2>1, <3>1, AtFacts
    <3>4. QED
      BY <1>3, <2>5, <3>2, <3>3 DEF Recorded, c
  <2>6. QED
    BY <1>18, <2>3, <2>4, <2>5
<1>20. i \in 1..Len(W) => i \in rv
  BY <1>2, <1>13, <1>17
<1>21. FileOK(g.written, g.cells, rv \cup uc)
  <2>1. ASSUME NEW j \in 1..Len(W), j \notin rv \cup uc PROVE Bounding(ShapeOf(At(g.cells, W[j])), h.written.bounds)
    <3>1. j # i
      BY <1>20, <2>1
    <3>2. j \notin rw \cup ub
      BY <2>1, <3>1
    <3>3. QED
      BY <1>1, <1>19, <3>1, <3>2
  <2>2. h.written.nFileSize <= Len(g.cells)
    BY <1>1, <1>2, <1>6, <1>7
  <2>3. QED
    BY <1>1, <1>5, <1>6, <1>19, <2>1, <2>2 DEF FileOK
<1>22. Since(g, rv)
  <2>1. Len(W) <= Len(S) /\ h.written.nFileSize <= g.nFileSize
    <3>1. /\ Len(S) = Bigger(n, i) /\ n \in Nat /\ i \in Nat /\ Len(W) <= n /\ Len(W) \in Nat
          /\ g.nFileSize = Bigger(h.nFileSize, PlaceEnd(q)) /\ h.nFileSize \in Nat /\ PlaceEnd(q) \in Nat
          /\ h.written.nFileSize <= h.nFileSize /\ h.written.nFileSize \in Nat
      BY <1>2, <1>5, <1>7, <1>17
    <3> HIDE DEF S, W, n
    <3>2. n <= Bigger(n, i) /\ Bigger(n, i) \in Nat
      BY <3>1, BiggerFacts
    <3>3. h.nFileSize <= Bigger(h.nFileSize, PlaceEnd(q)) /\ Bigger(h.nFileSize, PlaceEnd(q)) \in Nat
      BY <3>1, BiggerFacts
    <3>4. Len(W) <= Len(S)
      BY <3>1, <3>2, NoLonger
    <3>5. h.written.nFileSize <= g.nFileSize
      BY <3>1, <3>3, NoLonger
    <3>6. QED
      BY <3>4, <3>5
  <2>2. ASSUME NEW j \in 1..Len(S)
        PROVE  \/ h.written.nFileSize <= S[j].offset
               \/ j <= Len(W) /\ S[j].offset = W[j].offset /\ S[j].size <= W[j].size
    <3>1. CASE j = i
      <4>1. S[i] = q
        BY <1>5
      <4> HIDE DEF S, W
      <4>2. QED
        BY <1>18, <3>1, <4>1
    <3>2. CASE j # i
      <4>1. j \in 1..n /\ S[j] = R[j]
        BY <1>5, <3>2
      <4> HIDE DEF S, W, R, n
      <4>2. QED
        BY <1>17, <4>1
    <3>3. QED
      BY <3>1, <3>2
  <2>3. ASSUME NEW j \in 1..Len(W) PROVE j \in rv \/ W[j] = S[j]
    <3>1. CASE j = i
      BY <1>20, <3>1
    <3>2. CASE j # i
      <4>1. j \in 1..Len(S)
        BY <1>2, <1>14, <2>1
      <4>2. QED
        BY <1>5, <1>17, <3>2, <4>1
    <3>3. QED
      BY <3>1, <3>2
  <2>4. QED
    BY <1>5, <2>1, <2>2, <2>3 DEF Since
<1>23. QED
  BY <1>5, <1>15, <1>16, <1>21, <1>22 DEF LayerOK, g, c

\* What is read of a record whose place lies in the file.
LEMMA ReadOfPlace ==
    ASSUME NEW h, NEW i \in 1..Len(h.records), Len(h.records) \in Nat,
           PlaceEnd(h.records[i]) <= Len(h.cells), Len(h.cells) \in Nat,
           h.records[i] \in Places
    PROVE  SHPReadObject(h, i - 1) = ShapeOf(At(h.cells, h.records[i]))
<1>1. i \in Int /\ i - 1 \in 0..Len(h.records) - 1 /\ (i - 1) + 1 = i
  OBVIOUS
<1>2. h.records[i].offset \in Nat /\ h.records[i].size \in Nat
  BY DEF Places
<1>3. \A o, n, l \in Nat : o + 2 + n <= l => ~(l < o + n + 2)
  OBVIOUS
<1>4. ~(Len(h.cells) < h.records[i].offset + h.records[i].size + 2)
  BY <1>2, <1>3 DEF PlaceEnd
<1> DEFINE r == h.records[(i - 1) + 1]
<1>5. r = h.records[i]
  BY <1>1
<1>6. SHPReadObject(h, i - 1) =
        IF Len(h.cells) < r.offset + r.size + 2 THEN NoFile ELSE ShapeOf(SubSeq(h.cells, r.offset + 3, r.offset + 2 + r.size))
  BY <1>1 DEF SHPReadObject
<1> HIDE DEF r
<1>7. QED
  BY <1>4, <1>5, <1>6 DEF At

\* SHPReadObject reads of an open layer what lies at the place of a record.
LEMMA FileRead ==
    ASSUME NEW h, NEW hd, NEW ub, FileOK(hd, h.cells, ub), h.records = hd.records
    PROVE  /\ Len(h.records) \in Nat /\ DOMAIN h.records = 1..Len(h.records)
           /\ \A i \in 1..Len(h.records) : SHPReadObject(h, i - 1) = ShapeOf(At(h.cells, h.records[i]))
           /\ ShapesRead(h) \in Seq(Shapes) /\ Len(ShapesRead(h)) = Len(h.records)
           /\ \A i \in 1..Len(h.records) : ShapesRead(h)[i] = ShapeOf(At(h.cells, h.records[i]))
<1> DEFINE R == h.records
<1>1. /\ R \in Seq(Places) /\ hd.nFileSize \in Nat /\ h.cells \in Seq(Int) /\ hd.nFileSize <= Len(h.cells)
      /\ Apart(R, hd.nFileSize)
      /\ \A i \in 1..Len(R) : ShapeOf(At(h.cells, R[i])) \in Shapes
  BY DEF FileOK, Headings
<1>2. Len(R) \in Nat /\ DOMAIN R = 1..Len(R) /\ Len(h.cells) \in Nat
  BY <1>1
<1>3. ASSUME NEW i \in 1..Len(R) PROVE SHPReadObject(h, i - 1) = ShapeOf(At(h.cells, R[i]))
  <2>1. R[i] \in Places
    BY <1>1
  <2>2. PlaceEnd(R[i]) <= hd.nFileSize
    BY <1>1 DEF Apart
  <2>3. PlaceEnd(R[i]) \in Nat
    <3>1. R[i].offset \in Nat /\ R[i].size \in Nat
      BY <2>1 DEF Places
    <3>2. R[i].offset + 2 + R[i].size \in Nat
      BY <3>1
    <3>3. QED
      BY <3>2 DEF PlaceEnd
  <2>4. PlaceEnd(R[i]) <= Len(h.cells)
    BY <1>1, <1>2, <2>2, <2>3, NoLonger
  <2>5. QED
    BY <1>2, <2>1, <2>4, ReadOfPlace
<1>4. ShapesRead(h) = [i \in 1..Len(R) |-> SHPReadObject(h, i - 1)]
  BY <1>2 DEF ShapesRead
<1>5. \A i \in 1..Len(R) : SHPReadObject(h, i - 1) \in Shapes
  BY <1>1, <1>3
<1> HIDE DEF R
<1>6. ShapesRead(h) \in Seq(Shapes) /\ Len(ShapesRead(h)) = Len(R) /\ \A i \in 1..Len(R) : ShapesRead(h)[i] = SHPReadObject(h, i - 1)
  BY <1>2, <1>4, <1>5
<1>7. QED
  BY <1>2, <1>3, <1>6 DEF R

\* What the invariant says of a layer is what its programs rely on.
LEMMA LayerReads ==
    ASSUME NEW h, NEW ss, NEW rw, NEW ub, LayerOK(h, ss, rw, ub)
    PROVE  /\ ShapesRead(h) = ss
           /\ ShapesRead(SHPOpenLL(SHPClose(h))) = ss
           /\ \A i \in DOMAIN h.written.records : i \in rw \/ SHPReadObject(SHPOpenLL(Unclosed(h)), i - 1) = ss[i]
           /\ \A i \in DOMAIN ss : i \in ub \/ AtOrigin(ss[i]) \/ Within(ss[i], h.bounds)
<1>1. /\ FileOK(Headers(h), h.cells, ub) /\ FileOK(h.written, h.cells, rw \cup ub) /\ ReadsAs(h, ss) /\ Since(h, rw)
      /\ ~h.updated => h.written = Headers(h)
      /\ h \in Handles
  BY DEF LayerOK
<1>2. Headers(h).records = h.records /\ Headers(h).bounds = h.bounds
  BY DEF Headers
<1>3. ss \in Seq(Shapes) /\ Len(ss) = Len(h.records) /\ Len(ss) \in Nat /\ DOMAIN ss = 1..Len(ss)
      /\ \A i \in 1..Len(ss) : ShapeOf(At(h.cells, h.records[i])) = ss[i]
  BY <1>1 DEF ReadsAs
<1>4. ASSUME NEW g, g.cells = h.cells, g.records = h.records PROVE ShapesRead(g) = ss
  <2>1. /\ ShapesRead(g) \in Seq(Shapes) /\ Len(ShapesRead(g)) = Len(g.records)
        /\ \A i \in 1..Len(g.records) : ShapesRead(g)[i] = ShapeOf(At(g.cells, g.records[i]))
    BY <1>1, <1>2, <1>4, FileRead
  <2>2. \A i \in 1..Len(ss) : ShapesRead(g)[i] = ss[i]
    BY <1>3, <1>4, <2>1
  <2>3. QED
    BY <1>3, <1>4, <2>1, <2>2, SeqEqual
<1>5. ShapesRead(h) = ss
  BY <1>4
<1>6. ShapesRead(SHPOpenLL(SHPClose(h))) = ss
  <2> DEFINE f == SHPClose(h)
             g == SHPOpenLL(f)
  <2>1. f.cells = h.cells /\ f.headers = Headers(h)
    <3>1. CASE h.updated
      <4>1. SHPWriteHeader(h).cells = h.cells /\ SHPWriteHeader(h).written = Headers(h)
        BY <1>1 DEF SHPWriteHeader, Handles
      <4>2. f = Unclosed(SHPWriteHeader(h))
        BY <3>1 DEF SHPClose
      <4>3. QED
        BY <4>1, <4>2 DEF Unclosed
    <3>2. CASE ~h.updated
      BY <1>1, <3>2 DEF SHPClose, Unclosed
    <3>3. QED
      BY <3>1, <3>2
  <2> HIDE DEF f
  <2>2. g.cells = h.cells /\ g.records = h.records
    BY <1>2, <2>1 DEF SHPOpenLL
  <2> HIDE DEF g
  <2>3. ShapesRead(g) = ss
    BY <1>4, <2>2
  <2>4. QED
    BY <2>3 DEF g, f
<1>7. ASSUME NEW i \in DOMAIN h.written.records, i \notin rw PROVE SHPReadObject(SHPOpenLL(Unclosed(h)), i - 1) = ss[i]
  <2> DEFINE g == SHPOpenLL(Unclosed(h))
  <2>1. g.cells = h.cells /\ g.records = h.written.records
    BY DEF SHPOpenLL, Unclosed
  <2> HIDE DEF g
  <2>2. /\ Len(g.records) \in Nat /\ DOMAIN g.records = 1..Len(g.records)
        /\ \A k \in 1..Len(g.records) : SHPReadObject(g, k - 1) = ShapeOf(At(g.cells, g.records[k]))
    BY <1>1, <2>1, FileRead
  <2>3. i \in 1..Len(h.written.records) /\ Len(h.written.records) \in Nat
    BY <2>1, <2>2
  <2>4. SHPReadObject(g, i - 1) = ShapeOf(At(h.cells, h.written.records[i]))
    BY <2>1, <2>2, <2>3
  <2>5. h.written.records[i] = h.records[i] /\ Len(h.written.records) <= Len(h.records)
    BY <1>1, <1>7, <2>3 DEF Since
  <2>6. i \in 1..Len(ss)
    BY <1>3, <2>3, <2>5
  <2>7. QED
    BY <1>3, <2>4, <2>5, <2>6 DEF g
<1>8. ASSUME NEW i \in DOMAIN ss PROVE i \in ub \/ AtOrigin(ss[i]) \/ Within(ss[i], h.bounds)
  <2>1. i \in 1..Len(ss) /\ i \in 1..Len(h.records)
    BY <1>3
  <2>2. i \in ub \/ Bounding(ShapeOf(At(h.cells, h.records[i])), h.bounds)
    BY <1>1, <1>2, <2>1 DEF FileOK
  <2>3. QED
    BY <1>3, <2>1, <2>2 DEF Bounding
<1>9. QED
  BY <1>5, <1>6, <1>7, <1>8

\* A file that is opened is a layer.
LEMMA OpenedLayer ==
    ASSUME NEW hd, NEW cells, NEW ub, FileOK(hd, cells, ub)
    PROVE  LET h == SHPOpenLL([headers |-> hd, cells |-> cells]) IN LayerOK(h, ShapesRead(h), {}, ub)
<1> DEFINE h == SHPOpenLL([headers |-> hd, cells |-> cells])
<1>1. h = [nShapeType |-> hd.type, bounds |-> hd.bounds, nFileSize |-> hd.nFileSize, records |-> hd.records,
           cells |-> cells, written |-> hd, updated |-> FALSE]
  BY DEF SHPOpenLL
<1>2. hd \in Headings /\ cells \in Seq(Int)
  BY DEF FileOK
<1>3. /\ h \in Handles /\ h.records = hd.records /\ h.cells = cells /\ h.written = hd /\ h.nFileSize = hd.nFileSize
      /\ h.updated = FALSE /\ h.bounds = hd.bounds /\ h.nShapeType = hd.type
  <2>1. hd.type \in ShapeTypes /\ hd.bounds \in Bounds /\ hd.nFileSize \in Nat /\ hd.records \in Seq(Places)
    BY <1>2 DEF Headings
  <2> HIDE DEF h
  <2>2. QED
    BY <1>1, <1>2, <2>1 DEF Handles
<1> HIDE DEF h
<1>4. Headers(h) = hd
  <2>1. hd = [type |-> hd.type, bounds |-> hd.bounds, nFileSize |-> hd.nFileSize, records |-> hd.records]
    BY <1>2 DEF Headings
  <2>2. QED
    BY <1>3, <2>1 DEF Headers
<1>5. FileOK(h.written, h.cells, {} \cup ub)
  BY <1>3
<1>6. /\ Len(h.records) \in Nat /\ ShapesRead(h) \in Seq(Shapes) /\ Len(ShapesRead(h)) = Len(h.records)
      /\ \A i \in 1..Len(h.records) : ShapesRead(h)[i] = ShapeOf(At(h.cells, h.records[i]))
  BY <1>3, FileRead
<1>7. ReadsAs(h, ShapesRead(h))
  BY <1>6 DEF ReadsAs
<1>8. Since(h, {})
  <2>1. \A i \in 1..Len(h.records) : h.records[i] \in Places /\ h.records[i].size \in Nat
    <3>1. h.records \in Seq(Places)
      BY <1>2, <1>3 DEF Headings
    <3>2. \A i \in 1..Len(h.records) : h.records[i] \in Places
      BY <3>1
    <3>3. QED
      BY <3>2 DEF Places
  <2>2. h.nFileSize \in Nat
    BY <1>2, <1>3 DEF Headings
  <2>3. \A x \in Nat : x <= x
    OBVIOUS
  <2>4. QED
    BY <1>3, <1>6, <2>1, <2>2, <2>3 DEF Since
<1>9. QED
  BY <1>3, <1>4, <1>5, <1>7, <1>8 DEF LayerOK, h

\* A layer that is created has no shapes, and its headers say so.
LEMMA CreatedLayer ==
    ASSUME NEW t \in ShapeTypes
    PROVE  LayerOK(SHPCreateLL(t), <<>>, {}, {})
<1> DEFINE hd == [type |-> t, bounds |-> NoBounds, nFileSize |-> 0, records |-> <<>>]
           h == SHPOpenLL([headers |-> hd, cells |-> <<>>])
<1>1. NoBounds \in Bounds
  BY DEF NoBounds, Bounds
<1>2. hd \in Headings /\ hd.records = <<>> /\ hd.nFileSize = 0
  BY <1>1 DEF Headings
<1> HIDE DEF hd
<1>3. Len(hd.records) = 0 /\ 1..0 = {}
  BY <1>2
<1>4. FileOK(hd, <<>>, {})
  BY <1>2, <1>3, EmptyPiece DEF FileOK, Apart
<1>5. LayerOK(h, ShapesRead(h), {}, {})
  BY <1>4, OpenedLayer
<1>6. h.records = hd.records
  BY DEF SHPOpenLL
<1> HIDE DEF h
<1>7. ShapesRead(h) = <<>>
  BY <1>2, <1>6 DEF ShapesRead
<1>8. QED
  BY <1>5, <1>7 DEF SHPCreateLL, h, hd

\* A shape that is written over, and the files of each kind of end.
LEMMA OverwriteKeeps ==
    ASSUME NEW h, NEW ss, NEW rw, NEW ub, LayerOK(h, ss, rw, ub), NEW s \in Shapes, NEW i \in DOMAIN ss
    PROVE  LayerOK(SHPWriteObject(h, i - 1, s), [ss EXCEPT ![i] = Stored(s)], rw \cup {i}, ub \ {i})
<1> DEFINE ts == [ss EXCEPT ![i] = Stored(s)]
           rv == rw \cup {i}
           uc == ub \ {i}
<1>1. ss \in Seq(Shapes) /\ Len(ss) = Len(h.records) /\ Len(ss) \in Nat /\ DOMAIN ss = 1..Len(ss)
  BY DEF LayerOK, ReadsAs
<1>2. Stored(s) \in Shapes
  BY StoredIsShape
<1>3. ts \in Seq(Shapes) /\ Len(ts) = Len(ss) /\ ts[i] = Stored(s) /\ \A j \in 1..Len(ts) : j # i => ts[j] = ss[j]
  BY <1>1, <1>2
<1>4. i \in 1..Len(h.records) + 1 /\ i \in Int /\ Len(ss) = Bigger(Len(ss), i) /\ i - 1 \in 0..Len(h.records) - 1 /\ (i - 1) + 1 = i
  BY <1>1 DEF Bigger
<1>5. i \in rv /\ \A j : j # i => (j \in rv <=> j \in rw) /\ (j \in uc <=> j \in ub)
  OBVIOUS
<1> HIDE DEF ts, rv, uc
<1>6. LayerOK(Placed(h, i, s, Content(s)), ts, rv, uc)
  BY <1>3, <1>4, <1>5, WriteKeeps
<1>7. SHPWriteObject(h, i - 1, s) = Placed(h, i, s, Content(s))
  BY <1>4 DEF SHPWriteObject
<1>8. QED
  BY <1>6, <1>7 DEF ts, rv, uc

\* A shape that is added at the end.
LEMMA NewKeeps ==
    ASSUME NEW h, NEW ss, NEW rw, NEW ub, LayerOK(h, ss, rw, ub), NEW s \in Shapes
    PROVE  LayerOK(SHPWriteObject(h, -1, s), Append(ss, Stored(s)), rw, ub)
<1> DEFINE ts == Append(ss, Stored(s))
           i == Len(h.records) + 1
<1>1. ss \in Seq(Shapes) /\ Len(ss) = Len(h.records) /\ Len(ss) \in Nat
  BY DEF LayerOK, ReadsAs
<1>2. Stored(s) \in Shapes
  BY StoredIsShape
<1>3. ts \in Seq(Shapes) /\ Len(ts) = i /\ ts[i] = Stored(s) /\ \A j \in 1..Len(ts) : j # i => ts[j] = ss[j]
  BY <1>1, <1>2
<1>4. i \in 1..Len(h.records) + 1 /\ i = Bigger(Len(ss), i) /\ ~(-1 \in 0..Len(h.records) - 1) /\ ~(i <= Len(ss))
  BY <1>1 DEF Bigger
<1>5. SHPWriteObject(h, -1, s) = Placed(h, i, s, Content(s))
  BY <1>4 DEF SHPWriteObject
<1> HIDE DEF ts, i
<1>6. \A j : j # i => (j \in rw <=> j \in rw) /\ (j \in ub <=> j \in ub)
  OBVIOUS
<1>7. LayerOK(Placed(h, i, s, Content(s)), ts, rw, ub)
  BY <1>3, <1>4, <1>6, WriteKeeps
<1>8. QED
  BY <1>5, <1>7 DEF ts

\* The bounds may be wrong for more shapes than they are.
LEMMA FileOKOf ==
    ASSUME NEW hd, NEW cells, NEW ub, NEW uc, FileOK(hd, cells, ub),
           \A i \in 1..Len(hd.records) : i \in ub => i \in uc
    PROVE  FileOK(hd, cells, uc)
BY DEF FileOK

\* Every step of the programs that use a layer keeps what it stands on.
LEMMA ShapefileSteps ==
    ASSUME ShapefileInv, [LayerNext]_shp
    PROVE  ShapefileInv'
<1>1. CASE CreateLayer
  <2>1. PICK s \in ShapeChoices : hSHP' = SHPCreateLL(s.type)
    BY <1>1 DEF CreateLayer
  <2>2. s.type \in ShapeTypes
    BY ShapesAssumption, ShapeFacts
  <2>3. LayerOK(hSHP', shapes', rewritten', unbounded') /\ files' = NoFile
    BY <1>1, <2>1, <2>2, CreatedLayer DEF CreateLayer
  <2>4. QED
    BY <2>3 DEF ShapefileInv
<1>2. CASE OpenLayer
  <2>1. FileOK(files.headers, files.cells, unbounded) /\ files = [headers |-> files.headers, cells |-> files.cells]
    BY <1>2 DEF OpenLayer, ShapefileInv
  <2>2. LayerOK(SHPOpenLL(files), ShapesRead(SHPOpenLL(files)), {}, unbounded)
    BY <2>1, OpenedLayer
  <2>3. LayerOK(hSHP', shapes', rewritten', unbounded') /\ files' = NoFile
    BY <1>2, <2>2 DEF OpenLayer
  <2>4. QED
    BY <2>3 DEF ShapefileInv
<1>3. CASE WriteNew
  <2>1. LayerOK(hSHP, shapes, rewritten, unbounded) /\ files = NoFile
    BY <1>3 DEF WriteNew, ShapefileInv
  <2>2. PICK s \in ShapeChoices : hSHP' = SHPWriteObject(hSHP, -1, s) /\ shapes' = Append(shapes, s)
    BY <1>3 DEF WriteNew
  <2>3. s \in Shapes /\ Stored(s) = s
    BY ShapesAssumption, StoredIsShape
  <2>4. LayerOK(SHPWriteObject(hSHP, -1, s), Append(shapes, Stored(s)), rewritten, unbounded)
    BY <2>1, <2>3, NewKeeps
  <2>5. LayerOK(hSHP', shapes', rewritten', unbounded') /\ files' = NoFile
    BY <1>3, <2>1, <2>2, <2>3, <2>4 DEF WriteNew
  <2>6. QED
    BY <2>5 DEF ShapefileInv
<1>4. CASE WriteOver
  <2>1. LayerOK(hSHP, shapes, rewritten, unbounded) /\ files = NoFile
    BY <1>4 DEF WriteOver, ShapefileInv
  <2>2. PICK s \in ShapeChoices, i \in DOMAIN shapes :
           /\ hSHP' = SHPWriteObject(hSHP, i - 1, s) /\ shapes' = [shapes EXCEPT ![i] = s]
           /\ rewritten' = rewritten \cup {i} /\ unbounded' = unbounded \ {i}
    BY <1>4 DEF WriteOver
  <2>3. s \in Shapes /\ Stored(s) = s
    BY ShapesAssumption, StoredIsShape
  <2>4. LayerOK(SHPWriteObject(hSHP, i - 1, s), [shapes EXCEPT ![i] = Stored(s)], rewritten \cup {i}, unbounded \ {i})
    BY <2>1, <2>3, OverwriteKeeps
  <2>5. LayerOK(hSHP', shapes', rewritten', unbounded') /\ files' = NoFile
    BY <1>4, <2>1, <2>2, <2>3, <2>4 DEF WriteOver
  <2>6. QED
    BY <2>5 DEF ShapefileInv
<1>5. CASE Rewind
  <2>1. LayerOK(hSHP, shapes, rewritten, unbounded) /\ files = NoFile
    BY <1>5 DEF Rewind, ShapefileInv
  <2>2. PICK i \in DOMAIN shapes :
           /\ hSHP' = SHPWriteObject(hSHP, i - 1, SHPRewindObject(SHPReadObject(hSHP, i - 1)))
           /\ shapes' = [shapes EXCEPT ![i] = Stored(SHPRewindObject(@))]
           /\ rewritten' = rewritten \cup {i} /\ unbounded' = unbounded \ {i}
    BY <1>5 DEF Rewind
  <2>3. shapes \in Seq(Shapes) /\ Len(shapes) = Len(hSHP.records) /\ DOMAIN shapes = 1..Len(shapes)
    BY <2>1 DEF LayerOK, ReadsAs
  <2>4. SHPReadObject(hSHP, i - 1) = shapes[i] /\ shapes[i] \in Shapes
    <3>1. FileOK(Headers(hSHP), hSHP.cells, unbounded) /\ Headers(hSHP).records = hSHP.records
      BY <2>1 DEF LayerOK, Headers
    <3>2. \A k \in 1..Len(hSHP.records) : SHPReadObject(hSHP, k - 1) = ShapeOf(At(hSHP.cells, hSHP.records[k]))
      BY <3>1, FileRead
    <3>3. \A k \in 1..Len(shapes) : ShapeOf(At(hSHP.cells, hSHP.records[k])) = shapes[k]
      BY <2>1 DEF LayerOK, ReadsAs
    <3>4. QED
      BY <2>3, <3>2, <3>3
  <2> DEFINE s == SHPRewindObject(shapes[i])
  <2>5. s \in Shapes
    BY <2>4, RewoundIsShape
  <2>6. hSHP' = SHPWriteObject(hSHP, i - 1, s) /\ shapes' = [shapes EXCEPT ![i] = Stored(s)]
    BY <2>2, <2>4
  <2> HIDE DEF s
  <2>7. LayerOK(SHPWriteObject(hSHP, i - 1, s), [shapes EXCEPT ![i] = Stored(s)], rewritten \cup {i}, unbounded \ {i})
    BY <2>1, <2>5, OverwriteKeeps
  <2>8. LayerOK(hSHP', shapes', rewritten', unbounded') /\ files' = NoFile
    BY <1>5, <2>1, <2>2, <2>6, <2>7 DEF Rewind
  <2>9. QED
    BY <2>8 DEF ShapefileInv
<1>6. CASE CloseLayer
  <2>1. LayerOK(hSHP, shapes, rewritten, unbounded)
    BY <1>6 DEF CloseLayer, ShapefileInv
  <2>2. FileOK(Headers(hSHP), hSHP.cells, unbounded)
    BY <2>1 DEF LayerOK
  <2>3. files' = [headers |-> Headers(hSHP), cells |-> hSHP.cells]
    <3>1. CASE hSHP.updated
      <4>1. SHPWriteHeader(hSHP).cells = hSHP.cells /\ SHPWriteHeader(hSHP).written = Headers(hSHP)
        BY <2>1 DEF SHPWriteHeader, Handles, LayerOK
      <4>2. files' = Unclosed(SHPWriteHeader(hSHP))
        BY <1>6, <3>1 DEF CloseLayer, SHPClose
      <4>3. QED
        BY <4>1, <4>2 DEF Unclosed
    <3>2. CASE ~hSHP.updated
      <4>1. hSHP.written = Headers(hSHP)
        BY <2>1, <3>2 DEF LayerOK
      <4>2. QED
        BY <1>6, <3>2, <4>1 DEF CloseLayer, SHPClose, Unclosed
    <3>3. QED
      BY <3>1, <3>2
  <2>4. hSHP' = NoFile /\ unbounded' = unbounded
    BY <1>6 DEF CloseLayer
  <2>5. files'.headers = Headers(hSHP) /\ files'.cells = hSHP.cells
    BY <2>3
  <2>6. QED
    BY <2>2, <2>3, <2>4, <2>5 DEF ShapefileInv
<1>7. CASE ExitLayer
  <2>1. LayerOK(hSHP, shapes, rewritten, unbounded)
    BY <1>7 DEF ExitLayer, ShapefileInv
  <2> DEFINE uc == (unbounded \cup rewritten) \cap DOMAIN hSHP.written.records
  <2>2. FileOK(hSHP.written, hSHP.cells, rewritten \cup unbounded)
    BY <2>1 DEF LayerOK
  <2>3. DOMAIN hSHP.written.records = 1..Len(hSHP.written.records)
    <3>1. hSHP.written.records \in Seq(Places)
      BY <2>2 DEF FileOK, Headings
    <3>2. QED
      BY <3>1
  <2>4. FileOK(hSHP.written, hSHP.cells, uc)
    BY <2>2, <2>3, FileOKOf
  <2>5. files' = [headers |-> hSHP.written, cells |-> hSHP.cells] /\ hSHP' = NoFile /\ unbounded' = uc
    BY <1>7 DEF ExitLayer, Unclosed
  <2>6. files'.headers = hSHP.written /\ files'.cells = hSHP.cells
    BY <2>5
  <2> HIDE DEF uc
  <2>7. QED
    BY <2>4, <2>5, <2>6 DEF ShapefileInv
<1>8. CASE UNCHANGED shp
  BY <1>8 DEF ShapefileInv, shp
<1>9. QED
  BY <1>1, <1>2, <1>3, <1>4, <1>5, <1>6, <1>7, <1>8 DEF LayerNext

\* The places of a layer's records never overlap and at each of them lies a shape,
\* by the headers the layer has in memory, and by those of its last SHPClose that
\* are still on disk while shpopen.c writes over its records.
THEOREM ShapefilesStandUp == LayerSpec => []ShapefileInv
<1>1. LayerInit => ShapefileInv
  BY DEF LayerInit, ShapefileInv
<1>2. ShapefileInv /\ [LayerNext]_shp => ShapefileInv'
  BY ShapefileSteps
<1>3. QED
  BY <1>1, <1>2, PTL DEF LayerSpec

\* SHPReadObject returns each shape of a layer as SHPWriteObject was last given it,
\* whatever was written over it or wound by SHPRewindObject before; so does a
\* program that opens the layer after SHPClose, and one that opens it after the
\* writer ended without, for the records it did not write over; and the layer's
\* bounds hold every shape but those such an end left unbounded and those at the
\* origin.
THEOREM ShapesAlwaysKept == LayerSpec => []ShapesKept
<1>1. ShapefileInv => ShapesKept
  <2> SUFFICES ASSUME ShapefileInv, hSHP # NoFile
               PROVE  /\ ShapesRead(hSHP) = shapes
                      /\ ShapesRead(SHPOpenLL(SHPClose(hSHP))) = shapes
                      /\ \A i \in DOMAIN hSHP.written.records :
                            i \in rewritten \/ SHPReadObject(SHPOpenLL(Unclosed(hSHP)), i - 1) = shapes[i]
                      /\ \A i \in DOMAIN shapes : i \in unbounded \/ AtOrigin(shapes[i]) \/ Within(shapes[i], hSHP.bounds)
    BY DEF ShapesKept
  <2>1. LayerOK(hSHP, shapes, rewritten, unbounded)
    BY DEF ShapefileInv
  <2>2. QED
    BY <2>1, LayerReads
<1>2. QED
  BY <1>1, ShapefilesStandUp, PTL

=============================================================================
