-------------------------- MODULE GeometryColumns --------------------------
(***************************************************************************)
(* The geometry_columns catalogue: the functions that add, change and drop *)
(* geometry columns together with their catalogue row and CHECK            *)
(* constraints, those that rebuild the catalogue from the system tables,   *)
(* and the plain SQL that goes behind their backs.                         *)
(*                                                                         *)
(* A column is named by its schema and its table: a table has one geometry *)
(* column here.  Views are left out.                                       *)
(***************************************************************************)
EXTENDS Naturals, FiniteSets

CONSTANTS
    Cols,        \* [schema, table] of every geometry column there can be
    Srids,       \* SRIDs with a row in spatial_ref_sys, and -1
    Types,       \* geometry type names other than GEOMETRY
    Nil,         \* no column, no row, no constraint
    SridFound,   \* <<s, t>>: ' = ' and then s is found in the constraint to t: the
                 \* digits of s begin those of t; not for -1, printed (-1)
    TypeFound,   \* the same of types: the letters of one begin the other's
    MaxStored    \* bound: how many different geometries a column holds

VARIABLES
    column,      \* column[c]: its constraints and what is stored in it, or Nil
    gc,          \* gc[c]: its row of geometry_columns, or Nil
    stale        \* history: rows left behind by a DROP of their columns that
                 \* is none of the catalogue's functions

gcVars == <<column, gc, stale>>

Dims     == {2, 3}
Geometry == [srid : Srids, dims : Dims, type : Types]

\* The pg_constraint entries told apart by the function they call: the LIKE
\* patterns of the functions below see the difference.
SridCheck == [fn : {"st_srid", "srid"}, srid : Srids]
Column    == [srid : SridCheck \cup {Nil}, dims : Dims \cup {Nil}, type : Types \cup {Nil},
              stored : SUBSET Geometry]

\* fixed is history: fix_geometry_columns moved the row.
Row       == [srid : Srids, dims : Dims, type : Types \cup {"GEOMETRY"}, fixed : BOOLEAN]

RowOf(srid, dims, type) == [srid |-> srid, dims |-> dims, type |-> type, fixed |-> FALSE]

ASSUME NilAssumption ==
    /\ Nil \notin Srids /\ Nil \notin Dims /\ Nil \notin Types
    /\ Nil \notin SridCheck /\ Nil \notin Column /\ Nil \notin Row

GCInit ==
    /\ column = [c \in Cols |-> Nil]
    /\ gc = [c \in Cols |-> Nil]
    /\ stale = {}

Satisfies(g, k) ==
    /\ k.srid # Nil => g.srid = k.srid.srid
    /\ k.dims # Nil => g.dims = k.dims
    /\ k.type # Nil => g.type = k.type

Holds(k) == \A g \in k.stored : Satisfies(g, k)

-----------------------------------------------------------------------------
\* The ALTER TABLE of AddGeometryColumn, its two statements on the catalogue
\* and its two or three constraints; the new column holds NULLs only.
AddedColumn(srid, type, dims) ==
    [srid |-> [fn |-> "st_srid", srid |-> srid], dims |-> dims,
     type |-> IF type = "GEOMETRY" THEN Nil ELSE type, stored |-> {}]

AddGeometryColumn(c, srid, type, dims) ==
    /\ column[c] = Nil
    /\ column' = [column EXCEPT ![c] = AddedColumn(srid, type, dims)]
    /\ gc' = [gc EXCEPT ![c] = RowOf(srid, dims, type)]
    /\ stale' = stale \ {c}

\* Both raise, and do nothing, if ALTER TABLE finds no column.
DropGeometryColumn(c) ==
    /\ gc[c] # Nil /\ column[c] # Nil
    /\ gc' = [gc EXCEPT ![c] = Nil]
    /\ column' = [column EXCEPT ![c] = Nil]
    /\ stale' = stale \ {c}

DropGeometryTable(c) ==
    /\ column[c] # Nil
    /\ gc' = [gc EXCEPT ![c] = Nil]
    /\ column' = [column EXCEPT ![c] = Nil]
    /\ stale' = stale \ {c}

SetSrid(G, srid) == {[g EXCEPT !.srid = srid] : g \in G}

\* Mutant of UpdatedColumn: the geometries keep their SRID until written again.
UpdatedLater(k, srid) == [k EXCEPT !.srid = Nil]

UpdatedColumn(k, srid) ==
    [k EXCEPT !.srid = [fn |-> "srid", srid |-> srid], !.stored = SetSrid(@, srid)]

\* No constraint of the expected name: DROP CONSTRAINT raises.
UpdateGeometrySRID(c, srid) ==
    /\ gc[c] # Nil /\ column[c] # Nil
    /\ column[c].srid # Nil
    /\ gc' = [gc EXCEPT ![c].srid = srid]
    /\ column' = [column EXCEPT ![c] = UpdatedColumn(@, srid)]
    /\ UNCHANGED stale

-----------------------------------------------------------------------------
\* populate_geometry_columns(oid) takes what a missing constraint should say
\* from some stored geometry and adds the constraint if every one meets it.
WithSrid(k, g) == [k EXCEPT !.srid = IF @ = Nil THEN [fn |-> "srid", srid |-> g.srid] ELSE @]
WithDims(k, g) == [k EXCEPT !.dims = IF @ = Nil THEN g.dims ELSE @]
WithType(k, g) == [k EXCEPT !.type = IF @ = Nil THEN g.type ELSE @]

Kept(k, new) == IF Holds(new) THEN new ELSE k

\* Mutant of PopulatedRow: registered although a constraint could not be added.
PopulatedAnyway(k, g) ==
    RowOf(WithSrid(k, g).srid.srid, WithDims(k, g).dims, WithType(k, g).type)

\* Registered unless the SRID or dimensions could not be enforced; a type that
\* could not is registered all the same.
PopulatedRow(k, g) ==
    IF Holds(WithSrid(k, g)) /\ Holds(WithDims(k, g))
    THEN RowOf(WithSrid(k, g).srid.srid, WithDims(k, g).dims, WithType(k, g).type)
    ELSE Nil

Known(k) == Nil \notin {k.srid, k.dims, k.type}

\* One column's outcomes, [column, row]: g is what LIMIT 1 returns.
Populated(k) ==
    IF k.stored = {}
    THEN {[column |-> k,
           row |-> IF Known(k) THEN RowOf(k.srid.srid, k.dims, k.type) ELSE Nil]}
    ELSE {[column |-> LET s == Kept(k, WithSrid(k, g))
                          d == Kept(s, WithDims(s, g))
                      IN  Kept(d, WithType(d, g)),
           row |-> PopulatedRow(k, g)] : g \in k.stored}

Existing == {c \in Cols : column[c] # Nil}

\* populate_geometry_columns() truncates the catalogue, then takes every column.
PopulateGeometryColumns ==
    \E done \in [Existing -> UNION {Populated(column[c]) : c \in Existing}] :
        /\ \A c \in Existing : done[c] \in Populated(column[c])
        /\ column' = [c \in Cols |-> IF c \in Existing THEN done[c].column ELSE Nil]
        /\ gc' = [c \in Cols |-> IF c \in Existing THEN done[c].row ELSE Nil]
        /\ stale' = {}

\* Columns whose constraints match the patterns of the INSERT; the dimension
\* is not looked up.  A row that exists, stale or not, is left alone.
Probed == {c \in Existing : /\ gc[c] = Nil
                            /\ column[c].srid # Nil /\ column[c].type # Nil
                            /\ column[c].srid.fn = "st_srid"}

ProbeGeometryColumns ==
    /\ gc' = [c \in Cols |-> IF c \in Probed THEN RowOf(column[c].srid.srid, 2, column[c].type)
                             ELSE gc[c]]
    /\ UNCHANGED <<column, stale>>

\* fix_geometry_columns moves a row whose schema has no such column to a schema
\* that has one, without a row, and with constraints in which the row's SRID and
\* type are found: by a pattern not anchored at its end.
Fixable(c, d) ==
    /\ gc[c] # Nil /\ column[c] = Nil
    /\ d \in Existing /\ gc[d] = Nil /\ d.table = c.table
    /\ column[d].srid # Nil /\ column[d].type # Nil
    /\ column[d].srid.fn = "srid" /\ <<gc[c].srid, column[d].srid.srid>> \in SridFound
    /\ <<gc[c].type, column[d].type>> \in TypeFound

\* One UPDATE moves every such row; two that meet violate the primary key.
FixGeometryColumns ==
    \E move \in [{c \in Cols : \E d \in Cols : Fixable(c, d)} -> Cols] :
        /\ \A c \in DOMAIN move : Fixable(c, move[c])
        /\ \A c, e \in DOMAIN move : move[c] = move[e] => c = e
        /\ gc' = [d \in Cols |-> IF d \in DOMAIN move THEN Nil
                               ELSE IF \E c \in DOMAIN move : move[c] = d
                               THEN [gc[CHOOSE c \in DOMAIN move : move[c] = d]
                                        EXCEPT !.fixed = TRUE]
                               ELSE gc[d]]
        /\ stale' = stale \ DOMAIN move
        /\ UNCHANGED column

-----------------------------------------------------------------------------
(* Plain SQL. *)

Store(c, g) ==
    /\ column[c] # Nil
    /\ Satisfies(g, column[c])
    /\ Cardinality(column[c].stored \cup {g}) <= MaxStored
    /\ column' = [column EXCEPT ![c].stored = @ \cup {g}]
    /\ UNCHANGED <<gc, stale>>

\* ALTER TABLE, DROP TABLE, DROP SCHEMA CASCADE: the catalogue is not told.
PlainDrop(C) ==
    /\ column' = [c \in Cols |-> IF c \in C THEN Nil ELSE column[c]]
    /\ stale' = stale \cup {c \in C : gc[c] # Nil}
    /\ UNCHANGED gc

PlainAdd(c) ==
    /\ column[c] = Nil
    /\ column' = [column EXCEPT ![c] = [srid |-> Nil, dims |-> Nil, type |-> Nil, stored |-> {}]]
    /\ UNCHANGED <<gc, stale>>

PlainUnregister(c) ==
    /\ gc[c] # Nil
    /\ gc' = [gc EXCEPT ![c] = Nil]
    /\ stale' = stale \ {c}
    /\ UNCHANGED column

UserStep(c) ==
    \/ \E s \in Srids, t \in Types \cup {"GEOMETRY"}, d \in Dims : AddGeometryColumn(c, s, t, d)
    \/ DropGeometryColumn(c) \/ DropGeometryTable(c)
    \/ \E s \in Srids : UpdateGeometrySRID(c, s)
    \/ \E g \in Geometry : Store(c, g)
    \/ column[c] # Nil /\ PlainDrop({c})
    \/ PlainAdd(c) \/ PlainUnregister(c)

CatalogueStep == PopulateGeometryColumns \/ ProbeGeometryColumns \/ FixGeometryColumns

GCNext == CatalogueStep \/ \E c \in Cols : UserStep(c)

GCSpec == GCInit /\ [][GCNext]_gcVars

-----------------------------------------------------------------------------
GCTypeOK ==
    /\ column \in [Cols -> Column \cup {Nil}]
    /\ gc \in [Cols -> Row \cup {Nil}]
    /\ stale \in SUBSET Cols

\* What is registered is enforced: unless a DROP left the row behind, its
\* column exists, a CHECK keeps every geometry in it to one SRID, and that is
\* the registered one, whichever of the functions wrote the row.  The exception
\* is a row that fix_geometry_columns moved: its SRID may only begin the one
\* that is enforced.  (Dimensions and type are not: probing registers two
\* dimensions of any column, fixing moves a row to a column of other dimensions,
\* populating takes the type of one geometry.)
RegisteredIsEnforced ==
    \A c \in Cols \ stale :
        gc[c] # Nil =>
            /\ column[c] # Nil /\ column[c].srid # Nil
            /\ \/ gc[c].srid = column[c].srid.srid
               \/ gc[c].fixed /\ <<gc[c].srid, column[c].srid.srid>> \in SridFound
            /\ \A g \in column[c].stored : g.srid = column[c].srid.srid

\* The same without the exception.  Not true.
RegisteredExactly ==
    \A c \in Cols \ stale :
        gc[c] # Nil => column[c] # Nil /\ column[c].srid # Nil /\ gc[c].srid = column[c].srid.srid
=============================================================================
