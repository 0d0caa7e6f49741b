------------------------------- MODULE Loader -------------------------------
(***************************************************************************)
(* shp2pgsql: the statements that load a layer of shapes and its           *)
(* attributes into a table, as loader/shp2pgsql-core.c writes them.        *)
(*                                                                         *)
(* A geometry is [type, z, m, srid, body]: the body of a POINT is one      *)
(* point in a sequence, of a LINESTRING or MULTIPOINT its points, of a      *)
(* POLYGON or MULTILINESTRING its rings or lines, of a MULTIPOLYGON the     *)
(* rings of each polygon; a point has the ordinates the geometry has.  A   *)
(* text is a sequence of character codes.                                  *)
(***************************************************************************)
EXTENDS ShapeFile

Tab       == 9
Newline   == 10
Quote     == 39
Backslash == 92

Geom(type, z, m, srid, body) == [type |-> type, z |-> z, m |-> m, srid |-> srid, body |-> body]

\* A configuration before the options of the command line.
set_config_defaults ==
    [opt |-> "c", geom |-> "the_geom", dump_format |-> FALSE, simple_geometries |-> FALSE,
     geography |-> FALSE, quoteidentifiers |-> FALSE, forceint4 |-> FALSE, createindex |-> FALSE,
     readshape |-> TRUE, null_policy |-> "insert", sr_id |-> -1, hwgeom |-> FALSE]

\* The conversion of a text; NoFile if it fails.  Codes over 127 stand for what
\* the encoding does not have.
utf8(s) == IF \E i \in DOMAIN s : s[i] > 127 THEN NoFile ELSE s

escape_copy_string(s) ==
    FlattenSeq([i \in DOMAIN s |-> IF s[i] \in {Tab, Backslash, Newline, Return} THEN <<Backslash, s[i]>> ELSE <<s[i]>>])

escape_insert_string(s) == FlattenSeq([i \in DOMAIN s |-> IF s[i] = Quote THEN <<Quote, Quote>> ELSE <<s[i]>>])

-----------------------------------------------------------------------------
(* Geometries.  A state st has the configuration, the type of the layer and *)
(* `fresh`, what an ordinate nobody sets holds.                            *)

\* Old texts have no M.
WithZ(st) == HasZ(st.shpfiletype)
WithM(st) == HasM(st.shpfiletype) /\ ~st.config.hwgeom
Ordinates(st, v) ==
    <<v[1], v[2]>> \o (IF WithZ(st) THEN <<v[3]>> ELSE <<>>) \o (IF WithM(st) THEN <<v[4]>> ELSE <<>>)

\* A vertex is compared in four ordinates with the point before it.
Repeats(st, v, p) ==
    /\ v[1] = p[1] /\ v[2] = p[2]
    /\ IF WithZ(st) THEN v[3] = p[3] ELSE st.fresh = 0
    /\ IF WithM(st) THEN v[4] = Last(p) ELSE (IF HasM(st.shpfiletype) THEN v[4] ELSE st.fresh) = 0

dynptarray_addPoint4d(st, pa, v) ==
    IF pa = <<>> THEN <<Ordinates(st, v)>>
    ELSE IF Repeats(st, v, Last(pa)) THEN pa ELSE Append(pa, Ordinates(st, v))
PointArray(st, vs) == FoldLeft(LAMBDA pa, v : dynptarray_addPoint4d(st, pa, v), <<>>, vs)

Loaded(st, type, body) == Geom(type, WithZ(st), WithM(st), st.config.sr_id, body)

GeneratePointGeometry(st, obj) ==
    Loaded(st, IF Len(obj.vertices) > 1 THEN "MULTIPOINT" ELSE "POINT",
           [i \in DOMAIN obj.vertices |-> Ordinates(st, obj.vertices[i])])

\* NoFile: the loader stops.
GenerateLineStringGeometry(st, obj) ==
    LET lines == [k \in DOMAIN obj.starts |-> PointArray(st, PartOf(obj, k))]
    IN  IF ~st.config.simple_geometries THEN Loaded(st, "MULTILINESTRING", lines)
        ELSE IF Len(lines) > 1 THEN NoFile ELSE Loaded(st, "LINESTRING", lines[1])

\* The edge from a to b crosses the ray from p to the right.
Right(a, b, p) ==
    LET across == (p[2] - a[2]) * (b[1] - a[1])
        off    == (p[1] - a[1]) * (b[2] - a[2])
    IN  \/ a[2] <= p[2] /\ b[2] > p[2] /\ off < across
        \/ a[2] > p[2] /\ b[2] <= p[2] /\ off > across
PIP(p, ring) == Len(SelectSeq([i \in 1..Len(ring) - 1 |-> i], LAMBDA i : Right(ring[i], ring[i + 1], p))) % 2 = 1

\* Mutant of Holding: the first point alone is looked at, from outside too.
HoldingAny(polygons, ring) == IF polygons = <<>> THEN 0 ELSE 1

\* The first polygon that has the first or second point of the ring in it, else 0.
Holding(polygons, ring) ==
    SelectInSeq(polygons, LAMBDA p : PIP(ring[1], p[1]) \/ PIP(ring[2], p[1]))

\* A ring in no polygon becomes one.
Joined(polygons, k, ring) ==
    IF k = 0 THEN Append(polygons, <<ring>>) ELSE [polygons EXCEPT ![k] = Append(@, ring)]

\* Clockwise rings are outer, as is the only one.
FindPolygons(obj) ==
    LET rings    == PartsOf(obj)
        Outer(r) == Len(rings) = 1 \/ TwiceArea(r) < 0
    IN  FoldLeft(LAMBDA ps, r : Joined(ps, Holding(ps, r), r),
                 LET outer == SelectSeq(rings, Outer) IN [k \in DOMAIN outer |-> <<outer[k]>>],
                 SelectSeq(rings, LAMBDA r : ~Outer(r)))

PolygonBody(st, rings) == [k \in DOMAIN rings |-> PointArray(st, rings[k])]
GeneratePolygonGeometry(st, obj) ==
    LET polygons == FindPolygons(obj)
    IN  IF ~st.config.simple_geometries
        THEN Loaded(st, "MULTIPOLYGON", [k \in DOMAIN polygons |-> PolygonBody(st, polygons[k])])
        ELSE IF Len(polygons) # 1 THEN NoFile ELSE Loaded(st, "POLYGON", PolygonBody(st, polygons[1]))

-----------------------------------------------------------------------------
(* Opening: what the state knows of the layer and of the fields. *)

\* The types a layer gives to its column; not those of patches.
Column2D(t) ==
    CASE Base(t) = SHPT_POINT -> "POINT"              [] Base(t) = SHPT_ARC -> "MULTILINESTRING"
      [] Base(t) = SHPT_POLYGON -> "MULTIPOLYGON"     [] Base(t) = SHPT_MULTIPOINT -> "MULTIPOINT"
Simple(type) ==
    CASE type = "MULTILINESTRING" -> "LINESTRING" [] type = "MULTIPOLYGON" -> "POLYGON" [] OTHER -> type
pgtype(config, t) ==
    (IF config.simple_geometries THEN Simple(Column2D(t)) ELSE Column2D(t))
      \o (IF HasM(t) /\ ~HasZ(t) /\ ~config.hwgeom THEN "M" ELSE "")
pgdims(config, t) ==
    2 + (IF HasZ(t) THEN 1 ELSE 0) + (IF HasM(t) /\ ~config.hwgeom THEN 1 ELSE 0)

Uppers == "ABCDEFGHIJKLMNOPQRSTUVWXYZ"
Lowers == "abcdefghijklmnopqrstuvwxyz"
Letter(s, i)        == SubSeq(s, i, i)
Turned(s, from, to) ==
    FoldLeft(LAMBDA t, c : t \o c, "",
             [i \in 1..Len(s) |->
                IF \E k \in 1..26 : Letter(from, k) = Letter(s, i)
                THEN Letter(to, CHOOSE k \in 1..26 : Letter(from, k) = Letter(s, i)) ELSE Letter(s, i)])
strtolower(s) == Turned(s, Uppers, Lowers)

Reserved == {"gid", "tableoid", "cmax", "xmax", "cmin", "primary", "oid", "ctid"}
Prefixed(name) == IF name \in Reserved \/ Letter(name, 1) = "_" THEN "__" \o name ELSE name

\* A name a field before it has gets the number of the field.
Renamed(names, name, j) == IF name \in ToSet(names) THEN name \o "__" \o ToString(j) ELSE name
FieldNames(config, fields) ==
    FoldLeft(LAMBDA names, f :
               Append(names, Renamed(names, Prefixed(IF config.quoteidentifiers THEN f.name ELSE strtolower(f.name)),
                                     Len(names))),
             <<>>, fields)

\* A layer with geometries is refused if one is missing and that is not allowed.
Refused(config, h) ==
    config.null_policy = "abort"
      /\ \E i \in DOMAIN h.records : SHPReadObject(h, i - 1) = NoFile \/ SHPReadObject(h, i - 1).vertices = <<>>

\* f: [dbf, shp], NoFile for a missing one.  NoFile: the loader stops.  Without
\* the shapes the attributes alone are loaded.
ShpLoaderOpenShape(config, f, fresh) ==
    LET dbf   == IF f.dbf = NoFile THEN NoFile ELSE DBFOpenLL(f.dbf)
        shp   == IF config.readshape /\ f.shp # NoFile THEN SHPOpenLL(f.shp) ELSE NoFile
        State(type, n) ==
            [config |-> [config EXCEPT !.readshape = shp # NoFile], hDBFHandle |-> dbf, hSHPHandle |-> shp,
             shpfiletype |-> type, num_entities |-> n, field_names |-> FieldNames(config, dbf.fields),
             types |-> [j \in DOMAIN dbf.fields |-> DBFGetFieldInfo(dbf, j - 1)], fresh |-> fresh]
    IN  IF dbf = NoFile THEN NoFile
        ELSE IF shp = NoFile THEN State(SHPT_NULL, dbf.nRecords)
        ELSE IF Refused(config, shp) \/ Base(shp.nShapeType) \notin {SHPT_POINT, SHPT_ARC, SHPT_POLYGON, SHPT_MULTIPOINT}
        THEN NoFile
        ELSE State(shp.nShapeType, Len(shp.records))

-----------------------------------------------------------------------------
(* The statements. *)

ColumnType(config, type, width) ==
    CASE type = "FTString"  -> "varchar"
      [] type = "FTDate"    -> "date"
      [] type = "FTLogical" -> "boolean"
      [] type = "FTDouble"  -> IF width > 18 THEN "numeric" ELSE "float8"
      [] type = "FTInteger" -> IF config.forceint4 THEN "int4"
                               ELSE IF width < 5 THEN "int2" ELSE IF width < 10 THEN "int4" ELSE "numeric"

Columns(st) ==
    [j \in DOMAIN st.types |-> [name |-> st.field_names[j],
                                type |-> ColumnType(st.config, st.types[j], st.hDBFHandle.fields[j].size),
                                width |-> st.hDBFHandle.fields[j].size]]
Planar(st) == st.config.readshape /\ ~st.config.geography

\* These come before the transaction.
DropStatements(st) ==
    IF st.config.opt # "d" THEN <<>>
    ELSE (IF Planar(st) THEN <<[do |-> "drop geometry", geom |-> st.config.geom]>> ELSE <<>>)
           \o <<[do |-> "drop table"]>>

GeometryColumn(st, srid, zm) ==
    [name |-> st.config.geom, type |-> pgtype(st.config, st.shpfiletype) \o zm, srid |-> srid,
     dims |-> pgdims(st.config, st.shpfiletype), geography |-> st.config.geography]

CreateStatements(st) ==
    IF st.config.opt = "a" THEN <<>>
    ELSE <<[do |-> "create", columns |-> Columns(st),
            geom |-> IF st.config.readshape /\ st.config.geography
                     THEN GeometryColumn(st, 4326, IF pgdims(st.config, st.shpfiletype) = 4 THEN "ZM" ELSE "") ELSE NoFile]>>
           \o (IF Planar(st) THEN <<[do |-> "add geometry", geom |-> GeometryColumn(st, st.config.sr_id, "")]>> ELSE <<>>)

\* Mutant of ShpLoaderGetSQLHeader: the table is made before the transaction begins.
ShpLoaderGetSQLHeaderLate(st) ==
    IF st.config.geography /\ st.config.readshape /\ st.config.opt # "a" /\ st.config.sr_id \notin {-1, 4326} THEN NoFile
    ELSE DropStatements(st) \o CreateStatements(st) \o <<[do |-> "begin"]>>

\* NoFile: a geography of another system; nothing was written yet.
ShpLoaderGetSQLHeader(st) ==
    IF st.config.geography /\ st.config.readshape /\ st.config.opt # "a" /\ st.config.sr_id \notin {-1, 4326} THEN NoFile
    ELSE DropStatements(st) \o <<[do |-> "begin"]>> \o CreateStatements(st)

ColumnNames(st) == st.field_names \o (IF st.config.readshape THEN <<st.config.geom>> ELSE <<>>)

ShpLoaderGetSQLCopyStatement(st) ==
    IF st.config.dump_format THEN <<[do |-> "copy", names |-> ColumnNames(st)]>> ELSE <<>>

\* Numbers lose a point at their end; an empty one is 0.
AttributeText(type, s) ==
    IF type \notin {"FTInteger", "FTDouble"} THEN s
    ELSE IF s = <<>> THEN <<Zero>> ELSE IF Last(s) = Point THEN Front(s) ELSE s

\* The values as they stand in a line of COPY, or each in an INSERT.
Value(st, i, j) ==
    IF DBFIsAttributeNULL(st.hDBFHandle, i, j) THEN IF st.config.dump_format THEN <<Backslash, 78>> ELSE <<78, 85, 76, 76>>
    ELSE LET s == utf8(AttributeText(st.types[j + 1], DBFReadAttribute(st.hDBFHandle, i, j)))
         IN  IF s = NoFile THEN NoFile
             ELSE IF st.config.dump_format THEN escape_copy_string(s)
             ELSE <<Quote>> \o escape_insert_string(s) \o <<Quote>>
ValueList(st, i) ==
    LET values == [j \in DOMAIN st.types |-> Value(st, i, j - 1)]
    IN  IF NoFile \in ToSet(values) THEN NoFile
        ELSE IF ~st.config.dump_format THEN values
        ELSE FoldLeft(LAMBDA s, j : s \o (IF j = 1 THEN <<>> ELSE <<Tab>>) \o values[j], <<>>, [j \in DOMAIN values |-> j])

GeometryOf(st, obj) ==
    CASE Base(obj.type) = SHPT_POLYGON -> GeneratePolygonGeometry(st, obj)
      [] Base(obj.type) \in {SHPT_POINT, SHPT_MULTIPOINT} -> GeneratePointGeometry(st, obj)
      [] Base(obj.type) = SHPT_ARC -> GenerateLineStringGeometry(st, obj)
      [] OTHER -> NoFile

\* How a geometry is written: the binary form has its own system.  The old text
\* has it unless it is unknown, and in a line of COPY the loader puts one before it.
WrittenGeometry(st, g) ==
    [geometry |-> g, text |-> st.config.hwgeom,
     srids |-> (IF g.srid # -1 THEN 1 ELSE 0)
               + (IF st.config.hwgeom /\ st.config.dump_format /\ st.config.sr_id # 0 THEN 1 ELSE 0)]

\* Rows without a statement.  Deleted records count only without shapes.
Passed(st, i, obj) ==
    IF st.config.readshape THEN st.config.null_policy = "skip" /\ obj.vertices = <<>>
    ELSE DBFReadDeleted(st.hDBFHandle, i)

StatementOf(st, values, g) ==
    [do |-> IF st.config.dump_format THEN "line" ELSE "insert", names |-> ColumnNames(st), values |-> values, geom |-> g]

\* The statements of a row, none if it is passed; NoFile: the loader stops.
ShpLoaderGenerateSQLRowStatement(st, i) ==
    LET obj    == IF st.config.readshape THEN SHPReadObject(st.hSHPHandle, i) ELSE NullObject
        values == ValueList(st, i)
    IN  IF obj = NoFile THEN NoFile
        ELSE IF Passed(st, i, obj) THEN <<>>
        ELSE IF values = NoFile THEN NoFile
        ELSE IF obj.vertices = <<>> THEN <<StatementOf(st, values, NoFile)>>
        ELSE LET g == GeometryOf(st, obj)
             IN  IF g = NoFile THEN NoFile ELSE <<StatementOf(st, values, WrittenGeometry(st, g))>>

ShpLoaderGetSQLFooter(st) ==
    (IF st.config.createindex THEN <<[do |-> "index", geom |-> st.config.geom]>> ELSE <<>>) \o <<[do |-> "commit"]>>
=============================================================================
