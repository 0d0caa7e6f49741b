---------------------------- MODULE MCShapefiles ----------------------------
(***************************************************************************)
(* Three tasks share one run, each from its own initial state: a .dbf file *)
(* at work ("table"), a layer of shapes at work ("shapes"), and the dump   *)
(* and load of a table ("exchange").                                       *)
(***************************************************************************)
EXTENDS TLC, FileClients, ShapeExchange

VARIABLE task       \* the task of this behaviour

-----------------------------------------------------------------------------
(* A .dbf file. *)

Figure(n) == [kind |-> "number", n |-> n, s |-> <<48 + n>>]
MCFields == {[name |-> "name", eType |-> "FTString", width |-> 2, decimals |-> 0],
             [name |-> "rooms", eType |-> "FTInteger", width |-> 2, decimals |-> 0],
             [name |-> "new", eType |-> "FTLogical", width |-> 1, decimals |-> 0]}
MCValues == {[kind |-> "text", s |-> <<32, 97, 98>>], Figure(7),
             [kind |-> "flag", c |-> 84, s |-> <<84>>], [kind |-> "null"]}

\* Until fields change under a record in memory; and two fields and two records
\* only as they are flushed, with no more of the file than its records.
FreshTable ==
    handle # NoFile =>
        /\ ~disturbed
        /\ Len(handle.file) <= RecordOffset(handle, handle.nRecords) + 1
        /\ Len(handle.fields) = 2 /\ handle.nRecords = 2 => handle.nCurrentRecord = -1

-----------------------------------------------------------------------------
(* A layer of shapes. *)

SHPT_POINTZ      == 10 + SHPT_POINT
SHPT_POLYGONZ    == 10 + SHPT_POLYGON
SHPT_ARCM        == 20 + SHPT_ARC
SHPT_MULTIPOINTM == 20 + SHPT_MULTIPOINT

Measured(x, y) == <<x, y, x + 1, y + 2>>
Ring(l, h) == <<Measured(l, l), Measured(h, l), Measured(h, h), Measured(l, h), Measured(l, l)>>
Obj(t, ss, vs, measured) == SHPCreateObject(t, ss, <<>>, vs, measured)
MCShapes == {
    NullObject,
    Obj(SHPT_POINTZ, <<>>, <<Measured(0, 0)>>, TRUE), Obj(SHPT_POINTZ, <<>>, <<Measured(3, 5)>>, FALSE),
    Obj(SHPT_MULTIPOINTM, <<>>, <<Measured(3, 5), Measured(0 - 1, 2)>>, TRUE), Obj(SHPT_MULTIPOINTM, <<>>, <<Measured(0, 0)>>, TRUE),
    Obj(SHPT_ARCM, <<0>>, <<Measured(0, 0), Measured(1, 1)>>, TRUE),
    Obj(SHPT_ARCM, <<0, 2>>, <<Measured(3, 5), Measured(0 - 1, 2), Measured(4, 4), Measured(3, 3), Measured(2, 7)>>, FALSE),
    Obj(SHPT_POLYGONZ, <<0, 5>>, Ring(0, 4) \o Ring(1, 2), FALSE),
    Obj(SHPT_POLYGON, <<0>>, Ring(0, 4), FALSE), Obj(SHPT_POLYGON, <<0, 5>>, Ring(1, 3) \o Ring(5, 6), FALSE),
    SHPCreateObject(SHPT_MULTIPATCH, <<0, 3>>, <<0, 1>>, Reverse(Ring(0, 4)), TRUE)}

\* One shape written over between headers, one shape but for points, and files
\* that grow by a record at most.
Room == SHPT_POINTZ :> 14 @@ SHPT_MULTIPOINTM :> 30 @@ SHPT_ARCM :> 40 @@ SHPT_POLYGONZ :> 50 @@ SHPT_POLYGON :> 51 @@ SHPT_MULTIPATCH :> 40
FewShapes ==
    hSHP # NoFile =>
        /\ Cardinality(rewritten) <= 1
        /\ hSHP.nShapeType = SHPT_POINTZ \/ Len(hSHP.records) <= 1
        /\ hSHP.nFileSize <= Room[hSHP.nShapeType]

-----------------------------------------------------------------------------
(* Tables to dump, and files to load. *)

P(x, y) == <<x, y>>
Square(l, h) == <<P(l, l), P(l, h), P(h, h), P(h, l), P(l, l)>>
Three(ps) == [i \in DOMAIN ps |-> ps[i] \o <<i>>]
G(type, body) == Geom(type, FALSE, FALSE, -1, body)
Row(gid, values, g) == [gid |-> gid, values |-> values, geom |-> g]
Col(name, type, mod) == [name |-> name, type |-> type, mod |-> mod]
Table(gid, columns, rows) == [gid |-> gid, columns |-> columns, geom |-> [name |-> "the_geom"], rows |-> rows]

Config(changes) == changes @@ set_config_defaults
Loading(changes, before) == [config |-> Config(changes), before |-> before]
Old(columns, type, dims, rows) ==
    [columns |-> columns, geom |-> [name |-> "the_geom", type |-> type, srid |-> -1, dims |-> dims, geography |-> FALSE],
     rows |-> rows, index |-> FALSE]
FromTable(tab, late, options, loads) ==
    [source |-> tab, late |-> late, options |-> options, files |-> NoFile, loads |-> loads]
FromFiles(fs, loads) ==
    [source |-> NoFile, late |-> {}, options |-> NoFile, files |-> fs, loads |-> loads]

Default == Options(FALSE, FALSE, NoFile)

NamePoints ==
    FromTable(Table(TRUE, <<Col("name", "varchar", 6)>>,
                    <<Row(2, <<<<32, 97>>>>, G("POINT", <<P(3, 4)>>)), Row(1, <<NoFile>>, NoFile), Row(3, <<<<39, 98>>>>, G("POINT", <<P(0, 0)>>))>>),
              {Row(0, <<<<97, 98, 99>>>>, G("MULTIPOINT", <<P(1, 1), P(2, 2)>>)),
               Row(4, <<NoFile>>, Geom("POINT", TRUE, FALSE, -1, <<<<5, 6, 7>>>>))}, Default,
              {Loading([opt |-> "c"], NoFile),
               Loading([opt |-> "d", createindex |-> TRUE],
                       Old(<<[name |-> "name", type |-> "varchar", width |-> 2]>>, "POINT", 2, <<Row(1, <<<<97>>>>, G("POINT", <<P(9, 9)>>))>>)),
               Loading([opt |-> "a", dump_format |-> TRUE],
                       Old(<<[name |-> "name", type |-> "varchar", width |-> 2]>>, "POINT", 2, <<Row(1, <<<<97>>>>, G("POINT", <<P(9, 9)>>))>>)),
               Loading([opt |-> "p", sr_id |-> 4326], NoFile),
               Loading([null_policy |-> "skip"], NoFile), Loading([null_policy |-> "abort"], NoFile)})

Plots ==
    FromTable(Table(TRUE, <<Col("sold", "bool", -1), Col("since", "date", -1)>>,
                    <<Row(1, <<<<116>>, <<50, 48, 49, 48, 45, 48, 49, 45, 51, 49>>>>, G("MULTIPOLYGON", <<<<Square(0, 9), Square(1, 3), Square(5, 6)>>, <<Reverse(Square(2, 3))>>>>)),
                      Row(2, <<NoFile, NoFile>>, Geom("POLYGON", FALSE, TRUE, -1, <<Three(Square(0, 4)), Three(Square(1, 2))>>))>>),
              {Row(3, <<<<102>>, NoFile>>, G("MULTIPOLYGON", <<<<Square(0, 9), Square(1, 8)>>, <<Square(2, 7), Square(3, 4)>>>>)),
               Row(3, <<NoFile, NoFile>>, Geom("POLYGON", TRUE, FALSE, -1, <<Three(Square(0, 4))>>))}, Default,
              {Loading([opt |-> "c"], NoFile), Loading([dump_format |-> TRUE, hwgeom |-> TRUE], NoFile),
               Loading([dump_format |-> TRUE, hwgeom |-> TRUE, sr_id |-> 4326], NoFile),
               Loading([simple_geometries |-> TRUE], NoFile),
               Loading([geography |-> TRUE, geom |-> "the_geog", sr_id |-> 4326], NoFile),
               Loading([geography |-> TRUE, geom |-> "the_geog", sr_id |-> 27700], NoFile)})

Roads ==
    FromTable(Table(FALSE, <<Col("abcdefghij1", "text", -1), Col("abcdefghij2", "int2", -1), Col("__gid", "int4", -1)>>,
                    <<Row(0, <<<<9, 92, 78>>, <<55>>, <<49, 50>>>>, G("LINESTRING", <<P(0, 0), P(0, 0), P(3, 1)>>)),
                      Row(0, <<<<92, 78>>, NoFile, <<50>>>>, Geom("MULTILINESTRING", TRUE, FALSE, -1, <<Three(<<P(1, 1), P(2, 2)>>), Three(<<P(4, 4), P(5, 4)>>)>>))>>),
              {Row(0, <<<<>>, NoFile, NoFile>>, G("LINESTRING", <<P(7, 7), P(7, 7)>>)), Row(0, <<<<97>>, NoFile, NoFile>>, G("LINESTRING", <<P(7, 7)>>))},
              Default,
              {Loading([dump_format |-> TRUE], NoFile), Loading([quoteidentifiers |-> TRUE, forceint4 |-> TRUE], NoFile), Loading([readshape |-> FALSE], NoFile)})

Stops ==
    FromTable(Table(TRUE, <<Col("n", "int8", -1), Col("note", "text", -1)>>,
                    <<Row(1, <<<<55>>, <<200>>>>, G("MULTIPOINT", <<P(1, 2), P(3, 4)>>)), Row(2, <<NoFile, <<>>>>, G("MULTIPOINT", <<P(3, 4)>>))>>),
              {Row(3, <<NoFile, NoFile>>, G("GEOMETRYCOLLECTION", <<>>))}, Options(TRUE, TRUE, "the_geom"),
              {Loading([opt |-> "c"], NoFile)})

Others == {
    FromTable([Table(TRUE, <<Col("v", "float8", -1)>>, <<Row(1, <<<<49, 46, 53>>>>, NoFile)>>) EXCEPT !.geom = NoFile], {}, Default,
              {Loading([opt |-> "c"], NoFile)}),
    FromTable(Table(TRUE, <<Col("v", "int4", -1)>>, <<Row(1, <<<<55>>>>, G("POINT", <<P(1, 1)>>))>>), {}, Default,
              {Loading([opt |-> "c"], NoFile)}),
    FromTable(Table(TRUE, <<Col("v", "uuid", -1)>>, <<Row(1, <<NoFile>>, G("POINT", <<P(1, 1)>>))>>), {}, Options(FALSE, FALSE, "geom2"),
              {Loading([opt |-> "c"], NoFile)}) }

(* Files nobody dumped. *)
Dbf(fields, records) ==
    FoldLeft(LAMBDA h, i : FoldLeft(LAMBDA g, j : DBFWriteAttributeDirectly(g, i - 1, j - 1, records[i][j]), h, [j \in DOMAIN fields |-> j]),
             FoldLeft(LAMBDA h, f : DBFAddField(h, f.name, f.eType, f.width, 0), DBFCreateLL, fields), [i \in DOMAIN records |-> i])
Shp(type, ss) == SHPClose(FoldLeft(LAMBDA h, s : SHPWriteObject(h, -1, s), SHPCreateLL(type), ss))
Field(name, eType, width) == [name |-> name, eType |-> eType, width |-> width]
Files(d, s) == [dbf |-> d, shp |-> s]
FlatRing(ps) == [i \in DOMAIN ps |-> ps[i] \o <<0, 0>>]
Given == {
    FromFiles(Files(DBFClose(DBFMarkRecordDeleted(Dbf(<<Field("GID", "FTInteger", 4), Field("gid", "FTString", 2)>>, <<<<<<49>>, <<97>>>>, <<<<50>>, <<39>>>>>>), 0, TRUE)),
                    Shp(5, <<SHPCreateObject(5, <<0, 5, 10>>, <<>>, FlatRing(Reverse(Square(6, 7)) \o Square(0, 4) \o Reverse(Square(1, 2))), FALSE), NullObject>>)),
              {Loading([opt |-> "c"], NoFile), Loading([readshape |-> FALSE], NoFile), Loading([readshape |-> FALSE, dump_format |-> TRUE], NoFile)}),
    FromFiles(Files(DBFClose(Dbf(<<Field("x", "FTInteger", 6), Field("X__2", "FTLogical", 2), Field("X", "FTDate", 8)>>, <<<<<<49, 46>>, <<84>>, Char(Zero, 8)>>>>)),
                    Shp(23, <<SHPCreateObject(23, <<0>>, <<>>, FlatRing(<<P(1, 2), P(3, 4)>>), TRUE)>>)),
              {Loading([opt |-> "c"], NoFile), Loading([quoteidentifiers |-> TRUE], NoFile)}),
    FromFiles(Files(DBFClose(Dbf(<<Field("a", "FTString", 2)>>, <<>>)), Shp(31, <<>>)), {Loading([opt |-> "c"], NoFile)}),
    FromFiles(Files(NoFile, Shp(1, <<>>)), {Loading([opt |-> "c"], NoFile)}) }

MCStarts == {NamePoints, Plots, Roads, Stops} \cup Others \cup Given

-----------------------------------------------------------------------------
Init ==
    /\ task \in {"table", "shapes", "exchange"}
    /\ AttributesInit /\ LayerInit
    /\ ExchangeInit /\ (task # "exchange" => start = NamePoints)

Next ==
    \/ task = "table" /\ AttributesNext /\ UNCHANGED <<task, shp, exchange>>
    \/ task = "shapes" /\ LayerNext /\ UNCHANGED <<task, dbf, exchange>>
    \/ task = "exchange" /\ ExchangeNext /\ UNCHANGED <<task, dbf, shp>>

Spec == Init /\ [][Next]_<<task, dbf, shp, exchange>>

Few == FreshTable /\ FewShapes
=============================================================================
