------------------------------- MODULE Dumper -------------------------------
(***************************************************************************)
(* pgsql2shp: the layer and the attributes a table is dumped to, as         *)
(* loader/pgsql2shp.c makes them.  Texts and geometries are those of        *)
(* module Loader.  A table has columns [name, type, mod], a geometry column *)
(* or none, gid or not, and rows [gid, values, geom], a value NoFile for    *)
(* NULL.                                                                    *)
(***************************************************************************)
EXTENDS Loader

MAX_DBF_FIELD_SIZE == 254

\* o: the options raw (-r), keep (-k), geo_col_name (-g, NoFile without it).
Options(raw, keep, geo_col_name) == [raw |-> raw, keep |-> keep, geo_col_name |-> geo_col_name]

-----------------------------------------------------------------------------
(* Fields: which columns are dumped, under which names, and how wide. *)

toupper(s) == Turned(s, Lowers, Uppers)
Start(s, n) == SubSeq(s, 1, Smaller(n, Len(s)))

\* The loader's "__" is taken off: two characters, whatever the second is.
Unescaped(o, fname) == IF ~o.raw /\ Letter(fname, 1) = "_" THEN SubSeq(fname, 3, Len(fname)) ELSE fname

TwoDigits(n)         == (IF n < 10 THEN "0" ELSE "") \o ToString(n)
Candidate(fname, n)  == IF n = 0 THEN Start(fname, 10) ELSE Start(fname, 7) \o "_" \o TwoDigits(n)
Taken(names, name)   == \E k \in DOMAIN names : toupper(Start(names[k], 10)) = toupper(Start(name, 10))

\* The first candidate no field before has.
FieldName(o, names, fname) ==
    LET n == CHOOSE k \in 0..Len(names) :
               ~Taken(names, Candidate(fname, k)) /\ \A l \in 0..k - 1 : Taken(names, Candidate(fname, l))
    IN  IF o.keep THEN Candidate(fname, n) ELSE toupper(Candidate(fname, n))

Dumped(o, table) == SelectSeq(table.columns, LAMBDA c : c.name # "gid" \/ o.raw)
DumpedNames(o, table) ==
    FoldLeft(LAMBDA names, c : Append(names, FieldName(o, names, Unescaped(o, c.name))), <<>>, Dumped(o, table))

\* The widest value of a column, 0 if there is none.
getMaxFieldSize(table, c) ==
    LET k == CHOOSE i \in DOMAIN table.columns : table.columns[i].name = c.name
    IN  FoldLeft(Bigger, 0, [i \in DOMAIN table.rows |->
                               IF table.rows[i].values[k] = NoFile THEN 0 ELSE Len(table.rows[i].values[k])])

Numbers == "int2" :> 6 @@ "int4" :> 11 @@ "int8" :> 19
NumberField(c) ==
    IF c.type \in DOMAIN Numbers THEN [eType |-> "FTInteger", width |-> Numbers[c.type], decimals |-> 0]
    ELSE [eType |-> "FTDouble", width |-> 32, decimals |-> 10]

\* Digits of a time's seconds; mod is its precision.
SecondSize(c) == CASE c.mod = -1 -> 7 [] c.mod = 0 -> 0 [] OTHER -> c.mod + 1
TextWidth(table, c) ==
    CASE c.type = "time"        -> 8 + SecondSize(c)
      [] c.type = "timetz"      -> 17 + SecondSize(c)
      [] c.type = "timestamp"   -> 22 + SecondSize(c)
      [] c.type = "timestamptz" -> 31 + SecondSize(c)
      [] c.type = "uuid"        -> 36
      [] c.type \in {"char", "varchar"} /\ c.mod # -1 -> c.mod - 4
      [] OTHER -> IF getMaxFieldSize(table, c) = 0 THEN 32 ELSE getMaxFieldSize(table, c)
TextField(table, c) ==
    CASE c.type = "bool" -> [eType |-> "FTLogical", width |-> 2, decimals |-> 0]
      [] c.type = "date" -> [eType |-> "FTDate", width |-> 8, decimals |-> 0]
      [] OTHER -> [eType |-> "FTString", width |-> Smaller(TextWidth(table, c), MAX_DBF_FIELD_SIZE), decimals |-> 0]

FieldOfColumn(table, c) ==
    IF c.type \in DOMAIN Numbers \cup {"float4", "float8", "numeric"} THEN NumberField(c) ELSE TextField(table, c)

\* The fields, in the order of the columns, in a file that was just created.
Fields(o, table) == [j \in DOMAIN Dumped(o, table) |-> FieldOfColumn(table, Dumped(o, table)[j])]
Prepared(names, fields) ==
    FoldLeft(LAMBDA h, j : DBFAddField(h, names[j], fields[j].eType, fields[j].width, fields[j].decimals),
             DBFCreateLL, [j \in DOMAIN fields |-> j])

\* A geometry column that was asked for and is not there.
NoSuchGeometry(o, table) ==
    o.geo_col_name # NoFile /\ (IF table.geom = NoFile THEN TRUE ELSE table.geom.name # o.geo_col_name)

-----------------------------------------------------------------------------
(* The type of the layer. *)

Geometries(table) == SelectSeq([i \in DOMAIN table.rows |-> table.rows[i].geom], LAMBDA g : g # NoFile)
BaseOf(type) ==
    CASE type \in {"POINT", "MULTIPOINT"}           -> SHPT_POINT
      [] type \in {"LINESTRING", "MULTILINESTRING"} -> SHPT_ARC
      [] type \in {"POLYGON", "MULTIPOLYGON"}       -> SHPT_POLYGON
      [] OTHER                                      -> SHPT_NULL

\* Mutant of getGeometryType: the type of the first geometry is that of all.
getGeometryTypeFirst(table) ==
    IF Geometries(table) = <<>> THEN NoFile
    ELSE LET g == Head(Geometries(table)) IN IF g.type = "MULTIPOINT" THEN SHPT_MULTIPOINT ELSE BaseOf(g.type)

\* The shapes for all the geometries; NoFile: the dumper stops, for there are none,
\* or several kinds, or one no shape has.
getGeometryType(table) ==
    LET types == {g.type : g \in ToSet(Geometries(table))}
        bases == {BaseOf(t) : t \in types}
    IN  IF Cardinality(bases) # 1 \/ SHPT_NULL \in bases THEN NoFile
        ELSE IF "MULTIPOINT" \in types THEN SHPT_MULTIPOINT ELSE CHOOSE b \in bases : TRUE

\* zmflag: 0 of none, 1 of M, 2 of Z, 3 of both; the greatest counts, and is
\* read as 0 if the last geometry has gone.
zmflag(g) == (IF g.z THEN 2 ELSE 0) + (IF g.m THEN 1 ELSE 0)
getGeometryMaxDims(table) ==
    LET flags == {zmflag(g) : g \in ToSet(Geometries(table))}
    IN  CASE flags \subseteq {0} -> "s" [] 1 \in flags /\ flags \subseteq {0, 1} -> "m" [] OTHER -> "z"
outshptype(geotype, outtype) == CASE outtype = "s" -> geotype [] outtype = "z" -> geotype + 10 [] outtype = "m" -> geotype + 20

-----------------------------------------------------------------------------
(* Shapes of geometries. *)

\* What a point has in four ordinates.
getPoint4d(g, p) == <<p[1], p[2], IF g.z THEN p[3] ELSE 0, IF g.m THEN Last(p) ELSE 0>>
Vertices(g, ps) == [i \in DOMAIN ps |-> getPoint4d(g, ps[i])]

\* Where each part begins.
Starts(parts) == FoldLeft(LAMBDA s, k : Append(s, Last(s) + Len(parts[k])), <<0>>, [k \in 1..Len(parts) - 1 |-> k])
Parts(type, parts) == SHPCreateObject(type, Starts(parts), <<>>, FlattenSeq(parts), TRUE)

create_point(type, g)           == SHPCreateObject(type, <<>>, <<>>, <<getPoint4d(g, g.body[1])>>, TRUE)
create_multipoint(type, g)      == SHPCreateObject(type, <<>>, <<>>, Vertices(g, g.body), TRUE)
create_linestring(type, g)      == SHPCreateObject(type, <<>>, <<>>, Vertices(g, g.body), TRUE)
create_multilinestring(type, g) == Parts(type, [k \in DOMAIN g.body |-> Vertices(g, g.body[k])])

reverse_points(vs) == Reverse(vs)
is_clockwise(vs) ==
    FoldLeft(LAMBDA a, i : a + vs[i][1] * vs[i + 1][2] - vs[i][2] * vs[i + 1][1], 0, [i \in 1..Len(vs) - 1 |-> i]) <= 0

\* Mutant of Wound: every ring is wound clockwise.
WoundAlike(rings) == [k \in DOMAIN rings |-> IF is_clockwise(rings[k]) THEN rings[k] ELSE reverse_points(rings[k])]

\* The first ring of a polygon clockwise, the others against it.
Wound(rings) ==
    [k \in DOMAIN rings |-> IF is_clockwise(rings[k]) = (k = 1) THEN rings[k] ELSE reverse_points(rings[k])]
Rings(g, polygon) == [k \in DOMAIN polygon |-> Vertices(g, polygon[k])]
create_polygon(type, g)      == Parts(type, Wound(Rings(g, g.body)))
create_multipolygon(type, g) == Parts(type, FlattenSeq([k \in DOMAIN g.body |-> Wound(Rings(g, g.body[k]))]))

\* What the parser of the server asks of a geometry: lines of two points, rings of
\* four that are closed.
SoundLine(l) == Len(l) > 1
SoundRing(r) == Len(r) > 3 /\ SubSeq(r[1], 1, 2) = SubSeq(Last(r), 1, 2)
Sound(g) ==
    CASE g.type = "LINESTRING"      -> SoundLine(g.body)
      [] g.type = "MULTILINESTRING" -> \A k \in DOMAIN g.body : SoundLine(g.body[k])
      [] g.type = "POLYGON"         -> \A k \in DOMAIN g.body : SoundRing(g.body[k])
      [] g.type = "MULTIPOLYGON"    -> \A k \in DOMAIN g.body : \A l \in DOMAIN g.body[k] : SoundRing(g.body[k][l])
      [] OTHER                      -> TRUE

\* NoFile: the dumper stops.
shape_creator_wrapper_WKB(type, g) ==
    IF ~Sound(g) THEN NoFile
    ELSE CASE g.type = "POINT"           -> create_point(type, g)
           [] g.type = "MULTIPOINT"      -> create_multipoint(type, g)
           [] g.type = "LINESTRING"      -> create_linestring(type, g)
           [] g.type = "MULTILINESTRING" -> create_multilinestring(type, g)
           [] g.type = "POLYGON"         -> create_polygon(type, g)
           [] g.type = "MULTIPOLYGON"    -> create_multipolygon(type, g)
           [] OTHER                      -> NoFile

-----------------------------------------------------------------------------
(* Rows. *)

nullDBFValue(eType) ==
    CASE eType \in {"FTInteger", "FTDouble"} -> Char(Star, 16)
      [] eType = "FTDate"                    -> Char(Blank, 8)
      [] eType = "FTLogical"                 -> <<Query>>
      [] OTHER                               -> <<>>

UpperCode(c) == IF c \in 97..122 THEN c - 32 ELSE c

\* A logical value is its first letter; a date, YYYY-MM-DD, loses its dashes.
goodDBFValue(s, eType) ==
    CASE eType = "FTLogical" -> <<UpperCode(s[1])>>
      [] eType = "FTDate"    -> SubSeq(s, 1, 4) \o SubSeq(s, 6, 7) \o SubSeq(s, 9, 10)
      [] OTHER               -> s

DBFValue(v, eType) == IF v = NoFile THEN nullDBFValue(eType) ELSE goodDBFValue(v, eType)
Attributed(h, i, values, fields) ==
    FoldLeft(LAMBDA d, j : DBFWriteAttributeDirectly(d, i, j - 1, DBFValue(values[j], fields[j].eType)),
             h, [j \in DOMAIN fields |-> j])

\* NoFile: the dumper stops.
addShape(h, type, g) ==
    IF g = NoFile THEN SHPWriteObject(h, -1, NullObject)
    ELSE IF shape_creator_wrapper_WKB(type, g) = NoFile THEN NoFile
    ELSE SHPWriteObject(h, -1, shape_creator_wrapper_WKB(type, g))
=============================================================================
