---------------------------- MODULE ShapeExchange ----------------------------
(***************************************************************************)
(* A table goes through pgsql2shp to a shapefile, and a shapefile through   *)
(* shp2pgsql and psql to a table, while other sessions write the table that *)
(* is dumped and any program may be killed.  The programs run one after the *)
(* other; shp2pgsql and psql run at both ends of a pipe.                   *)
(***************************************************************************)
EXTENDS Dumper

CONSTANTS
    StartChoices,   \* how it begins: [source, late, options, files, loads]: the table, the rows others
                    \* insert, files NoFile if they are to be dumped, the loads to choose from
    MaxWrites       \* bound: writes of other sessions

ASSUME LoadsAssumption ==
    \A s \in StartChoices : \A l \in s.loads :
        /\ {"opt", "readshape"} \subseteq DOMAIN l.config
        /\ l.before # NoFile => {"geom", "rows"} \subseteq DOMAIN l.before

VARIABLES
    start,          \* the beginning that was chosen
    source,         \* the table that is dumped
    writes,         \* writes of other sessions
    dumper,         \* the run of pgsql2shp
    shapefile,      \* the files it left: [dbf, shp]
    loader,         \* the run of shp2pgsql
    script,         \* statements it wrote that psql has not read
    session,        \* psql's session: its transaction, and the table as it sees it
    target          \* the table that is loaded, as committed

exchange == <<start, source, writes, dumper, shapefile, loader, script, session, target>>

ExchangeInit ==
    /\ start \in StartChoices
    /\ source = start.source /\ writes = 0
    /\ dumper = [at |-> IF start.files = NoFile THEN "started" ELSE "absent"]
    /\ shapefile = start.files
    /\ loader = [at |-> "absent"]
    /\ script = <<>>
    /\ session = [at |-> "idle", work |-> NoFile]
    /\ target = NoFile

-----------------------------------------------------------------------------
(* pgsql2shp. *)

loading == <<loader, script, session, target>>

\* It ends without closing its files.
Left(dbf, shp) == [dbf |-> dbf.file, shp |-> IF shp = NoFile THEN NoFile ELSE Unclosed(shp)]
DumpFails(shp) ==
    /\ dumper' = [at |-> "failed"]
    /\ shapefile' = Left(dumper.dbf, shp)

\* initialize(): the columns, their names and widths.
DumpColumns ==
    /\ dumper.at = "started"
    /\ dumper' = [at |-> "columns", names |-> DumpedNames(start.options, source), fields |-> Fields(start.options, source),
                  dbf |-> Prepared(DumpedNames(start.options, source), Fields(start.options, source))]
    /\ UNCHANGED <<start, source, writes, shapefile, loading>>

\* initialize(): the type of the geometries.
DumpType ==
    /\ dumper.at = "columns"
    /\ IF NoSuchGeometry(start.options, source) THEN DumpFails(NoFile)
       ELSE IF source.geom = NoFile
       THEN dumper' = [at |-> "prepared", type |-> NoFile, shp |-> NoFile, seen |-> {}] @@ dumper /\ UNCHANGED shapefile
       ELSE IF getGeometryType(source) = NoFile THEN DumpFails(NoFile)
       ELSE /\ dumper' = [at |-> "typed", type |-> getGeometryType(source),
                          seen |-> {g.type : g \in ToSet(Geometries(source))}] @@ dumper
            /\ UNCHANGED shapefile
    /\ UNCHANGED <<start, source, writes, loading>>

\* initialize(): their dimensions, and the layer.
DumpDims ==
    /\ dumper.at = "typed"
    /\ LET type == outshptype(dumper.type, getGeometryMaxDims(source))
       IN  dumper' = [at |-> "prepared", type |-> type, shp |-> SHPCreateLL(type)] @@ dumper
    /\ UNCHANGED <<start, source, writes, shapefile, loading>>

\* The rows a cursor returns: by gid, or in any order.
Cursor(table) ==
    IF table.gid THEN {SortSeq(table.rows, LAMBDA a, b : a.gid < b.gid)}
    ELSE {[i \in DOMAIN table.rows |-> table.rows[p[i]]] : p \in Permutations(DOMAIN table.rows)}

\* BEGIN and DECLARE: from here on the rows are those of this moment.
DumpDeclare ==
    /\ dumper.at = "prepared"
    /\ \E rows \in Cursor(source) :
          dumper' = [at |-> "fetching", rows |-> rows, done |-> 0] @@ dumper
    /\ UNCHANGED <<start, source, writes, shapefile, loading>>

\* The values of the dumped columns.
ValuesOf(row) ==
    LET dumped == SelectSeq([k \in DOMAIN source.columns |-> k], LAMBDA k : source.columns[k].name # "gid" \/ start.options.raw)
    IN  [j \in DOMAIN dumped |-> row.values[dumped[j]]]

\* FETCH and addRecord.
DumpRow ==
    /\ dumper.at = "fetching" /\ dumper.done < Len(dumper.rows)
    /\ LET row == dumper.rows[dumper.done + 1]
           dbf == Attributed(dumper.dbf, dumper.done, ValuesOf(row), dumper.fields)
           shp == IF dumper.type = NoFile THEN NoFile ELSE addShape(dumper.shp, dumper.type, row.geom)
       IN  IF dumper.type # NoFile /\ shp = NoFile
           THEN /\ dumper' = [at |-> "failed"]
                /\ shapefile' = Left(dbf, dumper.shp)
           ELSE /\ dumper' = [dumper EXCEPT !.done = @ + 1, !.dbf = dbf, !.shp = shp]
                /\ UNCHANGED shapefile
    /\ UNCHANGED <<start, source, writes, loading>>

DumpClose ==
    /\ dumper.at = "fetching" /\ dumper.done = Len(dumper.rows)
    /\ dumper' = [dumper EXCEPT !.at = "closed"]
    /\ shapefile' = [dbf |-> DBFClose(dumper.dbf), shp |-> IF dumper.shp = NoFile THEN NoFile ELSE SHPClose(dumper.shp)]
    /\ UNCHANGED <<start, source, writes, loading>>

DumpKilled ==
    /\ dumper.at = "fetching"
    /\ DumpFails(dumper.shp)
    /\ UNCHANGED <<start, source, writes, loading>>

\* Another session inserts or deletes a row of the table.
OtherWrites ==
    /\ dumper.at \in {"columns", "typed", "prepared", "fetching"} /\ writes < MaxWrites
    /\ \/ \E row \in start.late : source' = [source EXCEPT !.rows = Append(@, row)]
       \/ \E i \in DOMAIN source.rows : source' = [source EXCEPT !.rows = RemoveAt(@, i)]
    /\ writes' = writes + 1
    /\ UNCHANGED <<start, dumper, shapefile, loading>>

-----------------------------------------------------------------------------
(* shp2pgsql. *)

dumping == <<start, source, writes, dumper, shapefile>>

\* A load: [config, before], the table there was before.
LoadOpen ==
    /\ loader.at = "absent" /\ dumper.at \in {"absent", "closed", "failed"}
    /\ \E load \in start.loads, fresh \in {0, Garbage} :
          LET st == ShpLoaderOpenShape(load.config, shapefile, fresh)
              header == IF st = NoFile THEN NoFile ELSE ShpLoaderGetSQLHeader(st)
          IN  /\ target' = load.before
              /\ IF header = NoFile
                 THEN loader' = [at |-> "stopped", load |-> load] /\ UNCHANGED script
                 ELSE /\ loader' = [at |-> "rows", load |-> load, st |-> st,
                                    item |-> IF load.config.opt = "p" THEN st.num_entities ELSE 0]
                      /\ script' = header \o (IF load.config.opt = "p" THEN <<>> ELSE ShpLoaderGetSQLCopyStatement(st))
    /\ UNCHANGED <<dumping, session>>

LoadRow ==
    /\ loader.at = "rows" /\ loader.item < loader.st.num_entities
    /\ LET row == ShpLoaderGenerateSQLRowStatement(loader.st, loader.item)
       IN  IF row = NoFile THEN loader' = [loader EXCEPT !.at = "stopped"] /\ UNCHANGED script
           ELSE loader' = [loader EXCEPT !.item = @ + 1] /\ script' = script \o row
    /\ UNCHANGED <<dumping, session, target>>

LoadFooter ==
    /\ loader.at = "rows" /\ loader.item = loader.st.num_entities
    /\ loader' = [loader EXCEPT !.at = "done"]
    /\ script' = script \o ShpLoaderGetSQLFooter(loader.st)
    /\ UNCHANGED <<dumping, session, target>>

\* What had not left its buffers is lost.
LoadKilled ==
    /\ loader.at \in {"rows", "done"}
    /\ \E n \in 0..Len(script) : script' = SubSeq(script, 1, n)
    /\ loader' = [loader EXCEPT !.at = "killed"]
    /\ UNCHANGED <<dumping, session, target>>

-----------------------------------------------------------------------------
(* psql and the server. *)

Failure == [ok |-> FALSE]
Result(table) == [ok |-> TRUE, table |-> table]

Digits(s) == \A i \in DOMAIN s : s[i] \in 48..57 \cup {43, 45, Point}

\* What a column makes of a text; NoFile if it refuses it.
Input(c, s) ==
    CASE c.type = "varchar"                -> IF Len(s) <= c.width THEN s ELSE NoFile
      [] c.type = "boolean"                -> CASE s = <<84>> -> <<116>> [] s = <<70>> -> <<102>> [] OTHER -> NoFile
      [] c.type = "date"                   -> IF Len(s) = 8 /\ Digits(s)
                                              THEN SubSeq(s, 1, 4) \o <<45>> \o SubSeq(s, 5, 6) \o <<45>> \o SubSeq(s, 7, 8)
                                              ELSE NoFile
      [] OTHER                             -> IF Digits(s) THEN s ELSE NoFile

\* The values of a line of COPY: cut at tabs, a backslash taken off; \N is none.
NoField == [text |-> <<>>, raw |-> <<>>]
CopyFields(line) ==
    LET f == FoldLeft(LAMBDA a, c :
                        IF ~a.escaped /\ c = Tab THEN [a EXCEPT !.fields = Append(@, a.field), !.field = NoField]
                        ELSE IF ~a.escaped /\ c = Backslash THEN [a EXCEPT !.escaped = TRUE, !.field.raw = Append(@, c)]
                        ELSE [a EXCEPT !.escaped = FALSE, !.field = [text |-> Append(@.text, c), raw |-> Append(@.raw, c)]],
                      [fields |-> <<>>, field |-> NoField, escaped |-> FALSE], line)
        fields == Append(f.fields, f.field)
    IN  [k \in DOMAIN fields |-> IF fields[k].raw = <<Backslash, 78>> THEN NoFile ELSE fields[k].text]

\* A quoted text: its quotes are doubled.  Anything else is an error.
Unquoted(s) ==
    LET t == SubSeq(s, 2, Len(s) - 1)
        f == FoldLeft(LAMBDA a, c :
                        IF c = Quote THEN (IF a.half THEN [a EXCEPT !.half = FALSE, !.text = Append(@, Quote)] ELSE [a EXCEPT !.half = TRUE])
                        ELSE [a EXCEPT !.text = Append(@, c), !.ok = a.ok /\ ~a.half],
                      [half |-> FALSE, text |-> <<>>, ok |-> TRUE], t)
    IN  IF f.ok /\ ~f.half THEN [ok |-> TRUE, text |-> f.text] ELSE Failure
InsertFields(values) ==
    [k \in DOMAIN values |->
       IF Head(values[k]) # Quote THEN [ok |-> TRUE, text |-> NoFile] ELSE Unquoted(values[k])]

\* The constraints of a geometry column.
TypeName(g)  == g.type \o (IF g.m /\ ~g.z THEN "M" ELSE "")
Admits(c, w) ==
    \/ w = NoFile
    \/ LET g == w.geometry
       IN  /\ w.srids < 2 /\ Sound(g)
           /\ (IF c.geography THEN g.type \o (IF g.z /\ g.m THEN "ZM" ELSE IF g.m THEN "M" ELSE "") ELSE TypeName(g)) = c.type
           /\ 2 + (IF g.z THEN 1 ELSE 0) + (IF g.m THEN 1 ELSE 0) = c.dims
           /\ (c.geography \/ g.srid = c.srid)

NextGid(t) == IF t.rows = <<>> THEN 1 ELSE Last(t.rows).gid + 1
Position(t, name) == SelectInSeq(t.columns, LAMBDA c : c.name = name)

\* fields: texts for the names of the statement's columns.
Inserted(t, st, fields) ==
    LET named  == [j \in DOMAIN fields |-> Position(t, st.names[j])]
        read   == [j \in DOMAIN fields |-> IF fields[j] = NoFile THEN NoFile ELSE Input(t.columns[named[j]], fields[j])]
        values == [k \in DOMAIN t.columns |-> IF k \in ToSet(named) THEN read[CHOOSE j \in DOMAIN named : named[j] = k] ELSE NoFile]
        geometry == Len(st.names) > Len(fields)
    IN  IF 0 \in ToSet(named) \/ ~IsInjective(named) THEN Failure
        ELSE IF geometry /\ (IF t.geom = NoFile THEN TRUE ELSE t.geom.name # Last(st.names)) THEN Failure
        ELSE IF \E j \in DOMAIN fields : fields[j] # NoFile /\ read[j] = NoFile THEN Failure
        ELSE IF geometry /\ ~Admits(t.geom, st.geom) THEN Failure
        ELSE Result([t EXCEPT !.rows = Append(@, [gid |-> NextGid(t), values |-> values,
                                                  geom |-> IF st.geom = NoFile THEN NoFile ELSE st.geom.geometry])])

WithoutGeometry(t) == [t EXCEPT !.geom = NoFile, !.rows = [i \in DOMAIN @ |-> [@[i] EXCEPT !.geom = NoFile]]]
Taken0(t) == {t.columns[k].name : k \in DOMAIN t.columns} \cup {"gid"}

\* The table after a statement that is not of the transaction itself.
Effect(t, st) ==
    CASE st.do = "create" ->
           IF t # NoFile \/ ~IsInjective([k \in DOMAIN st.columns |-> st.columns[k].name]) \/ \E k \in DOMAIN st.columns : st.columns[k].name = "gid"
           THEN Failure ELSE Result([columns |-> st.columns, geom |-> st.geom, rows |-> <<>>, index |-> FALSE])
      [] st.do # "create" /\ t = NoFile -> Failure
      [] st.do = "drop geometry" /\ t # NoFile ->
           IF (IF t.geom = NoFile THEN TRUE ELSE t.geom.name # st.geom) THEN Failure ELSE Result(WithoutGeometry(t))
      [] st.do = "drop table" /\ t # NoFile -> Result(NoFile)
      [] st.do = "add geometry" /\ t # NoFile ->
           IF t.geom # NoFile \/ st.geom.name \in Taken0(t) THEN Failure ELSE Result([t EXCEPT !.geom = st.geom])
      [] st.do = "copy" /\ t # NoFile -> Result(t)
      [] st.do = "line" /\ t # NoFile ->
           LET fields == CopyFields(st.values)
           IN  IF Len(fields) > Len(st.names) THEN Failure ELSE Inserted(t, st, fields)
      [] st.do = "insert" /\ t # NoFile ->
           LET fields == InsertFields(st.values)
           IN  IF \E j \in DOMAIN fields : ~fields[j].ok THEN Failure
               ELSE Inserted(t, st, [j \in DOMAIN fields |-> fields[j].text])
      [] st.do = "index" /\ t # NoFile -> IF t.geom = NoFile THEN Failure ELSE Result([t EXCEPT !.index = TRUE])

\* Outside a transaction a statement is one of its own; in it, an error undoes all
\* of it and the statements up to its end are refused.
PsqlExecutes ==
    /\ session.at \in {"idle", "open", "refusing", "committed"} /\ script # <<>>
    /\ script' = Tail(script)
    /\ LET st == Head(script)
           e  == IF st.do \in {"begin", "commit"} \/ session.at = "refusing" THEN Failure
                 ELSE Effect(IF session.at = "open" THEN session.work ELSE target, st)
       IN  CASE st.do = "begin" -> session' = [at |-> "open", work |-> target] /\ UNCHANGED target
             [] st.do = "commit" ->
                  IF session.at = "open" THEN session' = [session EXCEPT !.at = "committed"] /\ target' = session.work
                  ELSE session' = [session EXCEPT !.at = "idle"] /\ UNCHANGED target
             [] st.do \notin {"begin", "commit"} ->
                  IF session.at = "open"
                  THEN /\ session' = IF e.ok THEN [session EXCEPT !.work = e.table] ELSE [session EXCEPT !.at = "refusing"]
                       /\ UNCHANGED target
                  ELSE /\ target' = IF e.ok THEN e.table ELSE target
                       /\ UNCHANGED session
    /\ UNCHANGED <<dumping, loader>>

\* psql is killed, or loses the server: what is not committed is undone.
PsqlKilled ==
    /\ session.at \in {"idle", "open"} /\ loader.at # "absent"
    /\ session' = [at |-> "ended", work |-> NoFile] /\ script' = <<>>
    /\ loader' = [loader EXCEPT !.at = "killed"]
    /\ UNCHANGED <<dumping, target>>

\* The end of the script.
PsqlLeaves ==
    /\ loader.at \in {"stopped", "killed", "done"} /\ script = <<>> /\ session.at \in {"idle", "open", "refusing"}
    /\ session' = [at |-> IF loader.at = "done" THEN "left" ELSE "ended", work |-> NoFile]
    /\ UNCHANGED <<dumping, loader, script, target>>

ExchangeNext ==
    \/ DumpColumns \/ DumpType \/ DumpDims \/ DumpDeclare \/ DumpRow \/ DumpClose \/ DumpKilled \/ OtherWrites
    \/ LoadOpen \/ LoadRow \/ LoadFooter \/ LoadKilled \/ PsqlExecutes \/ PsqlKilled \/ PsqlLeaves

ExchangeSpec == ExchangeInit /\ [][ExchangeNext]_exchange

-----------------------------------------------------------------------------
(* What a load is to leave. *)

\* The rows of the layer that are loaded, counted from 0.
Loadable(st) ==
    IF st.config.opt = "p" THEN <<>>
    ELSE SelectSeq([i \in 1..st.num_entities |-> i - 1],
                   LAMBDA i : IF st.config.readshape
                              THEN st.config.null_policy # "skip" \/ SHPReadObject(st.hSHPHandle, i).vertices # <<>>
                              ELSE ~DBFReadDeleted(st.hDBFHandle, i))

Thinned(ps) == FoldLeft(LAMBDA s, p : IF s # <<>> /\ Last(s) = p THEN s ELSE Append(s, p), <<>>, ps)
Thin(parts) == [k \in DOMAIN parts |-> Thinned(parts[k])]

\* The points of a geometry, part by part; those of a shape, with the ordinates loaded.
PartsOfGeometry(g) ==
    CASE g.type \in {"POINT", "MULTIPOINT", "LINESTRING"} -> <<g.body>>
      [] g.type \in {"MULTILINESTRING", "POLYGON"}        -> g.body
      [] g.type = "MULTIPOLYGON"                          -> FlattenSeq(g.body)
PartsOfShape(obj) == IF obj.starts = <<>> THEN <<obj.vertices>> ELSE PartsOf(obj)
LoadedParts(st, obj) == [k \in DOMAIN PartsOfShape(obj) |-> [i \in DOMAIN PartsOfShape(obj)[k] |-> Ordinates(st, PartsOfShape(obj)[k][i])]]
Polygons(g) == CASE g.type = "POLYGON" -> <<g.body>> [] g.type = "MULTIPOLYGON" -> g.body [] OTHER -> <<>>

Lies(ring, shell) == PIP(ring[1], shell) \/ PIP(ring[2], shell)

\* Every part is there, and a ring lies in the shell it is a hole of.
Tells(st, obj, g) ==
    IF obj.vertices = <<>> THEN g = NoFile
    ELSE /\ g # NoFile
         /\ IF Base(obj.type) = SHPT_POLYGON
            THEN /\ ToSet(Thin(PartsOfGeometry(g))) = ToSet(Thin(LoadedParts(st, obj)))
                 /\ Len(PartsOfGeometry(g)) = Len(obj.starts)
                 /\ \A k \in DOMAIN Polygons(g) : \A l \in 2..Len(Polygons(g)[k]) : Lies(Polygons(g)[k][l], Polygons(g)[k][1])
            ELSE Thin(PartsOfGeometry(g)) = Thin(LoadedParts(st, obj))

\* The text of an attribute, as its column has it.
Attribute(st, c, i, j) ==
    IF DBFIsAttributeNULL(st.hDBFHandle, i, j) THEN NoFile
    ELSE Input(c, LET s == DBFReadAttribute(st.hDBFHandle, i, j)
                  IN  IF st.types[j + 1] \in {"FTInteger", "FTDouble"} /\ Last(s) = Point THEN Front(s) ELSE s)

WholeLoad(t, load, st) ==
    LET old   == IF load.config.opt = "a" THEN load.before.rows ELSE <<>>
        items == Loadable(st)
    IN  /\ t # NoFile
        /\ Len(t.rows) = Len(old) + Len(items) /\ SubSeq(t.rows, 1, Len(old)) = old
        /\ \A k \in DOMAIN items :
              LET row == t.rows[Len(old) + k]
              IN  /\ \A j \in DOMAIN st.types :
                        LET at == Position(t, st.field_names[j])
                        IN  row.values[at] = Attribute(st, t.columns[at], items[k], j - 1)
                  /\ IF st.config.readshape THEN Tells(st, SHPReadObject(st.hSHPHandle, items[k]), row.geom)
                     ELSE row.geom = NoFile

\* A load changes the table as a whole or not at all, whatever row stops the loader,
\* whatever statement the server refuses, and whichever program is killed when; and
\* it commits only when the loader came to the end of its rows.  Only what -d drops
\* goes before the transaction begins, and is gone when the load fails.
LoadIsAtomic ==
    loader.at # "absent" =>
        \/ target = loader.load.before
        \/ loader.load.config.opt = "d" /\ target \in {NoFile, WithoutGeometry(loader.load.before)}
        \/ session.at = "committed" /\ loader.item = loader.st.num_entities

\* What was committed has a row for every shape, with its attributes and its figure.
LoadIsWhole == session.at = "committed" => WholeLoad(target, loader.load, loader.st)

-----------------------------------------------------------------------------
(* What a dump is to leave. *)

\* What a field keeps of a value.
Faithful(field, v) ==
    IF v = NoFile THEN NoFile
    ELSE CASE field.eType = "FTLogical" -> <<IF v = <<116>> THEN 84 ELSE 70>>
           [] field.eType = "FTDate"    -> SelectSeq(v, LAMBDA c : c # 45)
           [] OTHER -> LET s == Trim(SubSeq(v, 1, Smaller(Len(v), field.width))) IN IF s = <<>> THEN NoFile ELSE s

\* The points of a geometry as a layer of that type has them.
InLayer(type, g) ==
    LET Point4(p) == <<p[1], p[2], IF HasZ(type) /\ g.z THEN p[3] ELSE 0, IF HasM(type) /\ g.m THEN Last(p) ELSE 0>>
    IN  [k \in DOMAIN PartsOfGeometry(g) |-> [i \in DOMAIN PartsOfGeometry(g)[k] |-> Point4(PartsOfGeometry(g)[k][i])]]
Alike(r, q)    == r = q \/ r = Reverse(q)
AllAlike(a, b) == Len(a) = Len(b) /\ \A k \in DOMAIN a : Alike(a[k], b[k])

\* Rings are wound as the shape library winds them.
Shows(obj, type, g) ==
    IF g = NoFile THEN obj = NullObject
    ELSE /\ obj.type = type
         /\ IF Base(type) = SHPT_POLYGON
            THEN AllAlike(PartsOfShape(obj), InLayer(type, g)) /\ SHPRewindObject(obj) = obj
            ELSE PartsOfShape(obj) = InLayer(type, g)

\* A finished dump has the rows of one moment, in the order of gid, each record
\* with the shape of its own row and every column in a field of its own name, cut
\* to its width, although names, widths and the type of the layer were asked for
\* one by one before that moment while others wrote the table.  A geometry of a
\* type that was not there when the type was asked for may lose points; and one
\* with Z or M loses what the layer has no room for (InLayer), if none had it
\* when the dimensions were asked for.
DumpIsSnapshot ==
    dumper.at = "closed" =>
        LET dbf == DBFOpenLL(shapefile.dbf)
        IN  /\ source.gid => \A i, k \in DOMAIN dumper.rows : i < k => dumper.rows[i].gid <= dumper.rows[k].gid
            /\ dbf.nRecords = Len(dumper.rows)
            /\ IsInjective([j \in DOMAIN dbf.fields |-> toupper(dbf.fields[j].name)])
            /\ \A i \in DOMAIN dumper.rows, j \in DOMAIN dumper.fields :
                  (IF DBFIsAttributeNULL(dbf, i - 1, j - 1) THEN NoFile ELSE DBFReadAttribute(dbf, i - 1, j - 1))
                    = Faithful(dumper.fields[j], ValuesOf(dumper.rows[i])[j])
            /\ dumper.type # NoFile =>
                  LET shp == SHPOpenLL(shapefile.shp)
                  IN  /\ Len(shp.records) = Len(dumper.rows)
                      /\ \A i \in DOMAIN dumper.rows :
                            LET g == dumper.rows[i].geom
                            IN  (IF g = NoFile THEN TRUE ELSE g.type \in dumper.seen) => Shows(SHPReadObject(shp, i - 1), dumper.type, g)

-----------------------------------------------------------------------------
(* There and back. *)

\* A hole in a polygon before its own is given to that one.
Misplaced(g) ==
    \E k \in DOMAIN Polygons(g) : \E l \in 2..Len(Polygons(g)[k]), j \in 1..k - 1 :
       Lies(Polygons(g)[k][l], Polygons(g)[j][1])

\* Rows that can come back: of a type, and of no more dimensions, than the layer was
\* made for; no multipoint of one point, which comes back as a point; no part that
\* is too short without its repeats.
Plain(g) ==
    \/ g = NoFile
    \/ /\ g.type \in dumper.seen /\ ~Misplaced(g)
       /\ (g.z => HasZ(dumper.type)) /\ (g.m => HasM(dumper.type))
       /\ "MULTIPOINT" \in dumper.seen => Len(g.body) > 1
       /\ Sound([g EXCEPT !.body = IF g.type = "LINESTRING" THEN Thinned(@) ELSE IF g.type = "MULTILINESTRING" THEN Thin(@) ELSE @])
Plainly == \A i \in DOMAIN dumper.rows : Plain(dumper.rows[i].geom)

Returned(field, v) == IF field.eType \in {"FTLogical", "FTDate"} THEN v ELSE Faithful(field, v)

\* The four ordinates come back but for M in the old text.
Same(config, type, g, l) ==
    IF g = NoFile THEN l = NoFile
    ELSE LET Four(x, p)  == <<p[1], p[2], IF x.z THEN p[3] ELSE 0, IF x.m /\ ~config.hwgeom THEN Last(p) ELSE 0>>
             Points(x)   == Thin([k \in DOMAIN PartsOfGeometry(x) |-> [i \in DOMAIN PartsOfGeometry(x)[k] |-> Four(x, PartsOfGeometry(x)[k][i])]])
         IN  /\ Len(Polygons(g)) = Len(Polygons(l)) /\ \A k \in DOMAIN Polygons(g) : Len(Polygons(g)[k]) = Len(Polygons(l)[k])
             /\ AllAlike(Points(g), Points(l))
             /\ l.srid = config.sr_id

\* A table that was dumped and loaded into a new one has the rows it had, in their
\* order: texts without the blanks around them and cut to their field, geometries
\* as a MULTI of their kind, with rings turned and repeated points left out; a hole
\* comes back in its own polygon.
RoundTrip ==
    dumper.at = "closed" /\ session.at = "committed" =>
        LET config == loader.load.config
        IN  config.opt \in {"c", "d"} /\ config.null_policy # "skip" /\ loader.st.config.readshape /\ Plainly =>
                /\ Len(target.rows) = Len(dumper.rows)
                /\ \A i \in DOMAIN dumper.rows :
                      /\ target.rows[i].values = [j \in DOMAIN dumper.fields |-> Returned(dumper.fields[j], ValuesOf(dumper.rows[i])[j])]
                      /\ Same(config, dumper.type, dumper.rows[i].geom, target.rows[i].geom)

\* It does come back, unless a program was killed: for what a dump leaves no row
\* stops the loader and the server refuses no statement, but for the cases named.
Returns ==
    dumper.at = "closed" /\ session.at \in {"left", "ended"} /\ loader.at \in {"stopped", "done"} =>
        LET config == loader.load.config
        IN  \/ config.opt = "c" /\ loader.load.before # NoFile          \* the table is there already
            \/ config.opt = "a"
            \/ ~Plainly
            \/ config.simple_geometries                                 \* -S and a geometry of several parts
            \/ config.null_policy = "abort"                             \* a geometry is missing
            \/ config.geography /\ config.sr_id \notin {-1, 4326}       \* not a geography
            \/ config.hwgeom /\ config.dump_format /\ config.sr_id # -1 \* the system is written twice
            \/ \E i \in DOMAIN dumper.rows, j \in DOMAIN dumper.fields : \* not in the encoding
                  LET v == ValuesOf(dumper.rows[i])[j] IN v # NoFile /\ utf8(v) = NoFile
            \/ ~IsInjective([j \in DOMAIN dumper.names |-> strtolower(dumper.names[j])])
            \/ \E j \in DOMAIN dumper.names : strtolower(dumper.names[j]) = config.geom

\* Both: what was dumped and loaded is what there was, and nothing but a kill or a
\* named case keeps it from coming back.
DumpReturns == RoundTrip /\ Returns
=============================================================================
