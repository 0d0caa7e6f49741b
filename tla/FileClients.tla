----------------------------- MODULE FileClients ----------------------------
(***************************************************************************)
(* A program at work on a .dbf file, as loader/dbfopen.c serves it, beside  *)
(* the table the program believes it keeps.  The program adds and deletes  *)
(* fields, writes and deletes records in any order, and closes the file or *)
(* ends without closing it.                                                *)
(*                                                                         *)
(* A program at work on a layer of shapes, as loader/shpopen.c serves it:  *)
(* it writes new shapes, writes over old ones, winds their rings, closes   *)
(* the layer and opens it again, or ends without closing it.               *)
(***************************************************************************)
EXTENDS ShapeFile

CONSTANTS
    FieldChoices,   \* fields the program adds: [name, eType, width, decimals]
    ValueChoices,   \* what it writes in a field: [kind, ...]
    MaxRecords,     \* bound: records of the file
    MaxFields       \* bound: fields of the file

VARIABLES
    handle,         \* the open file, NoFile when it is closed
    disk,           \* the file while it is closed, NoFile before the first
    table,          \* the fields, and the rows: a deletion mark and the values
    disturbed       \* history: fields changed while a record was in memory

dbf == <<handle, disk, table, disturbed>>

NoRows == [fields |-> <<>>, rows |-> <<>>]

AttributesInit ==
    /\ handle = NoFile /\ disk = NoFile
    /\ table = NoRows
    /\ disturbed = FALSE

-----------------------------------------------------------------------------
Create ==
    /\ handle = NoFile
    /\ handle' = DBFCreateLL /\ table' = NoRows /\ disturbed' = FALSE
    /\ disk' = NoFile

\* What a program finds in a file.
ValueRead(h, i, j) == IF DBFIsAttributeNULL(h, i, j) THEN NoFile ELSE DBFReadAttribute(h, i, j)
RowRead(h, i) == [deleted |-> DBFIsRecordDeleted(h, i), values |-> [j \in DOMAIN h.fields |-> ValueRead(h, i, j - 1)]]
TableRead(h) ==
    [fields |-> [j \in DOMAIN h.fields |-> [name |-> h.fields[j].name, eType |-> DBFGetFieldInfo(h, j - 1),
                                            width |-> h.fields[j].size, decimals |-> h.fields[j].decimals]],
     rows   |-> [i \in 1..h.nRecords |-> RowRead(h, i - 1)]]

Open ==
    /\ handle = NoFile /\ disk # NoFile /\ DBFOpenLL(disk) # NoFile
    /\ handle' = DBFOpenLL(disk) /\ table' = TableRead(DBFOpenLL(disk)) /\ disturbed' = FALSE
    /\ disk' = NoFile

AddField ==
    /\ handle # NoFile /\ Len(handle.fields) < MaxFields
    /\ \E f \in FieldChoices \ ToSet(table.fields) :
          /\ handle' = DBFAddField(handle, f.name, f.eType, f.width, f.decimals)
          /\ table' = [fields |-> Append(table.fields, f),
                       rows   |-> [i \in DOMAIN table.rows |-> [table.rows[i] EXCEPT !.values = Append(@, NoFile)]]]
    /\ disturbed' = (disturbed \/ handle.nCurrentRecord # -1)
    /\ UNCHANGED disk

DeleteField ==
    /\ handle # NoFile
    /\ \E j \in DOMAIN handle.fields :
          /\ handle' = DBFDeleteField(handle, j - 1)
          /\ table' = [fields |-> RemoveAt(table.fields, j),
                       rows   |-> [i \in DOMAIN table.rows |-> [table.rows[i] EXCEPT !.values = RemoveAt(@, j)]]]
    /\ disturbed' = (disturbed \/ handle.nCurrentRecord # -1)
    /\ UNCHANGED disk

\* A new row is blank, which is NULL in every field.
BlankRow == [deleted |-> FALSE, values |-> [j \in DOMAIN table.fields |-> NoFile]]
RowsFor(i) == IF i = Len(table.rows) THEN Append(table.rows, BlankRow) ELSE table.rows

\* What a field keeps of a value: the digits or letters it has room for, no
\* value for blanks.
Cut(s, n) == SubSeq(s \o Char(Blank, n), 1, n)
KeptOf(f, v) ==
    IF v.kind = "null" THEN NoFile
    ELSE IF Trim(Cut(v.s, f.width)) = <<>> THEN NoFile ELSE Trim(Cut(v.s, f.width))

Suits(f, v) == v.kind \in {"null", CASE f.eType = "FTString" -> "text" [] f.eType = "FTLogical" -> "flag" [] OTHER -> "number"}

Written(h, i, j, v) ==
    CASE v.kind = "null"   -> DBFWriteNULLAttribute(h, i, j)
      [] v.kind = "text"   -> DBFWriteStringAttribute(h, i, j, v.s)
      [] v.kind = "number" -> DBFWriteIntegerAttribute(h, i, j, v.n)
      [] v.kind = "flag"   -> DBFWriteLogicalAttribute(h, i, j, v.c)

Write ==
    /\ handle # NoFile
    /\ \E i \in 0..Len(table.rows), j \in DOMAIN handle.fields, v \in ValueChoices :
          /\ i < MaxRecords /\ Suits(table.fields[j], v)
          /\ handle' = Written(handle, i, j - 1, v)
          /\ table' = [table EXCEPT !.rows = [RowsFor(i) EXCEPT ![i + 1].values[j] = KeptOf(table.fields[j], v)]]
    /\ UNCHANGED <<disk, disturbed>>

\* The program copies a value as it is written in another file.
WriteDirectly ==
    /\ handle # NoFile
    /\ \E i \in 0..Len(table.rows), j \in DOMAIN handle.fields, v \in ValueChoices :
          /\ i < MaxRecords /\ v.kind = "text" /\ table.fields[j].eType = "FTString"
          /\ handle' = DBFWriteAttributeDirectly(handle, i, j - 1, v.s)
          /\ table' = [table EXCEPT !.rows = [RowsFor(i) EXCEPT ![i + 1].values[j] = KeptOf(table.fields[j], v)]]
    /\ UNCHANGED <<disk, disturbed>>

\* One record is read and written over another.
CopyTuple ==
    /\ handle # NoFile
    /\ \E i \in DOMAIN table.rows, k \in 0..Len(table.rows) :
          /\ k < MaxRecords
          /\ handle' = DBFWriteTuple(DBFLoadRecord(handle, i - 1), k, DBFReadTuple(handle, i - 1))
          /\ table' = [table EXCEPT !.rows = [RowsFor(k) EXCEPT ![k + 1] = table.rows[i]]]
    /\ UNCHANGED <<disk, disturbed>>

Delete ==
    /\ handle # NoFile
    /\ \E i \in DOMAIN table.rows, b \in BOOLEAN :
          /\ handle' = DBFMarkRecordDeleted(handle, i - 1, b)
          /\ table' = [table EXCEPT !.rows[i].deleted = b]
    /\ UNCHANGED <<disk, disturbed>>

\* A record is brought into memory by each way of reading.
Read ==
    /\ handle # NoFile
    /\ \E i \in DOMAIN table.rows : handle' \in {DBFLoadRecord(handle, i - 1), DBFReadSetup(handle, i - 1)}
    /\ UNCHANGED <<disk, table, disturbed>>

CloneEmpty ==
    /\ handle # NoFile
    /\ handle' = DBFCloneEmpty(handle) /\ table' = [table EXCEPT !.rows = <<>>] /\ disturbed' = FALSE
    /\ UNCHANGED disk

Close ==
    /\ handle # NoFile
    /\ disk' = DBFClose(handle) /\ handle' = NoFile /\ table' = NoRows
    /\ UNCHANGED disturbed

\* The program ends, as pgsql2shp does on a failure: what was written arrives in
\* the file.
Exit ==
    /\ handle # NoFile
    /\ disk' = handle.file /\ handle' = NoFile /\ table' = NoRows
    /\ UNCHANGED disturbed

AttributesNext ==
    \/ Create \/ Open \/ AddField \/ DeleteField \/ Write \/ WriteDirectly \/ CopyTuple
    \/ Delete \/ Read \/ CloneEmpty \/ Close \/ Exit

-----------------------------------------------------------------------------
\* What is read is what was last written, cut to its field, whatever record is
\* in memory; so it is after the file was closed and opened.  A program that
\* ends without closing the file leaves the rows of the last time its header
\* was written, in which the record in memory alone may be older than the last
\* write.  True while fields are added and deleted only before a record was
\* brought into memory: adding one later keeps bytes nobody has set, deleting
\* one keeps the old layout of that record.
AttributesKept ==
    handle # NoFile /\ ~disturbed =>
        /\ TableRead(handle) = table
        /\ TableRead(DBFOpenLL(DBFClose(handle))) = table
        /\ DBFOpenLL(handle.file) # NoFile =>
              \A i \in 1..DBFOpenLL(handle.file).nRecords :
                 \/ handle.bCurrentRecordModified /\ i = handle.nCurrentRecord + 1
                 \/ RowRead(DBFOpenLL(handle.file), i - 1) = table.rows[i]

-----------------------------------------------------------------------------

CONSTANTS
    ShapeChoices,   \* shapes the program writes: records of SHPCreateObject
    MaxShapes       \* bound: shapes of the layer

ShapeTypes == {SHPT_NULL, SHPT_MULTIPATCH}
                \cup {t + k : t \in {SHPT_POINT, SHPT_ARC, SHPT_POLYGON, SHPT_MULTIPOINT}, k \in {0, 10, 20}}
Vertex == Int \X Int \X Int \X Int

\* Shapes that a record can hold: their parts are in order, a point is one
\* vertex, and ordinates they do not have are 0.
PartsInOrder(s) ==
    IF Parted(s.type)
    THEN /\ GoodStarts(s.starts, Len(s.vertices)) /\ Len(s.partTypes) = Len(s.starts)
         /\ s.type = SHPT_MULTIPATCH \/ \A k \in DOMAIN s.partTypes : s.partTypes[k] = SHPP_RING
    ELSE s.starts = <<>> /\ s.partTypes = <<>>
RightCount(s) ==
    /\ Base(s.type) = SHPT_POINT => Len(s.vertices) = 1
    /\ s.type = SHPT_NULL => s.vertices = <<>> /\ ~s.measured
NothingElse(s) ==
    \A i \in DOMAIN s.vertices : (~HasZ(s.type) => s.vertices[i][3] = 0) /\ (~s.measured => s.vertices[i][4] = 0)

Shapes ==
    {s \in [type : ShapeTypes, starts : Seq(Nat), partTypes : Seq(Int), vertices : Seq(Vertex), measured : BOOLEAN] :
        PartsInOrder(s) /\ RightCount(s) /\ NothingElse(s)}

\* SHPCreateObject gives a shape measures if its type has them; a shape whose
\* parts are out of order, or a point without a vertex, would not be read again.
ASSUME ShapesAssumption == \A s \in ShapeChoices : s \in Shapes /\ (s.measured => HasM(s.type))

VARIABLES
    hSHP,           \* the open layer, NoFile when it is closed
    files,          \* the two files while they are closed
    shapes,         \* the shapes the program believes are in the layer
    rewritten,      \* history: those written over since the headers were written
    unbounded       \* history: those written over when a program ended without closing

shp == <<hSHP, files, shapes, rewritten, unbounded>>

LayerInit == hSHP = NoFile /\ files = NoFile /\ shapes = <<>> /\ rewritten = {} /\ unbounded = {}

ShapesRead(h) == [i \in DOMAIN h.records |-> SHPReadObject(h, i - 1)]

CreateLayer ==
    /\ hSHP = NoFile
    /\ \E s \in ShapeChoices : s.type # SHPT_NULL /\ hSHP' = SHPCreateLL(s.type)
    /\ shapes' = <<>> /\ files' = NoFile /\ rewritten' = {} /\ unbounded' = {}

OpenLayer ==
    /\ hSHP = NoFile /\ files # NoFile
    /\ hSHP' = SHPOpenLL(files) /\ shapes' = ShapesRead(SHPOpenLL(files))
    /\ files' = NoFile /\ rewritten' = {}
    /\ UNCHANGED unbounded

Fits(s) == s.type \in {hSHP.nShapeType, SHPT_NULL}

WriteNew ==
    /\ hSHP # NoFile /\ Len(shapes) < MaxShapes
    /\ \E s \in ShapeChoices : Fits(s) /\ hSHP' = SHPWriteObject(hSHP, -1, s) /\ shapes' = Append(shapes, s)
    /\ UNCHANGED <<files, rewritten, unbounded>>

WriteOver ==
    /\ hSHP # NoFile
    /\ \E s \in ShapeChoices, i \in DOMAIN shapes :
          /\ Fits(s)
          /\ hSHP' = SHPWriteObject(hSHP, i - 1, s)
          /\ shapes' = [shapes EXCEPT ![i] = s]
          /\ rewritten' = rewritten \cup {i} /\ unbounded' = unbounded \ {i}
    /\ UNCHANGED files

\* What a record keeps of a shape: no measures if its type has none.
Stored(s) ==
    IF HasM(s.type) THEN s
    ELSE [s EXCEPT !.measured = FALSE,
                   !.vertices = [i \in DOMAIN @ |-> <<@[i][1], @[i][2], @[i][3], 0>>]]

Rewind ==
    /\ hSHP # NoFile
    /\ \E i \in DOMAIN shapes :
          /\ shapes[i].starts # <<>>
          /\ hSHP' = SHPWriteObject(hSHP, i - 1, SHPRewindObject(SHPReadObject(hSHP, i - 1)))
          /\ shapes' = [shapes EXCEPT ![i] = Stored(SHPRewindObject(@))]
          /\ rewritten' = rewritten \cup {i} /\ unbounded' = unbounded \ {i}
    /\ UNCHANGED files

CloseLayer ==
    /\ hSHP # NoFile
    /\ files' = SHPClose(hSHP) /\ hSHP' = NoFile /\ shapes' = <<>> /\ rewritten' = {}
    /\ UNCHANGED unbounded

ExitLayer ==
    /\ hSHP # NoFile
    /\ files' = Unclosed(hSHP) /\ hSHP' = NoFile /\ shapes' = <<>> /\ rewritten' = {}
    /\ unbounded' = (unbounded \cup rewritten) \cap DOMAIN hSHP.written.records

LayerNext ==
    \/ CreateLayer \/ OpenLayer \/ WriteNew \/ WriteOver \/ Rewind \/ CloseLayer \/ ExitLayer

LayerSpec == LayerInit /\ [][LayerNext]_shp

-----------------------------------------------------------------------------
AtOrigin(s) == \A i \in DOMAIN s.vertices : s.vertices[i][1] = 0 /\ s.vertices[i][2] = 0
Within(s, b) ==
    \A i \in DOMAIN s.vertices, d \in 1..(IF HasM(s.type) THEN 4 ELSE 3) :
       b.lo[d] <= s.vertices[i][d] /\ s.vertices[i][d] <= b.hi[d]

\* Each shape is read as it was last written, wherever its record lies and
\* whatever grew or shrank beside it; so it is when the layer was closed and
\* opened.  A program that ends without closing the layer leaves the shapes the
\* headers counted, those it has since written over excepted, which may be read as
\* they were or with measures they never had and lie outside the bounds.  The
\* bounds of the layer hold every other shape but those that are all at the
\* origin: bounds of nothing but zeros are taken for none.
ShapesKept ==
    hSHP # NoFile =>
        /\ ShapesRead(hSHP) = shapes
        /\ ShapesRead(SHPOpenLL(SHPClose(hSHP))) = shapes
        /\ \A i \in DOMAIN hSHP.written.records :
              i \in rewritten \/ SHPReadObject(SHPOpenLL(Unclosed(hSHP)), i - 1) = shapes[i]
        /\ \A i \in DOMAIN shapes : i \in unbounded \/ AtOrigin(shapes[i]) \/ Within(shapes[i], hSHP.bounds)
=============================================================================
