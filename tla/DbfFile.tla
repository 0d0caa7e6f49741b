------------------------------ MODULE DbfFile ------------------------------
(***************************************************************************)
(* The .dbf files of shapefiles, as loader/dbfopen.c reads and writes them: *)
(* a handle keeps one record of the file in memory, changes it there and   *)
(* writes it back when another record is asked for, or at the end.         *)
(*                                                                         *)
(* The file is a sequence of bytes, one cell each but for the header: three *)
(* cells (records, header length, record length), four for each field      *)
(* (name, type, size, decimals) and the mark that ends it.  Records and    *)
(* fields are counted from 0 as in the code.                               *)
(***************************************************************************)
EXTENDS Integers, Sequences, SequencesExt

CONSTANT NoFile     \* no handle, no value

Blank   == 32
Star    == 42
Point   == 46
Zero    == 48
Query   == 63
Return  == 13
Eof     == 26
Garbage == -1       \* a byte of fresh memory

Char(c, n) == [i \in 1..(IF n < 0 THEN 0 ELSE n) |-> c]

\* Digits of 0..999, as sprintf prints them.
Printed(n) ==
    (IF n > 99 THEN <<Zero + (n \div 100)>> ELSE <<>>)
      \o (IF n > 9 THEN <<Zero + ((n \div 10) % 10)>> ELSE <<>>) \o <<Zero + (n % 10)>>

\* Writing past the end fills the gap with zeros; reading past it leaves the
\* memory as it was.
Bigger(a, b)  == IF a > b THEN a ELSE b
Smaller(a, b) == IF a < b THEN a ELSE b
WriteAt(file, at, cells) ==
    SubSeq(file, 1, Smaller(at, Len(file))) \o Char(0, at - Len(file)) \o cells
      \o SubSeq(file, at + Len(cells) + 1, Len(file))
ReadAt(file, at, n) ==
    SubSeq(file, at + 1, Smaller(at + n, Len(file))) \o Char(Garbage, n - Bigger(0, Smaller(n, Len(file) - at)))

RecordOffset(h, i) == h.nRecordLength * i + h.nHeaderLength

FieldCells(f) == <<f.name, f.type, f.size, f.decimals>>
HeaderCells(h) ==
    <<0, h.nHeaderLength, h.nRecordLength>> \o FlattenSeq([i \in DOMAIN h.fields |-> FieldCells(h.fields[i])])
      \o (IF h.nHeaderLength > 3 + 4 * Len(h.fields) THEN <<Return>> ELSE <<>>)

\* With a count of no records: UpdateHeader puts the count in.
DBFWriteHeader(h) ==
    IF h.bNoHeader THEN [h EXCEPT !.bNoHeader = FALSE, !.file = WriteAt(@, 0, HeaderCells(h))] ELSE h

DBFFlushRecord(h) ==
    IF h.bCurrentRecordModified /\ h.nCurrentRecord > -1
    THEN [h EXCEPT !.bCurrentRecordModified = FALSE,
                   !.file = WriteAt(@, RecordOffset(h, h.nCurrentRecord), h.pszCurrentRecord)]
    ELSE h

\* f: h, flushed.  A record that is not in the file is not loaded.
LoadFrom(f, i) ==
    IF Len(f.file) < RecordOffset(f, i) + f.nRecordLength THEN f
    ELSE [f EXCEPT !.nCurrentRecord = i,
                   !.pszCurrentRecord = ReadAt(f.file, RecordOffset(f, i), f.nRecordLength)]

\* Mutant of DBFLoadRecord: the record in memory is not written back first.
DBFLoadRecordUnflushed(h, i) ==
    IF h.nCurrentRecord = i THEN h ELSE [LoadFrom(h, i) EXCEPT !.bCurrentRecordModified = FALSE]

DBFLoadRecord(h, i) == IF h.nCurrentRecord = i THEN h ELSE LoadFrom(DBFFlushRecord(h), i)

\* PostGIS's own copy of the load, for DBFReadDeleted.
DBFReadSetup(h, i) ==
    IF i \notin 0..h.nRecords - 1 THEN h
    ELSE IF h.nCurrentRecord = i THEN h ELSE LoadFrom(DBFFlushRecord(h), i)

\* w: h, with its header written and its record flushed.
CountWritten(w) == [w EXCEPT !.file = WriteAt(@, 0, <<w.nRecords>>)]
DBFUpdateHeader(h) == CountWritten(DBFFlushRecord(DBFWriteHeader(h)))

-----------------------------------------------------------------------------
(* Opening, creating, closing. *)

\* The fields of a header, each after the one before it.
FieldsAt(file, n) ==
    FoldLeft(LAMBDA fs, i :
               Append(fs, [name     |-> file[4 * i], type |-> file[4 * i + 1], size |-> file[4 * i + 2],
                           decimals |-> IF file[4 * i + 1] \in {"N", "F"} THEN file[4 * i + 3] ELSE 0,
                           offset   |-> IF fs = <<>> THEN 1 ELSE Last(fs).offset + Last(fs).size]),
             <<>>, [i \in 1..n |-> i])

\* A file shorter than a header, such as one created and never closed, cannot be
\* opened.
DBFOpenLL(file) ==
    IF Len(file) < 3 THEN NoFile
    ELSE IF file[2] < 3 \/ Len(file) < file[2] THEN NoFile
    ELSE [file |-> file, bNoHeader |-> FALSE, bUpdated |-> FALSE, nRecords |-> file[1],
          nHeaderLength |-> file[2], nRecordLength |-> file[3], fields |-> FieldsAt(file, (file[2] - 3) \div 4),
          nCurrentRecord |-> -1, bCurrentRecordModified |-> FALSE, pszCurrentRecord |-> Char(Garbage, file[3])]

DBFCreateLL ==
    [file |-> <<0>>, bNoHeader |-> TRUE, bUpdated |-> FALSE, nRecords |-> 0, nHeaderLength |-> 4,
     nRecordLength |-> 1, fields |-> <<>>, nCurrentRecord |-> -1, bCurrentRecordModified |-> FALSE,
     pszCurrentRecord |-> <<>>]

Ended(file) == IF Last(file) = Eof THEN file ELSE Append(file, Eof)

\* The file that is left.
DBFClose(h) ==
    Ended(IF h.bUpdated THEN DBFUpdateHeader(DBFFlushRecord(DBFWriteHeader(h))).file
          ELSE DBFFlushRecord(DBFWriteHeader(h)).file)

DBFCloneEmpty(h) ==
    DBFOpenLL(DBFClose(DBFWriteHeader(
      [DBFCreateLL EXCEPT !.fields = h.fields, !.nRecordLength = h.nRecordLength,
                          !.nHeaderLength = h.nHeaderLength, !.bUpdated = TRUE])))

-----------------------------------------------------------------------------
(* Fields. *)

\* What a field without a value holds.
NullChar(type) ==
    CASE type \in {"N", "F"} -> Star
      [] type = "D"          -> Zero
      [] type = "L"          -> Query
      [] OTHER               -> Blank

NativeType(eType) ==
    CASE eType = "FTLogical" -> "L"
      [] eType = "FTString"  -> "C"
      [] eType = "FTDate"    -> "D"
      [] OTHER               -> "N"

\* The record in memory grows by bytes nobody has set.
Grown(h, name, type, width, decimals) ==
    [h EXCEPT !.fields = Append(@, [name |-> name, type |-> type, size |-> width, decimals |-> decimals,
                                    offset |-> h.nRecordLength]),
              !.nRecordLength = @ + width, !.nHeaderLength = @ + 4, !.bUpdated = FALSE,
              !.pszCurrentRecord = @ \o Char(Garbage, h.nRecordLength + width - Len(@))]

\* The records of h, from the last to the first, to where g has them.
MovedApart(h, g, fill) ==
    FoldLeft(LAMBDA file, k :
               WriteAt(file, RecordOffset(g, h.nRecords - k),
                       ReadAt(file, RecordOffset(h, h.nRecords - k), h.nRecordLength) \o fill),
             h.file, [k \in 1..h.nRecords |-> k])

Rearranged(h, g, fill) == DBFUpdateHeader([g EXCEPT !.bNoHeader = TRUE, !.file = MovedApart(h, g, fill)])

DBFAddNativeFieldType(h, name, type, width, decimals) ==
    IF width < 1 THEN h
    ELSE LET w == IF width > 255 THEN 255 ELSE width
         IN  IF h.bNoHeader THEN Grown(h, name, type, w, decimals)
             ELSE Rearranged(h, Grown(h, name, type, w, decimals), Char(NullChar(type), w))

DBFAddField(h, name, eType, width, decimals) ==
    DBFAddNativeFieldType(h, name, NativeType(eType), width, decimals)

\* f: h flushed, whose field k goes.
Shrunk(f, k) ==
    [f EXCEPT !.fields = [i \in 1..Len(@) - 1 |->
                            IF i < k THEN @[i] ELSE [@[i + 1] EXCEPT !.offset = @ - f.fields[k].size]],
              !.nRecordLength = @ - f.fields[k].size, !.nHeaderLength = @ - 4,
              !.pszCurrentRecord = SubSeq(@, 1, f.nRecordLength - f.fields[k].size)]

\* The records of f, from the first to the last, without the field k, to where g has them.
MovedTogether(f, g, k, file) ==
    FoldLeft(LAMBDA s, i :
               WriteAt(s, RecordOffset(g, i - 1),
                       SubSeq(ReadAt(s, RecordOffset(f, i - 1), f.nRecordLength), 1, f.fields[k].offset)
                         \o SubSeq(ReadAt(s, RecordOffset(f, i - 1), f.nRecordLength),
                                   f.fields[k].offset + f.fields[k].size + 1, f.nRecordLength)),
             file, [i \in 1..f.nRecords |-> i])

\* The record in memory is the old one, cut.
Squeezed(f, g, k) ==
    IF f.bNoHeader /\ f.nRecords = 0 THEN g
    ELSE LET u == DBFUpdateHeader([g EXCEPT !.bNoHeader = TRUE])
         IN  [u EXCEPT !.file = MovedTogether(f, g, k, @)]

DBFDeleteField(h, j) ==
    IF j \notin 0..Len(h.fields) - 1 THEN h
    ELSE Squeezed(DBFFlushRecord(h), Shrunk(DBFFlushRecord(h), j + 1), j + 1)

DBFGetFieldInfo(h, j) ==
    LET f == h.fields[j + 1]
    IN  CASE j \notin 0..Len(h.fields) - 1 -> "FTInvalid"
          [] f.type = "L"                 -> "FTLogical"
          [] f.type = "D"                 -> "FTDate"
          [] f.type \in {"N", "F"}        -> IF f.decimals > 0 \/ f.size > 10 THEN "FTDouble" ELSE "FTInteger"
          [] OTHER                        -> "FTString"

-----------------------------------------------------------------------------
(* Reading. *)

UpToNul(s) == SubSeq(s, 1, SelectInSeq(Append(s, 0), LAMBDA c : c = 0) - 1)

\* TRIM_DBF_WHITESPACE.
Trim(s) ==
    IF \A i \in DOMAIN s : s[i] = Blank THEN <<>>
    ELSE SubSeq(s, SelectInSeq(s, LAMBDA c : c # Blank), SelectLastInSeq(s, LAMBDA c : c # Blank))

\* The handle that has the record in memory; NoFile if there is none.
ForReading(h, i, j) ==
    IF i \notin 0..h.nRecords - 1 \/ j \notin 0..Len(h.fields) - 1 THEN NoFile
    ELSE IF DBFLoadRecord(h, i).nCurrentRecord # i THEN NoFile ELSE DBFLoadRecord(h, i)

FieldOf(h, f) == Trim(UpToNul(SubSeq(h.pszCurrentRecord, f.offset + 1, f.offset + f.size)))

DBFReadAttribute(h, i, j) ==
    IF ForReading(h, i, j) = NoFile THEN NoFile ELSE FieldOf(ForReading(h, i, j), h.fields[j + 1])

DBFIsAttributeNULL(h, i, j) ==
    LET v == DBFReadAttribute(h, i, j)
        t == h.fields[j + 1].type
    IN  \/ v = NoFile
        \/ v = <<>>
        \/ t \in {"N", "F"} /\ v[1] = Star
        \/ t = "D" /\ Len(v) >= 8 /\ SubSeq(v, 1, 8) = Char(Zero, 8)
        \/ t = "L" /\ v[1] = Query

DBFReadTuple(h, i) ==
    IF i \notin 0..h.nRecords - 1 THEN NoFile
    ELSE IF DBFLoadRecord(h, i).nCurrentRecord # i THEN NoFile ELSE DBFLoadRecord(h, i).pszCurrentRecord

DBFIsRecordDeleted(h, i) ==
    IF i \notin 0..h.nRecords - 1 THEN TRUE
    ELSE DBFLoadRecord(h, i).nCurrentRecord = i /\ DBFLoadRecord(h, i).pszCurrentRecord[1] = Star

DBFReadDeleted(h, i) ==
    DBFReadSetup(h, i).nCurrentRecord = i /\ DBFReadSetup(h, i).pszCurrentRecord[1] # Blank

-----------------------------------------------------------------------------
(* Writing. *)

\* f: h with its header written and its record flushed.
NewRecord(f) ==
    [f EXCEPT !.nRecords = @ + 1, !.nCurrentRecord = f.nRecords,
              !.pszCurrentRecord = Char(Blank, f.nRecordLength)]

\* How every writer begins: the record is in memory, a new one after the last.
ForWriting(h, i) ==
    IF i = h.nRecords THEN NewRecord(DBFFlushRecord(DBFWriteHeader(h)))
    ELSE DBFLoadRecord(DBFWriteHeader(h), i)

Put(h, at, cells) ==
    [h EXCEPT !.pszCurrentRecord = WriteAt(@, at, cells), !.bCurrentRecordModified = TRUE, !.bUpdated = TRUE]

\* A value in a field f: longer ones are cut, shorter texts end in blanks.
TextCells(f, s) == SubSeq(s \o Char(Blank, f.size), 1, f.size)
NumberCells(f, n) ==
    LET s == Printed(n) \o (IF f.decimals = 0 THEN <<>> ELSE <<Point>> \o Char(Zero, f.decimals))
    IN  SubSeq(Char(Blank, f.size - Len(s)) \o s, 1, f.size)

\* The cells a value of DBFWriteAttribute takes; a flag takes one, if it is one.
AttributeCells(f, v) ==
    CASE v.kind = "null"   -> Char(NullChar(f.type), f.size)
      [] v.kind = "number" -> NumberCells(f, v.n)
      [] v.kind = "flag"   -> IF v.c \in {70, 84} THEN <<v.c>> ELSE <<>>
      [] v.kind = "text"   -> TextCells(f, v.s)

WriteCells(h, i, j, cells) ==
    IF i \notin 0..h.nRecords \/ ForWriting(h, i).nCurrentRecord # i THEN h
    ELSE Put(ForWriting(h, i), h.fields[j + 1].offset, cells)

DBFWriteAttribute(h, i, j, v) == WriteCells(h, i, j, AttributeCells(h.fields[j + 1], v))
DBFWriteNULLAttribute(h, i, j)       == DBFWriteAttribute(h, i, j, [kind |-> "null"])
DBFWriteIntegerAttribute(h, i, j, n) == DBFWriteAttribute(h, i, j, [kind |-> "number", n |-> n])
DBFWriteLogicalAttribute(h, i, j, c) == DBFWriteAttribute(h, i, j, [kind |-> "flag", c |-> c])
DBFWriteStringAttribute(h, i, j, s)  == DBFWriteAttribute(h, i, j, [kind |-> "text", s |-> s])

DBFWriteAttributeDirectly(h, i, j, s) == WriteCells(h, i, j, TextCells(h.fields[j + 1], s))

DBFWriteTuple(h, i, cells) ==
    IF i \notin 0..h.nRecords \/ ForWriting(h, i).nCurrentRecord # i THEN h
    ELSE Put(ForWriting(h, i), 0, cells)

\* l: h with the record loaded.
Marked(l, c) ==
    IF l.pszCurrentRecord[1] = c THEN l
    ELSE Put(l, 0, <<c>>)

DBFMarkRecordDeleted(h, i, deleted) ==
    IF i \notin 0..h.nRecords - 1 \/ DBFLoadRecord(h, i).nCurrentRecord # i THEN h
    ELSE Marked(DBFLoadRecord(h, i), IF deleted THEN Star ELSE Blank)
============================================================================
