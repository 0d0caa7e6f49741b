------------------------------ MODULE WellKnown ------------------------------
(***************************************************************************)
(* Well-known text and well-known binary: how liblwgeom writes geometries  *)
(* in them, and the parser that reads both.                                *)
(*                                                                         *)
(* A text is a sequence of words, as the scanner takes it apart; of the    *)
(* digits of binary it makes one word.  Geometries with integer ordinates, *)
(* which nothing makes, are left out.                                      *)
(***************************************************************************)
EXTENDS GeometryEditors

Word(t)      == [word |-> t, n |-> 0]
Number(n)    == [word |-> "number", n |-> n]
Digits(hex)  == [word |-> "wkb", n |-> hex]
Keyword      == POINTTYPE :> "POINT" @@ LINETYPE :> "LINESTRING" @@ POLYGONTYPE :> "POLYGON"
                @@ MULTIPOINTTYPE :> "MULTIPOINT" @@ MULTILINETYPE :> "MULTILINESTRING"
                @@ MULTIPOLYGONTYPE :> "MULTIPOLYGON" @@ COLLECTIONTYPE :> "GEOMETRYCOLLECTION"
                @@ CIRCSTRINGTYPE :> "CIRCULARSTRING" @@ COMPOUNDTYPE :> "COMPOUNDCURVE"
                @@ CURVEPOLYTYPE :> "CURVEPOLYGON" @@ MULTICURVETYPE :> "MULTICURVE"
                @@ MULTISURFACETYPE :> "MULTISURFACE"
\* POINT and POINTM: n is 1 if the name says M.
Name(type, m) == [word |-> Keyword[type], n |-> One(m)]

\* A writer: where it is in the bytes, what it wrote, the dimensions of the
\* geometry it is in, whether it checks what it writes, and found a fault.
Writer(checked) == [at |-> 1, out |-> <<>>, dims |-> 2, checked |-> checked, bad |-> FALSE]
Put(w, what)    == [w EXCEPT !.out = @ \o what]
Past(w, n)      == [w EXCEPT !.at = @ + n]
Check(w, ok)    == [w EXCEPT !.bad = @ \/ (w.checked /\ ~ok)]
Corner(b, at, i, dims) == [d \in 1..dims |-> b[at + 8 * (dims * i + d - 1)]]

\* Of the count at position at.
LineFits(b, at)       == b[at] >= 2
CircstringFits(b, at) == b[at] >= 3 /\ b[at] % 2 = 1
RingFits(b, at, dims) ==
    /\ b[at] >= 4
    /\ SubSeq(Corner(b, at + 4, 0, dims), 1, 2) = SubSeq(Corner(b, at + 4, b[at] - 1, dims), 1, 2)

-----------------------------------------------------------------------------
(* Writing text. *)

output_point(b, w) ==
    Past(Put(w, [d \in 1..w.dims |-> Number(b[w.at + 8 * (d - 1)])]), 8 * w.dims)
output_single(b, w) == Put(output_point(b, Put(w, <<Word("(")>>)), <<Word(")")>>)

RECURSIVE Output(_, _, _, _), Several(_, _, _, _, _)
Several(func, n, b, w, supress) ==
    IF n = 0 THEN w
    ELSE Several(func, n - 1, b,
                 Put(Output(func, b, w, supress), IF n > 1 THEN <<Word(",")>> ELSE <<>>), supress)

output_collection(func, b, w, supress) ==
    IF b[w.at] = 0 THEN Past(Put(w, <<Word("EMPTY")>>), 4)
    ELSE Put(Several(func, b[w.at], b, Past(Put(w, <<Word("(")>>), 4), supress), <<Word(")")>>)

output_line_collection(b, w) ==
    Check(output_collection("point", b, w, 0), LineFits(b, w.at))
output_polygon_ring_collection(b, w) ==
    Check(output_collection("point", b, w, 0), b[w.at] = 0 \/ RingFits(b, w.at, w.dims))
output_circstring_collection(b, w) ==
    Check(output_collection("point", b, w, 0), CircstringFits(b, w.at))

\* supress 0: a name with its M; 1: a name; 2: no name.
Begun(b, w, supress) ==
    LET type == b[w.at]
        m    == supress = 0 /\ lwgeom_hasM(type) /\ ~lwgeom_hasZ(type)
    IN  [w EXCEPT !.at = AfterSRID(b, @), !.dims = lwgeom_ndims(type),
                  !.out = @ \o (IF lwgeom_hasSRID(type)
                                THEN <<Word("SRID"), Word("="), Number(lwgeom_getsrid(b, w.at)), Word(";")>> ELSE <<>>)
                            \o (IF supress < 2 THEN <<Name(lwgeom_getType(type), m)>> ELSE <<>>)]

\* A geometry of the type after its name.
Content(type, b, w) ==
    CASE type = POINTTYPE -> output_single(b, w)
      [] type = LINETYPE -> output_line_collection(b, w)
      [] type = CIRCSTRINGTYPE -> output_circstring_collection(b, w)
      [] type = POLYGONTYPE -> output_collection("ring", b, w, 0)
      [] type = COMPOUNDTYPE -> output_collection("compound", b, w, 1)
      [] type = CURVEPOLYTYPE -> output_collection("curvepoly", b, w, 0)
      [] type = MULTIPOINTTYPE -> output_collection("multipoint", b, w, 2)
      [] type \in {MULTILINETYPE, MULTIPOLYGONTYPE} -> output_collection("wkt", b, w, 2)
      [] type = MULTICURVETYPE -> output_collection("compound", b, w, 2)
      [] type = MULTISURFACETYPE -> output_collection("multisurface", b, w, 2)
      [] type = COLLECTIONTYPE -> output_collection("wkt", b, w, 1)
output_wkt(b, w, supress) == Content(Type(b, w.at), b, Begun(b, w, supress))

\* A point without its parentheses; its flags are not looked at.
output_multipoint(b, w, supress) ==
    IF b[w.at] % 16 = POINTTYPE THEN output_point(b, Past(w, 1)) ELSE output_wkt(b, w, supress)

\* Of a compound curve nothing is written, and it is not passed.
output_compound(b, w) ==
    CASE Type(b, w.at) = LINETYPE -> output_wkt(b, w, 2)
      [] Type(b, w.at) = CIRCSTRINGTYPE -> output_wkt(b, w, 1)
      [] OTHER -> w

output_curvepoly(b, w) ==
    CASE Type(b, w.at) = LINETYPE -> output_collection("point", b, Past(w, 1), 0)
      [] Type(b, w.at) = CIRCSTRINGTYPE ->
           output_circstring_collection(b, Past(Put(w, <<Name(CIRCSTRINGTYPE, FALSE)>>), 1))
      [] Type(b, w.at) = COMPOUNDTYPE ->
           output_collection("compound", b, Past(Put(w, <<Name(COMPOUNDTYPE, FALSE)>>), 1), 1)

output_multisurface(b, w) ==
    CASE Type(b, w.at) = POLYGONTYPE -> output_wkt(b, w, 2)
      [] Type(b, w.at) = CURVEPOLYTYPE -> output_wkt(b, w, 1)
      [] OTHER -> w

Output(func, b, w, supress) ==
    CASE func = "point" -> output_point(b, w)
      [] func = "ring" -> output_polygon_ring_collection(b, w)
      [] func = "compound" -> output_compound(b, w)
      [] func = "curvepoly" -> output_curvepoly(b, w)
      [] func = "multipoint" -> output_multipoint(b, w, supress)
      [] func = "multisurface" -> output_multisurface(b, w)
      [] func = "wkt" -> output_wkt(b, w, supress)

Finished(w) == IF w.bad THEN Raised ELSE w.out
unparse_WKT(b, checked) == Finished(output_wkt(b, Writer(checked), 0))

-----------------------------------------------------------------------------
(* Writing binary. *)

XDR == 0
NDR == 1
getMachineEndian == NDR

\* Stand for the three highest of 32 bits.
WKBZOFFSET  == 1024
WKBMOFFSET  == 512
WKBSRIDFLAG == 256

\* Each byte is two digits.
write_wkb_hex_bytes(cells) ==
    FlattenSeq([i \in DOMAIN cells |-> <<[byte |-> cells[i], low |-> FALSE], [byte |-> cells[i], low |-> TRUE]>>])
write_wkb_hex_flip_bytes(cells) == write_wkb_hex_bytes(Reverse(cells))
write_wkb_bin_bytes(cells)      == cells
write_wkb_bin_flip_bytes(cells) == Reverse(cells)

\* f: in which order the bytes are asked for, and whether in digits.
write_wkb_bytes(w, cells, f) ==
    Put(w, CASE f.endian = getMachineEndian /\ f.hex -> write_wkb_hex_bytes(cells)
             [] f.endian = getMachineEndian /\ ~f.hex -> write_wkb_bin_bytes(cells)
             [] f.endian # getMachineEndian /\ f.hex -> write_wkb_hex_flip_bytes(cells)
             [] OTHER -> write_wkb_bin_flip_bytes(cells))
write_wkb_int(w, n, f) == write_wkb_bytes(w, Cells(n, 4), f)

output_wkb_point(b, w, f) ==
    LET Ordinate(v, d) == write_wkb_bytes(v, SubSeq(b, w.at + 8 * (d - 1), w.at + 8 * d - 1), f)
    IN  Past(FoldLeft(Ordinate, w, [d \in 1..w.dims |-> d]), 8 * w.dims)

RECURSIVE WkbWritten(_, _, _, _), WkbSeveral(_, _, _, _, _)
WkbSeveral(func, n, b, w, f) ==
    IF n = 0 THEN w ELSE WkbSeveral(func, n - 1, b, WkbWritten(func, b, w, f), f)

output_wkb_collection(func, b, w, f) ==
    WkbSeveral(func, b[w.at], b, Past(write_wkb_int(w, b[w.at], f), 4), f)
output_wkb_line_collection(b, w, f) ==
    Check(output_wkb_collection("point", b, w, f), LineFits(b, w.at))
output_wkb_polygon_ring_collection(b, w, f) ==
    Check(output_wkb_collection("point", b, w, f), RingFits(b, w.at, w.dims))
output_wkb_circstring_collection(b, w, f) ==
    Check(output_wkb_collection("point", b, w, f), CircstringFits(b, w.at))

\* The order of the bytes, the type with its flags, and the SRID.
WkbBegun(b, w, f) ==
    LET type  == b[w.at]
        flags == WKBZOFFSET * One(lwgeom_hasZ(type)) + WKBMOFFSET * One(lwgeom_hasM(type))
                 + WKBSRIDFLAG * One(lwgeom_hasSRID(type))
        typed == write_wkb_int(write_wkb_bytes(w, <<f.endian>>, f), lwgeom_getType(type) + flags, f)
    IN  [IF lwgeom_hasSRID(type) THEN write_wkb_int(typed, lwgeom_getsrid(b, w.at), f) ELSE typed
           EXCEPT !.at = AfterSRID(b, @), !.dims = lwgeom_ndims(type)]
WkbContent(type, b, w, f) ==
    CASE type = POINTTYPE -> output_wkb_point(b, w, f)
      [] type = LINETYPE -> output_wkb_line_collection(b, w, f)
      [] type = CIRCSTRINGTYPE -> output_wkb_circstring_collection(b, w, f)
      [] type = POLYGONTYPE -> output_wkb_collection("ring", b, w, f)
      [] OTHER -> output_wkb_collection("wkb", b, w, f)
output_wkb(b, w, f) == WkbContent(Type(b, w.at), b, WkbBegun(b, w, f), f)

WkbWritten(func, b, w, f) ==
    CASE func = "point" -> output_wkb_point(b, w, f)
      [] func = "ring" -> output_wkb_polygon_ring_collection(b, w, f)
      [] func = "wkb" -> output_wkb(b, w, f)

unparse_WKB(b, checked, endian, hex) ==
    Finished(output_wkb(b, Writer(checked), [endian |-> endian, hex |-> hex]))

-----------------------------------------------------------------------------
(* The geometry being read: a list of tuples, each of which will be written *)
(* as it is, and a stack of those whose parts are being counted.            *)

Tuple(of, type, up, point) ==
    [of |-> of, type |-> type, num |-> 0, up |-> up, here |-> 0, point |-> point, lost |-> FALSE]

\* rest: the words to come; hex, at and swap: the digits, the byte to come and
\* whether the order of bytes is the other one.
Parser(words) ==
    [rest |-> words, hex |-> <<>>, at |-> 1, swap |-> FALSE, srid |-> -1, ndims |-> 0, z |-> FALSE, m |-> FALSE,
     tuples |-> <<>>, stack |-> 0, size |-> 0, cut |-> FALSE, bad |-> FALSE]

Mistake(g)     == [g EXCEPT !.bad = TRUE]
Validate(g, ok) == IF ok THEN g ELSE Mistake(g)

\* After a cut the list ends before the last tuple, and new ones are not in it.
alloc_tuple(g, tuple, size) ==
    [g EXCEPT !.tuples = Append(@, [tuple EXCEPT !.here = g.size + size, !.lost = g.cut]), !.size = @ + size]
alloc_lwgeom(g, srid) ==
    [g EXCEPT !.srid = srid, !.size = IF srid # -1 THEN 4 ELSE 0, !.stack = 1,
              !.tuples = <<Tuple("nothing", 0, 0, <<>>)>>, !.ndims = 0, !.z = FALSE, !.m = FALSE]
inc_num(g) == IF g.stack = 0 THEN g ELSE [g EXCEPT !.tuples[g.stack].num = @ + 1]
alloc_stack_tuple(g, type, of, size) ==
    [alloc_tuple(inc_num(g), Tuple(of, type, g.stack, <<>>), size) EXCEPT !.stack = Len(g.tuples) + 1]
alloc_type(g, type) == alloc_stack_tuple(g, type, "type", 1)
alloc_counter(g)    == alloc_stack_tuple(g, 0, "count", 4)
pop(g) == IF g.stack = 0 THEN g ELSE [g EXCEPT !.stack = g.tuples[@].up]

check_dims(g, n) ==
    IF g.ndims \notin {0, n} THEN Mistake(g)
    ELSE IF g.ndims = n THEN g
    ELSE [g EXCEPT !.ndims = n, !.z = @ \/ n > 2, !.m = @ \/ n > 3]
alloc_point_4d(g, p) == check_dims(inc_num(alloc_tuple(g, Tuple("point", 0, 0, p), 8 * Len(p))), Len(p))
set_zm(g, z, m) == [g EXCEPT !.z = z, !.m = m, !.ndims = 2 + One(z) + One(m)]

\* The innermost geometry becomes an empty collection: of what is after it
\* nothing is kept.
EMPTYTYPE == 255
RECURSIVE Uncounted(_, _)
Uncounted(g, i) == IF g.tuples[i].type = 0 THEN Uncounted(g, g.tuples[i].up) ELSE i
Emptied(g, st) ==
    LET size == g.tuples[st].here + (IF g.tuples[st].type = EMPTYTYPE THEN 0 ELSE 4)
    IN  [g EXCEPT !.tuples = [SubSeq(@, 1, st) EXCEPT ![st].type = EMPTYTYPE, ![st].of = "type count",
                                                      ![st].num = 0, ![st].here = size],
                  !.stack = st, !.size = size, !.cut = @ \/ st < Len(g.tuples)]
alloc_empty(g) == Emptied(g, Uncounted(g, g.stack))

\* The SRID goes with the first type.
write_type(g, t) ==
    <<lwgeom_makeType_full(g.ndims > 0 /\ g.z, g.ndims > 0 /\ g.m, g.srid # -1,
                           IF t.type = EMPTYTYPE THEN COLLECTIONTYPE ELSE t.type, FALSE)>>
      \o (IF g.srid # -1 THEN Cells(g.srid, 4) ELSE <<>>)
write_count(t) == Cells(t.num, 4)
TupleBytes(g, t) ==
    CASE t.of = "type" -> write_type(g, t)
      [] t.of = "count" -> write_count(t)
      [] t.of = "type count" -> write_type(g, t) \o write_count(t)
      [] t.of = "point" -> Doubles(<<t.point>>)
      [] OTHER -> <<>>
make_serialized_lwgeom(g) ==
    LET listed == SelectSeq(g.tuples, LAMBDA t : ~t.lost)
        bare   == [g EXCEPT !.srid = -1]
    IN  FlattenSeq([i \in DOMAIN listed |-> TupleBytes(IF i = 2 THEN g ELSE bare, listed[i])])

-----------------------------------------------------------------------------
(* The checks on what was read, of text only.  c is the place of a counter. *)

NumAt(g, c)   == g.tuples[c].num
FirstPoint(g, c) == g.tuples[c + 1].point
LastPoint(g, c)  == g.tuples[c + NumAt(g, c)].point
Flat2(p)      == SubSeq(p, 1, 2)

\* The counters of n members from i on, each after gap tuples.
RECURSIVE Counters(_, _, _, _)
Counters(g, i, n, gap) ==
    IF n = 0 THEN <<>> ELSE <<i + gap>> \o Counters(g, i + gap + NumAt(g, i + gap), n - 1, gap)
CurvesAt(g, c) == Counters(g, c, NumAt(g, c), 2)
RingsAt(g, c)  == Counters(g, c, NumAt(g, c), 1)

\* The points of a chain of curves, counting each place they meet once.
ChainLength(g, cs) == SumOf([i \in DOMAIN cs |-> NumAt(g, cs[i])]) - (Len(cs) - 1)

check_linestring_minpoints(g)   == Validate(g, NumAt(g, g.stack + 1) >= 2)
check_linestring_closed(g)      ==
    Validate(g, NumAt(g, g.stack + 1) > 0 => Flat2(FirstPoint(g, g.stack + 1)) = Flat2(LastPoint(g, g.stack + 1)))
check_circularstring_isodd(g)   == Validate(g, NumAt(g, g.stack + 1) % 2 = 1)
check_circularstring_minpoints(g) == check_linestring_minpoints(g)
check_polygon_minpoints(g) ==
    LET cs == RingsAt(g, g.stack + 1) IN Validate(g, \A i \in DOMAIN cs : NumAt(g, cs[i]) >= 4)
check_polygon_closed(g) ==
    LET cs == RingsAt(g, g.stack + 1)
    IN  Validate(g, \A i \in DOMAIN cs : Flat2(FirstPoint(g, cs[i])) = Flat2(LastPoint(g, cs[i])))
check_compoundcurve_minpoints(g) == Validate(g, ChainLength(g, CurvesAt(g, g.stack + 1)) >= 2)
check_compoundcurve_continuity(g) ==
    LET cs == CurvesAt(g, g.stack + 1)
    IN  Validate(g, \A i \in 1..Len(cs) - 1 : LastPoint(g, cs[i]) = FirstPoint(g, cs[i + 1]))
check_compoundcurve_closed(g) ==
    LET cs == CurvesAt(g, g.stack + 1)
    IN  Validate(g, Flat2(FirstPoint(g, cs[1])) = Flat2(LastPoint(g, Last(cs))))

\* From the ring whose type is at i: the count of the compound rings goes on
\* from one to the next.
RECURSIVE CurveRingsFit(_, _, _, _)
CompoundRingFits(g, cs, n, count) ==
    count >= 3 /\ CurveRingsFit(g, Last(cs) + NumAt(g, Last(cs)) + 1, n, count)
CurveRingsFit(g, i, n, count) ==
    \/ n = 0
    \/ LET type == g.tuples[i].type
       IN  CASE type = COMPOUNDTYPE ->
                  CompoundRingFits(g, CurvesAt(g, i + 1), n - 1, count + ChainLength(g, CurvesAt(g, i + 1)))
             [] type \in {LINETYPE, CIRCSTRINGTYPE} ->
                  /\ NumAt(g, i + 1) >= (IF type = LINETYPE THEN 4 ELSE 3)
                  /\ CurveRingsFit(g, i + NumAt(g, i + 1) + 2, n - 1, count)
             [] OTHER -> CurveRingsFit(g, i + 1, n - 1, count)
\* Of an empty one, it reads past the last tuple.
check_curvepolygon_minpoints(g) ==
    Validate(g, g.stack < Len(g.tuples) /\ CurveRingsFit(g, g.stack + 2, NumAt(g, g.stack + 1), 0))

check_linestring(g)     == check_linestring_minpoints(g)
check_circularstring(g) == check_circularstring_isodd(check_circularstring_minpoints(g))
check_compoundcurve(g)  == check_compoundcurve_continuity(check_compoundcurve_minpoints(g))
check_polygon(g)        == check_polygon_closed(check_polygon_minpoints(g))
check_curvepolygon(g)   == check_curvepolygon_minpoints(g)
check_closed_linestring(g)     == check_linestring(check_linestring_closed(g))
check_closed_circularstring(g) == check_circularstring(check_linestring_closed(g))
check_closed_compoundcurve(g)  == check_compoundcurve(check_compoundcurve_closed(g))

Checked(type, closed, g) ==
    CASE g.bad -> g
      [] type = LINETYPE -> IF closed THEN check_closed_linestring(g) ELSE check_linestring(g)
      [] type = CIRCSTRINGTYPE -> IF closed THEN check_closed_circularstring(g) ELSE check_circularstring(g)
      [] type = COMPOUNDTYPE -> IF closed THEN check_closed_compoundcurve(g) ELSE check_compoundcurve(g)
      [] type = POLYGONTYPE -> check_polygon(g)
      [] type = CURVEPOLYTYPE -> check_curvepolygon(g)
      [] OTHER -> g

-----------------------------------------------------------------------------
(* The grammar.  After a mistake the words are left alone. *)

Ahead(g) == IF g.bad \/ g.rest = <<>> THEN Word("end") ELSE Head(g.rest)
Eat(g, word) == IF Ahead(g).word = word THEN [g EXCEPT !.rest = Tail(@)] ELSE Mistake(g)

RECURSIVE Values(_)
Values(words) ==
    IF words # <<>> /\ Head(words).word = "number" THEN <<Head(words).n>> \o Values(Tail(words)) ELSE <<>>
TakePoint(g, p) ==
    IF Len(p) \in 2..4 THEN alloc_point_4d([g EXCEPT !.rest = SubSeq(@, Len(p) + 1, Len(@))], p) ELSE Mistake(g)
a_point(g) == TakePoint(g, Values(g.rest))

\* What a member may be without a name, and with one.
Nameless == COMPOUNDTYPE :> LINETYPE @@ CURVEPOLYTYPE :> LINETYPE @@ MULTIPOINTTYPE :> POINTTYPE
            @@ MULTILINETYPE :> LINETYPE @@ MULTICURVETYPE :> LINETYPE @@ MULTIPOLYGONTYPE :> POLYGONTYPE
            @@ MULTISURFACETYPE :> POLYGONTYPE @@ COLLECTIONTYPE :> 0
Named2   == COMPOUNDTYPE :> {CIRCSTRINGTYPE} @@ CURVEPOLYTYPE :> {CIRCSTRINGTYPE, COMPOUNDTYPE}
            @@ MULTIPOINTTYPE :> {} @@ MULTILINETYPE :> {} @@ MULTICURVETYPE :> {CIRCSTRINGTYPE}
            @@ MULTIPOLYGONTYPE :> {} @@ MULTISURFACETYPE :> {CURVEPOLYTYPE}
            @@ COLLECTIONTYPE :> DOMAIN Keyword

RECURSIVE Item(_, _), Items(_, _), geometry_int(_, _, _)
MoreItems(type, g) == IF Ahead(g).word = "," THEN Items(type, Eat(g, ",")) ELSE g
Items(type, g)     == MoreItems(type, Item(type, g))
Listed(type, g)    == pop(Eat(Items(type, Eat(alloc_counter(g), "(")), ")"))

\* A geometry without its name.
nonempty(type, closed, g) ==
    IF type = POINTTYPE THEN pop(Eat(a_point(Eat(alloc_type(g, type), "(")), ")"))
    ELSE pop(Checked(type, closed, Listed(type, alloc_type(g, type))))

\* Only of a curve polygon is an empty one checked.
empty(type, closed, g) ==
    pop(Checked(IF type = CURVEPOLYTYPE THEN type ELSE 0, closed, alloc_empty(Eat(alloc_type(g, type), "EMPTY"))))

Body(type, closed, g) == IF Ahead(g).word = "EMPTY" THEN empty(type, closed, g) ELSE nonempty(type, closed, g)

\* A geometry of one of the types, with its name.
geometry_int(types, closed, g) ==
    LET fit  == {t \in types : Keyword[t] = Ahead(g).word}
        next == Eat(g, Ahead(g).word)
    IN  IF fit = {} THEN Mistake(g)
        ELSE Body(CHOOSE t \in fit : TRUE, closed, IF Ahead(g).n = 1 THEN set_zm(next, FALSE, TRUE) ELSE next)

\* A member; the first of a collection may be EMPTY.
Item(type, g) ==
    CASE g.bad -> g
      [] type \in Pointed -> a_point(g)
      [] type = POLYGONTYPE -> Listed(LINETYPE, g)
      [] OTHER ->
           CASE Ahead(g).word = "(" /\ Nameless[type] # 0 -> nonempty(Nameless[type], type = CURVEPOLYTYPE, g)
             [] Ahead(g).word = "number" /\ type = MULTIPOINTTYPE -> pop(a_point(alloc_type(g, POINTTYPE)))
             [] Ahead(g).word = "EMPTY" /\ type = COLLECTIONTYPE /\ NumAt(g, g.stack) = 0 -> alloc_empty(Eat(g, "EMPTY"))
             [] OTHER -> geometry_int(Named2[type], type = CURVEPOLYTYPE, g)

-----------------------------------------------------------------------------
(* Reading binary. *)

\* Two digits that are not those of one byte make another byte.
strhex_readbyte(hex, i) ==
    IF hex[2 * i - 1].byte = hex[2 * i].byte /\ ~hex[2 * i - 1].low /\ hex[2 * i].low
    THEN hex[2 * i].byte ELSE Filler
Skip(g, n) == IF 2 * (g.at + n - 1) > Len(g.hex) THEN [Mistake(g) EXCEPT !.at = @ + n] ELSE [g EXCEPT !.at = @ + n]

\* The n bytes to come, and the number they are; 0 past the end.
read_wkb_bytes(g, i, n) ==
    [k \in 1..n |-> strhex_readbyte(g.hex, i + (IF g.swap THEN n - k ELSE k - 1))]
ValueOf(g, i, n) ==
    IF g.bad \/ 2 * (i + n - 1) > Len(g.hex) THEN 0
    ELSE IF Tail(read_wkb_bytes(g, i, n)) = Tail(Cells(0, n)) THEN Head(read_wkb_bytes(g, i, n)) ELSE Filler
read_wkb_int(g)       == ValueOf(g, g.at, 4)
read_wkb_double(g, d) == ValueOf(g, g.at + 8 * (d - 1), 8)

read_wkb_point(g) ==
    Skip(inc_num(alloc_tuple(g, Tuple("point", 0, 0, [d \in 1..g.ndims |-> read_wkb_double(g, d)]), 8 * g.ndims)),
         8 * g.ndims)

RECURSIVE parse_wkb(_), WkbItems(_, _, _)
WkbItem(func, g) ==
    CASE func = "point" -> read_wkb_point(g)
      [] func = "ring" -> pop(WkbItems("point", read_wkb_int(g), Skip(alloc_counter(g), 4)))
      [] func = "wkb" -> parse_wkb(g)
WkbItems(func, n, g) == IF n <= 0 \/ g.bad THEN g ELSE WkbItems(func, n - 1, WkbItem(func, g))
read_collection(func, g) == pop(WkbItems(func, read_wkb_int(g), Skip(alloc_counter(g), 4)))

WkbBody(type, g) ==
    CASE type = POINTTYPE -> read_wkb_point(g)
      [] type \in {LINETYPE, CIRCSTRINGTYPE} -> read_collection("point", g)
      [] type = POLYGONTYPE -> read_collection("ring", g)
      [] type \in DOMAIN Keyword -> read_collection("wkb", g)
      [] OTHER -> Mistake(g)

\* An SRID inside replaces the one of the whole.
WkbSrid(g, srid) ==
    IF srid = -1 THEN g ELSE [g EXCEPT !.srid = srid, !.size = @ + (IF g.srid = -1 THEN 4 ELSE 0)]
WkbTyped(g, t) ==
    LET z == (t \div WKBZOFFSET) % 2 = 1
        m == (t \div WKBMOFFSET) % 2 = 1
        s == (t \div WKBSRIDFLAG) % 2 = 1
        zm == [g EXCEPT !.z = z, !.m = m, !.ndims = 2 + One(z) + One(m)]
    IN  IF g.bad THEN g
        ELSE pop(WkbBody(t % 16, alloc_type(IF s THEN Skip(WkbSrid(zm, read_wkb_int(zm)), 4) ELSE zm, t % 16)))
Ordered(g, xdr) == [Skip(g, 1) EXCEPT !.swap = xdr # getMachineEndian]
WkbHead(g)      == WkbTyped(Skip(g, 4), read_wkb_int(g))
parse_wkb(g)    == WkbHead(Ordered(g, ValueOf(g, g.at, 1)))

-----------------------------------------------------------------------------
(* Both. *)

alloc_wkb(g) == parse_wkb([Eat(g, "wkb") EXCEPT !.hex = Ahead(g).n, !.at = 1])
AfterSrid(g) == IF Ahead(g).word = "wkb" THEN alloc_wkb(g) ELSE geometry_int(DOMAIN Keyword, FALSE, g)
set_srid(g)  == Eat(Eat(Eat(Eat(g, "SRID"), "="), "number"), ";")
WithSrid(g, next) == IF next.bad THEN next ELSE AfterSrid(alloc_lwgeom(next, g.rest[3].n))
geometry(g) == IF Ahead(g).word = "SRID" THEN WithSrid(g, set_srid(g)) ELSE AfterSrid(alloc_lwgeom(g, -1))

\* The bytes, or Raised; nothing may follow.
Answer(g) == IF g.bad \/ g.rest # <<>> THEN Raised ELSE make_serialized_lwgeom(g)
parse_it(words) == Answer(geometry(Parser(words)))

-----------------------------------------------------------------------------
(* The SQL functions that write geometries as well-known text and binary,  *)
(* and read them.  A function is given the words of a text, or bytes.      *)

WithBox(b) == IF b = Raised THEN b ELSE IF Type(b, 1) = POINTTYPE THEN b ELSE LWGEOM_addBBOX(b)
Kept(bytes) == IF bytes = Raised THEN Raised ELSE pglwgeom_serialize(pglwgeom_deserialize(bytes))

\* Bytes are read by way of their digits.
pglwgeom_from_ewkb(bytes) == parse_it(<<Digits(write_wkb_hex_bytes(bytes))>>)

LWGEOM_in(words)         == WithBox(Kept(parse_it(words)))
parse_WKT_lwgeom(words)  == WithBox(Kept(parse_it(words)))
LWGEOM_out(b)            == <<Digits(unparse_WKB(b, FALSE, getMachineEndian, TRUE))>>
LWGEOM_asHEXEWKB(b, endian) == <<Digits(unparse_WKB(b, FALSE, endian, TRUE))>>
LWGEOMFromWKB(bytes)     == WithBox(pglwgeom_from_ewkb(bytes))
WKBFromLWGEOM(b, endian) == unparse_WKB(b, TRUE, endian, FALSE)
LWGEOM_recv(buf)         == LWGEOMFromWKB(buf)
LWGEOM_send(b)           == WKBFromLWGEOM(b, NDR)
LWGEOM_asEWKT(b)         == unparse_WKT(b, TRUE)

\* Of the standard: without SRID and in two dimensions.
AfterSemicolon(words) ==
    IF words # Raised /\ words[1].word = "SRID" THEN SubSeq(words, 5, Len(words)) ELSE words
LWGEOM_asText(b)           == AfterSemicolon(unparse_WKT(LWGEOM_force_2d(b), FALSE))
LWGEOM_asBinary(b, endian) == WKBFromLWGEOM(LWGEOM_setSRID(LWGEOM_force_2d(b), -1), endian)

\* srid is empty if none is given.
LWGEOM_from_text(words, srid) ==
    LET b == parse_it(words)
        g == pglwgeom_deserialize(b)
    IN  IF b = Raised THEN Raised ELSE pglwgeom_serialize
            (IF srid = {} THEN g ELSE [g EXCEPT !.srid = CHOOSE s \in srid : TRUE])
LWGEOM_from_WKB(bytes) == LWGEOMFromWKB(bytes)

\* A name says M only without Z.
LWGEOM_getTYPE(b) == Name(Type(b, 1), lwgeom_hasM(b[1]) /\ ~lwgeom_hasZ(b[1]))

-----------------------------------------------------------------------------
(* Constructors for one type: Null if the geometry is of another one, or if *)
(* its name says M.  Each is given what GeomFromText or GeomFromWKB makes of *)
(* its arguments; the synonyms of a constructor are not told apart.         *)

GeomFromText(words, srid) == LWGEOM_from_text(words, srid)
GeomFromWKB(bytes, srid) ==
    LET b == LWGEOM_from_WKB(bytes)
    IN  IF b = Raised \/ srid = {} THEN b ELSE LWGEOM_setSRID(b, CHOOSE s \in srid : TRUE)
OnlyIf(type, b) == IF b = Raised THEN Raised ELSE IF LWGEOM_getTYPE(b) = Name(type, FALSE) THEN b ELSE Null

PointFromText(b)    == OnlyIf(POINTTYPE, b)
LineFromText(b)     == OnlyIf(LINETYPE, b)
PolyFromText(b)     == OnlyIf(POLYGONTYPE, b)
MLineFromText(b)    == OnlyIf(MULTILINETYPE, b)
MPointFromText(b)   == OnlyIf(MULTIPOINTTYPE, b)
MPolyFromText(b)    == OnlyIf(MULTIPOLYGONTYPE, b)
GeomCollFromText(b) == OnlyIf(COLLECTIONTYPE, b)

PointFromWKB(b)      == OnlyIf(POINTTYPE, b)
LineFromWKB(b)       == OnlyIf(LINETYPE, b)
LinestringFromWKB(b) == OnlyIf(LINETYPE, b)
PolyFromWKB(b)       == OnlyIf(POLYGONTYPE, b)
PolygonFromWKB(b)    == OnlyIf(POLYGONTYPE, b)
MPointFromWKB(b)     == OnlyIf(MULTIPOINTTYPE, b)
MultiPointFromWKB(b) == OnlyIf(MULTIPOINTTYPE, b)
MultiLineFromWKB(b)  == OnlyIf(MULTILINETYPE, b)
MLineFromWKB(b)      == OnlyIf(MULTILINETYPE, b)
MPolyFromWKB(b)      == OnlyIf(MULTIPOLYGONTYPE, b)
MultiPolyFromWKB(b)  == OnlyIf(MULTIPOLYGONTYPE, b)
GeomCollFromWKB(b)   == OnlyIf(COLLECTIONTYPE, b)
=============================================================================
