----------------------------- MODULE Serialized -----------------------------
(***************************************************************************)
(* The bytes liblwgeom keeps a geometry in: how they are measured, written *)
(* and read, and what is read of them without building the geometry.       *)
(*                                                                         *)
(* A buffer is a sequence with one entry per byte.  A value stands in the  *)
(* first of its bytes and Filler in the others, so a reader whose position   *)
(* is off by a byte does not find the value.                               *)
(***************************************************************************)
EXTENDS LwGeom

Filler        == -7777
Cells(v, n) == <<v>> \o [i \in 1..n - 1 |-> Filler]
Doubles(pa) == FlattenSeq([i \in DOMAIN pa |-> FlattenSeq([d \in DOMAIN pa[i] |-> Cells(pa[i][d], 8)])])

\* The type byte: four bits of type, then M, Z, "has SRID" and "has box".
lwgeom_makeType_full(z, m, srid, type, box) ==
    type + 16 * One(m) + 32 * One(z) + 64 * One(srid) + 128 * One(box)
lwgeom_getType(t) == t % 16
lwgeom_hasM(t)    == (t \div 16) % 2 = 1
lwgeom_hasZ(t)    == (t \div 32) % 2 = 1
lwgeom_hasSRID(t) == (t \div 64) % 2 = 1
lwgeom_hasBBOX(t) == t \div 128 = 1
lwgeom_ndims(t)   == 2 + One(lwgeom_hasZ(t)) + One(lwgeom_hasM(t))

-----------------------------------------------------------------------------
(* Writing. *)

\* Type, box and SRID, as every writer begins.
Header(g) ==
    <<lwgeom_makeType_full(g.z, g.m, g.srid # -1, g.type, g.box # NoBox)>>
      \o FlattenSeq([i \in DOMAIN g.box |-> Cells(g.box[i], 4)])
      \o (IF g.srid = -1 THEN <<>> ELSE Cells(g.srid, 4))

HeaderSize(g) == 1 + (IF g.srid # -1 THEN 4 ELSE 0) + (IF g.box # NoBox THEN 16 ELSE 0)

lwpoint_serialize_size(g) == HeaderSize(g) + 8 * NDims(g)
lwline_serialize_size(g)  == HeaderSize(g) + 4 + 8 * NDims(g) * Len(g.body)
lwcircstring_serialize_size(g) == HeaderSize(g) + 4 + 8 * NDims(g) * Len(g.body)
lwpoly_serialize_size(g)  ==
    HeaderSize(g) + 4 + SumOf([i \in DOMAIN g.body |-> 4 + 8 * NDims(g) * Len(g.body[i])])

RECURSIVE lwgeom_serialize_size(_)
lwcollection_serialize_size(g) ==
    HeaderSize(g) + 4 + SumOf([i \in DOMAIN g.body |-> lwgeom_serialize_size(g.body[i])])
lwgeom_serialize_size(g) ==
    CASE g.type = POINTTYPE -> lwpoint_serialize_size(g)
      [] g.type = LINETYPE -> lwline_serialize_size(g)
      [] g.type = CIRCSTRINGTYPE -> lwcircstring_serialize_size(g)
      [] g.type = POLYGONTYPE -> lwpoly_serialize_size(g)
      [] OTHER -> lwcollection_serialize_size(g)

lwpoint_serialize_buf(g) == Header(g) \o Doubles(<<g.body[1]>>)
lwline_serialize_buf(g)  == Header(g) \o Cells(Len(g.body), 4) \o Doubles(g.body)
lwcircstring_serialize_buf(g) == Header(g) \o Cells(Len(g.body), 4) \o Doubles(g.body)
lwpoly_serialize_buf(g)  ==
    Header(g) \o Cells(Len(g.body), 4)
      \o FlattenSeq([i \in DOMAIN g.body |-> Cells(Len(g.body[i]), 4) \o Doubles(g.body[i])])

RECURSIVE lwgeom_serialize(_)
lwcollection_serialize_buf(g) ==
    Header(g) \o Cells(Len(g.body), 4)
      \o FlattenSeq([i \in DOMAIN g.body |-> lwgeom_serialize(g.body[i])])
lwgeom_serialize(g) ==
    CASE g.type = POINTTYPE -> lwpoint_serialize_buf(g)
      [] g.type = LINETYPE -> lwline_serialize_buf(g)
      [] g.type = CIRCSTRINGTYPE -> lwcircstring_serialize_buf(g)
      [] g.type = POLYGONTYPE -> lwpoly_serialize_buf(g)
      [] OTHER -> lwcollection_serialize_buf(g)

-----------------------------------------------------------------------------
(* Walking over the bytes of buffer b from the type byte at position p. *)

Type(b, p)      == lwgeom_getType(b[p])
AfterBox(b, p)  == p + 1 + (IF lwgeom_hasBBOX(b[p]) THEN 16 ELSE 0)
AfterSRID(b, p) == AfterBox(b, p) + (IF lwgeom_hasSRID(b[p]) THEN 4 ELSE 0)

lwgeom_getsrid(b, p) == IF lwgeom_hasSRID(b[p]) THEN b[AfterBox(b, p)] ELSE -1
CachedBox(b, p) ==
    IF lwgeom_hasBBOX(b[p]) THEN [i \in 1..4 |-> b[p + 1 + 4 * (i - 1)]] ELSE NoBox

lwgeom_size_point(b, p) == AfterSRID(b, p) - p + 8 * lwgeom_ndims(b[p])
lwgeom_size_line(b, p)  == AfterSRID(b, p) - p + 4 + 8 * lwgeom_ndims(b[p]) * b[AfterSRID(b, p)]
lwgeom_size_circstring(b, p) == AfterSRID(b, p) - p + 4 + 8 * lwgeom_ndims(b[p]) * b[AfterSRID(b, p)]

\* The positions of the counts of the rings of a polygon, and the end of it.
RECURSIVE RingsFrom(_, _, _, _)
RingsFrom(b, at, n, ndims) ==
    IF n = 0 THEN <<at>> ELSE <<at>> \o RingsFrom(b, at + 4 + 8 * ndims * b[at], n - 1, ndims)
Rings(b, p) == RingsFrom(b, AfterSRID(b, p) + 4, b[AfterSRID(b, p)], lwgeom_ndims(b[p]))

lwgeom_size_poly(b, p) == Last(Rings(b, p)) - p

\* The positions of n members from at on, and the position after the last.
RECURSIVE lwgeom_size(_, _), MembersFrom(_, _, _)
MembersFrom(b, at, n) ==
    IF n = 0 THEN <<at>> ELSE <<at>> \o MembersFrom(b, at + lwgeom_size(b, at), n - 1)
Members(b, p) == MembersFrom(b, AfterSRID(b, p) + 4, b[AfterSRID(b, p)])

lwgeom_size(b, p) ==
    CASE Type(b, p) = POINTTYPE -> lwgeom_size_point(b, p)
      [] Type(b, p) = LINETYPE -> lwgeom_size_line(b, p)
      [] Type(b, p) = CIRCSTRINGTYPE -> lwgeom_size_circstring(b, p)
      [] Type(b, p) = POLYGONTYPE -> lwgeom_size_poly(b, p)
      [] OTHER -> Last(Members(b, p)) - p

\* The positions of the subgeometries: a simple geometry is its own.
lwgeom_inspect(b, p) ==
    IF Type(b, p) \in Pointed \cup {POLYGONTYPE} THEN <<p>> ELSE Front(Members(b, p))

lwgeom_getnumgeometries(b, p) ==
    IF Type(b, p) \in Pointed \cup {POLYGONTYPE, COMPOUNDTYPE, CURVEPOLYTYPE} THEN 1
    ELSE b[AfterSRID(b, p)]

\* 99 if there is no subgeometry n (from 0).
lwgeom_getsubtype(b, n) ==
    LET subs == lwgeom_inspect(b, 1) IN IF n \in 0..Len(subs) - 1 THEN b[subs[n + 1]] ELSE 99

\* 0 after lwerror.
lwgeom_getsubgeometry(b, n) ==
    LET subs == lwgeom_inspect(b, 1) IN IF n \in 0..Len(subs) - 1 THEN subs[n + 1] ELSE 0

-----------------------------------------------------------------------------
(* Reading. *)

PointsAt(b, at, n, ndims) ==
    [i \in 1..n |-> [d \in 1..ndims |-> b[at + 8 * (ndims * (i - 1) + d - 1)]]]

Read(b, p, body) ==
    [type |-> Type(b, p), z |-> lwgeom_hasZ(b[p]), m |-> lwgeom_hasM(b[p]),
     srid |-> lwgeom_getsrid(b, p), box |-> CachedBox(b, p), body |-> body]

lwpoint_deserialize(b, p) == Read(b, p, PointsAt(b, AfterSRID(b, p), 1, lwgeom_ndims(b[p])))
RowAt(b, at, ndims) == PointsAt(b, at + 4, b[at], ndims)
lwline_deserialize(b, p) == Read(b, p, RowAt(b, AfterSRID(b, p), lwgeom_ndims(b[p])))
lwcircstring_deserialize(b, p) == Read(b, p, RowAt(b, AfterSRID(b, p), lwgeom_ndims(b[p])))
RowsAt(b, at, ndims) == [i \in 1..Len(at) - 1 |-> RowAt(b, at[i], ndims)]
lwpoly_deserialize(b, p) == Read(b, p, RowsAt(b, Rings(b, p), lwgeom_ndims(b[p])))

\* What each kind of collection accepts; a collection accepts everything, of
\* any dimension.
MemberTypes == MULTIPOINTTYPE :> {POINTTYPE} @@ MULTILINETYPE :> {LINETYPE}
               @@ MULTIPOLYGONTYPE :> {POLYGONTYPE} @@ COMPOUNDTYPE :> {LINETYPE, CIRCSTRINGTYPE}
               @@ CURVEPOLYTYPE :> {LINETYPE, CIRCSTRINGTYPE, COMPOUNDTYPE}
               @@ MULTICURVETYPE :> {LINETYPE, CIRCSTRINGTYPE, COMPOUNDTYPE}
               @@ MULTISURFACETYPE :> {POLYGONTYPE, CURVEPOLYTYPE}
               @@ COLLECTIONTYPE :> 1..15

ReadMembers(b, p, gs) ==
    LET Fits(g) == /\ g # Failed /\ g.type \in MemberTypes[Type(b, p)]
                   /\ Type(b, p) = COLLECTIONTYPE \/ NDims(g) = lwgeom_ndims(b[p])
    IN  IF \A i \in DOMAIN gs : Fits(gs[i]) THEN Read(b, p, gs) ELSE Failed

RECURSIVE lwgeom_deserialize(_, _)
EachAt(b, subs) == [i \in DOMAIN subs |-> lwgeom_deserialize(b, subs[i])]
lwcollection_deserialize(b, p) == ReadMembers(b, p, EachAt(b, lwgeom_inspect(b, p)))
lwgeom_deserialize(b, p) ==
    CASE Type(b, p) = POINTTYPE -> lwpoint_deserialize(b, p)
      [] Type(b, p) = LINETYPE -> lwline_deserialize(b, p)
      [] Type(b, p) = CIRCSTRINGTYPE -> lwcircstring_deserialize(b, p)
      [] Type(b, p) = POLYGONTYPE -> lwpoly_deserialize(b, p)
      [] OTHER -> lwcollection_deserialize(b, p)

\* lwgeom_getpoint, lwgeom_getline and lwgeom_getpoly: subgeometry n if it is of
\* the type, of a geometry of that type, its multi or a collection.
GetOfType(b, n, type) ==
    LET at == lwgeom_getsubgeometry(b, n)
    IN  IF Type(b, 1) = type /\ n = 0 THEN lwgeom_deserialize(b, 1)
        ELSE IF Type(b, 1) \notin {MULTITYPE[type], COLLECTIONTYPE} \/ at = 0 THEN Failed
        ELSE IF Type(b, at) # type THEN Failed
        ELSE lwgeom_deserialize(b, at)

\* The _inspected forms, of circular strings too: whatever they are in.
GetOfTypeInspected(b, n, type) ==
    LET at == lwgeom_getsubgeometry(b, n)
    IN  IF at = 0 THEN Failed ELSE IF Type(b, at) # type THEN Failed ELSE lwgeom_deserialize(b, at)

\* The union of what can be computed: empty members are passed over.
RECURSIVE compute_serialized_box3d(_, _)
UnionOfParts(b, subs) == FoldSeq(BoxUnion, NoBox, [i \in DOMAIN subs |-> compute_serialized_box3d(b, subs[i])])
compute_serialized_box3d(b, p) ==
    IF Type(b, p) # POINTTYPE /\ b[AfterSRID(b, p)] = 0 THEN NoBox
    ELSE IF Type(b, p) \in Pointed \cup {POLYGONTYPE} THEN lwgeom_compute_box3d(lwgeom_deserialize(b, p))
    ELSE UnionOfParts(b, lwgeom_inspect(b, p))

getbox2d_p(b, p) ==
    IF lwgeom_hasBBOX(b[p]) THEN CachedBox(b, p) ELSE Box2d(compute_serialized_box3d(b, p))

-----------------------------------------------------------------------------
(* Building bytes of bytes. *)

lwgeom_constructempty(srid, z, m) ==
    <<lwgeom_makeType_full(z, m, srid # -1, COLLECTIONTYPE, FALSE)>>
      \o (IF srid = -1 THEN <<>> ELSE Cells(srid, 4)) \o Cells(0, 4)

\* It compares with 1 where everything else compares with -1.
lwgeom_empty_length(srid) == IF srid # 1 THEN 9 ELSE 5

\* The type that fits what was seen so far and one more.
Joined(type, this) ==
    CASE type = 0 -> this
      [] type = COLLECTIONTYPE \/ this \in Multis \cup {COLLECTIONTYPE} -> COLLECTIONTYPE
      [] this \in {POINTTYPE, LINETYPE, POLYGONTYPE} /\ type \in {this, MULTITYPE[this]} -> MULTITYPE[this]
      [] OTHER -> COLLECTIONTYPE

\* A single point or line becomes a multi; a single polygon stays what it is.
lwgeom_serialized_construct(srid, finalType, z, m, subs) ==
    LET seen == FoldLeft(Joined, 0, [i \in DOMAIN subs |-> Type(subs[i], 1)])
        type == IF finalType = COLLECTIONTYPE THEN COLLECTIONTYPE
                ELSE IF seen \in {POINTTYPE, LINETYPE} THEN MULTITYPE[seen]
                ELSE seen
    IN  IF subs = <<>> THEN lwgeom_constructempty(srid, z, m)
        ELSE <<lwgeom_makeType_full(z, m, srid # -1, type, FALSE)>>
               \o (IF srid = -1 THEN <<>> ELSE Cells(srid, 4))
               \o Cells(Len(subs), 4)
               \o FlattenSeq([i \in DOMAIN subs |-> SubSeq(subs[i], 1, lwgeom_size(subs[i], 1))])
=============================================================================
