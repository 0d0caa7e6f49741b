------------------------------ MODULE BoxIndex ------------------------------
(***************************************************************************)
(* Bounding boxes and the two indexes over them: the R-trees PostgreSQL's  *)
(* GiST builds with the support functions for geometries (BOX2DFLOAT4) and *)
(* geographies (GIDX), and the B-tree orders.                              *)
(*                                                                         *)
(* A box is a sequence of intervals, one per dimension: two for a geometry *)
(* and three for a geography.  Coordinates are integers; the last bit by   *)
(* which a box is widened when doubles become floats is left out.          *)
(*                                                                         *)
(* The functions keep nothing: a step hands them a full page and a query,  *)
(* or two keys, and invariants say what the answers are worth.             *)
(***************************************************************************)
EXTENDS Integers, FiniteSets, SequencesExt

CONSTANTS
    Eps,                \* EPSILON of geo_decls.h, in units of the model's coordinates
    EmptyBox,           \* the box of an empty geometry
    Boxes,              \* boxes of geometries a B-tree compares
    Queries, Pages,     \* boxes an index is asked for, and full pages of boxes
    GidxBoxes,          \* the same of geographies
    GidxPages

Interval == {i \in [lo : Int, hi : Int] : i.lo <= i.hi}
BoxOf(n) == [1..n -> Interval]
PagesOf(n) == {page \in Seq(BoxOf(n)) : Len(page) >= 2}

\* A page is split when it is full, of two entries at least.  BOX2DFLOAT4 and
\* GIDX are made with their ends in order.
ASSUME BoxesAssumption ==
    /\ Eps \in Nat
    /\ Boxes \subseteq BoxOf(2) /\ Queries \subseteq BoxOf(2) \cup {EmptyBox} /\ GidxBoxes \subseteq BoxOf(3)
    /\ Pages \subseteq PagesOf(2) /\ GidxPages \subseteq PagesOf(3)

Dims(b)       == DOMAIN b
Lesser(x, y)  == IF x < y THEN x ELSE y
Greater(x, y) == IF x < y THEN y ELSE x

\* The fuzzy comparisons of geo_decls.h.
FPeq(x, y) == x - y <= Eps /\ y - x <= Eps
FPlt(x, y) == y - x > Eps
FPle(x, y) == x - y <= Eps

\* (Appending to the empty sequence makes TLC compute the box at once.)
Union(a, b)    == <<>> \o [d \in Dims(a) |-> [lo |-> Lesser(a[d].lo, b[d].lo), hi |-> Greater(a[d].hi, b[d].hi)]]
Inter(a, b)    == <<>> \o [d \in Dims(a) |-> [lo |-> Greater(a[d].lo, b[d].lo), hi |-> Lesser(a[d].hi, b[d].hi)]]
Volume(b)      == FoldLeft(LAMBDA n, i : n * (i.hi - i.lo), 1, b)
UnionsOf(boxes) ==
    LET page[n \in 1..Len(boxes)] == IF n = 1 THEN boxes[1] ELSE Union(page[n - 1], boxes[n])
    IN  page
UnionOf(boxes) == UnionsOf(boxes)[Len(boxes)]

\* size_box2d: nothing for a box without extent, or none at all.
Area(b) == IF \E d \in Dims(b) : b[d].hi <= b[d].lo THEN 0 ELSE Volume(b)

-----------------------------------------------------------------------------
(* Geometries: x is dimension 1, y dimension 2. *)

Shared(i, j) == \/ FPle(j.hi, i.hi) /\ FPle(i.lo, j.hi)
                \/ FPle(i.hi, j.hi) /\ FPle(j.lo, i.hi)

BoxTest(op, a, b) ==
    CASE op = "left"      -> FPlt(a[1].hi, b[1].lo)
      [] op = "overleft"  -> FPle(a[1].hi, b[1].hi)
      [] op = "right"     -> FPlt(b[1].hi, a[1].lo)
      [] op = "overright" -> FPle(b[1].lo, a[1].lo)
      [] op = "below"     -> FPlt(a[2].hi, b[2].lo)
      [] op = "overbelow" -> FPle(a[2].hi, b[2].hi)
      [] op = "above"     -> FPlt(b[2].hi, a[2].lo)
      [] op = "overabove" -> FPle(b[2].lo, a[2].lo)
      [] op = "overlap"   -> \A d \in Dims(a) : Shared(a[d], b[d])
      [] op = "contain"   -> \A d \in Dims(a) : FPle(b[d].hi, a[d].hi) /\ FPle(a[d].lo, b[d].lo)
      [] op = "contained" -> \A d \in Dims(a) : FPle(a[d].hi, b[d].hi) /\ FPle(b[d].lo, a[d].lo)
      [] op = "same"      -> \A d \in Dims(a) : FPeq(a[d].hi, b[d].hi) /\ FPeq(a[d].lo, b[d].lo)

\* The SQL operator on two geometries [srid, box].
Operator(op, g, h) ==
    IF g.srid # h.srid THEN "error"
    ELSE g.box # EmptyBox /\ h.box # EmptyBox /\ BoxTest(op, g.box, h.box)

\* "optimized for speed": overlap compares exactly.
Meets(i, j) == (j.hi <= i.hi /\ i.lo <= j.hi) \/ (i.hi <= j.hi /\ j.lo <= i.hi)

LeafConsistent(op, key, query) ==
    IF op = "overlap" THEN \A d \in Dims(key) : Meets(key[d], query[d])
    ELSE BoxTest(op, key, query)

\* Mutant of InternalConsistent: a page is tested the way an entry is.
InternalAsLeaf(op, key, query) == LeafConsistent(op, key, query)

InternalConsistent(op, key, query) ==
    CASE op = "left"      -> ~BoxTest("overright", key, query)
      [] op = "overleft"  -> ~BoxTest("right", key, query)
      [] op = "overright" -> ~BoxTest("left", key, query)
      [] op = "right"     -> ~BoxTest("overleft", key, query)
      [] op = "overbelow" -> ~BoxTest("above", key, query)
      [] op = "below"     -> ~BoxTest("overabove", key, query)
      [] op = "above"     -> ~BoxTest("overbelow", key, query)
      [] op = "overabove" -> ~BoxTest("below", key, query)
      [] op = "overlap"   -> LeafConsistent("overlap", key, query)
      [] op \in {"same", "contain"} -> BoxTest("contain", key, query)
      [] op = "contained" -> BoxTest("overlap", key, query)

Consistent(op, leaf, key, query) ==
    query # EmptyBox /\ IF leaf THEN LeafConsistent(op, key, query) ELSE InternalConsistent(op, key, query)

\* What the entry of a leaf page says of a geometry: its box, but an empty one
\* goes in as it came.
Compress(g) == g.box

Penalty(key, new) == Area(Union(key, new)) - Area(key)

-----------------------------------------------------------------------------
(* Splitting a page: boxes[i] is the key of its entry i. *)

NoSide == [list |-> <<>>, box |-> EmptyBox]

\* Mutant of AddList: the side keeps the box of its first entry.
AddListUnmerged(side, b, i) ==
    [list |-> Append(side.list, i), box |-> IF side.list = <<>> THEN b ELSE side.box]

AddList(side, b, i) ==
    [list |-> Append(side.list, i), box |-> IF side.list = <<>> THEN b ELSE Union(side.box, b)]

\* Where an entry belongs: on the lower side, the higher, or the one with fewer.
GoesLow(h, at) == at = "lo" \/ (at = "fewer" /\ Len(h.lo.list) <= Len(h.hi.list))

Added(h, boxes, at, i) ==
    IF GoesLow(h, at[i]) THEN [h EXCEPT !.lo = AddList(@, boxes[i], i)]
    ELSE [h EXCEPT !.hi = AddList(@, boxes[i], i)]

\* Each entry in turn joins the side where it belongs.
HalvesUpTo(boxes, order, at) ==
    LET halves[n \in 0..Len(order)] ==
          IF n = 0 THEN [lo |-> NoSide, hi |-> NoSide] ELSE Added(halves[n - 1], boxes, at, order[n])
    IN  halves
Distribute(boxes, order, at) == HalvesUpTo(boxes, order, at)[Len(order)]

\* The entries nearer the page's lower side and the others; if even, an entry
\* as near to both joins the side with fewer.
Nearer(boxes, page, d, even) ==
    [i \in DOMAIN boxes |->
        LET low  == boxes[i][d].lo - page[d].lo
            high == page[d].hi - boxes[i][d].hi
        IN  IF low < high THEN "lo" ELSE IF even /\ low = high THEN "fewer" ELSE "hi"]
Halves(boxes, order, page, d, even) == Distribute(boxes, order, Nearer(boxes, page, d, even))

Offsets(boxes)  == [i \in DOMAIN boxes |-> i]
OneSided(h)     == h.lo.list = <<>> \/ h.hi.list = <<>>
Largest(h)      == Greater(Len(h.lo.list), Len(h.hi.list))
AllEqual(boxes) == \A i \in DOMAIN boxes : boxes[i] = boxes[1]

Cut(boxes) ==
    Distribute(boxes, Offsets(boxes), [i \in DOMAIN boxes |-> IF i <= Len(boxes) \div 2 THEN "lo" ELSE "hi"])

\* qsort by size leaves entries of one size in any order.
BySize(boxes) ==
    {o \in [DOMAIN boxes -> DOMAIN boxes] :
        /\ \A i, j \in DOMAIN o : i # j => o[i] # o[j]
        /\ \A i \in 1..Len(boxes) - 1 : Volume(boxes[o[i]]) <= Volume(boxes[o[i + 1]])}

Common(x) == IF OneSided(x) THEN 0 ELSE Area(Inter(x.lo.box, x.hi.box))

MoreEven(x, y) ==
    IF Largest(x) # Largest(y) THEN Largest(x) < Largest(y)
    ELSE Common(x) < Common(y)

\* Mutant of BadDisposition: a page is never split a second time.
NeverBad(h) == FALSE

\* All entries on one side, whichever the direction.
BadDisposition(h) == OneSided(h[1]) /\ OneSided(h[2])

\* The splits LWGEOM_gist_picksplit may return.
PickSplit(boxes) ==
    LET page     == UnionOf(boxes)
        split(o, even) == [d \in 1..2 |-> Halves(boxes, o, page, d, even)]
        first    == split(Offsets(boxes), FALSE)
        better(h) == IF MoreEven(h[1], h[2]) THEN h[1] ELSE h[2]
    IN  IF AllEqual(boxes) THEN {Cut(boxes)}
        ELSE IF BadDisposition(first)
        THEN {better(split(o, TRUE)) : o \in BySize(boxes)}
        ELSE {better(first)}

-----------------------------------------------------------------------------
(* Geographies: boxes of the three geocentric dimensions. *)

GidxOverlaps(a, b) == \A d \in Dims(a) : a[d].lo <= b[d].hi /\ b[d].lo <= a[d].hi
GidxContains(a, b) == \A d \in Dims(a) : a[d].lo <= b[d].lo /\ b[d].hi <= a[d].hi

GidxLeaf(op, key, query) ==
    CASE op = "overlap"   -> GidxOverlaps(key, query)
      [] op = "same"      -> key = query
      [] op = "contain"   -> GidxContains(key, query)
      [] op = "contained" -> GidxContains(query, key)

\* Mutant of GidxInternal: a page is searched for boxes in the query only if it
\* lies in the query.
GidxInternalStrict(op, key, query) == op \in {"overlap", "same", "contain", "contained"} /\ GidxLeaf(op, key, query)

GidxInternal(op, key, query) ==
    IF op \in {"same", "contain"} THEN GidxContains(key, query) ELSE GidxOverlaps(key, query)

\* An interval with its ends swapped is put right.
GidxCompress(b) == [d \in Dims(b) |-> [lo |-> Lesser(b[d].lo, b[d].hi), hi |-> Greater(b[d].lo, b[d].hi)]]

\* Change in volume, and the volume two boxes share.
GidxPenalty(key, new) == Volume(Union(key, new)) - Volume(key)
GidxInter(a, b)       == IF GidxOverlaps(a, b) THEN Volume(Inter(a, b)) ELSE 0

\* LIMIT_RATIO is a tenth.
BadRatio(h) == \/ OneSided(h)
               \/ 10 * Len(h.lo.list) < Len(h.hi.list) \/ 10 * Len(h.hi.list) < Len(h.lo.list)

\* Entries by the side of the average centre they lie on; centre times two here.
Sums(boxes, d) ==
    LET sum[i \in 0..Len(boxes)] == IF i = 0 THEN 0 ELSE sum[i - 1] + boxes[i][d].lo + boxes[i][d].hi
    IN  sum
ByCentre(boxes, d) ==
    LET n      == Len(boxes)
        total  == Sums(boxes, d)[n]
        off(i) == n * (boxes[i][d].lo + boxes[i][d].hi) - total
    IN  [i \in DOMAIN boxes |-> IF off(i) < 0 THEN "lo" ELSE IF off(i) <= 2 * n * Eps THEN "fewer" ELSE "hi"]
HalvesByCentre(boxes, d) == Distribute(boxes, Offsets(boxes), ByCentre(boxes, d))

\* left and right may hold the boxes of an outer split of a multicolumn index,
\* or EmptyBox: an existing one picks the half that goes its way and is merged in.
\* The box of an empty half is uninitialized memory, so either may be picked.
Merged(half, old) == IF old = EmptyBox \/ half.list = <<>> THEN half ELSE [half EXCEPT !.box = Union(@, old)]

ConstructSplit(h, left, right) ==
    LET kept == [lo |-> Merged(h.lo, left), hi |-> Merged(h.hi, right)]
        swap == [lo |-> Merged(h.hi, left), hi |-> Merged(h.lo, right)]
        p(x) == GidxPenalty(IF left # EmptyBox THEN left ELSE right, x.box)
    IN  CASE left = EmptyBox /\ right = EmptyBox -> {kept}
          [] OneSided(h) /\ ~(left = EmptyBox /\ right = EmptyBox) -> {kept, swap}
          [] ~OneSided(h) /\ left # EmptyBox /\ right # EmptyBox ->
                {IF GidxInter(kept.lo.box, kept.hi.box) <= GidxInter(swap.lo.box, swap.hi.box)
                 THEN kept ELSE swap}
          [] ~OneSided(h) /\ left # EmptyBox /\ right = EmptyBox -> {IF p(h.lo) <= p(h.hi) THEN kept ELSE swap}
          [] ~OneSided(h) /\ left = EmptyBox /\ right # EmptyBox -> {IF p(h.hi) <= p(h.lo) THEN kept ELSE swap}

\* The direction taken is the first whose larger half is largest.
Direction(halves) ==
    CHOOSE d \in Dims(halves) :
        /\ \A e \in Dims(halves) : Largest(halves[e]) <= Largest(halves[d])
        /\ \A e \in 1..d - 1 : Largest(halves[e]) < Largest(halves[d])

\* The splits geography_gist_picksplit may return.
GidxPickSplit(boxes, left, right) ==
    LET page   == UnionOf(boxes)
        first  == [d \in 1..3 |-> Halves(boxes, Offsets(boxes), page, d, FALSE)]
        second == [d \in 1..3 |-> HalvesByCentre(boxes, d)]
        all(h) == \A d \in 1..3 : BadRatio(h[d])
        built(h) == ConstructSplit(h[Direction(h)], left, right)
        cut    == [lo |-> Merged(Cut(boxes).lo, left), hi |-> Merged(Cut(boxes).hi, right)]
    IN  IF AllEqual(boxes) THEN {cut}
        ELSE IF ~all(first) THEN built(first)
        ELSE IF ~all(second) THEN built(second) ELSE {cut}

-----------------------------------------------------------------------------
(* The B-tree orders: corners of geometries, and twice the centres of      *)
(* geographies.                                                            *)

Corners(b) == <<b[1].lo, b[2].lo, b[1].hi, b[2].hi>>
Centre(b)  == [d \in Dims(b) |-> b[d].lo + b[d].hi]

Differ(p, q)  == {i \in DOMAIN p : ~FPeq(p[i], q[i])}
FirstOf(S)    == CHOOSE i \in S : \A j \in S : i <= j

Compare(g, h) ==
    LET p == Corners(g)
        q == Corners(h)
    IN  IF Differ(p, q) = {} THEN 0
        ELSE IF p[FirstOf(Differ(p, q))] < q[FirstOf(Differ(p, q))] THEN -1 ELSE 1

\* Mutant of LessOrEqual: it goes on to the next corner, as Less does.
LessOrEqualAnyCorner(g, h) ==
    LET D == Differ(Corners(g), Corners(h))
    IN  D = {} \/ \E i \in D : Corners(g)[i] < Corners(h)[i]

LessOrEqual(g, h) ==
    LET D == Differ(Corners(g), Corners(h))
    IN  D = {} \/ Corners(g)[FirstOf(D)] < Corners(h)[FirstOf(D)]

GreaterOrEqual(g, h) ==
    LET D == Differ(Corners(g), Corners(h))
    IN  D = {} \/ Corners(g)[FirstOf(D)] > Corners(h)[FirstOf(D)]

Equal(g, h) == Differ(Corners(g), Corners(h)) = {}

\* These two go on to the next corner when one is greater, or less.
Less(g, h)  == \E i \in Differ(Corners(g), Corners(h)) : Corners(g)[i] < Corners(h)[i]
More(g, h)  == \E i \in Differ(Corners(g), Corners(h)) : Corners(g)[i] > Corners(h)[i]

GeogLess(a, b)    == \E d \in 1..3 : Centre(a)[d] < Centre(b)[d]
GeogAtMost(a, b)  == \E d \in 1..3 : Centre(a)[d] <= Centre(b)[d]
GeogMore(a, b)    == \A d \in 1..3 : Centre(a)[d] > Centre(b)[d]
GeogAtLeast(a, b) == \A d \in 1..3 : Centre(a)[d] >= Centre(b)[d]
GeogEqual(a, b)   == \A d \in 1..3 : FPeq(Centre(a)[d], Centre(b)[d])
GeogCompare(a, b) == IF GeogMore(a, b) THEN 1 ELSE IF GeogEqual(a, b) THEN 0 ELSE -1

-----------------------------------------------------------------------------
(* An index at work. *)

VARIABLE input     \* what was handed over, by kind

Wanted(w) == input = [kind |-> "none", wants |-> w]

IndexInit == Wanted("index")

\* A page of an index is full and is split, and a query descends the index.
SplitPage ==
    /\ Wanted("index")
    /\ \E p \in Pages, q \in Queries : input' = [kind |-> "page", page |-> p, query |-> q]
SplitGidxPage ==
    /\ Wanted("index")
    /\ \E p \in GidxPages, q \in GidxBoxes : input' = [kind |-> "gidx page", page |-> p, query |-> q]

\* A B-tree compares two keys.
CompareKeys ==
    /\ Wanted("index")
    /\ \E a, b \in Boxes : input' = [kind |-> "keys", a |-> a, b |-> b]
CompareGidxKeys ==
    /\ Wanted("index")
    /\ \E a, b \in GidxBoxes : input' = [kind |-> "gidx keys", a |-> a, b |-> b]

IndexNext == SplitPage \/ SplitGidxPage \/ CompareKeys \/ CompareGidxKeys

IndexSpec == IndexInit /\ [][IndexNext]_input

-----------------------------------------------------------------------------
(* What the answers are worth. *)

Sides(split) == {s \in {split.lo, split.hi} : s.list # <<>>}

GeomOps == {"left", "overleft", "right", "overright", "below", "overbelow", "above",
            "overabove", "overlap", "contain", "contained", "same"}
GidxOps == {"overlap", "contain", "contained", "same"}

\* An entry that answers the query is on a side of the split, and that side's
\* box sends the search there.
SearchesArrive ==
    /\ input.kind = "page" =>
         \A s \in PickSplit(input.page), i \in DOMAIN input.page, op \in GeomOps :
            Consistent(op, TRUE, input.page[i], input.query) =>
              \E x \in Sides(s) : i \in ToSet(x.list) /\ Consistent(op, FALSE, x.box, input.query)
    /\ input.kind = "gidx page" =>
         \A s \in GidxPickSplit(input.page, EmptyBox, EmptyBox), i \in DOMAIN input.page, op \in GidxOps :
            GidxLeaf(op, input.page[i], input.query) =>
              \E x \in Sides(s) : i \in ToSet(x.list) /\ GidxInternal(op, x.box, input.query)

\* A split puts each entry on one side, and, for geometries, leaves neither
\* side empty: a page that keeps all its entries would be split for ever.
SplitsArePartitions ==
    /\ input.kind = "page" =>
         \A s \in PickSplit(input.page) :
            /\ ~OneSided(s)
            /\ Len(s.lo.list) + Len(s.hi.list) = Len(input.page)
            /\ ToSet(s.lo.list) \cup ToSet(s.hi.list) = DOMAIN input.page
    /\ input.kind = "gidx page" =>
         \A s \in GidxPickSplit(input.page, EmptyBox, EmptyBox) :
            /\ Len(s.lo.list) + Len(s.hi.list) = Len(input.page)
            /\ ToSet(s.lo.list) \cup ToSet(s.hi.list) = DOMAIN input.page

\* Both: an index keeps what it is given, and finds it whichever split is taken.
IndexFinds == SearchesArrive /\ SplitsArePartitions

\* The comparisons of a B-tree agree with the order it sorts by.
BTreeAgrees ==
    input.kind = "keys" =>
       LET c == Compare(input.a, input.b)
       IN  /\ LessOrEqual(input.a, input.b) <=> c <= 0
           /\ GreaterOrEqual(input.a, input.b) <=> c >= 0
           /\ Equal(input.a, input.b) <=> c = 0
           /\ c = -Compare(input.b, input.a)
=============================================================================
