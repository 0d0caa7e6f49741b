--------------------------- MODULE BackendProofs ---------------------------
(***************************************************************************)
(* Theorems about a backend: about the indexes it keeps, for all pages of  *)
(* boxes and all queries; and about its two caches, for every set of       *)
(* SRIDs, every size of the cache of projections from two items on, every  *)
(* set of geometries and every bound on contexts.                          *)
(***************************************************************************)
EXTENDS Backend, BoxIndex, SequenceTheorems, FiniteSetTheorems, WellFoundedInduction, TLAPS

-----------------------------------------------------------------------------
(* Induction, on a set of numbers. *)

LEMMA LeastOf ==
    ASSUME NEW T, T \subseteq Nat, T # {}
    PROVE  \E x \in T : \A y \in T : x <= y
<1> DEFINE R == OpToRel(<, Nat)
<1>1. IsWellFoundedOn(R, Nat)
  BY NatLessThanWellFounded
<1>2. \A x, y \in Nat : y < x => <<y, x>> \in R
  BY DEF OpToRel
<1> HIDE DEF R
<1>3. PICK x \in T : \A y \in T : <<y, x>> \notin R
  BY <1>1, WFMin
<1>4. ASSUME NEW y \in T PROVE x <= y
  <2>1. x \in Nat /\ y \in Nat
    OBVIOUS
  <2>2. <<y, x>> \notin R
    BY <1>3
  <2>3. ~(y < x)
    BY <1>2, <2>1, <2>2
  <2>4. QED
    BY <2>1, <2>3
<1>5. QED
  BY <1>4

LEMMA Ascending ==
    ASSUME NEW lo \in Nat, NEW T, lo \in T, \A n \in Nat : n >= lo /\ n \in T => n + 1 \in T
    PROVE  \A n \in Nat : n >= lo => n \in T
<1> SUFFICES ASSUME NEW m \in Nat, m >= lo, m \notin T PROVE FALSE
  OBVIOUS
<1> DEFINE U == {n \in Nat : n >= lo /\ n \notin T}
<1>1. PICK x \in U : \A y \in U : x <= y
  <2>1. U \subseteq Nat /\ U # {}
    OBVIOUS
  <2>2. QED
    BY <2>1, LeastOf
<1>2. x \in Nat /\ x >= lo /\ x \notin T
  OBVIOUS
<1>3. x # lo /\ x - 1 \in Nat /\ x - 1 >= lo
  BY <1>2
<1>4. x - 1 \in T
  <2>1. x - 1 \in U => x <= x - 1
    BY <1>1
  <2>2. QED
    BY <1>2, <1>3, <2>1
<1>5. (x - 1) + 1 \in T
  BY <1>3, <1>4
<1>6. QED
  BY <1>2, <1>5

-----------------------------------------------------------------------------
(* Boxes. *)

Covers(b, c) == \A d \in DOMAIN c : b[d].lo <= c[d].lo /\ c[d].hi <= b[d].hi

\* A union covers both.
LEMMA UnionFacts ==
    ASSUME NEW n \in Nat, NEW a \in BoxOf(n), NEW b \in BoxOf(n)
    PROVE  /\ Union(a, b) \in BoxOf(n)
           /\ \A d \in 1..n : Union(a, b)[d].lo = Lesser(a[d].lo, b[d].lo) /\ Union(a, b)[d].hi = Greater(a[d].hi, b[d].hi)
           /\ Covers(Union(a, b), a) /\ Covers(Union(a, b), b)
<1> DEFINE u == [d \in 1..n |-> [lo |-> Lesser(a[d].lo, b[d].lo), hi |-> Greater(a[d].hi, b[d].hi)]]
<1>1. DOMAIN a = 1..n /\ DOMAIN b = 1..n /\ \A d \in 1..n : a[d] \in Interval /\ b[d] \in Interval
  BY DEF BoxOf
<1>2. \A d \in 1..n : u[d] \in Interval /\ u[d].lo <= a[d].lo /\ u[d].lo <= b[d].lo /\ a[d].hi <= u[d].hi /\ b[d].hi <= u[d].hi
  BY <1>1 DEF Interval, Lesser, Greater
<1>3. u \in Seq(Interval)
  BY <1>2
<1>4. <<>> \o u = u
  BY <1>3, ConcatEmptySeq
<1>5. Union(a, b) = u
  BY <1>1, <1>4 DEF Union, Dims
<1>6. u \in BoxOf(n)
  BY <1>2 DEF BoxOf
<1>7. \A d \in 1..n : u[d].lo = Lesser(a[d].lo, b[d].lo) /\ u[d].hi = Greater(a[d].hi, b[d].hi)
  OBVIOUS
<1>8. Covers(u, a) /\ Covers(u, b)
  BY <1>1, <1>2 DEF Covers
<1> HIDE DEF u
<1>9. QED
  BY <1>5, <1>6, <1>7, <1>8

LEMMA CoversTransitive ==
    ASSUME NEW n \in Nat, NEW a \in BoxOf(n), NEW b \in BoxOf(n), NEW c \in BoxOf(n), Covers(a, b), Covers(b, c)
    PROVE  Covers(a, c)
<1>1. DOMAIN a = 1..n /\ DOMAIN b = 1..n /\ DOMAIN c = 1..n
      /\ \A d \in 1..n : a[d] \in Interval /\ b[d] \in Interval /\ c[d] \in Interval
  BY DEF BoxOf
<1>2. QED
  BY <1>1 DEF Covers, Interval

\* The box of a page: it covers every entry, and some entry reaches each end.
LEMMA UnionsDefined ==
    ASSUME NEW n \in Nat, NEW boxes \in Seq(BoxOf(n)), Len(boxes) > 0
    PROVE  UnionsOf(boxes) = [k \in 1..Len(boxes) |-> IF k = 1 THEN boxes[1] ELSE Union(UnionsOf(boxes)[k - 1], boxes[k])]
<1> DEFINE Good(g, m) == g = [k \in 1..m |-> IF k = 1 THEN boxes[1] ELSE Union(g[k - 1], boxes[k])]
           T == {m \in Nat : \E g : Good(g, m)}
<1>1. 1 \in T
  <2> DEFINE g == [k \in 1..1 |-> boxes[1]]
  <2>1. Good(g, 1)
    OBVIOUS
  <2>2. QED
    BY <2>1
<1>2. ASSUME NEW m \in Nat, m >= 1, m \in T PROVE m + 1 \in T
  <2>1. PICK g : Good(g, m)
    BY <1>2
  <2> DEFINE h == [k \in 1..m + 1 |-> IF k = m + 1 THEN Union(g[m], boxes[m + 1]) ELSE g[k]]
  <2>2. ASSUME NEW k \in 1..m + 1 PROVE h[k] = IF k = 1 THEN boxes[1] ELSE Union(h[k - 1], boxes[k])
    <3>1. CASE k = m + 1
      <4>1. k - 1 = m /\ k - 1 \in 1..m + 1 /\ k - 1 # m + 1 /\ k # 1
        BY <1>2, <3>1
      <4>2. h[k - 1] = g[m]
        BY <4>1
      <4>3. h[k] = Union(g[m], boxes[k])
        BY <3>1
      <4>4. QED
        BY <4>1, <4>2, <4>3
    <3>2. CASE k # m + 1
      <4>1. k \in 1..m /\ (k # 1 => k - 1 \in 1..m + 1 /\ k - 1 # m + 1)
        BY <3>2
      <4>2. g[k] = IF k = 1 THEN boxes[1] ELSE Union(g[k - 1], boxes[k])
        BY <2>1, <4>1
      <4>3. h[k] = g[k] /\ (k # 1 => h[k - 1] = g[k - 1])
        BY <3>2, <4>1
      <4>4. QED
        BY <4>2, <4>3
    <3>3. QED
      BY <3>1, <3>2
  <2>3. Good(h, m + 1)
    <3>1. h = [k \in 1..m + 1 |-> h[k]]
      OBVIOUS
    <3> HIDE DEF h
    <3>2. QED
      BY <2>2, <3>1
  <2> HIDE DEF h, Good
  <2>4. QED
    BY <2>3
<1> HIDE DEF Good
<1>3. Len(boxes) \in T
  <2>1. \A m \in Nat : m >= 1 => m \in T
    <3> HIDE DEF T
    <3>1. QED
      BY <1>1, <1>2, Ascending
  <2>2. QED
    BY <2>1
<1>4. \E g : Good(g, Len(boxes))
  BY <1>3
<1>5. QED
  BY <1>4 DEF UnionsOf, Good

\* The box of the first m entries.
PageBox(boxes, n, m, b) ==
    /\ b \in BoxOf(n)
    /\ \A k \in 1..m : Covers(b, boxes[k])
    /\ \A d \in 1..n : (\E k \in 1..m : boxes[k][d].lo = b[d].lo) /\ (\E k \in 1..m : boxes[k][d].hi = b[d].hi)

LEMMA UnionOfFacts ==
    ASSUME NEW n \in Nat, NEW boxes \in Seq(BoxOf(n)), Len(boxes) > 0
    PROVE  PageBox(boxes, n, Len(boxes), UnionOf(boxes))
<1> DEFINE u == UnionsOf(boxes)
           T == {m \in Nat : m <= Len(boxes) => PageBox(boxes, n, m, u[m])}
<1>0. \A k \in 1..Len(boxes) : u[k] = IF k = 1 THEN boxes[1] ELSE Union(u[k - 1], boxes[k])
  BY UnionsDefined
<1>a. \A k \in 1..Len(boxes) : /\ boxes[k] \in BoxOf(n) /\ DOMAIN boxes[k] = 1..n
                               /\ \A d \in 1..n : boxes[k][d] \in Interval
  BY DEF BoxOf
<1> HIDE DEF u
<1>1. 1 \in T
  <2>1. 1 \in 1..Len(boxes) /\ u[1] = boxes[1]
    BY <1>0
  <2>2. Covers(boxes[1], boxes[1])
    BY <1>a, <2>1 DEF Covers, Interval
  <2>3. QED
    BY <1>a, <2>1, <2>2 DEF PageBox
<1>2. ASSUME NEW m \in Nat, m >= 1, m \in T PROVE m + 1 \in T
  <2> SUFFICES ASSUME m + 1 <= Len(boxes) PROVE PageBox(boxes, n, m + 1, u[m + 1])
    OBVIOUS
  <2>1. PageBox(boxes, n, m, u[m]) /\ m + 1 \in 1..Len(boxes) /\ m \in 1..Len(boxes)
    BY <1>2
  <2>2. u[m + 1] = Union(u[m], boxes[m + 1])
    <3>1. (m + 1) - 1 = m /\ m + 1 # 1
      BY <1>2
    <3>2. QED
      BY <1>0, <2>1, <3>1
  <2> DEFINE b == u[m]
             c == boxes[m + 1]
             w == u[m + 1]
  <2>3. b \in BoxOf(n) /\ c \in BoxOf(n) /\ DOMAIN b = 1..n /\ \A d \in 1..n : b[d] \in Interval /\ c[d] \in Interval
    BY <1>a, <2>1 DEF PageBox, BoxOf
  <2>4. /\ w \in BoxOf(n) /\ Covers(w, b) /\ Covers(w, c)
        /\ \A d \in 1..n : w[d].lo = Lesser(b[d].lo, c[d].lo) /\ w[d].hi = Greater(b[d].hi, c[d].hi)
    BY <2>2, <2>3, UnionFacts
  <2>5. ASSUME NEW k \in 1..m + 1 PROVE Covers(w, boxes[k])
    <3>1. CASE k = m + 1
      BY <2>4, <3>1
    <3>2. CASE k # m + 1
      <4>1. k \in 1..m /\ k \in 1..Len(boxes)
        BY <2>1, <3>2
      <4>2. Covers(b, boxes[k]) /\ boxes[k] \in BoxOf(n)
        BY <1>a, <2>1, <4>1 DEF PageBox
      <4>3. QED
        BY <2>3, <2>4, <4>2, CoversTransitive
    <3>3. QED
      BY <3>1, <3>2
  <2>6. ASSUME NEW d \in 1..n
        PROVE  (\E k \in 1..m + 1 : boxes[k][d].lo = w[d].lo) /\ (\E k \in 1..m + 1 : boxes[k][d].hi = w[d].hi)
    <3>1. (w[d].lo = b[d].lo \/ w[d].lo = c[d].lo) /\ (w[d].hi = b[d].hi \/ w[d].hi = c[d].hi)
      BY <2>4 DEF Lesser, Greater
    <3>2. PICK k \in 1..m : boxes[k][d].lo = b[d].lo
      BY <2>1 DEF PageBox
    <3>3. PICK j \in 1..m : boxes[j][d].hi = b[d].hi
      BY <2>1 DEF PageBox
    <3>4. k \in 1..m + 1 /\ j \in 1..m + 1 /\ m + 1 \in 1..m + 1
      BY <2>1
    <3>5. QED
      BY <3>1, <3>2, <3>3, <3>4
  <2>7. QED
    BY <2>4, <2>5, <2>6 DEF PageBox
<1>3. Len(boxes) \in T
  <2>1. \A m \in Nat : m >= 1 => m \in T
    <3> HIDE DEF T
    <3>1. QED
      BY <1>1, <1>2, Ascending
  <2>2. QED
    BY <2>1
<1>4. QED
  BY <1>3 DEF u, UnionOf

-----------------------------------------------------------------------------
(* The two sides of a split. *)

LEMMA HalvesDefined ==
    ASSUME NEW boxes, NEW order, Len(order) \in Nat, NEW at
    PROVE  HalvesUpTo(boxes, order, at) =
             [k \in 0..Len(order) |-> IF k = 0 THEN [lo |-> NoSide, hi |-> NoSide]
                                      ELSE Added(HalvesUpTo(boxes, order, at)[k - 1], boxes, at, order[k])]
<1> DEFINE none == [lo |-> NoSide, hi |-> NoSide]
           Good(g, m) == g = [k \in 0..m |-> IF k = 0 THEN none ELSE Added(g[k - 1], boxes, at, order[k])]
           T == {m \in Nat : \E g : Good(g, m)}
<1> HIDE DEF none
<1>1. 0 \in T
  <2> DEFINE g == [k \in 0..0 |-> none]
  <2>1. Good(g, 0)
    OBVIOUS
  <2>2. QED
    BY <2>1
<1>2. ASSUME NEW m \in Nat, m >= 0, m \in T PROVE m + 1 \in T
  <2>1. PICK g : Good(g, m)
    BY <1>2
  <2> DEFINE h == [k \in 0..m + 1 |-> IF k = m + 1 THEN Added(g[m], boxes, at, order[m + 1]) ELSE g[k]]
  <2>2. ASSUME NEW k \in 0..m + 1 PROVE h[k] = IF k = 0 THEN none ELSE Added(h[k - 1], boxes, at, order[k])
    <3>1. CASE k = m + 1
      <4>1. k - 1 = m /\ k - 1 \in 0..m + 1 /\ k - 1 # m + 1 /\ k # 0
        BY <1>2, <3>1
      <4>2. h[k - 1] = g[m]
        BY <4>1
      <4>3. h[k] = Added(g[m], boxes, at, order[k])
        BY <3>1
      <4>4. QED
        BY <4>1, <4>2, <4>3
    <3>2. CASE k # m + 1
      <4>1. k \in 0..m /\ (k # 0 => k - 1 \in 0..m + 1 /\ k - 1 # m + 1)
        BY <3>2
      <4>2. g[k] = IF k = 0 THEN none ELSE Added(g[k - 1], boxes, at, order[k])
        BY <2>1, <4>1
      <4>3. h[k] = g[k] /\ (k # 0 => h[k - 1] = g[k - 1])
        BY <3>2, <4>1
      <4>4. QED
        BY <4>2, <4>3
    <3>3. QED
      BY <3>1, <3>2
  <2>3. Good(h, m + 1)
    <3>1. h = [k \in 0..m + 1 |-> h[k]]
      OBVIOUS
    <3> HIDE DEF h
    <3>2. QED
      BY <2>2, <3>1
  <2> HIDE DEF h, Good
  <2>4. QED
    BY <2>3
<1> HIDE DEF Good
<1>3. Len(order) \in T
  <2>1. \A m \in Nat : m >= 0 => m \in T
    <3> HIDE DEF T
    <3>1. QED
      BY <1>1, <1>2, Ascending
  <2>2. QED
    BY <2>1
<1>4. \E g : Good(g, Len(order))
  BY <1>3
<1>5. QED
  BY <1>4 DEF HalvesUpTo, Good, none

\* A side of the entries 1..m of an order: its list, and a box that covers them.
Listed(s) == {s.list[k] : k \in 1..Len(s.list)}

SideOK(s, boxes, n) ==
    /\ s = [list |-> s.list, box |-> s.box] /\ s.list \in Seq(1..Len(boxes))
    /\ s.list # <<>> => s.box \in BoxOf(n) /\ \A i \in Listed(s) : Covers(s.box, boxes[i])

\* What the first m entries of the order have become.  Entries that belong on a
\* side are there; with none that belongs low the lower side is ahead by one at
\* most.
SplitOK(h, boxes, n, order, at, m) ==
    /\ h = [lo |-> h.lo, hi |-> h.hi] /\ SideOK(h.lo, boxes, n) /\ SideOK(h.hi, boxes, n)
    /\ Len(h.lo.list) + Len(h.hi.list) = m
    /\ Listed(h.lo) \cup Listed(h.hi) = {order[k] : k \in 1..m}
    /\ (\E k \in 1..m : at[order[k]] # "hi") => Len(h.lo.list) > 0
    /\ (\E k \in 1..m : at[order[k]] = "hi") => Len(h.hi.list) > 0
    /\ (\A k \in 1..m : at[order[k]] # "lo") => Len(h.lo.list) <= Len(h.hi.list) + 1

\* t is the side s with entry i.
Joins(t, s, boxes, n, i) ==
    /\ SideOK(t, boxes, n)
    /\ Len(t.list) = Len(s.list) + 1 /\ Len(s.list) \in Nat
    /\ Listed(t) = Listed(s) \cup {i}

LEMMA AddListFacts ==
    ASSUME NEW n \in Nat, NEW boxes \in Seq(BoxOf(n)), NEW s, SideOK(s, boxes, n), NEW i \in 1..Len(boxes)
    PROVE  Joins(AddList(s, boxes[i], i), s, boxes, n, i)
<1> DEFINE t == AddList(s, boxes[i], i)
           l == s.list
<1>1. l \in Seq(1..Len(boxes)) /\ Len(l) \in Nat
  BY DEF SideOK
<1>2. t.list = Append(l, i) /\ t.box = (IF l = <<>> THEN boxes[i] ELSE Union(s.box, boxes[i])) /\ t = [list |-> t.list, box |-> t.box]
  BY DEF AddList
<1>3. t.list \in Seq(1..Len(boxes)) /\ Len(t.list) = Len(l) + 1
      /\ \A k \in 1..Len(l) + 1 : t.list[k] = IF k = Len(l) + 1 THEN i ELSE l[k]
  BY <1>1, <1>2
<1> HIDE DEF t
<1>4. Listed(t) = Listed(s) \cup {i}
  <2>1. ASSUME NEW x \in Listed(t) PROVE x \in Listed(s) \cup {i}
    <3>1. PICK k \in 1..Len(l) + 1 : x = t.list[k]
      BY <1>3 DEF Listed
    <3>2. k # Len(l) + 1 => k \in 1..Len(l)
      BY <1>1
    <3>3. QED
      BY <1>3, <3>1, <3>2 DEF Listed
  <2>2. ASSUME NEW x \in Listed(s) PROVE x \in Listed(t)
    <3>1. PICK k \in 1..Len(l) : x = l[k]
      BY DEF Listed
    <3>2. k \in 1..Len(l) + 1 /\ k # Len(l) + 1
      BY <1>1
    <3>3. QED
      BY <1>3, <3>1, <3>2 DEF Listed
  <2>3. i \in Listed(t)
    <3>1. Len(l) + 1 \in 1..Len(l) + 1
      BY <1>1
    <3>2. QED
      BY <1>3, <3>1 DEF Listed
  <2>4. QED
    BY <2>1, <2>2, <2>3
<1>5. boxes[i] \in BoxOf(n) /\ Covers(boxes[i], boxes[i])
  BY DEF BoxOf, Covers, Interval
<1>6. t.box \in BoxOf(n) /\ \A j \in Listed(t) : Covers(t.box, boxes[j])
  <2>1. CASE l = <<>>
    <3>1. Listed(s) = {}
      BY <2>1 DEF Listed
    <3>2. QED
      BY <1>2, <1>4, <1>5, <2>1, <3>1
  <2>2. CASE l # <<>>
    <3>1. s.box \in BoxOf(n) /\ \A j \in Listed(s) : Covers(s.box, boxes[j]) /\ j \in 1..Len(boxes)
      BY <1>1, <2>2 DEF SideOK, Listed
    <3>2. t.box \in BoxOf(n) /\ Covers(t.box, s.box) /\ Covers(t.box, boxes[i])
      BY <1>2, <1>5, <2>2, <3>1, UnionFacts
    <3>3. ASSUME NEW j \in Listed(s) PROVE Covers(t.box, boxes[j])
      <4>1. boxes[j] \in BoxOf(n) /\ Covers(s.box, boxes[j])
        BY <3>1
      <4>2. QED
        BY <3>1, <3>2, <4>1, CoversTransitive
    <3>4. QED
      BY <1>4, <3>2, <3>3
  <2>3. QED
    BY <2>1, <2>2
<1>7. SideOK(t, boxes, n)
  BY <1>2, <1>3, <1>6 DEF SideOK
<1>8. QED
  BY <1>1, <1>3, <1>4, <1>7 DEF t, Joins

LEMMA AddedKeeps ==
    ASSUME NEW n \in Nat, NEW boxes \in Seq(BoxOf(n)), NEW order, NEW at, NEW m \in Nat,
           order[m + 1] \in 1..Len(boxes), at[order[m + 1]] \in {"lo", "fewer", "hi"},
           NEW h, SplitOK(h, boxes, n, order, at, m)
    PROVE  SplitOK(Added(h, boxes, at, order[m + 1]), boxes, n, order, at, m + 1)
<1> DEFINE i == order[m + 1]
           g == Added(h, boxes, at, i)
           low == AddList(h.lo, boxes[i], i)
           high == AddList(h.hi, boxes[i], i)
           ll == Len(h.lo.list)
           lh == Len(h.hi.list)
<1>0. SideOK(h.lo, boxes, n) /\ SideOK(h.hi, boxes, n) /\ i \in 1..Len(boxes)
  BY DEF SplitOK
<1>d. ASSUME NEW s, SideOK(s, boxes, n)
      PROVE  Joins(AddList(s, boxes[i], i), s, boxes, n, i)
  <2> HIDE DEF i, g, low, high, ll, lh
  <2>1. QED
    BY <1>0, <1>d, AddListFacts
<1>1. /\ SideOK(low, boxes, n) /\ Len(low.list) = ll + 1 /\ ll \in Nat /\ Listed(low) = Listed(h.lo) \cup {i}
      /\ SideOK(high, boxes, n) /\ Len(high.list) = lh + 1 /\ lh \in Nat /\ Listed(high) = Listed(h.hi) \cup {i}
  BY <1>0, <1>d DEF Joins
<1>2. g = IF GoesLow(h, at[i]) THEN [lo |-> low, hi |-> h.hi] ELSE [lo |-> h.lo, hi |-> high]
  BY DEF Added, SplitOK
<1>3. GoesLow(h, at[i]) <=> at[i] = "lo" \/ (at[i] = "fewer" /\ ll <= lh)
  BY DEF GoesLow
<1>4. {order[k] : k \in 1..m + 1} = {order[k] : k \in 1..m} \cup {i}
  <2>1. \A k \in 1..m + 1 : k = m + 1 \/ k \in 1..m
    OBVIOUS
  <2>2. \A k \in 1..m : k \in 1..m + 1
    OBVIOUS
  <2>3. m + 1 \in 1..m + 1
    OBVIOUS
  <2>4. QED
    BY <2>1, <2>2, <2>3
<1>5. \A k \in 1..m + 1 : k = m + 1 \/ k \in 1..m
  OBVIOUS
<1>6. \A k \in 1..m : k \in 1..m + 1
  OBVIOUS
<1>a. m + 1 \in 1..m + 1
  OBVIOUS
<1> DEFINE lows(k)  == \E j \in 1..k : at[order[j]] # "hi"
           highs(k) == \E j \in 1..k : at[order[j]] = "hi"
           even(k)  == \A j \in 1..k : at[order[j]] # "lo"
<1>7. /\ lows(m + 1) <=> lows(m) \/ at[i] # "hi"
      /\ highs(m + 1) <=> highs(m) \/ at[i] = "hi"
      /\ even(m + 1) <=> even(m) /\ at[i] # "lo"
  BY <1>5, <1>6, <1>a
<1>8. /\ ll + lh = m /\ Listed(h.lo) \cup Listed(h.hi) = {order[k] : k \in 1..m}
      /\ SideOK(h.lo, boxes, n) /\ SideOK(h.hi, boxes, n)
      /\ (lows(m) => ll > 0) /\ (highs(m) => lh > 0) /\ (even(m) => ll <= lh + 1)
  BY DEF SplitOK
<1>b. ASSUME g = [lo |-> g.lo, hi |-> g.hi], SideOK(g.lo, boxes, n), SideOK(g.hi, boxes, n),
             Len(g.lo.list) + Len(g.hi.list) = m + 1, Listed(g.lo) \cup Listed(g.hi) = {order[k] : k \in 1..m + 1},
             lows(m + 1) => Len(g.lo.list) > 0, highs(m + 1) => Len(g.hi.list) > 0,
             even(m + 1) => Len(g.lo.list) <= Len(g.hi.list) + 1
      PROVE  SplitOK(g, boxes, n, order, at, m + 1)
  BY <1>b DEF SplitOK
<1>c. ll \in Nat /\ lh \in Nat /\ at[i] \in {"lo", "fewer", "hi"}
  BY <1>1
<1> HIDE DEF low, high, g, i, ll, lh, lows, highs, even
<1> SUFFICES SplitOK(g, boxes, n, order, at, m + 1)
  BY DEF g, i
<1>9. CASE GoesLow(h, at[i])
  <2>1. g.lo = low /\ g.hi = h.hi /\ g = [lo |-> g.lo, hi |-> g.hi] /\ Len(g.lo.list) = ll + 1 /\ Len(g.hi.list) = lh
    BY <1>1, <1>2, <1>9 DEF lh
  <2>2. at[i] # "hi" /\ (at[i] # "lo" => ll <= lh)
    BY <1>3, <1>9
  <2>3. Listed(low) \cup Listed(h.hi) = {order[k] : k \in 1..m + 1}
    BY <1>1, <1>4, <1>8
  <2>4. ll + 1 + lh = m + 1 /\ ll + 1 > 0 /\ (even(m + 1) => ll + 1 <= lh + 1)
    BY <1>7, <1>8, <1>c, <2>2
  <2>5. highs(m + 1) => lh > 0
    BY <1>7, <1>8, <2>2
  <2>6. QED
    BY <1>1, <1>8, <1>b, <2>1, <2>3, <2>4, <2>5
<1>10. CASE ~GoesLow(h, at[i])
  <2>1. g.lo = h.lo /\ g.hi = high /\ g = [lo |-> g.lo, hi |-> g.hi] /\ Len(g.lo.list) = ll /\ Len(g.hi.list) = lh + 1
    BY <1>1, <1>2, <1>10 DEF ll
  <2>2. at[i] # "lo" /\ (at[i] = "hi" \/ lh < ll)
    BY <1>c, <1>3, <1>10
  <2>3. Listed(h.lo) \cup Listed(high) = {order[k] : k \in 1..m + 1}
    BY <1>1, <1>4, <1>8
  <2>4. ll + (lh + 1) = m + 1 /\ lh + 1 > 0 /\ (even(m + 1) => ll <= (lh + 1) + 1)
    BY <1>7, <1>8, <1>c
  <2>5. lows(m + 1) => ll > 0
    BY <1>7, <1>8, <1>c, <2>2
  <2>6. QED
    BY <1>1, <1>8, <1>b, <2>1, <2>3, <2>4, <2>5
<1>11. QED
  BY <1>9, <1>10

LEMMA DistributeFacts ==
    ASSUME NEW n \in Nat, NEW boxes \in Seq(BoxOf(n)), NEW order \in Seq(1..Len(boxes)), NEW at,
           \A i \in 1..Len(boxes) : at[i] \in {"lo", "fewer", "hi"}
    PROVE  SplitOK(Distribute(boxes, order, at), boxes, n, order, at, Len(order))
<1> DEFINE f == HalvesUpTo(boxes, order, at)
           T == {m \in Nat : m <= Len(order) => SplitOK(f[m], boxes, n, order, at, m)}
<1>0. Len(order) \in Nat /\ \A k \in 1..Len(order) : order[k] \in 1..Len(boxes)
  OBVIOUS
<1>a. \A k \in 0..Len(order) : f[k] = IF k = 0 THEN [lo |-> NoSide, hi |-> NoSide] ELSE Added(f[k - 1], boxes, at, order[k])
  BY <1>0, HalvesDefined
<1> HIDE DEF f
<1>1. 0 \in T
  <2>1. f[0] = [lo |-> NoSide, hi |-> NoSide]
    BY <1>0, <1>a
  <2>2. SideOK(NoSide, boxes, n) /\ Listed(NoSide) = {} /\ Len(NoSide.list) = 0
    BY DEF NoSide, SideOK, Listed
  <2>3. {order[k] : k \in 1..0} = {} /\ \A k \in 1..0 : FALSE
    OBVIOUS
  <2>4. SplitOK([lo |-> NoSide, hi |-> NoSide], boxes, n, order, at, 0)
    BY <2>2, <2>3 DEF SplitOK
  <2>5. QED
    BY <2>1, <2>4
<1>2. ASSUME NEW m \in Nat, m >= 0, m \in T PROVE m + 1 \in T
  <2> SUFFICES ASSUME m + 1 <= Len(order) PROVE SplitOK(f[m + 1], boxes, n, order, at, m + 1)
    OBVIOUS
  <2>1. SplitOK(f[m], boxes, n, order, at, m) /\ m + 1 \in 1..Len(order)
    BY <1>0, <1>2
  <2>2. f[m + 1] = Added(f[m], boxes, at, order[m + 1])
    <3>1. m + 1 \in 0..Len(order) /\ m + 1 # 0 /\ (m + 1) - 1 = m
      BY <1>0, <2>1
    <3>2. QED
      BY <1>a, <3>1
  <2>3. order[m + 1] \in 1..Len(boxes)
    BY <1>0, <2>1
  <2>4. at[order[m + 1]] \in {"lo", "fewer", "hi"}
    BY <2>3
  <2>5. QED
    BY <2>1, <2>2, <2>3, <2>4, AddedKeeps
<1>3. Len(order) \in T
  <2>1. \A m \in Nat : m >= 0 => m \in T
    <3> HIDE DEF T
    <3>1. QED
      BY <1>1, <1>2, Ascending
  <2>2. QED
    BY <1>0, <2>1
<1>4. QED
  BY <1>0, <1>3 DEF f, Distribute

-----------------------------------------------------------------------------
(* What a split returns: each entry on a side that covers it. *)

SplitsPage(s, boxes, n) ==
    /\ SideOK(s.lo, boxes, n) /\ SideOK(s.hi, boxes, n)
    /\ Len(s.lo.list) + Len(s.hi.list) = Len(boxes)
    /\ Listed(s.lo) \cup Listed(s.hi) = 1..Len(boxes)

Places(boxes, at) == \A i \in 1..Len(boxes) : at[i] \in {"lo", "fewer", "hi"}

LEMMA InOrder ==
    ASSUME NEW n \in Nat, NEW boxes \in Seq(BoxOf(n)), NEW at, Places(boxes, at)
    PROVE  /\ SplitsPage(Distribute(boxes, Offsets(boxes), at), boxes, n)
           /\ SplitOK(Distribute(boxes, Offsets(boxes), at), boxes, n, Offsets(boxes), at, Len(boxes))
           /\ \A i \in 1..Len(boxes) : Offsets(boxes)[i] = i
<1> DEFINE o == Offsets(boxes)
<1>1. Len(boxes) \in Nat /\ DOMAIN boxes = 1..Len(boxes)
  OBVIOUS
<1>2. o = [i \in 1..Len(boxes) |-> i]
  BY <1>1 DEF Offsets
<1>3. o \in Seq(1..Len(boxes)) /\ Len(o) = Len(boxes)
  BY <1>1, <1>2
<1>4. {o[k] : k \in 1..Len(boxes)} = 1..Len(boxes)
  BY <1>2
<1>5. SplitOK(Distribute(boxes, o, at), boxes, n, o, at, Len(o))
  BY <1>3, DistributeFacts DEF Places
<1>6. QED
  BY <1>2, <1>3, <1>4, <1>5 DEF SplitOK, SplitsPage

Split(boxes, o, even) == [d \in 1..2 |-> Halves(boxes, o, UnionOf(boxes), d, even)]

\* Some entry reaches the page's higher side, some the lower.
LEMMA NearerFacts ==
    ASSUME NEW n \in Nat, NEW boxes \in Seq(BoxOf(n)), Len(boxes) > 0, NEW d \in 1..n
    PROVE  /\ \A even \in BOOLEAN : Places(boxes, Nearer(boxes, UnionOf(boxes), d, even))
           /\ \E i \in 1..Len(boxes) : Nearer(boxes, UnionOf(boxes), d, FALSE)[i] = "hi"
           /\ \E i \in 1..Len(boxes) : Nearer(boxes, UnionOf(boxes), d, TRUE)[i] # "hi"
           /\ \A i \in 1..Len(boxes) : Nearer(boxes, UnionOf(boxes), d, TRUE)[i] = "lo"
                                       => Nearer(boxes, UnionOf(boxes), d, FALSE)[i] = "lo"
<1> DEFINE page == UnionOf(boxes)
           low(i) == boxes[i][d].lo - page[d].lo
           high(i) == page[d].hi - boxes[i][d].hi
           at(even) == Nearer(boxes, page, d, even)
<1>1. DOMAIN boxes = 1..Len(boxes) /\ Len(boxes) \in Nat
  OBVIOUS
<1>2. \A even : \A i \in 1..Len(boxes) :
        at(even)[i] = IF low(i) < high(i) THEN "lo" ELSE IF even /\ low(i) = high(i) THEN "fewer" ELSE "hi"
  BY <1>1 DEF Nearer
<1>3. PageBox(boxes, n, Len(boxes), page)
  BY UnionOfFacts
<1> HIDE DEF page, at
<1>4. \A i \in 1..Len(boxes) : boxes[i][d] \in Interval /\ DOMAIN boxes[i] = 1..n
  BY DEF BoxOf
<1>5. page[d] \in Interval
  BY <1>3 DEF PageBox, BoxOf
<1>6. \A i \in 1..Len(boxes) : low(i) \in Nat /\ high(i) \in Nat
  <2>1. \A i \in 1..Len(boxes) : page[d].lo <= boxes[i][d].lo /\ boxes[i][d].hi <= page[d].hi
    BY <1>3, <1>4 DEF PageBox, Covers
  <2>2. QED
    BY <2>1, <1>4, <1>5 DEF Interval
<1>7. PICK j \in 1..Len(boxes) : boxes[j][d].lo = page[d].lo
  BY <1>3 DEF PageBox
<1>8. PICK k \in 1..Len(boxes) : boxes[k][d].hi = page[d].hi
  BY <1>3 DEF PageBox
<1>9. low(j) = 0 /\ high(k) = 0
  BY <1>4, <1>5, <1>7, <1>8 DEF Interval
<1> HIDE DEF low, high
<1>10. at(FALSE)[k] = "hi"
  <2>1. ~(low(k) < high(k))
    BY <1>6, <1>9
  <2>2. QED
    BY <1>2, <2>1
<1>11. at(TRUE)[j] # "hi"
  <2>1. low(j) < high(j) \/ low(j) = high(j)
    BY <1>6, <1>9
  <2>2. QED
    BY <1>2, <2>1
<1>12. \A i \in 1..Len(boxes) : at(TRUE)[i] = "lo" => at(FALSE)[i] = "lo"
  BY <1>2
<1>13. \A even \in BOOLEAN : Places(boxes, at(even))
  BY <1>2 DEF Places
<1>14. QED
  BY <1>10, <1>11, <1>12, <1>13 DEF at, page

\* An order of a sort visits every entry.
LEMMA SortVisitsAll ==
    ASSUME NEW n \in Nat, NEW boxes \in Seq(BoxOf(n)), NEW o \in BySize(boxes)
    PROVE  o \in Seq(1..Len(boxes)) /\ Len(o) = Len(boxes) /\ {o[k] : k \in 1..Len(boxes)} = 1..Len(boxes)
<1> DEFINE D == 1..Len(boxes)
<1>1. Len(boxes) \in Nat /\ DOMAIN boxes = D
  OBVIOUS
<1>2. o \in [D -> D] /\ \A i, j \in D : i # j => o[i] # o[j]
  BY <1>1 DEF BySize
<1>3. o \in Seq(D) /\ Len(o) = Len(boxes)
  BY <1>1, <1>2
<1>4. o \in Injection(D, D)
  BY <1>2 DEF Injection, IsInjective
<1>5. IsFiniteSet(D)
  BY <1>1, FS_Interval
<1> HIDE DEF D
<1>6. o \in Surjection(D, D)
  BY <1>4, <1>5, FS_Injection
<1>7. \A t \in D : \E k \in D : o[k] = t
  BY <1>6 DEF Surjection
<1>8. {o[k] : k \in D} = D
  BY <1>2, <1>7
<1>9. QED
  BY <1>3, <1>8 DEF D

\* A direction that leaves a side empty leaves the lower one empty.
LEMMA OneSidedMeansNoneLow ==
    ASSUME NEW n \in Nat, NEW boxes \in Seq(BoxOf(n)), Len(boxes) > 0, NEW d \in 1..n,
           OneSided(Halves(boxes, Offsets(boxes), UnionOf(boxes), d, FALSE))
    PROVE  \A i \in 1..Len(boxes) : Nearer(boxes, UnionOf(boxes), d, TRUE)[i] # "lo"
<1> DEFINE at == Nearer(boxes, UnionOf(boxes), d, FALSE)
           h == Distribute(boxes, Offsets(boxes), at)
<1>1. Places(boxes, at)
  BY NearerFacts
<1>2. SplitOK(h, boxes, n, Offsets(boxes), at, Len(boxes)) /\ \A i \in 1..Len(boxes) : Offsets(boxes)[i] = i
  <2> HIDE DEF at
  <2>1. QED
    BY <1>1, InOrder
<1>3. OneSided(h)
  BY DEF Halves
<1>a. (\E i \in 1..Len(boxes) : at[i] = "hi")
      /\ \A i \in 1..Len(boxes) : Nearer(boxes, UnionOf(boxes), d, TRUE)[i] = "lo" => at[i] = "lo"
  BY NearerFacts
<1> HIDE DEF at, h
<1>4. Len(h.hi.list) > 0
  BY <1>a, <1>2 DEF SplitOK
<1>5. h.lo.list = <<>>
  BY <1>3, <1>4 DEF OneSided
<1>6. Len(h.lo.list) = 0
  BY <1>5
<1>7. \A i \in 1..Len(boxes) : at[i] = "hi"
  BY <1>2, <1>6 DEF SplitOK
<1>8. QED
  BY <1>a, <1>7

\* The second attempt leaves neither side empty.
LEMMA SecondAttempt ==
    ASSUME NEW n \in Nat, NEW boxes \in Seq(BoxOf(n)), Len(boxes) >= 2, NEW d \in 1..n, NEW o \in BySize(boxes)
    PROVE  LET h == Halves(boxes, o, UnionOf(boxes), d, TRUE)
           IN  /\ SplitsPage(h, boxes, n)
               /\ OneSided(Halves(boxes, Offsets(boxes), UnionOf(boxes), d, FALSE)) => ~OneSided(h)
<1> DEFINE at == Nearer(boxes, UnionOf(boxes), d, TRUE)
           h == Distribute(boxes, o, at)
<1>0. Len(boxes) > 0
  <2>1. Len(boxes) \in Nat
    OBVIOUS
  <2>2. QED
    BY <2>1
<1>1. Places(boxes, at) /\ \E i \in 1..Len(boxes) : at[i] # "hi"
  <2> HIDE DEF at, h
  <2>1. /\ \A even \in BOOLEAN : Places(boxes, Nearer(boxes, UnionOf(boxes), d, even))
        /\ \E i \in 1..Len(boxes) : Nearer(boxes, UnionOf(boxes), d, FALSE)[i] = "hi"
        /\ \E i \in 1..Len(boxes) : Nearer(boxes, UnionOf(boxes), d, TRUE)[i] # "hi"
        /\ \A i \in 1..Len(boxes) : Nearer(boxes, UnionOf(boxes), d, TRUE)[i] = "lo"
                                    => Nearer(boxes, UnionOf(boxes), d, FALSE)[i] = "lo"
    BY <1>0, NearerFacts
  <2>2. Places(boxes, at) /\ \E i \in 1..Len(boxes) : at[i] # "hi"
    BY <2>1 DEF at
  <2>3. QED
    BY <2>2
<1>a. OneSided(Halves(boxes, Offsets(boxes), UnionOf(boxes), d, FALSE)) => \A i \in 1..Len(boxes) : at[i] # "lo"
  BY <1>0, OneSidedMeansNoneLow
<1>2. o \in Seq(1..Len(boxes)) /\ Len(o) = Len(boxes) /\ {o[k] : k \in 1..Len(boxes)} = 1..Len(boxes)
  BY SortVisitsAll
<1>3. SplitOK(h, boxes, n, o, at, Len(boxes))
  <2> HIDE DEF at
  <2>1. SplitOK(Distribute(boxes, o, at), boxes, n, o, at, Len(o))
    BY <1>1, <1>2, DistributeFacts DEF Places
  <2>2. QED
    BY <1>2, <2>1
<1>4. Halves(boxes, o, UnionOf(boxes), d, TRUE) = h
  BY DEF Halves
<1> HIDE DEF h, at
<1>5. SplitsPage(h, boxes, n)
  BY <1>2, <1>3 DEF SplitOK, SplitsPage
<1>6. ASSUME \A i \in 1..Len(boxes) : at[i] # "lo" PROVE ~OneSided(h)
  <2>1. \A k \in 1..Len(boxes) : o[k] \in 1..Len(boxes)
    BY <1>2
  <2>2. \A k \in 1..Len(boxes) : at[o[k]] # "lo"
    BY <1>6, <2>1
  <2>3. \E k \in 1..Len(boxes) : at[o[k]] # "hi"
    <3>1. PICK i \in 1..Len(boxes) : at[i] # "hi"
      BY <1>1
    <3>2. \E k \in 1..Len(boxes) : o[k] = i
      BY <1>2
    <3>3. QED
      BY <3>1, <3>2
  <2>4. Len(h.lo.list) > 0 /\ Len(h.lo.list) <= Len(h.hi.list) + 1 /\ Len(h.lo.list) + Len(h.hi.list) = Len(boxes)
    BY <1>3, <2>2, <2>3 DEF SplitOK
  <2>5. Len(h.lo.list) \in Nat /\ Len(h.hi.list) \in Nat /\ Len(boxes) \in Nat
    BY <1>3 DEF SplitOK, SideOK
  <2>6. \A l, k, m \in Nat : l > 0 /\ l <= k + 1 /\ l + k = m /\ m >= 2 => l # 0 /\ k # 0
    OBVIOUS
  <2>8. Len(h.lo.list) # 0 /\ Len(h.hi.list) # 0
    BY <2>4, <2>5, <2>6
  <2>7. QED
    BY <2>8 DEF OneSided
<1>7. QED
  BY <1>4, <1>5, <1>6, <1>a

\* Whichever direction is taken, a side is empty only if one is in both.
LEMMA MoreEvenHalves ==
    ASSUME NEW n \in Nat, NEW boxes \in Seq(BoxOf(n)), NEW x, NEW y, SplitsPage(x, boxes, n), SplitsPage(y, boxes, n),
           ~(OneSided(x) /\ OneSided(y))
    PROVE  ~OneSided(IF MoreEven(x, y) THEN x ELSE y)
<1> DEFINE a == Len(x.lo.list)
           b == Len(x.hi.list)
           c == Len(y.lo.list)
           e == Len(y.hi.list)
<1>1. a \in Nat /\ b \in Nat /\ c \in Nat /\ e \in Nat /\ a + b = c + e
  <2>1. a + b = Len(boxes) /\ c + e = Len(boxes)
    BY DEF SplitsPage
  <2>2. a \in Nat /\ b \in Nat /\ c \in Nat /\ e \in Nat
    BY DEF SplitsPage, SideOK
  <2>3. QED
    BY <2>1, <2>2
<1>2. (OneSided(x) <=> a = 0 \/ b = 0) /\ (OneSided(y) <=> c = 0 \/ e = 0)
  BY DEF SplitsPage, SideOK, OneSided
<1>3. Largest(x) = Greater(a, b) /\ Largest(y) = Greater(c, e)
  BY DEF Largest
<1> HIDE DEF a, b, c, e
<1>4. CASE OneSided(x)
  <2>1. Greater(a, b) > Greater(c, e)
    BY <1>1, <1>2, <1>4 DEF Greater
  <2>2. ~MoreEven(x, y)
    <3>1. Greater(a, b) \in Nat /\ Greater(c, e) \in Nat
      BY <1>1 DEF Greater
    <3>2. QED
      BY <1>3, <2>1, <3>1 DEF MoreEven
  <2>3. QED
    BY <1>4, <2>2
<1>5. CASE OneSided(y)
  <2>1. Greater(a, b) < Greater(c, e)
    BY <1>1, <1>2, <1>5 DEF Greater
  <2>2. MoreEven(x, y)
    <3>1. Greater(a, b) \in Nat /\ Greater(c, e) \in Nat
      BY <1>1 DEF Greater
    <3>2. QED
      BY <1>3, <2>1, <3>1 DEF MoreEven
  <2>3. QED
    BY <1>5, <2>2
<1>6. QED
  BY <1>4, <1>5

\* Equal boxes are cut in the middle.
LEMMA CutFacts ==
    ASSUME NEW n \in Nat, NEW boxes \in Seq(BoxOf(n)), Len(boxes) >= 2
    PROVE  SplitsPage(Cut(boxes), boxes, n) /\ ~OneSided(Cut(boxes))
<1> DEFINE at == [i \in DOMAIN boxes |-> IF i <= Len(boxes) \div 2 THEN "lo" ELSE "hi"]
<1>1. DOMAIN boxes = 1..Len(boxes) /\ Len(boxes) \in Nat
  OBVIOUS
<1>2. Places(boxes, at)
  BY <1>1 DEF Places
<1>3. at[1] = "lo" /\ at[Len(boxes)] = "hi" /\ 1 \in 1..Len(boxes) /\ Len(boxes) \in 1..Len(boxes)
  <2>1. 1 <= Len(boxes) \div 2 /\ ~(Len(boxes) <= Len(boxes) \div 2)
    BY <1>1
  <2>2. QED
    BY <1>1, <2>1
<1>4. Cut(boxes) = Distribute(boxes, Offsets(boxes), at)
  BY DEF Cut
<1> HIDE DEF at
<1>5. /\ SplitsPage(Cut(boxes), boxes, n)
      /\ SplitOK(Cut(boxes), boxes, n, Offsets(boxes), at, Len(boxes))
      /\ \A i \in 1..Len(boxes) : Offsets(boxes)[i] = i
  BY <1>2, <1>4, InOrder
<1>6. Len(Cut(boxes).lo.list) > 0 /\ Len(Cut(boxes).hi.list) > 0
  BY <1>3, <1>5 DEF SplitOK
<1>7. QED
  BY <1>5, <1>6 DEF OneSided

\* What LWGEOM_gist_picksplit returns.
LEMMA PickSplitFacts ==
    ASSUME NEW boxes \in Seq(BoxOf(2)), Len(boxes) >= 2, NEW s \in PickSplit(boxes)
    PROVE  SplitsPage(s, boxes, 2) /\ ~OneSided(s)
<1> DEFINE o1 == Offsets(boxes)
           better(h) == IF MoreEven(h[1], h[2]) THEN h[1] ELSE h[2]
<1>1. \/ s = Cut(boxes)
      \/ BadDisposition(Split(boxes, o1, FALSE)) /\ \E o \in BySize(boxes) : s = better(Split(boxes, o, TRUE))
      \/ ~BadDisposition(Split(boxes, o1, FALSE)) /\ s = better(Split(boxes, o1, FALSE))
  BY DEF PickSplit, Split
<1>2. \A o, even : /\ Split(boxes, o, even)[1] = Halves(boxes, o, UnionOf(boxes), 1, even)
                   /\ Split(boxes, o, even)[2] = Halves(boxes, o, UnionOf(boxes), 2, even)
  BY DEF Split
<1>3. CASE s = Cut(boxes)
  BY <1>3, CutFacts
<1>4. CASE BadDisposition(Split(boxes, o1, FALSE)) /\ \E o \in BySize(boxes) : s = better(Split(boxes, o, TRUE))
  <2>1. PICK o \in BySize(boxes) : s = better(Split(boxes, o, TRUE))
    BY <1>4
  <2>2. /\ OneSided(Halves(boxes, o1, UnionOf(boxes), 1, FALSE))
        /\ OneSided(Halves(boxes, o1, UnionOf(boxes), 2, FALSE))
    BY <1>2, <1>4 DEF BadDisposition
  <2>3. s = Halves(boxes, o, UnionOf(boxes), 1, TRUE) \/ s = Halves(boxes, o, UnionOf(boxes), 2, TRUE)
    BY <1>2, <2>1
  <2>4. 1 \in 1..2 /\ 2 \in 1..2 /\ 2 \in Nat
    OBVIOUS
  <2>5. QED
    BY <2>2, <2>3, <2>4, SecondAttempt
<1>5. CASE ~BadDisposition(Split(boxes, o1, FALSE)) /\ s = better(Split(boxes, o1, FALSE))
  <2> DEFINE x == Halves(boxes, o1, UnionOf(boxes), 1, FALSE)
             y == Halves(boxes, o1, UnionOf(boxes), 2, FALSE)
  <2>1. SplitsPage(x, boxes, 2) /\ SplitsPage(y, boxes, 2)
    <3>0. Len(boxes) > 0 /\ 2 \in Nat /\ 1 \in 1..2 /\ 2 \in 1..2
      <4>1. Len(boxes) \in Nat
        OBVIOUS
      <4>2. QED
        BY <4>1
    <3>1. /\ Places(boxes, Nearer(boxes, UnionOf(boxes), 1, FALSE))
          /\ Places(boxes, Nearer(boxes, UnionOf(boxes), 2, FALSE))
      BY <3>0, NearerFacts
    <3>2. QED
      BY <3>1, InOrder DEF Halves
  <2>2. ~(OneSided(x) /\ OneSided(y)) /\ s = IF MoreEven(x, y) THEN x ELSE y
    BY <1>2, <1>5 DEF BadDisposition
  <2> HIDE DEF x, y
  <2>3. QED
    BY <2>1, <2>2, MoreEvenHalves
<1>6. QED
  BY <1>1, <1>3, <1>4, <1>5

\* The direction with the largest larger half exists.
LEMMA DirectionFacts ==
    ASSUME NEW h, DOMAIN h = 1..3, \A d \in 1..3 : Largest(h[d]) \in Nat
    PROVE  Direction(h) \in 1..3
<1> DEFINE best(d) == /\ \A e \in 1..3 : Largest(h[e]) <= Largest(h[d])
                      /\ \A e \in 1..d - 1 : Largest(h[e]) < Largest(h[d])
           a == Largest(h[1])
           b == Largest(h[2])
           c == Largest(h[3])
<1>1. a \in Nat /\ b \in Nat /\ c \in Nat
  OBVIOUS
<1>2. 1..3 = {1, 2, 3} /\ 1..1 - 1 = {} /\ 1..2 - 1 = {1} /\ 1..3 - 1 = {1, 2}
  OBVIOUS
<1>3. /\ best(1) <=> a <= a /\ b <= a /\ c <= a
      /\ best(2) <=> a <= b /\ b <= b /\ c <= b /\ a < b
      /\ best(3) <=> a <= c /\ b <= c /\ c <= c /\ a < c /\ b < c
  <2>1. \A d \in 1..3 : (\A e \in 1..3 : Largest(h[e]) <= Largest(h[d]))
                        <=> a <= Largest(h[d]) /\ b <= Largest(h[d]) /\ c <= Largest(h[d])
    BY <1>2
  <2>2. (\A e \in 1..1 - 1 : Largest(h[e]) < Largest(h[1]))
    BY <1>2
  <2>3. (\A e \in 1..2 - 1 : Largest(h[e]) < Largest(h[2])) <=> a < b
    BY <1>2
  <2>4. (\A e \in 1..3 - 1 : Largest(h[e]) < Largest(h[3])) <=> a < c /\ b < c
    BY <1>2
  <2>5. QED
    BY <1>2, <2>1, <2>2, <2>3, <2>4
<1>4. best(1) \/ best(2) \/ best(3)
  <2> HIDE DEF best, a, b, c
  <2>1. QED
    BY <1>1, <1>3
<1> HIDE DEF best
<1>5. \E d \in 1..3 : best(d)
  BY <1>4
<1>6. (CHOOSE d \in 1..3 : best(d)) \in 1..3
  BY <1>5
<1>7. QED
  BY <1>6 DEF Direction, best, Dims

\* An average centre has three sides.
LEMMA CentrePlaces ==
    ASSUME NEW boxes, DOMAIN boxes = 1..Len(boxes), NEW d
    PROVE  Places(boxes, ByCentre(boxes, d))
  BY DEF ByCentre, Places

\* What geography_gist_picksplit returns for an index of one column.
LEMMA GidxPickSplitFacts ==
    ASSUME NEW boxes \in Seq(BoxOf(3)), Len(boxes) >= 2, NEW s \in GidxPickSplit(boxes, EmptyBox, EmptyBox)
    PROVE  SplitsPage(s, boxes, 3)
<1> DEFINE first == [d \in 1..3 |-> Halves(boxes, Offsets(boxes), UnionOf(boxes), d, FALSE)]
           second == [d \in 1..3 |-> HalvesByCentre(boxes, d)]
           cut == [lo |-> Merged(Cut(boxes).lo, EmptyBox), hi |-> Merged(Cut(boxes).hi, EmptyBox)]
<1>1. Len(boxes) \in Nat /\ Len(boxes) > 0 /\ DOMAIN boxes = 1..Len(boxes)
  <2>1. Len(boxes) \in Nat /\ DOMAIN boxes = 1..Len(boxes)
    OBVIOUS
  <2>2. QED
    BY <2>1
<1>2. \A half : Merged(half, EmptyBox) = half
  BY DEF Merged
<1>3. s = cut \/ s \in ConstructSplit(first[Direction(first)], EmptyBox, EmptyBox)
      \/ s \in ConstructSplit(second[Direction(second)], EmptyBox, EmptyBox)
  BY DEF GidxPickSplit
<1>4. \A d \in 1..3 : SplitsPage(first[d], boxes, 3)
  <2>1. \A d \in 1..3 : Places(boxes, Nearer(boxes, UnionOf(boxes), d, FALSE))
    BY <1>1, NearerFacts
  <2>2. QED
    BY <2>1, InOrder DEF Halves
<1>5. \A d \in 1..3 : SplitsPage(second[d], boxes, 3)
  BY <1>1, CentrePlaces, InOrder DEF HalvesByCentre
<1>6. \A h : ConstructSplit(h, EmptyBox, EmptyBox) = {[lo |-> h.lo, hi |-> h.hi]}
  BY <1>2 DEF ConstructSplit
<1>7. ASSUME NEW h, SplitsPage(h, boxes, 3)
      PROVE  Largest(h) \in Nat /\ SplitsPage([lo |-> h.lo, hi |-> h.hi], boxes, 3)
  <2>1. Len(h.lo.list) \in Nat /\ Len(h.hi.list) \in Nat
    BY <1>7 DEF SplitsPage, SideOK
  <2>2. Largest(h) \in Nat
    BY <2>1 DEF Largest, Greater
  <2>3. QED
    BY <1>7, <2>2 DEF SplitsPage
<1>8. SplitsPage(cut, boxes, 3)
  <2>1. cut = [lo |-> Cut(boxes).lo, hi |-> Cut(boxes).hi]
    BY <1>2
  <2>2. SplitsPage(Cut(boxes), boxes, 3) /\ 3 \in Nat
    BY CutFacts
  <2> HIDE DEF cut
  <2>3. QED
    BY <1>7, <2>1, <2>2
<1>9. Direction(first) \in 1..3 /\ Direction(second) \in 1..3
  <2>1. DOMAIN first = 1..3 /\ DOMAIN second = 1..3
    OBVIOUS
  <2>2. \A d \in 1..3 : Largest(first[d]) \in Nat /\ Largest(second[d]) \in Nat
    BY <1>4, <1>5, <1>7
  <2> HIDE DEF first, second
  <2>3. QED
    BY <2>1, <2>2, DirectionFacts
<1> HIDE DEF first, second, cut
<1>10. CASE s \in ConstructSplit(first[Direction(first)], EmptyBox, EmptyBox)
  BY <1>4, <1>6, <1>7, <1>9, <1>10
<1>11. CASE s \in ConstructSplit(second[Direction(second)], EmptyBox, EmptyBox)
  BY <1>5, <1>6, <1>7, <1>9, <1>11
<1>12. QED
  BY <1>3, <1>8, <1>10, <1>11

-----------------------------------------------------------------------------
(* A search descends to a box that covers an answer. *)

LEMMA SearchDescends ==
    ASSUME NEW op \in GeomOps, NEW k \in BoxOf(2), NEW b \in BoxOf(2), NEW q \in BoxOf(2), Covers(b, k),
           LeafConsistent(op, k, q)
    PROVE  InternalConsistent(op, b, q)
<1>1. /\ DOMAIN k = 1..2 /\ DOMAIN b = 1..2 /\ DOMAIN q = 1..2 /\ 1..2 = {1, 2} /\ Eps \in Nat
      /\ \A d \in 1..2 : k[d] \in Interval /\ b[d] \in Interval /\ q[d] \in Interval
  BY BoxesAssumption DEF BoxOf
<1> DEFINE K(d) == k[d].lo \in Int /\ k[d].hi \in Int /\ k[d].lo <= k[d].hi
           B(d) == b[d].lo \in Int /\ b[d].hi \in Int
           Q(d) == q[d].lo \in Int /\ q[d].hi \in Int /\ q[d].lo <= q[d].hi
           C(d) == b[d].lo <= k[d].lo /\ k[d].hi <= b[d].hi
<1>2. \A d \in 1..2 : K(d) /\ B(d) /\ Q(d) /\ C(d)
  BY <1>1 DEF Covers, Interval
<1>3. K(1) /\ B(1) /\ Q(1) /\ C(1) /\ K(2) /\ B(2) /\ Q(2) /\ C(2) /\ Eps \in Nat
  BY <1>1, <1>2
<1>4. CASE op = "left"
  BY <1>3, <1>4 DEF LeafConsistent, InternalConsistent, BoxTest, FPlt, FPle
<1>5. CASE op = "overleft"
  BY <1>3, <1>5 DEF LeafConsistent, InternalConsistent, BoxTest, FPlt, FPle
<1>6. CASE op = "right"
  BY <1>3, <1>6 DEF LeafConsistent, InternalConsistent, BoxTest, FPlt, FPle
<1>7. CASE op = "overright"
  BY <1>3, <1>7 DEF LeafConsistent, InternalConsistent, BoxTest, FPlt, FPle
<1>8. CASE op = "below"
  BY <1>3, <1>8 DEF LeafConsistent, InternalConsistent, BoxTest, FPlt, FPle
<1>9. CASE op = "overbelow"
  BY <1>3, <1>9 DEF LeafConsistent, InternalConsistent, BoxTest, FPlt, FPle
<1>10. CASE op = "above"
  BY <1>3, <1>10 DEF LeafConsistent, InternalConsistent, BoxTest, FPlt, FPle
<1>11. CASE op = "overabove"
  BY <1>3, <1>11 DEF LeafConsistent, InternalConsistent, BoxTest, FPlt, FPle
<1>12. CASE op = "overlap"
  <2>1. \A d \in 1..2 : Meets(k[d], q[d])
    BY <1>1, <1>12 DEF LeafConsistent, Dims
  <2>2. \A d \in 1..2 : Meets(b[d], q[d])
    BY <1>2, <2>1 DEF Meets
  <2>3. QED
    BY <1>1, <1>12, <2>2 DEF LeafConsistent, InternalConsistent, Dims
<1>13. CASE op \in {"same", "contain"}
  <2>1. \A d \in 1..2 : FPle(q[d].hi, k[d].hi) /\ FPle(k[d].lo, q[d].lo)
    BY <1>1, <1>2, <1>13 DEF LeafConsistent, BoxTest, Dims, FPeq, FPle
  <2>2. \A d \in 1..2 : FPle(q[d].hi, b[d].hi) /\ FPle(b[d].lo, q[d].lo)
    BY <1>1, <1>2, <2>1 DEF FPle
  <2>3. QED
    BY <1>1, <1>13, <2>2 DEF InternalConsistent, BoxTest, Dims
<1>14. CASE op = "contained"
  <2>1. \A d \in 1..2 : FPle(k[d].hi, q[d].hi) /\ FPle(q[d].lo, k[d].lo)
    BY <1>1, <1>14 DEF LeafConsistent, BoxTest, Dims
  <2>2. \A d \in 1..2 : Shared(b[d], q[d])
    BY <1>1, <1>2, <2>1 DEF FPle, Shared
  <2>3. QED
    BY <1>1, <1>14, <2>2 DEF InternalConsistent, BoxTest, Dims
<1>15. QED
  BY <1>4, <1>5, <1>6, <1>7, <1>8, <1>9, <1>10, <1>11, <1>12, <1>13, <1>14 DEF GeomOps

LEMMA GidxSearchDescends ==
    ASSUME NEW op \in GidxOps, NEW k \in BoxOf(3), NEW b \in BoxOf(3), NEW q \in BoxOf(3), Covers(b, k),
           GidxLeaf(op, k, q)
    PROVE  GidxInternal(op, b, q)
<1>1. /\ DOMAIN k = 1..3 /\ DOMAIN b = 1..3 /\ DOMAIN q = 1..3
      /\ \A d \in 1..3 : k[d] \in Interval /\ b[d] \in Interval /\ q[d] \in Interval
  BY DEF BoxOf
<1>2. \A d \in 1..3 : b[d].lo <= k[d].lo /\ k[d].hi <= b[d].hi
  BY <1>1 DEF Covers
<1>3. CASE op = "overlap"
  BY <1>1, <1>2, <1>3 DEF GidxLeaf, GidxInternal, GidxOverlaps, Dims, Interval
<1>4. CASE op = "same"
  BY <1>1, <1>2, <1>4 DEF GidxLeaf, GidxInternal, GidxContains, Dims, Interval
<1>5. CASE op = "contain"
  BY <1>1, <1>2, <1>5 DEF GidxLeaf, GidxInternal, GidxContains, Dims, Interval
<1>6. CASE op = "contained"
  BY <1>1, <1>2, <1>6 DEF GidxLeaf, GidxInternal, GidxOverlaps, GidxContains, Dims, Interval
<1>7. QED
  BY <1>3, <1>4, <1>5, <1>6 DEF GidxOps

\* The side of a split that holds an entry covers it.
LEMMA SideOfEntry ==
    ASSUME NEW n \in Nat, NEW boxes \in Seq(BoxOf(n)), NEW s, SplitsPage(s, boxes, n), NEW i \in 1..Len(boxes)
    PROVE  \E x \in Sides(s) : i \in ToSet(x.list) /\ x.box \in BoxOf(n) /\ Covers(x.box, boxes[i])
<1>1. PICK x \in {s.lo, s.hi} : i \in Listed(x)
  BY DEF SplitsPage
<1>2. SideOK(x, boxes, n)
  BY DEF SplitsPage
<1>3. x.list \in Seq(1..Len(boxes)) /\ x.list # <<>>
  <2>1. x.list \in Seq(1..Len(boxes)) /\ \E k \in 1..Len(x.list) : TRUE
    BY <1>1, <1>2 DEF SideOK, Listed
  <2>2. QED
    BY <2>1
<1>4. ToSet(x.list) = Listed(x)
  BY <1>3 DEF ToSet, Listed
<1>5. QED
  BY <1>1, <1>2, <1>3, <1>4 DEF SideOK, Sides

-----------------------------------------------------------------------------
(* Index entries are found, and comparisons agree. *)

\* What a support function was handed.
PageRead ==
    /\ input.kind = "page" => input.page \in Pages /\ input.query \in Queries
    /\ input.kind = "gidx page" => input.page \in GidxPages /\ input.query \in GidxBoxes
    /\ input.kind = "keys" => input.a \in Boxes /\ input.b \in Boxes

LEMMA PageReadAlways == IndexSpec => []PageRead
<1>1. IndexInit => PageRead
  BY DEF IndexInit, Wanted, PageRead
<1>2. PageRead /\ [IndexNext]_input => PageRead'
  <2> SUFFICES ASSUME PageRead, [IndexNext]_input PROVE PageRead'
    OBVIOUS
  <2>1. CASE SplitPage
    <3>1. PICK x \in Pages, y \in Queries : input' = [kind |-> "page", page |-> x, query |-> y]
      BY <2>1 DEF SplitPage
    <3>2. input'.kind = "page" /\ input'.page = x /\ input'.query = y
      BY <3>1
    <3>3. QED
      BY <3>2 DEF PageRead
  <2>2. CASE SplitGidxPage
    <3>1. PICK x \in GidxPages, y \in GidxBoxes : input' = [kind |-> "gidx page", page |-> x, query |-> y]
      BY <2>2 DEF SplitGidxPage
    <3>2. input'.kind = "gidx page" /\ input'.page = x /\ input'.query = y
      BY <3>1
    <3>3. QED
      BY <3>2 DEF PageRead
  <2>3. CASE CompareKeys
    <3>1. PICK x \in Boxes, y \in Boxes : input' = [kind |-> "keys", a |-> x, b |-> y]
      BY <2>3 DEF CompareKeys
    <3>2. input'.kind = "keys" /\ input'.a = x /\ input'.b = y
      BY <3>1
    <3>3. QED
      BY <3>2 DEF PageRead
  <2>4. CASE CompareGidxKeys
    <3>1. PICK x \in GidxBoxes, y \in GidxBoxes : input' = [kind |-> "gidx keys", a |-> x, b |-> y]
      BY <2>4 DEF CompareGidxKeys
    <3>2. input'.kind = "gidx keys" /\ input'.a = x /\ input'.b = y
      BY <3>1
    <3>3. QED
      BY <3>2 DEF PageRead
  <2>5. CASE UNCHANGED input
    BY <2>5 DEF PageRead
  <2>6. QED
    BY <2>1, <2>2, <2>3, <2>4, <2>5 DEF IndexNext
<1>3. QED
  BY <1>1, <1>2, PTL DEF IndexSpec

\* LWGEOM_gist_picksplit and geography_gist_picksplit: whichever split of a page
\* is taken, each entry is on one side, and the consistent function sends every
\* search the entry answers to the box of that side; a page of geometries is
\* split in two, neither half empty.
THEOREM IndexSearchesFind == IndexSpec => []IndexFinds
<1>1. PageRead => IndexFinds
  <2> SUFFICES ASSUME PageRead PROVE IndexFinds
    OBVIOUS
  <2>1. ASSUME input.kind = "page"
        PROVE  /\ input.page \in Seq(BoxOf(2)) /\ Len(input.page) >= 2 /\ DOMAIN input.page = 1..Len(input.page)
               /\ input.query \in BoxOf(2) \cup {EmptyBox}
    <3>1. input.page \in Pages /\ input.query \in Queries
      BY <2>1 DEF PageRead
    <3>2. input.page \in Seq(BoxOf(2)) /\ Len(input.page) >= 2 /\ input.query \in BoxOf(2) \cup {EmptyBox}
      BY <3>1, BoxesAssumption DEF PagesOf
    <3>3. QED
      BY <3>2
  <2>2. ASSUME input.kind = "gidx page"
        PROVE  /\ input.page \in Seq(BoxOf(3)) /\ Len(input.page) >= 2 /\ DOMAIN input.page = 1..Len(input.page)
               /\ input.query \in BoxOf(3)
    <3>1. input.page \in GidxPages /\ input.query \in GidxBoxes
      BY <2>2 DEF PageRead
    <3>2. input.page \in Seq(BoxOf(3)) /\ Len(input.page) >= 2 /\ input.query \in BoxOf(3)
      BY <3>1, BoxesAssumption DEF PagesOf
    <3>3. QED
      BY <3>2
  <2>3. ASSUME input.kind = "page", NEW s \in PickSplit(input.page)
        PROVE  SplitsPage(s, input.page, 2) /\ ~OneSided(s)
    BY <2>1, <2>3, PickSplitFacts
  <2>4. ASSUME input.kind = "gidx page", NEW s \in GidxPickSplit(input.page, EmptyBox, EmptyBox)
        PROVE  SplitsPage(s, input.page, 3)
    BY <2>2, <2>4, GidxPickSplitFacts
  <2>5. SearchesArrive
    <3>1. ASSUME input.kind = "page", NEW s \in PickSplit(input.page), NEW i \in DOMAIN input.page, NEW op \in GeomOps,
                 Consistent(op, TRUE, input.page[i], input.query)
          PROVE  \E x \in Sides(s) : i \in ToSet(x.list) /\ Consistent(op, FALSE, x.box, input.query)
      <4>1. input.query \in BoxOf(2) /\ LeafConsistent(op, input.page[i], input.query) /\ input.query # EmptyBox
        BY <2>1, <3>1 DEF Consistent
      <4>2. input.page \in Seq(BoxOf(2)) /\ i \in 1..Len(input.page) /\ input.page[i] \in BoxOf(2)
        BY <2>1, <3>1
      <4>3. PICK x \in Sides(s) : i \in ToSet(x.list) /\ x.box \in BoxOf(2) /\ Covers(x.box, input.page[i])
        BY <2>3, <3>1, <4>2, SideOfEntry
      <4>4. InternalConsistent(op, x.box, input.query)
        BY <4>1, <4>2, <4>3, SearchDescends
      <4>5. QED
        BY <4>1, <4>3, <4>4 DEF Consistent
    <3>2. ASSUME input.kind = "gidx page", NEW s \in GidxPickSplit(input.page, EmptyBox, EmptyBox),
                 NEW i \in DOMAIN input.page, NEW op \in GidxOps, GidxLeaf(op, input.page[i], input.query)
          PROVE  \E x \in Sides(s) : i \in ToSet(x.list) /\ GidxInternal(op, x.box, input.query)
      <4> DEFINE p == input.page
      <4>a. p \in Seq(BoxOf(3)) /\ i \in 1..Len(p) /\ input.query \in BoxOf(3)
        BY <2>2, <3>2
      <4> HIDE DEF p
      <4>1. p \in Seq(BoxOf(3)) /\ i \in 1..Len(p) /\ p[i] \in BoxOf(3) /\ input.query \in BoxOf(3)
        BY <4>a
      <4> USE DEF p
      <4>2. PICK x \in Sides(s) : i \in ToSet(x.list) /\ x.box \in BoxOf(3) /\ Covers(x.box, input.page[i])
        BY <2>4, <3>2, <4>1, SideOfEntry
      <4>3. GidxInternal(op, x.box, input.query)
        BY <3>2, <4>1, <4>2, GidxSearchDescends
      <4>4. QED
        BY <4>2, <4>3
    <3>3. QED
      BY <3>1, <3>2 DEF SearchesArrive
  <2>6. SplitsArePartitions
    <3>1. ASSUME NEW n \in Nat, NEW s, SplitsPage(s, input.page, n)
          PROVE  /\ Len(s.lo.list) + Len(s.hi.list) = Len(input.page)
                 /\ ToSet(s.lo.list) \cup ToSet(s.hi.list) = 1..Len(input.page)
      <4>1. SideOK(s.lo, input.page, n) /\ SideOK(s.hi, input.page, n)
        BY <3>1 DEF SplitsPage
      <4>2. ToSet(s.lo.list) = Listed(s.lo) /\ ToSet(s.hi.list) = Listed(s.hi)
        BY <4>1 DEF SideOK, ToSet, Listed
      <4>3. QED
        BY <3>1, <4>2 DEF SplitsPage
    <3>2. QED
      BY <2>1, <2>2, <2>3, <2>4, <3>1 DEF SplitsArePartitions
  <2>7. QED
    BY <2>5, <2>6 DEF IndexFinds
<1>2. QED
  BY <1>1, PageReadAlways, PTL

\* lwgeom_cmp, lwgeom_le, lwgeom_ge and lwgeom_eq: the operators of the B-tree
\* agree with the function it sorts by, which is antisymmetric.
THEOREM BTreeComparisonsAgree == IndexSpec => []BTreeAgrees
<1>1. PageRead => BTreeAgrees
  <2> SUFFICES ASSUME PageRead, input.kind = "keys" PROVE BTreeAgrees
    BY DEF BTreeAgrees
  <2> DEFINE a == input.a
             b == input.b
  <2>1. a \in Boxes /\ b \in Boxes
    BY DEF PageRead
  <2> DEFINE p == Corners(a)
             q == Corners(b)
             D == Differ(p, q)
             f == FirstOf(D)
  <2>2. /\ DOMAIN p = 1..4 /\ DOMAIN q = 1..4 /\ \A i \in 1..4 : p[i] \in Int /\ q[i] \in Int
    <3>1. a \in BoxOf(2) /\ b \in BoxOf(2) /\ 1 \in 1..2 /\ 2 \in 1..2 /\ 1..4 = {1, 2, 3, 4}
      BY <2>1, BoxesAssumption
    <3> HIDE DEF a, b
    <3>2. /\ a[1].lo \in Int /\ a[1].hi \in Int /\ a[2].lo \in Int /\ a[2].hi \in Int
          /\ b[1].lo \in Int /\ b[1].hi \in Int /\ b[2].lo \in Int /\ b[2].hi \in Int
      BY <3>1 DEF BoxOf, Interval
    <3>3. QED
      BY <3>1, <3>2 DEF Corners
  <2> HIDE DEF p, q
  <2>3. D = {i \in 1..4 : ~FPeq(p[i], q[i])} /\ Differ(q, p) = D
    BY <2>2 DEF Differ, FPeq
  <2>4. D # {} => f \in D
    <3>1. D \subseteq Nat
      BY <2>3
    <3>2. D # {} => \E i \in D : \A j \in D : i <= j
      BY <3>1, LeastOf
    <3> HIDE DEF D
    <3>3. QED
      BY <3>2 DEF FirstOf
  <2> HIDE DEF f
  <2>5. D # {} => p[f] \in Int /\ q[f] \in Int /\ p[f] # q[f]
    BY <2>2, <2>3, <2>4, BoxesAssumption DEF FPeq
  <2>6. /\ LessOrEqual(a, b) <=> D = {} \/ p[f] < q[f]
        /\ GreaterOrEqual(a, b) <=> D = {} \/ p[f] > q[f]
        /\ Equal(a, b) <=> D = {}
    BY DEF LessOrEqual, GreaterOrEqual, Equal, p, q, f
  <2>7. Compare(a, b) = IF D = {} THEN 0 ELSE IF p[f] < q[f] THEN -1 ELSE 1
    BY DEF Compare, p, q, f
  <2>8. Compare(b, a) = IF D = {} THEN 0 ELSE IF q[f] < p[f] THEN -1 ELSE 1
    BY <2>3 DEF Compare, p, q, f
  <2> HIDE DEF D
  <2>9. /\ LessOrEqual(a, b) <=> Compare(a, b) <= 0
        /\ GreaterOrEqual(a, b) <=> Compare(a, b) >= 0
        /\ Equal(a, b) <=> Compare(a, b) = 0
        /\ Compare(a, b) = -Compare(b, a)
    BY <2>5, <2>6, <2>7, <2>8
  <2>10. QED
    BY <2>9 DEF BTreeAgrees
<1>2. QED
  BY <1>1, PageReadAlways, PTL

-----------------------------------------------------------------------------
USE SridsAssumption, ItemsAssumption, GeomsAssumption

(* The projections of transform(). *)

\* An empty slot names no context.
EmptySlots == \A i \in Slots : slot[i].srid = Unknown => slot[i].mcxt = 0

\* A call under way has named two systems.
CallNames == call.pc # "idle" => call.from \in Srids /\ call.to \in Srids

CacheTypeOK ==
    /\ slot \in [Slots -> Slot]
    /\ count \in 0..Items
    /\ pjHash \in [Contexts -> Srids \cup {Unknown}]

CacheInv == CacheTypeOK /\ EmptySlots /\ SlotsAreBacked

IInv == TypeOK /\ EmptySlots /\ CallNames /\ SlotsAreBacked /\ TransformsBetweenItsSystems

-----------------------------------------------------------------------------
\* A full cache has a slot to give up, and it does not hold the other system
\* of the transformation: that system has one slot at most.
LEMMA VictimSpares ==
    ASSUME CacheInv, NEW other \in Srids
    PROVE  Victim(other) \in Slots /\ slot[Victim(other)].srid # other
<1> DEFINE S == {i \in Slots : slot[i].srid # other}
<1>1. 0 \in Slots /\ 1 \in Slots
  BY DEF Slots
<1>2. slot[0].srid # other \/ slot[1].srid # other
  BY <1>1 DEF CacheInv, SlotsAreBacked
<1>3. PICK i \in Slots : slot[i].srid # other /\ \A j \in Slots : slot[j].srid # other => i <= j
  <2>1. CASE slot[0].srid # other
    <3>1. \A j \in Slots : 0 <= j
      BY DEF Slots
    <3>2. QED
      BY <1>1, <2>1, <3>1
  <2>2. CASE slot[0].srid = other
    <3>1. \A j \in Slots : j # 0 => 1 <= j
      BY DEF Slots
    <3>2. QED
      BY <1>1, <1>2, <2>2, <3>1
  <2>3. QED
    BY <2>1, <2>2
<1>4. QED
  BY <1>3 DEF Victim

\* What is deleted loses its entry in the table and nothing else does.
LEMMA DeleteIsExact ==
    ASSUME NEW h \in [Contexts -> Srids \cup {Unknown}], NEW C
    PROVE  /\ DeleteContexts(h, C) \in [Contexts -> Srids \cup {Unknown}]
           /\ \A c \in Contexts : DeleteContexts(h, C)[c] = IF c \in C THEN Unknown ELSE h[c]
BY DEF DeleteContexts

\* The slots a full cache clears and the contexts it frees belong together:
\* what stays is backed as before, and a context of the other system stays.
LEMMA ClearingIsSound ==
    ASSUME CacheInv, NEW v \in Slots
    PROVE  LET sl == ClearedSlots(slot, slot[v].srid)
               h  == DeleteContexts(pjHash, ClearedContexts(slot, slot[v].srid))
           IN  /\ sl \in [Slots -> Slot]
               /\ h \in [Contexts -> Srids \cup {Unknown}]
               /\ \A i \in Slots : sl[i] = Empty \/ sl[i] = slot[i]
               /\ \A i \in Slots : sl[i].srid # Unknown =>
                     sl[i].mcxt \in Contexts /\ h[sl[i].mcxt] = sl[i].srid
               /\ \A c \in Contexts : h[c] # Unknown => h[c] = pjHash[c]
               /\ \A c \in Contexts : pjHash[c] # slot[v].srid => h[c] = pjHash[c]
<1> DEFINE s  == slot[v].srid
           sl == ClearedSlots(slot, s)
           C  == ClearedContexts(slot, s)
           h  == DeleteContexts(pjHash, C)
<1>1. slot \in [Slots -> Slot] /\ pjHash \in [Contexts -> Srids \cup {Unknown}]
  BY DEF CacheInv, CacheTypeOK
<1>2. Empty \in Slot
  BY DEF Empty, Slot
<1>3. sl \in [Slots -> Slot] /\ \A i \in Slots : sl[i] = IF slot[i].srid = s THEN Empty ELSE slot[i]
  BY <1>1, <1>2 DEF ClearedSlots
<1>4. \A c \in C : c \in Contexts => pjHash[c] = s /\ s # Unknown
  <2> SUFFICES ASSUME NEW j \in Slots, slot[j].srid = s, slot[j].mcxt \in Contexts
               PROVE  pjHash[slot[j].mcxt] = s /\ s # Unknown
    BY DEF ClearedContexts
  <2>1. s # Unknown
    BY DEF CacheInv, EmptySlots, Contexts
  <2>2. QED
    BY <2>1 DEF CacheInv, SlotsAreBacked
<1>5. /\ h \in [Contexts -> Srids \cup {Unknown}]
      /\ \A c \in Contexts : h[c] = IF c \in C THEN Unknown ELSE pjHash[c]
  BY <1>1, DeleteIsExact
<1>6. ASSUME NEW i \in Slots, sl[i].srid # Unknown
      PROVE  sl[i].mcxt \in Contexts /\ h[sl[i].mcxt] = sl[i].srid
  <2>1. sl[i] = slot[i] /\ slot[i].srid # s
    BY <1>3, <1>6 DEF Empty
  <2>2. slot[i].mcxt \in Contexts /\ pjHash[slot[i].mcxt] = slot[i].srid
    BY <1>6, <2>1 DEF CacheInv, SlotsAreBacked, Live
  <2>3. slot[i].mcxt \notin C
    BY <1>4, <2>1, <2>2
  <2>4. QED
    BY <1>5, <2>1, <2>2, <2>3
<1>7. \A c \in Contexts : /\ h[c] # Unknown => h[c] = pjHash[c]
                          /\ pjHash[c] # s => h[c] = pjHash[c]
  BY <1>4, <1>5
<1>8. QED
  BY <1>3, <1>5, <1>6, <1>7

\* Filling one slot with a fresh context, from any state of the cache in which
\* what is there is backed, leaves every slot backed.
LEMMA FillingIsSound ==
    ASSUME CacheInv,
           NEW sl \in [Slots -> Slot], NEW h \in [Contexts -> Srids \cup {Unknown}],
           NEW at \in Slots, NEW c \in Contexts, NEW s \in Srids,
           \A i \in Slots : sl[i] = Empty \/ sl[i] = slot[i],
           \A i \in Slots : sl[i].srid # Unknown => sl[i].mcxt \in Contexts /\ h[sl[i].mcxt] = sl[i].srid,
           ~IsInPROJ4SRSCache(s), h[c] = Unknown,
           slot' = [sl EXCEPT ![at] = [srid |-> s, mcxt |-> c]],
           pjHash' = [h EXCEPT ![c] = s],
           count' = at + 1
    PROVE  CacheInv' /\ IsInPROJ4SRSCache(s)'
<1> DEFINE new == [srid |-> s, mcxt |-> c]
<1>1. new \in Slot
  BY DEF Slot, Contexts
<1>2. \A i \in Slots : slot'[i] = IF i = at THEN new ELSE sl[i]
  OBVIOUS
<1>3. \A d \in Contexts : pjHash'[d] = IF d = c THEN s ELSE h[d]
  OBVIOUS
<1>4. CacheTypeOK'
  <2>1. slot' \in [Slots -> Slot] /\ pjHash' \in [Contexts -> Srids \cup {Unknown}]
    BY <1>1
  <2>2. count' \in 0..Items
    BY DEF Slots
  <2>3. QED
    BY <2>1, <2>2 DEF CacheTypeOK, Slots, Contexts
<1>5. EmptySlots'
  <2>1. \A i \in Slots : sl[i].srid = Unknown => sl[i].mcxt = 0
    BY DEF CacheInv, EmptySlots, Empty
  <2>2. \A i \in Slots : slot'[i].srid = Unknown => slot'[i].mcxt = 0
    BY <1>2, <2>1
  <2>3. QED
    BY <2>2 DEF EmptySlots, Slots
<1>6. \A i \in Slots : sl[i].srid # s
  BY DEF IsInPROJ4SRSCache, Empty
<1>7. ASSUME NEW i \in Slots, slot'[i].srid # Unknown
      PROVE  slot'[i].mcxt \in Contexts /\ pjHash'[slot'[i].mcxt] = slot'[i].srid
  <2>1. CASE i = at
    BY <1>2, <1>3, <2>1
  <2>2. CASE i # at
    <3>1. slot'[i] = sl[i] /\ sl[i].mcxt \in Contexts /\ h[sl[i].mcxt] = sl[i].srid
      BY <1>2, <1>7, <2>2
    <3>2. sl[i].mcxt # c
      BY <1>7, <3>1
    <3>3. QED
      BY <1>3, <3>1, <3>2
  <2>3. QED
    BY <2>1, <2>2
<1>8. ASSUME NEW i \in Slots, NEW j \in Slots, slot'[i].srid = slot'[j].srid, slot'[i].srid # Unknown
      PROVE  i = j
  <2>1. CASE i = at \/ j = at
    BY <1>2, <1>6, <1>8, <2>1
  <2>2. CASE i # at /\ j # at
    <3>1. sl[i].srid = sl[j].srid /\ sl[i].srid # Unknown
      BY <1>2, <1>8, <2>2
    <3>2. slot[i].srid = slot[j].srid /\ slot[i].srid # Unknown
      BY <3>1 DEF Empty
    <3>3. QED
      BY <3>2 DEF CacheInv, SlotsAreBacked
  <2>3. QED
    BY <2>1, <2>2
<1>9. SlotsAreBacked'
  <2>1. \A i \in Slots : slot'[i].srid # Unknown =>
           slot'[i].mcxt \in Live' /\ pjHash'[slot'[i].mcxt] = slot'[i].srid
    BY <1>7 DEF Live, Contexts
  <2>2. QED
    BY <1>8, <2>1 DEF SlotsAreBacked, Slots
<1>10. IsInPROJ4SRSCache(s)'
  BY <1>2 DEF IsInPROJ4SRSCache, Slots
<1>11. QED
  BY <1>4, <1>5, <1>9, <1>10 DEF CacheInv

\* Making sure of one system keeps the cache in order, caches that system, and
\* frees no projection of the other: it may free those of a third.
LEMMA EnsureIsSound ==
    ASSUME CacheInv, NEW s \in Srids, NEW other \in Srids, Ensure(s, other)
    PROVE  /\ CacheInv'
           /\ IsInPROJ4SRSCache(s)'
           /\ \A c \in Contexts : pjHash[c] = other => pjHash'[c] = other
<1>1. CASE IsInPROJ4SRSCache(s) /\ UNCHANGED <<slot, count, pjHash>>
  <2>1. CacheInv'
    BY <1>1 DEF CacheInv, CacheTypeOK, EmptySlots, SlotsAreBacked, Live, Slots, Contexts
  <2>2. IsInPROJ4SRSCache(s)'
    BY <1>1 DEF IsInPROJ4SRSCache, Slots
  <2>3. QED
    BY <1>1, <2>1, <2>2
<1>2. CASE ~IsInPROJ4SRSCache(s) /\ Add(s, other)
  <2> DEFINE full  == count = Items
             at    == IF full THEN Victim(other) ELSE count
             sl    == IF full THEN ClearedSlots(slot, slot[at].srid) ELSE slot
             freed == IF full THEN ClearedContexts(slot, slot[at].srid) ELSE {}
             h     == DeleteContexts(pjHash, freed)
  <2>1. at \in Slots /\ (full => slot[at].srid # other)
    <3>1. count \in 0..Items
      BY DEF CacheInv, CacheTypeOK
    <3>2. CASE full
      BY <3>2, VictimSpares
    <3>3. CASE ~full
      BY <3>1, <3>3 DEF Slots
    <3>4. QED
      BY <3>2, <3>3
  <2>2. PICK c \in Contexts : /\ h[c] = Unknown
                              /\ pjHash' = [h EXCEPT ![c] = s]
                              /\ slot' = [sl EXCEPT ![at] = [srid |-> s, mcxt |-> c]]
    BY <1>2 DEF Add
  <2>3. count' = at + 1
    BY <1>2 DEF Add
  <2>4. /\ sl \in [Slots -> Slot]
        /\ h \in [Contexts -> Srids \cup {Unknown}]
        /\ \A i \in Slots : sl[i] = Empty \/ sl[i] = slot[i]
        /\ \A i \in Slots : sl[i].srid # Unknown => sl[i].mcxt \in Contexts /\ h[sl[i].mcxt] = sl[i].srid
        /\ \A d \in Contexts : pjHash[d] = other => h[d] = other
    <3>1. CASE full
      BY <2>1, <3>1, ClearingIsSound
    <3>2. CASE ~full
      <4>1. slot \in [Slots -> Slot] /\ pjHash \in [Contexts -> Srids \cup {Unknown}]
        BY DEF CacheInv, CacheTypeOK
      <4>2. h \in [Contexts -> Srids \cup {Unknown}] /\ \A d \in Contexts : h[d] = pjHash[d]
        BY <3>2, <4>1, DeleteIsExact
      <4>3. \A i \in Slots : slot[i].srid # Unknown =>
               slot[i].mcxt \in Contexts /\ pjHash[slot[i].mcxt] = slot[i].srid
        BY DEF CacheInv, SlotsAreBacked, Live
      <4>4. QED
        BY <3>2, <4>1, <4>2, <4>3
    <3>3. QED
      BY <3>1, <3>2
  <2> HIDE DEF at, sl, h
  <2>5. CacheInv' /\ IsInPROJ4SRSCache(s)'
    BY <1>2, <2>1, <2>2, <2>3, <2>4, FillingIsSound
  <2>6. \A d \in Contexts : pjHash[d] = other => pjHash'[d] = other
    BY <2>2, <2>4
  <2>7. QED
    BY <2>5, <2>6
<1>3. QED
  BY <1>1, <1>2 DEF Ensure

\* The projection a call takes after making sure of a system is alive and that
\* system's, and the one it has taken of the other system still is.
LEMMA TakenIsAlive ==
    ASSUME CacheInv, NEW s \in Srids, NEW other \in Srids, Ensure(s, other)
    PROVE  /\ GetProjectionFromPROJ4SRSCache(slot', s) \in Live'
           /\ pjHash'[GetProjectionFromPROJ4SRSCache(slot', s)] = s
           /\ \A c \in Live : pjHash[c] = other => c \in Live' /\ pjHash'[c] = other
<1>1. CacheInv' /\ IsInPROJ4SRSCache(s)' /\ \A c \in Contexts : pjHash[c] = other => pjHash'[c] = other
  BY EnsureIsSound
<1>2. PICK i \in Slots : slot'[i].srid = s
  BY <1>1 DEF IsInPROJ4SRSCache, Slots
<1>3. \A j \in Slots : slot'[j].srid = s => j = i
  BY <1>1, <1>2 DEF CacheInv, SlotsAreBacked, Slots
<1>4. i <= i
  BY DEF Slots
<1>5. GetProjectionFromPROJ4SRSCache(slot', s) = slot'[i].mcxt
  BY <1>2, <1>3, <1>4 DEF GetProjectionFromPROJ4SRSCache
<1>6. slot'[i].mcxt \in Live' /\ pjHash'[slot'[i].mcxt] = s
  BY <1>1, <1>2 DEF CacheInv, SlotsAreBacked, Slots
<1>7. \A c \in Live : pjHash[c] = other => c \in Live' /\ pjHash'[c] = other
  BY <1>1 DEF Live, Contexts
<1>8. QED
  BY <1>5, <1>6, <1>7

-----------------------------------------------------------------------------
LEMMA InvInit == Init => IInv
BY DEF Init, IInv, TypeOK, EmptySlots, CallNames, SlotsAreBacked, TransformsBetweenItsSystems,
       Empty, Idle, Slot, Call, Slots, Contexts

LEMMA InvNext == IInv /\ [Next]_vars => IInv'
<1> SUFFICES ASSUME IInv, [Next]_vars PROVE IInv'
  OBVIOUS
<1>c. CacheInv /\ call \in Call
  BY DEF IInv, CacheInv, TypeOK, CacheTypeOK
<1>t. ASSUME CacheInv', call' \in Call, CallNames', TransformsBetweenItsSystems'
      PROVE  IInv'
  BY <1>t DEF IInv, CacheInv, TypeOK, CacheTypeOK
<1>u. ASSUME UNCHANGED <<slot, count, pjHash>> PROVE CacheInv' /\ Live' = Live
  BY <1>c, <1>u DEF CacheInv, CacheTypeOK, EmptySlots, SlotsAreBacked, Live, Slots, Contexts
<1>1. ASSUME NEW f \in Srids, NEW t \in Srids, Transform(f, t) PROVE IInv'
  <2>1. call' = [pc |-> "output", from |-> f, to |-> t, out |-> 0, in |-> 0]
    BY <1>1 DEF Transform, Idle
  <2>2. call' \in Call
    BY <2>1 DEF Call
  <2>3. CallNames' /\ TransformsBetweenItsSystems'
    BY <2>1 DEF CallNames, TransformsBetweenItsSystems
  <2>4. CacheInv'
    BY <1>1, <1>u DEF Transform
  <2>5. QED
    BY <1>t, <2>2, <2>3, <2>4
<1>2. CASE TakeOutput
  <2>1. call.from \in Srids /\ call.to \in Srids
    BY <1>2 DEF IInv, CallNames, TakeOutput
  <2>2. PICK to \in Srids, from \in Srids : to = call.to /\ from = call.from
    BY <2>1
  <2>3. /\ Ensure(to, from)
        /\ call' = [call EXCEPT !.pc = "input", !.out = GetProjectionFromPROJ4SRSCache(slot', to)]
    BY <1>2, <2>2 DEF TakeOutput
  <2> DEFINE c == GetProjectionFromPROJ4SRSCache(slot', to)
  <2>4. CacheInv' /\ c \in Live' /\ pjHash'[c] = to
    BY <1>c, <2>3, EnsureIsSound, TakenIsAlive
  <2> HIDE DEF c
  <2>5. c \in 0..MaxContexts
    BY <2>4 DEF Live, Contexts
  <2>6. /\ call' \in Call /\ call'.pc = "input" /\ call'.out = c
        /\ call'.from = from /\ call'.to = to
    BY <1>c, <2>2, <2>3, <2>5 DEF Call, c
  <2>7. CallNames' /\ TransformsBetweenItsSystems'
    BY <2>4, <2>6 DEF CallNames, TransformsBetweenItsSystems
  <2>8. QED
    BY <1>t, <2>4, <2>6, <2>7
<1>3. CASE TakeInput
  <2>1. call.from \in Srids /\ call.to \in Srids /\ call.out \in Live /\ pjHash[call.out] = call.to
    BY <1>3 DEF IInv, CallNames, TransformsBetweenItsSystems, TakeInput
  <2>2. PICK to \in Srids, from \in Srids, out \in Live :
           to = call.to /\ from = call.from /\ out = call.out
    BY <2>1
  <2>3. /\ Ensure(from, to)
        /\ call' = [call EXCEPT !.pc = "transform", !.in = GetProjectionFromPROJ4SRSCache(slot', from)]
    BY <1>3, <2>2 DEF TakeInput
  <2> DEFINE c == GetProjectionFromPROJ4SRSCache(slot', from)
  <2>4. /\ CacheInv' /\ c \in Live' /\ pjHash'[c] = from
        /\ out \in Live' /\ pjHash'[out] = to
    <3>1. pjHash[out] = to
      BY <2>1, <2>2
    <3>2. QED
      BY <1>c, <2>3, <3>1, EnsureIsSound, TakenIsAlive
  <2> HIDE DEF c
  <2>5. c \in 0..MaxContexts
    BY <2>4 DEF Live, Contexts
  <2>6. /\ call' \in Call /\ call'.pc = "transform" /\ call'.in = c /\ call'.out = out
        /\ call'.from = from /\ call'.to = to
    BY <1>c, <2>2, <2>3, <2>5 DEF Call, c
  <2>7. CallNames' /\ TransformsBetweenItsSystems'
    BY <2>4, <2>6 DEF CallNames, TransformsBetweenItsSystems
  <2>8. QED
    BY <1>t, <2>4, <2>6, <2>7
<1>i. ASSUME CacheInv', call' = Idle PROVE IInv'
  <2>1. call' \in Call /\ CallNames' /\ TransformsBetweenItsSystems'
    BY <1>i DEF Idle, Call, CallNames, TransformsBetweenItsSystems
  <2>2. QED
    BY <1>i, <1>t, <2>1
<1>4. CASE Return
  BY <1>4, <1>i, <1>u DEF Return
<1>5. CASE EndQuery
  <2>1. pjHash \in [Contexts -> Srids \cup {Unknown}]
    BY <1>c DEF CacheInv, CacheTypeOK
  <2>2. pjHash' \in [Contexts -> Srids \cup {Unknown}]
    BY <1>5, <2>1, DeleteIsExact DEF EndQuery
  <2>3. slot' = [i \in Slots |-> Empty] /\ count' = 0
    BY <1>5 DEF EndQuery
  <2>4. CacheInv'
    BY <2>2, <2>3 DEF CacheInv, CacheTypeOK, EmptySlots, SlotsAreBacked, Empty, Slot, Slots, Contexts
  <2>5. QED
    BY <1>5, <1>i, <2>4 DEF EndQuery
<1>6. CASE UNCHANGED vars
  <2>1. CacheInv' /\ Live' = Live
    BY <1>6, <1>u DEF vars
  <2>2. call' \in Call /\ CallNames' /\ TransformsBetweenItsSystems'
    BY <1>6, <1>c, <2>1 DEF IInv, CallNames, TransformsBetweenItsSystems, vars
  <2>3. QED
    BY <1>t, <2>1, <2>2
<1>7. QED
  BY <1>1, <1>2, <1>3, <1>4, <1>5, <1>6 DEF Next

-----------------------------------------------------------------------------
(* The prepared geometries of the predicates. *)

\* The entry of the call site's own context is what the call site has prepared,
\* and a context that has not been made has no entry.
PreparedInv ==
    /\ extra \in G!Extra
    /\ prepHash \in [G!Contexts -> G!MaybeGeom]
    /\ contexts \in 0..MaxPrepared
    /\ alive = G!Freed
    /\ extra.type = 2 => extra.context \in 1..contexts /\ prepHash[extra.context] = extra.prepared
    /\ \A c \in G!Contexts : c > contexts => prepHash[c] = NoGeom

\* What is to be freed is the graph of the table's entries that name something.
LEMMA FreedIsTheTable ==
    ASSUME prepHash \in [G!Contexts -> G!MaybeGeom]
    PROVE  \A c, g : <<c, g>> \in G!Freed <=> c \in G!Contexts /\ g = prepHash[c] /\ g # NoGeom
BY DEF G!Freed

\* Changing one entry changes what is to be freed in that entry alone.
LEMMA FreedChanges ==
    ASSUME prepHash \in [G!Contexts -> G!MaybeGeom],
           NEW c \in G!Contexts, NEW g \in G!MaybeGeom,
           prepHash' = [prepHash EXCEPT ![c] = g]
    PROVE  /\ prepHash' \in [G!Contexts -> G!MaybeGeom]
           /\ G!Freed' = (G!Freed \ {<<c, prepHash[c]>>}) \cup (IF g = NoGeom THEN {} ELSE {<<c, g>>})
<1>1. prepHash' \in [G!Contexts -> G!MaybeGeom]
  OBVIOUS
<1>2. QED
  BY <1>1 DEF G!Freed, G!Contexts, G!MaybeGeom

LEMMA NewCacheKeepsInv ==
    ASSUME PreparedInv, NEW k1 \in Geoms, NEW k2 \in G!MaybeGeom, G!NewPrepGeomCache(k1, k2)
    PROVE  PreparedInv'
<1> DEFINE c == contexts + 1
<1>1. c \in G!Contexts /\ contexts' = c /\ prepHash[c] = NoGeom
  BY DEF PreparedInv, G!NewPrepGeomCache, G!Contexts
<1>2. prepHash' = [prepHash EXCEPT ![c] = NoGeom] /\ alive' = alive
  BY DEF G!NewPrepGeomCache
<1>3. prepHash' = prepHash
  BY <1>1, <1>2 DEF PreparedInv
<1>4. G!Freed' = G!Freed
  BY <1>3 DEF G!Freed, G!Contexts
<1>5. extra' \in G!Extra /\ extra'.context = c /\ extra'.prepared = NoGeom
  <2>1. G!NoCache \in G!Extra /\ G!NoCache.prepared = NoGeom
    BY DEF G!NoCache, G!Extra, G!MaybeGeom
  <2>2. c \in 0..MaxPrepared /\ k1 \in G!MaybeGeom /\ k2 \in G!MaybeGeom /\ 2 \in 0..2
    BY <1>1 DEF G!Contexts, G!MaybeGeom
  <2>3. extra' = [G!NoCache EXCEPT !.type = 2, !.context = c, !.key1 = k1, !.key2 = k2]
    BY DEF G!NewPrepGeomCache
  <2>4. extra'.context = c /\ extra'.prepared = NoGeom
    BY <2>1, <2>3 DEF G!Extra
  <2>5. ASSUME NEW q \in G!Extra, NEW d \in 0..MaxPrepared
        PROVE  [q EXCEPT !.type = 2, !.context = d, !.key1 = k1, !.key2 = k2] \in G!Extra
    BY <2>2 DEF G!Extra
  <2>6. QED
    BY <2>1, <2>2, <2>3, <2>4, <2>5
<1>6. contexts' \in 0..MaxPrepared /\ c \in 1..contexts'
  BY <1>1 DEF G!Contexts
<1>7. \A d \in G!Contexts : d > contexts' => prepHash'[d] = NoGeom
  BY <1>1, <1>3 DEF PreparedInv, G!Contexts
<1>8. prepHash' \in [G!Contexts -> G!MaybeGeom] /\ alive' = G!Freed'
  BY <1>2, <1>3, <1>4 DEF PreparedInv
<1>9. QED
  BY <1>1, <1>3, <1>5, <1>6, <1>7, <1>8 DEF PreparedInv, G!Contexts, G!MaybeGeom

LEMMA HitKeepsInv ==
    ASSUME PreparedInv, extra.type = 2, NEW n \in 1..2, NEW g \in Geoms, G!Hit(n, g)
    PROVE  PreparedInv'
<1>1. CASE extra.prepared # NoGeom
  BY <1>1 DEF PreparedInv, G!Hit, G!Freed, G!Contexts, G!MaybeGeom
<1>2. CASE extra.prepared = NoGeom
  <2> DEFINE c == extra.context
  <2>1. c \in G!Contexts /\ prepHash[c] = NoGeom /\ c \in 1..contexts
    BY <1>2 DEF PreparedInv, G!Contexts
  <2>2. /\ extra' = [extra EXCEPT !.prepared = g, !.argnum = n]
        /\ prepHash' = [prepHash EXCEPT ![c] = g]
        /\ alive' = alive \cup {<<c, g>>}
        /\ contexts' = contexts
    BY <1>2 DEF G!Hit
  <2>3. extra' \in G!Extra /\ extra'.type = 2 /\ extra'.context = c /\ extra'.prepared = g
    <3>1. extra \in G!Extra /\ g \in G!MaybeGeom /\ n \in 0..2
      BY DEF PreparedInv, G!MaybeGeom
    <3>2. extra'.type = 2 /\ extra'.context = c /\ extra'.prepared = g
      BY <2>2, <3>1 DEF G!Extra
    <3>3. extra' \in G!Extra
      BY <2>2, <3>1 DEF G!Extra
    <3>4. QED
      BY <3>2, <3>3
  <2>4. prepHash' \in [G!Contexts -> G!MaybeGeom] /\ G!Freed' = (G!Freed \ {<<c, NoGeom>>}) \cup {<<c, g>>}
    BY <2>1, <2>2, FreedChanges DEF PreparedInv, G!MaybeGeom
  <2>5. <<c, NoGeom>> \notin G!Freed
    BY FreedIsTheTable DEF PreparedInv
  <2>6. alive' = G!Freed'
    BY <2>2, <2>4, <2>5 DEF PreparedInv
  <2>7. prepHash'[c] = g /\ \A d \in G!Contexts : d > contexts' => prepHash'[d] = NoGeom
    BY <2>1, <2>2 DEF PreparedInv, G!Contexts
  <2>8. QED
    BY <2>1, <2>2, <2>3, <2>4, <2>6, <2>7 DEF PreparedInv
<1>3. QED
  BY <1>1, <1>2

LEMMA MissKeepsInv ==
    ASSUME PreparedInv, extra.type = 2, NEW k1 \in Geoms, NEW k2 \in G!MaybeGeom, G!Miss(k1, k2)
    PROVE  PreparedInv'
<1> DEFINE c == extra.context
<1>1. c \in G!Contexts /\ prepHash[c] = extra.prepared /\ c \in 1..contexts
  BY DEF PreparedInv, G!Contexts
<1>2. contexts' = contexts /\ alive' = alive \ {<<c, prepHash[c]>>}
  BY <1>1 DEF G!Miss
<1>3. prepHash' = [prepHash EXCEPT ![c] = NoGeom]
  BY <1>1 DEF G!Miss, PreparedInv
<1>4. extra' \in G!Extra /\ extra'.type = 2 /\ extra'.context = c /\ extra'.prepared = NoGeom
  <2> DEFINE arg  == IF extra.prepared # NoGeom THEN 0 ELSE extra.argnum
             key2 == IF k2 = NoGeom THEN extra.key2 ELSE k2
  <2>1. extra \in G!Extra /\ NoGeom \in G!MaybeGeom /\ k1 \in G!MaybeGeom
    BY DEF PreparedInv, G!MaybeGeom
  <2>2. arg \in 0..2 /\ key2 \in G!MaybeGeom
    BY <2>1 DEF G!Extra
  <2>3. extra' = [extra EXCEPT !.prepared = NoGeom, !.argnum = arg, !.key1 = k1, !.key2 = key2]
    BY DEF G!Miss
  <2> HIDE DEF arg, key2
  <2>4. extra'.type = 2 /\ extra'.context = c /\ extra'.prepared = NoGeom
    BY <2>1, <2>3 DEF G!Extra
  <2>5. extra' \in G!Extra
    BY <2>1, <2>2, <2>3 DEF G!Extra
  <2>6. QED
    BY <2>4, <2>5
<1>5. prepHash' \in [G!Contexts -> G!MaybeGeom] /\ G!Freed' = G!Freed \ {<<c, prepHash[c]>>}
  BY <1>1, <1>3, FreedChanges DEF PreparedInv, G!MaybeGeom
<1>6. prepHash'[c] = NoGeom /\ \A d \in G!Contexts : d > contexts' => prepHash'[d] = NoGeom
  BY <1>1, <1>2, <1>3 DEF PreparedInv
<1>7. QED
  BY <1>1, <1>2, <1>4, <1>5, <1>6 DEF PreparedInv

\* No call of a predicate leaves an object without its entry.
LEMMA PredicateKeepsInv ==
    ASSUME PreparedInv, PredicateStep
    PROVE  PreparedInv'
<1> PICK a \in Geoms, b \in Geoms :
        G!BoxCall(a, b) \/ G!PointCall(a, b) \/ G!PreparedCall(a, b) \/ G!PlainCall(a, b)
  BY DEF PredicateStep
<1>1. CASE G!BoxCall(a, b) \/ G!PlainCall(a, b)
  BY <1>1 DEF G!BoxCall, G!PlainCall, PreparedInv, G!Freed, G!Contexts, G!MaybeGeom
<1>2. CASE G!PointCall(a, b)
  <2> DEFINE poly == G!PolygonOf(a, b)
  <2>1. poly \in Geoms
    BY DEF G!PolygonOf
  <2>2. extra' = G!RetrievedCache(poly) /\ UNCHANGED <<prepHash, contexts, alive>>
    BY <1>2 DEF G!PointCall, G!PointInPolygon
  <2>3. extra' \in G!Extra /\ extra'.type = 1
    BY <2>1, <2>2 DEF G!RetrievedCache, G!NoCache, G!Extra, G!MaybeGeom, PreparedInv
  <2>4. QED
    BY <2>2, <2>3 DEF PreparedInv, G!Freed, G!Contexts, G!MaybeGeom
<1>3. CASE G!PreparedCall(a, b)
  <2> DEFINE k2 == IF fun = "intersects" THEN b ELSE NoGeom
  <2>1. k2 \in G!MaybeGeom
    BY DEF G!MaybeGeom
  <2>2. G!GetPrepGeomCache(a, k2)
    BY <1>3 DEF G!PreparedCall, G!Prepared
  <2> HIDE DEF k2
  <2>3. \/ G!NewPrepGeomCache(a, k2)
        \/ extra.type = 2 /\ G!Hit(1, a)
        \/ extra.type = 2 /\ k2 # NoGeom /\ G!Hit(2, k2)
        \/ extra.type = 2 /\ G!Miss(a, k2)
    BY <2>2 DEF G!GetPrepGeomCache
  <2>4. k2 # NoGeom => k2 \in Geoms
    BY <2>1 DEF G!MaybeGeom
  <2>5. QED
    BY <2>1, <2>3, <2>4, NewCacheKeepsInv, HitKeepsInv, MissKeepsInv
<1>4. QED
  BY <1>1, <1>2, <1>3

\* The end of the query frees everything, once.
LEMMA EndKeepsInv ==
    ASSUME PreparedInv, G!EndQuery
    PROVE  PreparedInv'
<1>1. extra' = G!NoCache /\ contexts' = 0 /\ prepHash' = [c \in G!Contexts |-> NoGeom]
  BY DEF G!EndQuery
<1>2. alive' = {}
  BY DEF PreparedInv, G!EndQuery
<1>3. G!Freed' = {}
  BY <1>1 DEF G!Freed, G!Contexts
<1>4. extra' \in G!Extra /\ extra'.type = 0
  BY <1>1 DEF G!NoCache, G!Extra, G!MaybeGeom
<1>5. prepHash' \in [G!Contexts -> G!MaybeGeom]
  BY <1>1 DEF G!MaybeGeom
<1>6. QED
  BY <1>1, <1>2, <1>3, <1>4, <1>5 DEF PreparedInv, G!Contexts

-----------------------------------------------------------------------------
(* The answers of the predicates, on geometries of which the two shortcuts *)
(* say what GEOS would: MCBackend's are such.                              *)

\* What is prepared is the key of its argument, of the second only where
\* intersects may swap the two.
PreparedIsKey ==
    extra.prepared # NoGeom =>
       \/ extra.argnum = 1 /\ extra.prepared = extra.key1
       \/ extra.argnum = 2 /\ extra.prepared = extra.key2 /\ fun = "intersects"

ExactInv == fun \in Funs /\ PreparedIsKey /\ AnswersAreExact

\* The ring index a call uses is that of its own polygon.
LEMMA IndexIsOwn ==
    ASSUME PreparedInv, PreparedIsKey, NEW a \in Geoms, NEW b \in Geoms, G!PointInPolygon(a, b)
    PROVE  /\ answer' = [a |-> a, b |-> b,
                         result |-> G!Inside(fun, G!PointIn(G!PolygonOf(a, b), G!PointOf(a, b)))]
           /\ fun' = fun
           /\ PreparedIsKey'
<1> DEFINE poly == G!PolygonOf(a, b)
<1>1. extra' = G!RetrievedCache(poly) /\ fun' = fun
  BY DEF G!PointInPolygon
<1>2. extra'.poly = NoGeom \/ extra'.poly = poly
  <2>1. extra \in G!Extra
    BY DEF PreparedInv
  <2>2. QED
    BY <1>1, <2>1 DEF G!RetrievedCache, G!NoCache, G!Extra
<1>3. answer' = [a |-> a, b |-> b,
                 result |-> G!Inside(fun, G!PointIn(poly, G!PointOf(a, b)))]
  BY <1>1, <1>2 DEF G!PointInPolygon
<1>4. PreparedIsKey'
  <2>1. extra \in G!Extra
    BY DEF PreparedInv
  <2>2. CASE extra.type # 1
    BY <1>1, <2>2 DEF G!RetrievedCache, G!NoCache, PreparedIsKey
  <2>3. CASE extra.type = 1
    <3>1. /\ extra'.prepared = extra.prepared /\ extra'.argnum = extra.argnum
          /\ extra'.key1 = extra.key1 /\ extra'.key2 = extra.key2
      BY <1>1, <2>1, <2>3 DEF G!RetrievedCache, G!Extra
    <3>2. QED
      BY <1>1, <3>1 DEF PreparedIsKey
  <2>4. QED
    BY <2>2, <2>3
<1>5. QED
  BY <1>1, <1>3, <1>4

\* What is prepared after a call is one of the call's two geometries, the one
\* that argnum says.
LEMMA PreparedIsOwn ==
    ASSUME PreparedInv, PreparedIsKey, NEW a \in Geoms, NEW b \in Geoms, fun' = fun,
           G!GetPrepGeomCache(a, IF fun = "intersects" THEN b ELSE NoGeom)
    PROVE  /\ PreparedIsKey'
           /\ extra'.prepared # NoGeom =>
                 \/ extra'.argnum = 1 /\ extra'.prepared = a
                 \/ extra'.argnum = 2 /\ extra'.prepared = b /\ fun = "intersects"
<1> DEFINE k2 == IF fun = "intersects" THEN b ELSE NoGeom
<1> extra \in G!Extra
  BY DEF PreparedInv
<1>k. k2 # NoGeom => k2 = b /\ fun = "intersects"
  OBVIOUS
<1> HIDE DEF k2
<1>1. \/ G!NewPrepGeomCache(a, k2)
      \/ extra.argnum # 2 /\ extra.key1 = a /\ G!Hit(1, a)
      \/ k2 # NoGeom /\ extra.argnum # 1 /\ extra.key2 = k2 /\ G!Hit(2, k2)
      \/ G!Miss(a, k2)
  BY DEF G!GetPrepGeomCache, G!SameKey, k2
<1>2. CASE G!NewPrepGeomCache(a, k2)
  <2>1. extra'.prepared = NoGeom
    BY <1>2 DEF G!NewPrepGeomCache, G!NoCache
  <2>2. QED
    BY <2>1 DEF PreparedIsKey
<1>3. CASE extra.argnum # 2 /\ extra.key1 = a /\ G!Hit(1, a)
  <2>1. CASE extra.prepared # NoGeom
    BY <1>3, <2>1 DEF G!Hit, PreparedIsKey
  <2>2. CASE extra.prepared = NoGeom
    <3>1. extra'.prepared = a /\ extra'.argnum = 1 /\ extra'.key1 = a
      BY <1>3, <2>2 DEF G!Hit, G!Extra
    <3>2. QED
      BY <3>1 DEF PreparedIsKey
  <2>3. QED
    BY <2>1, <2>2
<1>4. CASE k2 # NoGeom /\ extra.argnum # 1 /\ extra.key2 = k2 /\ G!Hit(2, k2)
  <2>1. CASE extra.prepared # NoGeom
    BY <1>4, <1>k, <2>1 DEF G!Hit, PreparedIsKey
  <2>2. CASE extra.prepared = NoGeom
    <3>1. extra'.prepared = b /\ extra'.argnum = 2 /\ extra'.key2 = b /\ fun = "intersects"
      BY <1>4, <1>k, <2>2 DEF G!Hit, G!Extra
    <3>2. QED
      BY <3>1 DEF PreparedIsKey
  <2>3. QED
    BY <2>1, <2>2
<1>5. CASE G!Miss(a, k2)
  <2>1. extra'.prepared = NoGeom
    BY <1>5 DEF G!Miss, G!Extra
  <2>2. QED
    BY <2>1 DEF PreparedIsKey
<1>6. QED
  BY <1>1, <1>2, <1>3, <1>4, <1>5

LEMMA PredicateKeepsExact ==
    ASSUME ShortcutsAreSound, PreparedInv, ExactInv, PredicateStep
    PROVE  ExactInv'
<1> PICK a \in Geoms, b \in Geoms :
        G!BoxCall(a, b) \/ G!PointCall(a, b) \/ G!PreparedCall(a, b) \/ G!PlainCall(a, b)
  BY DEF PredicateStep
<1>e. ASSUME fun' = fun, PreparedIsKey', NEW r, r = G!GEOS(fun, a, b),
             answer' = [a |-> a, b |-> b, result |-> r]
      PROVE  ExactInv'
  <2>1. answer'.a = a /\ answer'.b = b /\ answer'.result = r
    BY <1>e
  <2>2. answer'.result = G!GEOS(fun', answer'.a, answer'.b)
    BY <1>e, <2>1
  <2>3. AnswersAreExact'
    BY <2>2 DEF AnswersAreExact, G!AnswersAreExact
  <2>4. QED
    BY <1>e, <2>3 DEF ExactInv
<1>k. ASSUME fun' = fun, extra' = extra PROVE PreparedIsKey'
  BY <1>k DEF ExactInv, PreparedIsKey
<1>f. fun \in Funs
  BY DEF ExactInv
<1>1. CASE G!BoxCall(a, b)
  BY <1>1, <1>e, <1>f, <1>k DEF G!BoxCall, ShortcutsAreSound
<1>2. CASE G!PointCall(a, b)
  <2>1. G!Inside(fun, G!PointIn(G!PolygonOf(a, b), G!PointOf(a, b))) = G!GEOS(fun, a, b)
    BY <1>2, <1>f DEF G!PointCall, ShortcutsAreSound
  <2>2. G!PointInPolygon(a, b)
    BY <1>2 DEF G!PointCall
  <2>3. QED
    BY <1>e, <2>1, <2>2, IndexIsOwn DEF ExactInv
<1>3. CASE G!PreparedCall(a, b)
  <2>1. /\ G!GetPrepGeomCache(a, IF fun = "intersects" THEN b ELSE NoGeom)
        /\ fun' = fun
        /\ answer' = [a |-> a, b |-> b, result |-> G!PreparedAnswer(extra', a, b)]
    BY <1>3 DEF G!PreparedCall, G!Prepared
  <2>2. /\ PreparedIsKey'
        /\ extra'.prepared # NoGeom =>
              \/ extra'.argnum = 1 /\ extra'.prepared = a
              \/ extra'.argnum = 2 /\ extra'.prepared = b /\ fun = "intersects"
    BY <2>1, PreparedIsOwn DEF ExactInv
  <2>3. G!GEOS("intersects", b, a) = G!GEOS("intersects", a, b)
    BY DEF G!GEOS
  <2>4. G!PreparedAnswer(extra', a, b) = G!GEOS(fun, a, b)
    BY <2>2, <2>3 DEF G!PreparedAnswer
  <2>5. QED
    BY <1>e, <2>1, <2>2, <2>4
<1>4. CASE G!PlainCall(a, b)
  BY <1>4, <1>e, <1>k DEF G!PlainCall
<1>5. QED
  BY <1>1, <1>2, <1>3, <1>4

-----------------------------------------------------------------------------
(* The backend: a step of one cache leaves the other alone. *)

LEMMA BackendInvInit == BackendInit => IInv /\ PreparedInv
<1> SUFFICES ASSUME BackendInit PROVE IInv /\ PreparedInv
  OBVIOUS
<1>1. IInv
  BY InvInit DEF BackendInit
<1>2. extra = G!NoCache /\ contexts = 0 /\ prepHash = [c \in G!Contexts |-> NoGeom] /\ alive = {}
  BY DEF BackendInit, G!Init
<1>3. G!Freed = {}
  BY <1>2 DEF G!Freed
<1>4. extra \in G!Extra /\ extra.type = 0
  BY <1>2 DEF G!NoCache, G!Extra, G!MaybeGeom
<1>5. prepHash \in [G!Contexts -> G!MaybeGeom]
  BY <1>2 DEF G!MaybeGeom
<1>6. PreparedInv
  BY <1>2, <1>3, <1>4, <1>5 DEF PreparedInv
<1>7. QED
  BY <1>1, <1>6

LEMMA BackendInvNext == IInv /\ PreparedInv /\ [BackendNext]_backendVars => IInv' /\ PreparedInv'
<1> SUFFICES ASSUME IInv, PreparedInv, [BackendNext]_backendVars PROVE IInv' /\ PreparedInv'
  OBVIOUS
<1>a. ASSUME UNCHANGED predicateVars PROVE PreparedInv'
  BY <1>a DEF predicateVars, PreparedInv, G!Freed, G!Contexts, G!MaybeGeom
<1>1. CASE TransformStep
  <2>1. Next /\ UNCHANGED predicateVars
    BY <1>1 DEF TransformStep, Next
  <2>2. QED
    BY <2>1, <1>a, InvNext
<1>2. CASE PredicateStep
  <2>1. UNCHANGED vars
    BY <1>2 DEF PredicateStep
  <2>2. QED
    BY <1>2, <2>1, InvNext, PredicateKeepsInv
<1>3. CASE QueryEnds
  <2>1. Next /\ G!EndQuery
    BY <1>3 DEF QueryEnds, Next
  <2>2. QED
    BY <2>1, InvNext, EndKeepsInv
<1>4. CASE UNCHANGED backendVars
  <2>1. UNCHANGED vars /\ UNCHANGED predicateVars
    BY <1>4 DEF backendVars
  <2>2. QED
    BY <2>1, <1>a, InvNext
<1>5. QED
  BY <1>1, <1>2, <1>3, <1>4 DEF BackendNext

LEMMA BackendInvariant == BackendSpec => [](IInv /\ PreparedInv)
BY BackendInvInit, BackendInvNext, PTL DEF BackendSpec

\* Type correctness of the cache of projections, its hash table and the call.
THEOREM CacheTypeCorrect == BackendSpec => []TypeOK
<1>1. IInv => TypeOK
  BY DEF IInv
<1>2. QED
  BY BackendInvariant, <1>1, PTL

\* Every cached projection is alive, its SRID's own, and cached once, however
\* many systems a query uses and whatever the size of the cache.
THEOREM CachedIsBacked == BackendSpec => []SlotsAreBacked
<1>1. IInv => SlotsAreBacked
  BY DEF IInv
<1>2. QED
  BY BackendInvariant, <1>1, PTL

\* transform() uses the two projections its call names, both alive: two items
\* are enough for adding the one never to free the other.
THEOREM ProjectionsAreTheCalls == BackendSpec => []TransformsBetweenItsSystems
<1>1. IInv => TransformsBetweenItsSystems
  BY DEF IInv
<1>2. QED
  BY BackendInvariant, <1>1, PTL

\* GetPrepGeomCache and PreparedCacheDelete: every GEOS object alive is named by
\* its context's entry and every entry names one alive, so that the end of the
\* query frees each of them, and once.
THEOREM EntriesAlwaysNameTheLiving == BackendSpec => []EntriesNameTheLiving
<1>1. PreparedInv => EntriesNameTheLiving
  BY DEF PreparedInv, EntriesNameTheLiving, G!EntriesNameTheLiving
<1>2. QED
  BY BackendInvariant, <1>1, PTL

\* The predicates: whatever rows came before, a call answers what GEOS would of
\* its two geometries, if the box tests and the crossing of a ray do.
THEOREM AnswersAlwaysExact == ShortcutsAreSound => (BackendSpec => []AnswersAreExact)
<1> SUFFICES ASSUME ShortcutsAreSound PROVE BackendSpec => []AnswersAreExact
  OBVIOUS
<1>1. BackendInit => ExactInv
  BY DEF BackendInit, G!Init, G!NoCache, G!NoAnswer, ExactInv, PreparedIsKey, AnswersAreExact, G!AnswersAreExact
<1>2. IInv /\ PreparedInv /\ ExactInv /\ [BackendNext]_backendVars => ExactInv'
  <2> SUFFICES ASSUME PreparedInv, ExactInv, [BackendNext]_backendVars PROVE ExactInv'
    OBVIOUS
  <2>1. CASE UNCHANGED predicateVars
    BY <2>1 DEF predicateVars, ExactInv, PreparedIsKey, AnswersAreExact, G!AnswersAreExact
  <2>2. CASE G!EndQuery
    BY <2>2 DEF G!EndQuery, G!NoCache, G!NoAnswer, ExactInv, PreparedIsKey, AnswersAreExact, G!AnswersAreExact
  <2>3. QED
    BY <2>1, <2>2, PredicateKeepsExact DEF BackendNext, TransformStep, QueryEnds, backendVars
<1>3. ExactInv => AnswersAreExact
  BY DEF ExactInv
<1>4. QED
  BY <1>1, <1>2, <1>3, BackendInvariant, PTL DEF BackendSpec
=============================================================================
