--------------------------- MODULE TopoGeoProofs ---------------------------
(***************************************************************************)
(* Theorems about one topology: what the editing functions keep of its     *)
(* plane, its links and its faces, and what follows for ValidateTopology,  *)
(* intersects and splits.                                                  *)
(***************************************************************************)
EXTENDS TopoGeo, FiniteSetTheorems, SequenceTheorems, WellFoundedInduction, TLAPS

-----------------------------------------------------------------------------
(* Curves. *)

LEMMA CurveFacts ==
    ASSUME NEW c, Curve(c)
    PROVE  /\ Len(c) \in Nat /\ Len(c) >= 2 /\ DOMAIN c = 1..Len(c)
           /\ \A i \in 1..Len(c) : c[i] \in Points
           /\ On(c) = {c[i] : i \in 1..Len(c)} /\ On(c) \subseteq Points
           /\ StartPoint(c) \in On(c) /\ EndPoint(c) \in On(c)
<1>1. Len(c) \in Nat /\ Len(c) >= 2 /\ DOMAIN c = 1..Len(c) /\ \A i \in 1..Len(c) : c[i] \in Points
  BY LenProperties DEF Curve
<1>2. On(c) = {c[i] : i \in 1..Len(c)}
  BY <1>1 DEF On, ToSet
<1>3. 1 \in 1..Len(c) /\ Len(c) \in 1..Len(c)
  BY <1>1
<1>4. QED
  BY <1>1, <1>2, <1>3 DEF StartPoint, EndPoint

\* Segments of a part of a curve, by their places in the curve.
LEMMA PartFacts ==
    ASSUME NEW c, Curve(c), NEW i \in 1..Len(c), NEW j \in 1..Len(c), i < j
    PROVE  LET d == SubSeq(c, i, j)
           IN  /\ Curve(d) /\ Len(d) = j - i + 1
               /\ \A k \in 1..Len(d) : d[k] = c[i + k - 1]
               /\ On(d) = {c[k] : k \in i..j}
               /\ Segments(d) = {{c[k], c[k + 1]} : k \in i..j - 1}
<1> DEFINE d == SubSeq(c, i, j)
<1>1. Len(c) \in Nat /\ \A k \in i..j : c[k] \in Points
  BY CurveFacts
<1>2. i \in Int /\ j \in Int /\ j - i + 1 \in Nat /\ j - i + 1 >= 2
  BY <1>1
<1>3. d \in Seq(Points) /\ Len(d) = j - i + 1 /\ \A k \in 1..(j - i + 1) : d[k] = c[i + k - 1]
  BY <1>1, <1>2, SubSeqProperties
<1> HIDE DEF d
<1>4. Curve(d)
  BY <1>2, <1>3 DEF Curve
<1>5. On(d) = {d[k] : k \in 1..(j - i + 1)}
  BY <1>3, <1>4, CurveFacts
<1>6. ASSUME NEW k \in i..j PROVE c[k] = d[k - i + 1] /\ k - i + 1 \in 1..(j - i + 1)
  <2>1. k - i + 1 \in 1..(j - i + 1) /\ i + (k - i + 1) - 1 = k
    BY <1>1, <1>2
  <2>2. QED
    BY <1>3, <2>1
<1>7. ASSUME NEW k \in 1..(j - i + 1) PROVE d[k] = c[i + k - 1] /\ i + k - 1 \in i..j
  BY <1>1, <1>2, <1>3
<1>8. On(d) = {c[k] : k \in i..j}
  <2>1. ASSUME NEW x \in On(d) PROVE x \in {c[k] : k \in i..j}
    BY <1>5, <1>7
  <2>2. ASSUME NEW x \in {c[k] : k \in i..j} PROVE x \in On(d)
    BY <1>5, <1>6
  <2>3. QED
    BY <2>1, <2>2
<1>9. Segments(d) = {{d[k], d[k + 1]} : k \in 1..(j - i)}
  <2>1. Len(d) - 1 = j - i
    BY <1>1, <1>3
  <2>2. QED
    BY <2>1 DEF Segments
<1>10. ASSUME NEW k \in i..j - 1
       PROVE  {c[k], c[k + 1]} = {d[k - i + 1], d[(k - i + 1) + 1]} /\ k - i + 1 \in 1..(j - i)
  <2>1. k \in i..j /\ k + 1 \in i..j /\ (k + 1) - i + 1 = (k - i + 1) + 1 /\ k - i + 1 \in 1..(j - i)
    BY <1>1, <1>2
  <2>2. QED
    BY <1>6, <2>1
<1>11. ASSUME NEW k \in 1..(j - i)
       PROVE  {d[k], d[k + 1]} = {c[i + k - 1], c[(i + k - 1) + 1]} /\ i + k - 1 \in i..j - 1
  <2>1. k \in 1..(j - i + 1) /\ k + 1 \in 1..(j - i + 1) /\ i + (k + 1) - 1 = (i + k - 1) + 1
        /\ i + k - 1 \in i..j - 1
    BY <1>1, <1>2
  <2>2. QED
    BY <1>7, <2>1
<1>12. Segments(d) = {{c[k], c[k + 1]} : k \in i..j - 1}
  <2>1. ASSUME NEW x \in Segments(d) PROVE x \in {{c[k], c[k + 1]} : k \in i..j - 1}
    <3>1. PICK k \in 1..(j - i) : x = {d[k], d[k + 1]}
      BY <1>9
    <3>2. QED
      BY <1>11, <3>1
  <2>2. ASSUME NEW x \in {{c[k], c[k + 1]} : k \in i..j - 1} PROVE x \in Segments(d)
    <3>1. PICK k \in i..j - 1 : x = {c[k], c[k + 1]}
      OBVIOUS
    <3>2. QED
      BY <1>9, <1>10, <3>1
  <2>3. QED
    BY <2>1, <2>2
<1>13. QED
  BY <1>3, <1>4, <1>8, <1>12 DEF d

\* b and a are the parts of c before and after p.
Cut(c, p, b, a) ==
    /\ Curve(b) /\ IsSimple(b) /\ StartPoint(b) = StartPoint(c) /\ EndPoint(b) = p
    /\ Curve(a) /\ IsSimple(a) /\ StartPoint(a) = p /\ EndPoint(a) = EndPoint(c)
    /\ On(b) \cup On(a) = On(c)
    /\ \A q \in On(b) \cap On(a) : q = p \/ (q = StartPoint(c) /\ q = EndPoint(c))
    /\ EndPoint(c) \in On(b) => EndPoint(c) = StartPoint(c)
    /\ StartPoint(c) \in On(a) => EndPoint(c) = StartPoint(c)
    /\ Segments(b) \cup Segments(a) = Segments(c)

\* A simple curve split where it neither starts nor ends.
LEMMA SplitFacts ==
    ASSUME NEW c, Curve(c), IsSimple(c), NEW p \in On(c), p # StartPoint(c), p # EndPoint(c)
    PROVE  Cut(c, p, Before(c, p), After(c, p))
<1> DEFINE k == CHOOSE i \in 1..Len(c) : c[i] = p
           b == SubSeq(c, 1, k)
           a == SubSeq(c, k, Len(c))
<1>0. b = Before(c, p) /\ a = After(c, p)
  BY DEF Before, After
<1>1. Len(c) \in Nat /\ Len(c) >= 2 /\ On(c) = {c[i] : i \in 1..Len(c)}
  BY CurveFacts
<1>2. k \in 1..Len(c) /\ c[k] = p
  BY <1>1
<1> HIDE DEF k
<1>3. k # 1 /\ k # Len(c)
  BY <1>2 DEF StartPoint, EndPoint
<1>4. 1 < k /\ k < Len(c) /\ k \in Nat /\ 1 \in 1..Len(c) /\ Len(c) \in 1..Len(c)
  BY <1>1, <1>2, <1>3
<1>5. /\ Curve(b) /\ Len(b) = k
      /\ \A i \in 1..Len(b) : b[i] = c[i]
      /\ On(b) = {c[i] : i \in 1..k}
      /\ Segments(b) = {{c[i], c[i + 1]} : i \in 1..k - 1}
  <2>1. \A i \in 1..Len(b) : 1 + i - 1 = i
    BY <1>1, <1>4, PartFacts, CurveFacts
  <2>2. k - 1 + 1 = k
    BY <1>4
  <2>3. QED
    BY <1>2, <1>4, <2>1, <2>2, PartFacts
<1>6. /\ Curve(a) /\ Len(a) = Len(c) - k + 1
      /\ \A i \in 1..Len(a) : a[i] = c[k + i - 1]
      /\ On(a) = {c[i] : i \in k..Len(c)}
      /\ Segments(a) = {{c[i], c[i + 1]} : i \in k..Len(c) - 1}
  BY <1>2, <1>4, PartFacts
<1> HIDE DEF a, b
<1>7. \A i, j \in 1..Len(c) : c[i] = c[j] => i = j \/ {i, j} = {1, Len(c)}
  BY DEF IsSimple
<1>8. IsSimple(b)
  <2>1. ASSUME NEW i \in 1..Len(b), NEW j \in 1..Len(b), b[i] = b[j] PROVE i = j
    <3>1. i \in 1..Len(c) /\ j \in 1..Len(c) /\ i # Len(c) /\ j # Len(c) /\ c[i] = c[j]
      BY <1>1, <1>4, <1>5, <2>1
    <3>2. QED
      BY <1>7, <3>1
  <2>2. QED
    BY <2>1 DEF IsSimple
<1>9. IsSimple(a)
  <2>1. ASSUME NEW i \in 1..Len(a), NEW j \in 1..Len(a), a[i] = a[j] PROVE i = j
    <3>1. /\ k + i - 1 \in 1..Len(c) /\ k + j - 1 \in 1..Len(c) /\ k + i - 1 # 1 /\ k + j - 1 # 1
          /\ c[k + i - 1] = c[k + j - 1] /\ i \in Int /\ j \in Int
      BY <1>1, <1>4, <1>6, <2>1
    <3>2. k + i - 1 = k + j - 1
      BY <1>7, <3>1
    <3>3. QED
      BY <1>4, <3>1, <3>2
  <2>2. QED
    BY <2>1 DEF IsSimple
<1>10. StartPoint(b) = StartPoint(c) /\ EndPoint(b) = p
  BY <1>2, <1>4, <1>5 DEF StartPoint, EndPoint
<1>11. StartPoint(a) = p /\ EndPoint(a) = EndPoint(c)
  <2>1. 1 \in 1..Len(a) /\ Len(a) \in 1..Len(a) /\ k + 1 - 1 = k /\ k + Len(a) - 1 = Len(c)
    BY <1>1, <1>4, <1>6
  <2>2. QED
    BY <1>2, <1>6, <2>1 DEF StartPoint, EndPoint
<1>12. On(b) \cup On(a) = On(c)
  <2>1. 1..Len(c) = (1..k) \cup (k..Len(c))
    BY <1>1, <1>4
  <2>2. QED
    BY <1>1, <1>5, <1>6, <2>1
<1>13. ASSUME NEW q \in On(b), q \in On(a)
       PROVE  q = p \/ (q = StartPoint(c) /\ q = EndPoint(c))
  <2>1. PICK i \in 1..k : q = c[i]
    BY <1>5
  <2>2. PICK j \in k..Len(c) : q = c[j]
    BY <1>6, <1>13
  <2>3. i \in 1..Len(c) /\ j \in 1..Len(c)
    BY <1>1, <1>4
  <2>4. i = j \/ {i, j} = {1, Len(c)}
    BY <1>7, <2>1, <2>2, <2>3
  <2>5. CASE i = j
    <3>1. i = k
      BY <1>4, <2>5
    <3>2. QED
      BY <1>2, <2>1, <3>1
  <2>6. CASE {i, j} = {1, Len(c)}
    <3>1. i = 1 /\ j = Len(c)
      BY <1>4, <2>6
    <3>2. QED
      BY <2>1, <2>2, <3>1 DEF StartPoint, EndPoint
  <2>7. QED
    BY <2>4, <2>5, <2>6
<1>14. EndPoint(c) \in On(b) => EndPoint(c) = StartPoint(c)
  <2>1. EndPoint(c) \in On(a)
    BY <1>6, <1>11, CurveFacts
  <2>2. QED
    BY <1>13, <2>1
<1>15. StartPoint(c) \in On(a) => EndPoint(c) = StartPoint(c)
  <2>1. StartPoint(c) \in On(b)
    BY <1>5, <1>10, CurveFacts
  <2>2. QED
    BY <1>13, <2>1
<1>16. Segments(b) \cup Segments(a) = Segments(c)
  <2>1. 1..Len(c) - 1 = (1..k - 1) \cup (k..Len(c) - 1)
    BY <1>1, <1>4
  <2>2. QED
    BY <1>5, <1>6, <2>1 DEF Segments
<1>17. QED
  BY <1>0, <1>5, <1>6, <1>8, <1>9, <1>10, <1>11, <1>12, <1>13, <1>14, <1>15, <1>16 DEF Cut

-----------------------------------------------------------------------------
(* The plane: nodes apart, edges between them that meet nowhere else.      *)

Plane(ns, es) ==
    /\ NodesApart(ns) /\ EndsMatch(ns, es) /\ OnlyEndsOn(ns, es) /\ MeetAtNodes(ns, es)
    /\ \A e \in DOMAIN es : Curve(es[e].geom) /\ IsSimple(es[e].geom)

\* A new node where there is neither a node nor an edge.
LEMMA NodeAdded ==
    ASSUME NEW ns, NEW es, Plane(ns, es), NEW n, n \notin DOMAIN ns, NEW p, NEW f,
           \A m \in DOMAIN ns : ns[m].geom # p,
           \A e \in DOMAIN es : p \notin On(es[e].geom)
    PROVE  Plane(Put(ns, n, [geom |-> p, face |-> f]), es)
<1> DEFINE new == Put(ns, n, [geom |-> p, face |-> f])
<1>1. DOMAIN new = DOMAIN ns \cup {n} /\ new[n].geom = p /\ \A m \in DOMAIN ns : new[m] = ns[m]
  BY DEF Put
<1> HIDE DEF new
<1>2. NodesApart(new)
  BY <1>1 DEF Plane, NodesApart
<1>3. EndsMatch(new, es)
  BY <1>1 DEF Plane, EndsMatch
<1>4. OnlyEndsOn(new, es)
  BY <1>1 DEF Plane, OnlyEndsOn
<1>5. MeetAtNodes(new, es)
  <2>1. ASSUME NEW d \in DOMAIN es, NEW e \in DOMAIN es, d # e,
               NEW q \in On(es[d].geom) \cap On(es[e].geom)
        PROVE  \E m \in {es[d].start, es[d].end} \cap {es[e].start, es[e].end} : new[m].geom = q
    <3>1. PICK m \in {es[d].start, es[d].end} \cap {es[e].start, es[e].end} : ns[m].geom = q
      BY <2>1 DEF Plane, MeetAtNodes
    <3>2. m \in DOMAIN ns
      BY <3>1 DEF Plane, EndsMatch
    <3>3. QED
      BY <1>1, <3>1, <3>2
  <2>2. QED
    BY <2>1 DEF MeetAtNodes
<1>6. QED
  BY <1>2, <1>3, <1>4, <1>5 DEF Plane, new

LEMMA NodeRemoved ==
    ASSUME NEW ns, NEW es, Plane(ns, es), NEW n,
           \A e \in DOMAIN es : n \notin {es[e].start, es[e].end}
    PROVE  Plane(Drop(ns, n), es)
<1> DEFINE new == Drop(ns, n)
<1>1. DOMAIN new = DOMAIN ns \ {n} /\ \A m \in DOMAIN new : new[m] = ns[m]
  BY DEF Drop
<1> HIDE DEF new
<1>2. NodesApart(new) /\ EndsMatch(new, es) /\ OnlyEndsOn(new, es)
  BY <1>1 DEF Plane, NodesApart, EndsMatch, OnlyEndsOn
<1>3. MeetAtNodes(new, es)
  <2>1. ASSUME NEW d \in DOMAIN es, NEW e \in DOMAIN es, d # e,
               NEW q \in On(es[d].geom) \cap On(es[e].geom)
        PROVE  \E m \in {es[d].start, es[d].end} \cap {es[e].start, es[e].end} : new[m].geom = q
    <3>1. PICK m \in {es[d].start, es[d].end} \cap {es[e].start, es[e].end} : ns[m].geom = q
      BY <2>1 DEF Plane, MeetAtNodes
    <3>2. m \in DOMAIN new
      BY <1>1, <3>1 DEF Plane, EndsMatch
    <3>3. QED
      BY <1>1, <3>1, <3>2
  <2>2. QED
    BY <2>1 DEF MeetAtNodes
<1>4. QED
  BY <1>2, <1>3 DEF Plane, new

LEMMA EdgeRemoved ==
    ASSUME NEW ns, NEW es, Plane(ns, es), NEW e
    PROVE  Plane(ns, Drop(es, e))
<1> DEFINE new == Drop(es, e)
<1>1. DOMAIN new = DOMAIN es \ {e} /\ \A d \in DOMAIN new : new[d] = es[d]
  BY DEF Drop
<1> HIDE DEF new
<1>2. EndsMatch(ns, new) /\ OnlyEndsOn(ns, new)
  BY <1>1 DEF Plane, EndsMatch, OnlyEndsOn
<1>3. MeetAtNodes(ns, new)
  BY <1>1 DEF Plane, MeetAtNodes
<1>4. QED
  BY <1>1, <1>2, <1>3 DEF Plane, new

\* The checks of ST_AddIsoEdge and ST_ChangeEdgeGeom on a curve between two
\* nodes: it passes no node and meets no edge, so it is not closed either.
LEMMA EdgeAdded ==
    ASSUME NEW ns, NEW es, Plane(ns, es), NEW e, e \notin DOMAIN es, NEW x,
           Curve(x.geom), IsSimple(x.geom), {x.start, x.end} \subseteq DOMAIN ns,
           StartPoint(x.geom) = ns[x.start].geom, EndPoint(x.geom) = ns[x.end].geom,
           \A n \in DOMAIN ns : ~Within(ns[n].geom, x.geom),
           \A d \in DOMAIN es : ~Intersects(es[d].geom, x.geom)
    PROVE  Plane(ns, Put(es, e, x)) /\ x.start # x.end /\ StartPoint(x.geom) # EndPoint(x.geom)
<1> DEFINE new == Put(es, e, x)
<1>1. DOMAIN new = DOMAIN es \cup {e} /\ new[e] = x /\ \A d \in DOMAIN es : new[d] = es[d]
  BY DEF Put
<1> HIDE DEF new
<1>2. EndsMatch(ns, new)
  BY <1>1 DEF Plane, EndsMatch
<1>3. ASSUME NEW n \in DOMAIN ns, ns[n].geom \in On(x.geom) PROVE n \in {x.start, x.end}
  BY <1>3 DEF Within, Boundary, Plane, NodesApart
<1>4. OnlyEndsOn(ns, new)
  BY <1>1, <1>3 DEF Plane, OnlyEndsOn
<1>5. MeetAtNodes(ns, new)
  BY <1>1 DEF Plane, MeetAtNodes, Intersects
<1>6. StartPoint(x.geom) # EndPoint(x.geom)
  BY CurveFacts DEF Within, Boundary
<1>7. QED
  BY <1>1, <1>2, <1>4, <1>5, <1>6 DEF Plane, new

\* es with e replaced by two edges, e1 and e2, that meet at the new node n.
SplitInto(es, e, n, p, new, e1, e2) ==
    LET old == es[e]
    IN  /\ e1 # e2 /\ {e1, e2} \cap (DOMAIN es \ {e}) = {}
        /\ DOMAIN new = (DOMAIN es \ {e}) \cup {e1, e2}
        /\ \A d \in DOMAIN es \ {e} :
              /\ new[d].start = es[d].start /\ new[d].end = es[d].end /\ new[d].geom = es[d].geom
              /\ new[d].left = es[d].left /\ new[d].right = es[d].right
        /\ new[e1].start = old.start /\ new[e1].end = n /\ new[e1].geom = Before(old.geom, p)
        /\ new[e2].start = n /\ new[e2].end = old.end /\ new[e2].geom = After(old.geom, p)
        /\ new[e1].left = old.left /\ new[e1].right = old.right
        /\ new[e2].left = old.left /\ new[e2].right = old.right

\* What is known of the two pieces, and of the point, which is no node's.
LEMMA Pieces ==
    ASSUME NEW ns, NEW es, Plane(ns, es), NEW e \in DOMAIN es,
           NEW p, Within(p, es[e].geom), \A m \in DOMAIN ns : ns[m].geom # p
    PROVE  LET c == es[e].geom
           IN  /\ Cut(c, p, Before(c, p), After(c, p))
               /\ p # StartPoint(c) /\ p # EndPoint(c) /\ p \in On(c)
               /\ \A d \in DOMAIN es \ {e} : p \notin On(es[d].geom)
<1> DEFINE c == es[e].geom
<1>1. Curve(c) /\ IsSimple(c) /\ p \in On(c) /\ StartPoint(c) = ns[es[e].start].geom
      /\ EndPoint(c) = ns[es[e].end].geom /\ {es[e].start, es[e].end} \subseteq DOMAIN ns
  BY DEF Within, Plane, EndsMatch
<1>2. p # StartPoint(c) /\ p # EndPoint(c)
  BY <1>1
<1>3. ASSUME NEW d \in DOMAIN es \ {e} PROVE p \notin On(es[d].geom)
  BY <1>1 DEF Plane, MeetAtNodes
<1> HIDE DEF c
<1>4. QED
  BY <1>1, <1>2, <1>3, SplitFacts DEF c

LEMMA EdgeSplit ==
    ASSUME NEW ns, NEW es, Plane(ns, es), NEW e \in DOMAIN es, NEW n, n \notin DOMAIN ns, NEW f,
           NEW p, Within(p, es[e].geom), \A m \in DOMAIN ns : ns[m].geom # p,
           NEW new, NEW e1, NEW e2, SplitInto(es, e, n, p, new, e1, e2)
    PROVE  Plane(Put(ns, n, [geom |-> p, face |-> f]), new)
<1> DEFINE nodes == Put(ns, n, [geom |-> p, face |-> f])
           c == es[e].geom
           b == Before(c, p)
           a == After(c, p)
           rest == DOMAIN es \ {e}
<1>1. DOMAIN nodes = DOMAIN ns \cup {n} /\ nodes[n].geom = p /\ \A m \in DOMAIN ns : nodes[m] = ns[m]
  BY DEF Put
<1>2. /\ Cut(c, p, b, a) /\ p # StartPoint(c) /\ p # EndPoint(c) /\ p \in On(c)
      /\ \A d \in rest : p \notin On(es[d].geom)
  BY Pieces
<1>3. /\ es[e].start \in DOMAIN ns /\ StartPoint(c) = ns[es[e].start].geom
      /\ es[e].end \in DOMAIN ns /\ EndPoint(c) = ns[es[e].end].geom
  BY DEF Plane, EndsMatch
<1>4. /\ DOMAIN new = rest \cup {e1, e2} /\ e1 # e2 /\ e1 \notin rest /\ e2 \notin rest
      /\ \A d \in rest : new[d].start = es[d].start /\ new[d].end = es[d].end /\ new[d].geom = es[d].geom
      /\ new[e1].start = es[e].start /\ new[e1].end = n /\ new[e1].geom = b
      /\ new[e2].start = n /\ new[e2].end = es[e].end /\ new[e2].geom = a
  BY DEF SplitInto
<1> USE DEF Cut
<1> HIDE DEF nodes, b, a
<1>5. NodesApart(nodes)
  BY <1>1 DEF Plane, NodesApart
<1>6. EndsMatch(nodes, new)
  <2>1. ASSUME NEW d \in rest
        PROVE  /\ {new[d].start, new[d].end} \subseteq DOMAIN nodes
               /\ StartPoint(new[d].geom) = nodes[new[d].start].geom
               /\ EndPoint(new[d].geom) = nodes[new[d].end].geom
    BY <1>1, <1>4 DEF Plane, EndsMatch
  <2>2. QED
    BY <1>1, <1>2, <1>3, <1>4, <2>1 DEF EndsMatch
<1>7. ASSUME NEW m \in DOMAIN ns
      PROVE  /\ ns[m].geom \in On(b) => m = es[e].start
             /\ ns[m].geom \in On(a) => m = es[e].end
  <2>1. ns[m].geom \in On(c) => m \in {es[e].start, es[e].end}
    BY DEF Plane, OnlyEndsOn
  <2>2. StartPoint(c) = EndPoint(c) => es[e].start = es[e].end
    BY <1>3 DEF Plane, NodesApart
  <2>3. QED
    BY <1>2, <1>3, <2>1, <2>2
<1>8. OnlyEndsOn(nodes, new)
  <2>1. ASSUME NEW d \in DOMAIN new, NEW m \in DOMAIN nodes, nodes[m].geom \in On(new[d].geom)
        PROVE  m \in {new[d].start, new[d].end}
    <3>1. CASE d \in rest
      BY <1>1, <1>2, <1>4, <2>1, <3>1 DEF Plane, OnlyEndsOn
    <3>2. CASE d \in {e1, e2} /\ m = n
      BY <1>4, <3>2
    <3>3. CASE d = e1 /\ m \in DOMAIN ns
      BY <1>1, <1>4, <1>7, <2>1, <3>3
    <3>4. CASE d = e2 /\ m \in DOMAIN ns
      BY <1>1, <1>4, <1>7, <2>1, <3>4
    <3>5. QED
      BY <1>1, <1>4, <3>1, <3>2, <3>3, <3>4
  <2>2. QED
    BY <2>1 DEF OnlyEndsOn
<1>9. ASSUME NEW d \in rest, NEW x \in {e1, e2}, NEW q \in On(es[d].geom) \cap On(new[x].geom)
      PROVE  \E m \in {new[d].start, new[d].end} \cap {new[x].start, new[x].end} : nodes[m].geom = q
  <2>1. q \in On(es[d].geom) \cap On(c)
    BY <1>2, <1>4
  <2>2. PICK m \in {es[d].start, es[d].end} \cap {es[e].start, es[e].end} : ns[m].geom = q
    BY <2>1 DEF Plane, MeetAtNodes
  <2>3. m \in DOMAIN ns /\ m \in {new[d].start, new[d].end}
    BY <1>3, <1>4, <2>2
  <2>4. m \in {new[x].start, new[x].end}
    BY <1>1, <1>4, <1>7, <2>2, <2>3
  <2>5. QED
    BY <1>1, <2>2, <2>3, <2>4
<1>10. ASSUME NEW q \in On(b) \cap On(a)
       PROVE  \E m \in {new[e1].start, new[e1].end} \cap {new[e2].start, new[e2].end} : nodes[m].geom = q
  <2>1. CASE q = p
    BY <1>1, <1>4, <2>1
  <2>2. CASE q = StartPoint(c) /\ q = EndPoint(c)
    <3>1. es[e].start = es[e].end
      BY <1>3, <2>2 DEF Plane, NodesApart
    <3>2. QED
      BY <1>1, <1>3, <1>4, <2>2, <3>1
  <2>3. QED
    BY <1>2, <2>1, <2>2
<1>11. MeetAtNodes(nodes, new)
  <2>1. ASSUME NEW d \in DOMAIN new, NEW x \in DOMAIN new, d # x,
               NEW q \in On(new[d].geom) \cap On(new[x].geom)
        PROVE  \E m \in {new[d].start, new[d].end} \cap {new[x].start, new[x].end} : nodes[m].geom = q
    <3>1. CASE d \in rest /\ x \in rest
      <4>1. PICK m \in {es[d].start, es[d].end} \cap {es[x].start, es[x].end} : ns[m].geom = q
        BY <1>4, <2>1, <3>1 DEF Plane, MeetAtNodes
      <4>2. m \in DOMAIN ns
        BY <3>1, <4>1 DEF Plane, EndsMatch
      <4>3. QED
        BY <1>1, <1>4, <3>1, <4>1, <4>2
    <3>2. CASE d \in rest /\ x \in {e1, e2}
      <4>1. q \in On(es[d].geom) \cap On(new[x].geom)
        BY <1>4, <3>2
      <4>2. QED
        BY <1>9, <3>2, <4>1
    <3>3. CASE d \in {e1, e2} /\ x \in rest
      <4>1. q \in On(es[x].geom) \cap On(new[d].geom)
        BY <1>4, <3>3
      <4>2. PICK m \in {new[x].start, new[x].end} \cap {new[d].start, new[d].end} : nodes[m].geom = q
        BY <1>9, <3>3, <4>1
      <4>3. QED
        BY <4>2
    <3>4. CASE d \in {e1, e2} /\ x \in {e1, e2}
      <4>1. q \in On(b) \cap On(a) /\ {d, x} = {e1, e2}
        BY <1>4, <2>1, <3>4
      <4>2. PICK m \in {new[e1].start, new[e1].end} \cap {new[e2].start, new[e2].end} : nodes[m].geom = q
        BY <1>10, <4>1
      <4>3. CASE d = e1 /\ x = e2
        BY <4>2, <4>3
      <4>4. CASE d = e2 /\ x = e1
        BY <4>2, <4>4
      <4>5. QED
        BY <2>1, <3>4, <4>3, <4>4
    <3>5. QED
      BY <1>4, <3>1, <3>2, <3>3, <3>4
  <2>2. QED
    BY <2>1 DEF MeetAtNodes
<1>12. \A d \in DOMAIN new : Curve(new[d].geom) /\ IsSimple(new[d].geom)
  BY <1>2, <1>4 DEF Plane
<1>13. QED
  BY <1>5, <1>6, <1>8, <1>11, <1>12 DEF Plane, nodes

-----------------------------------------------------------------------------
(* Rows of edge_data. *)

LEMMA LinkFacts ==
    /\ \A x \in Links : x \in Int /\ x # 0 /\ Abs(x) \in 1..MaxEdge /\ (Abs(x) = x \/ Abs(x) = -x)
    /\ \A x \in 1..MaxEdge : x \in Links /\ -x \in Links /\ Abs(x) = x /\ Abs(-x) = x
BY BoundsAssumption DEF Links, Abs

LEMMA NewEdgeFacts ==
    ASSUME NEW s, NEW t, NEW nl, NEW nr, NEW l, NEW r, NEW g
    PROVE  LET x == NewEdge(s, t, nl, nr, l, r, g)
           IN  /\ x.start = s /\ x.end = t /\ x.nextLeft = nl /\ x.nextRight = nr
               /\ x.left = l /\ x.right = r /\ x.geom = g
               /\ \A fs : /\ s \in 1..MaxNode /\ t \in 1..MaxNode /\ nl \in Links /\ nr \in Links
                          /\ l \in fs /\ r \in fs /\ g \in Seq(Points)
                          => x \in Edge(fs)
BY LinkFacts DEF NewEdge, Edge

\* The two kinds of UPDATE change one link of some rows.
LEMMA RelinkedFacts ==
    ASSUME NEW es, NEW fs, \A e \in DOMAIN es : es[e] \in Edge(fs), NEW from, NEW to \in Links
    PROVE  LET L == RelinkedLeft(es, from, to)
               R == RelinkedRight(es, from, to)
           IN  /\ DOMAIN L = DOMAIN es /\ DOMAIN R = DOMAIN es
               /\ \A e \in DOMAIN es :
                     /\ L[e] \in Edge(fs) /\ R[e] \in Edge(fs)
                     /\ L[e].start = es[e].start /\ L[e].end = es[e].end /\ L[e].geom = es[e].geom
                     /\ L[e].left = es[e].left /\ L[e].right = es[e].right
                     /\ R[e].start = es[e].start /\ R[e].end = es[e].end /\ R[e].geom = es[e].geom
                     /\ R[e].left = es[e].left /\ R[e].right = es[e].right
                     /\ L[e].nextLeft = (IF es[e].nextLeft = from THEN to ELSE es[e].nextLeft)
                     /\ R[e].nextLeft = es[e].nextLeft
<1>1. Abs(to) \in 1..MaxEdge
  BY LinkFacts
<1>2. ASSUME NEW e \in DOMAIN es
      PROVE  LET y == [es[e] EXCEPT !.nextLeft = to, !.absLeft = Abs(to)]
                 z == [es[e] EXCEPT !.nextRight = to, !.absRight = Abs(to)]
             IN  /\ y \in Edge(fs) /\ z \in Edge(fs) /\ y.nextLeft = to /\ z.nextLeft = es[e].nextLeft
                 /\ y.start = es[e].start /\ y.end = es[e].end /\ y.geom = es[e].geom
                 /\ y.left = es[e].left /\ y.right = es[e].right
                 /\ z.start = es[e].start /\ z.end = es[e].end /\ z.geom = es[e].geom
                 /\ z.left = es[e].left /\ z.right = es[e].right
  <2>1. es[e] \in Edge(fs)
    OBVIOUS
  <2>2. QED
    BY <1>1, <2>1 DEF Edge
<1>3. QED
  BY <1>2 DEF RelinkedLeft, RelinkedRight

\* What a split makes of a left link, and of all of them.
Relinked(x, e, e1, e2) == IF x = e THEN e1 ELSE IF x = -e THEN -e2 ELSE x

LinksSplit(es, e, new, e1, e2) ==
    /\ \A d \in DOMAIN es \ {e} : new[d].nextLeft = Relinked(es[d].nextLeft, e, e1, e2)
    /\ new[e1].nextLeft = e2
    /\ new[e2].nextLeft = Relinked(es[e].nextLeft, e, e1, e2)

LEMMA LinksStayMet ==
    ASSUME NEW es, LeftLinked(es), NEW e \in DOMAIN es, NEW n, NEW p, NEW new,
           NEW e1 \in 1..MaxEdge, NEW e2 \in 1..MaxEdge,
           DOMAIN es \subseteq 1..MaxEdge, \A d \in DOMAIN es : es[d].nextLeft \in Links,
           SplitInto(es, e, n, p, new, e1, e2), LinksSplit(es, e, new, e1, e2)
    PROVE  LeftLinked(new)
<1> DEFINE rest == DOMAIN es \ {e}
<1>1. /\ DOMAIN new = rest \cup {e1, e2} /\ e1 # e2 /\ e1 \notin rest /\ e2 \notin rest
      /\ \A d \in rest : new[d].start = es[d].start /\ new[d].end = es[d].end
      /\ new[e1].start = es[e].start /\ new[e1].end = n
      /\ new[e2].start = n /\ new[e2].end = es[e].end
  BY DEF SplitInto
<1>2. ASSUME NEW d \in DOMAIN es
      PROVE  LET next == Relinked(es[d].nextLeft, e, e1, e2)
             IN  /\ Abs(next) \in DOMAIN new
                 /\ es[d].end = IF next > 0 THEN new[next].start ELSE new[-next].end
  <2> DEFINE x == es[d].nextLeft
  <2>1. /\ x \in Links /\ Abs(x) \in DOMAIN es
        /\ es[d].end = IF x > 0 THEN es[x].start ELSE es[-x].end
    BY DEF LeftLinked
  <2>2. e \in 1..MaxEdge /\ e \in Int /\ e > 0 /\ e1 \in Int /\ e1 > 0 /\ e2 \in Int /\ e2 > 0
    BY BoundsAssumption
  <2>3. CASE x = e
    <3>1. Abs(e1) = e1
      BY LinkFacts
    <3>2. QED
      BY <1>1, <2>1, <2>2, <2>3, <3>1 DEF Relinked
  <2>4. CASE x = -e
    <3>1. Abs(-e2) = e2 /\ ~(-e2 > 0) /\ -(-e2) = e2 /\ -(-e) = e /\ ~(-e > 0) /\ -e # e
      BY <2>2, LinkFacts
    <3>2. QED
      BY <1>1, <2>1, <2>4, <3>1 DEF Relinked
  <2>5. CASE x # e /\ x # -e
    <3>1. x \in Int /\ (IF x > 0 THEN Abs(x) = x ELSE Abs(x) = -x)
      BY <2>1, LinkFacts DEF Abs, Links
    <3>2. Abs(x) # e
      BY <2>2, <2>5, <3>1
    <3>3. QED
      BY <1>1, <2>1, <2>5, <3>1, <3>2 DEF Relinked
  <2>6. QED
    BY <2>3, <2>4, <2>5
<1>3. Abs(e2) = e2 /\ e2 > 0
  BY LinkFacts, BoundsAssumption
<1>4. ASSUME NEW d \in DOMAIN new
      PROVE  LET next == new[d].nextLeft
             IN  /\ Abs(next) \in DOMAIN new
                 /\ new[d].end = IF next > 0 THEN new[next].start ELSE new[-next].end
  <2>1. CASE d \in rest
    BY <1>1, <1>2, <2>1 DEF LinksSplit
  <2>2. CASE d = e2
    BY <1>1, <1>2, <2>2 DEF LinksSplit
  <2>3. CASE d = e1
    BY <1>1, <1>3, <2>3 DEF LinksSplit
  <2>4. QED
    BY <1>1, <2>1, <2>2, <2>3
<1>5. QED
  BY <1>4 DEF LeftLinked

-----------------------------------------------------------------------------
(* The splits, as changes of edge_data. *)

Types == TypeOK /\ face = Loaded.face

LEMMA FaceFacts == Types => 0 \in face /\ face \subseteq Nat /\ Null \notin face
BY LoadedAssumption, BoundsAssumption DEF Types

LEMMA SeqFacts ==
    ASSUME Types
    PROVE  /\ seq.node \in Nat /\ seq.edge \in Nat /\ seq.tg \in Nat
           /\ seq.node <= MaxNode /\ seq.edge <= MaxEdge /\ seq.tg <= MaxTopoGeo
           /\ seq.node + 1 \notin DOMAIN node /\ seq.node + 2 \notin DOMAIN node
           /\ seq.edge + 1 \notin DOMAIN edge /\ seq.edge + 2 \notin DOMAIN edge
           /\ DOMAIN node \subseteq 1..MaxNode /\ DOMAIN edge \subseteq 1..MaxEdge
           /\ DOMAIN node \subseteq 1..seq.node /\ DOMAIN edge \subseteq 1..seq.edge
BY BoundsAssumption DEF Types, TypeOK

LEMMA PutFacts ==
    ASSUME NEW f, NEW x, NEW v
    PROVE  /\ DOMAIN Put(f, x, v) = DOMAIN f \cup {x} /\ Put(f, x, v)[x] = v
           /\ \A y \in DOMAIN f : y # x => Put(f, x, v)[y] = f[y]
           /\ DOMAIN Drop(f, x) = DOMAIN f \ {x}
           /\ \A y \in DOMAIN f \ {x} : Drop(f, x)[y] = f[y]
BY DEF Put, Drop

\* e is replaced by e1 and e2, with all its links.
SplitStep(e, p, e1, e2) ==
    /\ e \in DOMAIN edge /\ CanSplit(e, p)
    /\ e1 \in 1..MaxEdge /\ e2 \in 1..MaxEdge /\ e1 <= seq'.edge /\ e2 <= seq'.edge
    /\ e2 > seq.edge /\ (e1 = e \/ e1 > seq.edge)
    /\ SplitInto(edge, e, seq.node + 1, p, edge', e1, e2)
    /\ LinksSplit(edge, e, edge', e1, e2)
    /\ \A d \in DOMAIN edge' : edge'[d] \in Edge(face)
    /\ node' = Put(node, seq.node + 1, [geom |-> p, face |-> Null])
    /\ relation' = (relation \ Holding(e)) \cup {Redirected(r, d) : r \in Holding(e), d \in {e1, e2}}
    /\ seq' = [seq EXCEPT !.node = seq.node + 1, !.edge = e2]
    /\ UNCHANGED <<face, tgs>>

\* What a row of the relation table becomes when its edge is split.
LEMMA RowFacts ==
    ASSUME Types, NEW e \in 1..MaxEdge, NEW r \in Holding(e), NEW d \in 1..MaxEdge
    PROVE  LET x == Redirected(r, d)
           IN  /\ r \in relation
               /\ x \in [layer : DOMAIN Layers, tg : 1..MaxTopoGeo, elem : Int, type : Int]
               /\ x.layer = r.layer /\ x.tg = r.tg /\ x.type = r.type /\ Abs(x.elem) = d
               /\ d = e => x = r
<1>1. /\ r \in [layer : DOMAIN Layers, tg : 1..MaxTopoGeo, elem : Int, type : Int]
      /\ r \in relation /\ Abs(r.elem) = e
  BY DEF Types, TypeOK, Holding
<1>2. d \in Int /\ d > 0 /\ e \in Int /\ e > 0
  BY BoundsAssumption
<1>3. CASE r.elem < 0
  <2>1. Redirected(r, d) = [r EXCEPT !.elem = -d] /\ r.elem = -e
    BY <1>1, <1>2, <1>3 DEF Redirected, Abs
  <2>2. -d \in Int /\ -d < 0 /\ -(-d) = d
    BY <1>2
  <2>3. QED
    BY <1>1, <1>2, <2>1, <2>2 DEF Abs
<1>4. CASE ~(r.elem < 0)
  <2>1. Redirected(r, d) = [r EXCEPT !.elem = d] /\ r.elem = e
    BY <1>1, <1>2, <1>4 DEF Redirected, Abs
  <2>2. QED
    BY <1>1, <1>2, <2>1 DEF Abs
<1>5. QED
  BY <1>3, <1>4

LEMMA NewSplitStep ==
    ASSUME Types, Plane(node, edge), NEW e \in DOMAIN edge, NEW p, ST_NewEdgesSplit(e, p)
    PROVE  SplitStep(e, p, seq.edge + 1, seq.edge + 2)
<1> DEFINE old == edge[e]
           n   == seq.node + 1
           e1  == seq.edge + 1
           e2  == seq.edge + 2
           one == NewEdge(old.start, n, e2, old.nextRight, old.left, old.right, Before(old.geom, p))
           two == NewEdge(n, old.end, old.nextLeft, -e1, old.left, old.right, After(old.geom, p))
           s0  == Put(Put(Drop(edge, e), e1, one), e2, two)
           s1  == RelinkedRight(s0, e, e2)
           s2  == RelinkedRight(s1, -e, -e1)
           s3  == RelinkedLeft(s2, e, e1)
           s4  == RelinkedLeft(s3, -e, -e2)
           rest == DOMAIN edge \ {e}
<1>1. /\ CanSplit(e, p) /\ e2 <= MaxEdge /\ edge' = s4
      /\ node' = Put(node, n, [geom |-> p, face |-> Null])
      /\ relation' = (relation \ Holding(e)) \cup {Redirected(r, d) : r \in Holding(e), d \in {e1, e2}}
      /\ seq' = [seq EXCEPT !.node = n, !.edge = e2] /\ UNCHANGED <<face, tgs>>
  BY DEF ST_NewEdgesSplit, NewEdgesRelinked
<1>2. /\ n \in 1..MaxNode /\ e1 \in 1..MaxEdge /\ e2 \in 1..MaxEdge /\ e1 # e2
      /\ e1 \notin DOMAIN edge /\ e2 \notin DOMAIN edge /\ e \in 1..MaxEdge
  BY <1>1, SeqFacts, BoundsAssumption DEF CanSplit
<1>3. /\ e1 \in Links /\ e2 \in Links /\ -e1 \in Links /\ -e2 \in Links
      /\ old \in Edge(face)
      /\ old.start \in 1..MaxNode /\ old.end \in 1..MaxNode /\ old.nextLeft \in Links /\ old.nextRight \in Links
      /\ old.left \in face /\ old.right \in face
  BY <1>2, LinkFacts DEF Types, TypeOK, Edge
<1>4. Before(old.geom, p) \in Seq(Points) /\ After(old.geom, p) \in Seq(Points)
  <2>1. Within(p, edge[e].geom) /\ \A m \in DOMAIN node : node[m].geom # p
    BY <1>1 DEF CanSplit, Coincident
  <2>2. Cut(edge[e].geom, p, Before(edge[e].geom, p), After(edge[e].geom, p))
    BY <2>1, Pieces
  <2>3. QED
    BY <2>2 DEF Cut, Curve
<1> HIDE DEF n, e1, e2
<1>5. /\ one \in Edge(face) /\ one.start = old.start /\ one.end = n /\ one.nextLeft = e2
      /\ one.left = old.left /\ one.right = old.right /\ one.geom = Before(old.geom, p)
      /\ two \in Edge(face) /\ two.start = n /\ two.end = old.end /\ two.nextLeft = old.nextLeft
      /\ two.left = old.left /\ two.right = old.right /\ two.geom = After(old.geom, p)
  <2>1. /\ one \in Edge(face) /\ one.start = old.start /\ one.end = n /\ one.nextLeft = e2
        /\ one.left = old.left /\ one.right = old.right /\ one.geom = Before(old.geom, p)
    BY <1>2, <1>3, <1>4, NewEdgeFacts
  <2>2. /\ two \in Edge(face) /\ two.start = n /\ two.end = old.end /\ two.nextLeft = old.nextLeft
        /\ two.left = old.left /\ two.right = old.right /\ two.geom = After(old.geom, p)
    BY <1>2, <1>3, <1>4, NewEdgeFacts
  <2>3. QED
    BY <2>1, <2>2
<1> HIDE DEF one, two, old
<1>6. /\ DOMAIN s0 = rest \cup {e1, e2} /\ s0[e1] = one /\ s0[e2] = two
      /\ \A d \in rest : s0[d] = edge[d]
  <2> DEFINE t == Drop(edge, e)
  <2>1. DOMAIN t = rest /\ \A d \in rest : t[d] = edge[d]
    BY PutFacts
  <2>2. /\ DOMAIN s0 = DOMAIN t \cup {e1, e2} /\ s0[e1] = one /\ s0[e2] = two
        /\ \A d \in DOMAIN t \ {e1, e2} : s0[d] = t[d]
    BY <1>2 DEF Put
  <2> HIDE DEF t, s0
  <2>3. QED
    BY <1>2, <2>1, <2>2
<1> HIDE DEF s0
<1>7. \A d \in DOMAIN s0 : s0[d] \in Edge(face)
  BY <1>5, <1>6 DEF Types, TypeOK
<1>8. /\ DOMAIN s1 = DOMAIN s0
      /\ \A d \in DOMAIN s0 :
            /\ s1[d] \in Edge(face) /\ s1[d].start = s0[d].start /\ s1[d].end = s0[d].end
            /\ s1[d].geom = s0[d].geom /\ s1[d].left = s0[d].left /\ s1[d].right = s0[d].right
            /\ s1[d].nextLeft = s0[d].nextLeft
  BY <1>3, <1>7, RelinkedFacts
<1> HIDE DEF s1
<1>9. /\ DOMAIN s2 = DOMAIN s0
      /\ \A d \in DOMAIN s0 :
            /\ s2[d] \in Edge(face) /\ s2[d].start = s0[d].start /\ s2[d].end = s0[d].end
            /\ s2[d].geom = s0[d].geom /\ s2[d].left = s0[d].left /\ s2[d].right = s0[d].right
            /\ s2[d].nextLeft = s0[d].nextLeft
  BY <1>3, <1>8, RelinkedFacts
<1> HIDE DEF s2
<1>10. /\ DOMAIN s3 = DOMAIN s0
       /\ \A d \in DOMAIN s0 :
            /\ s3[d] \in Edge(face) /\ s3[d].start = s0[d].start /\ s3[d].end = s0[d].end
            /\ s3[d].geom = s0[d].geom /\ s3[d].left = s0[d].left /\ s3[d].right = s0[d].right
            /\ s3[d].nextLeft = IF s0[d].nextLeft = e THEN e1 ELSE s0[d].nextLeft
  BY <1>3, <1>9, RelinkedFacts
<1> HIDE DEF s3
<1>11. /\ DOMAIN s4 = DOMAIN s0
       /\ \A d \in DOMAIN s0 :
            /\ s4[d] \in Edge(face) /\ s4[d].start = s0[d].start /\ s4[d].end = s0[d].end
            /\ s4[d].geom = s0[d].geom /\ s4[d].left = s0[d].left /\ s4[d].right = s0[d].right
            /\ s4[d].nextLeft = IF s3[d].nextLeft = -e THEN -e2 ELSE s3[d].nextLeft
  BY <1>3, <1>10, RelinkedFacts
<1> HIDE DEF s4
<1>12. e1 \in Int /\ e2 \in Int /\ e \in Int /\ e1 > 0 /\ e2 > 0 /\ e > 0 /\ e2 # e /\ e1 # -e /\ e2 # -e
  BY <1>2, BoundsAssumption
<1>13. \A d \in DOMAIN s0 : s4[d].nextLeft = Relinked(s0[d].nextLeft, e, e1, e2)
  BY <1>10, <1>11, <1>12 DEF Relinked
<1>14. SplitInto(edge, e, n, p, edge', e1, e2)
  <2>1. {e1, e2} \cap rest = {}
    BY <1>2
  <2>2. /\ DOMAIN edge' = rest \cup {e1, e2}
        /\ \A d \in rest :
              /\ edge'[d].start = edge[d].start /\ edge'[d].end = edge[d].end /\ edge'[d].geom = edge[d].geom
              /\ edge'[d].left = edge[d].left /\ edge'[d].right = edge[d].right
    BY <1>1, <1>6, <1>11
  <2>3. /\ edge'[e1].start = old.start /\ edge'[e1].end = n /\ edge'[e1].geom = Before(old.geom, p)
        /\ edge'[e2].start = n /\ edge'[e2].end = old.end /\ edge'[e2].geom = After(old.geom, p)
        /\ edge'[e1].left = old.left /\ edge'[e1].right = old.right
        /\ edge'[e2].left = old.left /\ edge'[e2].right = old.right
    BY <1>1, <1>5, <1>6, <1>11
  <2>4. QED
    BY <1>2, <2>1, <2>2, <2>3 DEF SplitInto, old
<1>15. LinksSplit(edge, e, edge', e1, e2)
  <2>1. Relinked(e2, e, e1, e2) = e2
    BY <1>12 DEF Relinked
  <2>2. QED
    BY <1>1, <1>5, <1>6, <1>13, <2>1 DEF LinksSplit, old
<1>16. \A d \in DOMAIN edge' : edge'[d] \in Edge(face)
  BY <1>1, <1>11
<1>17. e2 > seq.edge /\ e1 > seq.edge /\ e1 <= e2
  BY SeqFacts DEF e1, e2
<1>18. seq'.edge = e2
  BY <1>1 DEF Types, TypeOK
<1>19. QED
  BY <1>1, <1>2, <1>14, <1>15, <1>16, <1>17, <1>18 DEF SplitStep, n, e1, e2

LEMMA ModSplitStep ==
    ASSUME Types, Plane(node, edge), NEW e \in DOMAIN edge, NEW p, ST_ModEdgesSplit(e, p)
    PROVE  SplitStep(e, p, e, seq.edge + 1)
<1> DEFINE old == edge[e]
           n   == seq.node + 1
           e2  == seq.edge + 1
           two  == NewEdge(n, old.end, old.nextLeft, -e, old.left, old.right, After(old.geom, p))
           kept == [old EXCEPT !.geom = Before(old.geom, p), !.nextLeft = e2, !.end = n]
           s0  == Put(Put(edge, e2, two), e, kept)
           s1  == RelinkedRight(s0, -e, -e2)
           s2  == RelinkedLeft(s1, -e, -e2)
           rest == DOMAIN edge \ {e}
<1>1. /\ CanSplit(e, p) /\ e2 <= MaxEdge /\ edge' = s2
      /\ node' = Put(node, n, [geom |-> p, face |-> Null])
      /\ relation' = relation \cup {Redirected(r, e2) : r \in Holding(e)}
      /\ seq' = [seq EXCEPT !.node = n, !.edge = e2] /\ UNCHANGED <<face, tgs>>
  BY DEF ST_ModEdgesSplit
<1>2. /\ n \in 1..MaxNode /\ e2 \in 1..MaxEdge /\ e # e2 /\ e2 \notin DOMAIN edge /\ e \in 1..MaxEdge
  BY <1>1, SeqFacts, BoundsAssumption DEF CanSplit
<1>3. /\ e2 \in Links /\ -e2 \in Links /\ e \in Links /\ -e \in Links
      /\ old \in Edge(face)
      /\ old.start \in 1..MaxNode /\ old.end \in 1..MaxNode /\ old.nextLeft \in Links /\ old.nextRight \in Links
      /\ old.left \in face /\ old.right \in face
  BY <1>2, LinkFacts DEF Types, TypeOK, Edge
<1>4. Before(old.geom, p) \in Seq(Points) /\ After(old.geom, p) \in Seq(Points)
  <2>1. Within(p, edge[e].geom) /\ \A m \in DOMAIN node : node[m].geom # p
    BY <1>1 DEF CanSplit, Coincident
  <2>2. Cut(edge[e].geom, p, Before(edge[e].geom, p), After(edge[e].geom, p))
    BY <2>1, Pieces
  <2>3. QED
    BY <2>2 DEF Cut, Curve
<1> HIDE DEF n, e2
<1>5. /\ two \in Edge(face) /\ two.start = n /\ two.end = old.end /\ two.nextLeft = old.nextLeft
      /\ two.left = old.left /\ two.right = old.right /\ two.geom = After(old.geom, p)
  BY <1>2, <1>3, <1>4, NewEdgeFacts
<1>6. /\ kept \in Edge(face) /\ kept.start = old.start /\ kept.end = n /\ kept.nextLeft = e2
      /\ kept.left = old.left /\ kept.right = old.right /\ kept.geom = Before(old.geom, p)
  <2> HIDE DEF old
  <2>1. QED
    BY <1>2, <1>3, <1>4 DEF Edge
<1> HIDE DEF two, kept, old
<1>7. /\ DOMAIN s0 = rest \cup {e, e2} /\ s0[e] = kept /\ s0[e2] = two
      /\ \A d \in rest : s0[d] = edge[d]
  <2>1. /\ DOMAIN s0 = DOMAIN edge \cup {e2, e} /\ s0[e2] = two /\ s0[e] = kept
        /\ \A d \in DOMAIN edge \ {e2, e} : s0[d] = edge[d]
    BY <1>2 DEF Put
  <2> HIDE DEF s0
  <2>2. QED
    BY <1>2, <2>1
<1> HIDE DEF s0
<1>8. \A d \in DOMAIN s0 : s0[d] \in Edge(face)
  BY <1>5, <1>6, <1>7 DEF Types, TypeOK
<1>9. /\ DOMAIN s1 = DOMAIN s0
      /\ \A d \in DOMAIN s0 :
            /\ s1[d] \in Edge(face) /\ s1[d].start = s0[d].start /\ s1[d].end = s0[d].end
            /\ s1[d].geom = s0[d].geom /\ s1[d].left = s0[d].left /\ s1[d].right = s0[d].right
            /\ s1[d].nextLeft = s0[d].nextLeft
  BY <1>3, <1>8, RelinkedFacts
<1> HIDE DEF s1
<1>10. /\ DOMAIN s2 = DOMAIN s0
       /\ \A d \in DOMAIN s0 :
            /\ s2[d] \in Edge(face) /\ s2[d].start = s0[d].start /\ s2[d].end = s0[d].end
            /\ s2[d].geom = s0[d].geom /\ s2[d].left = s0[d].left /\ s2[d].right = s0[d].right
            /\ s2[d].nextLeft = IF s0[d].nextLeft = -e THEN -e2 ELSE s0[d].nextLeft
  BY <1>3, <1>9, RelinkedFacts
<1> HIDE DEF s2
<1>11. e2 \in Int /\ e \in Int /\ e2 > 0 /\ e > 0 /\ e2 # e /\ e2 # -e
  BY <1>2, BoundsAssumption
<1>12. \A d \in DOMAIN s0 : s2[d].nextLeft = Relinked(s0[d].nextLeft, e, e, e2)
  BY <1>10, <1>11 DEF Relinked
<1>13. SplitInto(edge, e, n, p, edge', e, e2)
  <2>1. {e, e2} \cap rest = {}
    BY <1>2
  <2>2. /\ DOMAIN edge' = rest \cup {e, e2}
        /\ \A d \in rest :
              /\ edge'[d].start = edge[d].start /\ edge'[d].end = edge[d].end /\ edge'[d].geom = edge[d].geom
              /\ edge'[d].left = edge[d].left /\ edge'[d].right = edge[d].right
    BY <1>1, <1>7, <1>10
  <2>3. /\ edge'[e].start = old.start /\ edge'[e].end = n /\ edge'[e].geom = Before(old.geom, p)
        /\ edge'[e2].start = n /\ edge'[e2].end = old.end /\ edge'[e2].geom = After(old.geom, p)
        /\ edge'[e].left = old.left /\ edge'[e].right = old.right
        /\ edge'[e2].left = old.left /\ edge'[e2].right = old.right
    BY <1>1, <1>5, <1>6, <1>7, <1>10
  <2>4. QED
    BY <1>2, <2>1, <2>2, <2>3 DEF SplitInto, old
<1>14. LinksSplit(edge, e, edge', e, e2)
  <2>1. Relinked(e2, e, e, e2) = e2
    BY <1>11 DEF Relinked
  <2>2. QED
    BY <1>1, <1>5, <1>6, <1>7, <1>12, <2>1 DEF LinksSplit, old
<1>15. \A d \in DOMAIN edge' : edge'[d] \in Edge(face)
  BY <1>1, <1>10
<1>16. e2 > seq.edge /\ e <= e2
  <2>1. e \in 1..seq.edge /\ seq.edge \in Nat
    BY SeqFacts
  <2>2. QED
    BY <2>1 DEF e2
<1>17. seq'.edge = e2
  BY <1>1 DEF Types, TypeOK
<1>18. relation' = (relation \ Holding(e)) \cup {Redirected(r, d) : r \in Holding(e), d \in {e, e2}}
  <2>1. \A r \in Holding(e) : Redirected(r, e) = r /\ r \in relation
    BY <1>2, RowFacts
  <2>2. QED
    BY <1>1, <2>1
<1>19. QED
  BY <1>1, <1>2, <1>13, <1>14, <1>15, <1>16, <1>17, <1>18 DEF SplitStep, n, e2

-----------------------------------------------------------------------------
(* What every function keeps: the types, the plane and the left links.     *)

Rowset == [layer : DOMAIN Layers, tg : 1..MaxTopoGeo, elem : Int, type : Int]

Core == Types /\ Plane(node, edge) /\ LeftLinked(edge)

LEMMA InitCore == Init => Core
<1> SUFFICES ASSUME Init PROVE Core
  OBVIOUS
<1>1. /\ node \in Seq(Node(face)) /\ Len(node) <= MaxNode
      /\ edge \in Seq(Edge(face)) /\ Len(edge) <= MaxEdge
      /\ relation = {} /\ tgs = {} /\ face = Loaded.face
      /\ seq = [node |-> Cardinality(DOMAIN node), edge |-> Cardinality(DOMAIN edge), tg |-> 0]
  BY LoadedAssumption DEF Init
<1>2. /\ DOMAIN node = 1..Len(node) /\ Len(node) \in Nat
      /\ DOMAIN edge = 1..Len(edge) /\ Len(edge) \in Nat
      /\ \A n \in DOMAIN node : node[n] \in Node(face)
      /\ \A e \in DOMAIN edge : edge[e] \in Edge(face)
  BY <1>1, LenProperties
<1>3. \A k \in Nat : Cardinality(1..k) = k
  <2>1. ASSUME NEW k \in Nat PROVE Cardinality(1..k) = k
    <3>1. k \in Int /\ 1 \in Int /\ k - 1 + 1 = k
      OBVIOUS
    <3>2. Cardinality(1..k) = IF 1 > k THEN 0 ELSE k - 1 + 1
      BY <3>1, FS_Interval
    <3>3. QED
      BY <3>1, <3>2
  <2>2. QED
    BY <2>1
<1>4. Types
  BY <1>1, <1>2, <1>3, BoundsAssumption DEF Types, TypeOK
<1>5. Plane(node, edge) /\ LeftLinked(edge)
  BY LoadedAssumption DEF Init, Plane
<1>6. QED
  BY <1>4, <1>5 DEF Core

LEMMA AddIsoNodeKeeps ==
    ASSUME Core, NEW f \in face \cup {Null}, NEW p \in Points, ST_AddIsoNode(f, p)
    PROVE  Core'
<1>1. /\ seq' = [seq EXCEPT !.node = @ + 1] /\ seq.node < MaxNode
      /\ node' = Put(node, seq.node + 1, [geom |-> p, face |-> f])
      /\ UNCHANGED <<edge, face, relation, tgs>>
  BY DEF ST_AddIsoNode, Core, Types, TypeOK
<1>2. [geom |-> p, face |-> f] \in Node(face)
  BY DEF Node
<1>3. \A m \in DOMAIN node' : node'[m] \in Node(face)
  BY <1>1, <1>2 DEF Core, Types, TypeOK, Put
<1>4. DOMAIN node' = DOMAIN node \cup {seq.node + 1}
  BY <1>1 DEF Put
<1>5. /\ seq' \in [node : 0..MaxNode, edge : 0..MaxEdge, tg : 0..MaxTopoGeo]
      /\ seq'.node = seq.node + 1 /\ seq'.edge = seq.edge
  BY <1>1, BoundsAssumption DEF Core, Types, TypeOK
<1>6. DOMAIN node' \subseteq 1..seq'.node /\ DOMAIN edge' \subseteq 1..seq'.edge
  BY <1>1, <1>4, <1>5, SeqFacts DEF Core
<1>7. Types'
  BY <1>1, <1>3, <1>5, <1>6 DEF Core, Types, TypeOK
<1>8. Plane(node', edge')
  <2>1. /\ seq.node + 1 \notin DOMAIN node /\ \A m \in DOMAIN node : node[m].geom # p
        /\ \A e \in DOMAIN edge : p \notin On(edge[e].geom)
    BY SeqFacts DEF Core, ST_AddIsoNode, Coincident, EdgeThrough
  <2>2. Plane(Put(node, seq.node + 1, [geom |-> p, face |-> f]), edge)
    BY <2>1, NodeAdded DEF Core
  <2>3. QED
    BY <1>1, <2>2
<1>9. QED
  BY <1>1, <1>7, <1>8 DEF Core

LEMMA MoveIsoNodeKeeps ==
    ASSUME Core, NEW n \in DOMAIN node, NEW p \in Points, ST_MoveIsoNode(n, p)
    PROVE  Core'
<1>1. node' = [node EXCEPT ![n].geom = p] /\ UNCHANGED <<edge, face, relation, tgs, seq>>
  BY DEF ST_MoveIsoNode
<1>2. node[n] \in Node(face)
  BY DEF Core, Types, TypeOK
<1>3. [node[n] EXCEPT !.geom = p] = [geom |-> p, face |-> node[n].face]
  BY <1>2 DEF Node
<1>4. [geom |-> p, face |-> node[n].face] \in Node(face)
  BY <1>2 DEF Node
<1>5. node' = [m \in DOMAIN node |-> IF m = n THEN [geom |-> p, face |-> node[n].face] ELSE node[m]]
  BY <1>1, <1>3
<1>6. Types'
  BY <1>1, <1>4, <1>5 DEF Core, Types, TypeOK
<1>7. Plane(node', edge')
  <2> DEFINE ns == Drop(node, n)
  <2>1. Plane(ns, edge)
    BY NodeRemoved DEF Core, ST_MoveIsoNode, Isolated
  <2>2. DOMAIN ns = DOMAIN node \ {n} /\ \A m \in DOMAIN ns : ns[m] = node[m]
    BY DEF Drop
  <2>3. n \notin DOMAIN ns /\ (\A m \in DOMAIN ns : ns[m].geom # p)
        /\ \A e \in DOMAIN edge : p \notin On(edge[e].geom)
    BY <2>2 DEF ST_MoveIsoNode, Coincident, EdgeThrough
  <2>4. Plane(Put(ns, n, [geom |-> p, face |-> node[n].face]), edge)
    BY <2>1, <2>3, NodeAdded
  <2>5. DOMAIN ns \cup {n} = DOMAIN node
    BY <2>2
  <2>6. node' = Put(ns, n, [geom |-> p, face |-> node[n].face])
    BY <1>5, <2>2, <2>5 DEF Put
  <2>7. QED
    BY <1>1, <2>4, <2>6
<1>8. QED
  BY <1>1, <1>6, <1>7 DEF Core

LEMMA RemoveIsoNodeKeeps ==
    ASSUME Core, NEW n \in DOMAIN node, ST_RemoveIsoNode(n)
    PROVE  Core'
<1>1. node' = Drop(node, n) /\ UNCHANGED <<edge, face, relation, tgs, seq>>
  BY DEF ST_RemoveIsoNode
<1>2. Types'
  BY <1>1 DEF Core, Types, TypeOK, Drop
<1>3. Plane(node', edge')
  BY <1>1, NodeRemoved DEF Core, ST_RemoveIsoNode, Isolated
<1>4. QED
  BY <1>1, <1>2, <1>3 DEF Core

\* No other edge leads on to one that shares no node with it.
LEMMA RemoveIsoEdgeKeeps ==
    ASSUME Core, NEW e \in DOMAIN edge, ST_RemoveIsoEdge(e)
    PROVE  Core'
<1>1. edge' = Drop(edge, e) /\ UNCHANGED <<node, face, relation, tgs, seq>>
  BY DEF ST_RemoveIsoEdge
<1>2. Types'
  BY <1>1 DEF Core, Types, TypeOK, Drop
<1>3. Plane(node', edge')
  BY <1>1, EdgeRemoved DEF Core
<1>4. ASSUME NEW d \in DOMAIN edge \ {e} PROVE Abs(edge[d].nextLeft) # e
  <2>1. {edge[d].start, edge[d].end} \cap {edge[e].start, edge[e].end} = {}
    BY DEF ST_RemoveIsoEdge
  <2> DEFINE x == edge[d].nextLeft
  <2>2. x \in Links /\ edge[d].end = IF x > 0 THEN edge[x].start ELSE edge[-x].end
    BY DEF Core, Types, TypeOK, Edge, LeftLinked
  <2>3. IF x > 0 THEN Abs(x) = x ELSE Abs(x) = -x
    BY <2>2 DEF Abs, Links
  <2>4. QED
    BY <2>1, <2>2, <2>3
<1>5. ASSUME NEW d \in DOMAIN edge \ {e}
      PROVE  LET next == edge'[d].nextLeft
             IN  /\ Abs(next) \in DOMAIN edge'
                 /\ edge'[d].end = IF next > 0 THEN edge'[next].start ELSE edge'[-next].end
  <2> DEFINE x == edge[d].nextLeft
  <2>1. /\ x \in Links /\ Abs(x) \in DOMAIN edge \ {e}
        /\ edge[d].end = IF x > 0 THEN edge[x].start ELSE edge[-x].end
    BY <1>4 DEF Core, Types, TypeOK, Edge, LeftLinked
  <2>2. IF x > 0 THEN Abs(x) = x ELSE Abs(x) = -x
    BY <2>1 DEF Abs, Links
  <2>3. DOMAIN edge' = DOMAIN edge \ {e} /\ \A y \in DOMAIN edge \ {e} : edge'[y] = edge[y]
    BY <1>1 DEF Drop
  <2>4. QED
    BY <2>1, <2>2, <2>3
<1>6. LeftLinked(edge')
  BY <1>1, <1>5 DEF LeftLinked, Drop
<1>7. QED
  BY <1>2, <1>3, <1>6 DEF Core

\* A new isolated edge leads back to itself.
LEMMA LinkedAdded ==
    ASSUME NEW es, LeftLinked(es), NEW e \in 1..MaxEdge, e \notin DOMAIN es, NEW x, x.nextLeft = -e,
           \A d \in DOMAIN es : es[d].nextLeft \in Links
    PROVE  LeftLinked(Put(es, e, x))
<1> DEFINE new == Put(es, e, x)
<1>1. DOMAIN new = DOMAIN es \cup {e} /\ new[e] = x /\ \A d \in DOMAIN es : new[d] = es[d]
  BY DEF Put
<1> HIDE DEF new
<1>2. e \in Int /\ e > 0 /\ ~(-e > 0) /\ -(-e) = e /\ Abs(-e) = e
  BY LinkFacts, BoundsAssumption
<1>3. ASSUME NEW d \in DOMAIN es
      PROVE  LET next == new[d].nextLeft
             IN  /\ Abs(next) \in DOMAIN new
                 /\ new[d].end = IF next > 0 THEN new[next].start ELSE new[-next].end
  <2> DEFINE y == es[d].nextLeft
  <2>1. /\ y \in Links /\ Abs(y) \in DOMAIN es
        /\ es[d].end = IF y > 0 THEN es[y].start ELSE es[-y].end
    BY DEF LeftLinked
  <2>2. IF y > 0 THEN Abs(y) = y ELSE Abs(y) = -y
    BY <2>1 DEF Abs, Links
  <2>3. QED
    BY <1>1, <2>1, <2>2
<1>4. LET next == new[e].nextLeft
      IN  /\ Abs(next) \in DOMAIN new
          /\ new[e].end = IF next > 0 THEN new[next].start ELSE new[-next].end
  BY <1>1, <1>2
<1>5. QED
  BY <1>1, <1>3, <1>4 DEF LeftLinked, new

\* What ST_AddIsoEdge and TopoGeo_addLinestring insert.
LEMMA IsoEdgeKeeps ==
    ASSUME Types, Plane(node', edge), LeftLinked(edge), NEW m \in DOMAIN node', NEW n \in DOMAIN node',
           NEW c, Curve(c), IsSimple(c), StartPoint(c) = node'[m].geom, EndPoint(c) = node'[n].geom,
           \A k \in DOMAIN node' : ~Within(node'[k].geom, c),
           \A e \in DOMAIN edge : ~Intersects(edge[e].geom, c),
           seq' \in [node : 0..MaxNode, edge : 0..MaxEdge, tg : 0..MaxTopoGeo],
           seq'.edge = seq.edge + 1, DOMAIN node' \subseteq 1..seq'.node,
           \A k \in DOMAIN node' : node'[k] \in Node(face),
           edge' = Put(edge, seq.edge + 1, NewEdge(m, n, -(seq.edge + 1), seq.edge + 1, 0, 0, c)),
           UNCHANGED <<face, relation, tgs>>
    PROVE  Core'
<1> DEFINE e == seq.edge + 1
           x == NewEdge(m, n, -e, e, 0, 0, c)
<1>1. e \in 1..MaxEdge /\ e \notin DOMAIN edge /\ m \in 1..MaxNode /\ n \in 1..MaxNode
  BY SeqFacts, BoundsAssumption
<1>2. 0 \in face
  BY FaceFacts
<1>3. e \in Links /\ -e \in Links /\ c \in Seq(Points)
  BY <1>1, LinkFacts DEF Curve
<1> HIDE DEF e
<1>4. /\ x \in Edge(face) /\ x.start = m /\ x.end = n /\ x.nextLeft = -e /\ x.geom = c
  BY <1>1, <1>2, <1>3, NewEdgeFacts
<1>5. edge' = Put(edge, e, x)
  BY DEF e
<1> HIDE DEF x
<1>6. DOMAIN edge' = DOMAIN edge \cup {e} /\ \A d \in DOMAIN edge' : edge'[d] \in Edge(face)
  BY <1>4, <1>5 DEF Types, TypeOK, Put
<1>7. DOMAIN edge' \subseteq 1..seq'.edge
  BY <1>6, SeqFacts DEF e
<1>8. Types'
  BY <1>6, <1>7 DEF Types, TypeOK
<1>9. Plane(node', edge')
  BY <1>1, <1>4, <1>5, EdgeAdded
<1>10. LeftLinked(edge')
  <2>1. \A d \in DOMAIN edge : edge[d].nextLeft \in Links
    BY DEF Types, TypeOK, Edge
  <2>2. QED
    BY <1>1, <1>4, <1>5, <2>1, LinkedAdded
<1>11. QED
  BY <1>8, <1>9, <1>10 DEF Core

LEMMA AddIsoEdgeKeeps ==
    ASSUME Core, NEW m \in DOMAIN node, NEW n \in DOMAIN node, NEW c \in Curves, ST_AddIsoEdge(m, n, c)
    PROVE  Core'
<1>1. /\ seq' = [seq EXCEPT !.edge = @ + 1] /\ seq.edge < MaxEdge
      /\ seq \in [node : 0..MaxNode, edge : 0..MaxEdge, tg : 0..MaxTopoGeo]
      /\ UNCHANGED <<node, face, relation, tgs>>
  BY DEF ST_AddIsoEdge, Core, Types, TypeOK
<1>2. /\ seq' \in [node : 0..MaxNode, edge : 0..MaxEdge, tg : 0..MaxTopoGeo]
      /\ seq'.edge = seq.edge + 1 /\ seq'.node = seq.node
  BY <1>1, BoundsAssumption
<1>3. edge' = Put(edge, seq.edge + 1, NewEdge(m, n, -(seq.edge + 1), seq.edge + 1, 0, 0, c))
  BY <1>2 DEF ST_AddIsoEdge
<1>4. DOMAIN node' \subseteq 1..seq'.node /\ \A k \in DOMAIN node' : node'[k] \in Node(face)
  BY <1>1, <1>2 DEF Core, Types, TypeOK
<1>5. Types /\ Plane(node', edge) /\ LeftLinked(edge) /\ m \in DOMAIN node' /\ n \in DOMAIN node'
  BY <1>1 DEF Core
<1>6. /\ Curve(c) /\ IsSimple(c) /\ StartPoint(c) = node'[m].geom /\ EndPoint(c) = node'[n].geom
      /\ \A k \in DOMAIN node' : ~Within(node'[k].geom, c)
      /\ \A e \in DOMAIN edge : ~Intersects(edge[e].geom, c)
  BY <1>1, CurvesAssumption DEF ST_AddIsoEdge, CrossesNode
<1>7. QED
  BY <1>1, <1>2, <1>3, <1>4, <1>5, <1>6, IsoEdgeKeeps

LEMMA AddLinestringKeeps ==
    ASSUME Core, NEW c \in Curves, TopoGeo_addLinestring(c)
    PROVE  Core'
<1> DEFINE m == seq.node + 1
           p == StartPoint(c)
           q == EndPoint(c)
           ns == Put(node, m, [geom |-> p, face |-> Null])
<1>1. /\ IsSimple(c) /\ p # q
      /\ \A x \in {p, q} : ~Coincident(x) /\ ~EdgeThrough(x)
      /\ ~CrossesNode(c)
      /\ \A d \in DOMAIN edge : ~Intersects(edge[d].geom, c)
      /\ m < MaxNode /\ seq.edge + 1 <= MaxEdge
      /\ node' = Put(ns, m + 1, [geom |-> q, face |-> Null])
      /\ edge' = Put(edge, seq.edge + 1, NewEdge(m, m + 1, -(seq.edge + 1), seq.edge + 1, 0, 0, c))
      /\ seq' = [seq EXCEPT !.node = m + 1, !.edge = seq.edge + 1]
      /\ UNCHANGED <<face, relation, tgs>>
  BY DEF TopoGeo_addLinestring
<1>2. Curve(c) /\ p \in Points /\ q \in Points /\ p \in On(c) /\ q \in On(c)
  BY CurvesAssumption, CurveFacts
<1>3. /\ m \in 1..MaxNode /\ m + 1 \in 1..MaxNode /\ m # m + 1
      /\ m \notin DOMAIN node /\ m + 1 \notin DOMAIN node
  BY <1>1, SeqFacts, BoundsAssumption DEF Core
<1>4. /\ seq' \in [node : 0..MaxNode, edge : 0..MaxEdge, tg : 0..MaxTopoGeo]
      /\ seq'.node = m + 1 /\ seq'.edge = seq.edge + 1
  <2>1. seq \in [node : 0..MaxNode, edge : 0..MaxEdge, tg : 0..MaxTopoGeo]
    BY DEF Core, Types, TypeOK
  <2>2. m + 1 \in 0..MaxNode /\ seq.edge + 1 \in 0..MaxEdge
    BY <1>1, <1>3, <2>1, BoundsAssumption
  <2> HIDE DEF m
  <2>3. QED
    BY <1>1, <2>1, <2>2
<1>5. DOMAIN node \subseteq 1..seq.node
  BY DEF Core, Types, TypeOK
<1>6. /\ DOMAIN ns = DOMAIN node \cup {m} /\ ns[m].geom = p /\ \A k \in DOMAIN node : ns[k] = node[k]
      /\ ns[m] \in Node(face)
  BY <1>2, <1>3 DEF Put, Node
<1>7. Plane(ns, edge)
  BY <1>1, <1>3, NodeAdded DEF Core, Coincident, EdgeThrough
<1> HIDE DEF ns, m
<1>8. m + 1 \notin DOMAIN ns /\ (\A k \in DOMAIN ns : ns[k].geom # q) /\ \A e \in DOMAIN edge : q \notin On(edge[e].geom)
  BY <1>1, <1>3, <1>6 DEF Coincident, EdgeThrough
<1>9. Plane(node', edge)
  BY <1>1, <1>7, <1>8, NodeAdded
<1>10. /\ DOMAIN node' = DOMAIN node \cup {m, m + 1} /\ node'[m].geom = p /\ node'[m + 1].geom = q
       /\ node'[m] \in Node(face) /\ node'[m + 1] \in Node(face)
       /\ \A k \in DOMAIN node : node'[k] = node[k]
  BY <1>1, <1>2, <1>3, <1>6, <1>8 DEF Put, Node
<1>11. \A k \in DOMAIN node' : node'[k] \in Node(face)
  BY <1>10 DEF Core, Types, TypeOK
<1>12. DOMAIN node' \subseteq 1..seq'.node
  BY <1>4, <1>5, <1>10, SeqFacts DEF m, Core
<1>13. \A k \in DOMAIN node' : ~Within(node'[k].geom, c)
  BY <1>1, <1>10 DEF CrossesNode, Within, Boundary
<1>14. Types /\ LeftLinked(edge) /\ m \in DOMAIN node' /\ m + 1 \in DOMAIN node'
  BY <1>10 DEF Core
<1>15. QED
  BY <1>1, <1>2, <1>4, <1>9, <1>10, <1>11, <1>12, <1>13, <1>14, IsoEdgeKeeps

LEMMA ChangeEdgeGeomKeeps ==
    ASSUME Core, NEW e \in DOMAIN edge, NEW c \in Curves, ST_ChangeEdgeGeom(e, c)
    PROVE  /\ Core' /\ StartPoint(c) # EndPoint(c) /\ edge[e].start # edge[e].end
           /\ \A d \in DOMAIN edge :
                 edge'[d] = IF d = e THEN [edge[e] EXCEPT !.geom = c] ELSE edge[d]
<1> DEFINE x == [edge[e] EXCEPT !.geom = c]
           es == Drop(edge, e)
<1>1. edge' = [edge EXCEPT ![e].geom = c] /\ UNCHANGED <<node, face, relation, tgs, seq>>
  BY DEF ST_ChangeEdgeGeom
<1>2. edge[e] \in Edge(face) /\ Curve(c) /\ c \in Seq(Points)
  BY CurvesAssumption DEF Core, Types, TypeOK, Curve
<1>3. /\ x \in Edge(face) /\ x.start = edge[e].start /\ x.end = edge[e].end /\ x.geom = c
      /\ x.nextLeft = edge[e].nextLeft
  BY <1>2 DEF Edge
<1>4. edge' = [d \in DOMAIN edge |-> IF d = e THEN x ELSE edge[d]]
  BY <1>1
<1> HIDE DEF x
<1>5. Types'
  BY <1>1, <1>3, <1>4 DEF Core, Types, TypeOK
<1>6. DOMAIN es = DOMAIN edge \ {e} /\ \A d \in DOMAIN es : es[d] = edge[d]
  BY DEF Drop
<1>7. Plane(node, es)
  BY EdgeRemoved DEF Core
<1>8. edge' = Put(es, e, x)
  <2>1. DOMAIN es \cup {e} = DOMAIN edge
    BY <1>6
  <2>2. QED
    BY <1>4, <1>6, <2>1 DEF Put
<1> HIDE DEF es
<1>9. /\ e \notin DOMAIN es /\ {x.start, x.end} \subseteq DOMAIN node /\ IsSimple(c)
      /\ StartPoint(x.geom) = node[x.start].geom /\ EndPoint(x.geom) = node[x.end].geom
      /\ \A n \in DOMAIN node : ~Within(node[n].geom, x.geom)
      /\ \A d \in DOMAIN es : ~Intersects(es[d].geom, x.geom)
  BY <1>3, <1>6 DEF ST_ChangeEdgeGeom, CrossesNode, Core, Plane, EndsMatch
<1>10. Plane(node, Put(es, e, x)) /\ x.start # x.end /\ StartPoint(x.geom) # EndPoint(x.geom)
  BY <1>2, <1>3, <1>7, <1>9, EdgeAdded
<1>11. LeftLinked(edge')
  <2>1. /\ DOMAIN edge' = DOMAIN edge
        /\ \A d \in DOMAIN edge : edge'[d].start = edge[d].start /\ edge'[d].end = edge[d].end
                                  /\ edge'[d].nextLeft = edge[d].nextLeft
    BY <1>3, <1>4
  <2>2. ASSUME NEW d \in DOMAIN edge
        PROVE  LET next == edge'[d].nextLeft
               IN  /\ Abs(next) \in DOMAIN edge'
                   /\ edge'[d].end = IF next > 0 THEN edge'[next].start ELSE edge'[-next].end
    <3> DEFINE y == edge[d].nextLeft
    <3>1. /\ y \in Links /\ Abs(y) \in DOMAIN edge
          /\ edge[d].end = IF y > 0 THEN edge[y].start ELSE edge[-y].end
      BY DEF Core, Types, TypeOK, Edge, LeftLinked
    <3>2. IF y > 0 THEN Abs(y) = y ELSE Abs(y) = -y
      BY <3>1 DEF Abs, Links
    <3>3. QED
      BY <2>1, <3>1, <3>2
  <2>3. QED
    BY <2>1, <2>2 DEF LeftLinked
<1>12. QED
  BY <1>1, <1>3, <1>4, <1>5, <1>8, <1>10, <1>11 DEF Core, x

\* The geometry of both splits, and what is left of the checks.
LEMMA SplitKeeps ==
    ASSUME Core, NEW e \in DOMAIN edge, NEW p \in Points, NEW e1, NEW e2, SplitStep(e, p, e1, e2)
    PROVE  Core'
<1> DEFINE n == seq.node + 1
           v == [geom |-> p, face |-> Null]
<1>1. /\ Within(p, edge[e].geom) /\ (\A m \in DOMAIN node : node[m].geom # p) /\ seq.node < MaxNode
      /\ e1 \in 1..MaxEdge /\ e2 \in 1..MaxEdge /\ e1 <= seq'.edge /\ e2 <= seq'.edge /\ e2 > seq.edge
      /\ SplitInto(edge, e, n, p, edge', e1, e2) /\ LinksSplit(edge, e, edge', e1, e2)
      /\ \A d \in DOMAIN edge' : edge'[d] \in Edge(face)
      /\ node' = Put(node, n, v)
      /\ relation' = (relation \ Holding(e)) \cup {Redirected(r, d) : r \in Holding(e), d \in {e1, e2}}
      /\ seq' = [seq EXCEPT !.node = n, !.edge = e2] /\ UNCHANGED <<face, tgs>>
  BY DEF SplitStep, CanSplit, Coincident
<1>2. n \notin DOMAIN node /\ n \in 1..MaxNode /\ DOMAIN edge \subseteq 1..MaxEdge /\ e \in 1..MaxEdge
  BY <1>1, SeqFacts, BoundsAssumption DEF Core
<1>3. Plane(node', edge')
  BY <1>1, <1>2, EdgeSplit DEF Core
<1>4. LeftLinked(edge')
  <2>1. \A d \in DOMAIN edge : edge[d].nextLeft \in Links
    BY DEF Core, Types, TypeOK, Edge
  <2>2. QED
    BY <1>1, <1>2, <2>1, LinksStayMet DEF Core
<1>5. relation' \subseteq Rowset
  <2>1. relation \subseteq Rowset
    BY DEF Core, Types, TypeOK, Rowset
  <2>2. \A r \in Holding(e), d \in {e1, e2} : Redirected(r, d) \in Rowset
    BY <1>1, <1>2, RowFacts DEF Core, Rowset
  <2>3. QED
    BY <1>1, <2>1, <2>2
<1>6. /\ seq' \in [node : 0..MaxNode, edge : 0..MaxEdge, tg : 0..MaxTopoGeo]
      /\ seq'.node = n /\ seq'.edge = e2
  <2>1. seq \in [node : 0..MaxNode, edge : 0..MaxEdge, tg : 0..MaxTopoGeo]
    BY DEF Core, Types, TypeOK
  <2>2. n \in 0..MaxNode /\ e2 \in 0..MaxEdge
    BY <1>1, <1>2, BoundsAssumption
  <2> HIDE DEF n
  <2>3. QED
    BY <1>1, <2>1, <2>2
<1>7. DOMAIN node' \subseteq 1..seq'.node /\ \A m \in DOMAIN node' : node'[m] \in Node(face)
  <2>1. v \in Node(face)
    BY DEF Node
  <2>2. DOMAIN node' = DOMAIN node \cup {n} /\ \A m \in DOMAIN node' : node'[m] \in Node(face)
    BY <1>1, <2>1 DEF Core, Types, TypeOK, Put
  <2>3. QED
    BY <1>6, <2>2, SeqFacts DEF Core
<1>8. DOMAIN edge' \subseteq 1..seq'.edge
  <2>1. DOMAIN edge' = (DOMAIN edge \ {e}) \cup {e1, e2}
    BY <1>1 DEF SplitInto
  <2>2. DOMAIN edge \subseteq 1..e2
    BY <1>1, SeqFacts DEF Core
  <2>3. e1 \in 1..e2 /\ e2 \in 1..e2
    BY <1>1, <1>6, BoundsAssumption
  <2>4. QED
    BY <1>6, <2>1, <2>2, <2>3
<1>9. Types'
  BY <1>1, <1>5, <1>6, <1>7, <1>8 DEF Core, Types, TypeOK, Rowset
<1>10. QED
  BY <1>3, <1>4, <1>9 DEF Core

LEMMA EitherSplit ==
    ASSUME Types, Plane(node, edge), NEW e \in DOMAIN edge, NEW p,
           ST_NewEdgesSplit(e, p) \/ ST_ModEdgesSplit(e, p)
    PROVE  \E e1, e2 : SplitStep(e, p, e1, e2)
BY NewSplitStep, ModSplitStep

LEMMA CreateTopoGeomKeeps ==
    ASSUME Core, NEW q \in Requests, CreateTopoGeom(q)
    PROVE  Core'
<1> DEFINE id == seq.tg + 1
           rows == {[layer |-> q.layer, tg |-> id, elem |-> x[1], type |-> x[2]] : x \in q.elements}
<1>1. /\ q.layer \in DOMAIN Layers /\ id <= MaxTopoGeo /\ seq' = [seq EXCEPT !.tg = id]
      /\ relation' \subseteq relation \cup rows
      /\ UNCHANGED <<node, edge, face>>
  BY DEF CreateTopoGeom
<1>2. id \in 1..MaxTopoGeo /\ id \in 0..MaxTopoGeo
  BY <1>1, SeqFacts, BoundsAssumption DEF Core
<1>3. rows \subseteq Rowset
  BY <1>1, <1>2, RequestsAssumption DEF Rowset
<1>4. /\ seq' \in [node : 0..MaxNode, edge : 0..MaxEdge, tg : 0..MaxTopoGeo]
      /\ seq'.node = seq.node /\ seq'.edge = seq.edge
  <2>1. seq \in [node : 0..MaxNode, edge : 0..MaxEdge, tg : 0..MaxTopoGeo]
    BY DEF Core, Types, TypeOK
  <2> HIDE DEF id
  <2>2. QED
    BY <1>1, <1>2, <2>1
<1>5. relation' \subseteq Rowset
  BY <1>1, <1>3 DEF Core, Types, TypeOK, Rowset
<1>6. Types'
  BY <1>1, <1>4, <1>5 DEF Core, Types, TypeOK, Rowset
<1>7. QED
  BY <1>1, <1>6 DEF Core

LEMMA StepCore == Core /\ [Next]_vars => Core'
<1> SUFFICES ASSUME Core, [Next]_vars PROVE Core'
  OBVIOUS
<1>1. CASE \E f \in face \cup {Null}, p \in Points : ST_AddIsoNode(f, p)
  BY <1>1, AddIsoNodeKeeps
<1>2. CASE \E n \in DOMAIN node : ST_RemoveIsoNode(n) \/ \E p \in Points : ST_MoveIsoNode(n, p)
  BY <1>2, RemoveIsoNodeKeeps, MoveIsoNodeKeeps
<1>3. CASE \E e \in DOMAIN edge : ST_RemoveIsoEdge(e) \/ \E c \in Curves : ST_ChangeEdgeGeom(e, c)
  BY <1>3, RemoveIsoEdgeKeeps, ChangeEdgeGeomKeeps
<1>4. CASE \E m, n \in DOMAIN node, c \in Curves : ST_AddIsoEdge(m, n, c)
  BY <1>4, AddIsoEdgeKeeps
<1>5. CASE \E c \in Curves : TopoGeo_addLinestring(c)
  BY <1>5, AddLinestringKeeps
<1>6. CASE Split
  <2>1. PICK e \in DOMAIN edge, p \in Points : ST_NewEdgesSplit(e, p) \/ ST_ModEdgesSplit(e, p)
    BY <1>6 DEF Split
  <2>2. PICK e1, e2 : SplitStep(e, p, e1, e2)
    BY <2>1, EitherSplit DEF Core
  <2>3. QED
    BY <2>2, SplitKeeps
<1>7. CASE \E q \in Requests : CreateTopoGeom(q)
  BY <1>7, CreateTopoGeomKeeps
<1>8. CASE UNCHANGED vars
  BY <1>8 DEF vars, Core, Types, TypeOK
<1>9. QED
  BY <1>1, <1>2, <1>3, <1>4, <1>5, <1>6, <1>7, <1>8 DEF Next

\* The columns keep their types, whatever the order of the edits: ids come from
\* the sequences, and every link names an edge number.
THEOREM TopologyTypesCorrect == Spec => []TypeOK
<1>1. Core => TypeOK
  BY DEF Core, Types
<1>2. QED
  BY <1>1, InitCore, StepCore, PTL DEF Spec

\* The left links lead on after any edits, splits by either function and
\* removals among them.
THEOREM LeftLinksAlwaysMeet == Spec => []LeftLinksMeet
<1>1. Core => LeftLinksMeet
  BY DEF Core, LeftLinksMeet
<1>2. QED
  BY <1>1, InitCore, StepCore, PTL DEF Spec

-----------------------------------------------------------------------------
(* intersects(), by ids and by geometry. *)

LEMMA EndsOn ==
    ASSUME Plane(node, edge), NEW e \in DOMAIN edge
    PROVE  \A n \in DOMAIN node : (node[n].geom \in On(edge[e].geom)) = (n \in Ends(e))
<1>1. Curve(edge[e].geom) /\ EndsMatch(node, edge) /\ OnlyEndsOn(node, edge)
  BY DEF Plane
<1>2. StartPoint(edge[e].geom) \in On(edge[e].geom) /\ EndPoint(edge[e].geom) \in On(edge[e].geom)
  BY <1>1, CurveFacts
<1>3. QED
  BY <1>1, <1>2 DEF EndsMatch, OnlyEndsOn, Ends

LEMMA PointLine ==
    ASSUME Plane(node, edge), NEW a, NEW b, a.type = 1, b.type = 2
    PROVE  PointMeetsLine(a, b) = (Geometry(a) \cap Geometry(b) # {})
<1>1. /\ Geometry(a) = {node[r.elem].geom : r \in {s \in Rows(a) : s.elem \in DOMAIN node}}
      /\ Geometry(b) = UNION {On(edge[e].geom) : e \in EdgesOf(b)}
  BY DEF Geometry
<1>2. EdgesOf(b) \subseteq DOMAIN edge
  BY DEF EdgesOf
<1>3. ASSUME PointMeetsLine(a, b) PROVE Geometry(a) \cap Geometry(b) # {}
  <2>1. PICK e \in EdgesOf(b), r \in Rows(a) : r.elem \in Ends(e)
    BY <1>3 DEF PointMeetsLine
  <2>2. r.elem \in DOMAIN node
    BY <1>2, <2>1 DEF Plane, EndsMatch, Ends
  <2>3. node[r.elem].geom \in On(edge[e].geom)
    BY <1>2, <2>1, <2>2, EndsOn
  <2>4. QED
    BY <1>1, <2>2, <2>3
<1>4. ASSUME Geometry(a) \cap Geometry(b) # {} PROVE PointMeetsLine(a, b)
  <2>1. PICK r \in Rows(a), e \in EdgesOf(b) : r.elem \in DOMAIN node /\ node[r.elem].geom \in On(edge[e].geom)
    BY <1>1, <1>4
  <2>2. r.elem \in Ends(e)
    BY <1>2, <2>1, EndsOn
  <2>3. QED
    BY <2>1, <2>2 DEF PointMeetsLine
<1>5. PointMeetsLine(a, b) \in BOOLEAN
  BY DEF PointMeetsLine
<1>6. QED
  BY <1>3, <1>4, <1>5

LEMMA LineLine ==
    ASSUME Plane(node, edge), NEW a, NEW b, a.type = 2, b.type = 2
    PROVE  LineMeetsLine(a, b) = (Geometry(a) \cap Geometry(b) # {})
<1>1. /\ Geometry(a) = UNION {On(edge[e].geom) : e \in EdgesOf(a)}
      /\ Geometry(b) = UNION {On(edge[e].geom) : e \in EdgesOf(b)}
  BY DEF Geometry
<1>2. EdgesOf(a) \subseteq DOMAIN edge /\ EdgesOf(b) \subseteq DOMAIN edge
  BY DEF EdgesOf
<1>3. ASSUME LineMeetsLine(a, b) PROVE Geometry(a) \cap Geometry(b) # {}
  <2>1. PICK d \in EdgesOf(a), e \in EdgesOf(b) : Ends(d) \cap Ends(e) # {}
    BY <1>3 DEF LineMeetsLine
  <2>2. PICK n : n \in Ends(d) \cap Ends(e)
    BY <2>1
  <2>3. n \in DOMAIN node
    BY <1>2, <2>2 DEF Plane, EndsMatch, Ends
  <2>4. node[n].geom \in On(edge[d].geom) \cap On(edge[e].geom)
    BY <1>2, <2>2, <2>3, EndsOn
  <2>5. QED
    BY <1>1, <2>4
<1>4. ASSUME Geometry(a) \cap Geometry(b) # {} PROVE LineMeetsLine(a, b)
  <2>1. PICK d \in EdgesOf(a), e \in EdgesOf(b) : On(edge[d].geom) \cap On(edge[e].geom) # {}
    BY <1>1, <1>4
  <2>2. CASE d = e
    BY <2>1, <2>2 DEF LineMeetsLine, Ends
  <2>3. CASE d # e
    BY <1>2, <2>1, <2>3 DEF Plane, MeetAtNodes, LineMeetsLine, Ends
  <2>4. QED
    BY <2>2, <2>3
<1>5. LineMeetsLine(a, b) \in BOOLEAN
  BY DEF LineMeetsLine
<1>6. QED
  BY <1>3, <1>4, <1>5

\* The answers of intersects() on points and lines, found by ids, are those of
\* the geometries: nodes are apart, and edges meet them and each other at ends.
THEOREM IntersectsAgrees == Spec => []IntersectsIsGeometric
<1>1. Core => IntersectsIsGeometric
  <2> SUFFICES ASSUME Core, NEW a \in tgs, NEW b \in tgs,
                      <<a.type, b.type>> \in {<<1, 2>>, <<2, 2>>}
               PROVE  TopoIntersects(a, b) = (Geometry(a) \cap Geometry(b) # {})
    BY DEF IntersectsIsGeometric
  <2>1. CASE <<a.type, b.type>> = <<1, 2>>
    <3>1. TopoIntersects(a, b) = PointMeetsLine(a, b)
      BY <2>1 DEF TopoIntersects
    <3>2. QED
      BY <2>1, <3>1, PointLine DEF Core
  <2>2. CASE <<a.type, b.type>> = <<2, 2>>
    <3>1. TopoIntersects(a, b) = LineMeetsLine(a, b)
      BY <2>2 DEF TopoIntersects
    <3>2. QED
      BY <2>2, <3>1, LineLine DEF Core
  <2>3. QED
    BY <2>1, <2>2
<1>2. QED
  BY <1>1, InitCore, StepCore, PTL DEF Spec

-----------------------------------------------------------------------------
(* TopoGeometries through a split. *)

\* What the rows and the TopoGeometries refer to was there when they were made.
Held ==
    /\ \A r \in relation :
          /\ r.tg <= seq.tg
          /\ IF Layers[r.layer].level = 0
             THEN /\ r.type = 1 => r.elem \in 1..seq.node
                  /\ r.type = 2 => Abs(r.elem) \in 1..seq.edge
             ELSE r.type = Layers[r.layer].child
    /\ \A a \in tgs :
          /\ a.layer \in DOMAIN Layers /\ a.id \in Int /\ a.id <= seq.tg
          /\ Layers[a.layer].level = 0 /\ a.type # 4 => \A r \in Rows(a) : r.type = a.type

LEMMA RowTypes ==
    ASSUME Core, NEW r \in relation
    PROVE  /\ r \in Rowset /\ r.layer \in DOMAIN Layers /\ r.tg \in Int /\ r.elem \in Int
           /\ Layers[r.layer].level \in Nat
<1>1. r \in Rowset
  BY DEF Core, Types, TypeOK, Rowset
<1>2. QED
  BY <1>1, LayersAssumption, BoundsAssumption DEF Rowset

\* As rows only change by splits and new TopoGeometries, and no sequence is
\* taken back.
LEMMA HeldIfSame ==
    ASSUME Core, Held, UNCHANGED <<relation, tgs>>, seq'.tg = seq.tg,
           seq'.node \in Nat, seq'.node >= seq.node, seq'.edge \in Nat, seq'.edge >= seq.edge
    PROVE  Held'
<1>1. seq.node \in Nat /\ seq.edge \in Nat
  BY SeqFacts DEF Core
<1>2. 1..seq.node \subseteq 1..seq'.node /\ 1..seq.edge \subseteq 1..seq'.edge
  BY <1>1
<1>3. \A a : Rows(a)' = Rows(a)
  BY DEF Rows
<1>4. QED
  BY <1>2, <1>3 DEF Held

LEMMA CreateHolds ==
    ASSUME Core, Held, NEW q \in Requests, CreateTopoGeom(q)
    PROVE  Held'
<1> DEFINE lyr == Layers[q.layer]
           id == seq.tg + 1
           rows == {[layer |-> q.layer, tg |-> id, elem |-> x[1], type |-> x[2]] : x \in q.elements}
           new == [layer |-> q.layer, id |-> id, type |-> q.type]
           ok == \A r \in rows : /\ IF lyr.level = 0 THEN q.type \in {4, r.type} ELSE r.type = lyr.child
                                 /\ RelationAllows(r)
<1>1. /\ q.layer \in DOMAIN Layers /\ id <= MaxTopoGeo /\ seq' = [seq EXCEPT !.tg = id]
      /\ IF ok THEN relation' = relation \cup rows /\ tgs' = tgs \cup {new}
         ELSE UNCHANGED <<relation, tgs>>
      /\ UNCHANGED <<node, edge, face>>
  BY DEF CreateTopoGeom
<1>2. /\ seq'.tg = id /\ seq'.node = seq.node /\ seq'.edge = seq.edge /\ id \in Int /\ seq.tg \in Int
      /\ seq.tg < id /\ DOMAIN node \subseteq 1..seq.node /\ DOMAIN edge \subseteq 1..seq.edge
      /\ lyr.level \in Nat
  <2>1. seq \in [node : 0..MaxNode, edge : 0..MaxEdge, tg : 0..MaxTopoGeo]
    BY DEF Core, Types, TypeOK
  <2>2. QED
    BY <1>1, <2>1, SeqFacts, LayersAssumption DEF Core
<1>3. \A r \in rows : r.layer = q.layer /\ r.tg = id
  OBVIOUS
<1>4. ASSUME ok, NEW r \in rows
      PROVE  /\ IF lyr.level = 0
                THEN /\ r.type = 1 => r.elem \in 1..seq.node
                     /\ r.type = 2 => Abs(r.elem) \in 1..seq.edge
                     /\ q.type # 4 => r.type = q.type
                ELSE r.type = lyr.child
  <2>1. /\ IF lyr.level = 0 THEN q.type \in {4, r.type} ELSE r.type = lyr.child
        /\ RelationAllows(r) /\ r.layer = q.layer
    BY <1>3, <1>4
  <2> HIDE DEF rows, ok
  <2>2. QED
    BY <1>2, <2>1 DEF RelationAllows
<1> HIDE DEF rows, ok, id, lyr
<1>5. ASSUME NEW r \in relation'
      PROVE  /\ r.tg <= seq'.tg
             /\ IF Layers[r.layer].level = 0
                THEN /\ r.type = 1 => r.elem \in 1..seq.node
                     /\ r.type = 2 => Abs(r.elem) \in 1..seq.edge
                ELSE r.type = Layers[r.layer].child
  <2>1. CASE r \in relation
    BY <1>2, <2>1, RowTypes DEF Held
  <2>2. CASE ok /\ r \in rows
    BY <1>2, <1>3, <1>4, <2>2 DEF lyr
  <2>3. QED
    BY <1>1, <2>1, <2>2
<1>6. ASSUME NEW a \in tgs'
      PROVE  /\ a.layer \in DOMAIN Layers /\ a.id \in Int /\ a.id <= seq'.tg
             /\ Layers[a.layer].level = 0 /\ a.type # 4 => \A r \in Rows(a)' : r.type = a.type
  <2>1. CASE a \in tgs
    <3>1. a.layer \in DOMAIN Layers /\ a.id \in Int /\ a.id <= seq'.tg
      BY <1>2, <2>1 DEF Held
    <3>2. Rows(a)' = Rows(a)
      BY <1>1, <1>2, <1>3, <2>1 DEF Rows, Held
    <3>3. QED
      BY <2>1, <3>1, <3>2 DEF Held
  <2>2. CASE ok /\ a = new
    <3>1. a.layer = q.layer /\ a.id = id /\ a.type = q.type
      BY <2>2
    <3>2. \A r \in Rows(a)' : r \in rows
      BY <1>1, <1>2, <2>2, <3>1, RowTypes DEF Rows, Held
    <3>3. QED
      BY <1>1, <1>2, <1>4, <2>2, <3>1, <3>2 DEF lyr
  <2>3. QED
    BY <1>1, <2>1, <2>2
<1>7. QED
  BY <1>2, <1>5, <1>6 DEF Held

\* Every row after a split is one of before with another element, or itself.
LEMMA SplitHolds ==
    ASSUME Core, Held, NEW e \in DOMAIN edge, NEW p, NEW e1, NEW e2, SplitStep(e, p, e1, e2)
    PROVE  /\ Held'
           /\ \A a : \A r \in Rows(a)' : \E s \in Rows(a) : s.type = r.type
<1>1. /\ relation' = (relation \ Holding(e)) \cup {Redirected(r, d) : r \in Holding(e), d \in {e1, e2}}
      /\ e1 \in 1..MaxEdge /\ e2 \in 1..MaxEdge /\ e1 <= seq'.edge /\ e2 <= seq'.edge /\ e2 > seq.edge
      /\ tgs' = tgs /\ seq' = [seq EXCEPT !.node = seq.node + 1, !.edge = e2]
  BY DEF SplitStep
<1>2. e \in 1..MaxEdge
  BY SeqFacts DEF Core
<1>3. /\ seq'.tg = seq.tg /\ seq'.edge = e2 /\ 1..seq.node \subseteq 1..seq'.node /\ 1..seq.edge \subseteq 1..e2
      /\ e1 \in 1..e2 /\ e2 \in 1..e2
  <2>1. /\ seq \in [node : 0..MaxNode, edge : 0..MaxEdge, tg : 0..MaxTopoGeo]
        /\ seq.node \in Nat /\ seq.edge \in Nat
    BY SeqFacts DEF Core, Types, TypeOK
  <2>2. seq'.tg = seq.tg /\ seq'.edge = e2 /\ seq'.node = seq.node + 1
    BY <1>1, <2>1
  <2>3. QED
    BY <1>1, <2>1, <2>2, BoundsAssumption
<1>4. ASSUME NEW r \in relation'
      PROVE  \E s \in relation :
                /\ s.layer = r.layer /\ s.tg = r.tg /\ s.type = r.type
                /\ \/ r = s
                   \/ s \in Holding(e) /\ Abs(r.elem) \in {e1, e2}
  <2>1. CASE r \in relation
    BY <2>1
  <2>2. CASE \E s \in Holding(e), d \in {e1, e2} : r = Redirected(s, d)
    <3>1. PICK s \in Holding(e), d \in {e1, e2} : r = Redirected(s, d)
      BY <2>2
    <3>2. s \in relation /\ r.layer = s.layer /\ r.tg = s.tg /\ r.type = s.type /\ Abs(r.elem) = d
      BY <1>1, <1>2, <3>1, RowFacts DEF Core
    <3>3. QED
      BY <3>1, <3>2
  <2>3. QED
    BY <1>1, <2>1, <2>2
<1>5. ASSUME NEW r \in relation'
      PROVE  /\ r.tg <= seq'.tg
             /\ IF Layers[r.layer].level = 0
                THEN /\ r.type = 1 => r.elem \in 1..seq'.node
                     /\ r.type = 2 => Abs(r.elem) \in 1..seq'.edge
                ELSE r.type = Layers[r.layer].child
  <2>1. PICK s \in relation : /\ s.layer = r.layer /\ s.tg = r.tg /\ s.type = r.type
                              /\ r = s \/ (s \in Holding(e) /\ Abs(r.elem) \in {e1, e2})
    BY <1>4
  <2>2. CASE r = s
    BY <1>3, <2>2 DEF Held
  <2>3. CASE s \in Holding(e) /\ Abs(r.elem) \in {e1, e2}
    BY <1>3, <2>1, <2>3 DEF Held, Holding
  <2>4. QED
    BY <2>1, <2>2, <2>3
<1>6. ASSUME NEW a, NEW r \in Rows(a)' PROVE \E s \in Rows(a) : s.type = r.type
  BY <1>4 DEF Rows
<1>7. ASSUME NEW a \in tgs
      PROVE  /\ a.layer \in DOMAIN Layers /\ a.id \in Int /\ a.id <= seq'.tg
             /\ Layers[a.layer].level = 0 /\ a.type # 4 => \A r \in Rows(a)' : r.type = a.type
  BY <1>3, <1>6 DEF Held
<1>8. QED
  BY <1>1, <1>5, <1>6, <1>7 DEF Held

LEMMA InitHeld == Init => Held
BY DEF Init, Held

LEMMA StepHeld == Core /\ Held /\ [Next]_vars => Held'
<1> SUFFICES ASSUME Core, Held, [Next]_vars PROVE Held'
  OBVIOUS
<1>1. /\ seq \in [node : 0..MaxNode, edge : 0..MaxEdge, tg : 0..MaxTopoGeo]
      /\ seq.node \in Nat /\ seq.edge \in Nat
  BY SeqFacts DEF Core, Types, TypeOK
<1>2. CASE \E f \in face \cup {Null}, x \in Points : ST_AddIsoNode(f, x)
  <2>1. UNCHANGED <<relation, tgs>> /\ seq' = [seq EXCEPT !.node = @ + 1]
    BY <1>2 DEF ST_AddIsoNode
  <2>2. seq'.tg = seq.tg /\ seq'.edge = seq.edge /\ seq'.node = seq.node + 1
    BY <1>1, <2>1
  <2>3. QED
    BY <1>1, <2>1, <2>2, HeldIfSame
<1>3. CASE \E n \in DOMAIN node : ST_RemoveIsoNode(n) \/ \E x \in Points : ST_MoveIsoNode(n, x)
  <2>1. UNCHANGED <<relation, tgs, seq>>
    BY <1>3 DEF ST_RemoveIsoNode, ST_MoveIsoNode
  <2>2. QED
    BY <1>1, <2>1, HeldIfSame
<1>4. CASE \E e \in DOMAIN edge : ST_RemoveIsoEdge(e) \/ \E c \in Curves : ST_ChangeEdgeGeom(e, c)
  <2>1. UNCHANGED <<relation, tgs, seq>>
    BY <1>4 DEF ST_RemoveIsoEdge, ST_ChangeEdgeGeom
  <2>2. QED
    BY <1>1, <2>1, HeldIfSame
<1>5. CASE \E m, n \in DOMAIN node, c \in Curves : ST_AddIsoEdge(m, n, c)
  <2>1. UNCHANGED <<relation, tgs>> /\ seq' = [seq EXCEPT !.edge = @ + 1]
    BY <1>5 DEF ST_AddIsoEdge
  <2>2. seq'.tg = seq.tg /\ seq'.edge = seq.edge + 1 /\ seq'.node = seq.node
    BY <1>1, <2>1
  <2>3. QED
    BY <1>1, <2>1, <2>2, HeldIfSame
<1>6. CASE \E c \in Curves : TopoGeo_addLinestring(c)
  <2>1. UNCHANGED <<relation, tgs>> /\ seq' = [seq EXCEPT !.node = seq.node + 1 + 1, !.edge = seq.edge + 1]
    BY <1>6 DEF TopoGeo_addLinestring
  <2>2. seq'.tg = seq.tg /\ seq'.edge = seq.edge + 1 /\ seq'.node = seq.node + 1 + 1
    BY <1>1, <2>1
  <2>3. QED
    BY <1>1, <2>1, <2>2, HeldIfSame
<1>7. CASE Split
  <2>1. PICK e \in DOMAIN edge, p \in Points : ST_NewEdgesSplit(e, p) \/ ST_ModEdgesSplit(e, p)
    BY <1>7 DEF Split
  <2>2. PICK e1, e2 : SplitStep(e, p, e1, e2)
    BY <2>1, EitherSplit DEF Core
  <2>3. QED
    BY <2>2, SplitHolds
<1>8. CASE \E q \in Requests : CreateTopoGeom(q)
  BY <1>8, CreateHolds
<1>9. CASE UNCHANGED vars
  BY <1>1, <1>9, HeldIfSame DEF vars
<1>10. QED
  BY <1>2, <1>3, <1>4, <1>5, <1>6, <1>7, <1>8, <1>9 DEF Next

-----------------------------------------------------------------------------
(* What a split keeps of the TopoGeometries. *)

\* The elements of the TopoGeometries S, pairs of a layer and an id.
Elems(R, S) == {<<Abs(r.elem), r.type>> : r \in {t \in R : <<t.layer, t.tg>> \in S}}

\* Where a is in Z, b and c take its place.
Swap(Z, a, b, c) == (Z \ {a}) \cup (IF a \in Z THEN {b, c} ELSE {})

\* Whose elements are those of a: its own or its children's.
Keys(a) == IF Layers[a.layer].level = 0 THEN {<<a.layer, a.id>>}
           ELSE {<<r.type, Abs(r.elem)>> : r \in Rows(a)}

ByKeys == \A a : GetTopoGeomElements(a) = Elems(relation, Keys(a))

LEMMA ElementsByKeys == ByKeys
<1> SUFFICES ASSUME NEW a PROVE GetTopoGeomElements(a) = Elems(relation, Keys(a))
  BY DEF ByKeys
<1>1. CASE Layers[a.layer].level = 0
  BY <1>1 DEF GetTopoGeomElements, Elems, Keys, Rows
<1>2. CASE Layers[a.layer].level # 0
  <2>1. Keys(a) = {<<r.type, Abs(r.elem)>> : r \in Rows(a)}
    BY <1>2 DEF Keys
  <2>2. ASSUME NEW t
        PROVE  <<t.layer, t.tg>> \in Keys(a) <=> \E r \in Rows(a) : t.layer = r.type /\ t.tg = Abs(r.elem)
    <3>1. ASSUME NEW r \in Rows(a), t.layer = r.type, t.tg = Abs(r.elem) PROVE <<t.layer, t.tg>> \in Keys(a)
      BY <2>1, <3>1
    <3>2. ASSUME <<t.layer, t.tg>> \in Keys(a) PROVE \E r \in Rows(a) : t.layer = r.type /\ t.tg = Abs(r.elem)
      <4>1. PICK r \in Rows(a) : <<t.layer, t.tg>> = <<r.type, Abs(r.elem)>>
        BY <2>1, <3>2
      <4>2. QED
        BY <4>1
    <3>3. QED
      BY <3>1, <3>2
  <2>3. GetTopoGeomElements(a) =
          {<<Abs(s.elem), s.type>> :
             s \in {t \in relation : \E r \in Rows(a) : t.layer = r.type /\ t.tg = Abs(r.elem)}}
    BY <1>2 DEF GetTopoGeomElements
  <2>4. QED
    BY <2>2, <2>3 DEF Elems
<1>3. QED
  BY <1>1, <1>2

\* A split of e changes the elements of basic TopoGeometries in one way only,
\* and no element is an edge yet to come.
LEMMA ElementsSplit ==
    ASSUME Core, Held, NEW e \in DOMAIN edge, NEW p, NEW e1, NEW e2, SplitStep(e, p, e1, e2),
           NEW S, \A k \in S : Layers[k[1]].level = 0
    PROVE  /\ Elems(relation', S) = Swap(Elems(relation, S), <<e, 2>>, <<e1, 2>>, <<e2, 2>>)
           /\ <<e2, 2>> \notin Elems(relation, S) /\ (e1 = e \/ <<e1, 2>> \notin Elems(relation, S))
<1>1. /\ relation' = (relation \ Holding(e)) \cup {Redirected(r, d) : r \in Holding(e), d \in {e1, e2}}
      /\ e1 \in 1..MaxEdge /\ e2 \in 1..MaxEdge /\ e2 > seq.edge /\ (e1 = e \/ e1 > seq.edge)
  BY DEF SplitStep
<1>2. e \in 1..MaxEdge /\ seq.edge \in Nat
  BY SeqFacts DEF Core
<1> DEFINE Of(r) == <<r.layer, r.tg>> \in S
           val(r) == <<Abs(r.elem), r.type>>
<1>3. ASSUME NEW r \in relation, Of(r)
      PROVE  r \in Holding(e) <=> val(r) = <<e, 2>>
  <2>1. Layers[r.layer].level = 0
    BY <1>3
  <2>2. r \in Holding(e) <=> Abs(r.elem) = e /\ r.type = 2
    BY <2>1 DEF Holding
  <2>3. val(r) = <<e, 2>> <=> Abs(r.elem) = e /\ r.type = 2
    OBVIOUS
  <2>4. QED
    BY <2>2, <2>3
<1>4. ASSUME NEW r \in Holding(e), NEW d \in {e1, e2}
      PROVE  /\ Of(Redirected(r, d)) = Of(r) /\ val(Redirected(r, d)) = <<d, 2>>
             /\ r \in relation
  <2>1. r.type = 2
    BY DEF Holding
  <2>2. LET x == Redirected(r, d)
        IN  r \in relation /\ x.layer = r.layer /\ x.tg = r.tg /\ x.type = r.type /\ Abs(x.elem) = d
    BY <1>1, <1>2, RowFacts DEF Core
  <2>3. QED
    BY <2>1, <2>2
<1>5. Elems(relation, S) = {val(r) : r \in {t \in relation : Of(t)}}
  BY DEF Elems
<1>6. Elems(relation', S) = {val(r) : r \in {t \in relation' : Of(t)}}
  BY DEF Elems
<1> HIDE DEF Of, val
<1>7. ASSUME NEW x \in Elems(relation', S)
      PROVE  x \in Swap(Elems(relation, S), <<e, 2>>, <<e1, 2>>, <<e2, 2>>)
  <2>1. PICK r \in relation' : Of(r) /\ x = val(r)
    BY <1>6
  <2>2. CASE r \in relation \ Holding(e)
    BY <1>3, <1>5, <2>1, <2>2 DEF Swap
  <2>3. CASE \E s \in Holding(e), d \in {e1, e2} : r = Redirected(s, d)
    <3>1. PICK s \in Holding(e), d \in {e1, e2} : r = Redirected(s, d)
      BY <2>3
    <3>2. s \in relation /\ Of(s) /\ val(r) = <<d, 2>>
      BY <1>4, <2>1, <3>1
    <3>3. val(s) = <<e, 2>>
      BY <1>3, <3>1, <3>2
    <3>4. QED
      BY <1>5, <2>1, <3>1, <3>2, <3>3 DEF Swap
  <2>4. QED
    BY <1>1, <2>1, <2>2, <2>3
<1>8. ASSUME NEW x \in Elems(relation, S), x # <<e, 2>> PROVE x \in Elems(relation', S)
  <2>1. PICK r \in relation : Of(r) /\ x = val(r)
    BY <1>5
  <2>2. r \in relation'
    BY <1>1, <1>3, <1>8, <2>1
  <2>3. QED
    BY <1>6, <2>1, <2>2
<1>9. ASSUME <<e, 2>> \in Elems(relation, S), NEW d \in {e1, e2} PROVE <<d, 2>> \in Elems(relation', S)
  <2>1. PICK r \in relation : Of(r) /\ val(r) = <<e, 2>>
    BY <1>5, <1>9
  <2>2. r \in Holding(e)
    BY <1>3, <2>1
  <2>3. Of(Redirected(r, d)) /\ val(Redirected(r, d)) = <<d, 2>> /\ Redirected(r, d) \in relation'
    BY <1>1, <1>4, <2>1, <2>2
  <2>4. QED
    BY <1>6, <2>3
<1>10. ASSUME NEW d, <<d, 2>> \in Elems(relation, S) PROVE d \in 1..seq.edge
  <2>1. PICK r \in relation : Of(r) /\ val(r) = <<d, 2>>
    BY <1>5, <1>10
  <2>2. Layers[r.layer].level = 0 /\ r.type = 2 /\ Abs(r.elem) = d
    BY <2>1 DEF Of, val
  <2>3. QED
    BY <2>2 DEF Held
<1>11. e2 \notin 1..seq.edge /\ (e1 = e \/ e1 \notin 1..seq.edge)
  BY <1>1, <1>2, BoundsAssumption
<1>12. QED
  <2>1. Elems(relation', S) = Swap(Elems(relation, S), <<e, 2>>, <<e1, 2>>, <<e2, 2>>)
    BY <1>7, <1>8, <1>9 DEF Swap
  <2>2. QED
    BY <2>1, <1>10, <1>11

\* As the change can be undone, equal ones stay equal and others stay apart.
LEMMA SwapFacts ==
    ASSUME NEW Z, NEW a, NEW b, NEW c, NEW x
    PROVE  x \in Swap(Z, a, b, c) <=> (x \in Z /\ x # a) \/ (a \in Z /\ (x = b \/ x = c))
BY DEF Swap

LEMMA SwapUndone ==
    ASSUME NEW X, NEW Y, NEW a, NEW b, NEW c,
           c \notin X, c \notin Y, b = a \/ (b \notin X /\ b \notin Y), a # c,
           Swap(X, a, b, c) = Swap(Y, a, b, c)
    PROVE  X = Y
<1>1. a \in X <=> a \in Y
  BY DEF Swap
<1>2. ASSUME NEW x, x # a PROVE x \in X <=> x \in Y
  BY <1>1, <1>2 DEF Swap
<1>3. QED
  BY <1>1, <1>2

LEMMA SameKeys ==
    ASSUME Core, Held, NEW e \in DOMAIN edge, NEW p, NEW e1, NEW e2, SplitStep(e, p, e1, e2), NEW a \in tgs
    PROVE  Keys(a)' = Keys(a) /\ \A k \in Keys(a) : Layers[k[1]].level = 0
<1>1. CASE Layers[a.layer].level = 0
  BY <1>1 DEF Keys
<1>2. CASE Layers[a.layer].level # 0
  <2>1. relation' = (relation \ Holding(e)) \cup {Redirected(r, d) : r \in Holding(e), d \in {e1, e2}}
    BY DEF SplitStep
  <2>2. \A r \in Holding(e), d \in {e1, e2} : Redirected(r, d).layer = r.layer /\ Layers[r.layer].level = 0
    BY SeqFacts, RowFacts DEF Core, SplitStep, Holding
  <2>3. Rows(a)' = Rows(a)
    BY <1>2, <2>1, <2>2 DEF Rows, Holding
  <2>4. \A r \in Rows(a) : r.type = Layers[a.layer].child
    BY <1>2 DEF Rows, Held
  <2>5. Layers[Layers[a.layer].child].level = 0
    BY <1>2, LayersAssumption DEF Held
  <2>6. QED
    BY <1>2, <2>3, <2>4, <2>5 DEF Keys
<1>3. QED
  BY <1>1, <1>2

LEMMA EqualsKept ==
    ASSUME Core, Held, NEW e \in DOMAIN edge, NEW p, NEW e1, NEW e2, SplitStep(e, p, e1, e2),
           NEW a \in tgs, NEW b \in tgs
    PROVE  TopoEquals(a, b)' = TopoEquals(a, b)
<1> DEFINE X == Elems(relation, Keys(a))
           Y == Elems(relation, Keys(b))
           F(Z) == Swap(Z, <<e, 2>>, <<e1, 2>>, <<e2, 2>>)
<1>1. Keys(a)' = Keys(a) /\ Keys(b)' = Keys(b)
  BY SameKeys
<1>2. /\ GetTopoGeomElements(a) = X /\ GetTopoGeomElements(b) = Y
      /\ GetTopoGeomElements(a)' = X' /\ GetTopoGeomElements(b)' = Y'
  <2>1. ByKeys /\ ByKeys'
    BY ElementsByKeys, PTL
  <2>2. QED
    BY <2>1 DEF ByKeys
<1>3. X' = F(X) /\ <<e2, 2>> \notin X /\ (e1 = e \/ <<e1, 2>> \notin X)
  <2>1. X' = Elems(relation', Keys(a))
    BY <1>1
  <2>2. QED
    BY <2>1, SameKeys, ElementsSplit
<1>4. Y' = F(Y) /\ <<e2, 2>> \notin Y /\ (e1 = e \/ <<e1, 2>> \notin Y)
  <2>1. Y' = Elems(relation', Keys(b))
    BY <1>1
  <2>2. QED
    BY <2>1, SameKeys, ElementsSplit
<1>5. e2 # e
  BY SeqFacts DEF Core, SplitStep
<1> HIDE DEF X, Y
<1>6. F(X) = F(Y) => X = Y
  <2>1. <<e, 2>> # <<e2, 2>> /\ (e1 = e => <<e1, 2>> = <<e, 2>>)
    BY <1>5
  <2>2. QED
    BY <1>3, <1>4, <2>1, SwapUndone
<1>7. X' = Y' <=> X = Y
  BY <1>3, <1>4, <1>6
<1>8. QED
  BY <1>2, <1>7 DEF TopoEquals

\* The edges of the face f in es, their segments, and the rings in segments.
Around(es, f) == {d \in DOMAIN es : f \in {es[d].left, es[d].right}}
Walls(es, f)  == UNION {Segments(es[d].geom) : d \in Around(es, f)}
RingsIn(W)    == {r \in Rings : Segments(r.curve) \subseteq W}

LEMMA WallsFacts ==
    ASSUME NEW es, NEW f
    PROVE  /\ FaceGeometry(es, f) = Polygonize({es[d].geom : d \in Around(es, f)})
           /\ UNION {Segments(c) : c \in {es[d].geom : d \in Around(es, f)}} = Walls(es, f)
BY DEF FaceGeometry, Around, Walls

\* The geometry of a face is found in its rings alone.
LEMMA SameRings ==
    ASSUME NEW es, NEW new, NEW f, RingsIn(Walls(es, f)) = RingsIn(Walls(new, f))
    PROVE  FaceGeometry(es, f) = FaceGeometry(new, f)
<1> DEFINE R(xs) == RingsIn(Walls(xs, f))
<1>1. ASSUME NEW xs
      PROVE  FaceGeometry(xs, f) =
               IF R(xs) = {} THEN Null
               ELSE (CHOOSE r \in R(xs) : \A s \in R(xs) : Cardinality(r.inside) <= Cardinality(s.inside)).inside
  <2> DEFINE cs == {xs[d].geom : d \in Around(xs, f)}
  <2>1. FaceGeometry(xs, f) = Polygonize(cs) /\ UNION {Segments(c) : c \in cs} = Walls(xs, f)
    BY WallsFacts
  <2> HIDE DEF cs
  <2>2. R(xs) = {r \in Rings : Segments(r.curve) \subseteq UNION {Segments(c) : c \in cs}}
    BY <2>1 DEF RingsIn
  <2> HIDE DEF R
  <2>3. QED
    BY <2>1, <2>2 DEF Polygonize
<1> HIDE DEF R
<1>2. R(es) = R(new)
  BY DEF R
<1>3. QED
  BY <1>1, <1>2

LEMMA WallsSplit ==
    ASSUME NEW es, NEW e \in DOMAIN es, NEW n, NEW p, NEW new, NEW e1, NEW e2,
           SplitInto(es, e, n, p, new, e1, e2),
           Cut(es[e].geom, p, Before(es[e].geom, p), After(es[e].geom, p)), NEW f
    PROVE  Walls(new, f) = Walls(es, f)
<1> DEFINE rest == DOMAIN es \ {e}
           b == Before(es[e].geom, p)
           a == After(es[e].geom, p)
<1>1. /\ DOMAIN new = rest \cup {e1, e2}
      /\ \A d \in rest : new[d].geom = es[d].geom /\ new[d].left = es[d].left /\ new[d].right = es[d].right
      /\ new[e1].geom = b /\ new[e1].left = es[e].left /\ new[e1].right = es[e].right
      /\ new[e2].geom = a /\ new[e2].left = es[e].left /\ new[e2].right = es[e].right
      /\ e1 \notin rest /\ e2 \notin rest
  BY DEF SplitInto
<1>2. Segments(b) \cup Segments(a) = Segments(es[e].geom)
  BY DEF Cut
<1> HIDE DEF b, a
<1>3. ASSUME NEW s \in Walls(new, f) PROVE s \in Walls(es, f)
  <2>1. PICK d \in DOMAIN new : f \in {new[d].left, new[d].right} /\ s \in Segments(new[d].geom)
    BY DEF Walls, Around
  <2>2. CASE d \in rest
    BY <1>1, <2>1, <2>2 DEF Walls, Around
  <2>3. CASE d \in {e1, e2}
    <3>1. f \in {es[e].left, es[e].right} /\ s \in Segments(es[e].geom)
      BY <1>1, <1>2, <2>1, <2>3
    <3>2. QED
      BY <3>1 DEF Walls, Around
  <2>4. QED
    BY <1>1, <2>2, <2>3
<1>4. ASSUME NEW s \in Walls(es, f) PROVE s \in Walls(new, f)
  <2>1. PICK d \in DOMAIN es : f \in {es[d].left, es[d].right} /\ s \in Segments(es[d].geom)
    BY DEF Walls, Around
  <2>2. CASE d \in rest
    BY <1>1, <2>1, <2>2 DEF Walls, Around
  <2>3. CASE d = e
    <3>1. PICK x \in {e1, e2} : s \in Segments(new[x].geom)
      BY <1>1, <1>2, <2>1, <2>3
    <3>2. x \in DOMAIN new /\ f \in {new[x].left, new[x].right}
      BY <1>1, <2>1, <2>3
    <3>3. QED
      BY <3>1, <3>2 DEF Walls, Around
  <2>4. QED
    BY <2>2, <2>3
<1>5. QED
  BY <1>3, <1>4

LEMMA SplitCut ==
    ASSUME Core, NEW e \in DOMAIN edge, NEW p, NEW e1, NEW e2, SplitStep(e, p, e1, e2)
    PROVE  /\ SplitInto(edge, e, seq.node + 1, p, edge', e1, e2)
           /\ Cut(edge[e].geom, p, Before(edge[e].geom, p), After(edge[e].geom, p))
<1>1. Within(p, edge[e].geom) /\ \A m \in DOMAIN node : node[m].geom # p
  BY DEF SplitStep, CanSplit, Coincident
<1>2. Cut(edge[e].geom, p, Before(edge[e].geom, p), After(edge[e].geom, p))
  BY <1>1, Pieces DEF Core
<1>3. QED
  BY <1>2 DEF SplitStep

LEMMA FacesKept ==
    ASSUME Core, NEW e \in DOMAIN edge, NEW p, NEW e1, NEW e2, SplitStep(e, p, e1, e2), NEW f
    PROVE  ST_GetFaceGeometry(f)' = ST_GetFaceGeometry(f)
<1>1. Walls(edge', f) = Walls(edge, f)
  BY SplitCut, WallsSplit
<1>2. FaceGeometry(edge', f) = FaceGeometry(edge, f)
  BY <1>1, SameRings
<1>3. QED
  BY <1>2 DEF ST_GetFaceGeometry

\* Only lines have rows that a split changes.
LEMMA RowsKept ==
    ASSUME Core, Held, NEW e \in DOMAIN edge, NEW p, NEW e1, NEW e2, SplitStep(e, p, e1, e2),
           NEW a \in tgs, \A r \in Rows(a) : r.type # 2
    PROVE  Rows(a)' = Rows(a)
<1>1. relation' = (relation \ Holding(e)) \cup {Redirected(r, d) : r \in Holding(e), d \in {e1, e2}}
  BY DEF SplitStep
<1>2. \A r \in Rows(a)' : r.type # 2
  BY SplitHolds
<1>3. \A r \in Holding(e), d \in {e1, e2} : Redirected(r, d).type = r.type /\ r.type = 2
  BY SeqFacts, RowFacts DEF Core, SplitStep, Holding
<1>4. QED
  BY <1>1, <1>2, <1>3 DEF Rows, Holding

LEMMA GeometryKept ==
    ASSUME Core, Held, NEW e \in DOMAIN edge, NEW p, NEW e1, NEW e2, SplitStep(e, p, e1, e2),
           NEW a \in tgs, Layers[a.layer].level = 0
    PROVE  Geometry(a)' = Geometry(a)
<1>1. a.type # 4 => (\A r \in Rows(a) : r.type = a.type) /\ (\A r \in Rows(a)' : r.type = a.type)
  BY SplitHolds DEF Held
<1>2. CASE a.type = 1
  <2>1. Rows(a)' = Rows(a)
    BY <1>1, <1>2, RowsKept
  <2>2. \A r \in Rows(a) : r.elem \in 1..seq.node
    BY <1>1, <1>2 DEF Rows, Held
  <2>3. /\ seq.node + 1 \notin 1..seq.node
        /\ DOMAIN node' = DOMAIN node \cup {seq.node + 1} /\ \A m \in DOMAIN node : node'[m] = node[m]
    BY SeqFacts DEF Core, SplitStep, Put
  <2>4. {r \in Rows(a) : r.elem \in DOMAIN node'} = {r \in Rows(a) : r.elem \in DOMAIN node}
    BY <2>2, <2>3
  <2>5. \A r \in {s \in Rows(a) : s.elem \in DOMAIN node} : node'[r.elem].geom = node[r.elem].geom
    BY <2>3
  <2>6. /\ Geometry(a) = {node[r.elem].geom : r \in {s \in Rows(a) : s.elem \in DOMAIN node}}
        /\ Geometry(a)' = {node'[r.elem].geom : r \in {s \in Rows(a)' : s.elem \in DOMAIN node'}}
    BY <1>2 DEF Geometry
  <2>7. QED
    BY <2>1, <2>4, <2>5, <2>6
<1>3. CASE a.type = 2
  <2> DEFINE S == {<<a.layer, a.id>>}
             X == Elems(relation, S)
             Y == Elems(relation', S)
             InX(d) == <<d, 2>> \in X
             InY(d) == <<d, 2>> \in Y
             rest == DOMAIN edge \ {e}
  <2>1. /\ EdgesOf(a) = {d \in DOMAIN edge : InX(d)}
        /\ EdgesOf(a)' = {d \in DOMAIN edge' : InY(d)}
    BY <1>1, <1>3 DEF EdgesOf, Elems, Rows
  <2>2. \A k \in S : Layers[k[1]].level = 0
    OBVIOUS
  <2> HIDE DEF S
  <2>3. Y = Swap(X, <<e, 2>>, <<e1, 2>>, <<e2, 2>>) /\ ~InX(e2) /\ (e1 = e \/ ~InX(e1))
    BY <2>2, ElementsSplit
  <2> HIDE DEF X, Y
  <2>4. SplitInto(edge, e, seq.node + 1, p, edge', e1, e2)
    BY SplitCut
  <2>5. /\ DOMAIN edge' = rest \cup {e1, e2} /\ e1 \notin rest /\ e2 \notin rest
        /\ \A d \in rest : edge'[d].geom = edge[d].geom
        /\ edge'[e1].geom = Before(edge[e].geom, p) /\ edge'[e2].geom = After(edge[e].geom, p)
    BY <2>4 DEF SplitInto
  <2>6. On(edge'[e1].geom) \cup On(edge'[e2].geom) = On(edge[e].geom)
    <3>1. On(Before(edge[e].geom, p)) \cup On(After(edge[e].geom, p)) = On(edge[e].geom)
      BY SplitCut DEF Cut
    <3>2. QED
      BY <2>5, <3>1
  <2>7. ASSUME NEW d PROVE InY(d) <=> (d # e /\ InX(d)) \/ (d \in {e1, e2} /\ InX(e))
    <3>1. \A x : <<d, 2>> = <<x, 2>> <=> d = x
      OBVIOUS
    <3>2. <<d, 2>> \in Y <=> \/ <<d, 2>> \in X /\ <<d, 2>> # <<e, 2>>
                             \/ <<e, 2>> \in X /\ (<<d, 2>> = <<e1, 2>> \/ <<d, 2>> = <<e2, 2>>)
      BY <2>3, SwapFacts
    <3>3. QED
      BY <3>1, <3>2
  <2> HIDE DEF InX, InY
  <2>8. \A d \in rest : d \in EdgesOf(a) <=> d \in EdgesOf(a)'
    BY <2>1, <2>5, <2>7
  <2>9. \A d \in {e1, e2} : d \in EdgesOf(a)' <=> e \in EdgesOf(a)
    BY <2>1, <2>3, <2>5, <2>7
  <2>10. /\ Geometry(a) = UNION {On(edge[d].geom) : d \in EdgesOf(a)}
         /\ Geometry(a)' = UNION {On(edge'[d].geom) : d \in EdgesOf(a)'}
    BY <1>3 DEF Geometry
  <2>11. EdgesOf(a) \subseteq rest \cup {e} /\ EdgesOf(a)' \subseteq rest \cup {e1, e2}
    BY <2>1, <2>5
  <2>12. ASSUME NEW q \in Geometry(a) PROVE q \in Geometry(a)'
    <3>1. PICK d \in EdgesOf(a) : q \in On(edge[d].geom)
      BY <2>10
    <3>2. QED
      BY <2>5, <2>6, <2>8, <2>9, <2>10, <2>11, <3>1
  <2>13. ASSUME NEW q \in Geometry(a)' PROVE q \in Geometry(a)
    <3>1. PICK d \in EdgesOf(a)' : q \in On(edge'[d].geom)
      BY <2>10
    <3>2. QED
      BY <2>5, <2>6, <2>8, <2>9, <2>10, <2>11, <3>1
  <2>14. QED
    BY <2>12, <2>13
<1>4. CASE a.type = 3
  <2>1. Rows(a)' = Rows(a)
    BY <1>1, <1>4, RowsKept
  <2>2. FacesOf(a)' = FacesOf(a)
    BY <2>1 DEF FacesOf
  <2>3. \A f : ST_GetFaceGeometry(f)' = ST_GetFaceGeometry(f)
    BY FacesKept
  <2>4. /\ Geometry(a) = UNION {ST_GetFaceGeometry(f) : f \in {g \in FacesOf(a) : ST_GetFaceGeometry(g) # Null}}
        /\ Geometry(a)' = UNION {ST_GetFaceGeometry(f)' : f \in {g \in FacesOf(a)' : ST_GetFaceGeometry(g)' # Null}}
    BY <1>4 DEF Geometry
  <2>5. QED
    BY <2>2, <2>3, <2>4
<1>5. CASE a.type \notin {1, 2, 3}
  BY <1>5 DEF Geometry
<1>6. QED
  BY <1>2, <1>3, <1>4, <1>5

\* A split by either function changes neither the geometry of a TopoGeometry
\* nor which of them are equal: rows, pieces and faces change together.
THEOREM SplitsAreInvisible == Spec => SplitsKeepGeometry
<1>1. Core /\ Held /\ [Next]_vars
      => [Split => \A a, b \in tgs :
            /\ Layers[a.layer].level = 0 => Geometry(a)' = Geometry(a)
            /\ TopoEquals(a, b)' = TopoEquals(a, b)]_vars
  <2> SUFFICES ASSUME Core, Held, Split, NEW a \in tgs, NEW b \in tgs
               PROVE  /\ Layers[a.layer].level = 0 => Geometry(a)' = Geometry(a)
                      /\ TopoEquals(a, b)' = TopoEquals(a, b)
    OBVIOUS
  <2>1. PICK e \in DOMAIN edge, p \in Points : ST_NewEdgesSplit(e, p) \/ ST_ModEdgesSplit(e, p)
    BY DEF Split
  <2>2. PICK e1, e2 : SplitStep(e, p, e1, e2)
    BY <2>1, EitherSplit DEF Core
  <2>3. QED
    BY <2>2, GeometryKept, EqualsKept
<1>2. QED
  BY <1>1, InitCore, StepCore, InitHeld, StepHeld, PTL DEF Spec, SplitsKeepGeometry

-----------------------------------------------------------------------------
(* Rings, and the edges that are in none. *)

LEMMA LeastIn ==
    ASSUME NEW T, T \subseteq Nat, T # {}
    PROVE  \E x \in T : \A y \in T : x <= y
<1> DEFINE R == OpToRel(<, Nat)
<1>1. IsWellFoundedOn(R, Nat)
  BY NatLessThanWellFounded
<1>2. \A x, y \in Nat : y < x => <<y, x>> \in R
  BY DEF OpToRel
<1> HIDE DEF R
<1>3. PICK x \in T : \A y \in T : <<y, x>> \notin R
  BY <1>1, WFMin
<1>4. ASSUME NEW y \in T PROVE x <= y
  <2>1. x \in Nat /\ y \in Nat
    OBVIOUS
  <2>2. <<y, x>> \notin R
    BY <1>3
  <2>3. ~(y < x)
    BY <1>2, <2>1, <2>2
  <2>4. QED
    BY <2>1, <2>3
<1>5. QED
  BY <1>4

\* Every point of a ring has two neighbours.
LEMMA RingFacts ==
    ASSUME NEW r \in Rings, NEW q \in On(r.curve)
    PROVE  \E x, y \in On(r.curve) : x # y /\ {q, x} \in Segments(r.curve) /\ {q, y} \in Segments(r.curve)
<1> DEFINE c == r.curve
<1>1. Curve(c) /\ Len(c) > 3 /\ IsSimple(c) /\ c[1] = c[Len(c)] /\ Len(c) \in Nat
      /\ On(c) = {c[i] : i \in 1..Len(c)}
  BY RingsAssumption, CurveFacts DEF StartPoint, EndPoint
<1>2. PICK i \in 1..Len(c) : q = c[i]
  BY <1>1
<1> HIDE DEF c
<1>3. \A k \in 1..Len(c) - 1 : {c[k], c[k + 1]} \in Segments(c)
  BY DEF Segments
<1>4. CASE i # 1 /\ i # Len(c)
  <2>1. i - 1 \in 1..Len(c) - 1 /\ i \in 1..Len(c) - 1 /\ (i - 1) + 1 = i
        /\ i - 1 \in 1..Len(c) /\ i + 1 \in 1..Len(c)
    BY <1>1, <1>4
  <2>2. {c[i - 1], q} \in Segments(c) /\ {q, c[i + 1]} \in Segments(c)
    BY <1>2, <1>3, <2>1
  <2>3. c[i - 1] # c[i + 1]
    <3>1. i - 1 # i + 1 /\ {i - 1, i + 1} # {1, Len(c)}
      BY <1>1, <2>1
    <3>2. QED
      BY <1>1, <2>1, <3>1 DEF IsSimple
  <2>4. {q, c[i - 1]} \in Segments(c)
    BY <2>2
  <2>5. QED
    BY <1>1, <2>1, <2>2, <2>3, <2>4 DEF c
<1>5. CASE i = 1 \/ i = Len(c)
  <2>1. q = c[1] /\ q = c[Len(c)]
    BY <1>1, <1>2, <1>5
  <2>2. /\ Len(c) - 1 \in 1..Len(c) - 1 /\ 1 \in 1..Len(c) - 1 /\ (Len(c) - 1) + 1 = Len(c) /\ 1 + 1 = 2
        /\ Len(c) - 1 \in 1..Len(c) /\ 2 \in 1..Len(c)
    BY <1>1
  <2>3. {c[Len(c) - 1], q} \in Segments(c) /\ {q, c[2]} \in Segments(c)
    BY <1>3, <2>1, <2>2
  <2>4. c[Len(c) - 1] # c[2]
    <3>1. Len(c) - 1 # 2 /\ {Len(c) - 1, 2} # {1, Len(c)}
      BY <1>1
    <3>2. QED
      BY <1>1, <2>2, <3>1 DEF IsSimple
  <2>5. {q, c[Len(c) - 1]} \in Segments(c)
    BY <2>3
  <2>6. QED
    BY <1>1, <2>2, <2>3, <2>4, <2>5 DEF c
<1>6. QED
  BY <1>4, <1>5

\* A curve that is simple and open, and where each of its points leads.
Path(c) == Curve(c) /\ IsSimple(c) /\ StartPoint(c) # EndPoint(c)

LEMMA PathFacts ==
    ASSUME NEW c, Path(c), NEW k \in 1..Len(c), NEW x, x # c[k], {c[k], x} \in Segments(c)
    PROVE  \/ k + 1 \in 1..Len(c) /\ x = c[k + 1]
           \/ k - 1 \in 1..Len(c) /\ x = c[k - 1]
<1>1. Len(c) \in Nat
  BY CurveFacts DEF Path
<1>2. \A i, j \in 1..Len(c) : c[i] = c[j] => i = j
  BY <1>1 DEF Path, IsSimple, StartPoint, EndPoint
<1>3. PICK m \in 1..Len(c) - 1 : {c[k], x} = {c[m], c[m + 1]}
  BY DEF Segments
<1>4. m \in 1..Len(c) /\ m + 1 \in 1..Len(c) /\ (m + 1) - 1 = m
  BY <1>1
<1>5. CASE c[k] = c[m]
  <2>1. k = m
    BY <1>2, <1>4, <1>5
  <2>2. QED
    BY <1>3, <1>4, <2>1
<1>6. CASE c[k] = c[m + 1]
  <2>1. k = m + 1
    BY <1>2, <1>4, <1>6
  <2>2. k - 1 = m
    BY <1>4, <2>1
  <2>3. QED
    BY <1>3, <1>4, <2>1, <2>2
<1>7. QED
  BY <1>3, <1>5, <1>6

\* A ring leaves a path it has come to: at the first point of the path that is
\* on the ring, both neighbours would be the second.
LEMMA NoRingOnPath ==
    ASSUME NEW c, Path(c), NEW r \in Rings, On(c) \cap On(r.curve) # {},
           \A s \in Segments(r.curve) : s \cap On(c) # {} => s \in Segments(c)
    PROVE  FALSE
<1>1. Len(c) \in Nat /\ On(c) = {c[i] : i \in 1..Len(c)}
  BY CurveFacts DEF Path
<1> DEFINE T == {k \in 1..Len(c) : c[k] \in On(r.curve)}
<1>2. T \subseteq Nat /\ T # {}
  BY <1>1
<1>3. PICK k \in T : \A m \in T : k <= m
  BY <1>2, LeastIn
<1>4. k \in 1..Len(c) /\ c[k] \in On(r.curve) /\ c[k] \in On(c)
  BY <1>1
<1>5. PICK x, y \in On(r.curve) :
        x # y /\ {c[k], x} \in Segments(r.curve) /\ {c[k], y} \in Segments(r.curve)
  BY <1>4, RingFacts
<1>6. {c[k], x} \in Segments(c) /\ {c[k], y} \in Segments(c)
  BY <1>4, <1>5
<1>7. ASSUME NEW z \in On(r.curve), {c[k], z} \in Segments(c), z # c[k] PROVE z = c[k + 1]
  <2>1. \/ k + 1 \in 1..Len(c) /\ z = c[k + 1]
        \/ k - 1 \in 1..Len(c) /\ z = c[k - 1]
    BY <1>4, <1>7, PathFacts
  <2>2. CASE k - 1 \in 1..Len(c) /\ z = c[k - 1]
    <3>1. k - 1 \in T
      BY <1>7, <2>2
    <3>2. QED
      BY <1>1, <1>3, <1>4, <3>1
  <2>3. QED
    BY <2>1, <2>2
<1>8. {c[k]} \notin Segments(c)
  <2>1. ASSUME NEW m \in 1..Len(c) - 1 PROVE c[m] # c[m + 1]
    <3>1. m \in 1..Len(c) /\ m + 1 \in 1..Len(c) /\ m # m + 1
      BY <1>1
    <3>2. QED
      BY <1>1, <3>1 DEF Path, IsSimple, StartPoint, EndPoint
  <2>2. QED
    BY <2>1 DEF Segments
<1>9. x # c[k] /\ y # c[k]
  BY <1>6, <1>8
<1>10. QED
  BY <1>5, <1>6, <1>7, <1>9

LEMMA SegmentsOn ==
    ASSUME NEW c, Curve(c), NEW s \in Segments(c)
    PROVE  s \subseteq On(c) /\ s # {}
<1>1. Len(c) \in Nat /\ On(c) = {c[i] : i \in 1..Len(c)}
  BY CurveFacts
<1>2. PICK i \in 1..Len(c) - 1 : s = {c[i], c[i + 1]}
  BY DEF Segments
<1>3. i \in 1..Len(c) /\ i + 1 \in 1..Len(c)
  BY <1>1
<1>4. QED
  BY <1>1, <1>2, <1>3

\* An open edge that meets no other bounds no face.
LEMMA IsoEdgeFace ==
    ASSUME NEW es, NEW e \in DOMAIN es, Path(es[e].geom),
           \A d \in DOMAIN es \ {e} : Curve(es[d].geom) /\ On(es[d].geom) \cap On(es[e].geom) = {},
           NEW f
    PROVE  FaceGeometry(Drop(es, e), f) = FaceGeometry(es, f)
<1> DEFINE c == es[e].geom
           new == Drop(es, e)
<1>1. DOMAIN new = DOMAIN es \ {e} /\ \A d \in DOMAIN new : new[d] = es[d]
  BY DEF Drop
<1> HIDE DEF new
<1>2. Walls(new, f) \subseteq Walls(es, f)
  BY <1>1 DEF Walls, Around
<1>3. ASSUME NEW r \in Rings, Segments(r.curve) \subseteq Walls(es, f)
      PROVE  Segments(r.curve) \subseteq Walls(new, f)
  <2>1. \A s \in Segments(r.curve) : \E d \in DOMAIN es : /\ f \in {es[d].left, es[d].right}
                                                        /\ s \in Segments(es[d].geom)
    BY <1>3 DEF Walls, Around
  <2>2. ASSUME NEW s \in Segments(r.curve), NEW d \in DOMAIN es, s \in Segments(es[d].geom), s \cap On(c) # {}
        PROVE  d = e
    <3>1. d # e => Curve(es[d].geom)
      OBVIOUS
    <3>2. d # e => s \subseteq On(es[d].geom)
      BY <2>2, <3>1, SegmentsOn
    <3>3. QED
      BY <2>2, <3>2
  <2>3. \A s \in Segments(r.curve) : s \cap On(c) # {} => s \in Segments(c)
    BY <2>1, <2>2
  <2>4. On(c) \cap On(r.curve) = {}
    BY <2>3, NoRingOnPath
  <2>5. ASSUME NEW s \in Segments(r.curve) PROVE s \in Walls(new, f)
    <3>1. PICK d \in DOMAIN es : f \in {es[d].left, es[d].right} /\ s \in Segments(es[d].geom)
      BY <2>1
    <3>2. s \subseteq On(r.curve) /\ s # {}
      BY RingsAssumption, SegmentsOn
    <3>3. CASE d = e
      <4>1. s \subseteq On(c)
        BY <3>1, <3>3, SegmentsOn DEF Path
      <4>2. QED
        BY <2>4, <3>2, <4>1
    <3>4. CASE d # e
      BY <1>1, <3>1, <3>4 DEF Walls, Around
    <3>5. QED
      BY <3>3, <3>4
  <2>6. QED
    BY <2>5
<1>4. RingsIn(Walls(es, f)) = RingsIn(Walls(new, f))
  BY <1>2, <1>3 DEF RingsIn
<1>5. QED
  BY <1>4, SameRings DEF new

-----------------------------------------------------------------------------
(* Edges do not cross, and faces are bounded and keep their geometry.      *)

Sound(fs, es) ==
    /\ \A d, e \in DOMAIN es : d # e => ~Crosses(es[d].geom, es[e].geom)
    /\ FacesBounded(fs, es)

\* An edge with two ends crosses none: it meets others at its ends only.
LEMMA OpenUncrossed ==
    ASSUME NEW ns, NEW es, Plane(ns, es), NEW d \in DOMAIN es, NEW e \in DOMAIN es, d # e,
           StartPoint(es[d].geom) # EndPoint(es[d].geom)
    PROVE  ~Crosses(es[d].geom, es[e].geom) /\ ~Crosses(es[e].geom, es[d].geom)
<1>1. ASSUME NEW p, Within(p, es[d].geom), Within(p, es[e].geom) PROVE FALSE
  <2>1. p \in On(es[d].geom) \cap On(es[e].geom)
    BY <1>1 DEF Within
  <2>2. PICK n \in {es[d].start, es[d].end} : ns[n].geom = p
    BY <2>1 DEF Plane, MeetAtNodes
  <2>3. p \in {StartPoint(es[d].geom), EndPoint(es[d].geom)}
    BY <2>2 DEF Plane, EndsMatch
  <2>4. QED
    BY <1>1, <2>3 DEF Within, Boundary
<1>2. QED
  BY <1>1 DEF Crosses

\* No function makes a closed edge, or takes one between two faces.
LEMMA SoundKept ==
    ASSUME NEW fs, NEW ns, NEW es, NEW new, Sound(fs, es), Plane(ns, new),
           \A x \in DOMAIN new :
              \/ x \in DOMAIN es /\ new[x].geom = es[x].geom
                   /\ new[x].left = es[x].left /\ new[x].right = es[x].right
              \/ StartPoint(new[x].geom) # EndPoint(new[x].geom),
           \A d \in DOMAIN es : es[d].left # es[d].right =>
              \E x \in DOMAIN new : new[x].left = es[d].left /\ new[x].right = es[d].right
    PROVE  Sound(fs, new)
<1>1. ASSUME NEW d \in DOMAIN new, NEW e \in DOMAIN new, d # e PROVE ~Crosses(new[d].geom, new[e].geom)
  <2>1. CASE StartPoint(new[d].geom) # EndPoint(new[d].geom) \/ StartPoint(new[e].geom) # EndPoint(new[e].geom)
    BY <1>1, <2>1, OpenUncrossed
  <2>2. CASE d \in DOMAIN es /\ e \in DOMAIN es /\ new[d].geom = es[d].geom /\ new[e].geom = es[e].geom
    BY <1>1, <2>2 DEF Sound
  <2>3. QED
    BY <2>1, <2>2
<1>2. ASSUME NEW f \in fs \ {0}
      PROVE  \E x \in DOMAIN new : f \in {new[x].left, new[x].right} /\ new[x].left # new[x].right
  <2>1. PICK d \in DOMAIN es : f \in {es[d].left, es[d].right} /\ es[d].left # es[d].right
    BY DEF Sound, FacesBounded
  <2>2. QED
    BY <2>1
<1>3. ASSUME NEW x \in DOMAIN new, StartPoint(new[x].geom) = EndPoint(new[x].geom)
      PROVE  new[x].left # new[x].right
  BY <1>3 DEF Sound, FacesBounded
<1>4. QED
  BY <1>1, <1>2, <1>3 DEF Sound, FacesBounded

\* What a step makes of the edges: they stay sound, and no face but the world
\* face changes its geometry.
Unmoved == Sound(face, edge)' /\ \A f \in face \ {0} : FaceGeometry(edge', f) = FaceGeometry(edge, f)

LEMMA SameEdges == Sound(face, edge) /\ UNCHANGED <<edge, face>> => Unmoved
BY DEF Unmoved

LEMMA NewIsoEdge ==
    ASSUME Core, \/ \E m, n \in DOMAIN node, c \in Curves : ST_AddIsoEdge(m, n, c)
                 \/ \E c \in Curves : TopoGeo_addLinestring(c)
    PROVE  /\ face' = face
           /\ \E x : /\ edge' = Put(edge, seq.edge + 1, x) /\ x.left = 0 /\ x.right = 0
                     /\ StartPoint(x.geom) # EndPoint(x.geom)
<1>1. CASE \E m, n \in DOMAIN node, c \in Curves : ST_AddIsoEdge(m, n, c)
  <2>1. PICK m \in DOMAIN node, n \in DOMAIN node, c \in Curves : ST_AddIsoEdge(m, n, c)
    BY <1>1
  <2> DEFINE x == NewEdge(m, n, -seq'.edge, seq'.edge, 0, 0, c)
  <2>2. seq'.edge = seq.edge + 1
    BY <2>1 DEF ST_AddIsoEdge, Core, Types, TypeOK
  <2>3. edge' = Put(edge, seq.edge + 1, x) /\ face' = face
    BY <2>1, <2>2 DEF ST_AddIsoEdge
  <2>4. StartPoint(c) # EndPoint(c)
    BY <2>1 DEF ST_AddIsoEdge, Core, Plane, NodesApart
  <2>5. x.left = 0 /\ x.right = 0 /\ x.geom = c
    BY DEF NewEdge
  <2> HIDE DEF x
  <2>6. QED
    BY <2>3, <2>4, <2>5
<1>2. CASE \E c \in Curves : TopoGeo_addLinestring(c)
  <2>1. PICK c \in Curves : TopoGeo_addLinestring(c)
    BY <1>2
  <2> DEFINE m == seq.node + 1
             e == seq.edge + 1
             x == NewEdge(m, m + 1, -e, e, 0, 0, c)
  <2>2. edge' = Put(edge, e, x) /\ face' = face /\ StartPoint(c) # EndPoint(c)
    BY <2>1 DEF TopoGeo_addLinestring
  <2>3. x.left = 0 /\ x.right = 0 /\ x.geom = c
    BY DEF NewEdge
  <2> HIDE DEF x
  <2>4. QED
    BY <2>2, <2>3
<1>3. QED
  BY <1>1, <1>2

LEMMA NewIsoEdgeUnmoved ==
    ASSUME Core, Core', Sound(face, edge), \/ \E m, n \in DOMAIN node, c \in Curves : ST_AddIsoEdge(m, n, c)
                                           \/ \E c \in Curves : TopoGeo_addLinestring(c)
    PROVE  Unmoved
<1> DEFINE e == seq.edge + 1
<1>1. PICK x : /\ edge' = Put(edge, e, x) /\ x.left = 0 /\ x.right = 0
               /\ StartPoint(x.geom) # EndPoint(x.geom)
  BY NewIsoEdge
<1>2. face' = face
  BY NewIsoEdge
<1>3. e \notin DOMAIN edge
  BY SeqFacts DEF Core
<1>4. DOMAIN edge' = DOMAIN edge \cup {e} /\ edge'[e] = x /\ \A d \in DOMAIN edge : edge'[d] = edge[d]
  BY <1>1, <1>3 DEF Put
<1> HIDE DEF e
<1>5. /\ \A d \in DOMAIN edge' :
            \/ d \in DOMAIN edge /\ edge'[d].geom = edge[d].geom
                 /\ edge'[d].left = edge[d].left /\ edge'[d].right = edge[d].right
            \/ StartPoint(edge'[d].geom) # EndPoint(edge'[d].geom)
      /\ \A d \in DOMAIN edge : edge[d].left # edge[d].right =>
            \E y \in DOMAIN edge' : edge'[y].left = edge[d].left /\ edge'[y].right = edge[d].right
  BY <1>1, <1>4
<1>6. Sound(face, edge)'
  <2>1. Plane(node', edge')
    BY DEF Core
  <2>2. Sound(face, edge')
    BY <1>5, <2>1, SoundKept
  <2>3. QED
    BY <1>2, <2>2
<1>7. ASSUME NEW f \in face \ {0} PROVE FaceGeometry(edge', f) = FaceGeometry(edge, f)
  <2>1. Around(edge', f) = Around(edge, f)
    BY <1>1, <1>4 DEF Around
  <2>2. \A d \in Around(edge, f) : edge'[d] = edge[d]
    BY <1>4 DEF Around
  <2>3. Walls(edge', f) = Walls(edge, f)
    BY <2>1, <2>2 DEF Walls
  <2>4. QED
    BY <2>3, SameRings
<1>8. QED
  BY <1>6, <1>7 DEF Unmoved

LEMMA RemoveIsoEdgeUnmoved ==
    ASSUME Core, Core', Sound(face, edge), NEW e \in DOMAIN edge, ST_RemoveIsoEdge(e)
    PROVE  Unmoved
<1>1. /\ edge' = Drop(edge, e) /\ face' = face /\ edge[e].left = edge[e].right
      /\ \A d \in DOMAIN edge \ {e} : {edge[d].start, edge[d].end} \cap {edge[e].start, edge[e].end} = {}
  BY DEF ST_RemoveIsoEdge
<1>2. DOMAIN edge' = DOMAIN edge \ {e} /\ \A d \in DOMAIN edge' : edge'[d] = edge[d]
  BY <1>1 DEF Drop
<1>3. Sound(face, edge)'
  <2>1. Plane(node', edge')
    BY DEF Core
  <2>2. \A d \in DOMAIN edge : edge[d].left # edge[d].right =>
            \E x \in DOMAIN edge' : edge'[x].left = edge[d].left /\ edge'[x].right = edge[d].right
    BY <1>1, <1>2
  <2>3. Sound(face, edge')
    BY <1>2, <2>1, <2>2, SoundKept
  <2>4. QED
    BY <1>1, <2>3
<1>4. Path(edge[e].geom)
  BY <1>1 DEF Path, Core, Plane, Sound, FacesBounded
<1>5. \A d \in DOMAIN edge \ {e} : Curve(edge[d].geom) /\ On(edge[d].geom) \cap On(edge[e].geom) = {}
  BY <1>1 DEF Core, Plane, MeetAtNodes
<1>6. \A f : FaceGeometry(Drop(edge, e), f) = FaceGeometry(edge, f)
  BY <1>4, <1>5, IsoEdgeFace
<1>7. QED
  BY <1>1, <1>3, <1>6 DEF Unmoved

\* An edge that may change its curve meets no other, before or after.
LEMMA ChangeEdgeGeomUnmoved ==
    ASSUME Core, Sound(face, edge), NEW e \in DOMAIN edge, NEW c \in Curves, ST_ChangeEdgeGeom(e, c)
    PROVE  Unmoved
<1>1. /\ StartPoint(c) = node[edge[e].start].geom /\ EndPoint(c) = node[edge[e].end].geom
      /\ \A d \in DOMAIN edge \ {e} : ~Intersects(edge[d].geom, c)
      /\ edge' = [edge EXCEPT ![e].geom = c] /\ face' = face /\ IsSimple(c) /\ Curve(c)
  BY CurvesAssumption DEF ST_ChangeEdgeGeom
<1>2. /\ Core' /\ StartPoint(c) # EndPoint(c) /\ edge[e].start # edge[e].end
      /\ \A d \in DOMAIN edge : edge'[d] = IF d = e THEN [edge[e] EXCEPT !.geom = c] ELSE edge[d]
  BY ChangeEdgeGeomKeeps
<1>3. edge[e] \in Edge(face) /\ DOMAIN edge' = DOMAIN edge
  BY <1>1 DEF Core, Types, TypeOK
<1>4. /\ edge'[e].geom = c /\ edge'[e].left = edge[e].left /\ edge'[e].right = edge[e].right
      /\ \A d \in DOMAIN edge \ {e} : edge'[d] = edge[d]
  <2>1. LET x == [edge[e] EXCEPT !.geom = c]
        IN  x.geom = c /\ x.left = edge[e].left /\ x.right = edge[e].right
    BY <1>3 DEF Edge
  <2>2. QED
    BY <1>2, <2>1
<1>5. Sound(face, edge)'
  <2>1. Plane(node', edge')
    BY <1>2 DEF Core
  <2>2. /\ \A d \in DOMAIN edge' :
              \/ d \in DOMAIN edge /\ edge'[d].geom = edge[d].geom
                   /\ edge'[d].left = edge[d].left /\ edge'[d].right = edge[d].right
              \/ StartPoint(edge'[d].geom) # EndPoint(edge'[d].geom)
        /\ \A d \in DOMAIN edge : edge[d].left # edge[d].right =>
              \E x \in DOMAIN edge' : edge'[x].left = edge[d].left /\ edge'[x].right = edge[d].right
    BY <1>2, <1>3, <1>4
  <2>3. Sound(face, edge')
    BY <2>1, <2>2, SoundKept
  <2>4. QED
    BY <1>1, <2>3
<1>6. Path(edge[e].geom)
  BY <1>2 DEF Path, Core, Plane, EndsMatch, NodesApart
<1>7. ASSUME NEW d \in DOMAIN edge \ {e}
      PROVE  Curve(edge[d].geom) /\ On(edge[d].geom) \cap On(edge[e].geom) = {}
  <2>1. ASSUME NEW q \in On(edge[d].geom) \cap On(edge[e].geom) PROVE FALSE
    <3>1. PICK n \in {edge[e].start, edge[e].end} : node[n].geom = q
      BY <2>1 DEF Core, Plane, MeetAtNodes
    <3>2. q \in On(c)
      BY <1>1, <3>1, CurveFacts
    <3>3. QED
      BY <1>1, <3>2 DEF Intersects
  <2>2. QED
    BY <2>1 DEF Core, Plane
<1>8. \A f : FaceGeometry(Drop(edge, e), f) = FaceGeometry(edge, f)
  BY <1>6, <1>7, IsoEdgeFace
<1>9. \A f : FaceGeometry(Drop(edge', e), f) = FaceGeometry(edge', f)
  <2>1. Path(edge'[e].geom)
    BY <1>1, <1>2, <1>4 DEF Path
  <2>2. \A d \in DOMAIN edge' \ {e} : Curve(edge'[d].geom) /\ On(edge'[d].geom) \cap On(edge'[e].geom) = {}
    BY <1>1, <1>3, <1>4, <1>7 DEF Intersects
  <2>3. e \in DOMAIN edge'
    BY <1>3
  <2>4. QED
    BY <2>1, <2>2, <2>3, IsoEdgeFace
<1>10. Drop(edge', e) = Drop(edge, e)
  BY <1>3, <1>4 DEF Drop
<1>11. QED
  BY <1>5, <1>8, <1>9, <1>10 DEF Unmoved

LEMMA SplitUnmoved ==
    ASSUME Core, Sound(face, edge), NEW e \in DOMAIN edge, NEW p \in Points, NEW e1, NEW e2,
           SplitStep(e, p, e1, e2)
    PROVE  Unmoved
<1> DEFINE rest == DOMAIN edge \ {e}
           b == Before(edge[e].geom, p)
           a == After(edge[e].geom, p)
<1>1. /\ SplitInto(edge, e, seq.node + 1, p, edge', e1, e2)
      /\ Cut(edge[e].geom, p, b, a)
  BY SplitCut
<1>2. p # StartPoint(edge[e].geom) /\ p # EndPoint(edge[e].geom)
  <2>1. \A m \in DOMAIN node : node[m].geom # p
    BY DEF SplitStep, CanSplit, Coincident
  <2>2. QED
    BY <2>1 DEF Core, Plane, EndsMatch
<1>3. StartPoint(b) # EndPoint(b) /\ StartPoint(a) # EndPoint(a)
  BY <1>1, <1>2 DEF Cut
<1>4. /\ DOMAIN edge' = rest \cup {e1, e2}
      /\ \A d \in rest : edge'[d].geom = edge[d].geom
                         /\ edge'[d].left = edge[d].left /\ edge'[d].right = edge[d].right
      /\ edge'[e1].geom = b /\ edge'[e2].geom = a
      /\ edge'[e1].left = edge[e].left /\ edge'[e1].right = edge[e].right
  BY <1>1 DEF SplitInto
<1> HIDE DEF b, a
<1>5. Sound(face, edge)'
  <2>1. Plane(node', edge') /\ face' = face
    <3>1. Core'
      BY SplitKeeps
    <3>2. QED
      BY <3>1 DEF Core, SplitStep
  <2>2. /\ \A d \in DOMAIN edge' :
              \/ d \in DOMAIN edge /\ edge'[d].geom = edge[d].geom
                   /\ edge'[d].left = edge[d].left /\ edge'[d].right = edge[d].right
              \/ StartPoint(edge'[d].geom) # EndPoint(edge'[d].geom)
        /\ \A d \in DOMAIN edge : edge[d].left # edge[d].right =>
              \E x \in DOMAIN edge' : edge'[x].left = edge[d].left /\ edge'[x].right = edge[d].right
    BY <1>3, <1>4
  <2>3. Sound(face, edge')
    BY <2>1, <2>2, SoundKept
  <2>4. QED
    BY <2>1, <2>3
<1>6. \A f : FaceGeometry(edge', f) = FaceGeometry(edge, f)
  BY FacesKept DEF ST_GetFaceGeometry
<1>7. QED
  BY <1>5, <1>6 DEF Unmoved

LEMMA StepUnmoved == Core /\ Sound(face, edge) /\ [Next]_vars => Unmoved
<1> SUFFICES ASSUME Core, Sound(face, edge), [Next]_vars PROVE Unmoved
  OBVIOUS
<1>1. Core'
  BY StepCore
<1>2. CASE \E f \in face \cup {Null}, p \in Points : ST_AddIsoNode(f, p)
  BY <1>2, SameEdges DEF ST_AddIsoNode
<1>3. CASE \E n \in DOMAIN node : ST_RemoveIsoNode(n) \/ \E p \in Points : ST_MoveIsoNode(n, p)
  BY <1>3, SameEdges DEF ST_RemoveIsoNode, ST_MoveIsoNode
<1>4. CASE \E e \in DOMAIN edge : ST_RemoveIsoEdge(e) \/ \E c \in Curves : ST_ChangeEdgeGeom(e, c)
  BY <1>1, <1>4, RemoveIsoEdgeUnmoved, ChangeEdgeGeomUnmoved
<1>5. CASE \/ \E m, n \in DOMAIN node, c \in Curves : ST_AddIsoEdge(m, n, c)
           \/ \E c \in Curves : TopoGeo_addLinestring(c)
  BY <1>1, <1>5, NewIsoEdgeUnmoved
<1>6. CASE Split
  <2>1. PICK e \in DOMAIN edge, p \in Points : ST_NewEdgesSplit(e, p) \/ ST_ModEdgesSplit(e, p)
    BY <1>6 DEF Split
  <2>2. PICK e1, e2 : SplitStep(e, p, e1, e2)
    BY <2>1, EitherSplit DEF Core
  <2>3. QED
    BY <2>2, SplitUnmoved
<1>7. CASE \E q \in Requests : CreateTopoGeom(q)
  BY <1>7, SameEdges DEF CreateTopoGeom
<1>8. CASE UNCHANGED vars
  BY <1>8, SameEdges DEF vars
<1>9. QED
  BY <1>2, <1>3, <1>4, <1>5, <1>6, <1>7, <1>8 DEF Next

Whole == Core /\ Sound(face, edge) /\ FacesApart(face, edge)

LEMMA InitWhole == Init => Whole
BY InitCore, LoadedAssumption DEF Whole, Init, Sound

LEMMA StepWhole == Whole /\ [Next]_vars => Whole'
<1> SUFFICES ASSUME Whole, [Next]_vars PROVE Whole'
  OBVIOUS
<1>1. Core' /\ Unmoved
  BY StepCore, StepUnmoved DEF Whole
<1>2. face' = face
  BY <1>1 DEF Whole, Core, Types
<1>3. FacesApart(face, edge)'
  BY <1>1, <1>2 DEF Whole, Unmoved, FacesApart
<1>4. QED
  BY <1>1, <1>3 DEF Whole, Unmoved

-----------------------------------------------------------------------------
(* What the validator reports. *)

\* A query that no pair satisfies returns no row.
LEMMA NothingWrong ==
    ASSUME Whole
    PROVE  /\ \A m, n \in Nodes : ~CoincidentNodes(m, n)
           /\ \A n \in Nodes, e \in Edges : ~EdgeCrossesNode(n, e)
           /\ \A d, e \in Edges : ~EdgeNotSimple(d, e) /\ ~EdgeCrossesEdge(d, e)
           /\ \A e \in Edges, n \in Nodes : ~StartMismatch(e, n) /\ ~EndMismatch(e, n)
           /\ \A f, g \in face : FaceWithoutEdges(f, g) => f = 0 /\ g = 0
           /\ \A f, g \in face : ~FacesShare(f, g)
<1>1. Plane(node, edge) /\ DOMAIN node \subseteq Int /\ DOMAIN edge \subseteq Int /\ face \subseteq Nat
  BY SeqFacts, FaceFacts, BoundsAssumption DEF Whole, Core
<1>2. \A m, n \in Nodes : ~CoincidentNodes(m, n)
  BY <1>1 DEF Nodes, CoincidentNodes, Plane, NodesApart
<1>3. \A n \in Nodes, e \in Edges : ~EdgeCrossesNode(n, e)
  BY <1>1 DEF Nodes, Edges, EdgeCrossesNode, Ends, Plane, OnlyEndsOn
<1>4. \A d, e \in Edges : ~EdgeNotSimple(d, e)
  BY <1>1 DEF Edges, EdgeNotSimple, Plane
<1>5. \A d, e \in Edges : ~EdgeCrossesEdge(d, e)
  BY <1>1 DEF Edges, EdgeCrossesEdge, Whole, Sound
<1>6. \A e \in Edges, n \in Nodes : ~StartMismatch(e, n) /\ ~EndMismatch(e, n)
  BY <1>1 DEF Nodes, Edges, StartMismatch, EndMismatch, Plane, EndsMatch
<1>7. \A f, g \in face : FaceWithoutEdges(f, g) => f = 0 /\ g = 0
  BY DEF FaceWithoutEdges, Edges, Sides, Whole, Sound, FacesBounded
<1>8. \A f, g \in face : ~FacesShare(f, g)
  <2>1. ASSUME NEW f \in face, NEW g \in face, FacesShare(f, g) PROVE FALSE
    <3>1. f \in Nat /\ g \in Nat /\ f # 0 /\ f < g
      BY <1>1, <2>1 DEF FacesShare
    <3>2. g # 0 /\ f # g
      BY <3>1
    <3>3. QED
      BY <2>1, <3>1, <3>2 DEF FacesShare, ST_GetFaceGeometry, Whole, FacesApart
  <2>2. QED
    BY <2>1
<1>9. QED
  BY <1>2, <1>3, <1>4, <1>5, <1>6, <1>7, <1>8

LEMMA RowOfFace == \A x : <<x>> \o <<0, 0>> = <<x, 0, 0>>
<1> SUFFICES ASSUME NEW x PROVE <<x>> \o <<0, 0>> = <<x, 0, 0>>
  OBVIOUS
<1>1. <<x>> \in Seq({x, 0}) /\ <<0, 0>> \in Seq({x, 0}) /\ <<x, 0, 0>> \in Seq({x, 0})
  OBVIOUS
<1>2. Len(<<x>>) = 1 /\ Len(<<0, 0>>) = 2 /\ Len(<<x, 0, 0>>) = 3
  OBVIOUS
<1>3. <<x>> \o <<0, 0>> \in Seq({x, 0}) /\ Len(<<x>> \o <<0, 0>>) = 3
  BY <1>1, <1>2, ConcatProperties
<1>4. \A i \in 1..3 : (<<x>> \o <<0, 0>>)[i] = IF i <= 1 THEN <<x>>[i] ELSE <<0, 0>>[i - 1]
  BY <1>1, <1>2, ConcatProperties
<1>5. \A i \in 1..3 : (<<x>> \o <<0, 0>>)[i] = <<x, 0, 0>>[i]
  BY <1>4
<1>6. QED
  BY <1>1, <1>2, <1>3, <1>5, SeqEqual

\* ValidateTopology finds nothing after any edits: the checks that each function
\* makes on its own suffice, and removing or moving an edge that meets no other
\* leaves the rings of every face as they were.
THEOREM ValidatorNeverFinds == Spec => []ValidatorFindsNothing
<1>1. Whole => ValidatorFindsNothing
  <2> SUFFICES ASSUME Whole PROVE ValidateTopology \subseteq {<<"face without edges", 0, 0>>}
    BY DEF ValidatorFindsNothing
  <2>1. /\ Found("coincident nodes", Nodes, Nodes, CoincidentNodes) = {}
        /\ Found("edge crosses node", Nodes, Edges, EdgeCrossesNode) = {}
        /\ Found("edge not simple", Edges, Edges, EdgeNotSimple) = {}
        /\ Found("edge crosses edge", Edges, Edges, EdgeCrossesEdge) = {}
        /\ Found("edge start node geometry mis-match", Edges, Nodes, StartMismatch) = {}
        /\ Found("edge end node geometry mis-match", Edges, Nodes, EndMismatch) = {}
        /\ Found("face overlaps or is within face", face, face, FacesShare) = {}
    BY NothingWrong DEF Found
  <2>2. \A x \in {y \in face \X face : FaceWithoutEdges(y[1], y[2])} : x = <<0, 0>>
    BY NothingWrong
  <2>3. Found("face without edges", face, face, FaceWithoutEdges) \subseteq {<<"face without edges", 0, 0>>}
    BY <2>2, RowOfFace DEF Found
  <2>4. QED
    BY <2>1, <2>3 DEF ValidateTopology
<1>2. QED
  BY <1>1, InitWhole, StepWhole, PTL DEF Spec

=============================================================================
