---- MODULE MCTopoGeo ----
(* TopoGeo with two faces between three edges from a to b, over m (top), d  *)
(* (middle) and c (bottom), an isolated node in the upper face, and room    *)
(* for an edge u-v outside and an edge p-r inside the upper face.           *)
EXTENDS TopoGeo

MCPoints == {"a", "b", "m", "d", "c", "p", "r", "u", "w", "v"}
MCCurves == {<<"u", "w", "v">>, <<"u", "v">>, <<"p", "r">>, <<"u", "w", "u", "v">>}
MCRings  == {[curve |-> <<"a", "m", "b", "d", "a">>, inside |-> {"p", "r"}],
             [curve |-> <<"a", "d", "b", "c", "a">>, inside |-> {}],
             [curve |-> <<"a", "m", "b", "c", "a">>, inside |-> {"p", "r", "d"}]}
MCLayers == [l \in 1..4 |-> CASE l = 1 -> [type |-> 2, level |-> 0, child |-> Null]
                              [] l = 2 -> [type |-> 1, level |-> 0, child |-> Null]
                              [] l = 3 -> [type |-> 3, level |-> 0, child |-> Null]
                              [] l = 4 -> [type |-> 2, level |-> 1, child |-> 1]]
MCRequests == {[layer |-> 1, type |-> 2, elements |-> {<<-1, 2>>, <<3, 2>>}],
               [layer |-> 1, type |-> 2, elements |-> {<<4, 2>>}],
               [layer |-> 2, type |-> 1, elements |-> {<<4, 1>>}],
               [layer |-> 3, type |-> 3, elements |-> {<<1, 3>>}],
               [layer |-> 3, type |-> 3, elements |-> {<<1, 3>>, <<0, 3>>}],
               [layer |-> 4, type |-> 2, elements |-> {<<1, 1>>}]}
MCLoaded ==
    [node |-> <<[geom |-> "a", face |-> Null], [geom |-> "b", face |-> Null],
                [geom |-> "p", face |-> 1]>>,
     face |-> {0, 1, 2},
     edge |-> <<NewEdge(1, 2, -2, 3, 0, 1, <<"a", "m", "b">>),
                NewEdge(1, 2, -3, 1, 2, 0, <<"a", "c", "b">>),
                NewEdge(1, 2, -1, 2, 1, 2, <<"a", "d", "b">>)>>]

\* Bound: a fifth node is added only after one was removed.
FewNodes == Cardinality(DOMAIN node) <= 4
====
