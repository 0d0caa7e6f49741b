---- MODULE MCBackend ----
(* Backend on a 4 by 4 grid: a square and a lower rectangle that share     *)
(* their lower left corner, points inside, on and outside their            *)
(* boundaries, and segments crossing and inside them.                      *)
EXTENDS Backend

Grid(x0, x1, y0, y1) == (x0..x1) \X (y0..y1)
Rect(x0, x1, y0, y1) == [kind |-> "poly", int |-> Grid(x0 + 1, x1 - 1, y0 + 1, y1 - 1),
                         bnd |-> Grid(x0, x1, y0, y1) \ Grid(x0 + 1, x1 - 1, y0 + 1, y1 - 1)]
Point(x, y)          == [kind |-> "point", int |-> {<<x, y>>}, bnd |-> {}]
Segment(x0, x1, y)   == [kind |-> "line", int |-> Grid(x0 + 1, x1 - 1, y, y),
                         bnd |-> {<<x0, y>>, <<x1, y>>}]

MCGeoms == {Rect(0, 3, 0, 3), Rect(0, 3, 0, 2), Point(1, 1), Point(1, 2), Segment(0, 3, 1)}
MCFuns  == {"contains", "containsproperly", "covers", "within", "coveredby", "intersects",
            "touches", "overlaps", "crosses", "disjoint", "geomequals"}
====
