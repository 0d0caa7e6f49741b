---- MODULE MCLongXact ----
EXTENDS LongXact, TLC
Sym == Permutations(Sessions) \cup Permutations(Rows) \cup Permutations(Auths)

\* Bound: a session brings one code.
OneCode == \A s \in Sessions : Cardinality(temp[s].keys \cup txn[s].keys) <= 1

\* Bounds: two transactions when a disabling overlaps another call, and one of
\* the calls under way when the third begins.
FewCalls ==
    /\ ddl.mixed => xids <= 2
    /\ xids = MaxXid => Cardinality({k \in {"enable", "check", "disable"} : ddl[k] # "no"}) <= 1
====
