CONSTANTS
 Sessions = {s1, s2}
 Rows = {r1}
 Auths = {a1, a2}
 Nil = Nil
 Terms = {0}
 MaxTime = 1
 MaxXid = 3
SYMMETRY Sym
SPECIFICATION Spec
INVARIANT DuplicatesOverlap
PROPERTY WritesRespectLocks RefusedOnlyIfLocked
CHECK_DEADLOCK FALSE
CONSTRAINT OneCode FewCalls
