CONSTANTS
    Srids = {s1, s2, s3, s4, s5}
    Known = {s1, s2, s3, s4}
    Unknown = Unknown
    Items = 3
    MaxContexts = 6
    Geoms <- MCGeoms
    Funs <- MCFuns
    NoGeom = NoGeom
    MaxPrepared = 2
SPECIFICATION BackendSpec
INVARIANTS TransformsBetweenItsSystems SlotsAreBacked AnswersAreExact EntriesNameTheLiving
\* A query that reached the bound on contexts may only end; it always can.
