CONSTANTS
    Cols <- MCCols
    UserCols <- MCUserCols
    Srids = {3200, 32001}
    SridFound <- MCSridFound
    TypeFound <- MCTypeFound
    Types <- MCTypes
    Nil = Nil
    MaxStored = 2
    Names <- MCOne
    FeatCols = {f1, f2, f3}
    TopoSrid = 3200
    MaxId = 2
    MaxLayer = 3
    MaxTopoGeom = 2
SPECIFICATION MCSpec
INVARIANTS RegisteredIsEnforced FeaturesHaveLayers
PROPERTY DropCleansUp
\* Every bound may be reached with nothing left to drop.
CHECK_DEADLOCK FALSE
