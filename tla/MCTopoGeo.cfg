CONSTANTS
    Points <- MCPoints
    Curves <- MCCurves
    Rings <- MCRings
    Layers <- MCLayers
    Requests <- MCRequests
    Loaded <- MCLoaded
    Null = Null
    MaxNode = 5
    MaxEdge = 6
    MaxTopoGeo = 2
SPECIFICATION Spec
INVARIANTS ValidatorFindsNothing LeftLinksMeet IntersectsIsGeometric
PROPERTY SplitsKeepGeometry
CHECK_DEADLOCK FALSE
CONSTRAINT FewNodes
