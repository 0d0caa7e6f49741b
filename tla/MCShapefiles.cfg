CONSTANTS
    NoFile = NoFile
    FieldChoices <- MCFields
    ValueChoices <- MCValues
    MaxRecords = 2
    MaxFields = 2
    ShapeChoices <- MCShapes
    MaxShapes = 2
    StartChoices <- MCStarts
    MaxWrites = 1
SPECIFICATION Spec
INVARIANTS
    AttributesKept
    ShapesKept
    LoadIsAtomic
    LoadIsWhole
    DumpIsSnapshot
    DumpReturns
CONSTRAINT Few
CHECK_DEADLOCK FALSE
