CONSTANTS
    Workers = {w1}
    Controllers = {"properties", "ownership_types"}
    MaxRows = 3
    Names <- MCNames
    Lower <- MCLower
    NoRow = NoRow
    NoWorker = NoWorker
SPECIFICATION Spec
PROPERTY UpdateTakesEffect
PROPERTY ImplementsRegistry
