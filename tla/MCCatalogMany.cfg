CONSTANTS
    Workers = {w1, w2, w3}
    Controllers = {"properties"}
    MaxRows = 2
    Names = {"Flat", "FLAT"}
    Lower <- MCLower
    NoRow = NoRow
    NoWorker = NoWorker
SPECIFICATION Spec
INVARIANT DistinctAuthors
PROPERTY NoResurrection
SYMMETRY Symmetry
