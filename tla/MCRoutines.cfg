\* A step ends with the answer to its one input.
CHECK_DEADLOCK FALSE
CONSTANTS
    EmptyBox = EmptyBox
    Eps = 1
    Boxes <- MCBoxes
    Queries <- MCQueries
    Pages <- MCPages
    GidxBoxes <- MCGidxBoxes
    GidxPages <- MCGidxPages
    Geometries <- MCGeometries
    Parts <- MCParts
    SpatialRefSys <- MCSpatialRefSys
    Texted <- MCTexted
    Styles <- MCStyles
    Documents <- MCDocuments
    Numbers <- MCNumbers
SPECIFICATION Spec
INVARIANTS IndexFinds BTreeAgrees
           ReadsBack BoxesAreTrue EditsLoseNothing TextsReadBack
