CONSTANTS
    Workers = {w1, w2}
    Controllers = {"properties", "ownership_types"}
    Names = {"Flat"}
    Lower <- MCLower
    MaxRows = 2
    NoRow = NoRow
    NoWorker = NoWorker
    Users = {u1}
    Locations = {l1}
    Handled = {"user_properties"}
    MaxListings = 1
    Geocoder = TRUE
    NoListing = NoListing
    NoUser = NoUser
SPECIFICATION Spec
INVARIANT OwnershipTypesResolve
PROPERTY BrokenStaysBroken
SYMMETRY Symmetry
CONSTRAINT NoneNamed
