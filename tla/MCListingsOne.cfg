CONSTANTS
    Workers = {w1}
    Users = {u1, u2}
    Locations = {l1, l2}
    Properties = {p1}
    Kinds = {k1}
    Handled = {"user_properties", "user_looking_for_properties"}
    MaxListings = 4
    Geocoder = TRUE
    NoListing = NoListing
    NoUser = NoUser
\* No request is left once every account is cancelled.
CHECK_DEADLOCK FALSE
SPECIFICATION Spec
PROPERTY NoOrphans
PROPERTY EditTakesEffect
PROPERTY FavouritesCopied
SYMMETRY Symmetry
CONSTRAINT OneOffer
