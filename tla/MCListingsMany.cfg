CONSTANTS
    Workers = {w1, w2}
    Users = {u1, u2}
    Locations = {l1}
    Properties = {p1}
    Kinds = {k1}
    Handled = {"user_looking_for_properties"}
    MaxListings = 2
    Geocoder = FALSE
    NoListing = NoListing
    NoUser = NoUser
\* No request is left once every account is cancelled.
CHECK_DEADLOCK FALSE
SPECIFICATION FairSpec
PROPERTY CancelledStaysQuiet
PROPERTY RequestsEnd
