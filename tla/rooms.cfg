SPECIFICATION Spec
CONSTANTS
    Rooms = {r1, r2}
    Bookings = {b1, b2}
    Workers = {w1, w2}
    SeparateReplica = TRUE
    AdminSets = {"checked_in", "checked_out"}
    MaxRequests = 2
INVARIANTS
    TypeOK
    StayNotOffered
PROPERTIES
    OnlyAdminReleases
    CacheCatchesUp
CHECK_DEADLOCK FALSE
