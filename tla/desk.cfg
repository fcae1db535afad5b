SPECIFICATION Spec
CONSTANTS
    alice = alice
    sam = sam
    mia = mia
    Requests = {q1}
    Users = {alice, sam, mia}
    Role <- Roles
    Guest <- FiledFor
    Workers = {w1, w2}
    Nobody = Nobody
    SeparateReplica = TRUE
    MaxCalls = 3
    MaxCrashes = 1
INVARIANTS
    TypeOK
    AssigneeKept
    CompletionKept
    NotifiedTruly
    CompletionTracked
PROPERTIES
    ImplementsGuestNotices
    HandedOver
CHECK_DEADLOCK FALSE
