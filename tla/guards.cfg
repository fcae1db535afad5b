SPECIFICATION Spec
CONSTANTS
    Workers = {w1, w2}
    Limit <- SmallLimit
    Window <- SmallWindow
    BlockDuration = 1
    LockTime = 1
    Emails = {e1, e2}
    MaxRequests = 4
    MaxTime = 1
SYMMETRY AccountSymmetry
INVARIANTS
    TypeOK
    BlockJustified
    OverrunBounded
    BlockHolds
    AdminLockKept
    RegistrationRecorded
CHECK_DEADLOCK FALSE
