SPECIFICATION Spec
CONSTANTS
    Sessions = {s1}
    Workers = {w1, w2}
    MaxRequests = 3
    SeparateReplica = FALSE
    BrokerRefuses = FALSE
    Routes = {"turn", "end"}
INVARIANTS
    AckedTurnsKept
CHECK_DEADLOCK FALSE
