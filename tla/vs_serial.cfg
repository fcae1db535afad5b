SPECIFICATION Spec
CONSTANTS
    Sessions = {s1}
    Workers = {w1}
    MaxRequests = 5
    SeparateReplica = FALSE
    BrokerRefuses = TRUE
    Routes = {"turn", "end", "update", "destroy", "admin"}
INVARIANTS
    EndedStamp
    AckedTurnsKept
    CompletedOnce
    CompletedEventAccurate
CHECK_DEADLOCK FALSE
