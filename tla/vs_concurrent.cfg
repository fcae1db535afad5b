SPECIFICATION Spec
CONSTANTS
    Sessions = {s1}
    Workers = {w1, w2}
    MaxRequests = 4
    SeparateReplica = TRUE
    BrokerRefuses = FALSE
    Routes = {"turn", "end"}
SYMMETRY WorkerSymmetry
INVARIANTS
    TypeOK
    TokensMatchTranscript
    RequestAnnounced
    RequestLinked
PROPERTIES
    NoResurrection
    ImplementsLifecycle
CHECK_DEADLOCK FALSE
