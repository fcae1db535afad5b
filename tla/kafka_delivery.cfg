SPECIFICATION Spec
CONSTANTS
    Consumers = {c1, c2}
    None = None
    Log <- DeliveryLog
    HandlerCount <- AuditHandlers
    MaxRetries = 2
    ProducerFaults = {"refused", "full"}
    MaxDisruptions = 2
SYMMETRY ConsumerSymmetry
INVARIANTS
    TypeOK
    ExclusiveUnlessRebalanced
PROPERTIES
    NoRewindUnlessRebalanced
    ImplementsAtLeastOnce
CHECK_DEADLOCK FALSE
