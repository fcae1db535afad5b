SPECIFICATION Spec
CONSTANTS
    Consumers = {c1, c2}
    None = None
    Log <- RequestLog
    HandlerCount <- Registered
    MaxRetries = 3
    ProducerFaults = {}
    MaxDisruptions = 0
INVARIANTS
    ServiceRequestsHandled
CHECK_DEADLOCK FALSE
