SPECIFICATION Spec
CONSTANTS
    Consumers = {c1, c2}
    None = None
    Log <- LetterLog
    HandlerCount <- Registered
    MaxRetries = 3
    ProducerFaults = {}
    MaxDisruptions = 1
INVARIANTS
    DeadLettersKept
CHECK_DEADLOCK FALSE
