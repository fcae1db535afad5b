SPECIFICATION FairSpec
CONSTANTS
    Consumers = {c1, c2}
    None = None
    Log <- ProgressLog
    HandlerCount <- Registered
    MaxRetries = 2
    ProducerFaults = {"refused", "full"}
    MaxDisruptions = 1
PROPERTIES
    AllSettled
    StopHonoured
CHECK_DEADLOCK FALSE
