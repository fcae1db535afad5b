SPECIFICATION Spec
CONSTANTS
    s1 = s1
    s2 = s2
    Sockets = {s1, s2}
    Window = 2
    MaxInputs <- Talkative
    MaxNotices = 1
INVARIANTS
    TypeOK
    FramesInOrder
    PromptAlternates
    NotificationsReach
    GaugeAccounted
CHECK_DEADLOCK FALSE
