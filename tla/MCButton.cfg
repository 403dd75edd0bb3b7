CONSTANTS
    Configs <- AllConfigs
    TickMs = 10
    QueueLen = 4
    PostsMayFail = FALSE
    MaxElapsed = 3
    MaxUInt16 = 65535
SPECIFICATION Spec
INVARIANT TimerFollowsMode
PROPERTIES ImplementsGesture PendingIsReported HeldIsReported
