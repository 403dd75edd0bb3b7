CONSTANTS
    Configs <- AllConfigs
    TickMs = 10
    QueueLen = 2
    PostsMayFail = TRUE
    MaxElapsed = 3
    MaxUInt16 = 65535
SPECIFICATION Spec
INVARIANTS TypeOK CountIsOwed WindowIffPending LongOnlyWhileHeld
PROPERTIES EventsMatchPresses KeepsReporting
