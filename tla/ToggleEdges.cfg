CONSTANTS
    Tasks = {t1}
    NULL = NULL
    DualCore = FALSE
    Failures = TRUE
    QueueFull = TRUE
    QueueLen = 3
SPECIFICATION Spec
INVARIANTS RegisteredIsLive NoEdgeIsLost
PROPERTY EdgeIsNoticed
