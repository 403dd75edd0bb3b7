CONSTANTS
    Tasks = {t1}
    NULL = NULL
    DualCore = TRUE
    Failures = FALSE
    QueueFull = FALSE
    QueueLen = 3
SPECIFICATION Spec
INVARIANT NoEdgeIsLost
