CONSTANTS
    Tasks = {t1}
    NULL = NULL
    DualCore = FALSE
    Failures = FALSE
    QueueFull = FALSE
    QueueLen = 3
SPECIFICATION Spec
INVARIANT CallbackIsNotNull
