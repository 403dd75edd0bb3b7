CONSTANTS
    Tasks = {t1, t2}
    NULL = NULL
    DualCore = TRUE
    Failures = TRUE
    QueueFull = FALSE
    QueueLen = 1
SPECIFICATION Spec
INVARIANTS TypeOK ClaimHasOneOwner LockIsExclusive
