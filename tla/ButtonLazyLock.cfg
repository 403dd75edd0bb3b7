CONSTANTS
    Tasks = {t1, t2}
    NULL = NULL
    Failures = FALSE
    SerialBoot = FALSE
    Interrupts = FALSE
    MaxPresses = 1
    Locks = {l1, l2}
SPECIFICATION Spec
INVARIANT ClaimHasOneOwner
