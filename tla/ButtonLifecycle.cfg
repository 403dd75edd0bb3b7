CONSTANTS
    Tasks = {t1, t2, t3}
    NULL = NULL
    Failures = TRUE
    SerialBoot = TRUE
    Interrupts = FALSE
    MaxPresses = 2
    Locks = {l1}
SPECIFICATION Spec
INVARIANTS TypeOK ClaimHasOneOwner ToggleHasItsButton NoCallOfNULL CountsAreReleased
PROPERTIES CallsReturn ImplementsRegistry
