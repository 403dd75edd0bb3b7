CONSTANTS
    Workers = {w1, w2}
    Reports = {r1, r2}
    NULL = NULL
    HEARTBEAT_TIMEOUT_SECONDS = 2
    STALE_THRESHOLD_SECONDS = 5
    MaxTime = 6
    MaxRows = 1
    Retries = FALSE
    SlowRequests = TRUE
SPECIFICATION Spec
INVARIANTS TypeOK StatusIsOfLastHeartbeat
PROPERTY HeartbeatsAdvance
