CONSTANTS
    Workers = {w1, w2}
    Values = {v1, v2}
    NULL = NULL
    MaxRows = 4
SPECIFICATION Spec
INVARIANTS TypeOK VersionsAreNewer NoVersionIsSkipped ChangesAreLogged LogsTellTheChange
