CONSTANTS
    Workers = {w1, w2}
    Tokens = {t1, t2}
    Migrators = {m1, m2}
    Logs = {l1, l2}
    MaxBusy = 2
    NULL = NULL
    NoRow = NoRow
SPECIFICATION DeploymentSpec
INVARIANTS TypeOK FiveInARowLock LockTakesFive LockIsKept SessionsAreConserved
           SchemaIsVersions NoRunFailsAlone ModelsFitHead
PROPERTY AuditRowsAreGuarded
SYMMETRY Symmetry
