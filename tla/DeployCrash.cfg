SPECIFICATION Spec
CONSTANTS
    p1 = p1
    v1 = v1
    v2 = v2
    Procs = {p1}
    Versions = {v1, v2}
    Kinds = {"deploy", "rollback"}
    AppType = "pm2"
    Keep = 1
    MayKill = TRUE
    SameSecond = FALSE
    MaxRuns = 3
    Nobody = Nobody
INVARIANTS
    TypeOK
    ActivationCatchesUp
PROPERTIES
    OnlyRollbackLoses
SYMMETRY SymmetricVersions
VIEW ByOrder
ACTION_CONSTRAINT LateUpload
\* MaxRuns bounds the invocations: the system stops after them.
CHECK_DEADLOCK FALSE
