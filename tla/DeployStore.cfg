SPECIFICATION Spec
CONSTANTS
    p1 = p1
    v1 = v1
    v2 = v2
    Procs = {p1}
    Versions = {v1, v2}
    Kinds = {"deploy", "rollback"}
    AppType = "static"
    Keep = 2
    MayKill = FALSE
    SameSecond = FALSE
    MaxRuns = 5
    Nobody = Nobody
PROPERTIES
    ImplementsStore
SYMMETRY SymmetricVersions
VIEW ByOrder
ACTION_CONSTRAINT LateUpload
\* MaxRuns bounds the invocations: the system stops after them.
CHECK_DEADLOCK FALSE
