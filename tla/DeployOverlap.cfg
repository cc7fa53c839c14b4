SPECIFICATION Spec
CONSTANTS
    p1 = p1
    p2 = p2
    v1 = v1
    v2 = v2
    Procs = {p1, p2}
    Versions = {v1, v2}
    Kinds = {"deploy"}
    AppType = "static"
    Keep = 1
    MayKill = FALSE
    SameSecond = FALSE
    MaxRuns = 3
    Nobody = Nobody
INVARIANTS
    NeverLeftWithout
PROPERTIES
    OverlapKeepsACopy
SYMMETRY SymmetricProcs
VIEW ByOrder
ACTION_CONSTRAINT LateUpload
\* MaxRuns bounds the invocations: the system stops after them.
CHECK_DEADLOCK FALSE
