SPECIFICATION Spec
CONSTANTS
    q1 = q1
    Queries = {q1}
    ShouldTrigger = {q1}
    RunsPerQuery = 2
    NumWorkers = 2
    ThresholdNum = 1
    ThresholdDen = 1
    OtherTools = {"Bash"}
    NoCopy = NoCopy
    PipeCap = 2
    MaxCalls = 1
INVARIANTS
    TriggerIsReported
\* After the report nothing is left to do.
CHECK_DEADLOCK FALSE
