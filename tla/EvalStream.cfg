SPECIFICATION FairSpec
CONSTANTS
    q1 = q1
    Queries = {q1}
    ShouldTrigger = {q1}
    RunsPerQuery = 2
    NumWorkers = 1
    ThresholdNum = 1
    ThresholdDen = 1
    OtherTools = {"Bash"}
    NoCopy = NoCopy
    PipeCap = 3
    MaxCalls = 2
INVARIANTS
    TypeOK
    CopyOutlivesAgent
    ReportIsRight
    EventsAreRead
PROPERTIES
    EvalEnds
\* After the report nothing is left to do.
CHECK_DEADLOCK FALSE
