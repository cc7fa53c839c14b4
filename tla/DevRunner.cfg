SPECIFICATION FairSpec
CONSTANTS
    Codes = {"0", "1", "2"}
    Zero = "0"
    One = "1"
    Null = "null"
    MaxSignals = 3
INVARIANTS
    TypeOK
    EndsAsChild
    NoOrphan
PROPERTIES
    SignalsReach
    EndsToo
\* The system stops when the wrapper and the command have ended.
CHECK_DEADLOCK FALSE
