SPECIFICATION Spec
CONSTANTS
    a1 = a1
    a2 = a2
    Agents = {a1, a2}
    Anonymous = {}
    Unknown = Unknown
    NoId = NoId
    NumWorkflows = 2
    MaxReinforcements = 2
    StaleHours = 0
    MaxTime = 1
    MaxPrompts = 3
PROPERTIES
    StopHookSparesOthers
\* MaxTime and MaxPrompts bound the behaviours: when every session waits and no
\* prompt is left, the system stops.
CHECK_DEADLOCK FALSE
