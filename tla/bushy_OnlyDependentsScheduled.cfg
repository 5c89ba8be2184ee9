CONSTANTS
    NThreads = 2
    Flows <- BushyFlow
    FaultyThreads = {}
CHECK_DEADLOCK FALSE
SPECIFICATION Spec
PROPERTY OnlyDependentsScheduled
