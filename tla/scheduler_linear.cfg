\* Three threads, two of which may fail, and linear stage graphs.  A failed task is never
\* reported, so run_flow may wait for ever.
CONSTANTS
    NThreads = 3
    Flows <- LinearFlows
    FaultyThreads = {1, 2}
CHECK_DEADLOCK FALSE
SPECIFICATION FairSpec
INVARIANTS TypeOK ConsumerSeesCompleteInput CompletionIsReal FlowComplete NothingLeftBehind
PROPERTIES DataflowSafety JobEnds
