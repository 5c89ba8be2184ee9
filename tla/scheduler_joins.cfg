\* A chain, joins on one thread, then joins in parallel, with tasks that fail: what still holds
\* when stages run twice, flows end early and threads die.
CONSTANTS
    NThreads = 2
    Flows <- JoinFlows
    FaultyThreads = {0, 1}
CHECK_DEADLOCK FALSE
SPECIFICATION FairSpec
INVARIANTS OneThreadIsEnough ChildrenCountedOnce IncompleteOnlyWithoutThreads
PROPERTIES NoTaskDropped OrderlyFlowsEnd
