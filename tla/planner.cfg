\* Every query of MCQueries, from its scans to its stages.
CONSTANTS
    Queries <- MCQueries
    Width = 2
SPECIFICATION Spec
INVARIANTS ResultIsRight ColumnsFlow StagesAgree GreedyFindsAPlan
