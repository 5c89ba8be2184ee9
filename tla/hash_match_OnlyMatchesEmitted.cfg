\* Two key columns that are crossed.
CONSTANTS
    Plans <- Crossed
    Values = {1, 2}
    MaxRows = 2
SPECIFICATION Spec
INVARIANT OnlyMatchesEmitted
