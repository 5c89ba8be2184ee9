\* One key column or two, in the order of the columns; build sides of one column and of two.
CONSTANTS
    Plans <- Plain
    Values = {1, 2}
    MaxRows = 3
SPECIFICATION Spec
INVARIANTS EveryMatchEmitted OnlyMatchesEmitted EmittedPerColumn
