\* Two producers and two consumers, up to three rows each.
CONSTANTS
    NProducers = 2
    cpartitions = 2
    Rows <- MCRows
    Hash <- MCHash
    MaxRows = 3
SPECIFICATION FairSpec
PROPERTIES ImplementsExchange ReadersEnd
