\* Three keys, two of one hash at the last of four buckets, with and without the checks of a
\* debug build, NULL values, and keys of all types.
CONSTANTS
    k1 = k1
    k2 = k2
    k3 = k3
    Keys = {k1, k2, k3}
    Null = Null
    Values <- MCValues
    Aggs = {"COUNT", "SUM", "MIN", "MAX"}
    KeyTypes = {"Utf8", "Int64", "Other"}
    Hash <- MCHash
    TableSize = 4
    Builds = {TRUE, FALSE}
    MaxInt = 3
    MaxRows = 4
SPECIFICATION FairSpec
INVARIANTS NoGapBefore OneEntryPerKey EntriesAreKeys CountsRight ExtremesRight SumsRight
PROPERTY AggregationEnds
