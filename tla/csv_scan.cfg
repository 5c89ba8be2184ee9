\* All files of up to six bytes, cut for three tasks, two rows to a chunk.
CONSTANTS
    Files <- MCFiles
    MaxSize = 6
    NSplits = 3
    ChunkSize = 2
SPECIFICATION FairSpec
INVARIANTS TypeOK SplitsFit NoRecordTwice AllRecordsRead
PROPERTY ScanEnds
