CONSTANTS
    RowGroups <- MCRowGroups
    NPartitions <- MCNPartitions
    Projections <- MCProjections
SPECIFICATION ParquetSpec
INVARIANTS NoRowGroupTwice AllRowGroupsRead ColumnsAsAsked
