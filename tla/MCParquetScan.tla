--------------------------- MODULE MCParquetScan ---------------------------
\* Up to five row groups for up to three tasks: with and without a remainder, and fewer
\* row groups than tasks.  Three columns in all orders, and some of them.
EXTENDS ParquetScan

MCRowGroups == 0 .. 5
MCNPartitions == 1 .. 3
MCProjections == {<<2, 0>>, <<1>>} \union {s \in [1 .. 3 -> 0 .. 2] : IsInjective(s)}
=============================================================================
