------------------------------ MODULE Catalog ------------------------------
(***************************************************************************)
(* The catalog (metadata.rs): CATALOG TABLE with its options.              *)
(*                                                                         *)
(* An option is a field of the statement's options, which are strings,     *)
(* numbers or (COLUMNS) the parsed list of [name, type].  A field of a     *)
(* table is [name, type] as well.                                          *)
(***************************************************************************)
EXTENDS Integers, Sequences

CONSTANT Files      \* by path, what a file holds: [fields, rows]

LOCAL INSTANCE SequencesExt

Given(options, option) == option \in DOMAIN options

\* get_table_stats and get_part_desc: counts are positive, and 1 when they are not given.
Count(options, option) == IF Given(options, option) THEN options[option] ELSE 1
CountsValid(options) == \A option \in {"NROWS", "AVG_ROW_SIZE", "PARTITIONS"} : Count(options, option) > 0

HeaderValid(options) == Given(options, "HEADER") => options.HEADER \in {"YES", "NO"}
SeparatorValid(options) == Given(options, "SEPARATOR") => Len(options.SEPARATOR) = 1

\* parse_columns knows STRING and INT.
ColumnsValid(options) ==
    Given(options, "COLUMNS") => \A field \in ToSet(options.COLUMNS) : field.type \in {"Utf8", "Int64"}

\* infer_metadata opens the file; with COLUMNS nothing does until the query runs.
FileRead(options) == Given(options, "COLUMNS") \/ options.PATH \in DOMAIN Files

CsvValid(options) ==
    /\ HeaderValid(options) /\ SeparatorValid(options) /\ CountsValid(options)
    /\ ColumnsValid(options) /\ FileRead(options)

ParquetValid(options) ==
    /\ \A option \in {"HEADER", "SEPARATOR", "COLUMNS"} : ~Given(options, option)
    /\ CountsValid(options) /\ FileRead(options)

\* catalog_table returns Err.
CatalogRefuses(tables, name, options) ==
    \/ name \in DOMAIN tables
    \/ ~Given(options, "TYPE") \/ options.TYPE \notin {"CSV", "PARQUET"}
    \/ ~Given(options, "PATH")
    \/ options.TYPE = "CSV" /\ ~CsvValid(options)
    \/ options.TYPE = "PARQUET" /\ ~ParquetValid(options)

TableDesc(options) ==
    [path |-> options.PATH,
     fields |-> IF Given(options, "COLUMNS") THEN options.COLUMNS ELSE Files[options.PATH].fields,
     npartitions |-> Count(options, "PARTITIONS")]

\* Partition p of the rows of a table.
PartitionOf(table, p) ==
    LET rows == Files[table.path].rows
        upto(n) == (n * Len(rows)) \div table.npartitions
    IN  SubSeq(rows, upto(p - 1) + 1, upto(p))
=============================================================================
