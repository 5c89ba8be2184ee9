---------------------------- MODULE ParquetScan ----------------------------
(***************************************************************************)
(* The scan of a Parquet file by several tasks (pop_parquet.rs).  Each     *)
(* task takes a range of the row groups; the reader returns the columns    *)
(* that are asked for in the order of the file, and the scan puts them in  *)
(* the order of the projection.                                            *)
(*                                                                         *)
(* A row group is read as one chunk.  A chunk is its row group and the     *)
(* columns its arrays hold.                                                *)
(***************************************************************************)
EXTENDS Integers, Sequences, FiniteSets, SequencesExt

CONSTANTS
    RowGroups,  \* numbers of row groups a file may have
    NPartitions,\* numbers of tasks a scan may have
    Projections \* columns a scan may be asked for: sequences without duplicates

ASSUME ProjectionsAssumption == \A s \in Projections : s \in Seq(Nat) /\ IsInjective(s)
ASSUME CountsAssumption == RowGroups \subseteq Nat /\ NPartitions \subseteq Nat \ {0}

VARIABLES
    n_row_groups,
    npartitions,
    input_projection,
    phase,      \* per task: "new", "reading", "closed" or "panicked"
    range,      \* per task: lo, hi
    at,         \* per task: the row group its reader is at
    chunks      \* per task: what it has returned

given == <<n_row_groups, npartitions, input_projection>>
parquetVars == <<n_row_groups, npartitions, input_projection, phase, range, at, chunks>>

Tasks == 0 .. npartitions - 1

ParquetInit ==
    /\ n_row_groups \in RowGroups /\ npartitions \in NPartitions /\ input_projection \in Projections
    /\ phase = [p \in Tasks |-> "new"]
    /\ range = [p \in Tasks |-> [lo |-> 0, hi |-> 0]]
    /\ at = [p \in Tasks |-> 0]
    /\ chunks = [p \in Tasks |-> << >>]

-----------------------------------------------------------------------------
(* try_new *)

Smaller(m, n) == IF m < n THEN m ELSE n

\* The npartitions of the code behind its line 40: no more than there are row groups.
Used == Smaller(n_row_groups, npartitions)

PerPartition == n_row_groups \div Used

\* Variant: row groups that are left over are nobody's.
IsLastOfNone(p) == FALSE

\* The last one takes what is left over.
IsLast(p) == p = Used - 1

RangeOf(p) ==
    [lo |-> PerPartition * p,
     hi |-> IF IsLast(p) THEN n_row_groups ELSE PerPartition * (p + 1)]

TryNew(p) ==
    /\ phase[p] = "new" /\ n_row_groups > 0
    /\ range' = [range EXCEPT ![p] = RangeOf(p)]
    /\ phase' = [phase EXCEPT ![p] = "reading"]
    /\ UNCHANGED <<given, at, chunks>>

\* No row groups: a division by 0.
TryNewPanics(p) ==
    /\ phase[p] = "new" /\ n_row_groups = 0
    /\ phase' = [phase EXCEPT ![p] = "panicked"]
    /\ UNCHANGED <<given, range, at, chunks>>

-----------------------------------------------------------------------------
(* next *)

\* Variant: the end of the range is read as well.
InRangeInclusive(p, g) == range[p].lo <= g /\ g <= range[p].hi

InRange(p, g) == range[p].lo <= g /\ g < range[p].hi

\* A sort of different numbers: their places, that of the smallest first.
SortedPlaces(s) ==
    CHOOSE q \in [DOMAIN s -> DOMAIN s] : \A i, j \in DOMAIN s : i < j => s[q[i]] < s[q[j]]

\* The columns in the order of the file, as the reader returns them.
ReaderColumns ==
    CHOOSE c \in [DOMAIN input_projection -> Range(input_projection)] :
        \A i, j \in DOMAIN c : i < j => c[i] < c[j]

\* Variant: places are not sorted back.
ReorderedOnce(columns) == [i \in DOMAIN columns |-> columns[SortedPlaces(input_projection)[i]]]

\* input_projection_final_ordering: the places, sorted by column; arrays are paired with them
\* and sorted by place.
Reordered(columns) ==
    LET ordering == SortedPlaces(input_projection)
        sorted == SortedPlaces(ordering)
    IN  [i \in DOMAIN columns |-> columns[sorted[i]]]

\* The reader has the row groups of the range, in their order.
Skip(p) ==
    /\ phase[p] = "reading" /\ at[p] < n_row_groups /\ ~InRange(p, at[p])
    /\ at' = [at EXCEPT ![p] = @ + 1]
    /\ UNCHANGED <<given, phase, range, chunks>>

NextChunk(p) ==
    /\ phase[p] = "reading" /\ at[p] < n_row_groups /\ InRange(p, at[p])
    /\ at' = [at EXCEPT ![p] = @ + 1]
    /\ chunks' = [chunks EXCEPT ![p] = Append(@, [group |-> at[p], columns |-> Reordered(ReaderColumns)])]
    /\ UNCHANGED <<given, phase, range>>

NextNone(p) ==
    /\ phase[p] = "reading" /\ at[p] = n_row_groups
    /\ phase' = [phase EXCEPT ![p] = "closed"]
    /\ UNCHANGED <<given, range, at, chunks>>

ParquetTerminated == (\A p \in Tasks : phase[p] \in {"closed", "panicked"}) /\ UNCHANGED parquetVars

ParquetNext ==
    \/ \E p \in Tasks : TryNew(p) \/ TryNewPanics(p) \/ Skip(p) \/ NextChunk(p) \/ NextNone(p)
    \/ ParquetTerminated

ParquetSpec == ParquetInit /\ [][ParquetNext]_parquetVars

-----------------------------------------------------------------------------

Returned == {<<p, i>> : p \in Tasks, i \in 1 .. n_row_groups} \intersect
            UNION {{<<p, i>> : i \in DOMAIN chunks[p]} : p \in Tasks}

\* The ranges do not overlap, whatever the remainder and when there are fewer row groups
\* than tasks: no row group is returned twice.
NoRowGroupTwice ==
    \A x, y \in Returned : chunks[x[1]][x[2]].group = chunks[y[1]][y[2]].group => x = y

\* The ranges leave nothing out: when all tasks are through, each row group has been returned.
AllRowGroupsRead ==
    (\A p \in Tasks : phase[p] = "closed") =>
        {chunks[x[1]][x[2]].group : x \in Returned} = 0 .. n_row_groups - 1

\* Operators above count on column i of a chunk to be that at place i of the projection.
ColumnsAsAsked == \A x \in Returned : chunks[x[1]][x[2]].columns = input_projection
=============================================================================
