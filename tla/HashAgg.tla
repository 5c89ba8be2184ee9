------------------------------ MODULE HashAgg ------------------------------
(***************************************************************************)
(* One task of a GROUP BY (pop_hashagg.rs): HashAggContext takes the       *)
(* chunks of its child, files each row under its key in an open-addressing *)
(* table (MyHashTable) and then emits one row per key.                     *)
(*                                                                         *)
(* A key stands for the values of the grouping columns and is filed under  *)
(* its hash; one column of 64-bit integers is aggregated.  NSPLITS is 1.   *)
(***************************************************************************)
EXTENDS Integers, Sequences, FiniteSets

CONSTANTS
    Keys,           \* the keys without a NULL
    Null,
    Values,         \* the values of the aggregated column, Null perhaps among them
    Aggs,           \* the aggregates of the plan, of "COUNT", "SUM", "MIN", "MAX"
    KeyTypes,       \* the types of the grouping columns: "Utf8", "Int64" or "Other"
    Hash,           \* hash_chunk of a key
    TableSize,      \* buckets; 1000 in the code
    Builds,         \* with debug assertions and overflow checks, or without
    MaxInt,         \* i64::MAX
    MaxRows         \* bound on the rows of the input

ASSUME NullAssumption == Null \notin Keys /\ Null \notin Int
ASSUME ValuesAssumption ==
    /\ MaxInt \in Nat \ {0}
    /\ Values \subseteq (-MaxInt - 1 .. MaxInt) \union {Null}
    /\ Aggs \subseteq {"COUNT", "SUM", "MIN", "MAX"}
ASSUME TableAssumption ==
    /\ TableSize \in Nat \ {0}
    /\ Hash \in [Keys -> Nat]
    /\ Builds \subseteq BOOLEAN

VARIABLES
    keyType,    \* of the grouping columns
    debugBuild, \* whether debug assertions and overflow checks are compiled in
    input,      \* the rows of all chunks taken so far
    chunk,      \* the rows of the chunk at hand that are not yet filed
    pc,         \* "next", "row", "probe", "done" or "panicked"
    bucket,     \* where find looks
    hvec,       \* the table
    noccupied   \* its number of entries

vars == <<keyType, debugBuild, input, chunk, pc, bucket, hvec, noccupied>>

Buckets == 0 .. TableSize - 1
Int64 == -MaxInt - 1 .. MaxInt
Rows == [key : Keys \union {Null}, val : Values]
Accumulators ==
    {f \in [Aggs -> Int64 \union {Null}] : \A a \in Aggs : f[a] = Null => a \in {"MIN", "MAX"}}
Empty == [key |-> Null, acc |-> [a \in Aggs |-> Null]]
Entries == [key : Keys, acc : Accumulators] \union {Empty}

Occupied == {b \in Buckets : hvec[b].key # Null}

TypeOK ==
    /\ keyType \in KeyTypes /\ debugBuild \in Builds
    /\ input \in Seq([key : Keys, val : Values])
    /\ chunk \in Seq([key : Keys, val : Values])
    /\ pc \in {"next", "row", "probe", "done", "panicked"}
    /\ pc \in {"row", "probe"} => chunk # << >>
    /\ bucket \in Buckets
    /\ hvec \in [Buckets -> Entries]
    /\ noccupied \in Nat

Init ==
    /\ keyType \in KeyTypes /\ debugBuild \in Builds
    /\ input = << >>
    /\ chunk = << >>
    /\ pc = "next"
    /\ bucket = 0
    /\ hvec = [b \in Buckets |-> Empty]
    /\ noccupied = 0

-----------------------------------------------------------------------------
(* Accumulators. *)

\* Variant: an accumulator as wide as need be.
WrapNever(x) == x

\* Machine addition where no overflow is checked.
Wrap(x) == ((x + MaxInt + 1) % (2 * MaxInt + 2)) - MaxInt - 1

\* Variant: a group is counted and added up from its second row on.
InitAccEmpty(a, v) == IF a \in {"COUNT", "SUM"} THEN 0 ELSE v

\* init_accumulators.
InitAcc(a, v) == IF a = "COUNT" THEN 1 ELSE v

\* SUM unwraps its value; the others take a NULL.
InitPanics(v) == "SUM" \in Aggs /\ v = Null

\* Variant of what upsert does to an accumulator: MAX keeps the smaller value.
UpdateKeepsSmaller(a, acc, v) ==
    CASE a = "COUNT" -> Wrap(acc + 1)
      [] a = "SUM" -> Wrap(acc + v)
      [] a \in {"MIN", "MAX"} -> IF v < acc THEN v ELSE acc

\* What upsert does to an accumulator.
Update(a, acc, v) ==
    CASE a = "COUNT" -> Wrap(acc + 1)
      [] a = "SUM" -> Wrap(acc + v)
      [] a = "MAX" -> IF v > acc THEN v ELSE acc
      [] a = "MIN" -> IF v < acc THEN v ELSE acc

\* SUM unwraps; MIN and MAX have a todo! for a NULL on either side; a debug build
\* panics when an addition overflows.
UpdatePanics(acc, v) ==
    \/ v = Null /\ Aggs \intersect {"SUM", "MIN", "MAX"} # {}
    \/ \E a \in Aggs \intersect {"MIN", "MAX"} : acc[a] = Null
    \/ debugBuild /\ "SUM" \in Aggs /\ acc["SUM"] + v \notin Int64
    \/ debugBuild /\ "COUNT" \in Aggs /\ acc["COUNT"] + 1 \notin Int64

-----------------------------------------------------------------------------
(* Steps. *)

Chunks == {<<r>> : r \in Rows} \union {<<r, s>> : r \in Rows, s \in Rows}

\* hash_chunk knows integers and strings, and unwraps every key.
HashPanics(c) == keyType = "Other" \/ \E i \in DOMAIN c : c[i].key = Null

\* next_agg takes a chunk that is not empty, and upsert hashes its keys.
NextChunk ==
    /\ pc = "next"
    /\ \E c \in Chunks :
          /\ Len(input) + Len(c) <= MaxRows
          /\ IF HashPanics(c)
             THEN pc' = "panicked" /\ UNCHANGED <<input, chunk>>
             ELSE pc' = "row" /\ chunk' = c /\ input' = input \o c
    /\ UNCHANGED <<keyType, debugBuild, bucket, hvec, noccupied>>

\* The child has no more: the entries are the output.
EndOfInput ==
    /\ pc = "next"
    /\ pc' = "done"
    /\ UNCHANGED <<keyType, debugBuild, input, chunk, bucket, hvec, noccupied>>

row == Head(chunk)

HalfFull == ~(noccupied < TableSize \div 2)

\* Variant: the search begins where the one before has ended.
StartFindThere ==
    /\ pc = "row"
    /\ pc' = "probe"
    /\ UNCHANGED <<keyType, debugBuild, input, chunk, bucket, hvec, noccupied>>

\* The beginning of find.
StartFind ==
    /\ pc = "row"
    /\ IF debugBuild /\ HalfFull
       THEN pc' = "panicked" /\ UNCHANGED bucket
       ELSE pc' = "probe" /\ bucket' = Hash[row.key] % TableSize
    /\ UNCHANGED <<keyType, debugBuild, input, chunk, hvec, noccupied>>

\* Variant: the rest of the chunk is dropped.
ChunkDone ==
    /\ chunk' = << >>
    /\ pc' = "next"

RowDone ==
    /\ chunk' = Tail(chunk)
    /\ pc' = IF Len(chunk) = 1 THEN "next" ELSE "row"

\* Variants: a probe that does not wrap around, one that leaves out a bucket.
NoWrapAround == IF bucket = TableSize - 1 THEN bucket ELSE bucket + 1
SkipBucket == IF bucket >= TableSize - 2 THEN 0 ELSE bucket + 2

NextBucket == IF bucket = TableSize - 1 THEN 0 ELSE bucket + 1

\* compare_key knows strings only.
ComparePanics ==
    /\ pc = "probe"
    /\ hvec[bucket].key # Null
    /\ keyType # "Utf8"
    /\ pc' = "panicked"
    /\ UNCHANGED <<keyType, debugBuild, input, chunk, bucket, hvec, noccupied>>

Compare == pc = "probe" /\ hvec[bucket].key # Null /\ keyType = "Utf8"

\* Another key is in the bucket.
Probe ==
    /\ Compare
    /\ hvec[bucket].key # row.key
    /\ bucket' = NextBucket
    /\ UNCHANGED <<keyType, debugBuild, input, chunk, pc, hvec, noccupied>>

\* The key is in the bucket: its accumulators take the row.
Found ==
    /\ Compare
    /\ hvec[bucket].key = row.key
    /\ IF UpdatePanics(hvec[bucket].acc, row.val)
       THEN pc' = "panicked" /\ UNCHANGED <<chunk, hvec>>
       ELSE /\ hvec' = [hvec EXCEPT ![bucket].acc =
                            [a \in Aggs |-> Update(a, @[a], row.val)]]
            /\ RowDone
    /\ UNCHANGED <<keyType, debugBuild, input, bucket, noccupied>>

\* The bucket is empty: the key gets it.
Insert ==
    /\ pc = "probe"
    /\ hvec[bucket].key = Null
    /\ IF InitPanics(row.val)
       THEN pc' = "panicked" /\ UNCHANGED <<chunk, hvec, noccupied>>
       ELSE /\ hvec' = [hvec EXCEPT ![bucket] =
                            [key |-> row.key, acc |-> [a \in Aggs |-> InitAcc(a, row.val)]]]
            /\ noccupied' = noccupied + 1
            /\ RowDone
    /\ UNCHANGED <<keyType, debugBuild, input, bucket>>

Find == StartFind \/ ComparePanics \/ Probe \/ Found \/ Insert

Terminated == pc \in {"done", "panicked"} /\ UNCHANGED vars

Next == NextChunk \/ EndOfInput \/ Find \/ Terminated

Spec == Init /\ [][Next]_vars

\* The thread runs, and its child's chunks come to an end.
FairSpec == Spec /\ WF_vars(Find) /\ WF_vars(EndOfInput)

-----------------------------------------------------------------------------
(* Properties. *)

\* The buckets a probe from a passes before it looks into b.
Between(a, b) == IF a <= b THEN a .. b - 1 ELSE (a .. TableSize - 1) \union (0 .. b - 1)

Home(k) == Hash[k] % TableSize

\* Linear probing: no bucket is empty between the one a key hashes to and the one it
\* is in, so that find gets to it.
NoGapBefore == \A b \in Occupied : Between(Home(hvec[b].key), b) \subseteq Occupied

\* A key has one entry: its rows are not split into two groups.
OneEntryPerKey == \A a, b \in Occupied : hvec[a].key = hvec[b].key => a = b

\* The number of entries, which decides whether there is output, is right.
EntriesCounted == noccupied = Cardinality(Occupied)

RowsOf(k) == {i \in 1 .. Len(input) - Len(chunk) : input[i].key = k}

\* The keys of the rows filed so far have entries, and no others.
EntriesAreKeys ==
    pc # "panicked" =>
        \A k \in Keys : RowsOf(k) # {} <=> \E b \in Occupied : hvec[b].key = k

\* COUNT is the number of rows filed under the key, in 64-bit arithmetic.
CountsRight ==
    pc # "panicked" /\ "COUNT" \in Aggs =>
        \A b \in Occupied : hvec[b].acc["COUNT"] = Wrap(Cardinality(RowsOf(hvec[b].key)))

\* The minimum and the maximum of a group are values of it, and bound the others.
ExtremesRight ==
    pc # "panicked" =>
        \A b \in Occupied : \A a \in Aggs \intersect {"MIN", "MAX"} :
            LET group == {input[i].val : i \in RowsOf(hvec[b].key)} IN
            /\ hvec[b].acc[a] \in group
            /\ hvec[b].acc[a] # Null =>
                   \A v \in group : IF a = "MAX" THEN v <= hvec[b].acc[a] ELSE v >= hvec[b].acc[a]

\* The values of a key in the first n rows, added up.
Total(rows, k, n) ==
    LET total[i \in 0 .. n] ==
            IF i = 0 THEN 0
            ELSE total[i - 1] + (IF rows[i].key = k THEN rows[i].val ELSE 0)
    IN  total[n]

\* The sum of a group is that of its rows, in 64-bit arithmetic: of the whole sum, not
\* step by step.
SumsRight ==
    pc # "panicked" /\ "SUM" \in Aggs =>
        \A b \in Occupied :
            /\ hvec[b].acc["SUM"] \in Int64
            /\ (hvec[b].acc["SUM"] - Total(input, hvec[b].key, Len(input) - Len(chunk)))
                   % (2 * MaxInt + 2) = 0

\* Every search ends, and with it the aggregation.
AggregationEnds == <>(pc \in {"done", "panicked"})
=============================================================================
