------------------------------ MODULE CsvScan ------------------------------
(***************************************************************************)
(* The scan of a CSV file by several tasks (pop_csv.rs).  The plan cuts    *)
(* the file into byte ranges (CSV::compute_partitions); each task opens    *)
(* the file, seeks to its range and reads records chunk by chunk until one *)
(* ends behind the range (CSVContext).                                     *)
(*                                                                         *)
(* A file is the offsets at which its lines end; a record is one line, and *)
(* is named by the offsets where it starts and ends.  A line of one byte   *)
(* is one too: that the csv crate skips lines without any content, and     *)
(* goes on to the end of the next one, is left out.                        *)
(***************************************************************************)
EXTENDS Integers, Sequences, FiniteSets

CONSTANTS
    Files,      \* the files the scan may meet
    NSplits,    \* npartitions of the scan
    ChunkSize   \* rows a task reads at a time (CHUNK_SIZE)

\* A file that is not empty ends with the end of a line: read_line and the
\* record reader take the end of the file for one.
IsFile(f) ==
    /\ f.size \in Nat
    /\ f.ends \subseteq 1 .. f.size
    /\ f.size > 0 => f.size \in f.ends
    /\ f.header \in BOOLEAN

ASSUME FilesAssumption == \A f \in Files : IsFile(f)
ASSUME NSplitsAssumption == NSplits \in Nat \ {0}
ASSUME ChunkSizeAssumption == ChunkSize \in Nat \ {0}

Partitions == 0 .. NSplits - 1

VARIABLES
    file,       \* the file, which nobody writes
    pc,         \* "split" while compute_partitions loops, "scan", or "panicked"
    end,        \* of the last piece, where the next one begins
    splits,     \* the pieces so far
    state,      \* per task: "new", "reading", "stopped" (left read_rows) or "closed"
    pos,        \* per task: the position of its reader
    chunk,      \* per task: the records of the chunk it is reading
    rows        \* per task: the records of the chunks it has returned

vars == <<file, pc, end, splits, state, pos, chunk, rows>>

\* The end of the line that holds the byte at offset p.
LineEnd(p) == CHOOSE e \in file.ends : e > p /\ \A d \in file.ends : d > p => e <= d

Record(p) == [start |-> p, end |-> LineEnd(p)]

\* Where the first record starts that is data.
DataStart == IF file.header /\ file.size > 0 THEN LineEnd(0) ELSE 0

\* The records a scan is to return.
DataRecords == {Record(p) : p \in {q \in {0} \union file.ends : DataStart <= q /\ q < file.size}}

Pieces == [lo : 0 .. file.size, hi : 0 .. file.size]

TypeOK ==
    /\ file \in Files
    /\ pc \in {"split", "scan", "panicked"}
    /\ end \in 0 .. file.size
    /\ splits \in Seq(Pieces)
    /\ state \in [Partitions -> {"new", "reading", "stopped", "closed"}]
    /\ pos \in [Partitions -> 0 .. file.size]
    /\ chunk \in [Partitions -> SUBSET DataRecords]
    /\ rows \in [Partitions -> SUBSET DataRecords]

Init ==
    /\ file \in Files
    /\ pc = "split"
    /\ end = 0
    /\ splits = << >>
    /\ state = [p \in Partitions |-> "new"]
    /\ pos = [p \in Partitions |-> 0]
    /\ chunk = [p \in Partitions |-> {}]
    /\ rows = [p \in Partitions |-> {}]

-----------------------------------------------------------------------------
(* The plan: CSV::compute_partitions. *)

BlkSize == file.size \div NSplits

\* The last byte read_line takes from offset p.
ReadLine(p) == IF p = file.size THEN p ELSE LineEnd(p)

\* Variants: the piece is not extended to the end of its line, or not cut at the
\* end of the file.
PieceEndInLine == IF end + BlkSize > file.size THEN file.size ELSE end + BlkSize
PieceEndUncut == IF end + BlkSize > file.size THEN end + BlkSize ELSE ReadLine(end + BlkSize)

\* Where the next piece ends: BlkSize bytes on, then to the end of the line.
PieceEnd == IF end + BlkSize > file.size THEN file.size ELSE ReadLine(end + BlkSize)

\* One turn of the loop.
SplitPiece ==
    /\ pc = "split"
    /\ end < file.size
    /\ end' = PieceEnd
    /\ splits' = Append(splits, [lo |-> end, hi |-> end'])
    /\ UNCHANGED <<file, pc, state, pos, chunk, rows>>

\* Empty pieces for the tasks that are left over.  The number of those is an
\* unsigned subtraction.
PadSplits ==
    /\ pc = "split"
    /\ end >= file.size
    /\ IF Len(splits) <= NSplits
       THEN /\ pc' = "scan"
            /\ splits' = [i \in 1 .. NSplits |->
                             IF i <= Len(splits) THEN splits[i] ELSE [lo |-> 0, hi |-> 0]]
       ELSE /\ pc' = "panicked"
            /\ UNCHANGED splits
    /\ UNCHANGED <<file, end, state, pos, chunk, rows>>

-----------------------------------------------------------------------------
(* A task: CSVContext. *)

Piece(p) == splits[p + 1]

\* CSVContext::try_new: task 0 reads the header, the others seek.
Open(p) ==
    /\ pc = "scan"
    /\ state[p] = "new"
    /\ state' = [state EXCEPT ![p] = "reading"]
    /\ pos' = [pos EXCEPT ![p] = IF p = 0 THEN DataStart ELSE Piece(p).lo]
    /\ UNCHANGED <<file, pc, end, splits, chunk, rows>>

\* The reader of task p stands at a record.
HasMore(p) == pos[p] < file.size

\* Variants: a record belongs to the piece it starts in or right behind; a record
\* that ends with its piece does not belong to it.
StartsInPiece(p) == HasMore(p) /\ pos[p] <= Piece(p).hi
EndsInsidePiece(p) == HasMore(p) /\ LineEnd(pos[p]) < Piece(p).hi

\* A record belongs to the piece it ends in.
InPiece(p) == HasMore(p) /\ LineEnd(pos[p]) <= Piece(p).hi

Reading(p) == pc = "scan" /\ state[p] = "reading" /\ Cardinality(chunk[p]) < ChunkSize

\* One turn of the loop of read_rows that adds a record.
ReadRecord(p) ==
    /\ Reading(p)
    /\ InPiece(p)
    /\ pos' = [pos EXCEPT ![p] = LineEnd(@)]
    /\ chunk' = [chunk EXCEPT ![p] = @ \union {Record(pos[p])}]
    /\ UNCHANGED <<file, pc, end, splits, state, rows>>

\* The turn that leaves it: the reader has gone past a record all the same.
StopReading(p) ==
    /\ Reading(p)
    /\ ~InPiece(p)
    /\ pos' = [pos EXCEPT ![p] = ReadLine(@)]
    /\ state' = [state EXCEPT ![p] = "stopped"]
    /\ UNCHANGED <<file, pc, end, splits, chunk, rows>>

ChunkRead(p) ==
    /\ pc = "scan"
    /\ \/ state[p] = "stopped"
       \/ state[p] = "reading" /\ Cardinality(chunk[p]) >= ChunkSize

\* Variant: an empty chunk is returned as any other.
ReturnEmptyChunk(p) ==
    /\ ChunkRead(p)
    /\ rows' = [rows EXCEPT ![p] = @ \union chunk[p]]
    /\ chunk' = [chunk EXCEPT ![p] = {}]
    /\ state' = [state EXCEPT ![p] = "reading"]
    /\ UNCHANGED <<file, pc, end, splits, pos>>

\* CSVContext::next returns the chunk, or None if it is empty.
ReturnChunk(p) ==
    /\ ChunkRead(p)
    /\ rows' = [rows EXCEPT ![p] = @ \union chunk[p]]
    /\ chunk' = [chunk EXCEPT ![p] = {}]
    /\ state' = [state EXCEPT ![p] = IF chunk[p] = {} THEN "closed" ELSE "reading"]
    /\ UNCHANGED <<file, pc, end, splits, pos>>

Split == SplitPiece \/ PadSplits
Scan(p) == Open(p) \/ ReadRecord(p) \/ StopReading(p) \/ ReturnChunk(p)

AllClosed == pc = "scan" /\ \A p \in Partitions : state[p] = "closed"
Terminated == (AllClosed \/ pc = "panicked") /\ UNCHANGED vars

Next == Split \/ (\E p \in Partitions : Scan(p)) \/ Terminated

Spec == Init /\ [][Next]_vars

\* Files are finite and threads run.
FairSpec == Spec /\ WF_vars(Split) /\ \A p \in Partitions : WF_vars(Scan(p))

-----------------------------------------------------------------------------
(* Properties. *)

\* There are never more pieces than tasks: the subtraction that pads them does
\* not underflow, and no piece is left without a task.
SplitsFit == Len(splits) <= NSplits

\* No record is returned by two tasks, wherever the pieces were cut.
NoRecordTwice ==
    \A p, q \in Partitions : p # q =>
        (rows[p] \union chunk[p]) \intersect (rows[q] \union chunk[q]) = {}

\* Together the tasks return every record of the file, whole, and no header.
AllRecordsRead == AllClosed => UNION {rows[p] : p \in Partitions} = DataRecords

\* The loop over pieces ends, also when a piece is of no bytes before it is
\* extended, and so does every task.
ScanEnds == <>AllClosed
=============================================================================
