---------------------------- MODULE Repartition ----------------------------
(***************************************************************************)
(* The files between two stages (pop_repartition.rs).  A task of the       *)
(* producing stage (RepartitionWriteContext) cuts every chunk into         *)
(* partitions by the hash of its key and appends each to a file of its own *)
(* per consumer; a task of the consuming stage (RepartitionReadContext)    *)
(* lists the directory of its partition and reads the files one after the  *)
(* other.                                                                  *)
(*                                                                         *)
(* A row is its key: the tuple of the key columns, none of them NULL.      *)
(***************************************************************************)
EXTENDS Integers, Sequences, SequencesExt, FiniteSets

CONSTANTS
    NProducers,     \* npartitions of the producing stage
    cpartitions,    \* of RepartitionWrite: partitions of the consuming stage
    Rows,
    Hash,           \* the hash of the value of a column
    MaxRows         \* bound on the rows of a producer

ASSUME SizesAssumption == NProducers \in Nat /\ cpartitions \in Nat \ {0}

Producers == 0 .. NProducers - 1
Consumers == 0 .. cpartitions - 1

VARIABLES
    wpc,            \* per producer: "next", "write", "finish" or "done"
    taken,          \* per producer: the rows of the chunks of its child
    chunk,          \* per producer: the chunk it is writing
    cpartition,     \* per producer: the loop over the consumers
    file,           \* per producer and consumer: the file between them
    rpc,            \* per consumer: "new", "reading", "done" or "panicked"
    nread           \* per consumer: the batches it has read of each file it has listed

wvars == <<wpc, taken, chunk, cpartition, file>>
vars == <<wpc, taken, chunk, cpartition, file, rpc, nread>>

NoFile == [state |-> "none", batches |-> << >>]

Init ==
    /\ wpc = [p \in Producers |-> "next"]
    /\ taken = [p \in Producers |-> << >>]
    /\ chunk = [p \in Producers |-> << >>]
    /\ cpartition = [p \in Producers |-> 0]
    /\ file = [p \in Producers |-> [c \in Consumers |-> NoFile]]
    /\ rpc = [c \in Consumers |-> "new"]
    /\ nread = [c \in Consumers |-> << >>]

-----------------------------------------------------------------------------
(* Producers. *)

\* hash_chunk takes the last column of the key only, and compute_partitions its
\* remainder.
PartOf(r) == Hash[r[Len(r)]] % cpartitions

Part == [r \in Rows |-> PartOf(r)]

Chunks == {<<r>> : r \in Rows} \union {<<r, s>> : r, s \in Rows}

\* The child returns a chunk that is not empty.
NextChunk(p) ==
    /\ wpc[p] = "next"
    /\ \E c \in Chunks :
          /\ Len(taken[p]) + Len(c) <= MaxRows
          /\ taken' = [taken EXCEPT ![p] = @ \o c]
          /\ chunk' = [chunk EXCEPT ![p] = c]
    /\ wpc' = [wpc EXCEPT ![p] = "write"]
    /\ cpartition' = [cpartition EXCEPT ![p] = 0]
    /\ UNCHANGED <<file, rpc, nread>>

\* The loops over the consumers go on, or are over.
NextConsumer(p, over) ==
    IF cpartition[p] + 1 < cpartitions
    THEN cpartition' = [cpartition EXCEPT ![p] = @ + 1] /\ UNCHANGED wpc
    ELSE wpc' = [wpc EXCEPT ![p] = over] /\ UNCHANGED cpartition

\* Variant: the file is created anew for each chunk.
AppendToNew(f, batch) == [state |-> "open", batches |-> <<batch>>]

\* get_writer creates the file for the first batch; write appends.
AppendTo(f, batch) == [state |-> "open", batches |-> Append(f.batches, batch)]

IsEmptyBatch(batch) == batch = << >>

FilterPartition(rows, c) ==
    FlattenSeq([i \in DOMAIN rows |-> IF PartOf(rows[i]) = c THEN <<rows[i]>> ELSE << >>])

\* One turn of write_partitions.
WritePartition(p) ==
    LET c == cpartition[p]
        batch == FilterPartition(chunk[p], c)
    IN
    /\ wpc[p] = "write"
    /\ file' = IF IsEmptyBatch(batch) THEN file
               ELSE [file EXCEPT ![p][c] = AppendTo(@, batch)]
    /\ NextConsumer(p, "next")
    /\ UNCHANGED <<taken, chunk, rpc, nread>>

EndOfInput(p) ==
    /\ wpc[p] = "next"
    /\ wpc' = [wpc EXCEPT ![p] = "finish"]
    /\ cpartition' = [cpartition EXCEPT ![p] = 0]
    /\ UNCHANGED <<taken, chunk, file, rpc, nread>>

\* Variant: the loop leaves out partition 0.
FinishedButFirst(f, c) == IF f.state = "open" /\ c > 0 THEN [f EXCEPT !.state = "whole"] ELSE f

Finished(f, c) == IF f.state = "open" THEN [f EXCEPT !.state = "whole"] ELSE f

\* One turn of finish_writers.
FinishWriter(p) ==
    /\ wpc[p] = "finish"
    /\ file' = [file EXCEPT ![p][cpartition[p]] = Finished(@, cpartition[p])]
    /\ NextConsumer(p, "done")
    /\ UNCHANGED <<taken, chunk, rpc, nread>>

-----------------------------------------------------------------------------
(* Consumers. *)

\* The scheduler starts consumers behind all producers (Scheduler).
ProducersDone == \A p \in Producers : wpc[p] = "done"

\* try_new lists the directory, which does not exist if there is no file.
Open(c) ==
    /\ rpc[c] = "new"
    /\ ProducersDone
    /\ rpc' = [rpc EXCEPT ![c] = "reading"]
    /\ nread' = [nread EXCEPT ![c] = [p \in {q \in Producers : file[q][c].state # "none"} |-> 0]]
    /\ UNCHANGED wvars

FileRead(c, p) == nread[c][p] = Len(file[p][c].batches)

\* next returns the next batch of the file at hand, or opens another; a file that
\* its producer has not finished has no metadata.
ReadBatch(c) ==
    /\ rpc[c] = "reading"
    /\ \E p \in DOMAIN nread[c] :
          /\ ~FileRead(c, p)
          /\ \A q \in DOMAIN nread[c] : q # p => nread[c][q] = 0 \/ FileRead(c, q)
          /\ IF file[p][c].state = "whole"
             THEN nread' = [nread EXCEPT ![c][p] = @ + 1] /\ UNCHANGED rpc
             ELSE rpc' = [rpc EXCEPT ![c] = "panicked"] /\ UNCHANGED nread
    /\ UNCHANGED wvars

\* All files are read.
EndRead(c) ==
    /\ rpc[c] = "reading"
    /\ \A p \in DOMAIN nread[c] : FileRead(c, p)
    /\ rpc' = [rpc EXCEPT ![c] = "done"]
    /\ UNCHANGED <<wpc, taken, chunk, cpartition, file, nread>>

Write(p) == NextChunk(p) \/ WritePartition(p) \/ EndOfInput(p) \/ FinishWriter(p)
Read(c) == Open(c) \/ ReadBatch(c) \/ EndRead(c)

Terminated == (\A c \in Consumers : rpc[c] \in {"done", "panicked"}) /\ UNCHANGED vars

Next == (\E p \in Producers : Write(p)) \/ (\E c \in Consumers : Read(c)) \/ Terminated

Spec == Init /\ [][Next]_vars

\* Threads run, and the child of a producer comes to an end (MaxRows).
FairSpec ==
    /\ Spec
    /\ \A p \in Producers : WF_vars(WritePartition(p) \/ EndOfInput(p) \/ FinishWriter(p))
    /\ \A c \in Consumers : WF_vars(Read(c))

-----------------------------------------------------------------------------
(* Properties. *)

\* The rows consumer c has of producer p.
RowsRead(c, p) ==
    IF p \in DOMAIN nread[c] THEN FlattenSeq(SubSeq(file[p][c].batches, 1, nread[c][p])) ELSE << >>

exchange == INSTANCE Exchange WITH
    sent <- taken,
    closed <- {p \in Producers : wpc[p] = "done"},
    received <- [c \in Consumers |-> [p \in Producers |-> RowsRead(c, p)]],
    ended <- {c \in Consumers : rpc[c] = "done"}

\* The files are an exchange: a consumer at its end has every row of every producer
\* whose key falls to it, once and in order, and no other.
ImplementsExchange == exchange!Spec

\* No consumer unwraps the metadata of an unfinished file, and each comes to its end.
ReadersEnd == <>(\A c \in Consumers : rpc[c] = "done")
=============================================================================
