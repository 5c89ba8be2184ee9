-------------------------- MODULE RepartitionProofs --------------------------
(***************************************************************************)
(* Repartition implements Exchange, for any number of producers, consumers *)
(* and rows, whatever the hash.                                            *)
(***************************************************************************)
EXTENDS Repartition, DataInduction

Files == [state : {"none", "open", "whole"}, batches : Seq(Seq(Rows))]

TypeInv ==
    /\ wpc \in [Producers -> {"next", "write", "finish", "done"}]
    /\ taken \in [Producers -> Seq(Rows)]
    /\ chunk \in [Producers -> Seq(Rows)]
    /\ cpartition \in [Producers -> Consumers]
    /\ file \in [Producers -> [Consumers -> Files]]
    /\ rpc \in [Consumers -> {"new", "reading", "done", "panicked"}]
    /\ nread \in [Consumers -> UNION {[D -> Nat] : D \in SUBSET Producers}]

\* What producer p has taken and not yet written for consumer c.
Unwritten(p, c) ==
    IF wpc[p] = "write" /\ cpartition[p] <= c THEN FilterPartition(chunk[p], c) ELSE << >>

\* A file has all the rows of its consumer but those; without a row there is none.
WriterInv ==
    \A p \in Producers, c \in Consumers :
        /\ file[p][c].state = "none" <=> file[p][c].batches = << >>
        /\ FlattenSeq(file[p][c].batches) \o Unwritten(p, c) = FilterPartition(taken[p], c)

\* Who reads has listed all the files there will ever be.
ReaderInv ==
    \A c \in Consumers :
        IF rpc[c] = "new"
        THEN DOMAIN nread[c] = {}
        ELSE /\ ProducersDone
             /\ DOMAIN nread[c] = {p \in Producers : file[p][c].state # "none"}
             /\ \A p \in DOMAIN nread[c] : nread[c][p] \in 0 .. Len(file[p][c].batches)

RepartitionInv == TypeInv /\ WriterInv /\ ReaderInv

-----------------------------------------------------------------------------
(* Rows and files. *)

LEMMA FilterFacts ==
    ASSUME NEW c, NEW s \in Seq(Rows), NEW t \in Seq(Rows)
    PROVE  /\ FilterPartition(s, c) \in Seq(Rows)
           /\ FilterPartition(s \o t, c) = FilterPartition(s, c) \o FilterPartition(t, c)
<1> DEFINE g == [r \in Rows |-> IF PartOf(r) = c THEN <<r>> ELSE << >>]
<1>1. g \in [Rows -> Seq(Rows)]
    OBVIOUS
<1>2. ASSUME NEW x \in Seq(Rows)
      PROVE  /\ FilterPartition(x, c) = FlattenSeq(Images(g, x))
             /\ Images(g, x) \in Seq(Seq(Rows))
             /\ FilterPartition(x, c) \in Seq(Rows)
    <2>1. DOMAIN x = 1 .. Len(x) /\ Len(x) \in Nat /\ \A i \in 1 .. Len(x) : x[i] \in Rows
        BY LenProperties, ElementOfSeq
    <2>2. [i \in DOMAIN x |-> IF PartOf(x[i]) = c THEN <<x[i]>> ELSE << >>]
                = Images(g, x)
        BY <2>1 DEF Images
    <2>3. Images(g, x) \in Seq(Seq(Rows))
        BY <1>1, <2>1 DEF Images
    <2> HIDE DEF g
    <2> QED
        BY <2>2, <2>3, FlattenType DEF FilterPartition
<1> HIDE DEF g
<1>3. s \o t \in Seq(Rows)
    BY ConcatProperties
<1>4. Images(g, s) \in Seq(Seq(Rows)) /\ Images(g, t) \in Seq(Seq(Rows))
    BY <1>2
<1>5. FlattenSeq(Images(g, s) \o Images(g, t)) = FlattenSeq(Images(g, s)) \o FlattenSeq(Images(g, t))
    BY <1>4, FlattenConcat
<1>6. Images(g, s \o t) = Images(g, s) \o Images(g, t)
    BY ImagesConcat
<1>7. FilterPartition(s \o t, c) = FilterPartition(s, c) \o FilterPartition(t, c)
    BY <1>2, <1>3, <1>5, <1>6
<1>8. FilterPartition(s, c) \in Seq(Rows)
    BY <1>2
<1> QED
    BY <1>7, <1>8

LEMMA FilterEmpty == \A c : FilterPartition(<< >>, c) = << >>
<1>1. ASSUME NEW c PROVE FilterPartition(<< >>, c) = << >>
    <2>1. [i \in DOMAIN << >> |-> IF PartOf(<< >>[i]) = c THEN <<<< >>[i]>> ELSE << >>] = << >>
        OBVIOUS
    <2> QED
        BY <2>1, FlattenEmpty DEF FilterPartition
<1> QED
    BY <1>1

\* The instance speaks of the same rows.
LEMMA ShareIs ==
    ASSUME TypeInv, NEW p \in Producers, NEW c \in Consumers
    PROVE  exchange!Share(c, p) = FilterPartition(taken[p], c)
<1> DEFINE x == taken[p]
<1>1. DOMAIN x = 1 .. Len(x) /\ \A i \in 1 .. Len(x) : x[i] \in Rows
    BY LenProperties, ElementOfSeq DEF TypeInv
<1>2. [i \in DOMAIN x |-> IF Part[x[i]] = c THEN <<x[i]>> ELSE << >>]
        = [i \in DOMAIN x |-> IF PartOf(x[i]) = c THEN <<x[i]>> ELSE << >>]
    BY <1>1 DEF Part
<1>3. \A s : exchange!FlattenSeq(s) = FlattenSeq(s)
    BY DEF exchange!FlattenSeq, FlattenSeq
<1> QED
    BY <1>2, <1>3 DEF exchange!Share, FilterPartition

LEMMA FileFacts ==
    ASSUME TypeInv, NEW p \in Producers, NEW c \in Consumers
    PROVE  /\ file[p][c] \in Files
           /\ file[p][c].batches \in Seq(Seq(Rows))
           /\ Len(file[p][c].batches) \in Nat
           /\ FlattenSeq(file[p][c].batches) \in Seq(Rows)
BY FlattenType, LenProperties DEF TypeInv, Files

\* A list of files with none read is a list of rows with none read.
LEMMA NoneRead == \A s : FlattenSeq(SubSeq(s, 1, 0)) = << >>
<1>1. ASSUME NEW s PROVE FlattenSeq(SubSeq(s, 1, 0)) = << >>
    <2>1. SubSeq(s, 1, 0) = << >>
        OBVIOUS
    <2> QED
        BY <2>1, FlattenEmpty
<1> QED
    BY <1>1

\* The chunks of Repartition are those of Exchange.
LEMMA ChunkFacts ==
    ASSUME NEW k \in Chunks
    PROVE  /\ k \in Seq(Rows)
           /\ \E n \in 1 .. 2, h \in [1 .. 2 -> Rows] : k = SubSeq(h, 1, n)
<1>1. CASE k \in {<<r>> : r \in Rows}
    <2>1. PICK r \in Rows : k = <<r>>
        BY <1>1
    <2>2. <<r, r>> \in [1 .. 2 -> Rows] /\ k = SubSeq(<<r, r>>, 1, 1)
        BY <2>1
    <2>3. 1 \in 1 .. 2
        OBVIOUS
    <2> QED
        BY <2>1, <2>2, <2>3
<1>2. CASE k \in {<<r, s>> : r, s \in Rows}
    <2>1. PICK r \in Rows, s \in Rows : k = <<r, s>>
        BY <1>2
    <2>2. <<r, s>> \in [1 .. 2 -> Rows] /\ k = SubSeq(<<r, s>>, 1, 2)
        BY <2>1
    <2>3. 2 \in 1 .. 2
        OBVIOUS
    <2> QED
        BY <2>1, <2>2, <2>3
<1> QED
    BY <1>1, <1>2 DEF Chunks

-----------------------------------------------------------------------------
(* The invariant. *)

LEMMA InitInv == Init => RepartitionInv
<1> SUFFICES ASSUME Init PROVE RepartitionInv
    OBVIOUS
<1>1. 0 \in Consumers /\ NoFile \in Files
    BY SizesAssumption DEF Consumers, NoFile, Files
<1>2. TypeInv
    <2>1. << >> \in UNION {[D -> Nat] : D \in SUBSET Producers}
        <3>1. << >> \in [{} -> Nat]
            OBVIOUS
        <3> QED
            BY <3>1
    <2> QED
        BY <1>1, <2>1 DEF Init, TypeInv
<1>3. WriterInv
    <2> SUFFICES ASSUME NEW p \in Producers, NEW c \in Consumers
                 PROVE  /\ file[p][c].state = "none" <=> file[p][c].batches = << >>
                        /\ FlattenSeq(file[p][c].batches) \o Unwritten(p, c) = FilterPartition(taken[p], c)
        BY DEF WriterInv
    <2>1. file[p][c].state = "none" /\ file[p][c].batches = << >> /\ taken[p] = << >> /\ Unwritten(p, c) = << >>
        BY DEF Init, NoFile, Unwritten
    <2> QED
        BY <2>1, FlattenEmpty, FilterEmpty
<1>4. ReaderInv
    BY DEF Init, ReaderInv
<1> QED
    BY <1>2, <1>3, <1>4 DEF RepartitionInv

\* While a producer is at work no consumer has begun.
LEMMA ReadersWait ==
    ASSUME ReaderInv, TypeInv, NEW p \in Producers, wpc[p] # "done", NEW c \in Consumers
    PROVE  rpc[c] = "new" /\ DOMAIN nread[c] = {}
BY DEF ReaderInv, ProducersDone

\* So it keeps the invariant of the readers if it lets them be.
LEMMA ReaderInvKept ==
    ASSUME RepartitionInv, NEW p \in Producers, wpc[p] # "done", UNCHANGED <<rpc, nread>>
    PROVE  ReaderInv'
BY ReadersWait DEF RepartitionInv, ReaderInv

LEMMA ConcatNothing == ASSUME NEW s \in Seq(Rows) PROVE s \o << >> = s
BY ConcatEmptySeq

LEMMA NextChunkInv ==
    ASSUME RepartitionInv, NEW p \in Producers, NextChunk(p)
    PROVE  RepartitionInv'
<1>0. TypeInv /\ WriterInv /\ ReaderInv /\ wpc[p] = "next"
    BY DEF RepartitionInv, NextChunk
<1>1. PICK k \in Chunks :
            /\ taken' = [taken EXCEPT ![p] = @ \o k]
            /\ chunk' = [chunk EXCEPT ![p] = k]
    BY DEF NextChunk
<1>2. k \in Seq(Rows) /\ taken[p] \in Seq(Rows) /\ taken[p] \o k \in Seq(Rows)
    BY <1>0, ChunkFacts, ConcatProperties DEF TypeInv
<1>3. TypeInv'
    <2>1. 0 \in Consumers
        BY SizesAssumption DEF Consumers
    <2> QED
        BY <1>0, <1>1, <1>2, <2>1 DEF TypeInv, NextChunk
<1>4. WriterInv'
    <2> SUFFICES ASSUME NEW q \in Producers, NEW c \in Consumers
                 PROVE  /\ file'[q][c].state = "none" <=> file'[q][c].batches = << >>
                        /\ FlattenSeq(file'[q][c].batches) \o Unwritten(q, c)' = FilterPartition(taken'[q], c)
        BY DEF WriterInv
    <2>1. /\ file[q][c].state = "none" <=> file[q][c].batches = << >>
          /\ FlattenSeq(file[q][c].batches) \o Unwritten(q, c) = FilterPartition(taken[q], c)
        BY <1>0 DEF WriterInv
    <2>2. CASE q # p
        <3>1. /\ file'[q][c] = file[q][c] /\ taken'[q] = taken[q]
              /\ Unwritten(q, c)' = Unwritten(q, c)
            BY <1>0, <1>1, <2>2 DEF TypeInv, NextChunk, Unwritten
        <3> QED
            BY <2>1, <3>1
    <2>3. CASE q = p
        <3>1. Unwritten(q, c) = << >> /\ FlattenSeq(file[q][c].batches) \in Seq(Rows)
            BY <1>0, <2>3, FileFacts DEF Unwritten
        <3>2. FlattenSeq(file[q][c].batches) = FilterPartition(taken[q], c)
            BY <2>1, <3>1, ConcatNothing
        <3>3. Unwritten(q, c)' = FilterPartition(k, c)
            BY <1>0, <1>1, <2>3 DEF Unwritten, NextChunk, TypeInv, Consumers
        <3>4. taken'[q] = taken[q] \o k /\ file'[q][c] = file[q][c]
            BY <1>0, <1>1, <2>3 DEF TypeInv, NextChunk
        <3>5. FilterPartition(taken[q] \o k, c) = FilterPartition(taken[q], c) \o FilterPartition(k, c)
            BY <1>2, <2>3, FilterFacts
        <3> QED
            BY <2>1, <3>2, <3>3, <3>4, <3>5
    <2> QED
        BY <2>2, <2>3
<1>5. ReaderInv'
    BY <1>0, ReaderInvKept DEF NextChunk
<1> QED
    BY <1>3, <1>4, <1>5 DEF RepartitionInv

\* The loop goes on with the next consumer, or was at the last one.
LEMMA NextConsumerFacts ==
    ASSUME TypeInv, NEW p \in Producers, NEW over \in {"next", "done"}, NextConsumer(p, over)
    PROVE  /\ wpc' \in [Producers -> {"next", "write", "finish", "done"}]
           /\ cpartition' \in [Producers -> Consumers]
           /\ \A q \in Producers \ {p} : wpc'[q] = wpc[q] /\ cpartition'[q] = cpartition[q]
           /\ \/ wpc'[p] = wpc[p] /\ cpartition'[p] = cpartition[p] + 1
              \/ wpc'[p] = over /\ cpartition[p] = cpartitions - 1
<1>1. cpartition[p] \in Consumers /\ cpartitions \in Nat
    BY SizesAssumption DEF TypeInv
<1>2. CASE cpartition[p] + 1 < cpartitions
    <2>1. cpartition[p] + 1 \in Consumers
        BY <1>1, <1>2 DEF Consumers
    <2>2. cpartition' = [cpartition EXCEPT ![p] = cpartition[p] + 1] /\ wpc' = wpc
        BY <1>2 DEF NextConsumer
    <2> QED
        BY <2>1, <2>2 DEF TypeInv
<1>3. CASE ~(cpartition[p] + 1 < cpartitions)
    <2>1. cpartition[p] = cpartitions - 1
        BY <1>1, <1>3 DEF Consumers
    <2>2. wpc' = [wpc EXCEPT ![p] = over] /\ cpartition' = cpartition
        BY <1>3 DEF NextConsumer
    <2> QED
        BY <2>1, <2>2 DEF TypeInv
<1> QED
    BY <1>2, <1>3

\* The batch of the consumer at hand moves from the chunk into the file.
LEMMA WritePartitionInv ==
    ASSUME RepartitionInv, NEW p \in Producers, WritePartition(p)
    PROVE  RepartitionInv'
<1>0. /\ TypeInv /\ WriterInv /\ ReaderInv /\ wpc[p] = "write"
      /\ cpartition[p] \in Consumers /\ chunk[p] \in Seq(Rows)
      /\ UNCHANGED <<taken, chunk, rpc, nread>>
    BY DEF RepartitionInv, WritePartition, TypeInv
<1>1. PICK c0 \in Consumers, batch \in Seq(Rows) :
            /\ c0 = cpartition[p]
            /\ batch = FilterPartition(chunk[p], c0)
            /\ file' = IF batch = << >> THEN file ELSE [file EXCEPT ![p][c0] = AppendTo(@, batch)]
    BY <1>0, FilterFacts DEF WritePartition, IsEmptyBatch
<1>2. batch \in Seq(Rows)
    BY <1>1
<1>3. NextConsumer(p, "next")
    BY DEF WritePartition
<1>4. /\ wpc' \in [Producers -> {"next", "write", "finish", "done"}]
      /\ cpartition' \in [Producers -> Consumers]
      /\ \A q \in Producers \ {p} : wpc'[q] = wpc[q] /\ cpartition'[q] = cpartition[q]
      /\ \/ wpc'[p] = "write" /\ cpartition'[p] = c0 + 1
         \/ wpc'[p] = "next" /\ c0 = cpartitions - 1
    BY <1>0, <1>1, <1>3, NextConsumerFacts
<1>5. \A c \in Consumers : /\ file[p][c] \in Files
                           /\ file[p][c].batches \in Seq(Seq(Rows))
                           /\ FlattenSeq(file[p][c].batches) \in Seq(Rows)
    BY <1>0, FileFacts
<1>6. file' \in [Producers -> [Consumers -> Files]]
    <2>1. AppendTo(file[p][c0], batch) \in Files
        BY <1>2, <1>5, AppendProperties DEF AppendTo, Files
    <2> QED
        BY <1>0, <1>1, <2>1 DEF TypeInv
<1>7. TypeInv'
    BY <1>0, <1>4, <1>6 DEF TypeInv
<1>8. WriterInv'
    <2> SUFFICES ASSUME NEW q \in Producers, NEW c \in Consumers
                 PROVE  /\ file'[q][c].state = "none" <=> file'[q][c].batches = << >>
                        /\ FlattenSeq(file'[q][c].batches) \o Unwritten(q, c)' = FilterPartition(taken'[q], c)
        BY DEF WriterInv
    <2>1. /\ file[q][c].state = "none" <=> file[q][c].batches = << >>
          /\ FlattenSeq(file[q][c].batches) \o Unwritten(q, c) = FilterPartition(taken[q], c)
          /\ taken'[q] = taken[q]
        BY <1>0 DEF WriterInv
    <2>2. CASE q # p \/ c # c0
        <3>1. file'[q][c] = file[q][c]
            BY <1>0, <1>1, <2>2 DEF TypeInv
        <3>2. CASE q # p
            BY <1>0, <1>4, <2>1, <3>1, <3>2 DEF Unwritten
        <3>3. CASE q = p /\ c # c0
            <4>1. wpc'[p] = "write" /\ cpartition'[p] <= c <=> c0 <= c
                BY <1>1, <1>4, <3>3, SizesAssumption DEF Consumers
            <4>2. Unwritten(q, c)' = Unwritten(q, c)
                BY <1>0, <1>1, <3>3, <4>1 DEF Unwritten
            <4> QED
                BY <2>1, <3>1, <4>2
        <3> QED
            BY <2>2, <3>2, <3>3
    <2>3. CASE q = p /\ c = c0
        <3>1. Unwritten(q, c) = batch
            BY <1>0, <1>1, <2>3 DEF Unwritten, Consumers
        <3>2. Unwritten(q, c)' = << >>
            BY <1>1, <1>4, <2>3 DEF Unwritten, Consumers
        <3>3. CASE batch = << >>
            BY <1>1, <2>1, <2>3, <3>1, <3>2, <3>3
        <3>4. CASE batch # << >>
            <4>1. file'[p][c0] = AppendTo(file[p][c0], batch)
                BY <1>0, <1>1, <3>4 DEF TypeInv
            <4>2. /\ file'[p][c0].state = "open"
                  /\ file'[p][c0].batches = Append(file[p][c0].batches, batch)
                BY <4>1 DEF AppendTo
            <4>3. Append(file[p][c0].batches, batch) # << >>
                <5>1. Len(Append(file[p][c0].batches, batch)) = Len(file[p][c0].batches) + 1
                    BY <1>2, <1>5, AppendProperties
                <5>2. Len(file[p][c0].batches) \in Nat
                    BY <1>0, FileFacts
                <5>3. Len(file[p][c0].batches) + 1 # 0
                    BY <5>2
                <5> QED
                    BY <5>1, <5>3, EmptySeq
            <4>4. FlattenSeq(Append(file[p][c0].batches, batch)) = FlattenSeq(file[p][c0].batches) \o batch
                BY <1>2, <1>5, FlattenAppend
            <4>5. FlattenSeq(file[p][c0].batches) \o batch \in Seq(Rows)
                BY <1>2, <1>5, ConcatProperties
            <4>6. FlattenSeq(file'[p][c0].batches) \in Seq(Rows)
                BY <4>2, <4>4, <4>5
            <4>7. FlattenSeq(file'[p][c0].batches) \o << >> = FlattenSeq(file'[p][c0].batches)
                BY <4>6, ConcatEmptySeq
            <4> QED
                BY <2>1, <2>3, <3>1, <3>2, <4>2, <4>3, <4>4, <4>7
        <3> QED
            BY <3>3, <3>4
    <2> QED
        BY <2>2, <2>3
<1>9. ReaderInv'
    BY <1>0, ReaderInvKept
<1> QED
    BY <1>7, <1>8, <1>9 DEF RepartitionInv

LEMMA EndOfInputInv ==
    ASSUME RepartitionInv, NEW p \in Producers, EndOfInput(p)
    PROVE  RepartitionInv'
<1>0. TypeInv /\ WriterInv /\ ReaderInv /\ wpc[p] = "next" /\ 0 \in Consumers
    BY SizesAssumption DEF RepartitionInv, EndOfInput, Consumers
<1>1. TypeInv'
    BY <1>0 DEF TypeInv, EndOfInput
<1>2. \A q \in Producers, c \in Consumers : Unwritten(q, c)' = Unwritten(q, c)
    BY <1>0 DEF TypeInv, EndOfInput, Unwritten
<1>3. WriterInv'
    BY <1>0, <1>2 DEF WriterInv, EndOfInput
<1>4. ReaderInv'
    BY <1>0, ReaderInvKept DEF EndOfInput
<1> QED
    BY <1>1, <1>3, <1>4 DEF RepartitionInv

\* A file that is whole has the same batches.
LEMMA FinishWriterInv ==
    ASSUME RepartitionInv, NEW p \in Producers, FinishWriter(p)
    PROVE  RepartitionInv'
<1>0. /\ TypeInv /\ WriterInv /\ ReaderInv /\ wpc[p] = "finish"
      /\ cpartition[p] \in Consumers
      /\ UNCHANGED <<taken, chunk, rpc, nread>>
    BY DEF RepartitionInv, FinishWriter, TypeInv
<1>1. PICK c0 \in Consumers :
            /\ c0 = cpartition[p]
            /\ file' = [file EXCEPT ![p][c0] = Finished(@, c0)]
    BY <1>0 DEF FinishWriter
<1>2. NextConsumer(p, "done")
    BY DEF FinishWriter
<1>3. /\ wpc' \in [Producers -> {"next", "write", "finish", "done"}]
      /\ cpartition' \in [Producers -> Consumers]
      /\ \A q \in Producers \ {p} : wpc'[q] = wpc[q] /\ cpartition'[q] = cpartition[q]
      /\ wpc'[p] \in {"finish", "done"}
    BY <1>0, <1>1, <1>2, NextConsumerFacts
<1>4. /\ file[p][c0] \in Files /\ Finished(file[p][c0], c0) \in Files
      /\ Finished(file[p][c0], c0).batches = file[p][c0].batches
      /\ Finished(file[p][c0], c0).state = "none" <=> file[p][c0].state = "none"
    BY <1>0, FileFacts DEF Finished, Files
<1>5. file' \in [Producers -> [Consumers -> Files]]
    BY <1>0, <1>1, <1>4 DEF TypeInv
<1>6. TypeInv'
    BY <1>0, <1>3, <1>5 DEF TypeInv
<1>7. \A q \in Producers, c \in Consumers :
            /\ file'[q][c].batches = file[q][c].batches
            /\ file'[q][c].state = "none" <=> file[q][c].state = "none"
    BY <1>0, <1>1, <1>4 DEF TypeInv
<1>8. \A q \in Producers, c \in Consumers : Unwritten(q, c)' = Unwritten(q, c)
    <2> SUFFICES ASSUME NEW q \in Producers, NEW c \in Consumers PROVE Unwritten(q, c)' = Unwritten(q, c)
        OBVIOUS
    <2>1. CASE q = p
        BY <1>0, <1>3, <2>1 DEF Unwritten
    <2>2. CASE q # p
        BY <1>0, <1>3, <2>2 DEF Unwritten
    <2> QED
        BY <2>1, <2>2
<1>9. WriterInv'
    <2> SUFFICES ASSUME NEW q \in Producers, NEW c \in Consumers
                 PROVE  /\ file'[q][c].state = "none" <=> file'[q][c].batches = << >>
                        /\ FlattenSeq(file'[q][c].batches) \o Unwritten(q, c)' = FilterPartition(taken'[q], c)
        BY DEF WriterInv
    <2>1. /\ file[q][c].state = "none" <=> file[q][c].batches = << >>
          /\ FlattenSeq(file[q][c].batches) \o Unwritten(q, c) = FilterPartition(taken[q], c)
          /\ taken'[q] = taken[q]
        BY <1>0 DEF WriterInv
    <2> QED
        BY <1>7, <1>8, <2>1
<1>10. ReaderInv'
    BY <1>0, ReaderInvKept
<1> QED
    BY <1>6, <1>9, <1>10 DEF RepartitionInv

\* Readers leave the writers alone.
LEMMA WriterInvKept ==
    ASSUME RepartitionInv, UNCHANGED wvars
    PROVE  WriterInv'
<1>1. \A q \in Producers, c \in Consumers : Unwritten(q, c)' = Unwritten(q, c)
    BY DEF wvars, Unwritten
<1> QED
    BY <1>1 DEF RepartitionInv, WriterInv, wvars

LEMMA OpenInv ==
    ASSUME RepartitionInv, NEW c \in Consumers, Open(c)
    PROVE  RepartitionInv'
<1>0. TypeInv /\ WriterInv /\ ReaderInv /\ ProducersDone /\ UNCHANGED wvars
    BY DEF RepartitionInv, Open
<1> DEFINE listed == [p \in {q \in Producers : file[q][c].state # "none"} |-> 0]
<1>1. listed \in UNION {[D -> Nat] : D \in SUBSET Producers}
    <2>1. listed \in [{q \in Producers : file[q][c].state # "none"} -> Nat]
        OBVIOUS
    <2> QED
        BY <2>1
<1>2. nread' = [nread EXCEPT ![c] = listed] /\ rpc' = [rpc EXCEPT ![c] = "reading"]
    BY DEF Open
<1>3. /\ DOMAIN listed = {q \in Producers : file[q][c].state # "none"}
      /\ \A p \in DOMAIN listed : listed[p] \in 0 .. Len(file[p][c].batches)
    BY <1>0, FileFacts
<1> HIDE DEF listed
<1>4. TypeInv'
    BY <1>0, <1>1, <1>2 DEF TypeInv, wvars
<1>5. ReaderInv'
    <2> SUFFICES ASSUME NEW d \in Consumers
                 PROVE  IF rpc'[d] = "new"
                        THEN DOMAIN nread'[d] = {}
                        ELSE /\ ProducersDone'
                             /\ DOMAIN nread'[d] = {p \in Producers : file'[p][d].state # "none"}
                             /\ \A p \in DOMAIN nread'[d] : nread'[d][p] \in 0 .. Len(file'[p][d].batches)
        BY DEF ReaderInv
    <2>1. ProducersDone'
        BY <1>0 DEF ProducersDone, wvars
    <2>2. file' = file
        BY <1>0 DEF wvars
    <2>3. CASE d = c
        BY <1>0, <1>2, <1>3, <2>1, <2>2, <2>3 DEF TypeInv
    <2>4. CASE d # c
        BY <1>0, <1>2, <2>1, <2>2, <2>4 DEF TypeInv, ReaderInv
    <2> QED
        BY <2>3, <2>4
<1> QED
    BY <1>0, <1>4, <1>5, WriterInvKept DEF RepartitionInv

LEMMA ReadBatchInv ==
    ASSUME RepartitionInv, NEW c \in Consumers, ReadBatch(c)
    PROVE  RepartitionInv'
<1>0. /\ TypeInv /\ WriterInv /\ ReaderInv /\ UNCHANGED wvars /\ rpc[c] = "reading"
    BY DEF RepartitionInv, ReadBatch
<1>1. PICK p \in DOMAIN nread[c] :
            /\ ~FileRead(c, p)
            /\ \/ nread' = [nread EXCEPT ![c][p] = @ + 1] /\ UNCHANGED rpc
               \/ rpc' = [rpc EXCEPT ![c] = "panicked"] /\ UNCHANGED nread
    BY DEF ReadBatch
<1>2. /\ ProducersDone
      /\ DOMAIN nread[c] = {q \in Producers : file[q][c].state # "none"}
      /\ \A q \in DOMAIN nread[c] : nread[c][q] \in 0 .. Len(file[q][c].batches)
    BY <1>0 DEF ReaderInv
<1>3. p \in Producers /\ Len(file[p][c].batches) \in Nat /\ nread[c][p] + 1 \in 0 .. Len(file[p][c].batches)
    BY <1>0, <1>1, <1>2, FileFacts DEF FileRead
<1>4. \/ /\ nread' = nread
         /\ rpc' \in [Consumers -> {"new", "reading", "done", "panicked"}]
      \/ /\ rpc' = rpc
         /\ nread' \in [Consumers -> UNION {[D -> Nat] : D \in SUBSET Producers}]
    <2>1. CASE nread' = [nread EXCEPT ![c][p] = @ + 1] /\ UNCHANGED rpc
        <3>1. PICK D \in SUBSET Producers : nread[c] \in [D -> Nat]
            BY <1>0 DEF TypeInv
        <3>2. [nread[c] EXCEPT ![p] = @ + 1] \in [D -> Nat]
            BY <1>1, <3>1
        <3>3. nread' = [nread EXCEPT ![c] = [nread[c] EXCEPT ![p] = @ + 1]]
            BY <1>0, <2>1 DEF TypeInv
        <3> QED
            BY <1>0, <2>1, <3>2, <3>3 DEF TypeInv
    <2>2. CASE rpc' = [rpc EXCEPT ![c] = "panicked"] /\ UNCHANGED nread
        BY <1>0, <2>2 DEF TypeInv
    <2> QED
        BY <1>1, <2>1, <2>2
<1>5. TypeInv'
    BY <1>0, <1>4 DEF TypeInv, wvars
<1>6. ReaderInv'
    <2> SUFFICES ASSUME NEW d \in Consumers
                 PROVE  IF rpc'[d] = "new"
                        THEN DOMAIN nread'[d] = {}
                        ELSE /\ ProducersDone'
                             /\ DOMAIN nread'[d] = {q \in Producers : file'[q][d].state # "none"}
                             /\ \A q \in DOMAIN nread'[d] : nread'[d][q] \in 0 .. Len(file'[q][d].batches)
        BY DEF ReaderInv
    <2>1. ProducersDone' /\ file' = file
        BY <1>0, <1>2 DEF ProducersDone, wvars
    <2>2. rpc'[d] = "new" <=> rpc[d] = "new"
        BY <1>0, <1>1 DEF TypeInv
    <2>3. DOMAIN nread'[d] = DOMAIN nread[d]
        <3>1. CASE nread' = [nread EXCEPT ![c][p] = @ + 1]
            <4>1. nread' = [nread EXCEPT ![c] = [nread[c] EXCEPT ![p] = @ + 1]]
                BY <3>1
            <4>2. nread'[c] = [nread[c] EXCEPT ![p] = @ + 1] /\ (d # c => nread'[d] = nread[d])
                BY <1>0, <4>1 DEF TypeInv
            <4> QED
                BY <4>2
        <3>2. CASE nread' = nread
            BY <3>2
        <3> QED
            BY <1>1, <3>1, <3>2
    <2>4. CASE d = c
        <3>1. \A q \in DOMAIN nread'[c] : nread'[c][q] = nread[c][q] \/ (q = p /\ nread'[c][q] = nread[c][p] + 1)
            BY <1>0, <1>1 DEF TypeInv
        <3> QED
            BY <1>0, <1>2, <1>3, <2>1, <2>2, <2>3, <2>4, <3>1
    <2>5. CASE d # c
        <3>1. nread'[d] = nread[d]
            BY <1>0, <1>1, <2>5 DEF TypeInv
        <3> QED
            BY <1>0, <2>1, <2>2, <3>1 DEF ReaderInv
    <2> QED
        BY <2>4, <2>5
<1> QED
    BY <1>0, <1>5, <1>6, WriterInvKept DEF RepartitionInv

LEMMA EndReadInv ==
    ASSUME RepartitionInv, NEW c \in Consumers, EndRead(c)
    PROVE  RepartitionInv'
<1>0. TypeInv /\ WriterInv /\ ReaderInv /\ UNCHANGED wvars /\ UNCHANGED nread
    BY DEF RepartitionInv, EndRead, wvars
<1>1. TypeInv'
    BY <1>0 DEF TypeInv, wvars, EndRead
<1>2. ReaderInv'
    <2>1. \A d \in Consumers : rpc'[d] = "new" <=> rpc[d] = "new"
        BY <1>0 DEF TypeInv, EndRead
    <2>2. ProducersDone' <=> ProducersDone
        BY <1>0 DEF ProducersDone, wvars
    <2> QED
        BY <1>0, <2>1, <2>2 DEF ReaderInv, wvars
<1> QED
    BY <1>0, <1>1, <1>2, WriterInvKept DEF RepartitionInv

LEMMA StutterInv ==
    ASSUME RepartitionInv, UNCHANGED vars
    PROVE  RepartitionInv'
<1>1. TypeInv'
    BY DEF RepartitionInv, TypeInv, vars
<1>2. WriterInv'
    BY WriterInvKept DEF wvars, vars
<1>3. ReaderInv'
    <2>1. ProducersDone' <=> ProducersDone
        BY DEF ProducersDone, vars
    <2> QED
        BY <2>1 DEF RepartitionInv, ReaderInv, vars
<1> QED
    BY <1>1, <1>2, <1>3 DEF RepartitionInv

LEMMA NextInv == RepartitionInv /\ [Next]_vars => RepartitionInv'
<1> SUFFICES ASSUME RepartitionInv, [Next]_vars PROVE RepartitionInv'
    OBVIOUS
<1>1. CASE \E p \in Producers : Write(p)
    BY <1>1, NextChunkInv, WritePartitionInv, EndOfInputInv, FinishWriterInv DEF Write
<1>2. CASE \E c \in Consumers : Read(c)
    BY <1>2, OpenInv, ReadBatchInv, EndReadInv DEF Read
<1>3. CASE Terminated \/ UNCHANGED vars
    BY <1>3, StutterInv DEF Terminated
<1> QED
    BY <1>1, <1>2, <1>3 DEF Next

\* Every file has all the rows of its consumer that its producer has written, in
\* order, and a reader knows of every file.
THEOREM FilesComplete == Spec => []RepartitionInv
<1>1. Init => RepartitionInv
    BY InitInv
<1>2. RepartitionInv /\ [Next]_vars => RepartitionInv'
    BY NextInv
<1> QED
    BY <1>1, <1>2, PTL DEF Spec

-----------------------------------------------------------------------------
(* The refinement. *)

\* What is written for a consumer when nothing is left to write is its share.
LEMMA WholeShare ==
    ASSUME RepartitionInv, NEW p \in Producers, NEW c \in Consumers, wpc[p] # "write"
    PROVE  exchange!Share(c, p) = FlattenSeq(file[p][c].batches)
<1>1. TypeInv /\ WriterInv
    BY DEF RepartitionInv
<1>2. Unwritten(p, c) = << >>
    BY DEF Unwritten
<1>3. FlattenSeq(file[p][c].batches) \o << >> = FilterPartition(taken[p], c)
    BY <1>1, <1>2 DEF WriterInv
<1>4. FlattenSeq(file[p][c].batches) \o << >> = FlattenSeq(file[p][c].batches)
    BY <1>1, FileFacts, ConcatNothing
<1> QED
    BY <1>1, <1>3, <1>4, ShareIs

LEMMA InitRefines == Init => exchange!Init
<1> SUFFICES ASSUME Init PROVE exchange!Init
    OBVIOUS
<1>1. {p \in Producers : wpc[p] = "done"} = {}
    BY DEF Init
<1>2. {c \in Consumers : rpc[c] = "done"} = {}
    BY DEF Init
<1>3. \A c \in Consumers, p \in Producers : RowsRead(c, p) = << >>
    BY DEF Init, RowsRead
<1> QED
    BY <1>1, <1>2, <1>3 DEF Init, exchange!Init

\* A producer at work reaches no reader.
LEMMA NothingIsRead ==
    ASSUME RepartitionInv, NEW p \in Producers, wpc[p] # "done", UNCHANGED <<rpc, nread>>
    PROVE  /\ [c \in Consumers |-> [q \in Producers |-> RowsRead(c, q)]]'
                = [c \in Consumers |-> [q \in Producers |-> RowsRead(c, q)]]
           /\ {c \in Consumers : rpc[c] = "done"}' = {c \in Consumers : rpc[c] = "done"}
<1>1. \A c \in Consumers : DOMAIN nread[c] = {}
    BY ReadersWait DEF RepartitionInv
<1>2. \A c \in Consumers, q \in Producers : RowsRead(c, q) = << >> /\ RowsRead(c, q)' = << >>
    BY <1>1 DEF RowsRead
<1> QED
    BY <1>2

LEMMA NextChunkRefines ==
    ASSUME RepartitionInv, NEW p \in Producers, NextChunk(p)
    PROVE  exchange!Send(p)
<1>0. TypeInv /\ wpc[p] = "next" /\ UNCHANGED <<rpc, nread>>
    BY DEF RepartitionInv, NextChunk
<1>1. PICK k \in Chunks : taken' = [taken EXCEPT ![p] = @ \o k]
    BY DEF NextChunk
<1>2. PICK n \in 1 .. 2, h \in [1 .. 2 -> Rows] : k = SubSeq(h, 1, n)
    BY ChunkFacts
<1>3. {q \in Producers : wpc[q] = "done"}' = {q \in Producers : wpc[q] = "done"}
    BY <1>0 DEF NextChunk, TypeInv
<1>4. p \notin {q \in Producers : wpc[q] = "done"}
    BY <1>0
<1>5. taken' = [taken EXCEPT ![p] = @ \o SubSeq(h, 1, n)]
    BY <1>1, <1>2
<1>6. /\ [c \in Consumers |-> [q \in Producers |-> RowsRead(c, q)]]'
            = [c \in Consumers |-> [q \in Producers |-> RowsRead(c, q)]]
      /\ {c \in Consumers : rpc[c] = "done"}' = {c \in Consumers : rpc[c] = "done"}
    BY <1>0, NothingIsRead
<1> QED
    BY <1>3, <1>4, <1>5, <1>6 DEF exchange!Send

\* Cutting and writing is the producer's own affair.
LEMMA WritePartitionRefines ==
    ASSUME RepartitionInv, NEW p \in Producers, WritePartition(p) \/ EndOfInput(p)
    PROVE  UNCHANGED exchange!vars
<1>0. TypeInv /\ wpc[p] \in {"write", "next"} /\ UNCHANGED <<taken, rpc, nread>>
    BY DEF RepartitionInv, WritePartition, EndOfInput
<1>1. \A q \in Producers : wpc'[q] = "done" <=> wpc[q] = "done"
    <2>1. CASE WritePartition(p)
        <3>1. NextConsumer(p, "next") /\ wpc[p] = "write"
            BY <2>1 DEF WritePartition
        <3>2. wpc'[p] \in {"write", "next"} /\ \A q \in Producers \ {p} : wpc'[q] = wpc[q]
            BY <1>0, <3>1, NextConsumerFacts
        <3> QED
            BY <3>1, <3>2
    <2>2. CASE EndOfInput(p)
        BY <1>0, <2>2 DEF EndOfInput, TypeInv
    <2> QED
        BY <2>1, <2>2
<1>2. {q \in Producers : wpc[q] = "done"}' = {q \in Producers : wpc[q] = "done"}
    BY <1>1
<1>3. /\ [c \in Consumers |-> [q \in Producers |-> RowsRead(c, q)]]'
            = [c \in Consumers |-> [q \in Producers |-> RowsRead(c, q)]]
      /\ {c \in Consumers : rpc[c] = "done"}' = {c \in Consumers : rpc[c] = "done"}
    BY <1>0, NothingIsRead
<1> QED
    BY <1>0, <1>2, <1>3 DEF exchange!vars

\* The last file that is whole closes the producer.
LEMMA FinishWriterRefines ==
    ASSUME RepartitionInv, NEW p \in Producers, FinishWriter(p)
    PROVE  exchange!Close(p) \/ UNCHANGED exchange!vars
<1>0. TypeInv /\ wpc[p] = "finish" /\ UNCHANGED <<taken, rpc, nread>>
    BY DEF RepartitionInv, FinishWriter
<1>1. /\ wpc'[p] \in {"finish", "done"}
      /\ \A q \in Producers \ {p} : wpc'[q] = wpc[q]
    BY <1>0, NextConsumerFacts DEF FinishWriter
<1>2. /\ [c \in Consumers |-> [q \in Producers |-> RowsRead(c, q)]]'
            = [c \in Consumers |-> [q \in Producers |-> RowsRead(c, q)]]
      /\ {c \in Consumers : rpc[c] = "done"}' = {c \in Consumers : rpc[c] = "done"}
    BY <1>0, NothingIsRead
<1>3. CASE wpc'[p] = "done"
    <2>1. {q \in Producers : wpc[q] = "done"}' = {q \in Producers : wpc[q] = "done"} \union {p}
        BY <1>1, <1>3
    <2> QED
        BY <1>0, <1>2, <2>1 DEF exchange!Close
<1>4. CASE wpc'[p] = "finish"
    <2>1. {q \in Producers : wpc[q] = "done"}' = {q \in Producers : wpc[q] = "done"}
        BY <1>0, <1>1, <1>4
    <2> QED
        BY <1>0, <1>2, <2>1 DEF exchange!vars
<1> QED
    BY <1>1, <1>3, <1>4

\* A reader that lists the files has read none of them.
LEMMA OpenRefines ==
    ASSUME RepartitionInv, NEW c \in Consumers, Open(c)
    PROVE  UNCHANGED exchange!vars
<1>0. TypeInv /\ ReaderInv /\ UNCHANGED wvars /\ rpc[c] = "new" /\ rpc' = [rpc EXCEPT ![c] = "reading"]
    BY DEF RepartitionInv, Open
<1>1. PICK listed : /\ listed = [p \in {q \in Producers : file[q][c].state # "none"} |-> 0]
                    /\ nread' = [nread EXCEPT ![c] = listed]
    BY DEF Open
<1>2. \A d \in Consumers, p \in Producers : RowsRead(d, p)' = RowsRead(d, p)
    <2> SUFFICES ASSUME NEW d \in Consumers, NEW p \in Producers PROVE RowsRead(d, p)' = RowsRead(d, p)
        OBVIOUS
    <2>1. file' = file
        BY <1>0 DEF wvars
    <2>2. CASE d = c
        <3>1. RowsRead(d, p) = << >>
            BY <1>0, <2>2 DEF ReaderInv, RowsRead
        <3>2. nread'[c] = listed
            BY <1>0, <1>1 DEF TypeInv
        <3>3. CASE p \in DOMAIN listed
            <4>1. listed[p] = 0
                BY <1>1, <3>3
            <4>2. RowsRead(d, p)' = FlattenSeq(SubSeq(file'[p][d].batches, 1, 0))
                BY <2>2, <3>2, <3>3, <4>1 DEF RowsRead
            <4> QED
                BY <3>1, <4>2, NoneRead
        <3>4. CASE p \notin DOMAIN listed
            BY <2>2, <3>1, <3>2, <3>4 DEF RowsRead
        <3> QED
            BY <3>3, <3>4
    <2>3. CASE d # c
        BY <1>0, <1>1, <2>1, <2>3 DEF TypeInv, RowsRead
    <2> QED
        BY <2>2, <2>3
<1>3. [d \in Consumers |-> [q \in Producers |-> RowsRead(d, q)]]'
            = [d \in Consumers |-> [q \in Producers |-> RowsRead(d, q)]]
    BY <1>2
<1>4. {d \in Consumers : rpc[d] = "done"}' = {d \in Consumers : rpc[d] = "done"}
    BY <1>0 DEF TypeInv
<1>5. {q \in Producers : wpc[q] = "done"}' = {q \in Producers : wpc[q] = "done"} /\ taken' = taken
    BY <1>0 DEF wvars
<1> QED
    BY <1>3, <1>4, <1>5 DEF exchange!vars

\* The next batch is the next part of the share.
LEMMA ReadBatchRefines ==
    ASSUME RepartitionInv, NEW c \in Consumers, ReadBatch(c)
    PROVE  (\E p \in Producers : exchange!Receive(c, p)) \/ UNCHANGED exchange!vars
<1>0. /\ TypeInv /\ ReaderInv /\ UNCHANGED wvars /\ rpc[c] = "reading" /\ file' = file /\ taken' = taken
    BY DEF RepartitionInv, ReadBatch, wvars
<1>1. PICK p \in DOMAIN nread[c] :
            /\ ~FileRead(c, p)
            /\ \/ nread' = [nread EXCEPT ![c][p] = @ + 1] /\ UNCHANGED rpc
               \/ rpc' = [rpc EXCEPT ![c] = "panicked"] /\ UNCHANGED nread
    BY DEF ReadBatch
<1>2. {q \in Producers : wpc[q] = "done"}' = {q \in Producers : wpc[q] = "done"}
    BY <1>0 DEF wvars
<1>3. {d \in Consumers : rpc[d] = "done"}' = {d \in Consumers : rpc[d] = "done"}
    BY <1>0, <1>1 DEF TypeInv
<1>4. CASE nread' = nread
    <2>1. \A d \in Consumers, q \in Producers : RowsRead(d, q)' = RowsRead(d, q)
        BY <1>0, <1>4 DEF RowsRead
    <2>2. [d \in Consumers |-> [q \in Producers |-> RowsRead(d, q)]]'
            = [d \in Consumers |-> [q \in Producers |-> RowsRead(d, q)]]
        BY <2>1
    <2> QED
        BY <1>0, <1>2, <1>3, <2>2 DEF exchange!vars
<1>5. CASE nread' = [nread EXCEPT ![c][p] = @ + 1]
    <2>1. /\ p \in Producers /\ ProducersDone
          /\ nread[c][p] \in 0 .. Len(file[p][c].batches)
        BY <1>0, <1>1 DEF ReaderInv
    <2>2. PICK b, k : b = file[p][c].batches /\ k = nread[c][p]
        OBVIOUS
    <2>3. b \in Seq(Seq(Rows)) /\ Len(b) \in Nat
        BY <1>0, <2>1, <2>2, FileFacts
    <2>4. k \in 0 .. Len(b) /\ k + 1 \in 0 .. Len(b) /\ k + 1 \in k .. Len(b)
        BY <1>1, <2>1, <2>2, <2>3 DEF FileRead
    <2>5. PICK u, w : u = FlattenSeq(SubSeq(b, 1, k)) /\ w = FlattenSeq(SubSeq(b, 1, k + 1))
        OBVIOUS
    <2>6. exchange!Share(c, p) = FlattenSeq(b) /\ Len(FlattenSeq(b)) \in Nat
        <3>1. wpc[p] # "write"
            BY <2>1 DEF ProducersDone
        <3>2. FlattenSeq(b) \in Seq(Rows)
            BY <2>3, FlattenType
        <3> QED
            BY <2>1, <2>2, <3>1, <3>2, WholeShare, LenProperties
    <2>7. w \in Seq(Rows) /\ Len(w) \in Nat /\ Len(w) <= Len(FlattenSeq(b)) /\ SubSeq(FlattenSeq(b), 1, Len(w)) = w
        <3>1. /\ w \in Seq(Rows) /\ Len(w) <= Len(FlattenSeq(b))
              /\ SubSeq(FlattenSeq(b), 1, Len(w)) = w
            BY <2>3, <2>4, <2>5, FlattenPrefix
        <3> QED
            BY <3>1, LenProperties
    <2>8. u \in Seq(Rows) /\ Len(u) \in Nat /\ Len(u) <= Len(w)
        <3>1. u \in Seq(Rows)
            BY <2>3, <2>4, <2>5, FlattenPrefix
        <3>2. Len(u) <= Len(w)
            BY <2>3, <2>4, <2>5, FlattenMonotone
        <3> QED
            BY <3>1, <3>2, LenProperties
    <2>9. RowsRead(c, p) = u
        BY <2>2, <2>5 DEF RowsRead
    <2>10. nread' = [nread EXCEPT ![c] = [nread[c] EXCEPT ![p] = @ + 1]]
        BY <1>5
    <2>11. /\ nread'[c] = [nread[c] EXCEPT ![p] = @ + 1]
           /\ \A d \in Consumers \ {c} : nread'[d] = nread[d]
        BY <1>0, <2>10 DEF TypeInv
    <2>12. /\ DOMAIN nread'[c] = DOMAIN nread[c] /\ nread'[c][p] = k + 1
           /\ \A q \in DOMAIN nread[c] \ {p} : nread'[c][q] = nread[c][q]
        <3>1. PICK D \in SUBSET Producers : nread[c] \in [D -> Nat]
            BY <1>0 DEF TypeInv
        <3> QED
            BY <1>1, <2>2, <2>11, <3>1
    <2>13. RowsRead(c, p)' = w
        BY <1>0, <1>1, <2>2, <2>5, <2>12 DEF RowsRead
    <2>14. \A d \in Consumers, q \in Producers : d # c \/ q # p => RowsRead(d, q)' = RowsRead(d, q)
        BY <1>0, <2>11, <2>12 DEF RowsRead
    <2>15. PICK r, rr : /\ r = [d \in Consumers |-> [q \in Producers |-> RowsRead(d, q)]]
                        /\ rr = [d \in Consumers |-> [q \in Producers |-> RowsRead(d, q)]]'
        OBVIOUS
    <2>16. rr = [r EXCEPT ![c][p] = w] /\ r[c][p] = u
        <3>1. r[c][p] = u
            BY <2>1, <2>9, <2>15
        <3>2. rr = [r EXCEPT ![c][p] = w]
            BY <2>1, <2>13, <2>14, <2>15
        <3> QED
            BY <3>1, <3>2
    <2>17. /\ Len(w) \in Len(r[c][p]) .. Len(exchange!Share(c, p))
           /\ rr = [r EXCEPT ![c][p] = SubSeq(exchange!Share(c, p), 1, Len(w))]
        <3>1. PICK h : h = exchange!Share(c, p)
            OBVIOUS
        <3>2. Len(h) \in Nat /\ Len(w) <= Len(h) /\ SubSeq(h, 1, Len(w)) = w
            BY <2>6, <2>7, <3>1
        <3>3. Len(w) \in Len(u) .. Len(h)
            BY <2>7, <2>8, <3>2
        <3>4. Len(w) \in Len(r[c][p]) .. Len(h) /\ rr = [r EXCEPT ![c][p] = SubSeq(h, 1, Len(w))]
            BY <2>16, <3>2, <3>3
        <3> QED
            BY <3>1, <3>4
    <2>18. {q \in Producers : wpc[q] = "done"} = Producers
        BY <2>1 DEF ProducersDone
    <2>19. c \notin {d \in Consumers : rpc[d] = "done"}
        BY <1>0
    <2>20. exchange!Receive(c, p)
        BY <1>0, <1>2, <1>3, <2>15, <2>17, <2>18, <2>19 DEF exchange!Receive
    <2> QED
        BY <2>1, <2>20
<1> QED
    BY <1>1, <1>4, <1>5

\* Whoever has read every file has every share: where there is no file, it is empty.
LEMMA EndReadRefines ==
    ASSUME RepartitionInv, NEW c \in Consumers, EndRead(c)
    PROVE  exchange!End(c)
<1>0. /\ TypeInv /\ WriterInv /\ ReaderInv /\ UNCHANGED <<taken, file, nread, wpc>>
      /\ rpc[c] = "reading" /\ rpc' = [rpc EXCEPT ![c] = "done"]
      /\ \A p \in DOMAIN nread[c] : FileRead(c, p)
    BY DEF RepartitionInv, EndRead
<1>1. ProducersDone /\ DOMAIN nread[c] = {p \in Producers : file[p][c].state # "none"}
    BY <1>0 DEF ReaderInv
<1>2. \A p \in Producers : RowsRead(c, p) = exchange!Share(c, p)
    <2> SUFFICES ASSUME NEW p \in Producers PROVE RowsRead(c, p) = exchange!Share(c, p)
        OBVIOUS
    <2>1. exchange!Share(c, p) = FlattenSeq(file[p][c].batches) /\ file[p][c].batches \in Seq(Seq(Rows))
        BY <1>0, <1>1, WholeShare, FileFacts DEF ProducersDone
    <2>2. CASE p \in DOMAIN nread[c]
        <3>1. RowsRead(c, p) = FlattenSeq(SubSeq(file[p][c].batches, 1, Len(file[p][c].batches)))
            BY <1>0, <2>2 DEF RowsRead, FileRead
        <3> QED
            BY <2>1, <3>1, SubSeqFull
    <2>3. CASE p \notin DOMAIN nread[c]
        <3>1. file[p][c].batches = << >>
            BY <1>0, <1>1, <2>3 DEF WriterInv
        <3> QED
            BY <2>1, <2>3, <3>1, FlattenEmpty DEF RowsRead
    <2> QED
        BY <2>2, <2>3
<1>3. \A d \in Consumers, q \in Producers : RowsRead(d, q)' = RowsRead(d, q)
    BY <1>0 DEF RowsRead
<1>4. [d \in Consumers |-> [q \in Producers |-> RowsRead(d, q)]]'
            = [d \in Consumers |-> [q \in Producers |-> RowsRead(d, q)]]
    BY <1>3
<1>5. {d \in Consumers : rpc[d] = "done"}' = {d \in Consumers : rpc[d] = "done"} \union {c}
    BY <1>0 DEF TypeInv
<1>6. {q \in Producers : wpc[q] = "done"}' = {q \in Producers : wpc[q] = "done"}
    BY <1>0
<1>7. {q \in Producers : wpc[q] = "done"} = Producers
    BY <1>1 DEF ProducersDone
<1> QED
    BY <1>0, <1>2, <1>4, <1>5, <1>6, <1>7 DEF exchange!End

LEMMA StutterRefines == ASSUME UNCHANGED vars PROVE UNCHANGED exchange!vars
<1>1. \A d \in Consumers, q \in Producers : RowsRead(d, q)' = RowsRead(d, q)
    BY DEF vars, RowsRead
<1>2. [d \in Consumers |-> [q \in Producers |-> RowsRead(d, q)]]'
            = [d \in Consumers |-> [q \in Producers |-> RowsRead(d, q)]]
    BY <1>1
<1>3. /\ {d \in Consumers : rpc[d] = "done"}' = {d \in Consumers : rpc[d] = "done"}
      /\ {q \in Producers : wpc[q] = "done"}' = {q \in Producers : wpc[q] = "done"}
      /\ taken' = taken
    BY DEF vars
<1> QED
    BY <1>2, <1>3 DEF exchange!vars

LEMMA NextRefines == RepartitionInv /\ [Next]_vars => [exchange!Next]_exchange!vars
<1> SUFFICES ASSUME RepartitionInv, [Next]_vars PROVE exchange!Next \/ UNCHANGED exchange!vars
    OBVIOUS
<1>1. ASSUME NEW p \in Producers, Write(p) PROVE exchange!Next \/ UNCHANGED exchange!vars
    BY <1>1, NextChunkRefines, WritePartitionRefines, FinishWriterRefines DEF Write, exchange!Next
<1>2. ASSUME NEW c \in Consumers, Read(c) PROVE exchange!Next \/ UNCHANGED exchange!vars
    BY <1>2, OpenRefines, ReadBatchRefines, EndReadRefines DEF Read, exchange!Next
<1>3. CASE Terminated \/ UNCHANGED vars
    BY <1>3, StutterRefines DEF Terminated
<1> QED
    BY <1>1, <1>2, <1>3 DEF Next

\* The files between two stages lose, repeat and reorder no row, and none goes to
\* another consumer than its own (RepartitionWriteContext, RepartitionReadContext).
THEOREM FilesAreAnExchange == Spec => ImplementsExchange
<1>1. Init => exchange!Init
    BY InitRefines
<1>2. RepartitionInv /\ [Next]_vars => [exchange!Next]_exchange!vars
    BY NextRefines
<1>3. Spec => []RepartitionInv
    BY FilesComplete
<1> QED
    BY <1>1, <1>2, <1>3, PTL DEF Spec, ImplementsExchange, exchange!Spec

-----------------------------------------------------------------------------
(* Whole files. *)

\* A file is without its metadata until its producer has finished it.
OpenAtWork ==
    \A p \in Producers, c \in Consumers :
        file[p][c].state = "open" =>
            wpc[p] \in {"next", "write"} \/ (wpc[p] = "finish" /\ cpartition[p] <= c)

NoPanic == \A c \in Consumers : rpc[c] # "panicked"

WholeInv == OpenAtWork /\ NoPanic

LEMMA FinishWriterWhole ==
    ASSUME RepartitionInv, OpenAtWork, NEW p \in Producers, FinishWriter(p)
    PROVE  OpenAtWork'
<1>0. /\ TypeInv /\ wpc[p] = "finish" /\ cpartition[p] \in Consumers
    BY DEF RepartitionInv, TypeInv, FinishWriter
<1>1. PICK c0 \in Consumers : c0 = cpartition[p] /\ file' = [file EXCEPT ![p][c0] = Finished(@, c0)]
    BY <1>0 DEF FinishWriter
<1>2. /\ \A q \in Producers \ {p} : wpc'[q] = wpc[q] /\ cpartition'[q] = cpartition[q]
      /\ \/ wpc'[p] = "finish" /\ cpartition'[p] = c0 + 1
         \/ wpc'[p] = "done" /\ c0 = cpartitions - 1
    BY <1>0, <1>1, NextConsumerFacts DEF FinishWriter
<1> SUFFICES ASSUME NEW q \in Producers, NEW c \in Consumers, file'[q][c].state = "open"
             PROVE  wpc'[q] \in {"next", "write"} \/ (wpc'[q] = "finish" /\ cpartition'[q] <= c)
    BY DEF OpenAtWork
<1>3. CASE q # p
    <2>1. file'[q][c] = file[q][c]
        BY <1>0, <1>1, <1>3 DEF TypeInv
    <2> QED
        BY <1>2, <1>3, <2>1 DEF OpenAtWork
<1>4. CASE q = p /\ c = c0
    <2>1. file'[q][c] = Finished(file[q][c], c)
        BY <1>0, <1>1, <1>4 DEF TypeInv
    <2>2. file[q][c] \in Files
        BY <1>0, FileFacts
    <2> QED
        BY <2>1, <2>2 DEF Finished, Files
<1>5. CASE q = p /\ c # c0
    <2>1. file'[q][c] = file[q][c]
        BY <1>0, <1>1, <1>5 DEF TypeInv
    <2>2. c0 <= c
        BY <1>0, <1>1, <1>5, <2>1 DEF OpenAtWork
    <2>3. c0 + 1 <= c /\ c0 # cpartitions - 1
        BY <1>5, <2>2, SizesAssumption DEF Consumers
    <2> QED
        BY <1>2, <1>5, <2>3
<1> QED
    BY <1>3, <1>4, <1>5

LEMMA WritePartitionWhole ==
    ASSUME RepartitionInv, OpenAtWork, NEW p \in Producers, WritePartition(p)
    PROVE  OpenAtWork'
<1>0. TypeInv /\ wpc[p] = "write" /\ NextConsumer(p, "next")
    BY DEF RepartitionInv, WritePartition
<1>1. /\ wpc'[p] \in {"next", "write"}
      /\ \A q \in Producers \ {p} : wpc'[q] = wpc[q] /\ cpartition'[q] = cpartition[q]
    BY <1>0, NextConsumerFacts
<1>2. \A q \in Producers \ {p} : file'[q] = file[q]
    BY <1>0 DEF TypeInv, WritePartition
<1> QED
    BY <1>1, <1>2 DEF OpenAtWork

LEMMA ReadBatchWhole ==
    ASSUME RepartitionInv, WholeInv, NEW c \in Consumers, ReadBatch(c)
    PROVE  NoPanic'
<1>0. TypeInv /\ ReaderInv /\ rpc[c] = "reading"
    BY DEF RepartitionInv, ReadBatch
<1>1. PICK p \in DOMAIN nread[c] :
        IF file[p][c].state = "whole"
        THEN nread' = [nread EXCEPT ![c][p] = @ + 1] /\ UNCHANGED rpc
        ELSE rpc' = [rpc EXCEPT ![c] = "panicked"] /\ UNCHANGED nread
    BY DEF ReadBatch
<1>2. p \in Producers /\ wpc[p] = "done" /\ file[p][c].state # "none"
    BY <1>0 DEF ReaderInv, ProducersDone
<1>3. file[p][c].state # "open"
    BY <1>2 DEF WholeInv, OpenAtWork
<1>4. file[p][c].state = "whole"
    BY <1>0, <1>2, <1>3, FileFacts DEF Files
<1> QED
    BY <1>1, <1>4 DEF WholeInv, NoPanic

LEMMA NextWhole == RepartitionInv /\ WholeInv /\ [Next]_vars => WholeInv'
<1> SUFFICES ASSUME RepartitionInv, WholeInv, [Next]_vars PROVE WholeInv'
    OBVIOUS
<1>0. TypeInv
    BY DEF RepartitionInv
<1>1. ASSUME NEW p \in Producers, Write(p) PROVE WholeInv'
    <2>1. UNCHANGED rpc
        BY <1>1 DEF Write, NextChunk, WritePartition, EndOfInput, FinishWriter
    <2>2. NoPanic'
        BY <2>1 DEF WholeInv, NoPanic
    <2>3. CASE NextChunk(p)
        BY <1>0, <2>2, <2>3 DEF WholeInv, OpenAtWork, NextChunk, TypeInv
    <2>4. CASE EndOfInput(p)
        <3>1. file' = file /\ wpc'[p] = "finish" /\ cpartition'[p] = 0
            BY <1>0, <2>4 DEF EndOfInput, TypeInv
        <3>2. \A q \in Producers \ {p} : wpc'[q] = wpc[q] /\ cpartition'[q] = cpartition[q]
            BY <1>0, <2>4 DEF EndOfInput, TypeInv
        <3>3. \A c \in Consumers : 0 <= c
            BY SizesAssumption DEF Consumers
        <3> QED
            BY <2>2, <3>1, <3>2, <3>3 DEF WholeInv, OpenAtWork
    <2> QED
        BY <1>1, <2>2, <2>3, <2>4, FinishWriterWhole, WritePartitionWhole DEF Write, WholeInv
<1>2. ASSUME NEW c \in Consumers, Read(c) PROVE WholeInv'
    <2>1. UNCHANGED wvars
        BY <1>2 DEF Read, Open, ReadBatch, EndRead, wvars
    <2>2. OpenAtWork'
        BY <2>1 DEF WholeInv, OpenAtWork, wvars
    <2>3. CASE Open(c) \/ EndRead(c)
        BY <1>0, <2>2, <2>3 DEF WholeInv, NoPanic, Open, EndRead, TypeInv
    <2> QED
        BY <1>2, <2>2, <2>3, ReadBatchWhole DEF Read, WholeInv
<1>3. CASE Terminated \/ UNCHANGED vars
    BY <1>3 DEF Terminated, vars, WholeInv, OpenAtWork, NoPanic
<1> QED
    BY <1>1, <1>2, <1>3 DEF Next

\* No reader meets a file without metadata: whoever reads a file at all reads one that
\* its producer has finished (the unwrap of next in RepartitionReadContext).
THEOREM NoReaderPanics == Spec => []NoPanic
<1>1. Init => WholeInv
    BY DEF Init, WholeInv, OpenAtWork, NoPanic, NoFile
<1>2. RepartitionInv /\ WholeInv /\ [Next]_vars => WholeInv'
    BY NextWhole
<1>3. WholeInv => NoPanic
    BY DEF WholeInv
<1> QED
    BY <1>1, <1>2, <1>3, FilesComplete, PTL DEF Spec
=============================================================================
