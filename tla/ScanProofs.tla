----------------------------- MODULE ScanProofs -----------------------------
(***************************************************************************)
(* Theorems about the two scans.                                           *)
(*                                                                         *)
(* CsvScan, for every set of files, any number of tasks and any chunk      *)
(* size: the pieces fit the tasks, and every record is returned exactly    *)
(* once.                                                                   *)
(*                                                                         *)
(* ParquetScan, for any number of row groups and of tasks: every row group *)
(* is returned, by one task and once, with its columns in the order of the *)
(* projection.                                                             *)
(***************************************************************************)
EXTENDS CsvScan, ParquetScan, DataInduction, WellFoundedInduction, FiniteSetTheorems, SequenceTheorems, TLAPS

-----------------------------------------------------------------------------
(* The scan of a CSV file. *)

LEMMA LessIsRelated == \A x, y \in Nat : x < y => <<x, y>> \in OpToRel(<, Nat)
BY DEF OpToRel

LEMMA Smallest ==
    ASSUME NEW T, T \subseteq Nat, T # {}
    PROVE  \E x \in T : \A y \in T : x <= y
<1>1. \E x \in T : \A y \in T : ~(<<y, x>> \in OpToRel(<, Nat))
    BY WFMin, NatLessThanWellFounded, Zenon
<1>2. PICK x \in T : \A y \in T : ~(<<y, x>> \in OpToRel(<, Nat))
    BY <1>1
<1>3. \A y \in T : ~(y < x)
    BY <1>2, LessIsRelated
<1> QED
    BY <1>3

\* The end of a line exists behind every byte of a file, and is the next one.
LEMMA LineEndFacts ==
    ASSUME file \in Files, NEW p \in Nat, p < file.size
    PROVE  /\ LineEnd(p) \in file.ends
           /\ LineEnd(p) \in p + 1 .. file.size
           /\ \A d \in file.ends : d > p => LineEnd(p) <= d
<1>1. IsFile(file)
    BY FilesAssumption
<1> DEFINE T == {e \in file.ends : e > p}
<1>2. T \subseteq Nat /\ T # {}
    BY <1>1 DEF IsFile
<1>3. PICK x \in T : \A y \in T : x <= y
    BY <1>2, Smallest
<1>4. \E e \in file.ends : e > p /\ \A d \in file.ends : d > p => e <= d
    BY <1>3
<1> QED
    BY <1>1, <1>4 DEF LineEnd, IsFile

Bounds == {0} \union file.ends

\* A record is determined by where it ends, and its end is behind its start.
LEMMA RecordsByEnd ==
    ASSUME file \in Files, NEW p \in Bounds, NEW q \in Bounds,
           p < file.size, q < file.size, LineEnd(p) = LineEnd(q)
    PROVE  p = q
<1>1. p \in Nat /\ q \in Nat
    BY FilesAssumption DEF IsFile, Bounds
<1>2. ASSUME p < q PROVE FALSE
    <2>1. q \in file.ends
        BY <1>1, <1>2 DEF Bounds
    <2>2. LineEnd(p) <= q /\ LineEnd(q) \in q + 1 .. file.size
        BY <1>1, <1>2, <2>1, LineEndFacts
    <2> QED
        BY <1>1, <2>2
<1>3. ASSUME q < p PROVE FALSE
    <2>1. p \in file.ends
        BY <1>1, <1>3 DEF Bounds
    <2>2. LineEnd(q) <= p /\ LineEnd(p) \in p + 1 .. file.size
        BY <1>1, <1>3, <2>1, LineEndFacts
    <2> QED
        BY <1>1, <2>2
<1> QED
    BY <1>1, <1>2, <1>3

\* The header, if there is one, ends where the first record behind it starts.
LEMMA DataStartFacts ==
    ASSUME file \in Files
    PROVE  DataStart \in Bounds /\ \A e \in file.ends : DataStart <= e
<1>1. IsFile(file)
    BY FilesAssumption
<1>2. CASE file.header /\ file.size > 0
    BY <1>1, <1>2, LineEndFacts DEF DataStart, Bounds, IsFile
<1>3. CASE ~(file.header /\ file.size > 0)
    BY <1>1, <1>3 DEF DataStart, Bounds, IsFile
<1> QED
    BY <1>2, <1>3

LEMMA ProductGrows ==
    ASSUME NEW k \in Nat, NEW n \in Nat, NEW c \in Nat, k >= n
    PROVE  k * c >= n * c
<1>1. k * c = n * c + (k - n) * c
    OBVIOUS
<1>2. (k - n) * c \in Nat
    OBVIOUS
<1> QED
    BY <1>1, <1>2

LEMMA DivMod ==
    ASSUME NEW a \in Nat, NEW b \in Nat, b > 0
    PROVE  a = b * (a \div b) + (a % b) /\ a % b \in 0 .. b - 1 /\ a \div b \in Nat
OBVIOUS

\* Pieces of more than a n-th of the file each, with some of it left: less than n.
LEMMA PiecesFit ==
    ASSUME NEW k \in Nat, NEW e \in Nat, file.size \in Nat,
           k * (BlkSize + 1) <= e, e < file.size
    PROVE  k < NSplits
<1>1. NSplits \in Nat /\ NSplits > 0 /\ BlkSize \in Nat
    BY NSplitsAssumption, DivMod DEF BlkSize
<1>2. file.size < NSplits * (BlkSize + 1)
    <2>1. /\ file.size = NSplits * BlkSize + (file.size % NSplits)
          /\ file.size % NSplits \in 0 .. NSplits - 1
        BY <1>1, DivMod DEF BlkSize
    <2>2. NSplits * (BlkSize + 1) = NSplits * BlkSize + NSplits
        BY <1>1
    <2> QED
        BY <1>1, <2>1, <2>2
<1>3. ASSUME k >= NSplits PROVE FALSE
    <2>1. k * (BlkSize + 1) >= NSplits * (BlkSize + 1)
        BY <1>1, <1>3, ProductGrows
    <2>2. k * (BlkSize + 1) \in Nat /\ NSplits * (BlkSize + 1) \in Nat
        BY <1>1
    <2> QED
        BY <1>2, <2>1, <2>2
<1> QED
    BY <1>1, <1>3

-----------------------------------------------------------------------------
(* The invariant. *)

\* The line ends in a piece.
Span(x) == {e \in file.ends : x.lo < e /\ e <= x.hi}

\* A piece starts where a line does, task 0's at the start of the file; the empty
\* ones that pad the list are past no line end.
IsPiece(i) ==
    /\ splits[i].lo \in Bounds
    /\ splits[i].hi <= end
    /\ i = 1 => splits[i].lo = 0
    /\ i # 1 => (splits[i].lo \in file.ends \/ splits[i].hi = 0)

\* Each line end behind which the pieces have got lies in exactly one of them.
Disjoint ==
    \A i, j \in 1 .. Len(splits) : i # j => Span(splits[i]) \intersect Span(splits[j]) = {}

Covered ==
    \A e \in file.ends : e <= end => \E i \in 1 .. Len(splits) : e \in Span(splits[i])

\* How far the loop has got: each of its pieces but the last of the file is longer
\* than BlkSize.
Progress ==
    /\ end \in Bounds
    /\ end > 0 <=> end \in file.ends
    /\ pc = "split" /\ Len(splits) > 0 => end > 0
    /\ end < file.size => pc = "split" /\ Len(splits) * (BlkSize + 1) <= end
    /\ Len(splits) <= NSplits
    /\ pc = "scan" => Len(splits) = NSplits
    /\ pc # "panicked"

SplitInv ==
    /\ \A i \in 1 .. Len(splits) : IsPiece(i)
    /\ Disjoint
    /\ Covered
    /\ Progress

\* The records of its piece that task p's reader has gone past.
ReadSoFar(p) ==
    {r \in DataRecords : Piece(p).lo < r.end /\ r.end <= Piece(p).hi /\ r.end <= pos[p]}

TaskInv(p) ==
    /\ state[p] = "new" => rows[p] = {} /\ chunk[p] = {}
    /\ state[p] # "new" =>
            /\ pc = "scan"
            /\ pos[p] \in Bounds
            /\ Piece(p).lo <= pos[p]
            /\ DataStart <= pos[p] \/ Piece(p).hi = 0
            /\ rows[p] \union chunk[p] = ReadSoFar(p)
    /\ state[p] \in {"stopped", "closed"} => (pos[p] = file.size \/ pos[p] > Piece(p).hi)
    /\ state[p] = "closed" => chunk[p] = {}

CsvInv == TypeOK /\ SplitInv /\ \A p \in Partitions : TaskInv(p)

-----------------------------------------------------------------------------
(* Every step preserves the invariant. *)

LEMMA InitInv == Init => CsvInv
<1> SUFFICES ASSUME Init PROVE CsvInv
    OBVIOUS
<1>1. IsFile(file)
    BY FilesAssumption DEF Init
<1>2. NSplits \in Nat /\ BlkSize \in Nat
    BY <1>1, NSplitsAssumption, DivMod DEF IsFile, BlkSize
<1>3. TypeOK
    BY <1>1 DEF Init, TypeOK, IsFile
<1>4. SplitInv
    <2>1. Len(splits) = 0 /\ end = 0 /\ pc = "split"
        BY DEF Init
    <2>2. 0 * (BlkSize + 1) = 0
        BY <1>2
    <2>3. Progress
        BY <1>1, <1>2, <2>1, <2>2 DEF Progress, Bounds, IsFile
    <2>4. Disjoint /\ \A i \in 1 .. Len(splits) : IsPiece(i)
        BY <2>1 DEF Disjoint
    <2>5. Covered
        BY <1>1, <2>1 DEF Covered, IsFile
    <2> QED
        BY <2>3, <2>4, <2>5 DEF SplitInv
<1>5. \A p \in Partitions : TaskInv(p)
    BY DEF Init, TaskInv
<1> QED
    BY <1>3, <1>4, <1>5 DEF CsvInv

\* What depends on nothing but the file stays as it is.
LEMMA FileFixed ==
    ASSUME UNCHANGED file
    PROVE  /\ DataRecords' = DataRecords
           /\ DataStart' = DataStart
           /\ Bounds' = Bounds
           /\ BlkSize' = BlkSize
           /\ Pieces' = Pieces
           /\ \A x : Span(x)' = Span(x)
<1>1. DataStart' = DataStart
    BY DEF DataStart, LineEnd
<1>2. \A p : Record(p)' = Record(p)
    BY DEF Record, LineEnd
<1>3. Bounds' = Bounds /\ BlkSize' = BlkSize /\ Pieces' = Pieces
    BY DEF Bounds, BlkSize, Pieces
<1>4. \A x : Span(x)' = Span(x)
    BY DEF Span
<1>5. DataRecords' = DataRecords
    BY <1>1, <1>2 DEF DataRecords
<1> QED
    BY <1>1, <1>3, <1>4, <1>5

LEMMA PiecesFixed ==
    ASSUME SplitInv, UNCHANGED <<file, pc, end, splits>>
    PROVE  SplitInv'
<1>1. \A i : IsPiece(i)' <=> IsPiece(i)
    BY FileFixed DEF IsPiece
<1>2. Disjoint' <=> Disjoint
    <2>1. \A x : Span(x)' = Span(x)
        BY FileFixed
    <2>2. splits' = splits
        OBVIOUS
    <2> QED
        BY <2>1, <2>2 DEF Disjoint
<1>3. Covered' <=> Covered
    BY FileFixed DEF Covered
<1>4. Progress' <=> Progress
    BY FileFixed DEF Progress
<1> QED
    BY <1>1, <1>2, <1>3, <1>4 DEF SplitInv

\* A task that does nothing keeps what it has.
LEMMA TaskFixed ==
    ASSUME NEW p, TaskInv(p), UNCHANGED <<file, pc, splits>>,
           state'[p] = state[p], pos'[p] = pos[p], chunk'[p] = chunk[p], rows'[p] = rows[p]
    PROVE  TaskInv(p)'
<1>1. Piece(p)' = Piece(p)
    BY DEF Piece
<1>2. ReadSoFar(p)' = ReadSoFar(p)
    BY <1>1, FileFixed DEF ReadSoFar
<1> QED
    BY <1>1, <1>2, FileFixed DEF TaskInv

\* A piece ends with a line and behind where it starts; unless it is the last of
\* the file, it is longer than BlkSize.
LEMMA PieceEndFacts ==
    ASSUME file \in Files, end \in Nat, end < file.size
    PROVE  /\ PieceEnd \in file.ends
           /\ PieceEnd \in end + 1 .. file.size
           /\ PieceEnd < file.size => PieceEnd >= end + BlkSize + 1
<1>1. IsFile(file)
    BY FilesAssumption
<1>2. BlkSize \in Nat
    BY <1>1, NSplitsAssumption, DivMod DEF IsFile, BlkSize
<1>3. file.size \in file.ends /\ file.size \in Nat
    BY <1>1 DEF IsFile
<1>4. CASE end + BlkSize > file.size
    BY <1>2, <1>3, <1>4 DEF PieceEnd
<1>5. CASE end + BlkSize = file.size
    BY <1>2, <1>3, <1>5 DEF PieceEnd, ReadLine
<1>6. CASE end + BlkSize < file.size
    <2>1. end + BlkSize \in Nat
        BY <1>2
    <2>2. PieceEnd = LineEnd(end + BlkSize)
        BY <1>2, <1>3, <1>6 DEF PieceEnd, ReadLine
    <2>3. PieceEnd \in file.ends /\ PieceEnd \in end + BlkSize + 1 .. file.size
        BY <1>6, <2>1, <2>2, LineEndFacts
    <2> QED
        BY <1>2, <1>3, <2>3
<1> QED
    BY <1>2, <1>3, <1>4, <1>5, <1>6

LEMMA SplitPieceInv == CsvInv /\ SplitPiece => CsvInv'
<1> SUFFICES ASSUME CsvInv, SplitPiece PROVE CsvInv'
    OBVIOUS
<1>1. IsFile(file) /\ file \in Files
    BY FilesAssumption DEF CsvInv, TypeOK
<1>2. /\ NSplits \in Nat /\ BlkSize \in Nat /\ file.size \in Nat /\ end \in Nat
      /\ end < file.size /\ pc = "split" /\ splits \in Seq(Pieces)
    <2>1. file.size \in Nat /\ NSplits \in Nat /\ NSplits > 0
        BY <1>1, NSplitsAssumption DEF IsFile
    <2>2. end \in 0 .. file.size /\ splits \in Seq(Pieces)
        BY DEF CsvInv, TypeOK
    <2>3. end < file.size /\ pc = "split"
        BY DEF SplitPiece
    <2>4. BlkSize \in Nat
        BY <2>1, DivMod DEF BlkSize
    <2> QED
        BY <2>1, <2>2, <2>3, <2>4
<1>3. UNCHANGED <<file, pc, state, pos, chunk, rows>>
    BY DEF SplitPiece
<1>4. PICK n \in Nat : n = Len(splits)
    BY <1>2
<1>5. PICK x : x = [lo |-> end, hi |-> end']
    OBVIOUS
<1>6. splits' = Append(splits, x) /\ end' = PieceEnd
    BY <1>5 DEF SplitPiece
<1>7. /\ end' \in file.ends
      /\ end' \in end + 1 .. file.size
      /\ end' < file.size => end' >= end + BlkSize + 1
    BY <1>1, <1>2, <1>6, PieceEndFacts
<1>8. x \in Pieces
    BY <1>2, <1>5, <1>7 DEF Pieces
<1>9. /\ Len(splits') = n + 1
      /\ splits' \in Seq(Pieces)
      /\ \A i \in 1 .. n : splits'[i] = splits[i]
      /\ splits'[n + 1] = x
    BY <1>2, <1>4, <1>6, <1>8
<1>10. /\ \A i \in 1 .. n : IsPiece(i)
       /\ Disjoint /\ Covered /\ Progress
    BY <1>4 DEF CsvInv, SplitInv
<1>11. n * (BlkSize + 1) <= end
    BY <1>2, <1>4, <1>10 DEF Progress
<1>12. n < NSplits
    BY <1>2, <1>11, PiecesFit
<1>13. TypeOK'
    BY <1>3, <1>7, <1>9, FileFixed, <1>2 DEF CsvInv, TypeOK, Pieces
<1>14. \A i \in 1 .. n + 1 : IsPiece(i)'
    <2>1. ASSUME NEW i \in 1 .. n PROVE IsPiece(i)'
        <3>1. splits'[i] = splits[i] /\ splits[i] \in Pieces
            BY <1>2, <1>4, <1>9
        <3>2. splits[i].hi \in Nat
            BY <1>2, <3>1 DEF Pieces
        <3> QED
            BY <1>2, <1>3, <1>7, <1>10, <3>1, <3>2, FileFixed DEF IsPiece
    <2>2. x.lo = end /\ x.hi = end'
        BY <1>5
    <2>3. n = 0 => end = 0
        <3>1. ASSUME n = 0 PROVE end \notin file.ends
            <4>1. end \in file.ends => \E i \in 1 .. Len(splits) : end \in Span(splits[i])
                BY <1>2, <1>10 DEF Covered
            <4> QED
                BY <1>4, <3>1, <4>1
        <3> QED
            BY <1>2, <1>10, <3>1 DEF Progress
    <2>4. n # 0 => end \in file.ends
        BY <1>2, <1>4, <1>10 DEF Progress
    <2>5. end \in Bounds
        BY <1>10 DEF Progress
    <2>6. IsPiece(n + 1)'
        BY <1>3, <1>7, <1>9, <2>2, <2>3, <2>4, <2>5, FileFixed DEF IsPiece
    <2> QED
        BY <2>1, <2>6
<1>15. \A e \in Span(x) : end < e /\ e <= end'
    BY <1>5 DEF Span
<1>16. \A i \in 1 .. n : \A e \in Span(splits[i]) : e \in Nat /\ e <= end
    <2>1. SUFFICES ASSUME NEW i \in 1 .. n, NEW e \in Span(splits[i]) PROVE e \in Nat /\ e <= end
        OBVIOUS
    <2>2. splits[i].hi \in Nat
        <3>1. splits[i] \in Pieces
            BY <1>2, <1>4
        <3> QED
            BY <1>2, <3>1 DEF Pieces
    <2>3. splits[i].hi <= end /\ e \in Nat /\ e <= splits[i].hi
        BY <1>1, <1>10 DEF IsPiece, Span, IsFile
    <2> QED
        BY <1>2, <2>2, <2>3
<1>17. Disjoint'
    <2>1. SUFFICES ASSUME NEW i \in 1 .. n + 1, NEW j \in 1 .. n + 1, i # j,
                          NEW e, e \in Span(splits'[i]), e \in Span(splits'[j])
                   PROVE  FALSE
        BY <1>3, <1>9, FileFixed DEF Disjoint
    <2>2. CASE i \in 1 .. n /\ j \in 1 .. n
        BY <1>4, <1>9, <1>10, <2>1, <2>2 DEF Disjoint
    <2>3. CASE i = n + 1 /\ j \in 1 .. n
        <3>1. end < e
            BY <1>9, <1>15, <2>1, <2>3
        <3>2. e \in Nat /\ e <= end
            BY <1>9, <1>16, <2>1, <2>3
        <3> QED
            BY <1>2, <3>1, <3>2
    <2>4. CASE i \in 1 .. n /\ j = n + 1
        <3>1. end < e
            BY <1>9, <1>15, <2>1, <2>4
        <3>2. e \in Nat /\ e <= end
            BY <1>9, <1>16, <2>1, <2>4
        <3> QED
            BY <1>2, <3>1, <3>2
    <2> QED
        BY <2>1, <2>2, <2>3, <2>4
<1>18. Covered'
    <2>1. SUFFICES ASSUME NEW e \in file.ends, e <= end'
                   PROVE  \E i \in 1 .. n + 1 : e \in Span(splits'[i])
        BY <1>3, <1>9, FileFixed DEF Covered
    <2>2. CASE e <= end
        BY <1>4, <1>9, <1>10, <2>2 DEF Covered
    <2>3. CASE e > end
        BY <1>5, <1>9, <2>1, <2>3 DEF Span
    <2> QED
        BY <1>1, <1>2, <2>2, <2>3 DEF IsFile
<1>19. Progress'
    <2>1. (n + 1) * (BlkSize + 1) = n * (BlkSize + 1) + (BlkSize + 1) /\ n * (BlkSize + 1) \in Nat
        BY <1>2
    <2>2. end' < file.size => (n + 1) * (BlkSize + 1) <= end'
        BY <1>2, <1>7, <1>11, <2>1
    <2>3. n + 1 <= NSplits
        BY <1>2, <1>12
    <2>4. end' > 0 /\ end' \in Bounds
        BY <1>2, <1>7 DEF Bounds
    <2> QED
        BY <1>2, <1>3, <1>7, <1>9, <2>2, <2>3, <2>4, FileFixed DEF Progress
<1>20. \A p \in Partitions : TaskInv(p)'
    BY <1>2, <1>3 DEF CsvInv, TaskInv
<1> QED
    BY <1>9, <1>13, <1>14, <1>17, <1>18, <1>19, <1>20 DEF CsvInv, SplitInv

LEMMA PadSplitsInv == CsvInv /\ PadSplits => CsvInv'
<1> SUFFICES ASSUME CsvInv, PadSplits PROVE CsvInv'
    OBVIOUS
<1>1. IsFile(file) /\ file \in Files
    BY FilesAssumption DEF CsvInv, TypeOK
<1>2. NSplits \in Nat /\ file.size \in Nat /\ end \in 0 .. file.size /\ splits \in Seq(Pieces)
    BY <1>1, NSplitsAssumption DEF IsFile, CsvInv, TypeOK
<1>3. PICK n \in Nat : n = Len(splits)
    BY <1>2
<1>4. \A i \in 1 .. n : splits[i] \in Pieces
    BY <1>2, <1>3
<1>5. n <= NSplits /\ end = file.size /\ pc = "split"
    BY <1>2, <1>3 DEF CsvInv, SplitInv, Progress, PadSplits
<1>6. UNCHANGED <<file, end, state, pos, chunk, rows>> /\ pc' = "scan"
    BY <1>3, <1>5 DEF PadSplits
<1>7. splits' = [i \in 1 .. NSplits |-> IF i <= n THEN splits[i] ELSE [lo |-> 0, hi |-> 0]]
    BY <1>3, <1>5 DEF PadSplits
<1>8. [lo |-> 0, hi |-> 0] \in Pieces
    BY <1>2 DEF Pieces
<1>9. /\ \A i \in 1 .. n : splits'[i] = splits[i]
      /\ \A i \in 1 .. NSplits : i > n => splits'[i] = [lo |-> 0, hi |-> 0]
      /\ \A i \in 1 .. NSplits : splits'[i] \in Pieces
    BY <1>2, <1>4, <1>5, <1>7, <1>8
<1>10. splits' \in Seq(Pieces) /\ Len(splits') = NSplits
    <2>1. splits' \in [1 .. NSplits -> Pieces]
        BY <1>7, <1>9
    <2> QED
        BY <1>2, <2>1, SeqDef
<1>11. TypeOK'
    BY <1>2, <1>6, <1>10, FileFixed DEF CsvInv, TypeOK
<1>12. \A i \in 1 .. n : IsPiece(i)
    BY <1>3 DEF CsvInv, SplitInv
<1>13. \A i \in 1 .. NSplits : IsPiece(i)'
    <2>1. SUFFICES ASSUME NEW i \in 1 .. NSplits PROVE IsPiece(i)'
        OBVIOUS
    <2>2. CASE i <= n
        <3>1. splits'[i] = splits[i] /\ IsPiece(i)
            BY <1>2, <1>9, <1>12, <2>2
        <3> QED
            BY <1>6, <3>1, FileFixed DEF IsPiece
    <2>3. CASE i > n
        <3>1. splits'[i] = [lo |-> 0, hi |-> 0]
            BY <1>9, <2>3
        <3>2. splits'[i].lo = 0 /\ splits'[i].hi = 0
            BY <3>1
        <3> QED
            BY <1>2, <1>6, <3>2, FileFixed DEF IsPiece, Bounds
    <2> QED
        BY <1>2, <2>2, <2>3
<1>14. \A i \in 1 .. NSplits : i > n => Span(splits'[i]) = {}
    <2>1. SUFFICES ASSUME NEW i \in 1 .. NSplits, i > n, NEW e \in Span(splits'[i]) PROVE FALSE
        OBVIOUS
    <2>2. splits'[i].lo = 0 /\ splits'[i].hi = 0
        BY <1>9, <2>1
    <2> QED
        BY <1>1, <2>1, <2>2 DEF Span, IsFile
<1>15. Disjoint'
    <2>1. SUFFICES ASSUME NEW i \in 1 .. NSplits, NEW j \in 1 .. NSplits, i # j,
                          NEW e, e \in Span(splits'[i]), e \in Span(splits'[j])
                   PROVE  FALSE
        BY <1>6, <1>10, FileFixed DEF Disjoint
    <2>2. i \in 1 .. n /\ j \in 1 .. n
        <3>1. ~(i > n) /\ ~(j > n)
            BY <1>14, <2>1, Zenon
        <3> QED
            BY <1>2, <1>3, <2>1, <3>1
    <2> QED
        BY <1>3, <1>9, <2>1, <2>2 DEF CsvInv, SplitInv, Disjoint
<1>16. Covered'
    <2>1. SUFFICES ASSUME NEW e \in file.ends, e <= end
                   PROVE  \E i \in 1 .. NSplits : e \in Span(splits'[i])
        BY <1>6, <1>10, FileFixed DEF Covered
    <2>2. PICK i \in 1 .. n : e \in Span(splits[i])
        BY <1>3, <2>1 DEF CsvInv, SplitInv, Covered
    <2> QED
        BY <1>2, <1>5, <1>9, <2>2
<1>17. Progress'
    BY <1>2, <1>5, <1>6, <1>10, FileFixed DEF CsvInv, SplitInv, Progress
<1>18. \A p \in Partitions : TaskInv(p)'
    BY <1>5, <1>6 DEF CsvInv, TaskInv
<1> QED
    BY <1>10, <1>11, <1>13, <1>15, <1>16, <1>17, <1>18 DEF CsvInv, SplitInv

\* What the steps of task p rest on, once the file is cut.
LEMMA ScanFacts ==
    ASSUME CsvInv, pc = "scan", NEW p \in Partitions
    PROVE  /\ file \in Files /\ IsFile(file) /\ file.size \in Nat
           /\ end = file.size
           /\ p + 1 \in 1 .. NSplits /\ Len(splits) = NSplits
           /\ Piece(p) \in Pieces /\ Piece(p).lo \in Bounds /\ Piece(p).hi <= file.size
           /\ p = 0 => Piece(p).lo = 0
           /\ p # 0 => (Piece(p).lo \in file.ends \/ Piece(p).hi = 0)
<1>1. file \in Files /\ IsFile(file)
    BY FilesAssumption DEF CsvInv, TypeOK
<1>2. file.size \in Nat /\ end \in 0 .. file.size /\ splits \in Seq(Pieces)
    BY <1>1 DEF IsFile, CsvInv, TypeOK
<1>3. end = file.size /\ Len(splits) = NSplits
    BY <1>2 DEF CsvInv, SplitInv, Progress
<1>4. p + 1 \in 1 .. NSplits /\ p \in Nat
    BY NSplitsAssumption DEF Partitions
<1>5. splits[p + 1] \in Pieces /\ IsPiece(p + 1)
    BY <1>2, <1>3, <1>4 DEF CsvInv, SplitInv
<1> QED
    BY <1>1, <1>2, <1>3, <1>4, <1>5 DEF Piece, IsPiece

\* The records that end in a file's lines are those its data lines are.
LEMMA DataRecordFacts ==
    ASSUME file \in Files, NEW r \in DataRecords
    PROVE  r.end \in file.ends /\ r.end \in Nat /\ DataStart < r.end
<1>1. IsFile(file)
    BY FilesAssumption
<1>2. PICK q \in Bounds : DataStart <= q /\ q < file.size /\ r = Record(q)
    BY DEF DataRecords, Bounds
<1>3. q \in Nat /\ r.end = LineEnd(q) /\ DataStart \in Nat
    BY <1>1, <1>2, DataStartFacts DEF Bounds, Record, IsFile
<1>4. LineEnd(q) \in file.ends /\ LineEnd(q) \in q + 1 .. file.size
    BY <1>2, <1>3, LineEndFacts
<1> QED
    BY <1>1, <1>2, <1>3, <1>4 DEF IsFile

LEMMA OpenInv == ASSUME NEW p \in Partitions, CsvInv, Open(p) PROVE CsvInv'
<1>1. pc = "scan" /\ state[p] = "new" /\ UNCHANGED <<file, pc, end, splits, chunk, rows>>
    BY DEF Open
<1>2. /\ state' = [state EXCEPT ![p] = "reading"]
      /\ pos' = [pos EXCEPT ![p] = IF p = 0 THEN DataStart ELSE Piece(p).lo]
    BY DEF Open
<1>3. /\ state \in [Partitions -> {"new", "reading", "stopped", "closed"}]
      /\ pos \in [Partitions -> 0 .. file.size]
    BY DEF CsvInv, TypeOK
<1>4. /\ state'[p] = "reading" /\ pos'[p] = IF p = 0 THEN DataStart ELSE Piece(p).lo
      /\ \A q \in Partitions : q # p => state'[q] = state[q] /\ pos'[q] = pos[q]
    BY <1>2, <1>3
<1>5. /\ file \in Files /\ IsFile(file) /\ file.size \in Nat
      /\ Piece(p) \in Pieces /\ Piece(p).lo \in Bounds
      /\ p = 0 => Piece(p).lo = 0
      /\ p # 0 => (Piece(p).lo \in file.ends \/ Piece(p).hi = 0)
    BY <1>1, ScanFacts
<1>6. DataStart \in Bounds /\ \A e \in file.ends : DataStart <= e
    BY <1>5, DataStartFacts
<1>7. Bounds \subseteq 0 .. file.size
    BY <1>5 DEF Bounds, IsFile
<1>8. pos'[p] \in Bounds /\ Piece(p).lo <= pos'[p]
    <2>1. CASE p = 0
        <3>1. pos'[p] = DataStart /\ Piece(p).lo = 0
            BY <1>4, <1>5, <2>1
        <3>2. DataStart \in 0 .. file.size
            BY <1>6, <1>7
        <3> QED
            BY <1>6, <3>1, <3>2
    <2>2. CASE p # 0
        <3>1. pos'[p] = Piece(p).lo
            BY <1>4, <2>2
        <3>2. Piece(p).lo \in 0 .. file.size
            BY <1>5, <1>7
        <3> QED
            BY <1>5, <3>1, <3>2
    <2> QED
        BY <2>1, <2>2
<1>9. DataStart <= pos'[p] \/ Piece(p).hi = 0
    BY <1>4, <1>5, <1>6, <1>7
<1>10. TypeOK'
    <2>1. /\ state' \in [Partitions -> {"new", "reading", "stopped", "closed"}]
          /\ pos' \in [Partitions -> 0 .. file.size]
        BY <1>2, <1>3, <1>4, <1>7, <1>8
    <2> QED
        BY <1>1, <2>1, FileFixed DEF CsvInv, TypeOK
<1>11. TaskInv(p)'
    <2>1. Piece(p)' = Piece(p)
        BY <1>1 DEF Piece
    <2>2. ReadSoFar(p)' = {}
        <3>1. SUFFICES ASSUME NEW r \in DataRecords, Piece(p).lo < r.end, r.end <= Piece(p).hi,
                              r.end <= pos'[p]
                       PROVE  FALSE
            BY <1>1, <2>1, FileFixed DEF ReadSoFar
        <3>2. r.end \in Nat /\ DataStart < r.end
            BY <1>5, DataRecordFacts
        <3> QED
            BY <1>4, <1>5, <1>6, <1>7, <3>1, <3>2
    <2>3. rows[p] = {} /\ chunk[p] = {}
        BY <1>1 DEF CsvInv, TaskInv
    <2> QED
        BY <1>1, <1>4, <1>8, <1>9, <2>1, <2>2, <2>3, FileFixed DEF TaskInv
<1>12. \A q \in Partitions : TaskInv(q)'
    BY <1>1, <1>4, <1>11, TaskFixed DEF CsvInv
<1> QED
    BY <1>1, <1>10, <1>12, PiecesFixed DEF CsvInv

\* A reader that goes past a record of its piece has read that record and no other.
LEMMA ReadRecordInv == ASSUME NEW p \in Partitions, CsvInv, ReadRecord(p) PROVE CsvInv'
<1>1. /\ pc = "scan" /\ state[p] = "reading" /\ UNCHANGED <<file, pc, end, splits, state, rows>>
      /\ pos[p] < file.size /\ LineEnd(pos[p]) <= Piece(p).hi
    BY DEF ReadRecord, Reading, InPiece, HasMore
<1>2. /\ pos' = [pos EXCEPT ![p] = LineEnd(@)]
      /\ chunk' = [chunk EXCEPT ![p] = @ \union {Record(pos[p])}]
    BY DEF ReadRecord
<1>3. /\ pos \in [Partitions -> 0 .. file.size]
      /\ chunk \in [Partitions -> SUBSET DataRecords]
    BY DEF CsvInv, TypeOK
<1>4. PICK a : a = pos[p]
    OBVIOUS
<1>5. PICK b : b = LineEnd(a)
    OBVIOUS
<1>6. /\ pos'[p] = b /\ chunk'[p] = chunk[p] \union {Record(a)}
      /\ \A q \in Partitions : q # p => pos'[q] = pos[q] /\ chunk'[q] = chunk[q]
    BY <1>2, <1>3, <1>4, <1>5
<1>7. /\ file \in Files /\ IsFile(file) /\ file.size \in Nat
      /\ Piece(p) \in Pieces
    BY <1>1, ScanFacts
<1>8. /\ a \in Bounds /\ a \in Nat /\ a < file.size /\ b <= Piece(p).hi
      /\ Piece(p).lo <= a /\ Piece(p).lo \in Nat /\ Piece(p).hi \in Nat
      /\ DataStart <= a \/ Piece(p).hi = 0
      /\ rows[p] \union chunk[p] = ReadSoFar(p)
    BY <1>1, <1>3, <1>4, <1>5, <1>7 DEF CsvInv, TaskInv, Pieces
<1>9. /\ b \in file.ends /\ b \in a + 1 .. file.size
      /\ \A d \in file.ends : d > a => b <= d
    BY <1>5, <1>7, <1>8, LineEndFacts
<1>10. DataStart <= a
    BY <1>8, <1>9
<1>11. Record(a) \in DataRecords /\ Record(a).end = b
    BY <1>5, <1>8, <1>10 DEF DataRecords, Bounds, Record
<1>12. \A r \in DataRecords : r.end <= b => r.end <= a \/ r = Record(a)
    <2>1. SUFFICES ASSUME NEW r \in DataRecords, r.end <= b, ~(r.end <= a) PROVE r = Record(a)
        OBVIOUS
    <2>2. PICK q \in Bounds : q < file.size /\ r = Record(q)
        BY DEF DataRecords, Bounds
    <2>3. r.end \in file.ends /\ r.end \in Nat
        BY <1>7, DataRecordFacts
    <2>4. r.end = b
        BY <1>8, <1>9, <2>1, <2>3
    <2>5. LineEnd(q) = LineEnd(a)
        BY <1>5, <2>2, <2>4 DEF Record
    <2> QED
        BY <1>7, <1>8, <2>2, <2>5, RecordsByEnd
<1>13. Piece(p)' = Piece(p)
    BY <1>1 DEF Piece
<1>14. ReadSoFar(p)' = ReadSoFar(p) \union {Record(a)}
    <2>1. ReadSoFar(p)' = {r \in DataRecords : Piece(p).lo < r.end /\ r.end <= Piece(p).hi /\ r.end <= b}
        BY <1>1, <1>6, <1>13, FileFixed DEF ReadSoFar
    <2>2. \A r \in DataRecords : r.end \in Nat
        BY <1>7, DataRecordFacts
    <2>3. \A r \in DataRecords :
             Piece(p).lo < r.end /\ r.end <= Piece(p).hi /\ r.end <= b
             <=> (Piece(p).lo < r.end /\ r.end <= Piece(p).hi /\ r.end <= a) \/ r = Record(a)
        BY <1>8, <1>9, <1>11, <1>12, <2>2
    <2>4. ReadSoFar(p) = {r \in DataRecords : Piece(p).lo < r.end /\ r.end <= Piece(p).hi /\ r.end <= a}
        BY <1>4 DEF ReadSoFar
    <2> QED
        BY <1>11, <2>1, <2>3, <2>4
<1>15. TypeOK'
    <2>1. pos' \in [Partitions -> 0 .. file.size]
        BY <1>2, <1>3, <1>5, <1>4, <1>7, <1>9
    <2>2. chunk' \in [Partitions -> SUBSET DataRecords]
        BY <1>2, <1>3, <1>4, <1>11
    <2> QED
        BY <1>1, <2>1, <2>2, FileFixed DEF CsvInv, TypeOK
<1>16. TaskInv(p)'
    <2>1. rows'[p] \union chunk'[p] = ReadSoFar(p)'
        BY <1>1, <1>6, <1>8, <1>14
    <2>2. b \in Bounds /\ Piece(p).lo <= b
        BY <1>8, <1>9 DEF Bounds
    <2>3. DataStart <= b
        <3>1. DataStart \in Nat
            BY <1>7, DataStartFacts DEF Bounds, IsFile
        <3> QED
            BY <1>8, <1>9, <1>10, <3>1
    <2>4. state'[p] = "reading" /\ pc' = "scan"
        BY <1>1
    <2> QED
        BY <1>1, <1>6, <1>13, <2>1, <2>2, <2>3, <2>4, FileFixed DEF TaskInv
<1>17. \A q \in Partitions : TaskInv(q)'
    BY <1>1, <1>6, <1>16, TaskFixed DEF CsvInv
<1> QED
    BY <1>1, <1>15, <1>17, PiecesFixed DEF CsvInv

\* The record it goes past as it stops is not of its piece.
LEMMA StopReadingInv == ASSUME NEW p \in Partitions, CsvInv, StopReading(p) PROVE CsvInv'
<1>1. /\ pc = "scan" /\ state[p] = "reading" /\ UNCHANGED <<file, pc, end, splits, chunk, rows>>
      /\ pos[p] < file.size => ~(LineEnd(pos[p]) <= Piece(p).hi)
    BY DEF StopReading, Reading, InPiece, HasMore
<1>2. /\ pos' = [pos EXCEPT ![p] = ReadLine(@)]
      /\ state' = [state EXCEPT ![p] = "stopped"]
    BY DEF StopReading
<1>3. /\ pos \in [Partitions -> 0 .. file.size]
      /\ state \in [Partitions -> {"new", "reading", "stopped", "closed"}]
    BY DEF CsvInv, TypeOK
<1>4. PICK a : a = pos[p]
    OBVIOUS
<1>5. PICK b : b = ReadLine(a)
    OBVIOUS
<1>6. /\ pos'[p] = b /\ state'[p] = "stopped"
      /\ \A q \in Partitions : q # p => pos'[q] = pos[q] /\ state'[q] = state[q]
    BY <1>2, <1>3, <1>4, <1>5
<1>7. /\ file \in Files /\ IsFile(file) /\ file.size \in Nat
      /\ Piece(p) \in Pieces
    BY <1>1, ScanFacts
<1>8. /\ a \in Bounds /\ a \in 0 .. file.size
      /\ Piece(p).lo <= a /\ Piece(p).lo \in Nat /\ Piece(p).hi \in Nat
      /\ DataStart <= a \/ Piece(p).hi = 0
      /\ rows[p] \union chunk[p] = ReadSoFar(p)
    BY <1>1, <1>3, <1>4, <1>7 DEF CsvInv, TaskInv, Pieces
<1>9. /\ b \in Bounds /\ b \in 0 .. file.size /\ a <= b
      /\ \/ a = file.size /\ b = a
         \/ b > Piece(p).hi /\ \A d \in file.ends : d > a => b <= d
    <2>1. CASE a = file.size
        BY <1>5, <1>7, <1>8, <2>1 DEF ReadLine
    <2>2. CASE a < file.size
        <3>1. b = LineEnd(a)
            BY <1>5, <1>7, <1>8, <2>2 DEF ReadLine
        <3>2. /\ b \in file.ends /\ b \in a + 1 .. file.size
              /\ \A d \in file.ends : d > a => b <= d
            BY <1>7, <1>8, <2>2, <3>1, LineEndFacts
        <3>3. b > Piece(p).hi
            BY <1>1, <1>4, <1>7, <1>8, <2>2, <3>1, <3>2
        <3> QED
            BY <1>7, <1>8, <3>2, <3>3 DEF Bounds
    <2> QED
        BY <1>7, <1>8, <2>1, <2>2
<1>10. Piece(p)' = Piece(p)
    BY <1>1 DEF Piece
<1>11. ReadSoFar(p)' = ReadSoFar(p)
    <2>1. ReadSoFar(p)' = {r \in DataRecords : Piece(p).lo < r.end /\ r.end <= Piece(p).hi /\ r.end <= b}
        BY <1>1, <1>6, <1>10, FileFixed DEF ReadSoFar
    <2>2. \A r \in DataRecords : r.end \in Nat /\ r.end \in file.ends
        BY <1>7, DataRecordFacts
    <2>3. \A r \in DataRecords : r.end <= Piece(p).hi => (r.end <= b <=> r.end <= a)
        BY <1>8, <1>9, <2>2
    <2>4. ReadSoFar(p) = {r \in DataRecords : Piece(p).lo < r.end /\ r.end <= Piece(p).hi /\ r.end <= a}
        BY <1>4 DEF ReadSoFar
    <2> QED
        BY <2>1, <2>3, <2>4
<1>12. TypeOK'
    <2>1. /\ pos' \in [Partitions -> 0 .. file.size]
          /\ state' \in [Partitions -> {"new", "reading", "stopped", "closed"}]
        BY <1>2, <1>3, <1>4, <1>5, <1>9
    <2> QED
        BY <1>1, <2>1, FileFixed DEF CsvInv, TypeOK
<1>13. TaskInv(p)'
    <2>1. Piece(p).lo <= b /\ (DataStart <= b \/ Piece(p).hi = 0)
        <3>1. DataStart \in Nat
            BY <1>7, DataStartFacts DEF Bounds, IsFile
        <3> QED
            BY <1>7, <1>8, <1>9, <3>1
    <2>2. b = file.size \/ b > Piece(p).hi
        BY <1>9
    <2>3. rows'[p] \union chunk'[p] = ReadSoFar(p)'
        BY <1>1, <1>8, <1>11
    <2> QED
        BY <1>1, <1>6, <1>9, <1>10, <2>1, <2>2, <2>3, FileFixed DEF TaskInv
<1>14. \A q \in Partitions : TaskInv(q)'
    BY <1>1, <1>6, <1>13, TaskFixed DEF CsvInv
<1> QED
    BY <1>1, <1>12, <1>14, PiecesFixed DEF CsvInv

LEMMA ReturnChunkInv == ASSUME NEW p \in Partitions, CsvInv, ReturnChunk(p) PROVE CsvInv'
<1>1. UNCHANGED <<file, pc, end, splits, pos>> /\ pc = "scan"
    BY DEF ReturnChunk, ChunkRead
<1>2. /\ rows' = [rows EXCEPT ![p] = @ \union chunk[p]]
      /\ chunk' = [chunk EXCEPT ![p] = {}]
      /\ state' = [state EXCEPT ![p] = IF chunk[p] = {} THEN "closed" ELSE "reading"]
    BY DEF ReturnChunk
<1>3. /\ rows \in [Partitions -> SUBSET DataRecords]
      /\ chunk \in [Partitions -> SUBSET DataRecords]
      /\ state \in [Partitions -> {"new", "reading", "stopped", "closed"}]
    BY DEF CsvInv, TypeOK
<1>4. /\ rows'[p] = rows[p] \union chunk[p] /\ chunk'[p] = {}
      /\ state'[p] = IF chunk[p] = {} THEN "closed" ELSE "reading"
      /\ \A q \in Partitions : q # p =>
            state'[q] = state[q] /\ chunk'[q] = chunk[q] /\ rows'[q] = rows[q]
    BY <1>2, <1>3
<1>5. TypeOK'
    <2>1. /\ rows' \in [Partitions -> SUBSET DataRecords]
          /\ chunk' \in [Partitions -> SUBSET DataRecords]
          /\ state' \in [Partitions -> {"new", "reading", "stopped", "closed"}]
        BY <1>2, <1>3
    <2> QED
        BY <1>1, <2>1, FileFixed DEF CsvInv, TypeOK
<1>6. state[p] # "new" /\ (chunk[p] = {} => state[p] = "stopped")
    <2>1. state[p] = "stopped" \/ (state[p] = "reading" /\ Cardinality(chunk[p]) >= ChunkSize)
        BY Zenon DEF ReturnChunk, ChunkRead
    <2>2. ASSUME chunk[p] = {} PROVE ~(Cardinality(chunk[p]) >= ChunkSize)
        BY <2>2, FS_EmptySet, ChunkSizeAssumption
    <2> QED
        BY <2>1, <2>2
<1>7. TaskInv(p)'
    <2>1. Piece(p)' = Piece(p)
        BY <1>1 DEF Piece
    <2>2. ReadSoFar(p)' = ReadSoFar(p)
        BY <1>1, <2>1, FileFixed DEF ReadSoFar
    <2>3. TaskInv(p)
        BY DEF CsvInv
    <2>4. rows'[p] \union chunk'[p] = ReadSoFar(p)'
        BY <1>4, <1>6, <2>2, <2>3 DEF TaskInv
    <2> QED
        BY <1>1, <1>4, <1>6, <2>1, <2>3, <2>4, FileFixed DEF TaskInv
<1>8. \A q \in Partitions : TaskInv(q)'
    BY <1>1, <1>4, <1>7, TaskFixed DEF CsvInv
<1> QED
    BY <1>1, <1>5, <1>8, PiecesFixed DEF CsvInv

LEMMA NextInv == CsvInv /\ [Next]_vars => CsvInv'
<1> SUFFICES ASSUME CsvInv, [Next]_vars PROVE CsvInv'
    OBVIOUS
<1>1. CASE UNCHANGED vars
    <2>1. TypeOK'
        BY <1>1, FileFixed DEF CsvInv, TypeOK, vars
    <2> QED
        BY <1>1, <2>1, PiecesFixed, TaskFixed DEF CsvInv, vars
<1>2. CASE Split
    BY <1>2, SplitPieceInv, PadSplitsInv DEF Split
<1>3. ASSUME NEW p \in Partitions, Scan(p) PROVE CsvInv'
    BY <1>3, OpenInv, ReadRecordInv, StopReadingInv, ReturnChunkInv DEF Scan
<1> QED
    BY <1>1, <1>2, <1>3 DEF Next, Terminated

-----------------------------------------------------------------------------
(* The theorems. *)

THEOREM Invariance == Spec => []CsvInv
BY InitInv, NextInv, PTL DEF Spec

\* The loop of compute_partitions never cuts more pieces than there are tasks, and
\* nothing else it does leaves its types.
THEOREM TypeCorrect == Spec => []TypeOK
<1>1. CsvInv => TypeOK
    BY DEF CsvInv
<1> QED
    BY <1>1, Invariance, PTL

\* The subtraction that counts the missing pieces never underflows.
THEOREM NoUnderflow == Spec => []SplitsFit
<1>1. CsvInv => SplitsFit
    BY DEF CsvInv, SplitInv, Progress, SplitsFit
<1> QED
    BY <1>1, Invariance, PTL

\* Whatever a task holds is of its own piece.
LEMMA HeldIsOfPiece ==
    ASSUME CsvInv, NEW p \in Partitions, NEW r \in rows[p] \union chunk[p]
    PROVE  /\ pc = "scan" /\ p + 1 \in 1 .. Len(splits)
           /\ r.end \in Span(splits[p + 1])
<1>1. state[p] # "new" /\ pc = "scan" /\ r \in ReadSoFar(p)
    BY DEF CsvInv, TaskInv
<1>2. p + 1 \in 1 .. Len(splits) /\ file \in Files
    BY <1>1, ScanFacts
<1>3. r.end \in file.ends
    BY <1>1, <1>2, DataRecordFacts DEF ReadSoFar
<1> QED
    BY <1>1, <1>2, <1>3 DEF ReadSoFar, Piece, Span

\* No record is returned by two tasks.
THEOREM EachRecordOnce == Spec => []NoRecordTwice
<1>1. ASSUME CsvInv PROVE NoRecordTwice
    <2>1. SUFFICES ASSUME NEW p \in Partitions, NEW q \in Partitions, p # q,
                          NEW r \in rows[p] \union chunk[p], r \in rows[q] \union chunk[q]
                   PROVE  FALSE
        BY DEF NoRecordTwice
    <2>2. /\ p + 1 \in 1 .. Len(splits) /\ q + 1 \in 1 .. Len(splits)
          /\ r.end \in Span(splits[p + 1]) /\ r.end \in Span(splits[q + 1])
        BY <1>1, <2>1, HeldIsOfPiece
    <2>3. p + 1 # q + 1
        BY <2>1, NSplitsAssumption DEF Partitions
    <2> QED
        BY <1>1, <2>2, <2>3 DEF CsvInv, SplitInv, Disjoint
<1> QED
    BY <1>1, Invariance, PTL

\* The tasks that have ended have returned every record of the file, and no header.
THEOREM EveryRecordRead == Spec => []AllRecordsRead
<1>1. ASSUME CsvInv PROVE AllRecordsRead
    <2>1. SUFFICES ASSUME AllClosed PROVE UNION {rows[p] : p \in Partitions} = DataRecords
        BY DEF AllRecordsRead
    <2>2. pc = "scan" /\ \A p \in Partitions : state[p] = "closed"
        BY <2>1 DEF AllClosed
    <2>3. \A p \in Partitions : rows[p] \subseteq DataRecords
        BY <1>1 DEF CsvInv, TypeOK
    <2>4. ASSUME NEW r \in DataRecords PROVE \E p \in Partitions : r \in rows[p]
        <3>1. /\ file \in Files /\ IsFile(file) /\ file.size \in Nat /\ end = file.size
              /\ Len(splits) = NSplits /\ NSplits \in Nat /\ NSplits > 0
            <4>1. 0 \in Partitions
                BY NSplitsAssumption DEF Partitions
            <4> QED
                BY <1>1, <2>2, <4>1, ScanFacts, NSplitsAssumption
        <3>2. r.end \in file.ends /\ r.end \in Nat
            BY <3>1, DataRecordFacts
        <3>3. r.end <= end
            BY <3>1, <3>2 DEF IsFile
        <3>4. PICK i \in 1 .. NSplits : r.end \in Span(splits[i])
            BY <1>1, <3>1, <3>2, <3>3 DEF CsvInv, SplitInv, Covered
        <3>5. PICK p \in Partitions : i = p + 1
            BY <3>1 DEF Partitions
        <3>6. Piece(p).lo < r.end /\ r.end <= Piece(p).hi
            BY <3>4, <3>5 DEF Span, Piece
        <3>7. /\ rows[p] \union chunk[p] = ReadSoFar(p) /\ chunk[p] = {}
              /\ pos[p] = file.size \/ pos[p] > Piece(p).hi
            BY <1>1, <2>2 DEF CsvInv, TaskInv
        <3>8. Piece(p) \in Pieces /\ pos[p] \in Nat
            BY <1>1, <2>2, <3>1, ScanFacts DEF CsvInv, TypeOK
        <3>9. r.end <= pos[p]
            BY <3>1, <3>2, <3>3, <3>6, <3>7, <3>8 DEF Pieces
        <3> QED
            BY <3>6, <3>7, <3>9 DEF ReadSoFar
    <2> QED
        BY <2>3, <2>4
<1> QED
    BY <1>1, Invariance, PTL

-----------------------------------------------------------------------------
(* The scan of a Parquet file. *)

-----------------------------------------------------------------------------
(* The ranges. *)

LEMMA MultipleGrows ==
    ASSUME NEW c \in Nat, NEW k \in Nat, NEW n \in Nat, k <= n
    PROVE  c * k <= c * n /\ c * k \in Nat /\ c * n \in Nat
<1>1. c * n = c * k + c * (n - k)
    OBVIOUS
<1>2. c * (n - k) \in Nat /\ c * k \in Nat /\ c * n \in Nat
    OBVIOUS
<1> QED
    BY <1>1, <1>2

\* A file with row groups and a scan with tasks.
Scanned == n_row_groups \in Nat \ {0} /\ npartitions \in Nat \ {0}

LEMMA UsedFacts ==
    ASSUME Scanned
    PROVE  /\ Used \in 1 .. npartitions /\ Used <= n_row_groups
           /\ Used < npartitions => Used = n_row_groups
BY DEF Scanned, Used, Smaller

\* No task without a row group, but for those beyond Used.
LEMMA PerPartitionFacts ==
    ASSUME Scanned
    PROVE  /\ PerPartition \in Nat \ {0}
           /\ Used < npartitions => PerPartition = 1
           /\ PerPartition * Used <= n_row_groups
<1>1. Used \in Nat /\ Used > 0 /\ n_row_groups \in Nat /\ Used <= n_row_groups
    BY UsedFacts DEF Scanned
<1>2. /\ n_row_groups = Used * PerPartition + (n_row_groups % Used)
      /\ n_row_groups % Used \in 0 .. Used - 1
      /\ PerPartition \in Nat
    BY <1>1, DivMod DEF PerPartition
<1>3. Used * PerPartition = PerPartition * Used /\ PerPartition * Used \in Nat
    BY <1>1, <1>2
<1>4. PerPartition # 0
    BY <1>1, <1>2
<1>5. ASSUME Used = n_row_groups PROVE PerPartition = 1
    BY <1>1, <1>5 DEF PerPartition
<1> QED
    BY <1>1, <1>2, <1>3, <1>4, <1>5, UsedFacts

LEMMA RangeFacts ==
    ASSUME Scanned, NEW p \in Tasks
    PROVE  /\ RangeOf(p).lo = PerPartition * p /\ RangeOf(p).lo \in Nat
           /\ RangeOf(p).hi = (IF p = Used - 1 THEN n_row_groups ELSE PerPartition * (p + 1))
           /\ RangeOf(p).hi \in Nat
<1>1. p \in Nat /\ PerPartition \in Nat /\ n_row_groups \in Nat
    BY PerPartitionFacts DEF Tasks, Scanned
<1> QED
    BY <1>1, MultipleGrows DEF RangeOf, IsLast

\* The range of a task ends where that of a later one starts, or before.
LEMMA RangesApart ==
    ASSUME Scanned, NEW p \in Tasks, NEW q \in Tasks, p < q
    PROVE  RangeOf(p).hi <= RangeOf(q).lo
<1>1. p \in Nat /\ q \in 0 .. npartitions - 1 /\ p + 1 <= q /\ npartitions \in Nat
    BY DEF Tasks, Scanned
<1>2. PerPartition \in Nat /\ Used \in Nat /\ n_row_groups \in Nat
    BY UsedFacts, PerPartitionFacts DEF Scanned
<1>3. CASE p = Used - 1
    <2>1. Used < npartitions /\ Used <= q
        BY <1>1, <1>2, <1>3
    <2>2. PerPartition = 1 /\ Used = n_row_groups
        BY <2>1, UsedFacts, PerPartitionFacts
    <2>3. RangeOf(q).lo = q /\ RangeOf(p).hi = n_row_groups
        BY <1>1, <1>3, <2>2, RangeFacts
    <2> QED
        BY <2>1, <2>2, <2>3
<1>4. CASE p # Used - 1
    <2>1. RangeOf(p).hi = PerPartition * (p + 1) /\ RangeOf(q).lo = PerPartition * q
        BY <1>4, RangeFacts
    <2> QED
        BY <1>1, <1>2, <2>1, MultipleGrows
<1> QED
    BY <1>3, <1>4

LEMMA RangesCover ==
    ASSUME Scanned, NEW g \in 0 .. n_row_groups - 1
    PROVE  \E p \in Tasks : RangeOf(p).lo <= g /\ g < RangeOf(p).hi
<1>1. /\ PerPartition \in Nat /\ PerPartition > 0 /\ g \in Nat /\ g < n_row_groups
      /\ Used \in 1 .. npartitions /\ npartitions \in Nat /\ n_row_groups \in Nat
    BY UsedFacts, PerPartitionFacts DEF Scanned
<1> DEFINE q == g \div PerPartition
<1>2. /\ g = PerPartition * q + (g % PerPartition) /\ g % PerPartition \in 0 .. PerPartition - 1
      /\ q \in Nat
    BY <1>1, DivMod
<1> HIDE DEF q
<1>3. PerPartition * q \in Nat /\ PerPartition * q <= g /\ g < PerPartition * (q + 1)
    <2>1. PerPartition * q \in Nat
        BY <1>1, <1>2
    <2>2. PerPartition * (q + 1) = PerPartition * q + PerPartition
        BY <1>1, <1>2
    <2> QED
        BY <1>1, <1>2, <2>1, <2>2
<1>4. CASE q < Used
    <2>1. q \in Tasks
        BY <1>1, <1>2, <1>4 DEF Tasks
    <2>2. RangeOf(q).lo <= g /\ g < RangeOf(q).hi
        BY <1>1, <1>3, <2>1, RangeFacts
    <2> QED
        BY <2>1, <2>2
<1>5. CASE ~(q < Used)
    <2>1. Used - 1 \in Tasks /\ Used - 1 \in Nat /\ Used - 1 <= q
        BY <1>1, <1>2, <1>5 DEF Tasks
    <2>2. PerPartition * (Used - 1) <= PerPartition * q /\ PerPartition * (Used - 1) \in Nat
        BY <1>1, <1>2, <2>1, MultipleGrows
    <2>3. RangeOf(Used - 1).lo = PerPartition * (Used - 1) /\ RangeOf(Used - 1).hi = n_row_groups
        BY <2>1, RangeFacts
    <2>4. RangeOf(Used - 1).lo <= g /\ g < RangeOf(Used - 1).hi
        BY <1>1, <1>3, <2>2, <2>3
    <2> QED
        BY <2>1, <2>4
<1> QED
    BY <1>4, <1>5

-----------------------------------------------------------------------------
(* Sorting. *)

\* Different numbers.
Different(s, n) ==
    /\ DOMAIN s = 1 .. n
    /\ \A i \in 1 .. n : s[i] \in Nat
    /\ \A i, j \in 1 .. n : s[i] = s[j] => i = j

Sorts(q, s, n) ==
    /\ q \in [1 .. n -> 1 .. n]
    /\ \A i, j \in 1 .. n : i < j => s[q[i]] < s[q[j]]

\* No more numbers up to n than n are different.
LEMMA NoMoreThan ==
    ASSUME NEW m \in Nat, NEW n \in Nat, NEW f \in [1 .. m -> 1 .. n],
           \A i, j \in 1 .. m : f[i] = f[j] => i = j
    PROVE  m <= n
<1> SUFFICES ASSUME n < m PROVE FALSE
    OBVIOUS
<1>1. /\ IsFiniteSet(1 .. m) /\ Cardinality(1 .. m) = m
      /\ IsFiniteSet(1 .. n) /\ Cardinality(1 .. n) = n
    BY FS_Interval
<1>2. PICK i, j \in 1 .. m : i # j /\ f[i] = f[j]
    BY <1>1, FS_PigeonHole
<1> QED
    BY <1>2

\* What sorts reaches every place.
LEMMA SortReaches ==
    ASSUME NEW n \in Nat, NEW s, NEW q, Different(s, n), Sorts(q, s, n), NEW x \in 1 .. n
    PROVE  \E i \in 1 .. n : q[i] = x
<1> SUFFICES ASSUME \A i \in 1 .. n : q[i] # x PROVE FALSE
    OBVIOUS
<1>1. /\ IsFiniteSet(1 .. n) /\ Cardinality(1 .. n) = n
    BY FS_Interval
<1>2. IsFiniteSet((1 .. n) \ {x}) /\ Cardinality((1 .. n) \ {x}) = n - 1
    BY <1>1, FS_RemoveElement
<1>3. q \in [1 .. n -> (1 .. n) \ {x}]
    BY DEF Sorts
<1>4. PICK i, j \in 1 .. n : i # j /\ q[i] = q[j]
    <2>1. PICK A, B : A = 1 .. n /\ B = (1 .. n) \ {x}
        OBVIOUS
    <2>2. IsFiniteSet(A) /\ IsFiniteSet(B) /\ Cardinality(B) < Cardinality(A) /\ q \in [A -> B]
        BY <1>1, <1>2, <1>3, <2>1
    <2> QED
        BY <2>1, <2>2, FS_PigeonHole
<1>5. /\ \A k \in 1 .. n : s[q[k]] \in Nat
      /\ \A k, l \in 1 .. n : k < l => s[q[k]] < s[q[l]]
    BY DEF Different, Sorts
<1>6. i < j \/ j < i
    BY <1>4
<1> QED
    BY <1>4, <1>5, <1>6

LEMMA SortUnique ==
    ASSUME NEW n \in Nat, NEW s, NEW q, NEW r, Different(s, n), Sorts(q, s, n), Sorts(r, s, n)
    PROVE  q = r
<1> DEFINE a == [i \in 1 .. n |-> s[q[i]]]
           b == [i \in 1 .. n |-> s[r[i]]]
<1>1. /\ q \in [1 .. n -> 1 .. n] /\ r \in [1 .. n -> 1 .. n]
      /\ \A i \in 1 .. n : s[i] \in Nat
    BY DEF Different, Sorts
<1>2. a \in Seq(Int) /\ b \in Seq(Int) /\ DOMAIN a = 1 .. n /\ DOMAIN b = 1 .. n
    <2>1. ASSUME NEW i \in 1 .. n PROVE s[q[i]] \in Int /\ s[r[i]] \in Int
        <3>1. q[i] \in 1 .. n /\ r[i] \in 1 .. n
            BY <1>1
        <3>2. s[q[i]] \in Nat /\ s[r[i]] \in Nat
            BY <1>1, <3>1
        <3> QED
            BY <3>2
    <2>2. a \in [1 .. n -> Int] /\ b \in [1 .. n -> Int]
        BY <2>1
    <2> HIDE DEF a, b
    <2>3. \A f \in [1 .. n -> Int] : f \in Seq(Int) /\ DOMAIN f = 1 .. n
        BY SeqDef
    <2> QED
        BY <2>2, <2>3
<1>3. Growing(a) /\ Growing(b)
    BY DEF Growing, Sorts
<1>4. \A x \in 1 .. n : (\E i \in 1 .. n : q[i] = x) /\ (\E i \in 1 .. n : r[i] = x)
    BY SortReaches
<1>5. \A i \in 1 .. n : a[i] = s[q[i]] /\ b[i] = s[r[i]]
    OBVIOUS
<1> HIDE DEF a, b
<1>6. {a[i] : i \in DOMAIN a} = {b[i] : i \in DOMAIN b}
    <2>1. ASSUME NEW i \in 1 .. n PROVE a[i] \in {b[j] : j \in 1 .. n}
        <3>1. PICK j \in 1 .. n : r[j] = q[i]
            BY <1>1, <1>4
        <3>2. a[i] = b[j]
            BY <1>5, <3>1
        <3> QED
            BY <3>2
    <2>2. ASSUME NEW i \in 1 .. n PROVE b[i] \in {a[j] : j \in 1 .. n}
        <3>1. PICK j \in 1 .. n : q[j] = r[i]
            BY <1>1, <1>4
        <3>2. b[i] = a[j]
            BY <1>5, <3>1
        <3> QED
            BY <3>2
    <2>3. {a[i] : i \in 1 .. n} = {b[i] : i \in 1 .. n}
        BY <2>1, <2>2
    <2> QED
        BY <1>2, <2>3
<1>7. a = b
    BY <1>2, <1>3, <1>6, GrowingUnique
<1>8. ASSUME NEW i \in 1 .. n PROVE q[i] = r[i]
    <2>1. s[q[i]] = s[r[i]] /\ q[i] \in 1 .. n /\ r[i] \in 1 .. n
        BY <1>1, <1>5, <1>7
    <2> QED
        BY <2>1 DEF Different
<1> QED
    BY <1>1, <1>8

LEMMA HasBound ==
    ASSUME NEW n \in Nat, NEW s, \A i \in 1 .. n : s[i] \in Nat
    PROVE  \E top \in Nat : \A i \in 1 .. n : s[i] < top
<1> DEFINE T == {m \in Nat : m <= n => \E top \in Nat : \A i \in 1 .. m : s[i] < top}
<1>1. 0 \in T
    OBVIOUS
<1>2. ASSUME NEW m \in Nat, m \in T PROVE m + 1 \in T
    <2> SUFFICES ASSUME m + 1 <= n PROVE \E top \in Nat : \A i \in 1 .. m + 1 : s[i] < top
        OBVIOUS
    <2>1. PICK top \in Nat : \A i \in 1 .. m : s[i] < top
        BY <1>2
    <2>2. s[m + 1] \in Nat /\ \A i \in 1 .. m : s[i] \in Nat
        OBVIOUS
    <2>3. PICK high \in Nat : top <= high /\ s[m + 1] < high
        <3>1. CASE s[m + 1] < top
            BY <3>1
        <3>2. CASE top <= s[m + 1]
            <4>1. s[m + 1] + 1 \in Nat /\ top <= s[m + 1] + 1 /\ s[m + 1] < s[m + 1] + 1
                BY <2>2, <3>2
            <4> QED
                BY <4>1
        <3> QED
            BY <2>2, <3>1, <3>2
    <2>4. \A i \in 1 .. m + 1 : i \in 1 .. m \/ i = m + 1
        OBVIOUS
    <2>5. \A i \in 1 .. m + 1 : s[i] < high
        BY <2>1, <2>2, <2>3, <2>4
    <2> QED
        BY <2>5
<1>3. Nat \subseteq T
    <2> HIDE DEF T
    <2> QED
        BY <1>1, <1>2, NatInd
<1>4. n \in T
    BY <1>3
<1> QED
    BY <1>4

LEMMA SortExists ==
    ASSUME NEW n \in Nat, NEW s, Different(s, n)
    PROVE  \E q : Sorts(q, s, n)
<1>1. /\ \A i \in 1 .. n : s[i] \in Nat
      /\ \A i, j \in 1 .. n : s[i] = s[j] => i = j
    BY DEF Different
<1>2. PICK top \in Nat : \A i \in 1 .. n : s[i] < top
    BY <1>1, HasBound
<1>3. PICK S : S = {s[i] + 1 : i \in 1 .. n}
    OBVIOUS
<1>4. \A x \in S : \E i \in 1 .. n : x = s[i] + 1
    BY <1>3
<1>5. \A i \in 1 .. n : s[i] + 1 \in S \intersect 1 .. top
    BY <1>1, <1>2, <1>3
<1>6. PICK e \in Seq(1 .. top) : Growing(e) /\ {e[i] : i \in DOMAIN e} = S \intersect 1 .. top
    BY UpToFacts
<1>7. PICK m \in Nat : m = Len(e) /\ DOMAIN e = 1 .. m /\ \A i \in 1 .. m : e[i] \in 1 .. top
    BY LenProperties, ElementOfSeq
<1>8. \A i \in 1 .. m : e[i] \in S
    BY <1>6, <1>7
<1>9. \A i \in 1 .. n : \E j \in 1 .. m : e[j] = s[i] + 1
    BY <1>5, <1>6, <1>7
<1>10. \A i, j \in 1 .. m : i < j => e[i] < e[j]
    BY <1>6, <1>7 DEF Growing
<1> DEFINE f == [i \in 1 .. m |-> CHOOSE j \in 1 .. n : e[i] = s[j] + 1]
           g == [i \in 1 .. n |-> CHOOSE j \in 1 .. m : e[j] = s[i] + 1]
<1>11. \A i \in 1 .. m : f[i] \in 1 .. n /\ e[i] = s[f[i]] + 1
    BY <1>4, <1>8
<1>12. \A i \in 1 .. n : g[i] \in 1 .. m /\ e[g[i]] = s[i] + 1
    BY <1>9
<1>13. DOMAIN f = 1 .. m /\ DOMAIN g = 1 .. n /\ f = [i \in 1 .. m |-> f[i]] /\ g = [i \in 1 .. n |-> g[i]]
    OBVIOUS
<1> HIDE DEF f, g
<1>14. f \in [1 .. m -> 1 .. n] /\ g \in [1 .. n -> 1 .. m]
    BY <1>11, <1>12, <1>13
<1>15. m <= n
    <2>1. ASSUME NEW i \in 1 .. m, NEW j \in 1 .. m, f[i] = f[j] PROVE i = j
        <3>1. e[i] = e[j] /\ e[i] \in Int
            BY <1>7, <1>11, <2>1
        <3>2. ~(i < j) /\ ~(j < i)
            BY <1>10, <3>1
        <3> QED
            BY <3>2
    <2> QED
        BY <1>14, <2>1, NoMoreThan
<1>16. n <= m
    <2>1. ASSUME NEW i \in 1 .. n, NEW j \in 1 .. n, g[i] = g[j] PROVE i = j
        <3>1. s[i] + 1 = s[j] + 1
            BY <1>12, <2>1
        <3> QED
            BY <1>1, <3>1
    <2> QED
        BY <1>14, <2>1, NoMoreThan
<1>17. m = n
    BY <1>15, <1>16
<1>18. ASSUME NEW i \in 1 .. n, NEW j \in 1 .. n, i < j PROVE s[f[i]] < s[f[j]]
    <2>1. e[i] < e[j] /\ e[i] = s[f[i]] + 1 /\ e[j] = s[f[j]] + 1
        BY <1>10, <1>11, <1>17, <1>18
    <2>2. s[f[i]] \in Nat /\ s[f[j]] \in Nat
        BY <1>1, <1>11, <1>17
    <2> QED
        BY <2>1, <2>2
<1>19. Sorts(f, s, n)
    BY <1>14, <1>17, <1>18 DEF Sorts
<1> QED
    BY <1>19

LEMMA SortedPlacesFacts ==
    ASSUME NEW n \in Nat, NEW s, Different(s, n)
    PROVE  Sorts(SortedPlaces(s), s, n) /\ Different(SortedPlaces(s), n)
<1>1. DOMAIN s = 1 .. n
    BY DEF Different
<1>2. SortedPlaces(s) = CHOOSE q : Sorts(q, s, n)
    BY <1>1 DEF SortedPlaces, Sorts
<1>3. Sorts(SortedPlaces(s), s, n)
    BY <1>2, SortExists
<1>4. PICK q : q = SortedPlaces(s)
    OBVIOUS
<1>5. /\ q \in [1 .. n -> 1 .. n] /\ \A i, j \in 1 .. n : i < j => s[q[i]] < s[q[j]]
      /\ \A i \in 1 .. n : s[q[i]] \in Nat
    BY <1>3, <1>4 DEF Sorts, Different
<1>6. ASSUME NEW i \in 1 .. n, NEW j \in 1 .. n, q[i] = q[j] PROVE i = j
    <2>1. ~(i < j) /\ ~(j < i)
        BY <1>5, <1>6
    <2> QED
        BY <2>1
<1>7. Different(q, n)
    BY <1>5, <1>6 DEF Different
<1> QED
    BY <1>3, <1>4, <1>7

\* The places sorted by number, in their own order.
LEMMA SortOfSort ==
    ASSUME NEW n \in Nat, NEW s, NEW q, NEW r, Different(s, n), Sorts(q, s, n), Sorts(r, q, n)
    PROVE  \A i \in 1 .. n : q[r[i]] = i
<1>1. q \in [1 .. n -> 1 .. n] /\ r \in [1 .. n -> 1 .. n]
    BY DEF Sorts
<1> DEFINE a == [i \in 1 .. n |-> q[r[i]]]
           id == [i \in 1 .. n |-> i]
<1>2. /\ \A i, j \in 1 .. n : i < j => q[r[i]] < q[r[j]]
      /\ \A i, j \in 1 .. n : i < j => s[q[i]] < s[q[j]]
      /\ \A i \in 1 .. n : s[q[i]] \in Nat
    BY DEF Sorts, Different
<1>3. Different(q, n)
    <2>1. ASSUME NEW i \in 1 .. n, NEW j \in 1 .. n, q[i] = q[j] PROVE i = j
        <3>1. ~(i < j) /\ ~(j < i)
            BY <1>2, <2>1
        <3> QED
            BY <3>1
    <2> QED
        BY <1>1, <2>1 DEF Different
<1>4. \A x \in 1 .. n : \E i \in 1 .. n : q[i] = x
    BY SortReaches
<1>5. \A x \in 1 .. n : \E i \in 1 .. n : r[i] = x
    BY <1>3, SortReaches
<1>6. Sorts(a, id, n) /\ Sorts(id, id, n)
    BY <1>1, <1>2 DEF Sorts
<1>7. Different(id, n)
    BY DEF Different
<1>8. \A i \in 1 .. n : a[i] = q[r[i]] /\ id[i] = i
    OBVIOUS
<1> HIDE DEF a, id
<1>9. a = id
    BY <1>6, <1>7, SortUnique
<1> QED
    BY <1>8, <1>9

-----------------------------------------------------------------------------
(* What a task has returned. *)

Group(p, i) == chunks[p][i].group
Taken(p, g) == RangeOf(p).lo <= g /\ g < RangeOf(p).hi

\* Task p has returned the row groups of its range that its reader has passed, in their order.
UpToDate(p) ==
    /\ \A i \in 1 .. Len(chunks[p]) :
            Group(p, i) \in 0 .. at[p] - 1 /\ Taken(p, Group(p, i))
    /\ \A i, j \in 1 .. Len(chunks[p]) : i < j => Group(p, i) < Group(p, j)
    /\ \A g \in 0 .. at[p] - 1 : Taken(p, g) => \E i \in 1 .. Len(chunks[p]) : Group(p, i) = g
    /\ Len(chunks[p]) <= at[p]

IsSequence(s) == \E S : s \in Seq(S)

ReaderInv(p) ==
    /\ IsSequence(chunks[p])
    /\ at[p] \in 0 .. n_row_groups
    /\ phase[p] \in {"new", "panicked"} => at[p] = 0 /\ chunks[p] = << >>
    /\ phase[p] \in {"reading", "closed"} =>
            n_row_groups > 0 /\ range[p] = RangeOf(p) /\ UpToDate(p)
    /\ phase[p] = "closed" => at[p] = n_row_groups

ScanInv ==
    /\ n_row_groups \in Nat /\ npartitions \in Nat \ {0}
    /\ phase \in [Tasks -> {"new", "reading", "closed", "panicked"}]
    /\ DOMAIN range = Tasks /\ DOMAIN at = Tasks /\ DOMAIN chunks = Tasks
    /\ \A p \in Tasks : ReaderInv(p)

LEMMA InitScanInv == ParquetInit => ScanInv
<1> SUFFICES ASSUME ParquetInit PROVE ScanInv
    OBVIOUS
<1>1. n_row_groups \in Nat /\ npartitions \in Nat \ {0}
    BY CountsAssumption DEF ParquetInit
<1>2. ASSUME NEW p \in Tasks PROVE ReaderInv(p)
    <2>1. << >> \in Seq({})
        OBVIOUS
    <2>2. chunks[p] = << >> /\ at[p] = 0 /\ phase[p] = "new"
        BY <1>2 DEF ParquetInit
    <2> QED
        BY <1>1, <2>1, <2>2 DEF ReaderInv, IsSequence
<1> QED
    BY <1>1, <1>2 DEF ParquetInit, ScanInv

\* What does not depend on the state of the tasks.
LEMMA Unchanged ==
    ASSUME UNCHANGED given
    PROVE  /\ Tasks' = Tasks
           /\ \A p : RangeOf(p)' = RangeOf(p)
           /\ \A p, g : Taken(p, g)' = Taken(p, g)
BY DEF given, Tasks, Taken, RangeOf, PerPartition, Used, IsLast, Smaller

LEMMA OthersKeep ==
    ASSUME UNCHANGED given, NEW q, ReaderInv(q),
           phase'[q] = phase[q], at'[q] = at[q], range'[q] = range[q], chunks'[q] = chunks[q]
    PROVE  ReaderInv(q)'
BY Unchanged DEF ReaderInv, UpToDate, Group, given

LEMMA TryNewInv ==
    ASSUME ScanInv, NEW p \in Tasks, TryNew(p)
    PROVE  ReaderInv(p)'
<1>1. /\ phase'[p] = "reading" /\ range'[p] = RangeOf(p) /\ at'[p] = at[p] /\ chunks'[p] = chunks[p]
      /\ n_row_groups > 0 /\ UNCHANGED given /\ phase[p] = "new"
    BY DEF TryNew, ScanInv
<1>2. at[p] = 0 /\ chunks[p] = << >> /\ IsSequence(chunks[p]) /\ n_row_groups \in Nat
    BY <1>1 DEF ScanInv, ReaderInv
<1>3. UpToDate(p)'
    BY <1>1, <1>2 DEF UpToDate
<1> QED
    BY <1>1, <1>2, <1>3, Unchanged DEF ReaderInv, given

LEMMA SkipInv ==
    ASSUME ScanInv, NEW p \in Tasks, Skip(p)
    PROVE  ReaderInv(p)'
<1>1. /\ at'[p] = at[p] + 1 /\ at[p] < n_row_groups /\ ~InRange(p, at[p])
      /\ phase'[p] = "reading" /\ range'[p] = range[p] /\ chunks'[p] = chunks[p]
      /\ phase[p] = "reading" /\ UNCHANGED given
    BY DEF Skip, ScanInv
<1>2. /\ IsSequence(chunks[p]) /\ at[p] \in 0 .. n_row_groups /\ n_row_groups \in Nat
      /\ n_row_groups > 0 /\ range[p] = RangeOf(p) /\ UpToDate(p)
    BY <1>1 DEF ScanInv, ReaderInv
<1>3. ~Taken(p, at[p]) /\ Len(chunks[p]) \in Nat
    BY <1>1, <1>2 DEF InRange, Taken, IsSequence
<1>4. UpToDate(p)'
    BY <1>1, <1>2, <1>3, Unchanged DEF UpToDate, Group
<1> QED
    BY <1>1, <1>2, <1>4, Unchanged DEF ReaderInv, given

LEMMA NextChunkInv ==
    ASSUME ScanInv, NEW p \in Tasks, NextChunk(p)
    PROVE  ReaderInv(p)'
<1> DEFINE c == [group |-> at[p], columns |-> Reordered(ReaderColumns)]
<1>1. /\ at'[p] = at[p] + 1 /\ at[p] < n_row_groups /\ InRange(p, at[p])
      /\ phase'[p] = "reading" /\ range'[p] = range[p] /\ chunks'[p] = Append(chunks[p], c)
      /\ phase[p] = "reading" /\ UNCHANGED given
    BY DEF NextChunk, ScanInv
<1>2. c.group = at[p]
    OBVIOUS
<1> HIDE DEF c
<1>3. /\ IsSequence(chunks[p]) /\ at[p] \in 0 .. n_row_groups /\ n_row_groups \in Nat
      /\ n_row_groups > 0 /\ range[p] = RangeOf(p) /\ UpToDate(p)
    BY <1>1 DEF ScanInv, ReaderInv
<1>4. PICK S : chunks[p] \in Seq(S)
    BY <1>3 DEF IsSequence
<1>5. Len(chunks[p]) \in Nat
    BY <1>4
<1>6. PICK n \in Nat : n = Len(chunks[p])
    BY <1>5
<1>7. /\ n \in Nat
      /\ chunks'[p] \in Seq(S \union {c}) /\ Len(chunks'[p]) = n + 1
      /\ \A i \in 1 .. n : chunks'[p][i] = chunks[p][i]
      /\ chunks'[p][n + 1] = c
    <2>1. chunks[p] \in Seq(S \union {c}) /\ c \in S \union {c}
        BY <1>4
    <2> QED
        BY <1>1, <1>6, <2>1
<1>8. /\ \A i \in 1 .. n : Group(p, i)' = Group(p, i)
      /\ Group(p, n + 1)' = at[p]
    BY <1>2, <1>7 DEF Group
<1>9. Taken(p, at[p])
    BY <1>1, <1>3 DEF InRange, Taken
<1>10. /\ \A i \in 1 .. n : Group(p, i) \in 0 .. at[p] - 1 /\ Taken(p, Group(p, i))
       /\ \A i, j \in 1 .. n : i < j => Group(p, i) < Group(p, j)
       /\ \A g \in 0 .. at[p] - 1 : Taken(p, g) => \E i \in 1 .. n : Group(p, i) = g
       /\ n <= at[p]
    BY <1>3, <1>6 DEF UpToDate
<1>11. UpToDate(p)'
    <2>1. ASSUME NEW i \in 1 .. n + 1
          PROVE  Group(p, i)' \in 0 .. at[p] /\ Taken(p, Group(p, i)')
        <3>1. CASE i \in 1 .. n
            BY <1>3, <1>8, <1>10, <3>1
        <3>2. CASE i = n + 1
            BY <1>3, <1>8, <1>9, <3>2
        <3> QED
            BY <1>6, <3>1, <3>2
    <2>2. ASSUME NEW i \in 1 .. n + 1, NEW j \in 1 .. n + 1, i < j
          PROVE  Group(p, i)' < Group(p, j)'
        <3>1. i \in 1 .. n
            BY <1>6, <2>2
        <3>2. Group(p, i)' = Group(p, i) /\ Group(p, i) \in 0 .. at[p] - 1
            BY <1>8, <1>10, <3>1
        <3>3. CASE j \in 1 .. n
            BY <1>8, <1>10, <2>2, <3>1, <3>2, <3>3
        <3>4. CASE j = n + 1
            BY <1>3, <1>8, <3>2, <3>4
        <3> QED
            BY <1>6, <3>3, <3>4
    <2>3. ASSUME NEW g \in 0 .. at[p], Taken(p, g)
          PROVE  \E i \in 1 .. n + 1 : Group(p, i)' = g
        <3>1. CASE g = at[p]
            BY <1>6, <1>8, <3>1
        <3>2. CASE g # at[p]
            <4>1. g \in 0 .. at[p] - 1
                BY <1>3, <3>2
            <4>2. PICK i \in 1 .. n : Group(p, i) = g
                BY <1>10, <2>3, <4>1
            <4>3. i \in 1 .. n + 1 /\ Group(p, i)' = g
                BY <1>6, <1>8, <4>2
            <4> QED
                BY <4>3
        <3> QED
            BY <3>1, <3>2
    <2>4. at[p]' - 1 = at[p] /\ Len(chunks[p])' = n + 1 /\ n + 1 <= at[p]'
        BY <1>1, <1>3, <1>6, <1>7, <1>10
    <2>5. \A g : Taken(p, g)' = Taken(p, g)
        BY <1>1, Unchanged
    <2>6. \A i \in 1 .. n + 1 : Group(p, i)' \in 0 .. at[p]' - 1 /\ Taken(p, Group(p, i))'
        BY <2>1, <2>4, <2>5
    <2>7. \A i, j \in 1 .. n + 1 : i < j => Group(p, i)' < Group(p, j)'
        BY <2>2
    <2>8. \A g \in 0 .. at[p]' - 1 : Taken(p, g)' => \E i \in 1 .. n + 1 : Group(p, i)' = g
        BY <2>3, <2>4, <2>5
    <2> QED
        BY <2>4, <2>6, <2>7, <2>8 DEF UpToDate
<1> QED
    BY <1>1, <1>3, <1>7, <1>11, Unchanged DEF ReaderInv, IsSequence, given

LEMMA NextScanInv == ScanInv /\ [ParquetNext]_parquetVars => ScanInv'
<1> SUFFICES ASSUME ScanInv, [ParquetNext]_parquetVars PROVE ScanInv'
    OBVIOUS
<1>1. CASE UNCHANGED parquetVars
    <2>1. UNCHANGED given /\ Tasks' = Tasks
        BY <1>1, Unchanged DEF parquetVars, given
    <2>2. \A q \in Tasks : ReaderInv(q)'
        BY <1>1, <2>1, OthersKeep DEF ScanInv, parquetVars
    <2> QED
        BY <1>1, <2>1, <2>2 DEF ScanInv, parquetVars
<1>2. ASSUME NEW p \in Tasks, TryNew(p) \/ TryNewPanics(p) \/ Skip(p) \/ NextChunk(p) \/ NextNone(p)
      PROVE  ScanInv'
    <2>1. UNCHANGED given /\ Tasks' = Tasks
        BY <1>2, Unchanged DEF TryNew, TryNewPanics, Skip, NextChunk, NextNone
    <2>2. /\ phase' \in [Tasks -> {"new", "reading", "closed", "panicked"}]
          /\ DOMAIN range' = Tasks /\ DOMAIN at' = Tasks /\ DOMAIN chunks' = Tasks
        BY <1>2 DEF TryNew, TryNewPanics, Skip, NextChunk, NextNone, ScanInv
    <2>3. ASSUME NEW q \in Tasks, q # p PROVE ReaderInv(q)'
        <3>1. /\ phase'[q] = phase[q] /\ at'[q] = at[q]
              /\ range'[q] = range[q] /\ chunks'[q] = chunks[q]
            BY <1>2, <2>3 DEF TryNew, TryNewPanics, Skip, NextChunk, NextNone, ScanInv
        <3> QED
            BY <2>1, <3>1, OthersKeep DEF ScanInv
    <2>4. ReaderInv(p)'
        <3>1. CASE TryNew(p)
            BY <3>1, TryNewInv
        <3>2. CASE TryNewPanics(p)
            BY <2>1, <3>2 DEF TryNewPanics, ScanInv, ReaderInv, given
        <3>3. CASE Skip(p)
            BY <3>3, SkipInv
        <3>4. CASE NextChunk(p)
            BY <3>4, NextChunkInv
        <3>5. CASE NextNone(p)
            <4>1. /\ phase'[p] = "closed" /\ phase[p] = "reading" /\ at[p] = n_row_groups
                  /\ UNCHANGED <<range, at, chunks>>
                BY <3>5 DEF NextNone, ScanInv
            <4>2. UpToDate(p)
                BY <4>1 DEF ScanInv, ReaderInv
            <4>3. \A g : Taken(p, g)' <=> Taken(p, g)
                BY <2>1, Unchanged
            <4>4. UpToDate(p)'
                BY <4>1, <4>2, <4>3 DEF UpToDate, Group
            <4> QED
                BY <2>1, <4>1, <4>4, Unchanged DEF ScanInv, ReaderInv, given
        <3> QED
            BY <1>2, <3>1, <3>2, <3>3, <3>4, <3>5
    <2> QED
        BY <2>1, <2>2, <2>3, <2>4 DEF ScanInv, given
<1>3. CASE ParquetTerminated
    BY <1>1, <1>3 DEF ParquetTerminated
<1> QED
    BY <1>1, <1>2, <1>3 DEF ParquetNext

-----------------------------------------------------------------------------
(* The order of the columns. *)

ProjectionInv == input_projection \in Seq(Nat) /\ IsInjective(input_projection)

InOrder(n, V) == CHOOSE d \in [1 .. n -> V] : \A i, j \in DOMAIN d : i < j => d[i] < d[j]

LEMMA InOrderFacts ==
    ASSUME NEW n \in Nat, NEW s, NEW q, NEW V, Different(s, n), Sorts(q, s, n),
           \A i \in 1 .. n : s[i] \in V, \A v \in V : \E i \in 1 .. n : v = s[i]
    PROVE  DOMAIN InOrder(n, V) = 1 .. n /\ \A i \in 1 .. n : InOrder(n, V)[i] = s[q[i]]
<1> DEFINE Good(d) == d \in [1 .. n -> V] /\ \A i, j \in DOMAIN d : i < j => d[i] < d[j]
           e == [i \in 1 .. n |-> s[q[i]]]
<1>1. Good(e)
    <2>1. \A i \in 1 .. n : q[i] \in 1 .. n
        BY DEF Sorts
    <2>2. \A i, j \in 1 .. n : i < j => s[q[i]] < s[q[j]]
        BY DEF Sorts
    <2> QED
        BY <2>1, <2>2
<1>2. PICK c : c = InOrder(n, V)
    OBVIOUS
<1>3. Good(c)
    <2>1. c = CHOOSE d : Good(d)
        BY <1>2 DEF InOrder
    <2> HIDE DEF Good, e
    <2> QED
        BY <1>1, <2>1
<1>4. /\ c \in [1 .. n -> V] /\ DOMAIN c = 1 .. n
      /\ \A i, j \in 1 .. n : i < j => c[i] < c[j]
    BY <1>3
<1> HIDE DEF Good, e
<1>5. PICK r \in [1 .. n -> 1 .. n] : \A i \in 1 .. n : c[i] = s[r[i]]
    <2> DEFINE f == [i \in 1 .. n |-> CHOOSE k \in 1 .. n : c[i] = s[k]]
    <2>1. ASSUME NEW i \in 1 .. n
          PROVE  (CHOOSE k \in 1 .. n : c[i] = s[k]) \in 1 .. n /\ c[i] = s[CHOOSE k \in 1 .. n : c[i] = s[k]]
        <3>1. \E k \in 1 .. n : c[i] = s[k]
            BY <1>4
        <3> QED
            BY <3>1
    <2>2. f \in [1 .. n -> 1 .. n]
        BY <2>1
    <2>3. \A i \in 1 .. n : c[i] = s[f[i]]
        BY <2>1
    <2> QED
        BY <2>2, <2>3
<1>6. \A i, j \in 1 .. n : i < j => s[r[i]] < s[r[j]]
    BY <1>4, <1>5
<1>7. Sorts(r, s, n)
    BY <1>6 DEF Sorts
<1>8. r = q
    BY <1>7, SortUnique
<1> QED
    BY <1>2, <1>4, <1>5, <1>8

\* Sorting the arrays of the reader by their places gives the columns of the projection.
LEMMA ReorderedFacts == ASSUME ProjectionInv PROVE Reordered(ReaderColumns) = input_projection
<1>1. PICK s, n : s = input_projection /\ n = Len(s)
    OBVIOUS
<1>2. n \in Nat /\ Different(s, n)
    <2>1. /\ s \in Seq(Nat) /\ IsInjective(s) /\ n \in Nat /\ DOMAIN s = 1 .. n
          /\ \A i \in 1 .. n : s[i] \in Nat
        BY <1>1, LenProperties, ElementOfSeq DEF ProjectionInv
    <2>2. \A i, j \in 1 .. n : s[i] = s[j] => i = j
        BY <2>1 DEF IsInjective
    <2> QED
        BY <2>1, <2>2 DEF Different
<1>3. PICK q, r : q = SortedPlaces(s) /\ r = SortedPlaces(q)
    OBVIOUS
<1>4. Sorts(q, s, n) /\ Sorts(r, q, n)
    BY <1>2, <1>3, SortedPlacesFacts
<1>5. PICK c : c = ReaderColumns
    OBVIOUS
<1>6. DOMAIN c = 1 .. n /\ \A i \in 1 .. n : c[i] = s[q[i]]
    <2>1. PICK V : V = Range(s)
        OBVIOUS
    <2>2. /\ DOMAIN s = 1 .. n
          /\ \A i \in 1 .. n : s[i] \in V
          /\ \A v \in V : \E i \in 1 .. n : v = s[i]
        BY <1>2, <2>1 DEF Different, Range
    <2>3. c = InOrder(n, V)
        BY <1>1, <1>5, <2>1, <2>2 DEF ReaderColumns, InOrder
    <2> QED
        BY <1>2, <1>4, <2>2, <2>3, InOrderFacts
<1>7. \A i \in 1 .. n : q[r[i]] = i
    BY <1>2, <1>4, SortOfSort
<1>8. Reordered(c) = [i \in 1 .. n |-> c[r[i]]]
    BY <1>1, <1>3, <1>6 DEF Reordered
<1>9. ASSUME NEW i \in 1 .. n PROVE c[r[i]] = s[i]
    <2>1. r[i] \in 1 .. n
        BY <1>4 DEF Sorts
    <2>2. c[r[i]] = s[q[r[i]]]
        BY <1>6, <2>1
    <2> QED
        BY <1>7, <2>2
<1>10. s = [i \in 1 .. n |-> s[i]]
    <2>1. s \in Seq(Nat) /\ DOMAIN s = 1 .. n
        BY <1>1, <1>2 DEF ProjectionInv, Different
    <2> QED
        BY <2>1
<1>11. Reordered(c) = s
    BY <1>8, <1>9, <1>10
<1> QED
    BY <1>1, <1>5, <1>11

ColumnsInv ==
    /\ ProjectionInv
    /\ \A p \in Tasks : \A i \in 1 .. Len(chunks[p]) : chunks[p][i].columns = input_projection

LEMMA ColumnsNext == ScanInv /\ ColumnsInv /\ [ParquetNext]_parquetVars => ColumnsInv'
<1> SUFFICES ASSUME ScanInv, ColumnsInv, [ParquetNext]_parquetVars PROVE ColumnsInv'
    OBVIOUS
<1>1. CASE UNCHANGED chunks /\ UNCHANGED given
    BY <1>1, Unchanged DEF ColumnsInv, ProjectionInv, given
<1>2. ASSUME NEW p \in Tasks, NextChunk(p) PROVE ColumnsInv'
    <2>1. PICK c : c = [group |-> at[p], columns |-> Reordered(ReaderColumns)]
        OBVIOUS
    <2>2. c.columns = input_projection
        BY <2>1, ReorderedFacts DEF ColumnsInv
    <2>3. /\ chunks' = [chunks EXCEPT ![p] = Append(@, c)] /\ UNCHANGED given
          /\ DOMAIN chunks = Tasks /\ Tasks' = Tasks
        BY <1>2, <2>1, Unchanged DEF NextChunk, ScanInv
    <2>4. ProjectionInv' /\ input_projection' = input_projection
        BY <2>3 DEF ColumnsInv, ProjectionInv, given
    <2>5. ASSUME NEW q \in Tasks, NEW i \in 1 .. Len(chunks'[q])
          PROVE  chunks'[q][i].columns = input_projection
        <3>1. CASE q # p
            <4>1. chunks'[q] = chunks[q]
                BY <2>3, <3>1
            <4> QED
                BY <2>5, <4>1 DEF ColumnsInv
        <3>2. CASE q = p
            <4>1. PICK S, s : s \in Seq(S) /\ s = chunks[p]
                BY DEF ScanInv, ReaderInv, IsSequence
            <4>2. chunks'[p] = Append(s, c)
                BY <2>3, <4>1
            <4>3. /\ Len(s) \in Nat /\ Len(Append(s, c)) = Len(s) + 1
                  /\ \A j \in 1 .. Len(s) : Append(s, c)[j] = s[j]
                  /\ Append(s, c)[Len(s) + 1] = c
                BY <4>1, LenProperties, AppendProperties
            <4>4. i \in 1 .. Len(s) \/ i = Len(s) + 1
                BY <2>5, <3>2, <4>2, <4>3
            <4>5. \A j \in 1 .. Len(s) : s[j].columns = input_projection
                BY <4>1 DEF ColumnsInv
            <4> QED
                BY <2>2, <3>2, <4>2, <4>3, <4>4, <4>5
        <3> QED
            BY <3>1, <3>2
    <2> QED
        BY <2>3, <2>4, <2>5 DEF ColumnsInv
<1>3. CASE UNCHANGED parquetVars \/ ParquetTerminated
    BY <1>1, <1>3 DEF parquetVars, given, ParquetTerminated
<1>4. ASSUME NEW p \in Tasks, TryNew(p) \/ TryNewPanics(p) \/ Skip(p) \/ NextNone(p) PROVE ColumnsInv'
    BY <1>1, <1>4 DEF TryNew, TryNewPanics, Skip, NextNone
<1> QED
    BY <1>2, <1>3, <1>4 DEF ParquetNext

LEMMA ReturnedFacts ==
    ASSUME ScanInv, NEW x \in Returned
    PROVE  /\ x[1] \in Tasks /\ x[2] \in 1 .. Len(chunks[x[1]]) /\ x = <<x[1], x[2]>>
           /\ n_row_groups > 0 /\ UpToDate(x[1])
<1>1. PICK p \in Tasks, i \in 1 .. n_row_groups : x = <<p, i>>
    BY DEF Returned
<1>2. i \in DOMAIN chunks[p]
    BY <1>1 DEF Returned
<1>3. ReaderInv(p) /\ phase[p] \in {"new", "reading", "closed", "panicked"}
    BY DEF ScanInv
<1>4. i \in 1 .. Len(chunks[p]) /\ chunks[p] # << >>
    BY <1>2, <1>3 DEF ReaderInv, IsSequence
<1> QED
    BY <1>1, <1>3, <1>4 DEF ReaderInv

\* No row group is read by two tasks, or twice by one, whatever n_row_groups and npartitions are.
THEOREM NothingIsReadTwice == ParquetSpec => []NoRowGroupTwice
<1>1. ScanInv => NoRowGroupTwice
    <2> SUFFICES ASSUME ScanInv, NEW x \in Returned, NEW y \in Returned,
                        chunks[x[1]][x[2]].group = chunks[y[1]][y[2]].group
                 PROVE  x = y
        BY DEF NoRowGroupTwice
    <2> DEFINE g == Group(x[1], x[2])
    <2>1. Scanned
        BY ReturnedFacts DEF ScanInv, Scanned
    <2>2. g = Group(y[1], y[2])
        BY DEF Group
    <2>3. Taken(x[1], g) /\ Taken(y[1], g) /\ g \in Int
        BY <2>2, ReturnedFacts DEF UpToDate
    <2>4. x[1] \in Tasks /\ y[1] \in Tasks
        BY ReturnedFacts
    <2> HIDE DEF g
    <2>5. ASSUME NEW p \in Tasks, NEW q \in Tasks, p < q, Taken(p, g), Taken(q, g) PROVE FALSE
        <3>1. RangeOf(p).hi <= RangeOf(q).lo /\ RangeOf(p).hi \in Nat /\ RangeOf(q).lo \in Nat
            BY <2>1, <2>5, RangesApart, RangeFacts
        <3> QED
            BY <2>3, <2>5, <3>1 DEF Taken
    <2>6. x[1] = y[1]
        <3>1. x[1] \in Int /\ y[1] \in Int
            BY <2>4 DEF Tasks
        <3> QED
            BY <2>3, <2>4, <2>5, <3>1
    <2>7. x[2] = y[2]
        <3>1. x[2] \in 1 .. Len(chunks[x[1]]) /\ y[2] \in 1 .. Len(chunks[x[1]]) /\ UpToDate(x[1])
            BY <2>6, ReturnedFacts
        <3>2. ~(x[2] < y[2]) /\ ~(y[2] < x[2])
            BY <2>2, <2>3, <2>6, <3>1 DEF UpToDate, g
        <3> QED
            BY <3>1, <3>2
    <2> QED
        BY <2>6, <2>7, ReturnedFacts
<1> QED
    BY <1>1, InitScanInv, NextScanInv, PTL DEF ParquetSpec

\* When every task has come to its end, every row group of the file has been read.
THEOREM EverythingIsRead == ParquetSpec => []AllRowGroupsRead
<1>1. ScanInv => AllRowGroupsRead
    <2> SUFFICES ASSUME ScanInv, \A p \in Tasks : phase[p] = "closed"
                 PROVE  {chunks[x[1]][x[2]].group : x \in Returned} = 0 .. n_row_groups - 1
        BY DEF AllRowGroupsRead
    <2>1. \A p \in Tasks :
            /\ n_row_groups > 0 /\ at[p] = n_row_groups /\ UpToDate(p) /\ IsSequence(chunks[p])
        BY DEF ScanInv, ReaderInv
    <2>2. Scanned
        <3>1. 0 \in Tasks
            BY DEF ScanInv, Tasks
        <3> QED
            BY <2>1, <3>1 DEF ScanInv, Scanned
    <2>3. ASSUME NEW x \in Returned PROVE chunks[x[1]][x[2]].group \in 0 .. n_row_groups - 1
        BY <2>1, ReturnedFacts DEF UpToDate, Group
    <2>4. ASSUME NEW g \in 0 .. n_row_groups - 1
          PROVE  \E x \in Returned : chunks[x[1]][x[2]].group = g
        <3>1. PICK p \in Tasks : Taken(p, g)
            BY <2>2, RangesCover DEF Taken
        <3>2. PICK i \in 1 .. Len(chunks[p]) : Group(p, i) = g
            BY <2>1, <3>1 DEF UpToDate
        <3>3. Len(chunks[p]) <= n_row_groups /\ Len(chunks[p]) \in Nat /\ DOMAIN chunks[p] = 1 .. Len(chunks[p])
            BY <2>1 DEF UpToDate, IsSequence
        <3>4. i \in 1 .. n_row_groups
            BY <2>2, <3>3 DEF Scanned
        <3>5. <<p, i>> \in Returned
            BY <3>3, <3>4 DEF Returned
        <3>6. chunks[<<p, i>>[1]][<<p, i>>[2]].group = g
            BY <3>2 DEF Group
        <3> QED
            BY <3>5, <3>6
    <2> QED
        BY <2>3, <2>4
<1> QED
    BY <1>1, InitScanInv, NextScanInv, PTL DEF ParquetSpec

\* The columns of every chunk are those of the projection, in its order: the two sorts undo
\* what the reader does to it.
THEOREM ColumnsInOrder == ParquetSpec => []ColumnsAsAsked
<1>1. ParquetInit => ColumnsInv
    BY ProjectionsAssumption DEF ParquetInit, ColumnsInv, ProjectionInv
<1>2. ScanInv /\ ColumnsInv => ColumnsAsAsked
    <2> SUFFICES ASSUME ScanInv, ColumnsInv, NEW x \in Returned
                 PROVE  chunks[x[1]][x[2]].columns = input_projection
        BY DEF ColumnsAsAsked
    <2> QED
        BY ReturnedFacts DEF ColumnsInv
<1> QED
    BY <1>1, <1>2, ColumnsNext, InitScanInv, NextScanInv, PTL DEF ParquetSpec
=============================================================================
