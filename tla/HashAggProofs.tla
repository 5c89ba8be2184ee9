--------------------------- MODULE HashAggProofs ---------------------------
(***************************************************************************)
(* Theorems about HashAgg, for any keys, any hash function and any size of *)
(* the table: whatever collides, a key is found again, has one entry, and  *)
(* its rows are counted.                                                   *)
(***************************************************************************)
EXTENDS HashAgg, DataInduction, FiniteSetTheorems, SequenceTheorems, TLAPS

-----------------------------------------------------------------------------
(* Arithmetic. *)

LEMMA Remainder ==
    ASSUME NEW a \in Int, NEW n \in Nat, n > 0
    PROVE  a % n \in 0 .. n - 1 /\ a \div n \in Int /\ a = n * (a \div n) + (a % n)
OBVIOUS

LEMMA RemainderUnique ==
    ASSUME NEW n \in Nat, NEW q \in Int, NEW r \in 0 .. n - 1, n > 0
    PROVE  (n * q + r) % n = r
<1>1. PICK a \in Int : a = n * q + r
    OBVIOUS
<1>2. PICK p \in Int : \E s \in 0 .. n - 1 : a % n = s /\ a = n * p + s
    BY Remainder
<1>3. PICK s \in 0 .. n - 1 : a % n = s /\ a = n * p + s
    BY <1>2
<1>4. n * (q - p) = s - r
    <2>1. n * (q - p) = n * q - n * p
        OBVIOUS
    <2> QED
        BY <1>1, <1>3, <2>1
<1>5. ASSUME q - p >= 1 PROVE FALSE
    <2>1. n * (q - p) >= n
        BY <1>5
    <2> QED
        BY <1>4, <2>1
<1>6. ASSUME q - p <= -1 PROVE FALSE
    <2>1. n * (q - p) <= -n
        BY <1>6
    <2> QED
        BY <1>4, <2>1
<1>7. q = p
    BY <1>5, <1>6
<1> QED
    BY <1>1, <1>3, <1>4, <1>7

LEMMA RemainderOfNext ==
    ASSUME NEW a \in Int, NEW n \in Nat, n > 0
    PROVE  ((a % n) + 1) % n = (a + 1) % n
<1>1. PICK q \in Int, r \in 0 .. n - 1 : a = n * q + r /\ a % n = r
    BY Remainder
<1>2. CASE r + 1 < n
    <2>1. r + 1 \in 0 .. n - 1
        BY <1>2
    <2>2. a + 1 = n * q + (r + 1) /\ r + 1 = n * 0 + (r + 1)
        BY <1>1
    <2>3. (n * q + (r + 1)) % n = r + 1 /\ (n * 0 + (r + 1)) % n = r + 1
        BY <2>1, RemainderUnique
    <2> QED
        BY <1>1, <2>2, <2>3
<1>3. CASE r + 1 = n
    <2>1. a + 1 = n * (q + 1) + 0 /\ r + 1 = n * 1 + 0
        BY <1>1, <1>3
    <2>2. (n * (q + 1) + 0) % n = 0 /\ (n * 1 + 0) % n = 0
        BY RemainderUnique
    <2> QED
        BY <1>1, <2>1, <2>2
<1> QED
    BY <1>2, <1>3

LEMMA WrapFacts ==
    ASSUME NEW x \in Int
    PROVE  Wrap(x) \in Int64 /\ Wrap(Wrap(x) + 1) = Wrap(x + 1)
<1>1. PICK m \in Nat : m = MaxInt + 1
    BY ValuesAssumption
<1>2. m > 0 /\ MaxInt = m - 1 /\ 2 * MaxInt + 2 = 2 * m /\ 2 * m \in Nat /\ 2 * m > 0
    BY <1>1, ValuesAssumption
<1>3. \A y \in Int : Wrap(y) = ((y + m) % (2 * m)) - m
    BY <1>2 DEF Wrap
<1>4. PICK r : r = (x + m) % (2 * m)
    OBVIOUS
<1>5. r \in 0 .. 2 * m - 1
    BY <1>2, <1>4, Remainder
<1>6. Wrap(x) = r - m
    BY <1>3, <1>4
<1>7. Wrap(x) \in Int64
    BY <1>2, <1>5, <1>6 DEF Int64
<1>8. Wrap(Wrap(x) + 1) = ((r + 1) % (2 * m)) - m
    <2>1. (r - m + 1) + m = r + 1 /\ r - m + 1 \in Int
        BY <1>5
    <2> QED
        BY <1>3, <1>6, <2>1
<1>9. Wrap(x + 1) = ((x + m + 1) % (2 * m)) - m
    <2>1. (x + 1) + m = x + m + 1
        OBVIOUS
    <2> QED
        BY <1>3, <2>1
<1>10. (r + 1) % (2 * m) = (x + m + 1) % (2 * m)
    <2>1. x + m \in Int
        OBVIOUS
    <2> QED
        BY <1>2, <1>4, <2>1, RemainderOfNext
<1> QED
    BY <1>7, <1>8, <1>9, <1>10

LEMMA WrapOne == Wrap(1) = 1
<1>1. PICK m \in Nat : m = MaxInt + 1 /\ m > 1
    BY ValuesAssumption
<1>2. MaxInt = m - 1 /\ 2 * MaxInt + 2 = 2 * m /\ 2 * m \in Nat /\ 2 * m > 0 /\ m + 1 \in 0 .. 2 * m - 1
    BY <1>1, ValuesAssumption
<1>3. ((2 * m) * 0 + (m + 1)) % (2 * m) = m + 1
    BY <1>2, RemainderUnique
<1>4. (2 * m) * 0 + (m + 1) = 1 + MaxInt + 1
    BY <1>2
<1>5. (1 + MaxInt + 1) % (2 * MaxInt + 2) = m + 1
    BY <1>2, <1>3, <1>4
<1> QED
    BY <1>2, <1>5 DEF Wrap

LEMMA HomeFacts == ASSUME NEW k \in Keys PROVE Home(k) \in Buckets
BY TableAssumption, Remainder DEF Home, Buckets

\* What is between a bucket and the next one is what was, and the bucket itself.
LEMMA BetweenNext ==
    ASSUME NEW a \in Buckets, bucket \in Buckets
    PROVE  Between(a, NextBucket) \subseteq Between(a, bucket) \union {bucket}
BY TableAssumption DEF Between, NextBucket, Buckets

\* Of two other buckets, one lies before the other.
LEMMA BetweenTotal ==
    ASSUME NEW a \in Buckets, NEW b \in Buckets, NEW c \in Buckets, b # c
    PROVE  b \in Between(a, c) \/ c \in Between(a, b)
BY TableAssumption DEF Between, Buckets

-----------------------------------------------------------------------------
(* The invariant. *)

Row == [key : Keys, val : Values]

\* The rows at hand are the last of the input.
Suffix ==
    /\ Len(chunk) <= Len(input)
    /\ \A i \in 1 .. Len(chunk) : chunk[i] = input[Len(input) - Len(chunk) + i]
    /\ pc = "next" => chunk = << >>

\* A probe has passed entries of other keys only.
Passed ==
    pc = "probe" =>
        \A b \in Between(Home(row.key), bucket) : b \in Occupied /\ hvec[b].key # row.key

TableInv == NoGapBefore /\ OneEntryPerKey /\ EntriesCounted
RowsInv == EntriesAreKeys /\ CountsRight

HInv == TypeOK /\ Suffix /\ TableInv /\ Passed /\ RowsInv

LEMMA RowFacts ==
    ASSUME TypeOK, pc \in {"row", "probe"}
    PROVE  /\ chunk \in Seq(Row) /\ Len(chunk) \in Nat /\ Len(chunk) > 0
           /\ row = chunk[1] /\ row \in Row /\ row.key \in Keys /\ row.key # Null
           /\ Tail(chunk) \in Seq(Row) /\ Len(Tail(chunk)) = Len(chunk) - 1
           /\ \A i \in 1 .. Len(chunk) - 1 : Tail(chunk)[i] = chunk[i + 1]
<1>1. chunk \in Seq(Row) /\ chunk # << >>
    BY DEF TypeOK, Row
<1>2. /\ Len(chunk) \in Nat /\ Len(chunk) > 0
      /\ Head(chunk) = chunk[1] /\ chunk[1] \in Row
    BY <1>1
<1>3. /\ Tail(chunk) \in Seq(Row) /\ Len(Tail(chunk)) = Len(chunk) - 1
      /\ \A i \in 1 .. Len(chunk) - 1 : Tail(chunk)[i] = chunk[i + 1]
    BY <1>1, <1>2
<1>4. row.key \in Keys
    BY <1>2 DEF row, Row
<1> QED
    BY <1>1, <1>2, <1>3, <1>4, NullAssumption DEF row

LEMMA OccupiedFacts ==
    ASSUME TypeOK
    PROVE  /\ IsFiniteSet(Buckets) /\ Occupied \subseteq Buckets /\ IsFiniteSet(Occupied)
           /\ \A b \in Occupied : hvec[b].key \in Keys /\ hvec[b] \in [key : Keys, acc : Accumulators]
<1>1. IsFiniteSet(Buckets)
    BY TableAssumption, FS_Interval DEF Buckets
<1>2. Occupied \subseteq Buckets /\ IsFiniteSet(Occupied)
    BY <1>1, FS_Subset DEF Occupied
<1>3. ASSUME NEW b \in Occupied
      PROVE  hvec[b].key \in Keys /\ hvec[b] \in [key : Keys, acc : Accumulators]
    <2>1. hvec[b] \in Entries /\ hvec[b].key # Null
        BY DEF TypeOK, Occupied
    <2>2. Empty.key = Null
        BY DEF Empty
    <2>3. hvec[b] \in [key : Keys, acc : Accumulators]
        BY <2>1, <2>2 DEF Entries
    <2> QED
        BY <2>3
<1> QED
    BY <1>1, <1>2, <1>3

LEMMA InitInv == Init => HInv
<1> SUFFICES ASSUME Init PROVE HInv
    OBVIOUS
<1>1. Len(input) = 0 /\ Len(chunk) = 0 /\ pc = "next" /\ noccupied = 0
    BY DEF Init
<1>2. \A b \in Buckets : hvec[b].key = Null
    BY DEF Init, Empty
<1>3. Occupied = {}
    BY <1>2 DEF Occupied
<1>4. TypeOK
    <2>1. 0 \in Buckets
        BY TableAssumption DEF Buckets
    <2>2. hvec \in [Buckets -> Entries]
        BY DEF Init, Entries
    <2> QED
        BY <2>1, <2>2 DEF Init, TypeOK
<1>5. Suffix /\ Passed
    BY <1>1 DEF Init, Suffix, Passed
<1>6. TableInv
    BY <1>1, <1>3, FS_EmptySet DEF TableInv, NoGapBefore, OneEntryPerKey, EntriesCounted
<1>7. \A k : RowsOf(k) = {}
    BY <1>1 DEF RowsOf
<1>8. RowsInv
    BY <1>3, <1>7 DEF RowsInv, EntriesAreKeys, CountsRight
<1> QED
    BY <1>4, <1>5, <1>6, <1>8 DEF HInv

\* A step that leaves the table and the rows alone keeps what holds of them.
LEMMA TableFixed ==
    ASSUME UNCHANGED <<hvec, noccupied>>
    PROVE  Occupied' = Occupied /\ (TableInv => TableInv')
<1>1. Occupied' = Occupied
    BY DEF Occupied
<1> QED
    BY <1>1 DEF TableInv, NoGapBefore, OneEntryPerKey, EntriesCounted, Home

LEMMA RowsFixed ==
    ASSUME UNCHANGED hvec, \A k : RowsOf(k)' = RowsOf(k), pc # "panicked", RowsInv
    PROVE  RowsInv'
<1>1. Occupied' = Occupied
    BY DEF Occupied
<1>2. EntriesAreKeys'
    BY <1>1 DEF RowsInv, EntriesAreKeys
<1>3. CountsRight'
    BY <1>1 DEF RowsInv, CountsRight, Wrap
<1> QED
    BY <1>2, <1>3 DEF RowsInv

LEMMA SearchFixed ==
    ASSUME HInv, TypeOK', Passed', UNCHANGED <<input, chunk, hvec, noccupied>>,
           pc # "panicked", pc' # "next"
    PROVE  HInv'
<1>1. \A k : RowsOf(k)' = RowsOf(k)
    BY DEF RowsOf
<1>2. Suffix'
    BY DEF HInv, Suffix
<1> QED
    BY <1>1, <1>2, TableFixed, RowsFixed DEF HInv

-----------------------------------------------------------------------------
(* The steps that read. *)

LEMMA EndOfInputInv == HInv /\ EndOfInput => HInv'
<1> SUFFICES ASSUME HInv, EndOfInput PROVE HInv'
    OBVIOUS
<1>1. pc = "next" /\ pc' = "done" /\ UNCHANGED <<keyType, debugBuild, input, chunk, bucket, hvec, noccupied>>
    BY DEF EndOfInput
<1>2. TypeOK' /\ Passed'
    BY <1>1 DEF HInv, TypeOK, Passed
<1> QED
    BY <1>1, <1>2, SearchFixed

LEMMA ComparePanicsInv == HInv /\ ComparePanics => HInv'
<1> SUFFICES ASSUME HInv, ComparePanics PROVE HInv'
    OBVIOUS
<1>1. pc = "probe" /\ pc' = "panicked" /\ UNCHANGED <<keyType, debugBuild, input, chunk, bucket, hvec, noccupied>>
    BY DEF ComparePanics
<1>2. TypeOK' /\ Passed'
    BY <1>1 DEF HInv, TypeOK, Passed
<1> QED
    BY <1>1, <1>2, SearchFixed

LEMMA StartFindInv == HInv /\ StartFind => HInv'
<1> SUFFICES ASSUME HInv, StartFind PROVE HInv'
    OBVIOUS
<1>1. pc = "row" /\ UNCHANGED <<keyType, debugBuild, input, chunk, hvec, noccupied>>
    BY DEF StartFind
<1>2. row.key \in Keys
    BY <1>1, RowFacts DEF HInv
<1>3. CASE pc' = "panicked" /\ UNCHANGED bucket
    <2>1. TypeOK' /\ Passed'
        BY <1>1, <1>3 DEF HInv, TypeOK, Passed
    <2> QED
        BY <1>1, <1>3, <2>1, SearchFixed
<1>4. CASE pc' = "probe" /\ bucket' = Hash[row.key] % TableSize
    <2>1. bucket' = Home(row.key) /\ bucket' \in Buckets
        BY <1>2, <1>4, HomeFacts DEF Home
    <2>2. TypeOK'
        BY <1>1, <1>4, <2>1 DEF HInv, TypeOK
    <2>3. Home(row.key)' = Home(row.key)
        BY <1>1 DEF Home, row
    <2>4. Between(Home(row.key), bucket') = {}
        BY <2>1 DEF Between, Buckets
    <2>5. Passed'
        BY <2>3, <2>4 DEF Passed, Between
    <2> QED
        BY <1>1, <1>4, <2>2, <2>5, SearchFixed
<1> QED
    BY <1>3, <1>4 DEF StartFind

LEMMA ProbeInv == HInv /\ Probe => HInv'
<1> SUFFICES ASSUME HInv, Probe PROVE HInv'
    OBVIOUS
<1>1. /\ pc = "probe" /\ hvec[bucket].key # Null /\ hvec[bucket].key # row.key
      /\ bucket' = NextBucket /\ UNCHANGED <<keyType, debugBuild, input, chunk, pc, hvec, noccupied>>
    BY DEF Probe, Compare
<1>2. bucket \in Buckets /\ row.key \in Keys
    BY <1>1, RowFacts DEF HInv, TypeOK
<1>3. bucket' \in Buckets
    BY <1>1, <1>2, TableAssumption DEF NextBucket, Buckets
<1>4. TypeOK'
    BY <1>1, <1>3 DEF HInv, TypeOK
<1>5. Passed'
    <2>1. Home(row.key)' = Home(row.key) /\ row' = row /\ Occupied' = Occupied
        BY <1>1, TableFixed DEF Home, row
    <2>2. Home(row.key) \in Buckets
        BY <1>2, HomeFacts
    <2>3. Between(Home(row.key), bucket') \subseteq Between(Home(row.key), bucket) \union {bucket}
        BY <1>1, <1>2, <2>2, BetweenNext
    <2>4. \A b \in Between(Home(row.key), bucket') : b \in Occupied /\ hvec[b].key # row.key
        BY <1>1, <1>2, <2>3 DEF HInv, Passed, Occupied
    <2>5. Between(Home(row.key), bucket)' = Between(Home(row.key), bucket')
        BY <2>1 DEF Between
    <2> QED
        BY <1>1, <2>1, <2>4, <2>5 DEF Passed
<1> QED
    BY <1>1, <1>4, <1>5, SearchFixed

LEMMA NextChunkInv == HInv /\ NextChunk => HInv'
<1> SUFFICES ASSUME HInv, NextChunk PROVE HInv'
    OBVIOUS
<1>1. pc = "next" /\ chunk = << >> /\ UNCHANGED <<keyType, debugBuild, bucket, hvec, noccupied>>
    BY DEF HInv, Suffix, NextChunk
<1>2. PICK c \in Chunks :
        IF HashPanics(c) THEN pc' = "panicked" /\ UNCHANGED <<input, chunk>>
        ELSE pc' = "row" /\ chunk' = c /\ input' = input \o c
    BY DEF NextChunk
<1>3. CASE pc' = "panicked" /\ UNCHANGED <<input, chunk>>
    <2>1. TypeOK' /\ Passed'
        BY <1>1, <1>3 DEF HInv, TypeOK, Passed
    <2> QED
        BY <1>1, <1>3, <2>1, SearchFixed
<1>4. CASE pc' = "row" /\ chunk' = c /\ input' = input \o c /\ ~HashPanics(c)
    <2>1. c \in Seq(Rows) /\ Len(c) \in Nat /\ Len(c) > 0
        <3>1. CASE \E r \in Rows : c = <<r>>
            BY <3>1
        <3>2. CASE \E r \in Rows, s \in Rows : c = <<r, s>>
            BY <3>2
        <3> QED
            BY <3>1, <3>2 DEF Chunks
    <2>2. \A i \in 1 .. Len(c) : c[i] \in Row
        <3>1. SUFFICES ASSUME NEW i \in 1 .. Len(c) PROVE c[i] \in Row
            OBVIOUS
        <3>2. c[i] \in Rows /\ i \in DOMAIN c
            BY <2>1, <3>1
        <3>3. c[i].key # Null
            BY <1>4, <3>2 DEF HashPanics
        <3> QED
            BY <3>2, <3>3 DEF Rows, Row
    <2>3. c \in Seq(Row) /\ c # << >>
        BY <2>1, <2>2, SeqDef
    <2>4. input \in Seq(Row) /\ Len(input) \in Nat
        BY DEF HInv, TypeOK, Row
    <2>5. /\ input' \in Seq(Row) /\ Len(input') = Len(input) + Len(c)
          /\ \A i \in 1 .. Len(input) : input'[i] = input[i]
          /\ \A i \in 1 .. Len(c) : input'[Len(input) + i] = c[i]
        BY <1>4, <2>1, <2>3, <2>4
    <2>6. TypeOK'
        BY <1>1, <1>4, <2>3, <2>5 DEF HInv, TypeOK, Row
    <2>7. Suffix'
        <3>1. Len(input') - Len(c) = Len(input) /\ Len(c) <= Len(input')
            BY <2>1, <2>4, <2>5
        <3> QED
            BY <1>4, <2>5, <3>1 DEF Suffix
    <2>8. Passed'
        BY <1>4 DEF Passed
    <2>9. \A k : RowsOf(k)' = RowsOf(k)
        <3>1. Len(input') - Len(chunk') = Len(input) /\ Len(input) - Len(chunk) = Len(input)
            BY <1>1, <1>4, <2>1, <2>4, <2>5
        <3> QED
            BY <2>5, <3>1 DEF RowsOf
    <2> QED
        BY <1>1, <2>6, <2>7, <2>8, <2>9, TableFixed, RowsFixed DEF HInv
<1> QED
    BY <1>2, <1>3, <1>4

-----------------------------------------------------------------------------
(* The steps that file a row. *)

\* The row filed is one more of its key, and none of another.
LEMMA RowDoneFacts ==
    ASSUME TypeOK, Suffix, pc = "probe", RowDone, UNCHANGED input
    PROVE  /\ Suffix'
           /\ chunk' \in Seq(Row)
           /\ pc' \in {"next", "row"} /\ (pc' = "row" => chunk' # << >>)
           /\ \E n \in Nat : input[n] = row /\ \A k :
                 /\ n \notin RowsOf(k) /\ IsFiniteSet(RowsOf(k))
                 /\ RowsOf(k)' = IF k = row.key THEN RowsOf(k) \union {n} ELSE RowsOf(k)
<1>1. /\ chunk \in Seq(Row) /\ Len(chunk) \in Nat /\ Len(chunk) > 0 /\ row = chunk[1]
      /\ Tail(chunk) \in Seq(Row) /\ Len(Tail(chunk)) = Len(chunk) - 1
      /\ \A i \in 1 .. Len(chunk) - 1 : Tail(chunk)[i] = chunk[i + 1]
    BY RowFacts
<1>2. chunk' = Tail(chunk) /\ input' = input /\ pc' = IF Len(chunk) = 1 THEN "next" ELSE "row"
    BY DEF RowDone
<1>3. /\ Len(input) \in Nat /\ Len(chunk) <= Len(input)
      /\ \A i \in 1 .. Len(chunk) : chunk[i] = input[Len(input) - Len(chunk) + i]
    BY DEF TypeOK, Suffix
<1>4. PICK m \in Nat : m = Len(input) - Len(chunk)
    BY <1>1, <1>3
<1>5. Len(chunk') = Len(chunk) - 1 /\ Len(input') - Len(chunk') = m + 1
    BY <1>1, <1>2, <1>3, <1>4
<1>6. input[m + 1] = row
    BY <1>1, <1>3, <1>4
<1>7. Suffix'
    <2>1. Len(chunk') <= Len(input')
        BY <1>1, <1>2, <1>3, <1>5
    <2>2. ASSUME NEW i \in 1 .. Len(chunk')
          PROVE  chunk'[i] = input'[Len(input') - Len(chunk') + i]
        <3>1. i \in 1 .. Len(chunk) - 1 /\ i + 1 \in 1 .. Len(chunk)
            BY <1>1, <1>5, <2>2
        <3>2. chunk'[i] = input[m + (i + 1)]
            BY <1>1, <1>2, <1>3, <1>4, <3>1
        <3>3. m + (i + 1) = Len(input') - Len(chunk') + i
            BY <1>5, <3>1
        <3> QED
            BY <1>2, <3>2, <3>3
    <2>3. pc' = "next" => chunk' = << >>
        BY <1>1, <1>2
    <2> QED
        BY <2>1, <2>2, <2>3 DEF Suffix
<1>8. ASSUME NEW k
      PROVE  /\ m + 1 \notin RowsOf(k) /\ IsFiniteSet(RowsOf(k))
             /\ RowsOf(k)' = IF k = row.key THEN RowsOf(k) \union {m + 1} ELSE RowsOf(k)
    <2>1. RowsOf(k) = {i \in 1 .. m : input[i].key = k}
        BY <1>4 DEF RowsOf
    <2>2. RowsOf(k)' = {i \in 1 .. m + 1 : input[i].key = k}
        BY <1>2, <1>5 DEF RowsOf
    <2>3. IsFiniteSet(1 .. m)
        BY FS_Interval
    <2>4. IsFiniteSet(RowsOf(k))
        BY <2>1, <2>3, FS_Subset
    <2>5. 1 .. m + 1 = (1 .. m) \union {m + 1} /\ m + 1 \notin 1 .. m
        OBVIOUS
    <2> QED
        BY <1>6, <2>1, <2>2, <2>4, <2>5
<1>9. pc' \in {"next", "row"} /\ (pc' = "row" => chunk' # << >>)
    <2>1. pc' \in {"next", "row"}
        BY <1>2
    <2>2. pc' = "row" => Len(chunk') # 0
        BY <1>1, <1>2, <1>5
    <2>3. Len(<< >>) = 0
        OBVIOUS
    <2> QED
        BY <2>1, <2>2, <2>3
<1> QED
    BY <1>1, <1>2, <1>4, <1>6, <1>7, <1>8, <1>9

\* The accumulators stay 64-bit integers.
LEMMA UpdateType ==
    ASSUME NEW acc \in Accumulators, NEW v \in Values, ~UpdatePanics(acc, v)
    PROVE  [a \in Aggs |-> Update(a, acc[a], v)] \in Accumulators
<1>1. ASSUME NEW a \in Aggs PROVE Update(a, acc[a], v) \in Int64
    <2>1. acc[a] \in Int64 \union {Null} /\ (acc[a] = Null => a \in {"MIN", "MAX"})
        BY DEF Accumulators
    <2>2. a \in {"SUM", "MIN", "MAX"} => v # Null
        BY DEF UpdatePanics
    <2>3. acc[a] # Null
        BY <2>1 DEF UpdatePanics
    <2>4. acc[a] \in Int64 /\ acc[a] \in Int
        BY <2>1, <2>3, ValuesAssumption DEF Int64
    <2>5. v # Null => v \in Int64 /\ v \in Int
        BY ValuesAssumption DEF Int64
    <2>6. CASE a = "COUNT"
        BY <2>4, <2>6, WrapFacts DEF Update
    <2>7. CASE a = "SUM"
        BY <2>2, <2>4, <2>5, <2>7, WrapFacts DEF Update
    <2>8. CASE a = "MAX"
        BY <2>2, <2>4, <2>5, <2>8 DEF Update
    <2>9. CASE a = "MIN"
        BY <2>2, <2>4, <2>5, <2>9 DEF Update
    <2> QED
        BY <2>6, <2>7, <2>8, <2>9, ValuesAssumption
<1>2. Null \notin Int64
    BY NullAssumption, ValuesAssumption DEF Int64
<1>3. [a \in Aggs |-> Update(a, acc[a], v)] \in [Aggs -> Int64 \union {Null}]
    BY <1>1
<1> QED
    BY <1>1, <1>2, <1>3 DEF Accumulators

LEMMA InitType ==
    ASSUME NEW v \in Values, ~InitPanics(v)
    PROVE  [a \in Aggs |-> InitAcc(a, v)] \in Accumulators
<1>1. ASSUME NEW a \in Aggs
      PROVE  InitAcc(a, v) \in Int64 \union {Null} /\ (InitAcc(a, v) = Null => a \in {"MIN", "MAX"})
    <2>1. 1 \in Int64 /\ Null # 1
        BY NullAssumption, ValuesAssumption DEF Int64
    <2>2. v \in Int64 \union {Null}
        BY ValuesAssumption DEF Int64
    <2>3. a = "SUM" => v # Null
        BY DEF InitPanics
    <2> QED
        BY <2>1, <2>2, <2>3, ValuesAssumption DEF InitAcc
<1> QED
    BY <1>1 DEF Accumulators

LEMMA FoundInv == HInv /\ Found => HInv'
<1> SUFFICES ASSUME HInv, Found PROVE HInv'
    OBVIOUS
<1>1. /\ pc = "probe" /\ hvec[bucket].key = row.key /\ hvec[bucket].key # Null
      /\ UNCHANGED <<keyType, debugBuild, input, bucket, noccupied>>
    BY DEF Found, Compare
<1>2. /\ bucket \in Buckets /\ bucket \in Occupied /\ row \in Row /\ row.key \in Keys
      /\ hvec \in [Buckets -> Entries] /\ hvec[bucket] \in [key : Keys, acc : Accumulators]
    BY <1>1, RowFacts, OccupiedFacts DEF HInv, TypeOK, Occupied
<1>3. CASE pc' = "panicked" /\ UNCHANGED <<chunk, hvec>>
    <2>1. TypeOK' /\ Passed'
        BY <1>1, <1>3 DEF HInv, TypeOK, Passed
    <2> QED
        BY <1>1, <1>3, <2>1, SearchFixed
<1>4. CASE /\ ~UpdatePanics(hvec[bucket].acc, row.val)
           /\ hvec' = [hvec EXCEPT ![bucket].acc = [a \in Aggs |-> Update(a, @[a], row.val)]]
           /\ RowDone
    <2>1. /\ Suffix' /\ chunk' \in Seq(Row)
          /\ pc' \in {"next", "row"} /\ (pc' = "row" => chunk' # << >>)
        BY <1>1, <1>4, RowDoneFacts DEF HInv
    <2>2. PICK n \in Nat : \A k :
              /\ n \notin RowsOf(k) /\ IsFiniteSet(RowsOf(k))
              /\ RowsOf(k)' = IF k = row.key THEN RowsOf(k) \union {n} ELSE RowsOf(k)
        BY <1>1, <1>4, RowDoneFacts DEF HInv
    <2>3. PICK acc : acc = [a \in Aggs |-> Update(a, hvec[bucket].acc[a], row.val)]
        OBVIOUS
    <2>4. acc \in Accumulators
        <3>1. row.val \in Values /\ hvec[bucket].acc \in Accumulators
            BY <1>2 DEF Row
        <3> QED
            BY <1>4, <2>3, <3>1, UpdateType
    <2>5. /\ hvec' \in [Buckets -> Entries]
          /\ hvec'[bucket].key = hvec[bucket].key /\ hvec'[bucket].acc = acc
          /\ \A b \in Buckets : b # bucket => hvec'[b] = hvec[b]
        <3>1. hvec' = [hvec EXCEPT ![bucket] = [hvec[bucket] EXCEPT !.acc = acc]]
            BY <1>2, <1>4, <2>3
        <3>2. [hvec[bucket] EXCEPT !.acc = acc] = [key |-> hvec[bucket].key, acc |-> acc]
            BY <1>2
        <3>3. [key |-> hvec[bucket].key, acc |-> acc] \in Entries
            BY <1>1, <1>2, <2>4 DEF Entries
        <3> QED
            BY <1>2, <3>1, <3>2, <3>3
    <2>6. \A b \in Buckets : hvec'[b].key = hvec[b].key
        BY <2>5
    <2>7. Occupied' = Occupied
        BY <2>6 DEF Occupied
    <2>8. TypeOK'
        BY <1>1, <2>1, <2>5 DEF HInv, TypeOK, Row
    <2>9. TableInv'
        <3>1. \A b \in Occupied : hvec'[b].key = hvec[b].key
            BY <2>6 DEF Occupied
        <3>2. NoGapBefore'
            BY <2>7, <3>1 DEF HInv, TableInv, NoGapBefore, Home, Between
        <3>3. OneEntryPerKey'
            BY <2>7, <3>1 DEF HInv, TableInv, OneEntryPerKey
        <3>4. EntriesCounted'
            BY <1>1, <2>7 DEF HInv, TableInv, EntriesCounted
        <3> QED
            BY <3>2, <3>3, <3>4 DEF TableInv
    <2>10. Passed'
        BY <2>1 DEF Passed
    <2>11. EntriesAreKeys'
        <3>1. SUFFICES ASSUME NEW k \in Keys
              PROVE  RowsOf(k)' # {} <=> \E b \in Occupied : hvec'[b].key = k
            BY <2>7 DEF EntriesAreKeys
        <3>2. RowsOf(k) # {} <=> \E b \in Occupied : hvec[b].key = k
            BY <1>1 DEF HInv, RowsInv, EntriesAreKeys
        <3>3. \A b \in Occupied : hvec'[b].key = hvec[b].key
            BY <2>6 DEF Occupied
        <3>4. CASE k = row.key
            BY <1>1, <1>2, <2>2, <3>3, <3>4
        <3>5. CASE k # row.key
            BY <2>2, <3>2, <3>3, <3>5
        <3> QED
            BY <3>4, <3>5
    <2>12. CountsRight'
        <3>1. SUFFICES ASSUME "COUNT" \in Aggs, NEW b \in Occupied, NEW k, k = hvec[b].key
              PROVE  hvec'[b].acc["COUNT"] = Wrap(Cardinality(RowsOf(k)'))
            <4>1. \A b \in Occupied : hvec'[b].key = hvec[b].key
                BY <2>6 DEF Occupied
            <4> QED
                BY <2>7, <4>1 DEF CountsRight, Wrap, RowsOf
        <3>2. hvec[b].acc["COUNT"] = Wrap(Cardinality(RowsOf(k)))
            BY <1>1, <3>1 DEF HInv, RowsInv, CountsRight
        <3>3. CASE b = bucket
            <4>1. PICK c \in Nat : c = Cardinality(RowsOf(row.key))
                BY <2>2, FS_CardinalityType
            <4>2. Cardinality(RowsOf(k)') = c + 1
                BY <1>1, <2>2, <3>1, <3>3, <4>1, FS_AddElement
            <4>3. hvec'[b].acc["COUNT"] = Wrap(hvec[b].acc["COUNT"] + 1)
                BY <2>3, <2>5, <3>1, <3>3 DEF Update
            <4>4. hvec[b].acc["COUNT"] = Wrap(c)
                BY <1>1, <3>1, <3>2, <3>3, <4>1
            <4> QED
                BY <4>2, <4>3, <4>4, WrapFacts
        <3>4. CASE b # bucket
            <4>1. hvec[b].key # row.key
                BY <1>1, <1>2, <3>1, <3>4 DEF HInv, TableInv, OneEntryPerKey
            <4>2. hvec'[b] = hvec[b]
                BY <2>5, <3>4 DEF Occupied
            <4> QED
                BY <2>2, <3>1, <3>2, <4>1, <4>2
        <3> QED
            BY <3>3, <3>4
    <2> QED
        BY <2>1, <2>8, <2>9, <2>10, <2>11, <2>12 DEF HInv, RowsInv
<1> QED
    BY <1>3, <1>4 DEF Found

\* An empty bucket shows that the key has no entry anywhere.
LEMMA NewKey ==
    ASSUME HInv, pc = "probe", hvec[bucket].key = Null
    PROVE  \A b \in Occupied : hvec[b].key # row.key
<1>1. SUFFICES ASSUME NEW b \in Occupied, hvec[b].key = row.key PROVE FALSE
    OBVIOUS
<1>2. b \in Buckets /\ bucket \in Buckets /\ bucket # b /\ bucket \notin Occupied
    BY DEF HInv, TypeOK, Occupied
<1>3. Home(row.key) \in Buckets
    BY RowFacts, HomeFacts DEF HInv
<1>4. CASE b \in Between(Home(row.key), bucket)
    BY <1>1, <1>4 DEF HInv, Passed
<1>5. CASE bucket \in Between(Home(row.key), b)
    BY <1>1, <1>2, <1>5 DEF HInv, TableInv, NoGapBefore
<1> QED
    BY <1>2, <1>3, <1>4, <1>5, BetweenTotal

LEMMA InsertInv == HInv /\ Insert => HInv'
<1> SUFFICES ASSUME HInv, Insert PROVE HInv'
    OBVIOUS
<1>1. pc = "probe" /\ hvec[bucket].key = Null /\ UNCHANGED <<keyType, debugBuild, input, bucket>>
    BY DEF Insert
<1>2. /\ bucket \in Buckets /\ bucket \notin Occupied /\ row \in Row /\ row.key \in Keys
      /\ row.key # Null /\ hvec \in [Buckets -> Entries] /\ IsFiniteSet(Occupied)
    BY <1>1, RowFacts, OccupiedFacts DEF HInv, TypeOK, Occupied
<1>3. CASE pc' = "panicked" /\ UNCHANGED <<chunk, hvec, noccupied>>
    <2>1. TypeOK' /\ Passed'
        BY <1>1, <1>3 DEF HInv, TypeOK, Passed
    <2> QED
        BY <1>1, <1>3, <2>1, SearchFixed
<1>4. CASE /\ ~InitPanics(row.val)
           /\ hvec' = [hvec EXCEPT ![bucket] =
                           [key |-> row.key, acc |-> [a \in Aggs |-> InitAcc(a, row.val)]]]
           /\ noccupied' = noccupied + 1
           /\ RowDone
    <2>1. /\ Suffix' /\ chunk' \in Seq(Row)
          /\ pc' \in {"next", "row"} /\ (pc' = "row" => chunk' # << >>)
        BY <1>1, <1>4, RowDoneFacts DEF HInv
    <2>2. PICK n \in Nat : \A k :
              /\ n \notin RowsOf(k) /\ IsFiniteSet(RowsOf(k))
              /\ RowsOf(k)' = IF k = row.key THEN RowsOf(k) \union {n} ELSE RowsOf(k)
        BY <1>1, <1>4, RowDoneFacts DEF HInv
    <2>3. PICK acc : acc = [a \in Aggs |-> InitAcc(a, row.val)]
        OBVIOUS
    <2>4. acc \in Accumulators
        <3>1. row.val \in Values
            BY <1>2 DEF Row
        <3> QED
            BY <1>4, <2>3, <3>1, InitType
    <2>5. /\ hvec' \in [Buckets -> Entries]
          /\ hvec'[bucket].key = row.key /\ hvec'[bucket].acc = acc
          /\ \A b \in Buckets : b # bucket => hvec'[b] = hvec[b]
        <3>1. hvec' = [hvec EXCEPT ![bucket] = [key |-> row.key, acc |-> acc]]
            BY <1>4, <2>3
        <3>2. [key |-> row.key, acc |-> acc] \in Entries
            BY <1>2, <2>4 DEF Entries
        <3> QED
            BY <1>2, <3>1, <3>2
    <2>6. Occupied' = Occupied \union {bucket}
        BY <1>2, <2>5 DEF Occupied
    <2>7. \A b \in Occupied : b \in Buckets /\ b # bucket /\ hvec'[b] = hvec[b]
        BY <1>2, <2>5 DEF Occupied
    <2>8. \A b \in Occupied : hvec[b].key # row.key
        BY <1>1, NewKey
    <2>9. TypeOK'
        <3>1. noccupied' \in Nat
            BY <1>4 DEF HInv, TypeOK
        <3> QED
            BY <1>1, <2>1, <2>5, <3>1 DEF HInv, TypeOK, Row
    <2>10. TableInv'
        <3>1. NoGapBefore'
            <4>1. ASSUME NEW b \in Occupied' PROVE Between(Home(hvec'[b].key), b) \subseteq Occupied'
                <5>1. CASE b = bucket
                    BY <1>1, <2>5, <2>6, <5>1 DEF HInv, Passed
                <5>2. CASE b \in Occupied
                    BY <2>6, <2>7, <5>2 DEF HInv, TableInv, NoGapBefore
                <5> QED
                    BY <2>6, <4>1, <5>1, <5>2
            <4> QED
                BY <4>1 DEF NoGapBefore, Between, Home
        <3>2. OneEntryPerKey'
            BY <2>5, <2>6, <2>7, <2>8 DEF HInv, TableInv, OneEntryPerKey
        <3>3. EntriesCounted'
            BY <1>2, <1>4, <2>6, FS_AddElement DEF HInv, TableInv, EntriesCounted
        <3> QED
            BY <3>1, <3>2, <3>3 DEF TableInv
    <2>11. Passed'
        BY <2>1 DEF Passed
    <2>12. RowsOf(row.key) = {}
        BY <1>1, <1>2, <2>8 DEF HInv, RowsInv, EntriesAreKeys
    <2>13. EntriesAreKeys'
        <3>1. SUFFICES ASSUME NEW k \in Keys
              PROVE  RowsOf(k)' # {} <=> \E b \in Occupied' : hvec'[b].key = k
            BY DEF EntriesAreKeys
        <3>2. CASE k = row.key
            BY <2>2, <2>5, <2>6, <3>2
        <3>3. CASE k # row.key
            <4>1. RowsOf(k) # {} <=> \E b \in Occupied : hvec[b].key = k
                BY <1>1 DEF HInv, RowsInv, EntriesAreKeys
            <4> QED
                BY <2>2, <2>5, <2>6, <2>7, <3>3, <4>1
        <3> QED
            BY <3>2, <3>3
    <2>14. CountsRight'
        <3>1. SUFFICES ASSUME "COUNT" \in Aggs, NEW b \in Occupied', NEW k, k = hvec'[b].key
              PROVE  hvec'[b].acc["COUNT"] = Wrap(Cardinality(RowsOf(k)'))
            BY DEF CountsRight, Wrap, RowsOf
        <3>2. CASE b = bucket
            <4>1. RowsOf(k)' = {n}
                BY <2>2, <2>5, <2>12, <3>1, <3>2
            <4>2. Cardinality({n}) = 1
                BY FS_Singleton
            <4>3. hvec'[b].acc["COUNT"] = 1
                BY <2>3, <2>5, <3>1, <3>2 DEF InitAcc
            <4> QED
                BY <4>1, <4>2, <4>3, WrapOne
        <3>3. CASE b \in Occupied
            <4>1. hvec'[b] = hvec[b] /\ k = hvec[b].key /\ k # row.key
                BY <2>7, <2>8, <3>1, <3>3
            <4>2. hvec[b].acc["COUNT"] = Wrap(Cardinality(RowsOf(k)))
                BY <1>1, <3>1, <3>3, <4>1 DEF HInv, RowsInv, CountsRight
            <4> QED
                BY <2>2, <3>1, <4>1, <4>2
        <3> QED
            BY <2>6, <3>1, <3>2, <3>3
    <2> QED
        BY <2>1, <2>9, <2>10, <2>11, <2>13, <2>14 DEF HInv, RowsInv
<1> QED
    BY <1>3, <1>4 DEF Insert

-----------------------------------------------------------------------------
(* MIN and MAX. *)

GroupOf(k) == {input[i].val : i \in RowsOf(k)}

\* x is the extreme of a group whose values are numbers, or the NULL of its only row.
IsExtreme(a, x, group) ==
    /\ x \in group
    /\ x # Null => \A v \in group : v \in Int64 /\ IF a = "MAX" THEN v <= x ELSE v >= x

ExtremesInv ==
    pc # "panicked" =>
        \A b \in Occupied : \A a \in Aggs \intersect {"MIN", "MAX"} :
            IsExtreme(a, hvec[b].acc[a], GroupOf(hvec[b].key))

LEMMA ExtremeUpdated ==
    ASSUME NEW a \in {"MIN", "MAX"}, NEW x \in Int64, NEW v \in Int64, NEW group, IsExtreme(a, x, group)
    PROVE  IsExtreme(a, Update(a, x, v), group \union {v})
<1>1. x \in Int /\ v \in Int /\ x # Null
    BY NullAssumption, ValuesAssumption DEF Int64
<1>2. x \in group /\ \A w \in group : w \in Int64 /\ w \in Int /\ IF a = "MAX" THEN w <= x ELSE w >= x
    BY <1>1, ValuesAssumption DEF IsExtreme, Int64
<1>3. CASE a = "MAX"
    <2>1. Update(a, x, v) = IF v > x THEN v ELSE x
        BY <1>3 DEF Update
    <2> QED
        BY <1>1, <1>2, <1>3, <2>1 DEF IsExtreme
<1>4. CASE a = "MIN"
    <2>1. Update(a, x, v) = IF v < x THEN v ELSE x
        BY <1>4 DEF Update
    <2> QED
        BY <1>1, <1>2, <1>4, <2>1 DEF IsExtreme
<1> QED
    BY <1>3, <1>4

LEMMA ExtremeOfOne ==
    ASSUME NEW a \in {"MIN", "MAX"}, NEW v \in Values
    PROVE  IsExtreme(a, InitAcc(a, v), {v})
<1>1. v # Null => v \in Int64 /\ v \in Int
    BY ValuesAssumption DEF Int64
<1> QED
    BY <1>1 DEF IsExtreme, InitAcc

LEMMA ExtremesFixed ==
    ASSUME ExtremesInv, UNCHANGED hvec, pc # "panicked", \A k : GroupOf(k)' = GroupOf(k)
    PROVE  ExtremesInv'
<1>1. Occupied' = Occupied
    BY DEF Occupied
<1> QED
    BY <1>1 DEF ExtremesInv, IsExtreme, Int64

\* The group of a row gets the value of the row, and the others stay what they were.
LEMMA GroupFiled ==
    ASSUME HInv, pc = "probe", RowDone, UNCHANGED input
    PROVE  \A k : GroupOf(k)' = IF k = row.key THEN GroupOf(k) \union {row.val} ELSE GroupOf(k)
<1>1. PICK n \in Nat : input[n] = row /\ \A k :
            RowsOf(k)' = IF k = row.key THEN RowsOf(k) \union {n} ELSE RowsOf(k)
    BY RowDoneFacts DEF HInv
<1> QED
    BY <1>1 DEF GroupOf

LEMMA ExtremesFound == HInv /\ ExtremesInv /\ Found => ExtremesInv'
<1> SUFFICES ASSUME HInv, ExtremesInv, Found, pc' # "panicked" PROVE ExtremesInv'
    BY DEF ExtremesInv
<1>1. /\ pc = "probe" /\ hvec[bucket].key = row.key /\ hvec[bucket].key # Null
      /\ ~UpdatePanics(hvec[bucket].acc, row.val) /\ RowDone /\ UNCHANGED input
      /\ hvec' = [hvec EXCEPT ![bucket].acc = [a \in Aggs |-> Update(a, @[a], row.val)]]
    BY DEF Found, Compare
<1>2. /\ bucket \in Occupied /\ row \in Row
      /\ hvec \in [Buckets -> Entries] /\ hvec[bucket] \in [key : Keys, acc : Accumulators]
    BY <1>1, RowFacts, OccupiedFacts DEF HInv, TypeOK, Occupied
<1>3. /\ \A b \in Buckets : hvec'[b].key = hvec[b].key
      /\ \A b \in Buckets : b # bucket => hvec'[b] = hvec[b]
      /\ hvec'[bucket].acc = [a \in Aggs |-> Update(a, hvec[bucket].acc[a], row.val)]
    <2>1. PICK acc : acc = [a \in Aggs |-> Update(a, hvec[bucket].acc[a], row.val)]
        OBVIOUS
    <2>2. hvec' = [hvec EXCEPT ![bucket] = [hvec[bucket] EXCEPT !.acc = acc]] /\ bucket \in Buckets
        BY <1>1, <1>2, <2>1 DEF Occupied
    <2>3. [hvec[bucket] EXCEPT !.acc = acc] = [key |-> hvec[bucket].key, acc |-> acc]
        BY <1>2
    <2> QED
        BY <1>2, <2>1, <2>2, <2>3
<1>4. Occupied' = Occupied
    BY <1>3 DEF Occupied
<1>5. ASSUME NEW b \in Occupied, NEW a \in Aggs \intersect {"MIN", "MAX"}
      PROVE  IsExtreme(a, hvec'[b].acc[a], GroupOf(hvec[b].key)')
    <2>1. IsExtreme(a, hvec[b].acc[a], GroupOf(hvec[b].key))
        BY <1>1 DEF ExtremesInv
    <2>2. CASE b = bucket
        <3>1. row.val \in Int64 /\ hvec[b].acc[a] \in Int64
            <4>1. row.val \in Values /\ row.val # Null /\ hvec[bucket].acc[a] # Null
                BY <1>1, <1>2 DEF UpdatePanics, Row
            <4>2. hvec[bucket].acc[a] \in Int64 \union {Null}
                BY <1>2 DEF Accumulators
            <4> QED
                BY <2>2, <4>1, <4>2, ValuesAssumption DEF Int64
        <3>2. IsExtreme(a, Update(a, hvec[b].acc[a], row.val), GroupOf(hvec[b].key) \union {row.val})
            BY <2>1, <3>1, ExtremeUpdated
        <3>3. hvec'[b].acc[a] = Update(a, hvec[b].acc[a], row.val) /\ hvec[b].key = row.key
            BY <1>1, <1>3, <2>2
        <3>4. hvec'[b].key = hvec[b].key
            BY <1>3 DEF Occupied
        <3> QED
            BY <1>1, <3>2, <3>3, <3>4, GroupFiled
    <2>3. CASE b # bucket
        <3>1. hvec[b].key # row.key
            BY <1>1, <1>2, <2>3 DEF HInv, TableInv, OneEntryPerKey
        <3>2. hvec'[b] = hvec[b]
            BY <1>3, <2>3 DEF Occupied
        <3> QED
            BY <1>1, <2>1, <3>1, <3>2, GroupFiled
    <2> QED
        BY <2>2, <2>3
<1> QED
    BY <1>3, <1>4, <1>5 DEF ExtremesInv, IsExtreme, Int64, Occupied

LEMMA ExtremesInserted == HInv /\ ExtremesInv /\ Insert => ExtremesInv'
<1> SUFFICES ASSUME HInv, ExtremesInv, Insert, pc' # "panicked" PROVE ExtremesInv'
    BY DEF ExtremesInv
<1>1. /\ pc = "probe" /\ hvec[bucket].key = Null /\ RowDone /\ UNCHANGED input
      /\ hvec' = [hvec EXCEPT ![bucket] = [key |-> row.key, acc |-> [a \in Aggs |-> InitAcc(a, row.val)]]]
    BY DEF Insert
<1>2. /\ bucket \in Buckets /\ bucket \notin Occupied /\ row \in Row /\ row.key \in Keys
      /\ hvec \in [Buckets -> Entries]
    BY <1>1, RowFacts DEF HInv, TypeOK, Occupied
<1>3. /\ hvec'[bucket].key = row.key
      /\ hvec'[bucket].acc = [a \in Aggs |-> InitAcc(a, row.val)]
      /\ \A b \in Buckets : b # bucket => hvec'[b] = hvec[b]
    BY <1>1, <1>2
<1>4. Occupied' \subseteq Occupied \union {bucket}
    BY <1>3 DEF Occupied
<1>5. \A b \in Occupied : hvec[b].key # row.key /\ hvec'[b] = hvec[b]
    BY <1>1, <1>2, <1>3, NewKey DEF Occupied
<1>6. GroupOf(row.key) = {}
    <2>1. RowsOf(row.key) = {}
        BY <1>1, <1>2, <1>5 DEF HInv, RowsInv, EntriesAreKeys
    <2> QED
        BY <2>1 DEF GroupOf
<1>7. ASSUME NEW b \in Occupied', NEW a \in Aggs \intersect {"MIN", "MAX"}
      PROVE  IsExtreme(a, hvec'[b].acc[a], GroupOf(hvec[b].key)')
    <2>1. CASE b = bucket
        <3>1. GroupOf(hvec[b].key)' = {row.val}
            <4>1. PICK k \in Keys : k = row.key
                BY <1>2
            <4>2. GroupOf(k)' = {row.val}
                BY <1>1, <1>6, <4>1, GroupFiled
            <4> QED
                BY <1>3, <2>1, <4>1, <4>2
        <3>2. hvec'[b].acc[a] = InitAcc(a, row.val) /\ row.val \in Values
            BY <1>2, <1>3, <2>1 DEF Row
        <3> QED
            BY <3>1, <3>2, ExtremeOfOne
    <2>2. CASE b \in Occupied
        <3>1. IsExtreme(a, hvec[b].acc[a], GroupOf(hvec[b].key))
            BY <1>1, <2>2 DEF ExtremesInv
        <3> QED
            BY <1>1, <1>5, <2>2, <3>1, GroupFiled
    <2> QED
        BY <1>4, <2>1, <2>2
<1> QED
    BY <1>7 DEF ExtremesInv, IsExtreme, Int64

LEMMA ExtremesNext == HInv /\ ExtremesInv /\ [Next]_vars => ExtremesInv'
<1> SUFFICES ASSUME HInv, ExtremesInv, [Next]_vars PROVE ExtremesInv'
    OBVIOUS
<1>1. CASE NextChunk
    <2>1. pc = "next" /\ chunk = << >> /\ hvec' = hvec
        BY <1>1 DEF HInv, Suffix, NextChunk
    <2>2. PICK c \in Chunks :
            IF HashPanics(c) THEN pc' = "panicked" ELSE chunk' = c /\ input' = input \o c
        BY <1>1 DEF NextChunk
    <2>3. CASE pc' = "panicked"
        BY <2>3 DEF ExtremesInv
    <2>4. CASE chunk' = c /\ input' = input \o c
        <3>1. c \in Seq(Rows) /\ Len(c) \in Nat
            <4>1. CASE \E r \in Rows : c = <<r>>
                BY <4>1
            <4>2. CASE \E r \in Rows, s \in Rows : c = <<r, s>>
                BY <4>2
            <4> QED
                BY <4>1, <4>2 DEF Chunks
        <3>2. input \in Seq(Rows) /\ Len(input) \in Nat
            <4>1. input \in Seq(Row) /\ Row \subseteq Rows
                BY DEF HInv, TypeOK, Row, Rows
            <4>2. \A i \in 1 .. Len(input) : input[i] \in Rows
                BY <4>1
            <4> QED
                BY <4>1, <4>2, SeqDef
        <3>3. Len(input') = Len(input) + Len(c) /\ \A i \in 1 .. Len(input) : input'[i] = input[i]
            BY <2>4, <3>1, <3>2
        <3>4. Len(input') - Len(chunk') = Len(input) /\ Len(input) - Len(chunk) = Len(input)
            BY <2>1, <2>4, <3>1, <3>2, <3>3
        <3>5. \A k : RowsOf(k)' = RowsOf(k) /\ RowsOf(k) \subseteq 1 .. Len(input)
            BY <3>3, <3>4 DEF RowsOf
        <3>6. \A k : GroupOf(k)' = GroupOf(k)
            BY <3>3, <3>5 DEF GroupOf
        <3> QED
            BY <2>1, <3>6, ExtremesFixed
    <2> QED
        BY <2>2, <2>3, <2>4
<1>2. CASE pc' = "panicked"
    BY <1>2 DEF ExtremesInv
<1>3. CASE UNCHANGED <<input, chunk, hvec>> /\ (pc = "panicked" => pc' = "panicked")
    <2>1. \A k : GroupOf(k)' = GroupOf(k)
        BY <1>3 DEF GroupOf, RowsOf
    <2> QED
        BY <1>2, <1>3, <2>1, ExtremesFixed
<1>4. CASE EndOfInput \/ StartFind \/ ComparePanics \/ Probe \/ Terminated \/ UNCHANGED vars
    BY <1>3, <1>4 DEF EndOfInput, StartFind, ComparePanics, Probe, Compare, Terminated, vars
<1>5. CASE Found
    BY <1>5, ExtremesFound
<1>6. CASE Insert
    BY <1>6, ExtremesInserted
<1> QED
    BY <1>1, <1>4, <1>5, <1>6 DEF Next, Find

-----------------------------------------------------------------------------
(* SUM. *)

Amount(rows, k, i) == IF rows[i].key = k THEN rows[i].val ELSE 0

\* f is the function the definition of Total is by.
IsTotal(f, rows, k, n) ==
    f = [i \in 0 .. n |-> IF i = 0 THEN 0
                          ELSE f[i - 1] + (IF rows[i].key = k THEN rows[i].val ELSE 0)]

LEMMA TotalStep ==
    ASSUME NEW rows, NEW k, NEW n, NEW f, IsTotal(f, rows, k, n), NEW i \in 0 .. n
    PROVE  f[i] = IF i = 0 THEN 0 ELSE f[i - 1] + Amount(rows, k, i)
<1> DEFINE h == [j \in 0 .. n |-> IF j = 0 THEN 0
                                  ELSE f[j - 1] + (IF rows[j].key = k THEN rows[j].val ELSE 0)]
<1>1. f = h
    BY DEF IsTotal
<1>2. h[i] = IF i = 0 THEN 0 ELSE f[i - 1] + Amount(rows, k, i)
    BY DEF Amount
<1> HIDE DEF h
<1> QED
    BY <1>1, <1>2

LEMMA TotalGrows ==
    ASSUME NEW rows, NEW k, NEW n \in Nat, NEW f, IsTotal(f, rows, k, n)
    PROVE  \E g : IsTotal(g, rows, k, n + 1) /\ g[n] = f[n]
<1> DEFINE g == [i \in 0 .. n + 1 |-> IF i <= n THEN f[i] ELSE f[n] + Amount(rows, k, n + 1)]
<1>1. \A i \in 0 .. n : g[i] = f[i] /\ f[i] = IF i = 0 THEN 0 ELSE f[i - 1] + Amount(rows, k, i)
    BY TotalStep
<1>2. g[n + 1] = f[n] + Amount(rows, k, n + 1)
    OBVIOUS
<1>3. ASSUME NEW i \in 0 .. n + 1
      PROVE  g[i] = IF i = 0 THEN 0 ELSE g[i - 1] + Amount(rows, k, i)
    <2>1. CASE i \in 0 .. n
        <3>1. i # 0 => i - 1 \in 0 .. n
            BY <2>1
        <3> HIDE DEF g
        <3> QED
            BY <1>1, <2>1, <3>1
    <2>2. CASE i = n + 1
        <3>1. n \in 0 .. n /\ i # 0 /\ i - 1 = n
            BY <2>2
        <3> HIDE DEF g
        <3> QED
            BY <1>1, <1>2, <2>2, <3>1
    <2> QED
        BY <2>1, <2>2
<1>4. g = [i \in 0 .. n + 1 |-> g[i]]
    OBVIOUS
<1>5. n \in 0 .. n
    OBVIOUS
<1> HIDE DEF g
<1>6. IsTotal(g, rows, k, n + 1)
    BY <1>3, <1>4 DEF IsTotal, Amount
<1> QED
    BY <1>1, <1>5, <1>6

LEMMA TotalExists ==
    ASSUME NEW rows, NEW k, NEW n \in Nat
    PROVE  \E f : IsTotal(f, rows, k, n)
<1> DEFINE T == {m \in Nat : \E f : IsTotal(f, rows, k, m)}
<1>1. 0 \in T
    <2> DEFINE f == [i \in 0 .. 0 |-> 0]
    <2>1. IsTotal(f, rows, k, 0)
        BY DEF IsTotal
    <2> QED
        BY <2>1
<1>2. \A m \in Nat : m \in T => m + 1 \in T
    BY TotalGrows
<1>3. Nat \subseteq T
    <2> HIDE DEF T
    <2> QED
        BY <1>1, <1>2, NatInd
<1> QED
    BY <1>3

\* Two such functions agree where both are defined.
LEMMA TotalUnique ==
    ASSUME NEW rows, NEW k, NEW n \in Nat, NEW m \in Nat, NEW f, NEW g,
           IsTotal(f, rows, k, n), IsTotal(g, rows, k, m), NEW j \in Nat, j <= n, j <= m
    PROVE  f[j] = g[j]
<1> DEFINE T == {i \in Nat : i <= n /\ i <= m => f[i] = g[i]}
<1>1. 0 \in T
    BY TotalStep
<1>2. ASSUME NEW i \in Nat, i \in T PROVE i + 1 \in T
    <2> SUFFICES ASSUME i + 1 <= n, i + 1 <= m PROVE f[i + 1] = g[i + 1]
        OBVIOUS
    <2>1. f[i] = g[i]
        BY <1>2
    <2>2. i + 1 \in 0 .. n /\ i + 1 \in 0 .. m /\ (i + 1) - 1 = i /\ i + 1 # 0
        OBVIOUS
    <2>3. f[i + 1] = f[i] + Amount(rows, k, i + 1)
        BY <2>2, TotalStep
    <2>4. g[i + 1] = g[i] + Amount(rows, k, i + 1)
        BY <2>2, TotalStep
    <2> QED
        BY <2>1, <2>3, <2>4
<1>3. Nat \subseteq T
    <2> HIDE DEF T
    <2> QED
        BY <1>1, <1>2, NatInd
<1> QED
    BY <1>3

LEMMA TotalIs ==
    ASSUME NEW rows, NEW k, NEW n \in Nat, NEW f, IsTotal(f, rows, k, n)
    PROVE  Total(rows, k, n) = f[n]
<1> DEFINE total == CHOOSE g : IsTotal(g, rows, k, n)
<1>1. IsTotal(total, rows, k, n)
    OBVIOUS
<1>2. Total(rows, k, n) = total[n]
    BY DEF Total, IsTotal
<1> HIDE DEF total
<1> QED
    BY <1>1, <1>2, TotalUnique

\* Total by recursion.
LEMMA TotalEquations ==
    ASSUME NEW rows, NEW k
    PROVE  /\ Total(rows, k, 0) = 0
           /\ \A n \in Nat : Total(rows, k, n + 1) = Total(rows, k, n) + Amount(rows, k, n + 1)
<1>1. Total(rows, k, 0) = 0
    <2>1. PICK f : IsTotal(f, rows, k, 0)
        BY TotalExists
    <2>2. f[0] = 0
        BY <2>1, TotalStep
    <2> QED
        BY <2>1, <2>2, TotalIs
<1>2. ASSUME NEW n \in Nat
      PROVE  Total(rows, k, n + 1) = Total(rows, k, n) + Amount(rows, k, n + 1)
    <2>1. PICK f : IsTotal(f, rows, k, n)
        BY TotalExists
    <2>2. PICK g : IsTotal(g, rows, k, n + 1) /\ g[n] = f[n]
        BY <2>1, TotalGrows
    <2>3. n + 1 \in 0 .. n + 1 /\ n + 1 # 0 /\ (n + 1) - 1 = n
        OBVIOUS
    <2>4. g[n + 1] = g[n] + Amount(rows, k, n + 1)
        BY <2>2, <2>3, TotalStep
    <2> QED
        BY <2>1, <2>2, <2>4, TotalIs
<1> QED
    BY <1>1, <1>2

\* Total sees the rows it adds up, and no others.
LEMMA TotalSame ==
    ASSUME NEW r, NEW s, NEW k, NEW n \in Nat, \A i \in 1 .. n : r[i] = s[i]
    PROVE  Total(r, k, n) = Total(s, k, n)
<1> DEFINE T == {m \in Nat : m <= n => Total(r, k, m) = Total(s, k, m)}
<1>1. 0 \in T
    BY TotalEquations
<1>2. ASSUME NEW m \in Nat, m \in T PROVE m + 1 \in T
    <2> SUFFICES ASSUME m + 1 <= n PROVE Total(r, k, m + 1) = Total(s, k, m + 1)
        OBVIOUS
    <2>1. Total(r, k, m) = Total(s, k, m)
        BY <1>2
    <2>2. Amount(r, k, m + 1) = Amount(s, k, m + 1)
        BY DEF Amount
    <2> QED
        BY <2>1, <2>2, TotalEquations
<1>3. Nat \subseteq T
    <2> HIDE DEF T
    <2> QED
        BY <1>1, <1>2, NatInd
<1> QED
    BY <1>3

LEMMA TotalType ==
    ASSUME NEW rows, NEW k, NEW n \in Nat, \A i \in 1 .. n : rows[i].val \in Int
    PROVE  Total(rows, k, n) \in Int
<1> DEFINE T == {m \in Nat : m <= n => Total(rows, k, m) \in Int}
<1>1. 0 \in T
    BY TotalEquations
<1>2. ASSUME NEW m \in Nat, m \in T PROVE m + 1 \in T
    <2> SUFFICES ASSUME m + 1 <= n PROVE Total(rows, k, m + 1) \in Int
        OBVIOUS
    <2>1. Total(rows, k, m) \in Int /\ m + 1 \in 1 .. n
        BY <1>2
    <2>2. Amount(rows, k, m + 1) \in Int
        BY <2>1 DEF Amount
    <2>3. Total(rows, k, m + 1) = Total(rows, k, m) + Amount(rows, k, m + 1)
        BY TotalEquations
    <2> QED
        BY <2>1, <2>2, <2>3
<1>3. Nat \subseteq T
    <2> HIDE DEF T
    <2> QED
        BY <1>1, <1>2, NatInd
<1> QED
    BY <1>3

LEMMA TotalOfNone ==
    ASSUME NEW rows, NEW k, NEW n \in Nat, \A i \in 1 .. n : rows[i].key # k
    PROVE  Total(rows, k, n) = 0
<1> DEFINE T == {m \in Nat : m <= n => Total(rows, k, m) = 0}
<1>1. 0 \in T
    BY TotalEquations
<1>2. ASSUME NEW m \in Nat, m \in T PROVE m + 1 \in T
    <2> SUFFICES ASSUME m + 1 <= n PROVE Total(rows, k, m + 1) = 0
        OBVIOUS
    <2>1. Total(rows, k, m) = 0 /\ m + 1 \in 1 .. n
        BY <1>2
    <2>2. Amount(rows, k, m + 1) = 0
        BY <2>1 DEF Amount
    <2>3. Total(rows, k, m + 1) = Total(rows, k, m) + Amount(rows, k, m + 1)
        BY TotalEquations
    <2> QED
        BY <2>1, <2>2, <2>3
<1>3. Nat \subseteq T
    <2> HIDE DEF T
    <2> QED
        BY <1>1, <1>2, NatInd
<1> QED
    BY <1>3

\* The rows filed, with the table right when their values are numbers.
Filed == Len(input) - Len(chunk)

IsSum(x, total) == x \in Int64 /\ (x - total) % (2 * MaxInt + 2) = 0

SumsInv ==
    pc # "panicked" /\ "SUM" \in Aggs =>
        /\ \A i \in 1 .. Filed : input[i].val \in Int64
        /\ \A b \in Occupied : IsSum(hvec[b].acc["SUM"], Total(input, hvec[b].key, Filed))

LEMMA SumUpdated ==
    ASSUME NEW x \in Int64, NEW v \in Int64, NEW total \in Int, IsSum(x, total)
    PROVE  IsSum(Update("SUM", x, v), total + v)
<1>1. PICK n \in Nat : n = 2 * MaxInt + 2 /\ n > 0
    BY ValuesAssumption
<1>2. x \in Int /\ v \in Int
    BY ValuesAssumption DEF Int64
<1>3. PICK w \in Int64 : w = Wrap(x + v)
    <2>1. PICK y \in Int : y = x + v
        BY <1>2
    <2> QED
        BY <2>1, WrapFacts
<1>4. w \in Int
    BY ValuesAssumption DEF Int64
<1>5. PICK q \in Int : x - total = n * q
    <2>1. (x - total) % n = 0 /\ x - total \in Int
        BY <1>1, <1>2 DEF IsSum
    <2>2. PICK d \in Int : d = x - total
        BY <2>1
    <2>3. d \div n \in Int /\ d = n * (d \div n) + (d % n)
        BY <1>1, <2>2, Remainder
    <2>4. d % n = 0
        BY <2>1, <2>2
    <2>5. d = n * (d \div n)
        BY <1>1, <2>3, <2>4
    <2> QED
        BY <2>2, <2>3, <2>5
<1>6. PICK p \in Int : w = x + v - n * p
    <2>1. PICK d \in Int : d = x + v + MaxInt + 1
        BY <1>2, ValuesAssumption
    <2>2. d \div n \in Int /\ d = n * (d \div n) + (d % n) /\ d % n \in Int
        BY <1>1, <2>1, Remainder
    <2>3. w = (d % n) - MaxInt - 1
        BY <1>1, <1>3, <2>1 DEF Wrap
    <2>4. PICK e \in Int : e = d \div n
        BY <2>2
    <2>5. n * e \in Int
        BY <1>1
    <2>6. w = x + v - n * e
        BY <1>2, <2>1, <2>2, <2>3, <2>4, <2>5, ValuesAssumption
    <2> QED
        BY <2>6
<1>7. w - (total + v) = n * (q - p) + 0
    <2>1. n * (q - p) = n * q - n * p
        BY <1>1
    <2>2. n * q \in Int /\ n * p \in Int
        BY <1>1
    <2> QED
        BY <1>2, <1>4, <1>5, <1>6, <2>1, <2>2
<1>8. (w - (total + v)) % n = 0
    <2>1. q - p \in Int /\ 0 \in 0 .. n - 1
        BY <1>1
    <2>2. (n * (q - p) + 0) % n = 0
        BY <1>1, <2>1, RemainderUnique
    <2> QED
        BY <1>7, <2>2
<1>9. Update("SUM", x, v) = w
    BY <1>3 DEF Update
<1> QED
    BY <1>1, <1>8, <1>9 DEF IsSum

LEMMA SumOfOne ==
    ASSUME NEW v \in Int64
    PROVE  IsSum(InitAcc("SUM", v), v)
<1>1. PICK n \in Nat : n = 2 * MaxInt + 2 /\ n > 0
    BY ValuesAssumption
<1>2. v \in Int
    BY ValuesAssumption DEF Int64
<1>3. (n * 0 + 0) % n = 0 /\ n * 0 + 0 = 0
    BY <1>1, RemainderUnique
<1>4. InitAcc("SUM", v) = v /\ v - v = 0
    BY <1>2 DEF InitAcc
<1> QED
    BY <1>1, <1>3, <1>4 DEF IsSum

\* The row filed is the next one of the input.
LEMMA FiledNext ==
    ASSUME HInv, pc = "probe", RowDone, UNCHANGED input
    PROVE  Filed \in Nat /\ Filed' = Filed + 1 /\ input[Filed + 1] = row
<1>1. /\ chunk \in Seq(Row) /\ Len(chunk) \in Nat /\ Len(chunk) > 0 /\ row = chunk[1]
      /\ Len(Tail(chunk)) = Len(chunk) - 1
    BY RowFacts DEF HInv
<1>2. /\ Len(input) \in Nat /\ Len(chunk) <= Len(input)
      /\ chunk[1] = input[Len(input) - Len(chunk) + 1]
    BY <1>1 DEF HInv, TypeOK, Suffix
<1>3. Len(chunk') = Len(chunk) - 1 /\ Len(input') = Len(input)
    BY <1>1 DEF RowDone
<1> QED
    BY <1>1, <1>2, <1>3 DEF Filed

LEMMA SumsFixed ==
    ASSUME SumsInv, UNCHANGED hvec, pc # "panicked", Filed' = Filed, Filed \in Nat,
           \A i \in 1 .. Filed : input'[i] = input[i]
    PROVE  SumsInv'
<1>1. Occupied' = Occupied
    BY DEF Occupied
<1>2. \A k : Total(input', k, Filed) = Total(input, k, Filed)
    <2>1. PICK n \in Nat : n = Filed
        OBVIOUS
    <2>2. PICK r, s : r = input' /\ s = input
        OBVIOUS
    <2>3. \A i \in 1 .. n : r[i] = s[i]
        BY <2>1, <2>2
    <2>4. \A k : Total(r, k, n) = Total(s, k, n)
        BY <2>3, TotalSame
    <2> QED
        BY <2>1, <2>2, <2>4
<1>3. SUFFICES ASSUME "SUM" \in Aggs PROVE
          /\ \A i \in 1 .. Filed' : input'[i].val \in Int64
          /\ \A b \in Occupied : IsSum(hvec'[b].acc["SUM"], Total(input', hvec'[b].key, Filed'))
    BY <1>1 DEF SumsInv, IsSum, Int64, Total
<1>4. \A i \in 1 .. Filed : input'[i].val \in Int64
    BY <1>3 DEF SumsInv
<1>5. \A b \in Occupied : IsSum(hvec[b].acc["SUM"], Total(input, hvec[b].key, Filed))
    BY <1>3 DEF SumsInv
<1> QED
    BY <1>2, <1>4, <1>5

LEMMA SumsFound == HInv /\ SumsInv /\ Found => SumsInv'
<1> SUFFICES ASSUME HInv, SumsInv, Found, pc' # "panicked", "SUM" \in Aggs
             PROVE  /\ \A i \in 1 .. Filed' : input'[i].val \in Int64
                    /\ \A b \in Occupied' : IsSum(hvec'[b].acc["SUM"], Total(input', hvec'[b].key, Filed'))
    BY DEF SumsInv, IsSum, Int64, Total
<1>1. /\ pc = "probe" /\ hvec[bucket].key = row.key /\ hvec[bucket].key # Null
      /\ ~UpdatePanics(hvec[bucket].acc, row.val) /\ RowDone /\ UNCHANGED input
      /\ hvec' = [hvec EXCEPT ![bucket].acc = [a \in Aggs |-> Update(a, @[a], row.val)]]
    BY DEF Found, Compare
<1>2. /\ bucket \in Occupied /\ row \in Row
      /\ hvec \in [Buckets -> Entries] /\ hvec[bucket] \in [key : Keys, acc : Accumulators]
    BY <1>1, RowFacts, OccupiedFacts DEF HInv, TypeOK, Occupied
<1>3. /\ \A b \in Buckets : hvec'[b].key = hvec[b].key
      /\ \A b \in Buckets : b # bucket => hvec'[b] = hvec[b]
      /\ hvec'[bucket].acc = [a \in Aggs |-> Update(a, hvec[bucket].acc[a], row.val)]
    <2>1. PICK acc : acc = [a \in Aggs |-> Update(a, hvec[bucket].acc[a], row.val)]
        OBVIOUS
    <2>2. hvec' = [hvec EXCEPT ![bucket] = [hvec[bucket] EXCEPT !.acc = acc]] /\ bucket \in Buckets
        BY <1>1, <1>2, <2>1 DEF Occupied
    <2>3. [hvec[bucket] EXCEPT !.acc = acc] = [key |-> hvec[bucket].key, acc |-> acc]
        BY <1>2
    <2> QED
        BY <1>2, <2>1, <2>2, <2>3
<1>4. Occupied' = Occupied
    BY <1>3 DEF Occupied
<1>5. PICK n \in Nat : n = Filed /\ Filed' = n + 1 /\ input[n + 1] = row
    BY <1>1, FiledNext
<1>6. row.val \in Int64
    BY <1>1, <1>2, ValuesAssumption DEF UpdatePanics, Row, Int64
<1>7. /\ \A i \in 1 .. n : input[i].val \in Int64
      /\ \A b \in Occupied : IsSum(hvec[b].acc["SUM"], Total(input, hvec[b].key, n))
    BY <1>1, <1>5 DEF SumsInv
<1>8. \A i \in 1 .. n + 1 : i \in 1 .. n \/ i = n + 1
    OBVIOUS
<1>9. PICK rows : rows = input
    OBVIOUS
<1>10. \A k : Total(rows, k, n) \in Int
    <2>1. \A i \in 1 .. n : rows[i].val \in Int
        BY <1>7, <1>9, ValuesAssumption DEF Int64
    <2> QED
        BY <2>1, TotalType
<1>11. \A k : Total(rows, k, n + 1) = Total(rows, k, n) + Amount(rows, k, n + 1)
    BY TotalEquations
<1>12. ASSUME NEW b \in Occupied
       PROVE  IsSum(hvec'[b].acc["SUM"], Total(rows, hvec[b].key, n + 1))
    <2>1. PICK k, total : k = hvec[b].key /\ total = Total(rows, k, n) /\ total \in Int
        BY <1>10
    <2>2. IsSum(hvec[b].acc["SUM"], total)
        BY <1>7, <1>9, <2>1
    <2>3. CASE b = bucket
        <3>1. Amount(rows, k, n + 1) = row.val
            BY <1>1, <1>5, <1>9, <2>1, <2>3 DEF Amount
        <3>2. hvec[b].acc["SUM"] \in Int64
            BY <2>2 DEF IsSum
        <3>3. IsSum(Update("SUM", hvec[b].acc["SUM"], row.val), total + row.val)
            BY <1>6, <2>1, <2>2, <3>2, SumUpdated
        <3>4. hvec'[b].acc["SUM"] = Update("SUM", hvec[b].acc["SUM"], row.val)
            BY <1>3, <2>3
        <3> QED
            BY <1>11, <2>1, <3>1, <3>3, <3>4
    <2>4. CASE b # bucket
        <3>1. k # row.key
            BY <1>1, <1>2, <2>1, <2>4 DEF HInv, TableInv, OneEntryPerKey
        <3>2. Amount(rows, k, n + 1) = 0
            BY <1>5, <1>9, <3>1 DEF Amount
        <3>3. Total(rows, k, n + 1) = total
            BY <1>11, <2>1, <3>2
        <3>4. hvec'[b] = hvec[b]
            BY <1>3, <2>4 DEF Occupied
        <3> QED
            BY <2>1, <2>2, <3>3, <3>4
    <2> QED
        BY <2>3, <2>4
<1>13. \A b \in Occupied : hvec'[b].key = hvec[b].key
    BY <1>3 DEF Occupied
<1>14. \A i \in 1 .. n + 1 : rows[i].val \in Int64
    BY <1>5, <1>6, <1>7, <1>8, <1>9
<1> QED
    BY <1>1, <1>4, <1>5, <1>9, <1>12, <1>13, <1>14

LEMMA SumsInserted == HInv /\ SumsInv /\ Insert => SumsInv'
<1> SUFFICES ASSUME HInv, SumsInv, Insert, pc' # "panicked", "SUM" \in Aggs
             PROVE  /\ \A i \in 1 .. Filed' : input'[i].val \in Int64
                    /\ \A b \in Occupied' : IsSum(hvec'[b].acc["SUM"], Total(input', hvec'[b].key, Filed'))
    BY DEF SumsInv, IsSum, Int64, Total
<1>1. /\ pc = "probe" /\ hvec[bucket].key = Null /\ RowDone /\ UNCHANGED input
      /\ ~InitPanics(row.val)
      /\ hvec' = [hvec EXCEPT ![bucket] = [key |-> row.key, acc |-> [a \in Aggs |-> InitAcc(a, row.val)]]]
    BY DEF Insert
<1>2. /\ bucket \in Buckets /\ bucket \notin Occupied /\ row \in Row /\ row.key \in Keys
      /\ hvec \in [Buckets -> Entries]
    BY <1>1, RowFacts DEF HInv, TypeOK, Occupied
<1>3. /\ hvec'[bucket].key = row.key
      /\ hvec'[bucket].acc = [a \in Aggs |-> InitAcc(a, row.val)]
      /\ \A b \in Buckets : b # bucket => hvec'[b] = hvec[b]
    BY <1>1, <1>2
<1>4. Occupied' \subseteq Occupied \union {bucket}
    BY <1>3 DEF Occupied
<1>5. \A b \in Occupied : hvec[b].key # row.key /\ hvec'[b] = hvec[b]
    BY <1>1, <1>2, <1>3, NewKey DEF Occupied
<1>6. PICK n \in Nat : n = Filed /\ Filed' = n + 1 /\ input[n + 1] = row
    BY <1>1, FiledNext
<1>7. row.val \in Int64
    BY <1>1, <1>2, ValuesAssumption DEF InitPanics, Row, Int64
<1>8. /\ \A i \in 1 .. n : input[i].val \in Int64
      /\ \A b \in Occupied : IsSum(hvec[b].acc["SUM"], Total(input, hvec[b].key, n))
    BY <1>1, <1>6 DEF SumsInv
<1>9. \A i \in 1 .. n + 1 : i \in 1 .. n \/ i = n + 1
    OBVIOUS
<1>10. PICK rows : rows = input
    OBVIOUS
<1>11. \A k : Total(rows, k, n) \in Int
    <2>1. \A i \in 1 .. n : rows[i].val \in Int
        BY <1>8, <1>10, ValuesAssumption DEF Int64
    <2> QED
        BY <2>1, TotalType
<1>12. \A k : Total(rows, k, n + 1) = Total(rows, k, n) + Amount(rows, k, n + 1)
    BY TotalEquations
<1>13. Total(rows, row.key, n) = 0
    <2>1. RowsOf(row.key) = {}
        BY <1>1, <1>2, <1>5 DEF HInv, RowsInv, EntriesAreKeys
    <2>2. PICK k : k = row.key
        OBVIOUS
    <2>3. \A i \in 1 .. n : rows[i].key # k
        BY <1>6, <1>10, <2>1, <2>2 DEF RowsOf, Filed
    <2>4. Total(rows, k, n) = 0
        BY <2>3, TotalOfNone
    <2> QED
        BY <2>2, <2>4
<1>14. ASSUME NEW b \in Occupied'
       PROVE  IsSum(hvec'[b].acc["SUM"], Total(rows, hvec'[b].key, n + 1))
    <2>1. CASE b = bucket
        <3>1. Amount(rows, row.key, n + 1) = row.val
            BY <1>6, <1>10 DEF Amount
        <3>2. row.val \in Int
            BY <1>7, ValuesAssumption DEF Int64
        <3>3. Total(rows, row.key, n + 1) = row.val
            BY <1>12, <1>13, <3>1, <3>2
        <3>4. IsSum(InitAcc("SUM", row.val), row.val)
            BY <1>7, SumOfOne
        <3>5. hvec'[b].acc["SUM"] = InitAcc("SUM", row.val)
            BY <1>3, <2>1
        <3> QED
            BY <1>3, <2>1, <3>3, <3>4, <3>5
    <2>2. CASE b \in Occupied
        <3>1. PICK k, total : k = hvec[b].key /\ total = Total(rows, k, n) /\ total \in Int
            BY <1>11
        <3>2. IsSum(hvec[b].acc["SUM"], total)
            BY <1>8, <1>10, <2>2, <3>1
        <3>3. k # row.key /\ hvec'[b] = hvec[b]
            BY <1>5, <2>2, <3>1
        <3>4. Amount(rows, k, n + 1) = 0
            BY <1>6, <1>10, <3>3 DEF Amount
        <3>5. Total(rows, k, n + 1) = total
            BY <1>12, <3>1, <3>4
        <3> QED
            BY <3>1, <3>2, <3>3, <3>5
    <2> QED
        BY <1>4, <1>14, <2>1, <2>2
<1>15. \A i \in 1 .. n + 1 : rows[i].val \in Int64
    BY <1>6, <1>7, <1>8, <1>9, <1>10
<1> QED
    BY <1>1, <1>6, <1>10, <1>14, <1>15

LEMMA SumsNext == HInv /\ SumsInv /\ [Next]_vars => SumsInv'
<1> SUFFICES ASSUME HInv, SumsInv, [Next]_vars PROVE SumsInv'
    OBVIOUS
<1>0. Filed \in Nat
    BY DEF HInv, TypeOK, Suffix, Filed
<1>1. CASE NextChunk
    <2>1. pc = "next" /\ chunk = << >> /\ hvec' = hvec
        BY <1>1 DEF HInv, Suffix, NextChunk
    <2>2. PICK c \in Chunks :
            IF HashPanics(c) THEN pc' = "panicked" ELSE chunk' = c /\ input' = input \o c
        BY <1>1 DEF NextChunk
    <2>3. CASE pc' = "panicked"
        BY <2>3 DEF SumsInv
    <2>4. CASE chunk' = c /\ input' = input \o c
        <3>1. c \in Seq(Rows) /\ Len(c) \in Nat
            <4>1. CASE \E r \in Rows : c = <<r>>
                BY <4>1
            <4>2. CASE \E r \in Rows, s \in Rows : c = <<r, s>>
                BY <4>2
            <4> QED
                BY <4>1, <4>2 DEF Chunks
        <3>2. input \in Seq(Rows) /\ Len(input) \in Nat
            <4>1. input \in Seq(Row) /\ Row \subseteq Rows
                BY DEF HInv, TypeOK, Row, Rows
            <4>2. \A i \in 1 .. Len(input) : input[i] \in Rows
                BY <4>1
            <4> QED
                BY <4>1, <4>2, SeqDef
        <3>3. Len(input') = Len(input) + Len(c) /\ \A i \in 1 .. Len(input) : input'[i] = input[i]
            BY <2>4, <3>1, <3>2
        <3>4. Len(input') - Len(chunk') = Len(input) /\ Len(input) - Len(chunk) = Len(input)
            BY <2>1, <2>4, <3>1, <3>2, <3>3
        <3>5. Filed' = Filed /\ \A i \in 1 .. Filed : input'[i] = input[i]
            BY <3>3, <3>4 DEF Filed
        <3> QED
            BY <1>0, <2>1, <3>5, SumsFixed
    <2> QED
        BY <2>2, <2>3, <2>4
<1>2. CASE pc' = "panicked"
    BY <1>2 DEF SumsInv
<1>3. CASE UNCHANGED <<input, chunk, hvec>> /\ (pc = "panicked" => pc' = "panicked")
    <2>1. Filed' = Filed /\ \A i \in 1 .. Filed : input'[i] = input[i]
        BY <1>3 DEF Filed
    <2> QED
        BY <1>0, <1>2, <1>3, <2>1, SumsFixed
<1>4. CASE EndOfInput \/ StartFind \/ ComparePanics \/ Probe \/ Terminated \/ UNCHANGED vars
    BY <1>3, <1>4 DEF EndOfInput, StartFind, ComparePanics, Probe, Compare, Terminated, vars
<1>5. CASE Found
    BY <1>5, SumsFound
<1>6. CASE Insert
    BY <1>6, SumsInserted
<1> QED
    BY <1>1, <1>4, <1>5, <1>6 DEF Next, Find

-----------------------------------------------------------------------------
(* The theorems. *)

LEMMA StutterInv == HInv /\ UNCHANGED vars => HInv'
<1> SUFFICES ASSUME HInv, UNCHANGED vars PROVE HInv'
    OBVIOUS
<1>1. UNCHANGED <<keyType, debugBuild, input, chunk, pc, bucket, hvec, noccupied>>
    BY DEF vars
<1>2. Occupied' = Occupied /\ TableInv'
    BY <1>1, TableFixed DEF HInv
<1>3. \A k : RowsOf(k)' = RowsOf(k)
    BY <1>1 DEF RowsOf
<1>4. TypeOK' /\ Suffix'
    BY <1>1 DEF HInv, TypeOK, Suffix
<1>5. Passed'
    BY <1>1, <1>2 DEF HInv, Passed, Home, row, Between
<1>6. EntriesAreKeys'
    BY <1>1, <1>2, <1>3 DEF HInv, RowsInv, EntriesAreKeys
<1>7. CountsRight'
    BY <1>1, <1>2, <1>3 DEF HInv, RowsInv, CountsRight, Wrap
<1> QED
    BY <1>2, <1>4, <1>5, <1>6, <1>7 DEF HInv, RowsInv

LEMMA NextInv == HInv /\ [Next]_vars => HInv'
BY NextChunkInv, EndOfInputInv, StartFindInv, ComparePanicsInv, ProbeInv, FoundInv, InsertInv,
   StutterInv DEF Next, Find, Terminated

\* The inductive invariant holds in every run of the aggregation.
THEOREM Invariance == Spec => []HInv
BY InitInv, NextInv, PTL DEF Spec

\* The variables keep their types, and the accumulators stay 64-bit integers.
THEOREM TypeCorrect == Spec => []TypeOK
<1>1. HInv => TypeOK
    BY DEF HInv
<1> QED
    BY <1>1, Invariance, PTL

\* find (pop_hashagg.rs) can stop at the first empty bucket: none lies before an entry.
THEOREM SearchIsComplete == Spec => []NoGapBefore
<1>1. HInv => NoGapBefore
    BY DEF HInv, TableInv
<1> QED
    BY <1>1, Invariance, PTL

\* Whatever keys collide, a key has one entry, so that a group is emitted once.
THEOREM GroupsAreWhole == Spec => []OneEntryPerKey
<1>1. HInv => OneEntryPerKey
    BY DEF HInv, TableInv
<1> QED
    BY <1>1, Invariance, PTL

\* noccupied is the number of entries, so that no output is left out or made up.
THEOREM OccupancyIsCounted == Spec => []EntriesCounted
<1>1. HInv => EntriesCounted
    BY DEF HInv, TableInv
<1> QED
    BY <1>1, Invariance, PTL

\* The groups are the keys of the rows filed.
THEOREM GroupsAreTheKeys == Spec => []EntriesAreKeys
<1>1. HInv => EntriesAreKeys
    BY DEF HInv, RowsInv
<1> QED
    BY <1>1, Invariance, PTL

\* COUNT is the number of rows of the group, modulo the width of the accumulator.
THEOREM CountIsNumberOfRows == Spec => []CountsRight
<1>1. HInv => CountsRight
    BY DEF HInv, RowsInv
<1> QED
    BY <1>1, Invariance, PTL

\* MIN and MAX are a value of the group that bounds the others.
THEOREM ExtremesAreOfTheGroup == Spec => []ExtremesRight
<1>1. Init => ExtremesInv
    <2>1. Init => Occupied = {}
        BY DEF Init, Empty, Occupied
    <2> QED
        BY <2>1 DEF ExtremesInv
<1>2. ExtremesInv => ExtremesRight
    BY DEF ExtremesInv, IsExtreme, ExtremesRight, GroupOf
<1>3. HInv /\ ExtremesInv /\ [Next]_vars => ExtremesInv'
    BY ExtremesNext
<1> QED
    BY <1>1, <1>2, <1>3, Invariance, PTL DEF Spec

\* SUM is the sum of the rows of the group, modulo the width of the accumulator, however
\* its additions wrapped on the way.
THEOREM SumsAreOfTheGroup == Spec => []SumsRight
<1>1. Init => SumsInv
    <2>1. SUFFICES ASSUME Init PROVE SumsInv
        OBVIOUS
    <2>2. Occupied = {}
        BY <2>1 DEF Init, Empty, Occupied
    <2>3. Filed = 0
        BY <2>1 DEF Init, Filed
    <2> QED
        BY <2>2, <2>3 DEF SumsInv
<1>2. SumsInv => SumsRight
    BY DEF SumsInv, IsSum, SumsRight, Filed
<1>3. HInv /\ SumsInv /\ [Next]_vars => SumsInv'
    BY SumsNext
<1> QED
    BY <1>1, <1>2, <1>3, Invariance, PTL DEF Spec
=============================================================================
