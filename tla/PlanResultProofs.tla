-------------------------- MODULE PlanResultProofs --------------------------
(***************************************************************************)
(* Theorems about what the rows are that the operators of a plan compute   *)
(* (PlanResult), for every query: every LOP below the aggregations has the *)
(* rows it is to have, and the plan gives the answer of the query.         *)
(*                                                                         *)
(* PlanInv, the invariant of PlannerProofs, says what a compiled plan is.  *)
(* Right(n), that LOP n returns its rows, follows from it and from Right   *)
(* of the children of n; the aggregations are on top of that.              *)
(***************************************************************************)
EXTENDS PlannerProofs

-----------------------------------------------------------------------------
(* Rows, and the values of expressions. *)

\* Columns of the tables S.
ColsOf(S) == S \X (0 .. Width - 1)
AreCols(cols, S) == IsFiniteSet(cols) /\ cols \subseteq ColsOf(S)
IsExprOf(e, S) == AreCols(e.cols, S) /\ e.plus \in Int

\* x has a row of each of the tables S.
HasRows(x, S) == \A q \in S : \A c \in 0 .. Width - 1 : x[q].val[c] \in Int
SameRows(x, y, S) == \A q \in S : x[q] = y[q]

CellOf(c, x) == x[c[1]].val[c[2]]

LEMMA ColPart ==
    ASSUME NEW S, NEW cols, AreCols(cols, S), NEW c \in cols
    PROVE  c[1] \in S /\ c[2] \in 0 .. Width - 1 /\ c = <<c[1], c[2]>>
BY DEF AreCols, ColsOf

LEMMA CellInt ==
    ASSUME NEW S, NEW cols, AreCols(cols, S), NEW x, HasRows(x, S), NEW c \in cols
    PROVE  CellOf(c, x) \in Int
BY ColPart DEF HasRows, CellOf

LEMMA ValDef ==
    ASSUME NEW e, NEW x
    PROVE  Val(e, x) = e.plus + SumFunctionOnSet([c \in e.cols |-> CellOf(c, x)], e.cols)
<1>1. DOMAIN [c \in e.cols |-> x[c[1]].val[c[2]]] = e.cols
    OBVIOUS
<1>2. SumFunction([c \in e.cols |-> x[c[1]].val[c[2]]])
        = SumFunctionOnSet([c \in e.cols |-> x[c[1]].val[c[2]]], e.cols)
    BY <1>1 DEF SumFunction
<1> QED
    BY <1>2 DEF Val, CellOf

LEMMA CellInts ==
    ASSUME NEW S, NEW cols, AreCols(cols, S), NEW x, HasRows(x, S)
    PROVE  Ints([c \in cols |-> CellOf(c, x)], cols)
BY CellInt DEF Ints

LEMMA ValInt ==
    ASSUME NEW S, NEW e, IsExprOf(e, S), NEW x, HasRows(x, S)
    PROVE  Val(e, x) \in Int
<1> DEFINE f == [c \in e.cols |-> CellOf(c, x)]
<1>1. IsFiniteSet(e.cols) /\ e.plus \in Int /\ AreCols(e.cols, S)
    BY DEF IsExprOf, AreCols
<1>2. Ints(f, e.cols)
    BY <1>1, CellInts
<1>3. SumFunctionOnSet(f, e.cols) \in Int
    <2> HIDE DEF f
    <2> QED
        BY <1>1, <1>2, SumInt
<1> QED
    BY <1>1, <1>3, ValDef

\* An expression is about the rows of its own tables.
LEMMA ValSame ==
    ASSUME NEW S, NEW e, IsExprOf(e, S), NEW x, NEW y, SameRows(x, y, S)
    PROVE  Val(e, x) = Val(e, y)
<1> DEFINE f == [c \in e.cols |-> CellOf(c, x)]
           g == [c \in e.cols |-> CellOf(c, y)]
<1>1. AreCols(e.cols, S)
    BY DEF IsExprOf
<1>2. \A c \in e.cols : CellOf(c, x) = CellOf(c, y)
    BY <1>1, ColPart DEF SameRows, CellOf
<1>3. f = g
    BY <1>2
<1>4. Val(e, x) = e.plus + SumFunctionOnSet(f, e.cols) /\ Val(e, y) = e.plus + SumFunctionOnSet(g, e.cols)
    BY ValDef
<1> HIDE DEF f, g
<1> QED
    BY <1>3, <1>4

-----------------------------------------------------------------------------
(* The order of columns. *)

LEMMA BeforeFacts ==
    ASSUME NEW c \in Nat \X Nat, NEW d \in Nat \X Nat
    PROVE  /\ ~BeforeCol(c, c)
           /\ c # d => BeforeCol(c, d) \/ BeforeCol(d, c)
           /\ \A b \in Nat \X Nat : BeforeCol(b, c) /\ BeforeCol(c, d) => BeforeCol(b, d)
BY DEF BeforeCol

LEMMA RankFacts ==
    ASSUME NEW cols, IsFiniteSet(cols), cols \subseteq Nat \X Nat
    PROVE  /\ Cardinality(cols) \in Nat
           /\ \A c \in cols : Rank(cols, c) \in 0 .. Cardinality(cols) - 1
           /\ \A c, d \in cols : Rank(cols, c) = Rank(cols, d) => c = d
           /\ \A i \in 0 .. Cardinality(cols) - 1 : \E c \in cols : Rank(cols, c) = i
<1> DEFINE L(c) == {d \in cols : BeforeCol(d, c)}
           r == [c \in cols |-> Rank(cols, c)]
           n == Cardinality(cols)
<1>1. n \in Nat
    BY FS_CardinalityType
<1>2. \A c \in cols : IsFiniteSet(L(c)) /\ Cardinality(L(c)) \in Nat /\ Cardinality(L(c)) < n
    <2> SUFFICES ASSUME NEW c \in cols
                 PROVE  IsFiniteSet(L(c)) /\ Cardinality(L(c)) \in Nat /\ Cardinality(L(c)) < n
        OBVIOUS
    <2>1. c \notin L(c)
        BY BeforeFacts
    <2>2. L(c) \subseteq cols /\ L(c) # cols
        BY <2>1
    <2> HIDE DEF L
    <2>3. IsFiniteSet(L(c)) /\ Cardinality(L(c)) <= n /\ (Cardinality(L(c)) = n => L(c) = cols)
        BY <2>2, FS_Subset
    <2>4. Cardinality(L(c)) \in Nat
        BY <2>3, FS_CardinalityType
    <2> QED
        BY <1>1, <2>2, <2>3, <2>4
<1>3. \A c \in cols : Rank(cols, c) = Cardinality(L(c)) /\ Rank(cols, c) \in 0 .. n - 1
    <2>1. \A c \in cols : Rank(cols, c) = Cardinality(L(c))
        BY DEF Rank
    <2> HIDE DEF L, n
    <2> QED
        BY <1>1, <1>2, <2>1
<1>4. ASSUME NEW c \in cols, NEW d \in cols, BeforeCol(c, d) PROVE Rank(cols, c) < Rank(cols, d)
    <2>1. L(c) \subseteq L(d) /\ c \in L(d) /\ c \notin L(c)
        BY <1>4, BeforeFacts
    <2> HIDE DEF L
    <2>2. Cardinality(L(c)) <= Cardinality(L(d)) /\ (Cardinality(L(c)) = Cardinality(L(d)) => L(c) = L(d))
        BY <1>2, <2>1, FS_Subset
    <2>3. Cardinality(L(c)) # Cardinality(L(d)) /\ Cardinality(L(c)) \in Nat /\ Cardinality(L(d)) \in Nat
        BY <1>2, <2>1, <2>2
    <2> QED
        BY <1>3, <2>2, <2>3
<1>5. \A c, d \in cols : r[c] = r[d] => c = d
    <2> SUFFICES ASSUME NEW c \in cols, NEW d \in cols, c # d PROVE Rank(cols, c) # Rank(cols, d)
        OBVIOUS
    <2>1. BeforeCol(c, d) \/ BeforeCol(d, c)
        BY BeforeFacts
    <2>2. Rank(cols, c) < Rank(cols, d) \/ Rank(cols, d) < Rank(cols, c)
        BY <1>4, <2>1
    <2>3. Rank(cols, c) \in 0 .. n - 1 /\ Rank(cols, d) \in 0 .. n - 1
        BY <1>3
    <2> QED
        BY <2>2, <2>3
<1>6. {r[c] : c \in cols} = 0 .. n - 1
    <2>1. {r[c] : c \in cols} \subseteq 0 .. n - 1
        BY <1>3
    <2>2. IsFiniteSet({r[c] : c \in cols}) /\ Cardinality({r[c] : c \in cols}) = n
        <3> HIDE DEF r
        <3> QED
            BY <1>5, ImageFinite
    <2>3. IsFiniteSet(0 .. n - 1) /\ Cardinality(0 .. n - 1) = n
        <3> HIDE DEF n
        <3>1. Cardinality(0 .. n - 1) = IF 0 > n - 1 THEN 0 ELSE n - 1 - 0 + 1
            BY <1>1, FS_Interval
        <3> QED
            BY <1>1, <3>1, FS_Interval
    <2> HIDE DEF r, n
    <2>4. PICK T : T = {r[c] : c \in cols}
        OBVIOUS
    <2>5. T = 0 .. n - 1
        BY <2>1, <2>2, <2>3, <2>4, FS_Subset
    <2> QED
        BY <2>4, <2>5
<1> QED
    <2>1. \A i \in 0 .. n - 1 : \E c \in cols : r[c] = i
        <3> HIDE DEF r, n
        <3> QED
            BY <1>6
    <2>2. \A c, d \in cols : Rank(cols, c) = Rank(cols, d) => c = d
        BY <1>5
    <2> QED
        BY <1>1, <1>3, <2>1, <2>2

LEMMA InOrderFacts ==
    ASSUME NEW cols, IsFiniteSet(cols), cols \subseteq Nat \X Nat, NEW order, order = InOrder(cols)
    PROVE  /\ DOMAIN order = 1 .. Cardinality(cols)
           /\ \A i \in DOMAIN order : order[i] \in cols /\ Rank(cols, order[i]) = i - 1
           /\ \A c \in cols : Rank(cols, c) + 1 \in DOMAIN order /\ order[Rank(cols, c) + 1] = c
<1> DEFINE n == Cardinality(cols)
<1>1. n \in Nat /\ \A c \in cols : Rank(cols, c) \in 0 .. n - 1
    BY RankFacts
<1>2. \A c, d \in cols : Rank(cols, c) = Rank(cols, d) => c = d
    BY RankFacts
<1>3. \A i \in 1 .. n : order[i] = CHOOSE c \in cols : Rank(cols, c) = i - 1
    BY DEF InOrder
<1>4. DOMAIN order = 1 .. n
    BY DEF InOrder
<1>5. \A i \in 1 .. n : order[i] \in cols /\ Rank(cols, order[i]) = i - 1
    <2> SUFFICES ASSUME NEW i \in 1 .. n PROVE order[i] \in cols /\ Rank(cols, order[i]) = i - 1
        OBVIOUS
    <2>1. i - 1 \in 0 .. n - 1
        BY <1>1
    <2>2. \E c \in cols : Rank(cols, c) = i - 1
        BY <2>1, RankFacts
    <2> QED
        BY <1>3, <2>2
<1>6. ASSUME NEW c \in cols PROVE Rank(cols, c) + 1 \in 1 .. n /\ order[Rank(cols, c) + 1] = c
    <2>1. Rank(cols, c) \in 0 .. n - 1
        BY <1>1
    <2>2. PICK i : i = Rank(cols, c) + 1
        OBVIOUS
    <2>3. i \in 1 .. n /\ i - 1 = Rank(cols, c)
        BY <1>1, <2>1, <2>2
    <2>4. order[i] \in cols /\ Rank(cols, order[i]) = Rank(cols, c)
        BY <1>5, <2>3
    <2>5. order[i] = c
        BY <1>2, <2>4
    <2> QED
        BY <2>2, <2>3, <2>5
<1> QED
    BY <1>4, <1>5, <1>6

LEMMA MaxFacts ==
    ASSUME NEW n \in Nat, NEW S, S \subseteq 1 .. n, S # {}
    PROVE  Max(S) \in S /\ \A i \in S : i <= Max(S)
<1> DEFINE T == {m \in Nat : \A R \in SUBSET (1 .. m) : R # {} => \E x \in R : \A y \in R : x >= y}
<1>1. 0 \in T
    <2>1. \A R \in SUBSET (1 .. 0) : R = {}
        OBVIOUS
    <2> QED
        BY <2>1
<1>2. ASSUME NEW m \in Nat, m \in T PROVE m + 1 \in T
    <2> SUFFICES ASSUME NEW R \in SUBSET (1 .. m + 1), R # {} PROVE \E x \in R : \A y \in R : x >= y
        BY <1>2
    <2>1. CASE m + 1 \in R
        BY <2>1
    <2>2. CASE m + 1 \notin R
        <3>1. R \in SUBSET (1 .. m)
            BY <2>2
        <3> QED
            BY <1>2, <3>1
    <2> QED
        BY <2>1, <2>2
<1>3. n \in T
    <2> HIDE DEF T
    <2> QED
        BY <1>1, <1>2, NatInd
<1>4. \E x \in S : \A y \in S : x >= y
    BY <1>3
<1>5. Max(S) \in S /\ \A y \in S : Max(S) >= y
    BY <1>4 DEF Max
<1> QED
    BY <1>5

LEMMA ColsNat ==
    ASSUME NEW S \in SUBSET Nat, NEW cols, AreCols(cols, S)
    PROVE  IsFiniteSet(cols) /\ cols \subseteq Nat \X Nat
<1>1. ASSUME NEW c \in cols PROVE c \in Nat \X Nat
    <2>1. c[1] \in Nat /\ c[2] \in Nat /\ c = <<c[1], c[2]>>
        BY ColPart
    <2> QED
        BY <2>1
<1> QED
    BY <1>1 DEF AreCols

-----------------------------------------------------------------------------
(* What is in a chunk, and where it is found. *)

\* The values of columns cols and expressions virtcols in the rows x.
Chunk(cols, virtcols, x) ==
    [i \in 1 .. Cardinality(cols) |-> CellOf(InOrder(cols)[i], x)]
        \o [i \in DOMAIN virtcols |-> Val(ExprOf(virtcols[i]), x)]

Worth(p, x) == IF p[1] = "QunCol" THEN CellOf(p[2], x) ELSE Val(ExprOf(p[2]), x)

\* Map says where the values of rows x are in vals.
Fits(map, vals, x) ==
    /\ vals \in Seq(Int)
    /\ \A p \in DOMAIN map : map[p] \in Nat /\ map[p] < Len(vals) /\ vals[map[p] + 1] = Worth(p, x)
    /\ \A c, d : QunCol(c) \in DOMAIN map /\ QunCol(d) \in DOMAIN map /\ map[QunCol(c)] = map[QunCol(d)] => c = d

\* What a LOP of the tables S computes.
AreExprs(virtcols, S) ==
    /\ DOMAIN virtcols = 1 .. Len(virtcols) /\ Len(virtcols) \in Nat
    /\ \A i \in DOMAIN virtcols : IsExprOf(ExprOf(virtcols[i]), S)

\* Vals are the values of n columns and of expressions.
IsChunk(vals, cols, virtcols, x, n) ==
    /\ n \in Nat
    /\ vals \in Seq(Int)
    /\ Len(vals) = n + Len(virtcols)
    /\ \A i \in 1 .. n : InOrder(cols)[i] \in cols /\ vals[i] = CellOf(InOrder(cols)[i], x)
    /\ \A i \in DOMAIN virtcols : vals[n + i] = Val(ExprOf(virtcols[i]), x)

LEMMA ChunkFacts ==
    ASSUME NEW S \in SUBSET Nat, NEW cols, AreCols(cols, S), NEW virtcols, AreExprs(virtcols, S),
           NEW x, HasRows(x, S), NEW v, v = Chunk(cols, virtcols, x), NEW n, n = Cardinality(cols)
    PROVE  IsChunk(v, cols, virtcols, x, n)
<1> DEFINE a == [i \in 1 .. n |-> CellOf(InOrder(cols)[i], x)]
           b == [i \in DOMAIN virtcols |-> Val(ExprOf(virtcols[i]), x)]
<1>1. IsFiniteSet(cols) /\ cols \subseteq Nat \X Nat
    BY ColsNat
<1>2. n \in Nat
    BY <1>1, FS_CardinalityType
<1>3. DOMAIN InOrder(cols) = 1 .. n /\ \A i \in 1 .. n : InOrder(cols)[i] \in cols
    BY <1>1, InOrderFacts
<1>4. \A i \in 1 .. n : CellOf(InOrder(cols)[i], x) \in Int
    BY <1>3, CellInt
<1>5. a \in Seq(Int) /\ Len(a) = n
    BY <1>2, <1>4
<1>6. DOMAIN virtcols = 1 .. Len(virtcols) /\ Len(virtcols) \in Nat
    BY DEF AreExprs
<1>7. \A i \in DOMAIN virtcols : Val(ExprOf(virtcols[i]), x) \in Int
    BY ValInt DEF AreExprs
<1>8. b \in Seq(Int) /\ Len(b) = Len(virtcols)
    BY <1>6, <1>7
<1>9. v = a \o b
    BY DEF Chunk
<1>10. /\ \A i \in 1 .. n : a[i] = CellOf(InOrder(cols)[i], x)
       /\ \A i \in DOMAIN virtcols : b[i] = Val(ExprOf(virtcols[i]), x)
    OBVIOUS
<1> HIDE DEF a, b
<1>11. /\ v \in Seq(Int) /\ Len(v) = n + Len(virtcols)
       /\ \A i \in 1 .. n : v[i] = a[i]
       /\ \A i \in 1 .. Len(virtcols) : v[n + i] = b[i]
    <2> SUFFICES ASSUME NEW m, m = Len(virtcols)
                 PROVE  /\ v \in Seq(Int) /\ Len(v) = n + m
                        /\ \A i \in 1 .. n : v[i] = a[i]
                        /\ \A i \in 1 .. m : v[n + i] = b[i]
        OBVIOUS
    <2>1. n \in Nat /\ m \in Nat /\ a \in Seq(Int) /\ b \in Seq(Int) /\ Len(a) = n /\ Len(b) = m
        BY <1>2, <1>5, <1>6, <1>8
    <2>2. v \in Seq(Int) /\ Len(v) = n + m
        BY <1>9, <2>1
    <2>3. \A i \in 1 .. n + m : v[i] = IF i <= n THEN a[i] ELSE b[i - n]
        BY <1>9, <2>1
    <2>4. ASSUME NEW i \in 1 .. n PROVE v[i] = a[i]
        <3>1. i \in 1 .. n + m /\ i <= n
            BY <2>1
        <3>2. v[i] = IF i <= n THEN a[i] ELSE b[i - n]
            BY <2>3, <3>1, Zenon
        <3> QED
            BY <3>1, <3>2
    <2>5. ASSUME NEW i \in 1 .. m PROVE v[n + i] = b[i]
        <3>1. n + i \in 1 .. n + m /\ ~(n + i <= n) /\ n + i - n = i
            BY <2>1
        <3>2. PICK j : j = n + i
            OBVIOUS
        <3>3. v[j] = IF j <= n THEN a[j] ELSE b[j - n]
            BY <2>3, <3>1, <3>2
        <3>4. j - n = i /\ ~(j <= n)
            BY <2>1, <3>2
        <3>5. v[j] = b[i]
            BY <3>3, <3>4
        <3> QED
            BY <3>2, <3>5
    <2> QED
        BY <2>2, <2>4, <2>5
<1> QED
    BY <1>2, <1>3, <1>6, <1>10, <1>11 DEF IsChunk

\* Map has n columns, and expressions behind them.
IsMap(map, cols, virtcols, n) ==
    /\ DOMAIN map = {QunCol(c) : c \in cols} \union {VirtCol(e) : e \in ToSet(virtcols)}
    /\ \A c \in cols : map[QunCol(c)] = Rank(cols, c)
    /\ \A e \in ToSet(virtcols) :
          map[VirtCol(e)] = n + Max({i \in DOMAIN virtcols : virtcols[i] = e}) - 1

LEMMA MapFields ==
    ASSUME NEW cols, NEW virtcols, NEW map, map = MapOf(cols, virtcols), NEW n, n = Cardinality(cols)
    PROVE  IsMap(map, cols, virtcols, n)
BY DEF MapOf, QunCol, VirtCol, IsMap

\* Chunks are laid out as compute_projection_map says.
LEMMA MapFits ==
    ASSUME NEW S \in SUBSET Nat, NEW cols, AreCols(cols, S), NEW virtcols, AreExprs(virtcols, S),
           NEW x, HasRows(x, S)
    PROVE  Fits(MapOf(cols, virtcols), Chunk(cols, virtcols, x), x)
<1> SUFFICES ASSUME NEW map, map = MapOf(cols, virtcols), NEW v, v = Chunk(cols, virtcols, x),
                    NEW n, n = Cardinality(cols), NEW m, m = Len(virtcols)
             PROVE  Fits(map, v, x)
    OBVIOUS
<1>1. /\ n \in Nat
      /\ v \in Seq(Int)
      /\ Len(v) = n + Len(virtcols)
      /\ \A i \in 1 .. n : InOrder(cols)[i] \in cols /\ v[i] = CellOf(InOrder(cols)[i], x)
      /\ \A i \in DOMAIN virtcols : v[n + i] = Val(ExprOf(virtcols[i]), x)
    <2>1. IsChunk(v, cols, virtcols, x, n)
        BY ChunkFacts
    <2> QED
        BY <2>1 DEF IsChunk
<1>2. /\ DOMAIN map = {QunCol(c) : c \in cols} \union {VirtCol(e) : e \in ToSet(virtcols)}
      /\ \A c \in cols : map[QunCol(c)] = Rank(cols, c)
      /\ \A e \in ToSet(virtcols) : map[VirtCol(e)] = n + Max({i \in DOMAIN virtcols : virtcols[i] = e}) - 1
    <2>1. IsMap(map, cols, virtcols, n)
        BY MapFields
    <2> QED
        BY <2>1 DEF IsMap
<1>3. IsFiniteSet(cols) /\ cols \subseteq Nat \X Nat /\ DOMAIN virtcols = 1 .. m /\ m \in Nat
    BY ColsNat DEF AreExprs
<1>4. ASSUME NEW c \in cols
      PROVE  map[QunCol(c)] \in Nat /\ map[QunCol(c)] < Len(v) /\ v[map[QunCol(c)] + 1] = Worth(QunCol(c), x)
    <2>1. PICK r : r = Rank(cols, c)
        OBVIOUS
    <2>2. r \in 0 .. n - 1
        BY <1>3, <2>1, RankFacts
    <2>3. InOrder(cols)[r + 1] = c
        BY <1>3, <2>1, InOrderFacts
    <2>4. r + 1 \in 1 .. n
        BY <1>1, <2>2
    <2>5. v[r + 1] = CellOf(c, x)
        BY <1>1, <2>3, <2>4
    <2>6. Worth(QunCol(c), x) = CellOf(c, x)
        BY DEF Worth, QunCol
    <2>7. map[QunCol(c)] = r
        BY <1>2, <2>1
    <2>8. r \in Nat /\ r < n + m
        BY <1>1, <1>3, <2>2
    <2> QED
        BY <1>1, <2>5, <2>6, <2>7, <2>8
<1>5. ASSUME NEW e \in ToSet(virtcols)
      PROVE  map[VirtCol(e)] \in Nat /\ map[VirtCol(e)] < Len(v) /\ v[map[VirtCol(e)] + 1] = Worth(VirtCol(e), x)
    <2> DEFINE I == {i \in DOMAIN virtcols : virtcols[i] = e}
    <2>1. I \subseteq 1 .. m /\ I # {}
        BY <1>3 DEF ToSet
    <2>2. PICK k : k = Max(I)
        OBVIOUS
    <2>3. k \in I
        BY <1>3, <2>1, <2>2, MaxFacts
    <2>4. k \in 1 .. m /\ virtcols[k] = e
        BY <1>3, <2>3
    <2>5. map[VirtCol(e)] = n + k - 1
        BY <1>2, <2>2
    <2>6. v[n + k] = Val(ExprOf(e), x)
        BY <1>1, <1>3, <2>4
    <2>7. Worth(VirtCol(e), x) = Val(ExprOf(e), x)
        BY DEF Worth, VirtCol
    <2>8. n + k - 1 \in Nat /\ n + k - 1 < n + m /\ n + k - 1 + 1 = n + k
        BY <1>1, <1>3, <2>4
    <2> QED
        BY <1>1, <2>5, <2>6, <2>7, <2>8
<1>6. ASSUME NEW c, NEW d, QunCol(c) \in DOMAIN map, QunCol(d) \in DOMAIN map, map[QunCol(c)] = map[QunCol(d)]
      PROVE  c = d
    <2>1. c \in cols /\ d \in cols
        BY <1>2, <1>6 DEF QunCol, VirtCol
    <2>2. Rank(cols, c) = Rank(cols, d)
        BY <1>2, <1>6, <2>1
    <2> QED
        BY <1>3, <2>1, <2>2, RankFacts
<1>7. \A p \in DOMAIN map : map[p] \in Nat /\ map[p] < Len(v) /\ v[map[p] + 1] = Worth(p, x)
    BY <1>2, <1>4, <1>5
<1> QED
    BY <1>1, <1>6, <1>7 DEF Fits

\* Appending two maps: the chunks follow each other, when nothing is there twice in the first.
LEMMA AppendFits ==
    ASSUME NEW map, NEW vals, NEW other, NEW more, NEW x, Fits(map, vals, x), Fits(other, more, x),
           Cardinality(DOMAIN map) = Len(vals)
    PROVE  Fits(MapAppend(map, other), vals \o more, x)
<1> DEFINE new == MapAppend(map, other)
           n == Len(vals)
           v == vals \o more
<1>1. /\ DOMAIN new = DOMAIN map \union DOMAIN other
      /\ \A p \in DOMAIN new : new[p] = IF p \in DOMAIN other THEN other[p] + n ELSE map[p]
    BY DEF MapAppend
<1>2. vals \in Seq(Int) /\ more \in Seq(Int) /\ n \in Nat /\ Len(more) \in Nat
    BY DEF Fits
<1>3. /\ v \in Seq(Int) /\ Len(v) = n + Len(more)
      /\ \A i \in 1 .. n : v[i] = vals[i]
      /\ \A i \in 1 .. Len(more) : v[n + i] = more[i]
    BY <1>2
<1> HIDE DEF new, n, v
<1>4. \A p \in DOMAIN map : map[p] \in Nat /\ map[p] < n /\ vals[map[p] + 1] = Worth(p, x)
    BY DEF Fits, n
<1>5. \A p \in DOMAIN other : other[p] \in Nat /\ other[p] < Len(more) /\ more[other[p] + 1] = Worth(p, x)
    BY DEF Fits
<1>6. ASSUME NEW p \in DOMAIN new
      PROVE  new[p] \in Nat /\ new[p] < Len(v) /\ v[new[p] + 1] = Worth(p, x)
    <2>1. CASE p \in DOMAIN other
        <3>1. PICK i : i = other[p]
            OBVIOUS
        <3>2. i \in Nat /\ i < Len(more) /\ more[i + 1] = Worth(p, x) /\ new[p] = i + n
            BY <1>1, <1>5, <2>1, <3>1
        <3>3. i + 1 \in 1 .. Len(more) /\ n + (i + 1) = i + n + 1 /\ i + n \in Nat /\ i + n < n + Len(more)
            BY <1>2, <3>2
        <3>4. v[n + (i + 1)] = more[i + 1]
            BY <1>3, <3>3
        <3> QED
            BY <1>3, <3>2, <3>3, <3>4
    <2>2. CASE p \notin DOMAIN other
        <3>1. PICK i : i = map[p]
            OBVIOUS
        <3>2. i \in Nat /\ i < n /\ vals[i + 1] = Worth(p, x) /\ new[p] = i
            BY <1>1, <1>4, <2>2, <3>1
        <3>3. i + 1 \in 1 .. n /\ i < n + Len(more)
            BY <1>2, <3>2
        <3> QED
            BY <1>3, <3>2, <3>3
    <2> QED
        BY <2>1, <2>2
<1>7. ASSUME NEW c, NEW d, QunCol(c) \in DOMAIN new, QunCol(d) \in DOMAIN new, new[QunCol(c)] = new[QunCol(d)]
      PROVE  c = d
    <2>1. PICK p, q : p = QunCol(c) /\ q = QunCol(d)
        OBVIOUS
    <2>2. CASE p \in DOMAIN other /\ q \in DOMAIN other
        <3>1. other[p] + n = other[q] + n /\ other[p] \in Nat /\ other[q] \in Nat
            BY <1>1, <1>5, <1>7, <2>1, <2>2
        <3>2. other[p] = other[q]
            BY <1>2, <3>1
        <3> QED
            BY <2>1, <2>2, <3>2 DEF Fits
    <2>3. CASE p \notin DOMAIN other /\ q \notin DOMAIN other
        <3>1. map[p] = map[q] /\ p \in DOMAIN map /\ q \in DOMAIN map
            BY <1>1, <1>7, <2>1, <2>3
        <3> QED
            BY <2>1, <3>1 DEF Fits
    <2>4. ASSUME NEW s, NEW t, s \in DOMAIN new, t \in DOMAIN new, s \in DOMAIN other, t \notin DOMAIN other
          PROVE  new[s] # new[t]
        <3>1. new[s] = other[s] + n /\ other[s] \in Nat /\ new[t] = map[t] /\ map[t] \in Nat /\ map[t] < n
            BY <1>1, <1>4, <1>5, <2>4
        <3> QED
            BY <1>2, <3>1
    <2> QED
        BY <1>7, <2>1, <2>2, <2>3, <2>4
<1> QED
    BY <1>3, <1>6, <1>7 DEF Fits, new, v

LEMMA EvalDef ==
    ASSUME NEW code, NEW vals
    PROVE  Eval(code, vals) = code.plus + SumFunctionOnSet([at \in code.at |-> vals[at + 1]], code.at)
<1>1. DOMAIN [at \in code.at |-> vals[at + 1]] = code.at
    OBVIOUS
<1>2. SumFunction([at \in code.at |-> vals[at + 1]]) = SumFunctionOnSet([at \in code.at |-> vals[at + 1]], code.at)
    BY <1>1 DEF SumFunction
<1> QED
    BY <1>2 DEF Eval

\* The code of one position, and of none.
LEMMA EvalPlace ==
    ASSUME NEW vals \in Seq(Int), NEW a \in Nat, a < Len(vals)
    PROVE  Eval(Code({a}, 0), vals) = vals[a + 1]
<1>1. PICK f : f = [at \in {a} |-> vals[at + 1]]
    OBVIOUS
<1>2. f[a] = vals[a + 1] /\ vals[a + 1] \in Int
    BY <1>1
<1>3. SumFunctionOnSet(f, {a}) = f[a]
    BY <1>2, SumOne
<1>4. Code({a}, 0).plus = 0 /\ Code({a}, 0).at = {a}
    BY DEF Code
<1>5. Eval(Code({a}, 0), vals) = 0 + SumFunctionOnSet(f, {a})
    BY <1>1, <1>4, EvalDef
<1> QED
    BY <1>2, <1>3, <1>5

LEMMA EvalNone == \A vals : Eval(Code({}, 0), vals) = 0
<1>1. ASSUME NEW vals PROVE Eval(Code({}, 0), vals) = 0
    <2>1. PICK f : f = [at \in {} |-> vals[at + 1]]
        OBVIOUS
    <2>2. Code({}, 0).plus = 0 /\ Code({}, 0).at = {}
        BY DEF Code
    <2>3. Eval(Code({}, 0), vals) = 0 + SumFunctionOnSet(f, {})
        BY <2>1, <2>2, EvalDef
    <2> QED
        BY <2>3, SumEmpty
<1> QED
    BY <1>1

\* The code of an expression computes it, from columns or from where it has been computed.
LEMMA EvalFits ==
    ASSUME NEW map, NEW vals, NEW x, Fits(map, vals, x), NEW S, HasRows(x, S),
           NEW e, IsExpression(e), IsExprOf(ExprOf(e), S), Compilable(map, e)
    PROVE  Eval(Compile(map, e), vals) = Val(ExprOf(e), x)
<1>0. /\ vals \in Seq(Int)
      /\ \A p \in DOMAIN map : map[p] \in Nat /\ map[p] < Len(vals) /\ vals[map[p] + 1] = Worth(p, x)
    BY DEF Fits
<1>1. CASE VirtCol(e) \in DOMAIN map
    <2>1. Compile(map, e) = Code({map[VirtCol(e)]}, 0)
        BY <1>1 DEF Compile
    <2>2. Eval(Code({map[VirtCol(e)]}, 0), vals) = Worth(VirtCol(e), x)
        BY <1>0, <1>1, EvalPlace
    <2>3. Worth(VirtCol(e), x) = Val(ExprOf(e), x)
        BY DEF Worth, VirtCol
    <2> QED
        BY <2>1, <2>2, <2>3
<1>2. CASE VirtCol(e) \notin DOMAIN map
    <2> DEFINE cols == ExprOf(e).cols
               plus == ExprOf(e).plus
               h == [c \in cols |-> map[QunCol(c)]]
               f == [c \in cols |-> CellOf(c, x)]
               at == {map[QunCol(c)] : c \in cols}
               g == [a \in at |-> vals[a + 1]]
    <2>1. Compile(map, e) = Code(at, plus)
        <3>1. e[1] # "CID"
            BY DEF IsExpression
        <3> QED
            BY <1>2, <3>1 DEF Compile
    <2>2. \A c \in cols : QunCol(c) \in DOMAIN map
        BY <1>2 DEF Compilable
    <2>3. IsFiniteSet(cols) /\ plus \in Int /\ AreCols(cols, S)
        BY DEF IsExprOf, AreCols
    <2>4. Ints(f, cols)
        BY <2>3, CellInts
    <2>5. \A c, d \in cols : h[c] = h[d] => c = d
        BY <2>2 DEF Fits
    <2>6. \A c \in cols : Worth(QunCol(c), x) = CellOf(c, x)
        BY DEF Worth, QunCol
    <2>7. \A c \in cols : g[h[c]] = f[c]
        <3> SUFFICES ASSUME NEW c \in cols PROVE g[h[c]] = f[c]
            OBVIOUS
        <3>1. h[c] = map[QunCol(c)] /\ h[c] \in at
            OBVIOUS
        <3>2. g[h[c]] = vals[map[QunCol(c)] + 1]
            BY <3>1
        <3>3. vals[map[QunCol(c)] + 1] = Worth(QunCol(c), x)
            BY <1>0, <2>2
        <3> QED
            BY <2>6, <3>2, <3>3
    <2>8. {h[c] : c \in cols} = at
        OBVIOUS
    <2>9. Code(at, plus).plus = plus /\ Code(at, plus).at = at
        BY DEF Code
    <2>10. Eval(Code(at, plus), vals) = plus + SumFunctionOnSet(g, at)
        BY <2>9, EvalDef
    <2>11. Val(ExprOf(e), x) = plus + SumFunctionOnSet(f, cols)
        BY ValDef
    <2> HIDE DEF cols, plus, h, f, at, g
    <2>12. SumFunctionOnSet(g, {h[c] : c \in cols}) = SumFunctionOnSet(f, cols)
        BY <2>3, <2>4, <2>5, <2>7, SumImage
    <2> QED
        BY <2>1, <2>8, <2>10, <2>11, <2>12
<1> QED
    BY <1>1, <1>2

\* List u is list s, of length n, and list t behind it, of length m.
IsConcat(u, s, n, t, m) ==
    /\ n \in Nat /\ m \in Nat
    /\ Len(u) = n + m /\ DOMAIN u = 1 .. n + m
    /\ \A i \in 1 .. n : i \in 1 .. n + m /\ u[i] = s[i]
    /\ \A i \in 1 .. m : n + i \in 1 .. n + m /\ u[n + i] = t[i]
    /\ \A i \in 1 .. n + m : i \in 1 .. n \/ \E j \in 1 .. m : i = n + j

LEMMA ConcatFacts ==
    ASSUME NEW X, NEW s \in Seq(X), NEW t \in Seq(X), NEW u, u = s \o t, NEW n, n = Len(s), NEW m, m = Len(t)
    PROVE  u \in Seq(X) /\ IsConcat(u, s, n, t, m)
<1>1. n = Len(s) /\ m = Len(t)
    OBVIOUS
<1>2. n \in Nat /\ m \in Nat /\ DOMAIN s = 1 .. n /\ DOMAIN t = 1 .. m
    BY <1>1
<1>3. u \in Seq(X) /\ Len(u) = n + m /\ DOMAIN u = 1 .. n + m
    BY <1>1
<1>4. \A i \in 1 .. n + m : u[i] = IF i <= n THEN s[i] ELSE t[i - n]
    BY <1>1
<1>5. \A i \in 1 .. n : i \in 1 .. n + m /\ u[i] = s[i]
    BY <1>2, <1>4
<1>6. ASSUME NEW i \in 1 .. m PROVE n + i \in 1 .. n + m /\ u[n + i] = t[i]
    <2>1. PICK j : j = n + i
        OBVIOUS
    <2>2. j \in 1 .. n + m /\ ~(j <= n) /\ j - n = i
        BY <1>2, <2>1
    <2>3. u[j] = t[i]
        BY <1>4, <2>2
    <2> QED
        BY <2>1, <2>2, <2>3
<1>7. ASSUME NEW i \in 1 .. n + m, i \notin 1 .. n PROVE \E j \in 1 .. m : i = n + j
    <2>1. i - n \in 1 .. m /\ i = n + (i - n)
        BY <1>2, <1>7
    <2> QED
        BY <2>1
<1> QED
    BY <1>2, <1>3, <1>5, <1>6, <1>7 DEF IsConcat

-----------------------------------------------------------------------------
(* What an operator below the aggregations returns of a row it is given. *)

\* The codes of columns cols and expressions virtcols.
Codes(map, cols, virtcols) ==
    [i \in DOMAIN InOrder(cols) |-> Code({map[QunCol(InOrder(cols)[i])]}, 0)]
        \o [i \in DOMAIN virtcols |-> Compile(map, virtcols[i])]

SideCodes(map, i) == [lhs |-> Compile(map, Lhs(i)), rhs |-> Compile(map, Rhs(i))]

\* Operator p computes what LOP n does, by the positions of map.
HasCodes(p, n, map) ==
    /\ p.projection = Codes(map, lops[n].cols, lops[n].virtcols)
    /\ Having \notin lops[n].preds => p.preds = {SideCodes(map, i) : i \in lops[n].preds}
    /\ p.keycols = [k \in DOMAIN lops[n].join_keys |->
                      [i \in DOMAIN lops[n].join_keys[k] |->
                         OutputMap(lops[n].children[k])[KeyProjection(lops[n].join_keys[k][i])]]]
    /\ IsRepartition(n) => p.repart_key = [i \in DOMAIN lops[n].partkeys |-> Compile(map, lops[n].partkeys[i])]

LEMMA PopCodes ==
    ASSUME NEW n, NEW qun, NEW call, NEW p, p = Pop(n, qun, call), NEW map, map = InputMap(n, qun)
    PROVE  HasCodes(p, n, map)
<1>1. p.projection = Codes(map, lops[n].cols, lops[n].virtcols)
    BY DEF Pop, Codes
<1>2. ASSUME Having \notin lops[n].preds PROVE p.preds = {SideCodes(map, i) : i \in lops[n].preds}
    BY <1>2 DEF Pop, SideCodes
<1>3. p.keycols = [k \in DOMAIN lops[n].join_keys |->
                     [i \in DOMAIN lops[n].join_keys[k] |->
                        OutputMap(lops[n].children[k])[KeyProjection(lops[n].join_keys[k][i])]]]
    BY DEF Pop
<1>4. IsRepartition(n) => p.repart_key = [i \in DOMAIN lops[n].partkeys |-> Compile(map, lops[n].partkeys[i])]
    BY DEF Pop
<1> QED
    BY <1>1, <1>2, <1>3, <1>4 DEF HasCodes

\* There is one for each column and each expression.
LEMMA CodesSize ==
    ASSUME NEW S \in SUBSET Nat, NEW cols, AreCols(cols, S), NEW virtcols, AreExprs(virtcols, S), NEW map,
           NEW n, n = Cardinality(cols), NEW m, m = Len(virtcols)
    PROVE  n \in Nat /\ m \in Nat /\ Len(Codes(map, cols, virtcols)) = n + m
<1> DEFINE order == InOrder(cols)
           a == [i \in DOMAIN order |-> Code({map[QunCol(order[i])]}, 0)]
           b == [i \in DOMAIN virtcols |-> Compile(map, virtcols[i])]
           X == {a[i] : i \in DOMAIN order} \union {b[i] : i \in DOMAIN virtcols}
<1>1. IsFiniteSet(cols) /\ cols \subseteq Nat \X Nat
    BY ColsNat
<1>2. n \in Nat /\ m \in Nat /\ DOMAIN virtcols = 1 .. m
    BY <1>1, FS_CardinalityType DEF AreExprs
<1>3. DOMAIN order = 1 .. n
    BY <1>1, InOrderFacts
<1>4. a \in Seq(X) /\ b \in Seq(X) /\ Len(a) = n /\ Len(b) = m
    <2>1. DOMAIN a = 1 .. n /\ DOMAIN b = 1 .. m
        BY <1>2, <1>3
    <2>2. \A i \in 1 .. n : a[i] \in X
        BY <1>3
    <2>3. \A i \in 1 .. m : b[i] \in X
        BY <1>2
    <2>4. a = [i \in 1 .. n |-> a[i]] /\ b = [i \in 1 .. m |-> b[i]]
        BY <1>2, <1>3
    <2> HIDE DEF a, b, X
    <2>5. a \in Seq(X) /\ b \in Seq(X)
        BY <1>2, <2>2, <2>3, <2>4
    <2> QED
        BY <1>2, <2>1, <2>5
<1>5. Codes(map, cols, virtcols) = a \o b
    BY DEF Codes
<1> HIDE DEF a, b, X, order
<1>6. IsConcat(a \o b, a, n, b, m)
    BY <1>4, ConcatFacts
<1> QED
    BY <1>2, <1>5, <1>6 DEF IsConcat

\* An evaluated list of codes.
EvalAll(codes, vals) == [i \in DOMAIN codes |-> Eval(codes[i], vals)]

LEMMA EvalCodes ==
    ASSUME NEW S \in SUBSET Nat, NEW cols, AreCols(cols, S), NEW virtcols, AreExprs(virtcols, S),
           NEW x, HasRows(x, S), NEW map, NEW vals, Fits(map, vals, x),
           \A c \in cols : QunCol(c) \in DOMAIN map,
           \A i \in DOMAIN virtcols : IsExpression(virtcols[i]) /\ Compilable(map, virtcols[i])
    PROVE  EvalAll(Codes(map, cols, virtcols), vals) = Chunk(cols, virtcols, x)
<1> DEFINE order == InOrder(cols)
           a == [i \in DOMAIN order |-> Code({map[QunCol(order[i])]}, 0)]
           b == [i \in DOMAIN virtcols |-> Compile(map, virtcols[i])]
           X == {a[i] : i \in DOMAIN order} \union {b[i] : i \in DOMAIN virtcols}
<1>1. PICK n, m : n = Cardinality(cols) /\ m = Len(virtcols)
    OBVIOUS
<1>2. IsFiniteSet(cols) /\ cols \subseteq Nat \X Nat
    BY ColsNat
<1>3. n \in Nat /\ m \in Nat /\ DOMAIN virtcols = 1 .. m
    BY <1>1, <1>2, FS_CardinalityType DEF AreExprs
<1>4. DOMAIN order = 1 .. n /\ \A i \in DOMAIN order : order[i] \in cols
    BY <1>1, <1>2, InOrderFacts
<1>5. PICK u : u = Codes(map, cols, virtcols)
    OBVIOUS
<1>6. u = a \o b
    BY <1>5 DEF Codes
<1>7. a \in Seq(X) /\ b \in Seq(X) /\ Len(a) = n /\ Len(b) = m
    <2>1. DOMAIN a = 1 .. n /\ DOMAIN b = 1 .. m
        BY <1>3, <1>4
    <2>2. \A i \in 1 .. n : a[i] \in X
        BY <1>4
    <2>3. \A i \in 1 .. m : b[i] \in X
        BY <1>3
    <2>4. a = [i \in 1 .. n |-> a[i]] /\ b = [i \in 1 .. m |-> b[i]]
        BY <1>3, <1>4
    <2> HIDE DEF a, b, X
    <2>5. a \in Seq(X) /\ b \in Seq(X)
        BY <1>3, <2>2, <2>3, <2>4
    <2> QED
        BY <1>3, <2>1, <2>5
<1>8. /\ \A i \in 1 .. n : a[i] = Code({map[QunCol(order[i])]}, 0)
      /\ \A i \in 1 .. m : b[i] = Compile(map, virtcols[i])
    BY <1>3, <1>4
<1> HIDE DEF a, b, X, order
<1>9. /\ DOMAIN u = 1 .. n + m
      /\ \A i \in 1 .. n : u[i] = a[i]
      /\ \A i \in 1 .. m : u[n + i] = b[i]
      /\ \A i \in 1 .. n + m : i \in 1 .. n \/ \E j \in 1 .. m : i = n + j
    <2>1. IsConcat(u, a, n, b, m)
        BY <1>6, <1>7, ConcatFacts
    <2> QED
        BY <2>1 DEF IsConcat
<1>10. PICK v : v = Chunk(cols, virtcols, x)
    OBVIOUS
<1>11. IsChunk(v, cols, virtcols, x, n)
    BY <1>1, <1>10, ChunkFacts
<1>12. /\ v \in Seq(Int) /\ Len(v) = n + m
       /\ \A i \in 1 .. n : v[i] = CellOf(order[i], x)
       /\ \A i \in 1 .. m : v[n + i] = Val(ExprOf(virtcols[i]), x)
    BY <1>1, <1>3, <1>11 DEF IsChunk, order
<1>13. ASSUME NEW i \in 1 .. n PROVE Eval(u[i], vals) = v[i]
    <2>1. PICK c : c = order[i] /\ c \in cols
        BY <1>4
    <2>2. PICK p : p = map[QunCol(c)]
        OBVIOUS
    <2>3. /\ vals \in Seq(Int)
          /\ p \in Nat /\ p < Len(vals) /\ vals[p + 1] = Worth(QunCol(c), x)
        BY <2>1, <2>2 DEF Fits
    <2>4. u[i] = Code({p}, 0)
        BY <1>8, <1>9, <2>1, <2>2
    <2>5. Eval(Code({p}, 0), vals) = vals[p + 1]
        BY <2>3, EvalPlace
    <2>6. Worth(QunCol(c), x) = CellOf(c, x)
        BY DEF Worth, QunCol
    <2>7. v[i] = CellOf(c, x)
        BY <1>12, <2>1
    <2> QED
        BY <2>3, <2>4, <2>5, <2>6, <2>7
<1>14. ASSUME NEW i \in 1 .. m PROVE Eval(u[n + i], vals) = v[n + i]
    <2>1. PICK e : e = virtcols[i]
        OBVIOUS
    <2>2. IsExpression(e) /\ Compilable(map, e) /\ IsExprOf(ExprOf(e), S)
        BY <1>3, <2>1 DEF AreExprs
    <2>3. Eval(Compile(map, e), vals) = Val(ExprOf(e), x)
        BY <2>2, EvalFits
    <2>4. u[n + i] = Compile(map, e)
        BY <1>8, <1>9, <2>1
    <2>5. v[n + i] = Val(ExprOf(e), x)
        BY <1>12, <2>1
    <2> QED
        BY <2>3, <2>4, <2>5
<1>15. \A i \in 1 .. n + m : Eval(u[i], vals) = v[i]
    BY <1>9, <1>13, <1>14
<1>16. PICK w : w = EvalAll(u, vals)
    OBVIOUS
<1>17. w = [i \in 1 .. n + m |-> v[i]]
    BY <1>9, <1>15, <1>16 DEF EvalAll
<1>18. v = [i \in 1 .. n + m |-> v[i]]
    <2>1. DOMAIN v = 1 .. n + m /\ v = [i \in DOMAIN v |-> v[i]]
        BY <1>3, <1>12
    <2> QED
        BY <2>1
<1> QED
    BY <1>5, <1>10, <1>16, <1>17, <1>18

\* A row of x: its values are those of LOP n, and it occurs as often as there.
RowOf(n, x) == [id |-> x, vals |-> Chunk(lops[n].cols, lops[n].virtcols, x), times |-> Copies[n]]

\* LOP n refers to columns of the tables S.
RefersTo(n, S) ==
    /\ AreCols(lops[n].cols, S)
    /\ AreExprs(lops[n].virtcols, S)
    /\ \A i \in DOMAIN lops[n].virtcols : IsExpression(lops[n].virtcols[i])
    /\ \A i \in lops[n].preds : i # Having /\ IsExprOf(Pred(i).lhs, S) /\ IsExprOf(Pred(i).rhs, S)

Binding(n, map) ==
    /\ \A c \in lops[n].cols : QunCol(c) \in DOMAIN map
    /\ \A e \in ToSet(lops[n].virtcols) : Compilable(map, e)
    /\ \A i \in lops[n].preds \ {Having} : Compilable(map, Lhs(i)) /\ Compilable(map, Rhs(i))
    /\ IsRepartition(n) => \A e \in ToSet(lops[n].partkeys) : Compilable(map, e)

LEMMA BindsWhat ==
    ASSUME NEW n, NEW qun, Binds(n, qun)
    PROVE  Binding(n, InputMap(n, qun))
<1> DEFINE map == InputMap(n, qun)
           sides == {Lhs(i) : i \in lops[n].preds \ {Having}} \union {Rhs(i) : i \in lops[n].preds \ {Having}}
           partkeys == IF IsRepartition(n) THEN ToSet(lops[n].partkeys) ELSE {}
<1>1. /\ \A c \in lops[n].cols : QunCol(c) \in DOMAIN map
      /\ \A e \in ToSet(lops[n].virtcols) \union sides \union partkeys : Compilable(map, e)
    BY DEF Binds
<1> HIDE DEF map
<1>2. \A i \in lops[n].preds \ {Having} : Compilable(map, Lhs(i)) /\ Compilable(map, Rhs(i))
    BY <1>1
<1> QED
    BY <1>1, <1>2 DEF map, Binding

LEMMA DataOutput ==
    ASSUME NEW n, NEW qun, NEW call, Binds(n, qun), NEW pop, pop = Pop(n, qun, call),
           NEW S \in SUBSET Nat, RefersTo(n, S), NEW x, HasRows(x, S),
           NEW vals, Fits(InputMap(n, qun), vals, x), NEW r, r = [id |-> x, vals |-> vals, times |-> Copies[n]]
    PROVE  /\ Projected(pop, r) = RowOf(n, x)
           /\ (\A p \in pop.preds : Eval(p.lhs, r.vals) = Eval(p.rhs, r.vals)) <=> \A i \in lops[n].preds : Holds(i, x)
<1>1. PICK map : map = InputMap(n, qun)
    OBVIOUS
<1>2. Binding(n, map) /\ Fits(map, vals, x)
    BY <1>1, BindsWhat
<1>3. \A i \in DOMAIN lops[n].virtcols : IsExpression(lops[n].virtcols[i]) /\ Compilable(map, lops[n].virtcols[i])
    BY <1>2 DEF Binding, RefersTo, ToSet
<1>4. EvalAll(Codes(map, lops[n].cols, lops[n].virtcols), vals) = Chunk(lops[n].cols, lops[n].virtcols, x)
    BY <1>2, <1>3, EvalCodes DEF Binding, RefersTo
<1>5. /\ pop.projection = Codes(map, lops[n].cols, lops[n].virtcols)
      /\ Having \notin lops[n].preds => pop.preds = {SideCodes(map, i) : i \in lops[n].preds}
    <2>1. HasCodes(pop, n, map)
        BY <1>1, PopCodes
    <2> QED
        BY <2>1 DEF HasCodes
<1>6. Projected(pop, r) = RowOf(n, x)
    <2>1. Projected(pop, r) = [r EXCEPT !.vals = EvalAll(pop.projection, r.vals)]
        BY DEF Projected, EvalAll
    <2>2. r.vals = vals
        OBVIOUS
    <2> QED
        BY <1>4, <1>5, <2>1, <2>2 DEF RowOf
<1>7. ASSUME NEW i \in lops[n].preds
      PROVE  Eval(SideCodes(map, i).lhs, vals) = Eval(SideCodes(map, i).rhs, vals) <=> Holds(i, x)
    <2>1. i # Having /\ IsExprOf(Pred(i).lhs, S) /\ IsExprOf(Pred(i).rhs, S)
        BY DEF RefersTo
    <2>2. Compilable(map, Lhs(i)) /\ Compilable(map, Rhs(i))
        BY <1>2, <2>1 DEF Binding
    <2>3. /\ IsExpression(Lhs(i)) /\ ExprOf(Lhs(i)) = Pred(i).lhs
          /\ IsExpression(Rhs(i)) /\ ExprOf(Rhs(i)) = Pred(i).rhs
        BY SideFacts
    <2>4. Eval(Compile(map, Lhs(i)), vals) = Val(Pred(i).lhs, x)
        BY <1>2, <2>1, <2>2, <2>3, EvalFits
    <2>5. Eval(Compile(map, Rhs(i)), vals) = Val(Pred(i).rhs, x)
        BY <1>2, <2>1, <2>2, <2>3, EvalFits
    <2> QED
        BY <2>4, <2>5 DEF SideCodes, Holds
<1>8. Having \notin lops[n].preds
    BY DEF RefersTo
<1>9. (\A p \in pop.preds : Eval(p.lhs, vals) = Eval(p.rhs, vals)) <=> \A i \in lops[n].preds : Holds(i, x)
    BY <1>5, <1>7, <1>8
<1> QED
    BY <1>6, <1>9

-----------------------------------------------------------------------------
(* A compiled plan, below its aggregations. *)

Ready ==
    /\ pc = "compiled" /\ KeysInOrder
    /\ FormInv /\ PartInv /\ FlowInv /\ PredInv /\ CompileInv /\ TreeInv /\ WriteInv /\ PopInv

DataLop(n) == n \in DOMAIN lops /\ IsData(lops, lops[n])

LEMMA QueryCols ==
    ASSUME query \in Queries
    PROVE  /\ \A c \in SelectCols \union PredsCols(DOMAIN query.preds) : c \in ColsOf(Quns)
           /\ \A e \in Exprs : /\ IsExpression(e) /\ ExprOf(e).plus \in Int
                               /\ \A c \in ExprOf(e).cols : c \in SelectCols \union PredsCols(DOMAIN query.preds)
<1> DEFINE P == UNION {{p.lhs, p.rhs} : p \in ToSet(query.preds)}
<1>1. \A e \in ToSet(query.select) \union P : e.plus \in Int /\ e.cols \subseteq ColsOf(Quns)
    BY ColumnsAssumption DEF ColsOf, Quns
<1>2. \A i \in DOMAIN query.preds : Pred(i).lhs \in P /\ Pred(i).rhs \in P
    BY DEF Pred, ToSet
<1>3. \A i \in DOMAIN query.select : query.select[i] \in ToSet(query.select)
    BY DEF ToSet
<1> HIDE DEF P
<1>4. \A c \in SelectCols : c \in ColsOf(Quns)
    BY <1>1 DEF SelectCols
<1>5. \A i \in DOMAIN query.preds : \A c \in PredCols(i) : c \in ColsOf(Quns)
    BY <1>1, <1>2 DEF PredCols
<1>6. \A c \in PredsCols(DOMAIN query.preds) : c \in ColsOf(Quns)
    BY <1>5 DEF PredsCols
<1>7. ASSUME NEW i \in DOMAIN query.preds, NEW e \in {Lhs(i), Rhs(i)}
      PROVE  /\ IsExpression(e) /\ ExprOf(e).plus \in Int
             /\ \A c \in ExprOf(e).cols : c \in SelectCols \union PredsCols(DOMAIN query.preds)
    <2>1. /\ IsExpression(Lhs(i)) /\ ExprOf(Lhs(i)) = Pred(i).lhs
          /\ IsExpression(Rhs(i)) /\ ExprOf(Rhs(i)) = Pred(i).rhs
        BY SideFacts
    <2>2. \A c \in Pred(i).lhs.cols \union Pred(i).rhs.cols : c \in PredsCols(DOMAIN query.preds)
        BY DEF PredsCols, PredCols
    <2> QED
        BY <1>1, <1>2, <2>1, <2>2
<1>8. ASSUME NEW e \in ToSet(SelectList)
      PROVE  /\ IsExpression(e) /\ ExprOf(e).plus \in Int
             /\ \A c \in ExprOf(e).cols : c \in SelectCols \union PredsCols(DOMAIN query.preds)
    <2>1. PICK i \in DOMAIN query.select : e = <<"select", i>>
        BY DEF ToSet, SelectList
    <2>2. IsExpression(e) /\ ExprOf(e) = query.select[i]
        BY <2>1 DEF IsExpression, ExprOf
    <2>3. \A c \in query.select[i].cols : c \in SelectCols
        BY <1>3 DEF SelectCols
    <2> QED
        BY <1>1, <1>3, <2>2, <2>3
<1> QED
    BY <1>4, <1>6, <1>7, <1>8 DEF Exprs

LEMMA ColsOfFinite ==
    ASSUME query \in Queries, NEW S \in SUBSET Quns
    PROVE  S \in SUBSET Nat /\ IsFiniteSet(S) /\ IsFiniteSet(ColsOf(S))
<1>1. Quns = 1 .. Len(query.parts) /\ Len(query.parts) \in Nat
    BY QueryFacts DEF Quns
<1>2. IsFiniteSet(S)
    <2>1. PICK n \in Nat : Quns = 1 .. n
        BY <1>1
    <2>2. IsFiniteSet(1 .. n)
        BY <2>1, FS_Interval
    <2>3. S \subseteq 1 .. n
        BY <2>1
    <2> QED
        BY <2>2, <2>3, FS_Subset
<1>3. IsFiniteSet(0 .. Width - 1)
    BY ColumnsAssumption, FS_Interval
<1>4. IsFiniteSet(ColsOf(S))
    BY <1>2, <1>3, FS_Product DEF ColsOf
<1> QED
    BY <1>1, <1>2, <1>4

LEMMA ColsIn ==
    ASSUME query \in Queries, NEW S \in SUBSET Quns, NEW cols, \A c \in cols : c \in ColsOf(S)
    PROVE  AreCols(cols, S)
BY ColsOfFinite, FS_Subset DEF AreCols

\* What is below a LOP that is below the aggregations.
LEMMA DataKids ==
    ASSUME Ready, NEW n, DataLop(n), NEW k \in DOMAIN lops[n].children, NEW c, c = lops[n].children[k]
    PROVE  /\ DataLop(c) /\ c < n /\ c \in Nat
           /\ lops[n].lop = "Repartition" => lops[c].lop # "Repartition"
<1>1. n \in DOMAIN lops /\ lops[n] \in LOPs /\ Len(lops[n].children) = Arity(lops[n].lop) /\ lops[n].lop # "Aggregation"
    BY LopIn DEF Ready, FormInv, DataLop, Shape, IsData
<1>2. c \in DOMAIN lops /\ c < n /\ c \in Nat
    BY <1>1, ChildFacts DEF Ready, FormInv
<1>3. lops[c] \in LOPs /\ Len(lops[c].children) = Arity(lops[c].lop)
    BY <1>2, LopIn DEF Ready, FormInv, Shape
<1>4. Served(lops, lops[n]) /\ Served(lops, lops[c]) /\ NodeOk(lops, lops[n]) /\ NodeOk(lops, lops[c])
    BY <1>1, <1>2 DEF Ready, FlowInv, AllServed, TreeInv, NodesOk
<1>5. DOMAIN lops[n].children = 1 .. Len(lops[n].children)
    BY <1>1 DEF LOPs
<1>6. CASE lops[n].lop = "Repartition"
    <2>1. k = 1
        BY <1>1, <1>5, <1>6 DEF Arity
    <2>2. lops[c].lop # "Repartition" /\ lops[c].lop # "Aggregation"
        BY <1>1, <1>4, <1>6, <2>1 DEF NodeOk, RepartitionOk, DataLop, IsData
    <2> QED
        BY <1>2, <2>2 DEF DataLop, IsData
<1>7. CASE lops[n].lop = "HashJoin"
    <2>1. k \in 1 .. 2
        BY <1>1, <1>5, <1>7, Zenon DEF Arity
    <2>2. LegServed(lops[c], lops[n].join_keys[k])
        BY <1>4, <1>7, <2>1, Zenon DEF Served
    <2>3. KeysPaired(lops[n].join_keys)
        BY <1>4, <1>7, Zenon DEF NodeOk, JoinOk
    <2>4. lops[n].join_keys[k] \in Seq(Exprs) /\ Len(lops[n].join_keys[k]) # 0
        <3>1. lops[n].join_keys[1] \in Seq(Exprs) /\ lops[n].join_keys[2] \in Seq(Exprs)
              /\ Len(lops[n].join_keys[1]) = Len(lops[n].join_keys[2]) /\ lops[n].join_keys[1] # << >>
            BY <2>3 DEF KeysPaired
        <3>2. Len(lops[n].join_keys[1]) # 0
            BY <3>1, EmptySeq
        <3> QED
            BY <2>1, <3>1, <3>2
    <2>5. \E e : e \in ToSet(lops[n].join_keys[k])
        <3>1. 1 \in DOMAIN lops[n].join_keys[k]
            BY <2>4
        <3> QED
            BY <3>1 DEF ToSet
    <2>6. lops[c].lop # "Aggregation" /\ \A e \in ToSet(lops[n].join_keys[k]) : IsExpression(e)
        BY <2>2 DEF LegServed
    <2>7. ASSUME lops[c].lop = "Repartition" PROVE lops[lops[c].children[1]].lop # "Aggregation"
        <3>1. lops[c].partkeys = lops[n].join_keys[k]
            BY <2>2, <2>7 DEF LegServed
        <3> QED
            BY <1>4, <2>5, <2>6, <2>7, <3>1, Zenon DEF Served
    <2> QED
        BY <1>2, <1>7, <2>6, <2>7 DEF DataLop, IsData
<1>8. CASE lops[n].lop = "TableScan"
    BY <1>1, <1>5, <1>8 DEF Arity
<1> QED
    BY <1>1, <1>6, <1>7, <1>8 DEF LOPs

\* An induction over the LOPs below the aggregations: T has a LOP when it has its inputs.
LEMMA DataInd ==
    ASSUME Ready, NEW T,
           \A n : DataLop(n) /\ (\A k \in DOMAIN lops[n].children : lops[n].children[k] \in T) => n \in T
    PROVE  \A n : DataLop(n) => n \in T
<1> DEFINE U == {m \in Nat : \A n : DataLop(n) /\ n <= m => n \in T}
<1>1. \A n : DataLop(n) => n \in Nat /\ n # 0
    <2>1. DOMAIN lops = 1 .. Len(lops) /\ Len(lops) \in Nat
        BY LenProperties DEF Ready, FormInv, TypeInv
    <2> QED
        BY <2>1 DEF DataLop
<1>2. 0 \in U
    BY <1>1
<1>3. ASSUME NEW m \in Nat, m \in U PROVE m + 1 \in U
    <2> SUFFICES ASSUME NEW n, DataLop(n), n <= m + 1 PROVE n \in T
        OBVIOUS
    <2>1. ASSUME NEW k \in DOMAIN lops[n].children PROVE lops[n].children[k] \in T
        <3>1. PICK c : c = lops[n].children[k]
            OBVIOUS
        <3>2. DataLop(c) /\ c < n /\ c \in Nat
            BY <3>1, DataKids
        <3>3. c <= m
            BY <1>1, <3>2
        <3> QED
            BY <1>3, <3>1, <3>2, <3>3
    <2> QED
        BY <2>1
<1>4. Nat \subseteq U
    <2> HIDE DEF U
    <2> QED
        BY <1>2, <1>3, NatInd
<1> QED
    BY <1>1, <1>4

\* LOP n is about its tables only.
Scoped(n) ==
    /\ lops[n].quns \in SUBSET Quns
    /\ RefersTo(n, lops[n].quns)
    /\ \A e \in ToSet(lops[n].partkeys) : IsExpression(e) /\ IsExprOf(ExprOf(e), lops[n].quns)
    /\ lops[n].lop # "TableScan" => lops[n].partkeys # << >>

LEMMA ExprIn ==
    ASSUME query \in Queries, NEW S \in SUBSET Quns, NEW e, e.plus \in Int, \A c \in e.cols : c \in ColsOf(S)
    PROVE  IsExprOf(e, S)
BY ColsIn DEF IsExprOf

\* What reaches a LOP is about its tables.
LEMMA ReachesScoped ==
    ASSUME Ready, NEW n, DataLop(n), NEW S, S = lops[n].quns,
           \A k \in DOMAIN lops[n].children : Scoped(lops[n].children[k])
    PROVE  /\ S \in SUBSET Quns
           /\ \A c : Reaches(lops, lops[n], c) => c \in ColsOf(S)
           /\ \A k \in DOMAIN lops[n].children : lops[lops[n].children[k]].quns \subseteq S
<1>1. /\ n \in DOMAIN lops /\ lops[n] \in LOPs /\ Len(lops[n].children) = Arity(lops[n].lop)
      /\ lops[n].lop # "Aggregation" /\ query \in Queries
    BY LopIn DEF Ready, FormInv, TypeInv, DataLop, Shape, IsData
<1>2. Served(lops, lops[n]) /\ NodeOk(lops, lops[n])
    BY <1>1 DEF Ready, FlowInv, AllServed, TreeInv, NodesOk
<1>3. DOMAIN lops[n].children = 1 .. Len(lops[n].children)
    BY <1>1 DEF LOPs
<1>4. S \in SUBSET Quns /\ \A k \in DOMAIN lops[n].children : lops[lops[n].children[k]].quns \subseteq S
    <2>1. CASE lops[n].lop = "TableScan"
        <3>1. DOMAIN lops[n].children = {}
            BY <1>1, <1>3, <2>1 DEF Arity
        <3> QED
            BY <1>2, <2>1, <3>1 DEF Served
    <2>2. CASE lops[n].lop = "HashJoin"
        <3>1. DOMAIN lops[n].children = 1 .. 2
            BY <1>1, <1>3, <2>2 DEF Arity
        <3>2. S = lops[lops[n].children[1]].quns \union lops[lops[n].children[2]].quns
            BY <1>2, <2>2 DEF NodeOk, JoinOk
        <3>3. Scoped(lops[n].children[1]) /\ Scoped(lops[n].children[2])
            BY <3>1, SMTT(30)
        <3>4. lops[lops[n].children[1]].quns \in SUBSET Quns /\ lops[lops[n].children[2]].quns \in SUBSET Quns
            BY <3>3 DEF Scoped
        <3>5. \A k \in DOMAIN lops[n].children : k = 1 \/ k = 2
            BY <3>1
        <3>6. S \in SUBSET Quns
            BY <3>2, <3>4
        <3>7. \A k \in DOMAIN lops[n].children : lops[lops[n].children[k]].quns \subseteq S
            BY <3>2, <3>5
        <3> QED
            BY <3>6, <3>7
    <2>3. CASE lops[n].lop = "Repartition"
        <3>1. DOMAIN lops[n].children = {1}
            BY <1>1, <1>3, <2>3 DEF Arity
        <3>2. S = lops[lops[n].children[1]].quns
            BY <1>2, <2>3 DEF NodeOk, RepartitionOk, DataLop, IsData
        <3> QED
            BY <3>1, <3>2 DEF Scoped
    <2> QED
        BY <1>1, <2>1, <2>2, <2>3 DEF LOPs
<1>5. ASSUME NEW c, Reaches(lops, lops[n], c) PROVE c \in ColsOf(S)
    <2>1. CASE lops[n].lop = "TableScan"
        <3>1. c \in ColsOf(Quns) /\ c[1] \in S
            BY <1>1, <1>5, <2>1, QueryCols DEF Reaches
        <3> QED
            BY <3>1 DEF ColsOf
    <2>2. CASE lops[n].lop # "TableScan"
        <3>1. PICK k \in DOMAIN lops[n].children : c \in lops[lops[n].children[k]].cols
            BY <1>5, <2>2 DEF Reaches
        <3>2. c \in ColsOf(lops[lops[n].children[k]].quns)
            BY <3>1 DEF Scoped, RefersTo, AreCols
        <3> QED
            BY <1>4, <3>2 DEF ColsOf
    <2> QED
        BY <2>1, <2>2
<1> QED
    BY <1>4, <1>5

LEMMA ScopedStep ==
    ASSUME Ready, NEW n, DataLop(n), \A k \in DOMAIN lops[n].children : Scoped(lops[n].children[k])
    PROVE  Scoped(n)
<1>1. PICK S : S = lops[n].quns
    OBVIOUS
<1>2. /\ S \in SUBSET Quns
      /\ \A c : Reaches(lops, lops[n], c) => c \in ColsOf(S)
      /\ \A k \in DOMAIN lops[n].children : lops[lops[n].children[k]].quns \subseteq S
    BY <1>1, ReachesScoped
<1>3. /\ n \in DOMAIN lops /\ lops[n] \in LOPs /\ Len(lops[n].children) = Arity(lops[n].lop)
      /\ lops[n].lop # "Aggregation" /\ query \in Queries
    BY LopIn DEF Ready, FormInv, TypeInv, DataLop, Shape, IsData
<1>4. Served(lops, lops[n]) /\ NodeOk(lops, lops[n])
    BY <1>3 DEF Ready, FlowInv, AllServed, TreeInv, NodesOk
<1>5. AreCols(lops[n].cols, S)
    <2>1. \A c \in lops[n].cols : c \in ColsOf(S)
        BY <1>2, <1>3, <1>4 DEF Served
    <2> QED
        BY <1>2, <1>3, <2>1, ColsIn
<1>6. lops[n].virtcols \in Seq(Exprs)
    BY <1>4 DEF NodeOk, DataLop
<1>7. ASSUME NEW i \in DOMAIN lops[n].virtcols
      PROVE  IsExpression(lops[n].virtcols[i]) /\ IsExprOf(ExprOf(lops[n].virtcols[i]), S)
    <2>1. PICK e : e = lops[n].virtcols[i]
        OBVIOUS
    <2>2. e \in Exprs /\ e \in ToSet(lops[n].virtcols)
        BY <1>6, <2>1 DEF ToSet
    <2>3. IsExpression(e) /\ ExprOf(e).plus \in Int
        BY <1>3, <2>2, QueryCols
    <2>4. \A c \in ExprOf(e).cols : Reaches(lops, lops[n], c)
        BY <1>3, <1>4, <2>2, <2>3 DEF Served, VirtServed, KeyReaches
    <2>5. IsExprOf(ExprOf(e), S)
        BY <1>2, <1>3, <2>3, <2>4, ExprIn
    <2> QED
        BY <2>1, <2>3, <2>5
<1>8. AreExprs(lops[n].virtcols, S)
    BY <1>6, <1>7, LenProperties DEF AreExprs
<1>9. ASSUME NEW i \in lops[n].preds
      PROVE  i # Having /\ IsExprOf(Pred(i).lhs, S) /\ IsExprOf(Pred(i).rhs, S)
    <2>1. i \in DOMAIN query.preds /\ \A c \in PredCols(i) : Reaches(lops, lops[n], c)
        BY <1>3, <1>4 DEF Served
    <2>2. i # Having
        BY <1>3, <2>1, QueryFacts DEF Having
    <2>3. Lhs(i) \in Exprs /\ Rhs(i) \in Exprs
        BY <2>1 DEF Exprs
    <2>4. Pred(i).lhs.plus \in Int /\ Pred(i).rhs.plus \in Int
        BY <1>3, <2>3, QueryCols, SideFacts
    <2>5. \A c \in Pred(i).lhs.cols \union Pred(i).rhs.cols : c \in ColsOf(S)
        BY <1>2, <2>1 DEF PredCols
    <2> QED
        BY <1>2, <1>3, <2>2, <2>4, <2>5, ExprIn
<1>10. /\ \A e \in ToSet(lops[n].partkeys) : IsExpression(e) /\ IsExprOf(ExprOf(e), S)
       /\ lops[n].lop # "TableScan" => lops[n].partkeys # << >>
    <2>1. CASE lops[n].lop = "TableScan"
        <3>1. lops[n].partkeys = << >>
            BY <1>3, <2>1 DEF Ready, PartInv
        <3>2. \A e \in ToSet(lops[n].partkeys) : FALSE
            BY <3>1 DEF ToSet
        <3> QED
            BY <2>1, <3>2
    <2>2. CASE lops[n].lop = "HashJoin"
        <3>1. PICK l : l = lops[n].children[1]
            OBVIOUS
        <3>2. 1 \in DOMAIN lops[n].children
            BY <1>3, <2>2 DEF Arity, LOPs
        <3>3. Scoped(l) /\ lops[l].quns \subseteq S /\ DataLop(l)
            BY <1>2, <3>1, <3>2, DataKids
        <3>4. lops[n].partkeys = lops[l].partkeys /\ LegPlaced(lops[l], lops[n].join_keys[1]) /\ KeysPaired(lops[n].join_keys)
            BY <1>4, <2>2, <3>1 DEF NodeOk, JoinOk
        <3>5. lops[l].lop # "TableScan"
            <4> SUFFICES ASSUME lops[l].lop = "TableScan" PROVE FALSE
                OBVIOUS
            <4>1. lops[l].partkeys = << >>
                BY <3>3 DEF Ready, PartInv, DataLop
            <4>2. Len(lops[n].join_keys[1]) = Len(lops[l].partkeys)
                BY <3>4 DEF LegPlaced, ComparePartKeys
            <4>3. lops[n].join_keys[1] \in Seq(Exprs) /\ lops[n].join_keys[1] # << >>
                BY <3>4 DEF KeysPaired
            <4> QED
                BY <4>1, <4>2, <4>3, EmptySeq
        <3>6. ASSUME NEW e \in ToSet(lops[l].partkeys) PROVE IsExpression(e) /\ IsExprOf(ExprOf(e), S)
            <4>1. IsExpression(e) /\ IsExprOf(ExprOf(e), lops[l].quns)
                BY <3>3 DEF Scoped
            <4>2. ExprOf(e).plus \in Int /\ \A c \in ExprOf(e).cols : c \in ColsOf(S)
                BY <3>3, <4>1 DEF IsExprOf, AreCols, ColsOf
            <4> QED
                BY <1>2, <1>3, <4>1, <4>2, ExprIn
        <3> QED
            BY <3>3, <3>4, <3>5, <3>6 DEF Scoped
    <2>3. CASE lops[n].lop = "Repartition"
        <3>1. lops[n].partkeys \in Seq(Exprs) /\ lops[n].partkeys # << >>
            BY <1>4, <2>3 DEF NodeOk, RepartitionOk, DataLop, IsData
        <3>2. ASSUME NEW e \in ToSet(lops[n].partkeys) PROVE IsExpression(e) /\ IsExprOf(ExprOf(e), S)
            <4>1. e \in Exprs /\ KeyKept(lops[n], e)
                BY <1>4, <2>3, <3>1 DEF Served, ToSet
            <4>2. IsExpression(e) /\ ExprOf(e).plus \in Int
                BY <1>3, <4>1, QueryCols
            <4>3. \A c \in ExprOf(e).cols : c \in ColsOf(S)
                BY <1>5, <4>1, <4>2 DEF KeyKept, AreCols
            <4> QED
                BY <1>2, <1>3, <4>2, <4>3, ExprIn
        <3> QED
            BY <3>1, <3>2
    <2> QED
        BY <1>3, <2>1, <2>2, <2>3 DEF LOPs
<1> QED
    BY <1>1, <1>2, <1>5, <1>7, <1>8, <1>9, <1>10 DEF Scoped, RefersTo

LEMMA AllScoped == Ready => \A n : DataLop(n) => Scoped(n)
<1> SUFFICES ASSUME Ready PROVE \A n : DataLop(n) => Scoped(n)
    OBVIOUS
<1> DEFINE T == {n \in DOMAIN lops : Scoped(n)}
<1>1. ASSUME NEW n, DataLop(n), \A k \in DOMAIN lops[n].children : lops[n].children[k] \in T PROVE n \in T
    BY <1>1, ScopedStep DEF DataLop
<1>2. \A n : DataLop(n) => n \in T
    <2> HIDE DEF T
    <2> QED
        BY <1>1, DataInd
<1> QED
    BY <1>2

-----------------------------------------------------------------------------
(* The rows that the LOPs return. *)

PartOf(f, p) == IF p \in DOMAIN f THEN f[p] ELSE {}
Written(pop, f) == UNION {Output(pop, PartOf(f, p)) : p \in DOMAIN f}

ScanReturns(n) == [p \in 0 .. lops[n].npartitions - 1 |-> Output(pops[n], ScanRows(lops[n], p))]
JoinReturns(n, f, g) ==
    [p \in 0 .. lops[n].npartitions - 1 |-> Output(pops[n], HashMatchRows(pops[n], PartOf(f, p), PartOf(g, p)))]
WriteReturns(n, f) ==
    [p \in 0 .. lops[n].cpartitions - 1 |->
        {r \in Written(pops[n], f) : PartitionOf(pops[n], r) % lops[n].cpartitions = p}]
AggReturns(n, f) ==
    [p \in 0 .. lops[n].npartitions - 1 |-> Output(pops[n], HashAggRows(lops[n], PartOf(f, p), p))]

Input(n, k) == lops[n].children[k]

LEMMA ReturnedDef ==
    ASSUME NEW rows, NEW n
    PROVE  /\ lops[n].lop = "TableScan" => Returned(rows, n) = ScanReturns(n)
           /\ lops[n].lop = "HashJoin" => Returned(rows, n) = JoinReturns(n, rows[Input(n, 1)], rows[Input(n, 2)])
           /\ lops[n].lop = "Repartition" => Returned(rows, n) = WriteReturns(n, rows[Input(n, 1)])
           /\ lops[n].lop = "Aggregation" => Returned(rows, n) = AggReturns(n, rows[Input(n, 1)])
<1>1. ASSUME lops[n].lop = "TableScan" PROVE Returned(rows, n) = ScanReturns(n)
    BY <1>1 DEF Returned, ScanReturns
<1>2. ASSUME lops[n].lop = "HashJoin" PROVE Returned(rows, n) = JoinReturns(n, rows[Input(n, 1)], rows[Input(n, 2)])
    BY <1>2 DEF Returned, JoinReturns, PartOf, Input
<1>3. ASSUME lops[n].lop = "Repartition" PROVE Returned(rows, n) = WriteReturns(n, rows[Input(n, 1)])
    BY <1>3 DEF Returned, WriteReturns, Written, PartOf, Input
<1>4. ASSUME lops[n].lop = "Aggregation" PROVE Returned(rows, n) = AggReturns(n, rows[Input(n, 1)])
    BY <1>4 DEF Returned, AggReturns, PartOf, Input
<1> QED
    BY <1>1, <1>2, <1>3, <1>4

LEMMA ReturnedSame ==
    ASSUME FormInv, NEW n \in DOMAIN lops, NEW f, NEW g,
           \A k \in DOMAIN lops[n].children : f[Input(n, k)] = g[Input(n, k)]
    PROVE  Returned(f, n) = Returned(g, n)
<1>1. lops[n] \in LOPs /\ Len(lops[n].children) = Arity(lops[n].lop)
    BY LopIn DEF FormInv, Shape
<1>2. DOMAIN lops[n].children = 1 .. Len(lops[n].children)
    BY <1>1 DEF LOPs
<1>3. CASE lops[n].lop = "TableScan"
    BY <1>3, ReturnedDef
<1>4. CASE lops[n].lop = "HashJoin"
    <2>1. 1 \in DOMAIN lops[n].children /\ 2 \in DOMAIN lops[n].children
        BY <1>1, <1>2, <1>4 DEF Arity
    <2>2. f[Input(n, 1)] = g[Input(n, 1)] /\ f[Input(n, 2)] = g[Input(n, 2)]
        BY <2>1
    <2>3. /\ Returned(f, n) = JoinReturns(n, f[Input(n, 1)], f[Input(n, 2)])
          /\ Returned(g, n) = JoinReturns(n, g[Input(n, 1)], g[Input(n, 2)])
        BY <1>4, ReturnedDef
    <2> QED
        BY <2>2, <2>3
<1>5. CASE lops[n].lop \in {"Repartition", "Aggregation"}
    <2>1. 1 \in DOMAIN lops[n].children
        BY <1>1, <1>2, <1>5 DEF Arity
    <2>2. f[Input(n, 1)] = g[Input(n, 1)]
        BY <2>1
    <2>3. CASE lops[n].lop = "Repartition"
        <3>1. Returned(f, n) = WriteReturns(n, f[Input(n, 1)]) /\ Returned(g, n) = WriteReturns(n, g[Input(n, 1)])
            BY <2>3, ReturnedDef
        <3> QED
            BY <2>2, <3>1
    <2>4. CASE lops[n].lop = "Aggregation"
        <3>1. Returned(f, n) = AggReturns(n, f[Input(n, 1)]) /\ Returned(g, n) = AggReturns(n, g[Input(n, 1)])
            BY <2>4, ReturnedDef
        <3> QED
            BY <2>2, <3>1
    <2> QED
        BY <1>5, <2>3, <2>4
<1> QED
    BY <1>1, <1>3, <1>4, <1>5 DEF LOPs

\* The rows of a LOP are decided by those of its inputs, which are LOPs before it.
LEMMA RowsDef ==
    ASSUME FormInv
    PROVE  \A n \in DOMAIN lops : Rows[n] = Returned(Rows, n)
<1> DEFINE Fixed(f, m) == f = [n \in 1 .. m |-> Returned(f, n)]
           T == {m \in Nat : m <= Len(lops) => \E f : Fixed(f, m)}
<1>1. DOMAIN lops = 1 .. Len(lops) /\ Len(lops) \in Nat
    BY LenProperties DEF FormInv, TypeInv
<1>2. \A f, g, n : n \in DOMAIN lops /\ (\A k \in DOMAIN lops[n].children : f[Input(n, k)] = g[Input(n, k)])
                      => Returned(f, n) = Returned(g, n)
    BY ReturnedSame
<1>3. \A n \in DOMAIN lops : \A k \in DOMAIN lops[n].children : Input(n, k) \in 1 .. n - 1
    BY DEF FormInv, Forest, Input
<1>4. 0 \in T
    <2>1. Fixed([n \in {} |-> 0], 0)
        OBVIOUS
    <2> QED
        BY <2>1
<1>5. ASSUME NEW m \in Nat, m \in T PROVE m + 1 \in T
    <2> SUFFICES ASSUME m + 1 <= Len(lops) PROVE \E f : Fixed(f, m + 1)
        OBVIOUS
    <2>1. PICK f : Fixed(f, m)
        BY <1>1, <1>5
    <2>2. PICK g : g = [n \in 1 .. m + 1 |-> IF n \in 1 .. m THEN f[n] ELSE Returned(f, n)]
        OBVIOUS
    <2>3. \A n \in 1 .. m : g[n] = f[n]
        BY <2>2
    <2>4. \A n \in 1 .. m : f[n] = Returned(f, n)
        <3>1. f = [n \in 1 .. m |-> Returned(f, n)]
            BY <2>1
        <3>2. PICK h : h = [n \in 1 .. m |-> Returned(f, n)]
            OBVIOUS
        <3>3. f = h /\ \A n \in 1 .. m : h[n] = Returned(f, n)
            BY <3>1, <3>2
        <3> QED
            BY <3>3
    <2>5. ASSUME NEW n \in 1 .. m + 1 PROVE g[n] = Returned(g, n)
        <3>1. n \in DOMAIN lops
            BY <1>1
        <3>2. \A k \in DOMAIN lops[n].children : Input(n, k) \in 1 .. m
            <4> SUFFICES ASSUME NEW k \in DOMAIN lops[n].children PROVE Input(n, k) \in 1 .. m
                OBVIOUS
            <4>1. Input(n, k) \in 1 .. n - 1
                BY <1>3, <3>1
            <4> QED
                BY <4>1
        <3>3. \A k \in DOMAIN lops[n].children : f[Input(n, k)] = g[Input(n, k)]
            BY <2>3, <3>2
        <3>4. Returned(f, n) = Returned(g, n)
            BY <1>2, <3>1, <3>3
        <3>5. CASE n \in 1 .. m
            BY <2>3, <2>4, <3>4, <3>5
        <3>6. CASE n \notin 1 .. m
            BY <2>2, <3>4, <3>6
        <3> QED
            BY <3>5, <3>6
    <2>6. Fixed(g, m + 1)
        <3>1. DOMAIN g = 1 .. m + 1
            BY <2>2
        <3>2. g = [n \in 1 .. m + 1 |-> g[n]]
            BY <2>2
        <3> QED
            BY <2>5, <3>2
    <2> QED
        BY <2>6
<1>6. \E f : f = [n \in DOMAIN lops |-> Returned(f, n)]
    <2>1. Len(lops) \in T
        <3> HIDE DEF T
        <3> QED
            BY <1>1, <1>4, <1>5, NatInd
    <2> QED
        BY <1>1, <2>1
<1>7. Rows = CHOOSE f : f = [n \in DOMAIN lops |-> Returned(f, n)]
    BY DEF Rows
<1>8. Rows = [n \in DOMAIN lops |-> Returned(Rows, n)]
    <2>1. PICK R : R = CHOOSE f : f = [n \in DOMAIN lops |-> Returned(f, n)]
        OBVIOUS
    <2>2. R = [n \in DOMAIN lops |-> Returned(R, n)]
        BY <1>6, <2>1
    <2> QED
        BY <1>7, <2>1, <2>2
<1> HIDE DEF Rows
<1>9. PICK h : h = [n \in DOMAIN lops |-> Returned(Rows, n)]
    OBVIOUS
<1>10. Rows = h /\ \A n \in DOMAIN lops : h[n] = Returned(Rows, n)
    BY <1>8, <1>9
<1> QED
    BY <1>10

LEMMA RowsOf ==
    ASSUME FormInv, NEW n \in DOMAIN lops
    PROVE  /\ lops[n].lop = "TableScan" => Rows[n] = ScanReturns(n)
           /\ lops[n].lop = "HashJoin" => Rows[n] = JoinReturns(n, Rows[Input(n, 1)], Rows[Input(n, 2)])
           /\ lops[n].lop = "Repartition" => Rows[n] = WriteReturns(n, Rows[Input(n, 1)])
           /\ lops[n].lop = "Aggregation" => Rows[n] = AggReturns(n, Rows[Input(n, 1)])
<1>1. Rows[n] = Returned(Rows, n)
    BY RowsDef
<1>2. PICK R : R = Rows
    OBVIOUS
<1>3. Returned(R, n) = Rows[n]
    BY <1>1, <1>2
<1> QED
    BY <1>2, <1>3, ReturnedDef

-----------------------------------------------------------------------------
(* How often a LOP returns a row. *)

LEMMA MultipliedIs ==
    ASSUME NEW times, NEW n
    PROVE  /\ lops[n].lop = "TableScan" => Multiplied(times, n) = 1
           /\ lops[n].lop = "HashJoin" =>
                 Multiplied(times, n) = times[Input(n, 1)] * times[Input(n, 2)] * Len(pops[Input(n, 2)].projection)
           /\ lops[n].lop \in {"Repartition", "Aggregation"} => Multiplied(times, n) = times[Input(n, 1)]
<1>1. PICK x : x = lops[n].lop
    OBVIOUS
<1>2. CASE x = "TableScan"
    BY <1>1, <1>2 DEF Multiplied, Input
<1>3. CASE x = "HashJoin"
    BY <1>1, <1>3 DEF Multiplied, Input
<1>4. CASE x \in {"Repartition", "Aggregation"}
    BY <1>1, <1>4 DEF Multiplied, Input
<1> QED
    BY <1>1, <1>2, <1>3, <1>4

LEMMA MultipliedSame ==
    ASSUME FormInv, NEW n \in DOMAIN lops, NEW f, NEW g,
           \A k \in DOMAIN lops[n].children : f[Input(n, k)] = g[Input(n, k)]
    PROVE  Multiplied(f, n) = Multiplied(g, n)
<1>1. lops[n] \in LOPs /\ Len(lops[n].children) = Arity(lops[n].lop)
    BY LopIn DEF FormInv, Shape
<1>2. DOMAIN lops[n].children = 1 .. Len(lops[n].children)
    BY <1>1 DEF LOPs
<1>3. CASE lops[n].lop = "TableScan"
    BY <1>3, MultipliedIs
<1>4. CASE lops[n].lop = "HashJoin"
    <2>1. 1 \in DOMAIN lops[n].children /\ 2 \in DOMAIN lops[n].children
        BY <1>1, <1>2, <1>4 DEF Arity
    <2>2. f[Input(n, 1)] = g[Input(n, 1)] /\ f[Input(n, 2)] = g[Input(n, 2)]
        BY <2>1
    <2> QED
        BY <1>4, <2>2, MultipliedIs
<1>5. CASE lops[n].lop \in {"Repartition", "Aggregation"}
    <2>1. 1 \in DOMAIN lops[n].children
        BY <1>1, <1>2, <1>5 DEF Arity
    <2>2. f[Input(n, 1)] = g[Input(n, 1)]
        BY <2>1
    <2> QED
        BY <1>5, <2>2, MultipliedIs
<1> QED
    BY <1>1, <1>3, <1>4, <1>5 DEF LOPs

LEMMA CopiesDef ==
    ASSUME FormInv
    PROVE  \A n \in DOMAIN lops : Copies[n] = Multiplied(Copies, n)
<1> DEFINE Fixed(f, m) == f = [n \in 1 .. m |-> Multiplied(f, n)]
           T == {m \in Nat : m <= Len(lops) => \E f : Fixed(f, m)}
<1>1. DOMAIN lops = 1 .. Len(lops) /\ Len(lops) \in Nat
    BY LenProperties DEF FormInv, TypeInv
<1>2. \A f, g, n : n \in DOMAIN lops /\ (\A k \in DOMAIN lops[n].children : f[Input(n, k)] = g[Input(n, k)])
                      => Multiplied(f, n) = Multiplied(g, n)
    BY MultipliedSame
<1>3. \A n \in DOMAIN lops : \A k \in DOMAIN lops[n].children : Input(n, k) \in 1 .. n - 1
    BY DEF FormInv, Forest, Input
<1>4. 0 \in T
    <2>1. Fixed([n \in {} |-> 0], 0)
        OBVIOUS
    <2> QED
        BY <2>1
<1>5. ASSUME NEW m \in Nat, m \in T PROVE m + 1 \in T
    <2> SUFFICES ASSUME m + 1 <= Len(lops) PROVE \E f : Fixed(f, m + 1)
        OBVIOUS
    <2>1. PICK f : Fixed(f, m)
        BY <1>1, <1>5
    <2>2. PICK g : g = [n \in 1 .. m + 1 |-> IF n \in 1 .. m THEN f[n] ELSE Multiplied(f, n)]
        OBVIOUS
    <2>3. \A n \in 1 .. m : g[n] = f[n]
        BY <2>2
    <2>4. \A n \in 1 .. m : f[n] = Multiplied(f, n)
        <3>1. f = [n \in 1 .. m |-> Multiplied(f, n)]
            BY <2>1
        <3>2. PICK h : h = [n \in 1 .. m |-> Multiplied(f, n)]
            OBVIOUS
        <3>3. f = h /\ \A n \in 1 .. m : h[n] = Multiplied(f, n)
            BY <3>1, <3>2
        <3> QED
            BY <3>3
    <2>5. ASSUME NEW n \in 1 .. m + 1 PROVE g[n] = Multiplied(g, n)
        <3>1. n \in DOMAIN lops
            BY <1>1
        <3>2. \A k \in DOMAIN lops[n].children : Input(n, k) \in 1 .. m
            <4> SUFFICES ASSUME NEW k \in DOMAIN lops[n].children PROVE Input(n, k) \in 1 .. m
                OBVIOUS
            <4>1. Input(n, k) \in 1 .. n - 1
                BY <1>3, <3>1
            <4> QED
                BY <4>1
        <3>3. \A k \in DOMAIN lops[n].children : f[Input(n, k)] = g[Input(n, k)]
            BY <2>3, <3>2
        <3>4. Multiplied(f, n) = Multiplied(g, n)
            BY <1>2, <3>1, <3>3
        <3>5. CASE n \in 1 .. m
            BY <2>3, <2>4, <3>4, <3>5
        <3>6. CASE n \notin 1 .. m
            BY <2>2, <3>4, <3>6
        <3> QED
            BY <3>5, <3>6
    <2>6. Fixed(g, m + 1)
        <3>1. DOMAIN g = 1 .. m + 1
            BY <2>2
        <3>2. g = [n \in 1 .. m + 1 |-> g[n]]
            BY <2>2
        <3> QED
            BY <2>5, <3>2
    <2> QED
        BY <2>6
<1>6. \E f : f = [n \in DOMAIN lops |-> Multiplied(f, n)]
    <2>1. Len(lops) \in T
        <3> HIDE DEF T
        <3> QED
            BY <1>1, <1>4, <1>5, NatInd
    <2> QED
        BY <1>1, <2>1
<1>7. Copies = CHOOSE f : f = [n \in DOMAIN lops |-> Multiplied(f, n)]
    BY DEF Copies
<1>8. Copies = [n \in DOMAIN lops |-> Multiplied(Copies, n)]
    <2>1. PICK R : R = CHOOSE f : f = [n \in DOMAIN lops |-> Multiplied(f, n)]
        OBVIOUS
    <2>2. R = [n \in DOMAIN lops |-> Multiplied(R, n)]
        BY <1>6, <2>1
    <2> QED
        BY <1>7, <2>1, <2>2
<1> HIDE DEF Copies
<1>9. PICK h : h = [n \in DOMAIN lops |-> Multiplied(Copies, n)]
    OBVIOUS
<1>10. Copies = h /\ \A n \in DOMAIN lops : h[n] = Multiplied(Copies, n)
    BY <1>8, <1>9
<1> QED
    BY <1>10

LEMMA CopiesOf ==
    ASSUME FormInv, NEW n \in DOMAIN lops
    PROVE  /\ lops[n].lop = "TableScan" => Copies[n] = 1
           /\ lops[n].lop = "HashJoin" =>
                 Copies[n] = Copies[Input(n, 1)] * Copies[Input(n, 2)] * Len(pops[Input(n, 2)].projection)
           /\ lops[n].lop \in {"Repartition", "Aggregation"} => Copies[n] = Copies[Input(n, 1)]
<1>1. Copies[n] = Multiplied(Copies, n)
    BY CopiesDef
<1>2. PICK times : times = Copies
    OBVIOUS
<1>3. Multiplied(times, n) = times[n]
    BY <1>1, <1>2
<1> QED
    BY <1>2, <1>3, MultipliedIs

-----------------------------------------------------------------------------
(* Expressions that an equality of the query makes equal. *)

\* it is the function the definition of EqClasses is by, on the sets D.
IsFold(it, base, D) ==
    it = [s \in D |-> IF s = {} THEN base ELSE LET x == CHOOSE x \in s : TRUE IN SetEq(it[s \ {x}], x)]

LEMMA FoldIterStep ==
    ASSUME NEW it, NEW base, NEW D, IsFold(it, base, D), NEW s \in D
    PROVE  it[s] = IF s = {} THEN base ELSE LET x == CHOOSE x \in s : TRUE IN SetEq(it[s \ {x}], x)
<1> DEFINE h == [t \in D |-> IF t = {} THEN base ELSE LET x == CHOOSE x \in t : TRUE IN SetEq(it[t \ {x}], x)]
<1>1. it = h
    BY DEF IsFold
<1>2. h[s] = IF s = {} THEN base ELSE LET x == CHOOSE x \in s : TRUE IN SetEq(it[s \ {x}], x)
    OBVIOUS
<1> HIDE DEF h
<1> QED
    BY <1>1, <1>2

LEMMA FoldExists ==
    ASSUME NEW S, IsFiniteSet(S), NEW base
    PROVE  \E it : IsFold(it, base, SUBSET S)
<1> DEFINE N == {n \in Nat : \E it : IsFold(it, base, Small(S, n))}
<1>1. \A s \in SUBSET S : IsFiniteSet(s) /\ Cardinality(s) \in Nat
    BY FS_Subset, FS_CardinalityType
<1>2. 0 \in N
    <2>1. Small(S, 0) = {{}}
        BY <1>1, FS_EmptySet DEF Small
    <2>2. IsFold([s \in {{}} |-> base], base, {{}})
        BY DEF IsFold
    <2> QED
        BY <2>1, <2>2
<1>3. ASSUME NEW n \in Nat, n \in N PROVE n + 1 \in N
    <2>1. PICK it : IsFold(it, base, Small(S, n))
        BY <1>3
    <2> DEFINE Of(g, s) == IF s = {} THEN base ELSE LET x == CHOOSE x \in s : TRUE IN SetEq(g[s \ {x}], x)
               new == [s \in Small(S, n + 1) |-> Of(it, s)]
    <2>2. ASSUME NEW s \in Small(S, n) PROVE s \in Small(S, n + 1) /\ new[s] = it[s]
        <3>1. s \in Small(S, n + 1)
            BY <1>1 DEF Small
        <3>2. it[s] = Of(it, s)
            BY <2>1, FoldIterStep
        <3> QED
            BY <3>1, <3>2
    <2>3. ASSUME NEW s \in Small(S, n + 1) PROVE Of(new, s) = Of(it, s)
        <3>1. CASE s = {}
            BY <3>1
        <3>2. CASE s # {}
            <4>1. PICK x : x = CHOOSE y \in s : TRUE
                OBVIOUS
            <4>2. x \in s
                BY <3>2, <4>1
            <4>3. s \ {x} \in Small(S, n)
                BY <1>1, <4>2, FS_RemoveElement DEF Small
            <4>4. new[s \ {x}] = it[s \ {x}]
                BY <2>2, <4>3
            <4> HIDE DEF new
            <4> QED
                BY <3>2, <4>1, <4>4
        <3> QED
            BY <3>1, <3>2
    <2>4. new = [s \in Small(S, n + 1) |-> Of(new, s)]
        <3>1. PICK g : g = new
            OBVIOUS
        <3>2. \A s \in Small(S, n + 1) : Of(g, s) = Of(it, s)
            BY <2>3, <3>1
        <3> HIDE DEF Of
        <3>3. new = [s \in Small(S, n + 1) |-> Of(g, s)]
            BY <3>2
        <3> QED
            BY <3>1, <3>3
    <2>5. IsFold(new, base, Small(S, n + 1))
        BY <2>4 DEF IsFold
    <2> QED
        BY <2>5
<1>4. Nat \subseteq N
    <2> HIDE DEF N
    <2> QED
        BY <1>2, <1>3, NatInd
<1>5. Small(S, Cardinality(S)) = SUBSET S
    BY FS_Subset DEF Small
<1>6. Cardinality(S) \in N
    BY <1>1, <1>4
<1> QED
    BY <1>5, <1>6

EqPreds == {i \in DOMAIN query.preds : HasEqJoinDesc(i)}
Ends == {Pred(i).lhs : i \in EqPreds} \union {Pred(i).rhs : i \in EqPreds}

LEMMA ClassesDef ==
    ASSUME query \in Queries
    PROVE  IsFiniteSet(EqPreds) /\ \E it : IsFold(it, {{e} : e \in Ends}, SUBSET EqPreds) /\ EqClasses = it[EqPreds]
<1>1. IsFiniteSet(EqPreds)
    <2>1. PICK n \in Nat : DOMAIN query.preds = 1 .. n
        BY QueryFacts
    <2>2. IsFiniteSet(1 .. n)
        BY <2>1, FS_Interval
    <2>3. EqPreds \subseteq 1 .. n
        BY <2>1 DEF EqPreds
    <2> QED
        BY <2>2, <2>3, FS_Subset
<1> DEFINE base == {{e} : e \in Ends}
           h == CHOOSE it : it = [s \in SUBSET EqPreds |->
                                    IF s = {} THEN base ELSE LET x == CHOOSE x \in s : TRUE IN SetEq(it[s \ {x}], x)]
<1>2. EqClasses = h[EqPreds]
    BY DEF EqClasses, FoldSet, MapThenFoldSet, EqPreds, Ends
<1> HIDE DEF base
<1>3. \E it : IsFold(it, base, SUBSET EqPreds)
    BY <1>1, FoldExists
<1>4. IsFold(h, base, SUBSET EqPreds)
    <2>1. h = CHOOSE it : IsFold(it, base, SUBSET EqPreds)
        BY DEF IsFold
    <2> HIDE DEF h
    <2> QED
        BY <1>3, <2>1
<1> QED
    BY <1>1, <1>2, <1>4 DEF base

\* The members of each class have one value in the rows x.
OneValue(classes, x) == \A c \in classes : \A e, f \in c : Val(e, x) = Val(f, x)

LEMMA SetEqOne ==
    ASSUME NEW classes, NEW x, OneValue(classes, x), NEW i, Holds(i, x)
    PROVE  OneValue(SetEq(classes, i), x)
<1> DEFINE both == {c \in classes : Pred(i).lhs \in c \/ Pred(i).rhs \in c}
<1>1. PICK v : v = Val(Pred(i).lhs, x) /\ v = Val(Pred(i).rhs, x)
    BY DEF Holds
<1>2. \A e \in UNION both : Val(e, x) = v
    BY <1>1 DEF OneValue
<1>3. SetEq(classes, i) = (classes \ both) \union {UNION both}
    BY DEF SetEq
<1> HIDE DEF both
<1> QED
    BY <1>2, <1>3 DEF OneValue

LEMMA ClassesOne ==
    ASSUME query \in Queries, NEW x, \A i \in DOMAIN query.preds : Holds(i, x)
    PROVE  OneValue(EqClasses, x)
<1>1. PICK it : IsFold(it, {{e} : e \in Ends}, SUBSET EqPreds) /\ EqClasses = it[EqPreds]
    BY ClassesDef
<1>2. IsFiniteSet(EqPreds)
    BY ClassesDef
<1> DEFINE N == {n \in Nat : \A s \in SUBSET EqPreds : Cardinality(s) = n => OneValue(it[s], x)}
<1>3. \A s \in SUBSET EqPreds : IsFiniteSet(s) /\ Cardinality(s) \in Nat
    BY <1>2, FS_Subset, FS_CardinalityType
<1>4. \A s \in SUBSET EqPreds :
          it[s] = IF s = {} THEN {{e} : e \in Ends} ELSE LET i == CHOOSE i \in s : TRUE IN SetEq(it[s \ {i}], i)
    BY <1>1, FoldIterStep
<1>5. 0 \in N
    <2> SUFFICES ASSUME NEW s \in SUBSET EqPreds, Cardinality(s) = 0 PROVE OneValue(it[s], x)
        OBVIOUS
    <2>1. s = {}
        BY <1>3, FS_EmptySet
    <2>2. it[s] = {{e} : e \in Ends}
        BY <1>4, <2>1
    <2> QED
        BY <2>2 DEF OneValue
<1>6. ASSUME NEW n \in Nat, n \in N PROVE n + 1 \in N
    <2> SUFFICES ASSUME NEW s \in SUBSET EqPreds, Cardinality(s) = n + 1 PROVE OneValue(it[s], x)
        OBVIOUS
    <2>1. s # {} /\ \A i \in s : Cardinality(s \ {i}) = n
        BY <1>3, CardStep
    <2>2. PICK i : i = CHOOSE y \in s : TRUE
        OBVIOUS
    <2>3. i \in s
        BY <2>1, <2>2
    <2>4. Cardinality(s \ {i}) = n /\ s \ {i} \in SUBSET EqPreds
        BY <2>1, <2>3
    <2>5. OneValue(it[s \ {i}], x)
        BY <1>6, <2>4
    <2>6. it[s] = SetEq(it[s \ {i}], i)
        BY <1>4, <2>1, <2>2
    <2>7. Holds(i, x)
        BY <2>3 DEF EqPreds
    <2> QED
        BY <2>5, <2>6, <2>7, SetEqOne
<1>7. Nat \subseteq N
    <2> HIDE DEF N
    <2> QED
        BY <1>5, <1>6, NatInd
<1> QED
    BY <1>1, <1>3, <1>7

\* What ComparePartKeys takes for equal is, in a row of the answer.
LEMMA CheckEqVal ==
    ASSUME query \in Queries, NEW x, \A i \in DOMAIN query.preds : Holds(i, x), NEW e, NEW f, CheckEq(e, f)
    PROVE  Val(e, x) = Val(f, x)
BY ClassesOne DEF OneValue, CheckEq

-----------------------------------------------------------------------------
(* What the rows of the LOPs are. *)

Restricted(x, S) == [q \in S |-> x[q]]

\* x gives each of the tables S a row of its own.
IsRows(x, S) == x = Restricted(x, S) /\ \A q \in S : x[q] \in TableRows(q)

LEMMA TableRow ==
    ASSUME NEW q, NEW t \in TableRows(q)
    PROVE  t.part \in 0 .. query.parts[q] - 1 /\ \A c \in 0 .. Width - 1 : t.val[c] \in Int
<1>1. PICK C : C = 0 .. Width - 1
    OBVIOUS
<1>2. PICK p \in 0 .. query.parts[q] - 1, v \in [C -> {0, 1}] : t = [part |-> p, val |-> v]
    BY <1>1 DEF TableRows
<1>3. \A c \in C : v[c] \in Int
    BY <1>2
<1> QED
    BY <1>1, <1>2, <1>3

LEMMA IsRowsHas ==
    ASSUME NEW S, NEW x, IsRows(x, S)
    PROVE  HasRows(x, S)
BY TableRow DEF IsRows, HasRows

LEMMA RestrictedFacts ==
    ASSUME NEW S, NEW T, T \subseteq S, NEW x, IsRows(x, S), NEW y, y = Restricted(x, T)
    PROVE  IsRows(y, T) /\ SameRows(y, x, T) /\ SameRows(x, y, T)
<1>1. \A q \in T : y[q] = x[q]
    BY DEF Restricted
<1>2. y = Restricted(y, T)
    BY <1>1 DEF Restricted
<1>3. \A q \in T : y[q] \in TableRows(q)
    BY <1>1 DEF IsRows
<1> QED
    BY <1>1, <1>2, <1>3 DEF IsRows, SameRows

LEMMA JoinedFacts ==
    ASSUME NEW x \in JoinedRows
    PROVE  IsRows(x, Quns) /\ \A i \in DOMAIN query.preds : Holds(i, x)
BY DEF JoinedRows, IsRows, Restricted

LEMMA JoinedAre ==
    ASSUME NEW x, IsRows(x, Quns), \A i \in DOMAIN query.preds : Holds(i, x)
    PROVE  x \in JoinedRows
<1>1. \A q \in Quns : x[q] \in UNION {TableRows(p) : p \in Quns}
    BY DEF IsRows
<1>2. PICK R : R = UNION {TableRows(p) : p \in Quns}
    OBVIOUS
<1>3. x \in [Quns -> R]
    BY <1>1, <1>2 DEF IsRows, Restricted
<1> QED
    BY <1>2, <1>3 DEF JoinedRows, IsRows

\* A predicate is about its own tables.
LEMMA HoldsSame ==
    ASSUME NEW i, NEW S, IsExprOf(Pred(i).lhs, S), IsExprOf(Pred(i).rhs, S), NEW x, NEW y, SameRows(x, y, S)
    PROVE  Holds(i, x) <=> Holds(i, y)
<1>1. Val(Pred(i).lhs, x) = Val(Pred(i).lhs, y) /\ Val(Pred(i).rhs, x) = Val(Pred(i).rhs, y)
    BY ValSame
<1> QED
    BY <1>1 DEF Holds

LEMMA PredExprs ==
    ASSUME query \in Queries, NEW i \in DOMAIN query.preds, NEW S \in SUBSET Quns, PredQuns(i) \subseteq S
    PROVE  IsExprOf(Pred(i).lhs, S) /\ IsExprOf(Pred(i).rhs, S)
<1>1. \A e \in {Lhs(i), Rhs(i)} : e \in Exprs
    BY DEF Exprs
<1>2. ExprOf(Lhs(i)) = Pred(i).lhs /\ ExprOf(Rhs(i)) = Pred(i).rhs
    BY SideFacts
<1>3. ASSUME NEW e \in {Lhs(i), Rhs(i)}, ExprOf(e).cols \subseteq PredCols(i) PROVE IsExprOf(ExprOf(e), S)
    <2>1. /\ ExprOf(e).plus \in Int
          /\ \A c \in ExprOf(e).cols : c \in ColsOf(Quns)
        BY <1>1, QueryCols
    <2>2. ASSUME NEW c \in ExprOf(e).cols PROVE c \in ColsOf(S)
        <3>1. c \in ColsOf(Quns) /\ c[1] \in PredQuns(i)
            BY <1>3, <2>1 DEF PredQuns
        <3> QED
            BY <3>1 DEF ColsOf
    <2> QED
        BY <2>1, <2>2, ExprIn
<1> QED
    BY <1>2, <1>3 DEF PredCols

\* The rows of two sets of tables together.
LEMMA MergedFacts ==
    ASSUME NEW S, NEW T, S \intersect T = {}, NEW a, IsRows(a, S), NEW b, IsRows(b, T), NEW x, x = Together(a, b)
    PROVE  IsRows(x, S \union T) /\ SameRows(a, x, S) /\ SameRows(b, x, T)
<1>1. DOMAIN a = S /\ DOMAIN b = T
    BY DEF IsRows, Restricted
<1>2. x = [q \in S \union T |-> IF q \in S THEN a[q] ELSE b[q]]
    BY <1>1 DEF Together
<1>3. (\A q \in S : x[q] = a[q]) /\ \A q \in T : x[q] = b[q]
    BY <1>2
<1>4. x = Restricted(x, S \union T)
    BY <1>2 DEF Restricted
<1> QED
    BY <1>3, <1>4 DEF IsRows, SameRows

LEMMA MergedBack ==
    ASSUME NEW S, NEW T, NEW x
    PROVE  Together(Restricted(x, S), Restricted(x, T)) = Restricted(x, S \union T)
<1>1. PICK a, b : a = Restricted(x, S) /\ b = Restricted(x, T)
    OBVIOUS
<1>2. DOMAIN a = S /\ DOMAIN b = T /\ (\A q \in S : a[q] = x[q]) /\ \A q \in T : b[q] = x[q]
    BY <1>1 DEF Restricted
<1>3. Together(a, b) = [q \in S \union T |-> IF q \in S THEN a[q] ELSE b[q]]
    BY <1>2 DEF Together
<1>4. Together(a, b) = [q \in S \union T |-> x[q]]
    BY <1>2, <1>3
<1> QED
    BY <1>1, <1>4 DEF Restricted

LEMMA ChunkSame ==
    ASSUME NEW S \in SUBSET Nat, NEW cols, AreCols(cols, S), NEW virtcols, AreExprs(virtcols, S),
           NEW x, NEW y, HasRows(x, S), HasRows(y, S), SameRows(x, y, S)
    PROVE  Chunk(cols, virtcols, x) = Chunk(cols, virtcols, y)
<1>1. PICK u, v, n : u = Chunk(cols, virtcols, x) /\ v = Chunk(cols, virtcols, y) /\ n = Cardinality(cols)
    OBVIOUS
<1>2. IsChunk(u, cols, virtcols, x, n) /\ IsChunk(v, cols, virtcols, y, n)
    BY <1>1, ChunkFacts
<1>3. PICK m : m = Len(virtcols)
    OBVIOUS
<1>4. n \in Nat /\ m \in Nat /\ Len(u) = n + m /\ Len(v) = n + m /\ u \in Seq(Int) /\ v \in Seq(Int) /\ DOMAIN virtcols = 1 .. m
    BY <1>2, <1>3 DEF IsChunk, AreExprs
<1>5. ASSUME NEW i \in 1 .. n PROVE u[i] = v[i]
    <2>1. PICK c : c = InOrder(cols)[i]
        OBVIOUS
    <2>2. c \in cols /\ u[i] = CellOf(c, x) /\ v[i] = CellOf(c, y)
        BY <1>2, <2>1 DEF IsChunk
    <2>3. c[1] \in S
        BY <2>2, ColPart
    <2> QED
        BY <2>2, <2>3 DEF CellOf, SameRows
<1>6. ASSUME NEW i \in 1 .. m PROVE u[n + i] = v[n + i]
    <2>1. PICK e : e = ExprOf(virtcols[i])
        OBVIOUS
    <2>2. u[n + i] = Val(e, x) /\ v[n + i] = Val(e, y)
        BY <1>2, <1>4, <2>1 DEF IsChunk
    <2>3. IsExprOf(e, S)
        BY <1>4, <2>1 DEF AreExprs
    <2> QED
        BY <2>2, <2>3, ValSame
<1>7. \A i \in 1 .. n + m : u[i] = v[i]
    <2> SUFFICES ASSUME NEW i \in 1 .. n + m PROVE u[i] = v[i]
        OBVIOUS
    <2>1. CASE i \in 1 .. n
        BY <1>5, <2>1
    <2>2. CASE i \notin 1 .. n
        <3>1. PICK j \in 1 .. m : i = n + j
            <4>1. i - n \in 1 .. m /\ i = n + (i - n)
                BY <1>4, <2>2
            <4> QED
                BY <4>1
        <3> QED
            BY <1>6, <3>1
    <2> QED
        BY <2>1, <2>2
<1> QED
    BY <1>1, <1>4, <1>7

-----------------------------------------------------------------------------
(* What the operators below the aggregations return of what they are given. *)

\* The rows In are what LOP n, about the tables S, can be given.
AreInputs(n, S, In) ==
    \A r \in In : /\ r = [id |-> r.id, vals |-> r.vals, times |-> Copies[n]]
                  /\ HasRows(r.id, S)
                  /\ \A qun \in lops[n].quns : Fits(InputMap(n, qun), r.vals, r.id)

Passes(n, x) == \A i \in lops[n].preds : Holds(i, x)

IsOutput(n, out, In) == \A o : o \in out <=> \E r \in In : o = RowOf(n, r.id) /\ Passes(n, r.id)

LEMMA OutputIs ==
    ASSUME NEW n, IsPop(pops[n], n), NEW S \in SUBSET Nat, RefersTo(n, S), NEW In, AreInputs(n, S, In)
    PROVE  IsOutput(n, Output(pops[n], In), In)
<1>1. PICK pop : pop = pops[n]
    OBVIOUS
<1>2. PICK qun \in lops[n].quns, call \in Calls : Binds(n, qun) /\ pop = Pop(n, qun, call)
    BY <1>1 DEF IsPop
<1>3. ASSUME NEW r \in In
      PROVE  /\ Projected(pop, r) = RowOf(n, r.id)
             /\ (\A p \in pop.preds : Eval(p.lhs, r.vals) = Eval(p.rhs, r.vals)) <=> Passes(n, r.id)
    <2>1. PICK x, vals : x = r.id /\ vals = r.vals
        OBVIOUS
    <2>2. r = [id |-> x, vals |-> vals, times |-> Copies[n]] /\ HasRows(x, S) /\ Fits(InputMap(n, qun), vals, x)
        BY <2>1 DEF AreInputs
    <2>3. /\ Projected(pop, r) = RowOf(n, x)
          /\ (\A p \in pop.preds : Eval(p.lhs, r.vals) = Eval(p.rhs, r.vals)) <=> \A i \in lops[n].preds : Holds(i, x)
        BY <1>2, <2>2, DataOutput
    <2> QED
        BY <2>1, <2>3 DEF Passes
<1>4. PICK kept : kept = {r \in In : \A p \in pop.preds : Eval(p.lhs, r.vals) = Eval(p.rhs, r.vals)}
    OBVIOUS
<1>5. Output(pop, In) = {Projected(pop, r) : r \in kept}
    BY <1>4 DEF Output, Filtered
<1>6. \A r : r \in kept <=> r \in In /\ Passes(n, r.id)
    BY <1>3, <1>4
<1>7. \A r \in kept : Projected(pop, r) = RowOf(n, r.id)
    BY <1>3, <1>4
<1>8. \A o : o \in {Projected(pop, r) : r \in kept} <=> \E r \in In : o = RowOf(n, r.id) /\ Passes(n, r.id)
    BY <1>6, <1>7
<1> QED
    BY <1>1, <1>5, <1>8 DEF IsOutput

\* A map without repetitions has as many entries as the chunk.
LEMMA MapSize ==
    ASSUME NEW cols, IsFiniteSet(cols), NEW virtcols, NEW m \in Nat, DOMAIN virtcols = 1 .. m, IsInjective(virtcols)
    PROVE  Cardinality(DOMAIN MapOf(cols, virtcols)) = Cardinality(cols) + m
<1>1. PICK h, g : h = [c \in cols |-> QunCol(c)] /\ g = [i \in 1 .. m |-> VirtCol(virtcols[i])]
    OBVIOUS
<1>2. \A c, d \in cols : h[c] = h[d] => c = d
    BY <1>1 DEF QunCol
<1>3. \A i, j \in 1 .. m : g[i] = g[j] => i = j
    BY <1>1 DEF VirtCol, IsInjective
<1>4. PICK A, B : A = {h[c] : c \in cols} /\ B = {g[i] : i \in 1 .. m}
    OBVIOUS
<1>5. IsFiniteSet(A) /\ Cardinality(A) = Cardinality(cols)
    BY <1>2, <1>4, ImageFinite
<1>6. IsFiniteSet(1 .. m) /\ Cardinality(1 .. m) = m
    BY FS_Interval
<1>7. IsFiniteSet(B) /\ Cardinality(B) = m
    BY <1>3, <1>4, <1>6, ImageFinite
<1>8. A \intersect B = {}
    BY <1>1, <1>4 DEF QunCol, VirtCol
<1>9. Cardinality(A) \in Nat /\ Cardinality(A \union B) = Cardinality(A) + m
    <2>1. Cardinality(A \union B) = Cardinality(A) + Cardinality(B) - Cardinality(A \intersect B)
        BY <1>5, <1>7, FS_Union
    <2>2. Cardinality(A \intersect B) = 0 /\ Cardinality(A) \in Nat
        BY <1>5, <1>8, FS_EmptySet, FS_CardinalityType
    <2> QED
        BY <1>7, <2>1, <2>2
<1>10. DOMAIN MapOf(cols, virtcols) = A \union B
    <2>1. \A c \in cols : h[c] = QunCol(c)
        BY <1>1
    <2>2. \A i \in 1 .. m : g[i] = VirtCol(virtcols[i])
        BY <1>1
    <2>3. A = {QunCol(c) : c \in cols}
        BY <1>4, <2>1
    <2>4. B = {VirtCol(e) : e \in ToSet(virtcols)}
        BY <1>4, <2>2 DEF ToSet
    <2>5. PICK f, n : f = MapOf(cols, virtcols) /\ n = Cardinality(cols)
        OBVIOUS
    <2>6. DOMAIN f = {QunCol(c) : c \in cols} \union {VirtCol(e) : e \in ToSet(virtcols)}
        BY <2>5, MapFields DEF IsMap
    <2> QED
        BY <2>3, <2>4, <2>5, <2>6
<1> QED
    BY <1>5, <1>9, <1>10

\* What a join compares of a leg is the value of its key.
LEMMA KeyWorth ==
    ASSUME NEW e, IsExpression(e), NEW S, IsExprOf(ExprOf(e), S), NEW x, HasRows(x, S)
    PROVE  Worth(KeyProjection(e), x) = Val(ExprOf(e), x)
<1>1. CASE IsColumn(e)
    <2>1. PICK f : f = ExprOf(e)
        OBVIOUS
    <2>2. f.plus = 0 /\ Cardinality(f.cols) = 1 /\ AreCols(f.cols, S)
        BY <1>1, <2>1 DEF IsColumn, IsExprOf
    <2>3. PICK c : f.cols = {c}
        BY <2>2, FS_Singleton DEF AreCols
    <2>4. KeyProjection(e) = QunCol(c)
        BY <1>1, <2>1, <2>3 DEF KeyProjection
    <2>5. Worth(QunCol(c), x) = CellOf(c, x)
        BY DEF Worth, QunCol
    <2>6. PICK v : v = CellOf(c, x)
        OBVIOUS
    <2>7. v \in Int
        BY <2>2, <2>3, <2>6, CellInt
    <2>8. Val(f, x) = f.plus + SumFunctionOnSet([d \in f.cols |-> CellOf(d, x)], f.cols)
        BY ValDef
    <2>9. PICK g : g = [d \in f.cols |-> CellOf(d, x)]
        OBVIOUS
    <2>10. g[c] = v
        BY <2>3, <2>6, <2>9
    <2>11. SumFunctionOnSet(g, {c}) = v
        BY <2>7, <2>10, SumOne
    <2>12. Val(f, x) = 0 + v
        BY <2>2, <2>3, <2>8, <2>9, <2>11
    <2>13. 0 + v = v
        BY <2>7
    <2> QED
        BY <2>1, <2>4, <2>5, <2>6, <2>12, <2>13
<1>2. CASE ~IsColumn(e)
    BY <1>2 DEF KeyProjection, Worth, VirtCol
<1> QED
    BY <1>1, <1>2

-----------------------------------------------------------------------------
(* The rows of the LOPs below the aggregations, and the partition that each is in. *)

\* The partition of LOP n that has the rows x: that of a scan, or what its last key says.
Place(n, x) ==
    IF lops[n].lop = "TableScan" THEN x[CHOOSE q \in lops[n].quns : TRUE].part
    ELSE Val(ExprOf(Last(lops[n].partkeys)), x) % query.degree

\* The predicates about tables, those of LOP n, and those that it applies.
Satisfies(n, x) ==
    /\ \A i \in DOMAIN query.preds : PredQuns(i) # {} /\ PredQuns(i) \subseteq lops[n].quns => Holds(i, x)
    /\ \A i \in DOMAIN query.preds : Applies(lops[n], i) => Holds(i, x)

IsRight(n, p, r) ==
    IsRows(r.id, lops[n].quns) /\ r = RowOf(n, r.id) /\ Place(n, r.id) = p /\ Satisfies(n, r.id)

Sound(n) == \A p \in DOMAIN Rows[n] : \A r \in Rows[n][p] : IsRight(n, p, r)

Has(n, x) == Place(n, x) \in DOMAIN Rows[n] /\ RowOf(n, Restricted(x, lops[n].quns)) \in Rows[n][Place(n, x)]
Complete(n) == \A x \in JoinedRows : Has(n, x)

Right(n) == DOMAIN Rows[n] = 0 .. TasksOf(lops[n]) - 1 /\ Sound(n) /\ Complete(n)

LEMMA DataFacts ==
    ASSUME Ready, NEW n, DataLop(n)
    PROVE  /\ n \in DOMAIN lops /\ query \in Queries /\ lops[n] \in LOPs
           /\ IsPop(pops[n], n)
           /\ NodeOk(lops, lops[n]) /\ Scoped(n)
           /\ Len(lops[n].children) = Arity(lops[n].lop)
           /\ DOMAIN lops[n].children = 1 .. Arity(lops[n].lop)
<1>1. n \in DOMAIN lops /\ query \in Queries
    BY DEF DataLop, Ready, FormInv, TypeInv
<1>2. IsPop(pops[n], n)
    BY <1>1, AllPopped DEF Ready
<1>3. lops[n] \in LOPs /\ Len(lops[n].children) = Arity(lops[n].lop)
    BY <1>1, LopIn DEF Ready, FormInv, Shape
<1>4. DOMAIN lops[n].children = 1 .. Arity(lops[n].lop)
    BY <1>3 DEF LOPs
<1>5. NodeOk(lops, lops[n])
    BY <1>1 DEF Ready, TreeInv, NodesOk
<1> QED
    BY <1>1, <1>2, <1>3, <1>4, <1>5, AllScoped

\* The row t of table q.
One(q, t) == [z \in {q} |-> t]
ScanRow(q, t) == [id |-> One(q, t), vals |-> Chunk(InputCols(q), << >>, One(q, t)), times |-> 1]

LEMMA OneFacts ==
    ASSUME NEW q, NEW t \in TableRows(q)
    PROVE  IsRows(One(q, t), {q}) /\ One(q, t)[q] = t
BY DEF One, IsRows, Restricted

LEMMA NoExprs == \A S : AreExprs(<< >>, S)
BY DEF AreExprs

LEMMA InputColsOf ==
    ASSUME query \in Queries, NEW q \in Quns
    PROVE  AreCols(InputCols(q), {q}) /\ {q} \in SUBSET Nat
<1>1. \A c \in InputCols(q) : c \in ColsOf(Quns) /\ c[1] = q
    BY QueryCols DEF InputCols
<1>2. \A c \in InputCols(q) : c \in ColsOf({q})
    BY <1>1 DEF ColsOf
<1> QED
    BY <1>2, ColsIn, ColsOfFinite

LEMMA ScanRowsAre ==
    ASSUME query \in Queries, NEW x, NEW q \in Quns, x.quns = {q}, NEW p
    PROVE  ScanRows(x, p) = {ScanRow(q, t) : t \in {u \in TableRows(q) : u.part = p}}
<1>1. (CHOOSE z \in x.quns : TRUE) = q
    OBVIOUS
<1>2. PICK order : order = InOrder(InputCols(q))
    OBVIOUS
<1>3. PICK cols, n : cols = InputCols(q) /\ n = Cardinality(cols)
    OBVIOUS
<1>4. AreCols(cols, {q}) /\ {q} \in SUBSET Nat
    BY <1>3, InputColsOf
<1>5. DOMAIN order = 1 .. n /\ \A i \in 1 .. n : order[i] \in cols
    BY <1>2, <1>3, <1>4, ColsNat, InOrderFacts
<1>6. ASSUME NEW t \in TableRows(q)
      PROVE  Chunk(cols, << >>, One(q, t)) = [i \in DOMAIN order |-> t.val[order[i][2]]]
    <2>1. PICK y, v : y = One(q, t) /\ v = Chunk(cols, << >>, y)
        OBVIOUS
    <2>2. IsRows(y, {q}) /\ y[q] = t
        BY <2>1, OneFacts
    <2>3. IsChunk(v, cols, << >>, y, n)
        BY <1>3, <1>4, <2>1, <2>2, IsRowsHas, NoExprs, ChunkFacts
    <2>4. n \in Nat /\ v \in Seq(Int) /\ Len(v) = n
        BY <2>3 DEF IsChunk
    <2>5. ASSUME NEW i \in 1 .. n PROVE v[i] = t.val[order[i][2]]
        <3>1. v[i] = CellOf(order[i], y)
            BY <1>2, <1>3, <2>3 DEF IsChunk
        <3>2. order[i][1] = q
            BY <1>4, <1>5, ColPart
        <3> QED
            BY <2>2, <3>1, <3>2 DEF CellOf
    <2>6. v = [i \in 1 .. n |-> v[i]]
        BY <2>4
    <2>7. v = [i \in 1 .. n |-> t.val[order[i][2]]]
        BY <2>5, <2>6
    <2> QED
        BY <1>5, <2>1, <2>7
<1>7. ScanRows(x, p) = {[id |-> [z \in {q} |-> t], vals |-> [i \in DOMAIN order |-> t.val[order[i][2]]], times |-> 1] :
                           t \in {u \in TableRows(q) : u.part = p}}
    <2> DEFINE All(k) == {[id |-> [z \in {k} |-> t],
                           vals |-> [i \in DOMAIN InOrder(InputCols(k)) |-> t.val[InOrder(InputCols(k))[i][2]]], times |-> 1] :
                             t \in {u \in TableRows(k) : u.part = p}}
    <2>1. ScanRows(x, p) = All(CHOOSE z \in x.quns : TRUE)
        BY DEF ScanRows
    <2>2. ScanRows(x, p) = All(q)
        <3> HIDE DEF All
        <3> QED
            BY <1>1, <2>1
    <2> QED
        BY <1>2, <2>2
<1>8. \A t \in TableRows(q) : ScanRow(q, t) =
          [id |-> [z \in {q} |-> t], vals |-> [i \in DOMAIN order |-> t.val[order[i][2]]], times |-> 1]
    BY <1>3, <1>6 DEF ScanRow, One
<1> QED
    BY <1>7, <1>8

LEMMA ScanRight ==
    ASSUME Ready, NEW n, DataLop(n), lops[n].lop = "TableScan"
    PROVE  Right(n)
<1>1. /\ n \in DOMAIN lops /\ query \in Queries /\ IsPop(pops[n], n) /\ Scoped(n)
      /\ ScanOk(lops[n]) /\ lops[n].npartitions \in Nat
    BY DataFacts DEF NodeOk, LOPs
<1>2. PICK q \in Quns : /\ lops[n].quns = {q} /\ lops[n].npartitions = query.parts[q]
                        /\ \A i \in DOMAIN query.preds : PredQuns(i) = {q} => i \in lops[n].preds
    BY <1>1 DEF ScanOk
<1>3. PICK N : N = query.parts[q]
    OBVIOUS
<1>4. PICK f : f = Rows[n]
    OBVIOUS
<1>5. DOMAIN f = 0 .. N - 1 /\ \A p \in 0 .. N - 1 : f[p] = Output(pops[n], ScanRows(lops[n], p))
    BY <1>1, <1>2, <1>3, <1>4, RowsOf DEF ScanReturns, Ready
<1>6. RefersTo(n, {q}) /\ {q} \in SUBSET Nat
    BY <1>1, <1>2, ColsOfFinite DEF Scoped
<1>7. ASSUME NEW p \in 0 .. N - 1
      PROVE  \A o : o \in f[p] <=> \E t \in TableRows(q) : t.part = p /\ o = RowOf(n, One(q, t)) /\ Passes(n, One(q, t))
    <2>1. PICK In : In = ScanRows(lops[n], p)
        OBVIOUS
    <2>2. In = {ScanRow(q, t) : t \in {u \in TableRows(q) : u.part = p}}
        BY <1>1, <1>2, <2>1, ScanRowsAre
    <2>3. ASSUME NEW t \in TableRows(q), NEW r, r = ScanRow(q, t)
          PROVE  /\ r.id = One(q, t) /\ r = [id |-> r.id, vals |-> r.vals, times |-> Copies[n]]
                 /\ HasRows(r.id, {q}) /\ Fits(InputMap(n, q), r.vals, r.id)
        <3>1. PICK y, v : y = One(q, t) /\ v = Chunk(InputCols(q), << >>, y)
            OBVIOUS
        <3>2. r = [id |-> y, vals |-> v, times |-> Copies[n]]
            <4>1. Copies[n] = 1
                BY <1>1, CopiesOf DEF Ready
            <4> QED
                BY <2>3, <3>1, <4>1 DEF ScanRow
        <3>3. HasRows(y, {q})
            BY <3>1, OneFacts, IsRowsHas
        <3>4. Fits(MapOf(InputCols(q), << >>), v, y)
            BY <1>1, <3>1, <3>3, InputColsOf, NoExprs, MapFits
        <3>5. InputMap(n, q) = MapOf(InputCols(q), << >>)
            BY DEF InputMap
        <3> QED
            BY <3>1, <3>2, <3>3, <3>4, <3>5
    <2>4. AreInputs(n, {q}, In)
        BY <1>2, <2>2, <2>3 DEF AreInputs
    <2>5. IsOutput(n, f[p], In)
        BY <1>1, <1>5, <1>6, <2>1, <2>4, OutputIs
    <2>6. \A o : o \in f[p] <=> \E r \in In : o = RowOf(n, r.id) /\ Passes(n, r.id)
        BY <2>5 DEF IsOutput
    <2>7. \A t \in TableRows(q) : ScanRow(q, t).id = One(q, t)
        BY DEF ScanRow
    <2> QED
        BY <2>2, <2>6, <2>7
<1>8. \A x : Place(n, x) = x[q].part
    <2>1. (CHOOSE z \in lops[n].quns : TRUE) = q
        BY <1>2
    <2> QED
        BY <2>1 DEF Place
<1>9. DOMAIN f = 0 .. TasksOf(lops[n]) - 1
    BY <1>2, <1>3, <1>5 DEF TasksOf
<1>10. ASSUME NEW p \in 0 .. N - 1, NEW r \in f[p] PROVE IsRight(n, p, r)
    <2>1. PICK t \in TableRows(q) : t.part = p /\ r = RowOf(n, One(q, t)) /\ Passes(n, One(q, t))
        BY <1>7, <1>10
    <2>2. PICK y : y = One(q, t)
        OBVIOUS
    <2>3. r.id = y
        BY <2>1, <2>2 DEF RowOf
    <2>4. IsRows(y, {q}) /\ y[q] = t
        BY <2>2, OneFacts
    <2>5. Place(n, y) = p
        BY <1>8, <2>1, <2>4
    <2>6. Satisfies(n, y)
        <3>1. ASSUME NEW i \in DOMAIN query.preds, PredQuns(i) # {}, PredQuns(i) \subseteq {q} PROVE i \in lops[n].preds
            <4>1. PredQuns(i) = {q}
                BY <3>1
            <4> QED
                BY <1>2, <4>1
        <3>2. \A i : Applies(lops[n], i) => i \in lops[n].preds
            BY DEF Applies, JoinsOn
        <3>3. \A i \in lops[n].preds : Holds(i, y)
            BY <2>1, <2>2 DEF Passes
        <3> QED
            BY <1>2, <3>1, <3>2, <3>3 DEF Satisfies
    <2> QED
        BY <1>2, <2>1, <2>2, <2>3, <2>4, <2>5, <2>6 DEF IsRight
<1>11. ASSUME NEW x \in JoinedRows PROVE Has(n, x)
    <2>1. IsRows(x, Quns) /\ \A i \in DOMAIN query.preds : Holds(i, x)
        BY <1>11, JoinedFacts
    <2>2. PICK t : t = x[q]
        OBVIOUS
    <2>3. t \in TableRows(q)
        BY <2>1, <2>2 DEF IsRows
    <2>4. t.part \in 0 .. N - 1
        BY <1>3, <2>3, TableRow
    <2>5. PICK y : y = Restricted(x, {q})
        OBVIOUS
    <2>6. y = One(q, t)
        BY <2>2, <2>5 DEF Restricted, One
    <2>7. SameRows(x, y, {q})
        BY <2>1, <2>5, RestrictedFacts
    <2>8. ASSUME NEW i \in lops[n].preds PROVE Holds(i, y)
        <3>1. IsExprOf(Pred(i).lhs, {q}) /\ IsExprOf(Pred(i).rhs, {q}) /\ i \in DOMAIN query.preds
            <4>1. Served(lops, lops[n])
                BY <1>1 DEF Ready, FlowInv, AllServed
            <4> QED
                BY <1>6, <4>1 DEF RefersTo, Served
        <3> QED
            BY <2>1, <2>7, <3>1, HoldsSame
    <2>9. RowOf(n, y) \in f[t.part]
        BY <1>7, <2>3, <2>4, <2>6, <2>8 DEF Passes
    <2> QED
        BY <1>2, <1>4, <1>5, <1>8, <2>2, <2>4, <2>5, <2>9 DEF Has
<1>12. Sound(n)
    BY <1>4, <1>5, <1>10 DEF Sound
<1>13. Complete(n)
    BY <1>11 DEF Complete
<1> QED
    BY <1>4, <1>9, <1>12, <1>13 DEF Right

-----------------------------------------------------------------------------
(* A repartitioning. *)

LEMMA FitsLess ==
    ASSUME NEW map, NEW vals, NEW x, Fits(map, vals, x), NEW other, DOMAIN other \subseteq DOMAIN map,
           \A p \in DOMAIN other : other[p] = map[p]
    PROVE  Fits(other, vals, x)
BY DEF Fits

\* The keys of a repartitioning are found in what is written where they are in its input.
LEMMA WrittenFits ==
    ASSUME NEW S \in SUBSET Nat, NEW cols, AreCols(cols, S), NEW virtcols, AreExprs(virtcols, S),
           NEW x, HasRows(x, S), NEW fewer, fewer = << >> \/ fewer = virtcols
    PROVE  Fits(MapOf(cols, fewer), Chunk(cols, virtcols, x), x)
<1>1. PICK map, vals : map = MapOf(cols, virtcols) /\ vals = Chunk(cols, virtcols, x)
    OBVIOUS
<1>2. Fits(map, vals, x)
    BY <1>1, MapFits
<1>3. CASE fewer = << >>
    <2>1. PICK other, n, none : other = MapOf(cols, none) /\ n = Cardinality(cols) /\ none = << >>
        OBVIOUS
    <2>2. IsMap(map, cols, virtcols, n) /\ IsMap(other, cols, none, n)
        BY <1>1, <2>1, MapFields
    <2>3. ToSet(none) = {}
        BY <2>1 DEF ToSet
    <2>4. DOMAIN other = {QunCol(c) : c \in cols}
        BY <2>2, <2>3 DEF IsMap
    <2>5. \A c \in cols : QunCol(c) \in DOMAIN map /\ other[QunCol(c)] = map[QunCol(c)]
        BY <2>2 DEF IsMap
    <2>6. Fits(other, vals, x)
        BY <1>2, <2>4, <2>5, FitsLess
    <2> QED
        BY <1>1, <1>3, <2>1, <2>6
<1>4. CASE fewer = virtcols
    BY <1>1, <1>2, <1>4
<1> QED
    BY <1>3, <1>4

LEMMA DegreeFacts ==
    ASSUME query \in Queries
    PROVE  query.degree \in Nat /\ query.degree > 0 /\ \A v \in Int : v % query.degree \in 0 .. query.degree - 1
<1>1. PICK d : d = query.degree
    OBVIOUS
<1>2. d \in Nat /\ d > 0
    BY <1>1, QueriesAssumption DEF IsQuery
<1>3. \A v \in Int : v % d \in 0 .. d - 1
    BY <1>2
<1> QED
    BY <1>1, <1>2, <1>3

LEMMA LastFacts ==
    ASSUME NEW X, NEW s \in Seq(X), s # << >>
    PROVE  Len(s) \in DOMAIN s /\ Last(s) = s[Len(s)] /\ Last(s) \in X /\ Last(s) \in ToSet(s)
<1>1. PICK n \in Nat : n = Len(s) /\ DOMAIN s = 1 .. n
    BY LenProperties
<1>2. n # 0
    BY <1>1, EmptySeq
<1>3. n \in DOMAIN s
    BY <1>1, <1>2
<1> QED
    BY <1>1, <1>3 DEF Last, ToSet

\* The partition of what is repartitioned, or joined.
LEMMA PlaceKey ==
    ASSUME Ready, NEW n, DataLop(n), lops[n].lop # "TableScan", NEW e, e = Last(lops[n].partkeys)
    PROVE  IsExprOf(ExprOf(e), lops[n].quns) /\ query \in Queries
<1>1. query \in Queries /\ Scoped(n) /\ lops[n].partkeys \in Seq(ExprKeys)
    BY DataFacts DEF LOPs
<1>2. e \in ToSet(lops[n].partkeys)
    BY <1>1, LastFacts DEF Scoped
<1> QED
    BY <1>1, <1>2 DEF Scoped

LEMMA PlaceIn ==
    ASSUME Ready, NEW n, DataLop(n), lops[n].lop # "TableScan", NEW x, IsRows(x, lops[n].quns)
    PROVE  Place(n, x) \in 0 .. query.degree - 1
<1>1. PICK e : e = Last(lops[n].partkeys)
    OBVIOUS
<1>2. query \in Queries /\ IsExprOf(ExprOf(e), lops[n].quns)
    BY <1>1, PlaceKey
<1>3. Val(ExprOf(e), x) \in Int
    BY <1>2, IsRowsHas, ValInt
<1>4. Place(n, x) = Val(ExprOf(e), x) % query.degree
    BY <1>1 DEF Place
<1> QED
    BY <1>2, <1>3, <1>4, DegreeFacts

LEMMA PlaceSame ==
    ASSUME Ready, NEW n, DataLop(n), lops[n].lop # "TableScan", NEW x, NEW y, SameRows(x, y, lops[n].quns)
    PROVE  Place(n, x) = Place(n, y)
<1>1. PICK e : e = Last(lops[n].partkeys)
    OBVIOUS
<1>2. IsExprOf(ExprOf(e), lops[n].quns)
    BY <1>1, PlaceKey
<1>3. Val(ExprOf(e), x) = Val(ExprOf(e), y)
    BY <1>2, ValSame
<1>4. \A z : Place(n, z) = Val(ExprOf(e), z) % query.degree
    BY <1>1 DEF Place
<1> QED
    BY <1>3, <1>4

LEMMA RowHas ==
    ASSUME Ready, NEW n, DataLop(n), NEW x, IsRows(x, lops[n].quns)
    PROVE  /\ HasRows(x, lops[n].quns)
           /\ Fits(OutputMap(n), RowOf(n, x).vals, x)
           /\ RowOf(n, x) = [id |-> x, vals |-> RowOf(n, x).vals, times |-> Copies[n]] /\ RowOf(n, x).id = x
<1>1. PICK S : S = lops[n].quns
    OBVIOUS
<1>2. query \in Queries /\ RefersTo(n, S) /\ S \in SUBSET Quns
    BY <1>1, DataFacts DEF Scoped
<1>3. S \in SUBSET Nat
    BY <1>2, ColsOfFinite
<1>4. HasRows(x, S)
    BY <1>1, IsRowsHas
<1>5. Fits(MapOf(lops[n].cols, lops[n].virtcols), Chunk(lops[n].cols, lops[n].virtcols, x), x)
    BY <1>2, <1>3, <1>4, MapFits DEF RefersTo
<1> QED
    BY <1>1, <1>4, <1>5 DEF OutputMap, RowOf

\* What a repartitioning is told to go by.
LEMMA RepartKeys ==
    ASSUME NEW n, IsPop(pops[n], n), lops[n].lop = "Repartition", NEW c, c = lops[n].children[1],
           lops[n].partkeys \in Seq(ExprKeys), lops[n].partkeys # << >>
    PROVE  LET e == Last(lops[n].partkeys)
           IN  Last(pops[n].repart_key) = Compile(OutputMap(c), e) /\ Compilable(OutputMap(c), e)
<1>1. PICK keys, e, map, p : keys = lops[n].partkeys /\ e = Last(keys) /\ map = OutputMap(c) /\ p = pops[n]
    OBVIOUS
<1>2. PICK qun \in lops[n].quns, call \in Calls : Binds(n, qun) /\ p = Pop(n, qun, call)
    BY <1>1 DEF IsPop
<1>3. InputMap(n, qun) = map
    BY <1>1 DEF InputMap
<1>4. IsRepartition(n)
    BY DEF IsRepartition
<1>5. p.repart_key = [i \in DOMAIN keys |-> Compile(map, keys[i])]
    <2>1. HasCodes(p, n, map)
        BY <1>2, <1>3, PopCodes
    <2> QED
        BY <1>1, <1>4, <2>1 DEF HasCodes
<1>6. e \in ToSet(keys) /\ Len(keys) \in DOMAIN keys /\ e = keys[Len(keys)] /\ Len(keys) \in Nat /\ DOMAIN keys = 1 .. Len(keys)
    BY <1>1, LastFacts, LenProperties
<1>7. Compilable(map, e)
    BY <1>1, <1>2, <1>3, <1>4, <1>6, BindsWhat DEF Binding
<1>8. PICK codes : codes = p.repart_key
    OBVIOUS
<1>9. DOMAIN codes = 1 .. Len(keys) /\ codes[Len(keys)] = Compile(map, e)
    BY <1>5, <1>6, <1>8
<1>10. Len(codes) = Len(keys)
    <2>1. PICK m \in Nat : m = Len(keys)
        BY <1>6
    <2>2. codes = [i \in 1 .. m |-> codes[i]]
        BY <1>5, <1>6, <1>8, <2>1
    <2>3. codes \in Seq({codes[i] : i \in 1 .. m})
        BY <2>2
    <2> QED
        BY <1>9, <2>1, <2>3, LenProperties
<1>11. Last(codes) = Compile(map, e)
    BY <1>9, <1>10 DEF Last
<1> QED
    BY <1>1, <1>7, <1>8, <1>11

\* A repartitioning and its input.
IsWrite(n, c) ==
    /\ n \in DOMAIN lops /\ c \in DOMAIN lops /\ DataLop(c) /\ lops[n].children[1] = c
    /\ query \in Queries /\ IsPop(pops[n], n) /\ Scoped(n)
    /\ lops[n].quns = lops[c].quns /\ lops[n].preds = {}
    /\ lops[n].cpartitions = query.degree
    /\ lops[n].partkeys \in Seq(ExprKeys) /\ lops[n].partkeys # << >>
    /\ lops[n].cols = lops[c].cols /\ lops[c].virtcols \in {<< >>, lops[n].virtcols}

LEMMA WriteFacts ==
    ASSUME Ready, NEW n, DataLop(n), lops[n].lop = "Repartition"
    PROVE  \E c : IsWrite(n, c)
<1>1. PICK c : c = lops[n].children[1]
    OBVIOUS
<1>2. /\ n \in DOMAIN lops /\ query \in Queries /\ lops[n] \in LOPs /\ IsPop(pops[n], n) /\ Scoped(n)
      /\ NodeOk(lops, lops[n])
    BY DataFacts
<1>3. c \in DOMAIN lops /\ 1 \in DOMAIN lops[n].children
    BY <1>1, <1>2, WriteInput DEF Ready
<1>4. DataLop(c)
    BY <1>1, <1>3, DataKids
<1>5. lops[c].lop # "Aggregation"
    BY <1>4 DEF DataLop, IsData
<1>6. RepartitionOk(lops[c], lops[n])
    BY <1>1, <1>2 DEF NodeOk
<1>7. WriteOk(lops[c], lops[n], IsEarly)
    BY <1>1, <1>2, <1>5 DEF Ready, WriteInv, IsDataWrite
<1>8. lops[n].partkeys \in Seq(ExprKeys)
    BY <1>2 DEF LOPs
<1>9. IsWrite(n, c)
    BY <1>1, <1>2, <1>3, <1>4, <1>5, <1>6, <1>7, <1>8 DEF IsWrite, RepartitionOk, WriteOk
<1> QED
    BY <1>9

\* The partition a row is written to.
LEMMA WritePlace ==
    ASSUME Ready, NEW n, DataLop(n), lops[n].lop = "Repartition", NEW c, IsWrite(n, c),
           NEW x, IsRows(x, lops[n].quns)
    PROVE  PartitionOf(pops[n], RowOf(n, x)) % query.degree = Place(n, x)
<1>1. PICK e, S : e = Last(lops[n].partkeys) /\ S = lops[n].quns
    OBVIOUS
<1>2. /\ Last(pops[n].repart_key) = Compile(OutputMap(c), e) /\ Compilable(OutputMap(c), e)
    BY <1>1, RepartKeys DEF IsWrite
<1>3. e \in ToSet(lops[n].partkeys)
    BY <1>1, LastFacts DEF IsWrite
<1>4. IsExpression(e) /\ IsExprOf(ExprOf(e), S) /\ S \in SUBSET Quns /\ RefersTo(n, S)
    BY <1>1, <1>3 DEF IsWrite, Scoped
<1>5. S \in SUBSET Nat
    BY <1>4, ColsOfFinite DEF IsWrite
<1>6. HasRows(x, S)
    BY <1>1, IsRowsHas
<1>7. PICK vals : vals = Chunk(lops[n].cols, lops[n].virtcols, x)
    OBVIOUS
<1>8. Fits(MapOf(lops[n].cols, lops[c].virtcols), vals, x)
    BY <1>4, <1>5, <1>6, <1>7, WrittenFits DEF RefersTo, IsWrite
<1>9. OutputMap(c) = MapOf(lops[n].cols, lops[c].virtcols)
    BY DEF OutputMap, IsWrite
<1>10. Eval(Compile(OutputMap(c), e), vals) = Val(ExprOf(e), x)
    BY <1>2, <1>4, <1>6, <1>8, <1>9, EvalFits
<1>11. RowOf(n, x).vals = vals
    BY <1>7 DEF RowOf
<1>12. Place(n, x) = Val(ExprOf(e), x) % query.degree
    BY <1>1 DEF Place
<1> QED
    BY <1>2, <1>10, <1>11, <1>12 DEF PartitionOf

LEMMA WrittenIs ==
    ASSUME Ready, NEW n, DataLop(n), lops[n].lop = "Repartition", NEW c, IsWrite(n, c), Right(c)
    PROVE  \A o : o \in Written(pops[n], Rows[c]) <=> \E p \in DOMAIN Rows[c] : \E r \in Rows[c][p] : o = RowOf(n, r.id)
<1>1. PICK f, S : f = Rows[c] /\ S = lops[n].quns
    OBVIOUS
<1>2. S \in SUBSET Quns /\ RefersTo(n, S) /\ query \in Queries /\ IsPop(pops[n], n) /\ lops[c].quns = S
    BY <1>1 DEF IsWrite, Scoped
<1>3. S \in SUBSET Nat
    BY <1>2, ColsOfFinite
<1>4. ASSUME NEW p \in DOMAIN f, NEW o PROVE o \in Output(pops[n], PartOf(f, p)) <=> \E r \in f[p] : o = RowOf(n, r.id)
    <2>1. ASSUME NEW r \in f[p]
          PROVE  /\ r = [id |-> r.id, vals |-> r.vals, times |-> Copies[n]]
                 /\ HasRows(r.id, S) /\ \A qun : Fits(InputMap(n, qun), r.vals, r.id)
        <3>1. PICK x : x = r.id
            OBVIOUS
        <3>2. IsRows(x, S) /\ r = RowOf(c, x)
            BY <1>1, <1>2, <2>1, <3>1 DEF Right, Sound, IsRight
        <3>3. /\ HasRows(x, S) /\ Fits(OutputMap(c), RowOf(c, x).vals, x)
              /\ RowOf(c, x) = [id |-> x, vals |-> RowOf(c, x).vals, times |-> Copies[c]]
            BY <1>2, <3>2, RowHas DEF IsWrite
        <3>4. \A qun : InputMap(n, qun) = OutputMap(c)
            BY DEF InputMap, IsWrite
        <3>5. Copies[n] = Copies[c]
            <4>1. n \in DOMAIN lops /\ FormInv
                BY DEF Ready, DataLop
            <4>2. Copies[n] = Copies[Input(n, 1)]
                BY <4>1, CopiesOf
            <4> QED
                BY <4>2 DEF IsWrite, Input
        <3> QED
            BY <3>1, <3>2, <3>3, <3>4, <3>5
    <2>2. AreInputs(n, S, f[p])
        BY <2>1 DEF AreInputs
    <2>3. IsOutput(n, Output(pops[n], f[p]), f[p])
        BY <1>2, <1>3, <2>2, OutputIs
    <2>4. \A x : Passes(n, x)
        BY DEF Passes, IsWrite
    <2> QED
        BY <1>4, <2>3, <2>4 DEF IsOutput, PartOf
<1> QED
    BY <1>1, <1>4 DEF Written

LEMMA WriteRight ==
    ASSUME Ready, NEW n, DataLop(n), lops[n].lop = "Repartition", NEW c, IsWrite(n, c), Right(c)
    PROVE  Right(n)
<1>1. PICK f, g, S, d : f = Rows[n] /\ g = Rows[c] /\ S = lops[n].quns /\ d = query.degree
    OBVIOUS
<1>2. n \in DOMAIN lops /\ lops[c].quns = S /\ lops[n].cpartitions = d /\ query \in Queries
    BY <1>1 DEF IsWrite
<1>3. f = WriteReturns(n, g)
    BY <1>1, <1>2, RowsOf DEF Input, IsWrite, Ready
<1>4. DOMAIN f = 0 .. d - 1 /\ \A p \in 0 .. d - 1 : \A r : r \in f[p] <=> r \in Written(pops[n], g) /\ PartitionOf(pops[n], r) % d = p
    BY <1>2, <1>3 DEF WriteReturns
<1>5. \A o : o \in Written(pops[n], g) <=> \E p \in DOMAIN g : \E r \in g[p] : o = RowOf(n, r.id)
    BY <1>1, WrittenIs
<1>6. \A p \in DOMAIN g : \A r \in g[p] : IsRows(r.id, S) /\ Satisfies(c, r.id)
    BY <1>1, <1>2 DEF Right, Sound, IsRight
<1>7. ASSUME NEW x, IsRows(x, S) PROVE PartitionOf(pops[n], RowOf(n, x)) % d = Place(n, x)
    BY <1>1, <1>7, WritePlace
<1>8. \A x : Satisfies(c, x) => Satisfies(n, x)
    <2>1. \A i : ~Applies(lops[n], i)
        BY DEF Applies, JoinsOn, IsWrite
    <2> QED
        BY <1>1, <1>2, <2>1 DEF Satisfies
<1>9. \A x : RowOf(n, x).id = x
    BY DEF RowOf
<1>10. Sound(n)
    <2>1. ASSUME NEW p \in 0 .. d - 1, NEW o \in f[p] PROVE IsRight(n, p, o)
        <3>1. PICK k \in DOMAIN g : \E r \in g[k] : o = RowOf(n, r.id)
            BY <1>4, <1>5, <2>1
        <3>11. PICK r \in g[k] : o = RowOf(n, r.id)
            BY <3>1
        <3>2. IsRows(r.id, S) /\ Satisfies(n, r.id)
            BY <1>6, <1>8
        <3>3. Place(n, r.id) = p
            BY <1>4, <1>7, <2>1, <3>11, <3>2
        <3> QED
            BY <1>1, <1>9, <3>11, <3>2, <3>3 DEF IsRight
    <2> QED
        BY <1>1, <1>4, <2>1 DEF Sound
<1>11. Complete(n)
    <2> SUFFICES ASSUME NEW x \in JoinedRows PROVE Has(n, x)
        BY DEF Complete
    <2>1. PICK y : y = Restricted(x, S)
        OBVIOUS
    <2>2. Has(c, x)
        BY DEF Right, Complete
    <2>3. PICK k \in DOMAIN g : RowOf(c, y) \in g[k]
        BY <1>1, <1>2, <2>1, <2>2 DEF Has
    <2>4. RowOf(n, y) \in Written(pops[n], g)
        <3>1. RowOf(c, y).id = y
            BY DEF RowOf
        <3> QED
            BY <1>5, <2>3, <3>1
    <2>5. IsRows(x, Quns) /\ S \subseteq Quns
        BY <1>1, JoinedFacts DEF IsWrite, Scoped
    <2>6. IsRows(y, S) /\ SameRows(y, x, S)
        BY <2>1, <2>5, RestrictedFacts
    <2>7. Place(n, y) = Place(n, x) /\ Place(n, y) \in 0 .. d - 1
        BY <1>1, <2>6, PlaceIn, PlaceSame
    <2>8. RowOf(n, y) \in f[Place(n, x)] /\ Place(n, x) \in DOMAIN f
        BY <1>4, <1>7, <2>4, <2>6, <2>7
    <2> QED
        BY <1>1, <2>1, <2>8 DEF Has
<1>12. DOMAIN f = 0 .. TasksOf(lops[n]) - 1
    BY <1>2, <1>4 DEF TasksOf
<1> QED
    BY <1>1, <1>10, <1>11, <1>12 DEF Right

-----------------------------------------------------------------------------
(* A join. *)

\* LOP l is a leg of join n, with the join keys keys.
JoinLeg(n, l, keys) ==
    /\ DataLop(l) /\ l \in DOMAIN lops /\ Scoped(l)
    /\ lops[l].lop # "TableScan" /\ lops[l].partkeys \in Seq(ExprKeys) /\ lops[l].partkeys # << >>
    /\ TasksOf(lops[l]) = query.degree
    /\ IsInjective(lops[l].virtcols)
    /\ LegPlaced(lops[l], keys)
    /\ lops[l].quns \subseteq lops[n].quns /\ lops[l].quns \subseteq Quns

IsJoin(n, l, r) ==
    /\ n \in DOMAIN lops /\ query \in Queries /\ IsPop(pops[n], n) /\ Scoped(n)
    /\ lops[n].children[1] = l /\ lops[n].children[2] = r
    /\ JoinOk(lops[l], lops[r], lops[n])
    /\ JoinLeg(n, l, lops[n].join_keys[1])
    /\ JoinLeg(n, r, lops[n].join_keys[2])
    /\ DOMAIN lops[n].join_keys = 1 .. 2

\* A leg that stays as it is has keys, and is no scan.
LEMMA LegNoScan ==
    ASSUME FormInv, PartInv, NEW l \in DOMAIN lops, NEW keys \in Seq(Exprs), keys # << >>, LegPlaced(lops[l], keys)
    PROVE  lops[l].lop # "TableScan"
<1> SUFFICES ASSUME lops[l].lop = "TableScan" PROVE FALSE
    OBVIOUS
<1>1. lops[l].partkeys = << >>
    BY DEF PartInv
<1>2. Len(keys) = Len(lops[l].partkeys)
    BY DEF LegPlaced, ComparePartKeys
<1>3. Len(keys) = 0
    BY <1>1, <1>2
<1> QED
    BY <1>3, EmptySeq

LEMMA JoinFacts ==
    ASSUME Ready, NEW n, DataLop(n), lops[n].lop = "HashJoin"
    PROVE  \E l, r : IsJoin(n, l, r)
<1>1. PICK l, r : l = lops[n].children[1] /\ r = lops[n].children[2]
    OBVIOUS
<1>2. /\ n \in DOMAIN lops /\ query \in Queries /\ lops[n] \in LOPs /\ IsPop(pops[n], n) /\ Scoped(n)
      /\ NodeOk(lops, lops[n]) /\ DOMAIN lops[n].children = 1 .. Arity(lops[n].lop)
    BY DataFacts
<1>3. 1 \in DOMAIN lops[n].children /\ 2 \in DOMAIN lops[n].children
    BY <1>2 DEF Arity
<1>4. DataLop(l) /\ DataLop(r)
    BY <1>1, <1>3, DataKids
<1>5. l \in DOMAIN lops /\ r \in DOMAIN lops /\ Scoped(l) /\ Scoped(r) /\ lops[l] \in LOPs /\ lops[r] \in LOPs
    BY <1>4, DataFacts
<1>6. JoinOk(lops[l], lops[r], lops[n])
    BY <1>1, <1>2 DEF NodeOk
<1>7. /\ lops[l].quns \subseteq lops[n].quns /\ lops[r].quns \subseteq lops[n].quns
      /\ lops[n].npartitions = query.degree
      /\ lops[n].join_keys[1] \in Seq(Exprs) /\ lops[n].join_keys[2] \in Seq(Exprs)
      /\ Len(lops[n].join_keys[1]) = Len(lops[n].join_keys[2]) /\ lops[n].join_keys[1] # << >>
      /\ LegPlaced(lops[l], lops[n].join_keys[1]) /\ LegPlaced(lops[r], lops[n].join_keys[2])
    BY <1>6 DEF JoinOk, KeysPaired
<1>8. lops[n].join_keys[2] # << >>
    BY <1>7, EmptySeq
<1>9. lops[l].lop # "TableScan" /\ lops[r].lop # "TableScan"
    BY <1>5, <1>7, <1>8, LegNoScan DEF Ready
<1>10. lops[l].partkeys # << >> /\ lops[r].partkeys # << >> /\ lops[l].quns \subseteq Quns /\ lops[r].quns \subseteq Quns
    BY <1>5, <1>9 DEF Scoped
<1>11. TasksOf(lops[l]) = query.degree /\ TasksOf(lops[r]) = query.degree
    BY <1>1, <1>2, <1>3, <1>7 DEF Ready, PartInv
<1>12. IsInjective(lops[l].virtcols) /\ IsInjective(lops[r].virtcols)
    BY <1>1, <1>2 DEF Ready, TreeInv, LegsOnce
<1>13. DOMAIN lops[n].join_keys = 1 .. 2
    <2>1. Len(lops[n].join_keys) = 2 /\ lops[n].join_keys \in Seq(Seq(ExprKeys))
        BY <1>2 DEF Ready, FormInv, Shape, LOPs
    <2> QED
        BY <2>1, LenProperties
<1>14. lops[l].partkeys \in Seq(ExprKeys) /\ lops[r].partkeys \in Seq(ExprKeys)
    BY <1>5 DEF LOPs
<1>15. JoinLeg(n, l, lops[n].join_keys[1])
    BY <1>4, <1>5, <1>7, <1>9, <1>10, <1>11, <1>12, <1>14 DEF JoinLeg
<1>16. JoinLeg(n, r, lops[n].join_keys[2])
    BY <1>4, <1>5, <1>7, <1>9, <1>10, <1>11, <1>12, <1>14 DEF JoinLeg
<1>17. IsJoin(n, l, r)
    BY <1>1, <1>2, <1>6, <1>13, <1>15, <1>16 DEF IsJoin
<1> QED
    BY <1>17

\* The keys of a leg are about its tables, and found in its chunks.
LEMMA KeyIn ==
    ASSUME NEW l, Scoped(l), NEW e \in Exprs, KeyProjection(e) \in DOMAIN OutputMap(l), query \in Queries
    PROVE  IsExpression(e) /\ IsExprOf(ExprOf(e), lops[l].quns)
<1>1. PICK S, cols, virtcols : S = lops[l].quns /\ cols = lops[l].cols /\ virtcols = lops[l].virtcols
    OBVIOUS
<1>2. RefersTo(l, S) /\ S \in SUBSET Quns
    BY <1>1 DEF Scoped
<1>3. IsExpression(e) /\ ExprOf(e).plus \in Int
    BY QueryCols
<1>4. PICK map : map = OutputMap(l)
    OBVIOUS
<1>5. IsMap(map, cols, virtcols, Cardinality(cols))
    BY <1>1, <1>4, MapFields DEF OutputMap
<1>6. CASE IsColumn(e)
    <2>1. PICK c : ExprOf(e).cols = {c}
        <3>1. Cardinality(ExprOf(e).cols) = 1 /\ IsFiniteSet(ExprOf(e).cols)
            <4>1. ExprOf(e).cols \subseteq ColsOf(Quns)
                BY QueryCols
            <4> QED
                BY <1>6, <4>1, ColsOfFinite, FS_Subset DEF IsColumn
        <3> QED
            BY <3>1, FS_Singleton
    <2>2. KeyProjection(e) = QunCol(c)
        BY <1>6, <2>1 DEF KeyProjection
    <2>3. c \in cols
        BY <1>4, <1>5, <2>2 DEF IsMap, QunCol, VirtCol
    <2>4. \A d \in ExprOf(e).cols : d \in ColsOf(S)
        BY <1>1, <1>2, <2>1, <2>3 DEF RefersTo, AreCols
    <2> QED
        BY <1>1, <1>2, <1>3, <2>4, ExprIn
<1>7. CASE ~IsColumn(e)
    <2>1. KeyProjection(e) = VirtCol(e)
        BY <1>7 DEF KeyProjection
    <2>2. e \in ToSet(virtcols)
        BY <1>4, <1>5, <2>1 DEF IsMap, QunCol, VirtCol
    <2> QED
        BY <1>1, <1>2, <1>3, <2>2 DEF RefersTo, AreExprs, ToSet
<1> QED
    BY <1>6, <1>7

\* The columns of leg l, number k of join n, that the join compares.
KeyColsOk(n, l, k) ==
    LET keys == lops[n].join_keys[k]
        cols == pops[n].keycols[k]
    IN  /\ DOMAIN cols = DOMAIN keys
        /\ \A i \in DOMAIN keys : /\ keys[i] \in Exprs
                                  /\ KeyProjection(keys[i]) \in DOMAIN OutputMap(l)
                                  /\ cols[i] = OutputMap(l)[KeyProjection(keys[i])]

LEMMA JoinKeyCols ==
    ASSUME NEW n, NEW l, NEW r, IsJoin(n, l, r)
    PROVE  KeyColsOk(n, l, 1) /\ KeyColsOk(n, r, 2)
<1>1. PICK p : p = pops[n]
    OBVIOUS
<1>2. PICK qun \in lops[n].quns, call \in Calls : Binds(n, qun) /\ p = Pop(n, qun, call)
    BY <1>1 DEF IsPop, IsJoin
<1>3. HasCodes(p, n, InputMap(n, qun))
    BY <1>2, PopCodes
<1>4. PICK keys, kids : keys = lops[n].join_keys /\ kids = lops[n].children
    OBVIOUS
<1>5. p.keycols = [k \in DOMAIN keys |-> [i \in DOMAIN keys[k] |-> OutputMap(kids[k])[KeyProjection(keys[k][i])]]]
    BY <1>3, <1>4 DEF HasCodes
<1>6. DOMAIN keys = 1 .. 2 /\ keys[1] \in Seq(Exprs) /\ keys[2] \in Seq(Exprs) /\ kids[1] = l /\ kids[2] = r
    BY <1>4 DEF IsJoin, JoinOk, KeysPaired
<1>7. \A k \in DOMAIN keys : \A e \in ToSet(keys[k]) : KeyProjection(e) \in DOMAIN OutputMap(kids[k])
    BY <1>2, <1>4 DEF Binds
<1>8. ASSUME NEW k \in 1 .. 2 PROVE KeyColsOk(n, kids[k], k)
    <2>1. p.keycols[k] = [i \in DOMAIN keys[k] |-> OutputMap(kids[k])[KeyProjection(keys[k][i])]]
        BY <1>5, <1>6
    <2>2. keys[k] \in Seq(Exprs)
        BY <1>6
    <2>3. \A i \in DOMAIN keys[k] : keys[k][i] \in Exprs /\ keys[k][i] \in ToSet(keys[k])
        BY <2>2, ElementOfSeq, LenProperties DEF ToSet
    <2>4. \A i \in DOMAIN keys[k] : KeyProjection(keys[k][i]) \in DOMAIN OutputMap(kids[k])
        BY <1>6, <1>7, <2>3
    <2> QED
        BY <1>1, <1>4, <2>1, <2>3, <2>4 DEF KeyColsOk
<1> QED
    BY <1>6, <1>8

\* What is compared is the value of the key.
LEMMA KeyCompared ==
    ASSUME Ready, NEW n, NEW l, NEW k, query \in Queries, DataLop(l), Scoped(l), KeyColsOk(n, l, k),
           NEW i \in DOMAIN lops[n].join_keys[k], NEW e, e = lops[n].join_keys[k][i],
           NEW x, IsRows(x, lops[l].quns)
    PROVE  /\ RowOf(l, x).vals[pops[n].keycols[k][i] + 1] = Val(ExprOf(e), x)
           /\ IsExprOf(ExprOf(e), lops[l].quns)
<1>1. PICK map, vals : map = OutputMap(l) /\ vals = RowOf(l, x).vals
    OBVIOUS
<1>2. e \in Exprs /\ KeyProjection(e) \in DOMAIN map /\ pops[n].keycols[k][i] = map[KeyProjection(e)]
    BY <1>1 DEF KeyColsOk
<1>3. IsExpression(e) /\ IsExprOf(ExprOf(e), lops[l].quns)
    BY <1>1, <1>2, KeyIn
<1>4. HasRows(x, lops[l].quns) /\ Fits(map, vals, x)
    BY <1>1, RowHas
<1>5. vals[map[KeyProjection(e)] + 1] = Worth(KeyProjection(e), x)
    BY <1>2, <1>4 DEF Fits
<1>6. Worth(KeyProjection(e), x) = Val(ExprOf(e), x)
    BY <1>3, <1>4, KeyWorth
<1> QED
    BY <1>1, <1>2, <1>3, <1>5, <1>6

\* Rows a of leg l and rows b of leg r have the same keys.
KeysMeet(n, a, b) ==
    \A i \in DOMAIN lops[n].join_keys[1] :
        Val(ExprOf(lops[n].join_keys[1][i]), a) = Val(ExprOf(lops[n].join_keys[2][i]), b)
KeysSame(n, v, w) == \A i \in DOMAIN pops[n].keycols[1] : v[pops[n].keycols[1][i] + 1] = w[pops[n].keycols[2][i] + 1]

LEMMA JoinDomains ==
    ASSUME NEW n, NEW l, NEW r, IsJoin(n, l, r)
    PROVE  DOMAIN lops[n].join_keys[1] = DOMAIN lops[n].join_keys[2]
<1>1. PICK u, v : u = lops[n].join_keys[1] /\ v = lops[n].join_keys[2]
    OBVIOUS
<1>2. u \in Seq(Exprs) /\ v \in Seq(Exprs) /\ Len(u) = Len(v)
    BY <1>1 DEF IsJoin, JoinOk, KeysPaired
<1>3. DOMAIN u = 1 .. Len(u) /\ DOMAIN v = 1 .. Len(v)
    BY <1>2, LenProperties
<1> QED
    BY <1>1, <1>2, <1>3

LEMMA MatchIs ==
    ASSUME Ready, NEW n, NEW l, NEW r, IsJoin(n, l, r),
           NEW a, IsRows(a, lops[l].quns), NEW b, IsRows(b, lops[r].quns)
    PROVE  KeysSame(n, RowOf(l, a).vals, RowOf(r, b).vals) <=> KeysMeet(n, a, b)
<1>1. KeyColsOk(n, l, 1) /\ KeyColsOk(n, r, 2)
    BY JoinKeyCols
<1>2. /\ query \in Queries /\ DataLop(l) /\ Scoped(l) /\ DataLop(r) /\ Scoped(r)
      /\ DOMAIN lops[n].join_keys[1] = DOMAIN lops[n].join_keys[2]
    BY JoinDomains DEF IsJoin, JoinLeg
<1>3. DOMAIN pops[n].keycols[1] = DOMAIN lops[n].join_keys[1]
    BY <1>1 DEF KeyColsOk
<1>4. ASSUME NEW i \in DOMAIN lops[n].join_keys[1]
      PROVE  /\ RowOf(l, a).vals[pops[n].keycols[1][i] + 1] = Val(ExprOf(lops[n].join_keys[1][i]), a)
             /\ RowOf(r, b).vals[pops[n].keycols[2][i] + 1] = Val(ExprOf(lops[n].join_keys[2][i]), b)
    <2>1. i \in DOMAIN lops[n].join_keys[2]
        BY <1>2
    <2> QED
        BY <1>1, <1>2, <2>1, KeyCompared
<1> QED
    BY <1>3, <1>4 DEF KeysSame, KeysMeet

LEMMA LegFits ==
    ASSUME Ready, NEW l, DataLop(l), query \in Queries, NEW a, IsRows(a, lops[l].quns),
           NEW x, HasRows(x, lops[l].quns), SameRows(a, x, lops[l].quns)
    PROVE  Fits(OutputMap(l), RowOf(l, a).vals, x)
<1>1. PICK S : S = lops[l].quns
    OBVIOUS
<1>2. RefersTo(l, S) /\ S \in SUBSET Quns
    BY <1>1, DataFacts DEF Scoped
<1>3. S \in SUBSET Nat
    BY <1>2, ColsOfFinite
<1>4. HasRows(a, S)
    BY <1>1, IsRowsHas
<1>5. Chunk(lops[l].cols, lops[l].virtcols, a) = Chunk(lops[l].cols, lops[l].virtcols, x)
    BY <1>1, <1>2, <1>3, <1>4, ChunkSame DEF RefersTo
<1>6. Fits(MapOf(lops[l].cols, lops[l].virtcols), Chunk(lops[l].cols, lops[l].virtcols, x), x)
    BY <1>1, <1>2, <1>3, MapFits DEF RefersTo
<1> QED
    BY <1>5, <1>6 DEF OutputMap, RowOf

LEMMA LegSize ==
    ASSUME Ready, NEW l, DataLop(l), query \in Queries, IsInjective(lops[l].virtcols), NEW a, IsRows(a, lops[l].quns)
    PROVE  Cardinality(DOMAIN OutputMap(l)) = Len(RowOf(l, a).vals)
<1>1. PICK S, cols, virtcols, v, n : /\ S = lops[l].quns /\ cols = lops[l].cols /\ virtcols = lops[l].virtcols
                                     /\ v = Chunk(cols, virtcols, a) /\ n = Cardinality(cols)
    OBVIOUS
<1>2. RefersTo(l, S) /\ S \in SUBSET Quns
    BY <1>1, DataFacts DEF Scoped
<1>3. S \in SUBSET Nat
    BY <1>2, ColsOfFinite
<1>4. HasRows(a, S)
    BY <1>1, IsRowsHas
<1>5. AreCols(cols, S) /\ AreExprs(virtcols, S)
    BY <1>1, <1>2 DEF RefersTo
<1>6. IsChunk(v, cols, virtcols, a, n)
    BY <1>1, <1>3, <1>4, <1>5, ChunkFacts
<1>7. PICK m : m = Len(virtcols)
    OBVIOUS
<1>8. m \in Nat /\ DOMAIN virtcols = 1 .. m /\ IsFiniteSet(cols)
    BY <1>5, <1>7 DEF AreExprs, AreCols
<1>9. Cardinality(DOMAIN MapOf(cols, virtcols)) = n + m
    BY <1>1, <1>8, MapSize
<1>10. Len(v) = n + m
    BY <1>6, <1>7 DEF IsChunk
<1> QED
    BY <1>1, <1>9, <1>10 DEF RowOf, OutputMap

\* A row of a leg has as many values as its operator computes.
LEMMA LegWidth ==
    ASSUME Ready, NEW l, DataLop(l)
    PROVE  /\ Len(pops[l].projection) \in Nat
           /\ \A a : IsRows(a, lops[l].quns) => Len(RowOf(l, a).vals) = Len(pops[l].projection)
<1>1. PICK S, cols, virtcols, n, m : /\ S = lops[l].quns /\ cols = lops[l].cols /\ virtcols = lops[l].virtcols
                                     /\ n = Cardinality(cols) /\ m = Len(virtcols)
    OBVIOUS
<1>2. RefersTo(l, S) /\ S \in SUBSET Quns /\ IsPop(pops[l], l) /\ query \in Queries
    BY <1>1, DataFacts DEF Scoped
<1>3. S \in SUBSET Nat
    BY <1>2, ColsOfFinite
<1>4. AreCols(cols, S) /\ AreExprs(virtcols, S)
    BY <1>1, <1>2 DEF RefersTo
<1>5. PICK qun, call : pops[l] = Pop(l, qun, call)
    BY <1>2 DEF IsPop
<1>6. PICK map : map = InputMap(l, qun)
    OBVIOUS
<1>7. pops[l].projection = Codes(map, cols, virtcols)
    <2>1. HasCodes(pops[l], l, map)
        BY <1>5, <1>6, PopCodes
    <2> QED
        BY <1>1, <2>1 DEF HasCodes
<1>8. n \in Nat /\ m \in Nat /\ Len(pops[l].projection) = n + m
    <2>1. n \in Nat /\ m \in Nat /\ Len(Codes(map, cols, virtcols)) = n + m
        <3>1. n = Cardinality(cols)
            BY <1>1
        <3>2. m = Len(virtcols)
            BY <1>1
        <3>3. AreCols(cols, S)
            BY <1>4
        <3>4. AreExprs(virtcols, S)
            BY <1>4
        <3> QED
            BY <1>3, <3>1, <3>2, <3>3, <3>4, CodesSize
    <2> QED
        BY <1>7, <2>1
<1>9. ASSUME NEW a, IsRows(a, S) PROVE Len(RowOf(l, a).vals) = n + m
    <2>1. PICK v : v = Chunk(cols, virtcols, a)
        OBVIOUS
    <2>2. HasRows(a, S)
        BY <1>9, IsRowsHas
    <2>3. IsChunk(v, cols, virtcols, a, n)
        BY <1>1, <1>3, <1>4, <2>1, <2>2, ChunkFacts
    <2> QED
        BY <1>1, <2>1, <2>3 DEF IsChunk, RowOf
<1> QED
    BY <1>1, <1>8, <1>9

LEMMA CopiesInt == Ready => \A n : DataLop(n) => Copies[n] \in Int
<1> SUFFICES ASSUME Ready PROVE \A n : DataLop(n) => Copies[n] \in Int
    OBVIOUS
<1>1. PICK T : T = {n \in DOMAIN lops : Copies[n] \in Int}
    OBVIOUS
<1>2. ASSUME NEW n, DataLop(n), \A k \in DOMAIN lops[n].children : lops[n].children[k] \in T
      PROVE  n \in T
    <2>1. /\ n \in DOMAIN lops /\ lops[n] \in LOPs /\ FormInv
          /\ DOMAIN lops[n].children = 1 .. Arity(lops[n].lop)
        BY <1>2, DataFacts DEF Ready
    <2>2. CASE lops[n].lop = "TableScan"
        BY <1>1, <2>1, <2>2, CopiesOf
    <2>3. CASE lops[n].lop = "Repartition"
        <3>1. Copies[n] = Copies[Input(n, 1)]
            BY <2>1, <2>3, CopiesOf
        <3>2. Input(n, 1) \in T
            BY <1>2, <2>1, <2>3 DEF Arity, Input
        <3> QED
            BY <1>1, <2>1, <3>1, <3>2
    <2>4. CASE lops[n].lop = "HashJoin"
        <3>1. PICK l, r : l = Input(n, 1) /\ r = Input(n, 2)
            OBVIOUS
        <3>2. 1 \in DOMAIN lops[n].children /\ 2 \in DOMAIN lops[n].children
            BY <2>1, <2>4 DEF Arity
        <3>3. l \in T /\ r \in T /\ DataLop(r)
            BY <1>2, <3>1, <3>2, DataKids DEF Input
        <3>4. PICK x \in Int, y \in Int, w \in Int : x = Copies[l] /\ y = Copies[r] /\ w = Len(pops[r].projection)
            BY <1>1, <3>3, LegWidth
        <3>5. Copies[n] = x * y * w
            BY <2>1, <2>4, <3>1, <3>4, CopiesOf
        <3> QED
            BY <1>1, <2>1, <3>5
    <2>5. lops[n].lop # "Aggregation"
        BY <1>2 DEF DataLop, IsData
    <2> QED
        BY <2>1, <2>2, <2>3, <2>4, <2>5 DEF LOPs
<1>3. \A n : DataLop(n) => n \in T
    BY <1>2, DataInd
<1> QED
    BY <1>1, <1>3

\* The row that a join makes of rows a and b.
JoinedRow(l, r, a, b) ==
    [id |-> Together(a, b), vals |-> RowOf(l, a).vals \o RowOf(r, b).vals,
     times |-> Copies[l] * Copies[r] * Len(RowOf(r, b).vals)]

LEMMA JoinedFits ==
    ASSUME Ready, NEW n, NEW l, NEW r, IsJoin(n, l, r), lops[n].lop = "HashJoin",
           NEW a, IsRows(a, lops[l].quns), NEW b, IsRows(b, lops[r].quns), NEW x, x = Together(a, b)
    PROVE  /\ IsRows(x, lops[n].quns) /\ SameRows(a, x, lops[l].quns) /\ SameRows(b, x, lops[r].quns)
           /\ \A qun : Fits(InputMap(n, qun), RowOf(l, a).vals \o RowOf(r, b).vals, x)
<1>1. PICK S, T : S = lops[l].quns /\ T = lops[r].quns
    OBVIOUS
<1>2. /\ query \in Queries /\ DataLop(l) /\ DataLop(r) /\ IsInjective(lops[l].virtcols)
      /\ lops[n].children[1] = l /\ lops[n].children[2] = r
      /\ lops[n].quns = S \union T /\ S \intersect T = {}
    BY <1>1 DEF IsJoin, JoinLeg, JoinOk
<1>3. IsRows(x, S \union T) /\ SameRows(a, x, S) /\ SameRows(b, x, T)
    BY <1>1, <1>2, MergedFacts
<1>4. HasRows(x, S \union T)
    BY <1>3, IsRowsHas
<1>5. HasRows(x, S) /\ HasRows(x, T)
    BY <1>4 DEF HasRows
<1>6. PICK map, other, vals, more : /\ map = OutputMap(l) /\ other = OutputMap(r)
                                    /\ vals = RowOf(l, a).vals /\ more = RowOf(r, b).vals
    OBVIOUS
<1>7. Fits(map, vals, x) /\ Fits(other, more, x)
    BY <1>1, <1>2, <1>3, <1>5, <1>6, LegFits
<1>8. Cardinality(DOMAIN map) = Len(vals)
    BY <1>2, <1>6, LegSize
<1>9. Fits(MapAppend(map, other), vals \o more, x)
    BY <1>7, <1>8, AppendFits
<1>10. \A qun : InputMap(n, qun) = MapAppend(map, other)
    BY <1>2, <1>6 DEF InputMap
<1> QED
    BY <1>1, <1>2, <1>3, <1>6, <1>9, <1>10

RowPair(a, b) ==
    [id |-> Together(a.id, b.id), vals |-> a.vals \o b.vals, times |-> a.times * b.times * Len(b.vals)]
IsMatch(n, out, A, B) ==
    \A o : o \in out <=> \E a \in A : \E b \in B : KeysSame(n, a.vals, b.vals) /\ o = RowPair(a, b)

\* KeysInOrder: the columns of both sides that are compared are those of the predicates.
LEMMA ComparedIs ==
    ASSUME Ready, NEW n \in DOMAIN lops, lops[n].lop = "HashJoin", NEW v, NEW w
    PROVE  (\A k \in ComparedKeys(pops[n].keycols) : v[k[1] + 1] = w[k[2] + 1]) <=> KeysSame(n, v, w)
<1>1. PICK keycols : keycols = pops[n].keycols
    OBVIOUS
<1>2. ComparedKeys(keycols) = {<<keycols[1][i], keycols[2][i]>> : i \in DOMAIN keycols[1]}
    BY <1>1, Zenon DEF Ready, KeysInOrder
<1>3. PICK C : C = ComparedKeys(keycols)
    OBVIOUS
<1>4. \A k : k \in C <=> \E i \in DOMAIN keycols[1] : k = <<keycols[1][i], keycols[2][i]>>
    BY <1>2, <1>3
<1>5. (\A k \in C : v[k[1] + 1] = w[k[2] + 1]) <=>
          \A i \in DOMAIN keycols[1] : v[keycols[1][i] + 1] = w[keycols[2][i] + 1]
    <2>1. ASSUME \A k \in C : v[k[1] + 1] = w[k[2] + 1], NEW i \in DOMAIN keycols[1]
          PROVE  v[keycols[1][i] + 1] = w[keycols[2][i] + 1]
        <3>1. PICK k : k = <<keycols[1][i], keycols[2][i]>>
            OBVIOUS
        <3>2. k \in C /\ k[1] = keycols[1][i] /\ k[2] = keycols[2][i]
            BY <1>4, <3>1
        <3> QED
            BY <2>1, <3>2
    <2>2. ASSUME \A i \in DOMAIN keycols[1] : v[keycols[1][i] + 1] = w[keycols[2][i] + 1], NEW k \in C
          PROVE  v[k[1] + 1] = w[k[2] + 1]
        <3>1. PICK i \in DOMAIN keycols[1] : k = <<keycols[1][i], keycols[2][i]>>
            BY <1>4
        <3>2. k[1] = keycols[1][i] /\ k[2] = keycols[2][i]
            BY <3>1
        <3> QED
            BY <2>2, <3>2
    <2> QED
        BY <2>1, <2>2
<1> QED
    BY <1>1, <1>3, <1>5 DEF KeysSame

LEMMA HashMatchIs ==
    ASSUME Ready, NEW n \in DOMAIN lops, lops[n].lop = "HashJoin", NEW A, NEW B
    PROVE  IsMatch(n, HashMatchRows(pops[n], A, B), A, B)
<1> DEFINE Matches(l) == {r \in B : \A k \in ComparedKeys(pops[n].keycols) : l.vals[k[1] + 1] = r.vals[k[2] + 1]}
<1>1. \A l, r : r \in Matches(l) <=> r \in B /\ KeysSame(n, l.vals, r.vals)
    BY ComparedIs
<1>2. HashMatchRows(pops[n], A, B) = UNION {{RowPair(l, r) : r \in Matches(l)} : l \in A}
    BY Zenon DEF HashMatchRows, RowPair
<1> HIDE DEF Matches
<1>3. \A o : o \in HashMatchRows(pops[n], A, B) <=> \E l \in A : \E r \in Matches(l) : o = RowPair(l, r)
    BY <1>2
<1> QED
    BY <1>1, <1>3 DEF IsMatch

\* Rows of LOP l, of tables of its own.
AreRowsOf(l, A) == \A a \in A : a = RowOf(l, a.id) /\ IsRows(a.id, lops[l].quns)
Pairing(n, a, b) == KeysMeet(n, a, b) /\ Passes(n, Together(a, b))

IsJoined(n, out, A, B) ==
    \A o : o \in out <=> \E a \in A : \E b \in B : Pairing(n, a.id, b.id) /\ o = RowOf(n, Together(a.id, b.id))

LEMMA JoinOutput ==
    ASSUME Ready, NEW n, NEW l, NEW r, IsJoin(n, l, r), lops[n].lop = "HashJoin",
           NEW A, AreRowsOf(l, A), NEW B, AreRowsOf(r, B)
    PROVE  IsJoined(n, Output(pops[n], HashMatchRows(pops[n], A, B)), A, B)
<1>1. PICK S, In : S = lops[n].quns /\ In = HashMatchRows(pops[n], A, B)
    OBVIOUS
<1>2. query \in Queries /\ IsPop(pops[n], n) /\ RefersTo(n, S) /\ S \in SUBSET Quns
    BY <1>1 DEF IsJoin, Scoped
<1>3. S \in SUBSET Nat
    BY <1>2, ColsOfFinite
<1>4. \A o : o \in In <=> \E a \in A : \E b \in B :
                              KeysMeet(n, a.id, b.id) /\ o = JoinedRow(l, r, a.id, b.id)
    <2>1. ASSUME NEW a \in A, NEW b \in B
          PROVE  /\ KeysSame(n, a.vals, b.vals) <=> KeysMeet(n, a.id, b.id)
                 /\ RowPair(a, b) = JoinedRow(l, r, a.id, b.id)
        <3>1. PICK y, z : y = a.id /\ z = b.id
            OBVIOUS
        <3>2. a = RowOf(l, y) /\ IsRows(y, lops[l].quns) /\ b = RowOf(r, z) /\ IsRows(z, lops[r].quns)
            BY <3>1 DEF AreRowsOf
        <3>3. KeysSame(n, RowOf(l, y).vals, RowOf(r, z).vals) <=> KeysMeet(n, y, z)
            BY <3>2, MatchIs
        <3>4. RowOf(l, y).times = Copies[l] /\ RowOf(r, z).times = Copies[r]
            BY DEF RowOf
        <3> QED
            BY <3>1, <3>2, <3>3, <3>4, Zenon DEF JoinedRow, RowPair
    <2>2. IsMatch(n, In, A, B)
        BY <1>1, HashMatchIs DEF IsJoin
    <2>3. ASSUME NEW o
          PROVE  o \in In <=> \E a \in A : \E b \in B : KeysMeet(n, a.id, b.id) /\ o = JoinedRow(l, r, a.id, b.id)
        <3>1. o \in In <=> \E a \in A : \E b \in B : KeysSame(n, a.vals, b.vals) /\ o = RowPair(a, b)
            BY <2>2 DEF IsMatch
        <3> QED
            BY <2>1, <3>1
    <2> QED
        BY <2>3
<1>5. AreInputs(n, S, In)
    <2>1. ASSUME NEW o \in In
          PROVE  /\ o = [id |-> o.id, vals |-> o.vals, times |-> Copies[n]]
                 /\ HasRows(o.id, S) /\ \A qun : Fits(InputMap(n, qun), o.vals, o.id)
        <3>1. PICK a \in A, b \in B : o = JoinedRow(l, r, a.id, b.id)
            BY <1>4, <2>1
        <3>2. PICK y, z, x, v : y = a.id /\ z = b.id /\ x = Together(y, z) /\ v = RowOf(l, y).vals \o RowOf(r, z).vals
            OBVIOUS
        <3>3. IsRows(y, lops[l].quns) /\ IsRows(z, lops[r].quns)
            BY <3>2 DEF AreRowsOf
        <3>4. IsRows(x, S) /\ \A qun : Fits(InputMap(n, qun), v, x)
            BY <1>1, <3>2, <3>3, JoinedFits
        <3>5. o = [id |-> x, vals |-> v, times |-> Copies[n]]
            <4>1. Len(RowOf(r, z).vals) = Len(pops[r].projection)
                BY <3>3, LegWidth DEF IsJoin, JoinLeg
            <4>2. Copies[n] = Copies[l] * Copies[r] * Len(pops[r].projection)
                <5>1. n \in DOMAIN lops /\ FormInv /\ Input(n, 1) = l /\ Input(n, 2) = r
                    BY DEF IsJoin, Ready, Input
                <5> QED
                    BY <5>1, CopiesOf
            <4> QED
                BY <3>1, <3>2, <4>1, <4>2, Zenon DEF JoinedRow
        <3> QED
            BY <3>4, <3>5, IsRowsHas
    <2> QED
        BY <2>1 DEF AreInputs
<1>6. IsOutput(n, Output(pops[n], In), In)
    BY <1>2, <1>3, <1>5, OutputIs
<1>7. \A o : o \in Output(pops[n], In) <=> \E i \in In : o = RowOf(n, i.id) /\ Passes(n, i.id)
    BY <1>6 DEF IsOutput
<1>8. \A a, b : JoinedRow(l, r, a, b).id = Together(a, b)
    BY DEF JoinedRow
<1>9. ASSUME NEW o PROVE o \in Output(pops[n], In) <=> \E a \in A : \E b \in B : Pairing(n, a.id, b.id) /\ o = RowOf(n, Together(a.id, b.id))
    <2>1. (\E i \in In : o = RowOf(n, i.id) /\ Passes(n, i.id)) =>
             \E a \in A : \E b \in B : Pairing(n, a.id, b.id) /\ o = RowOf(n, Together(a.id, b.id))
        BY <1>4, <1>8 DEF Pairing
    <2>2. (\E a \in A : \E b \in B : Pairing(n, a.id, b.id) /\ o = RowOf(n, Together(a.id, b.id))) =>
             \E i \in In : o = RowOf(n, i.id) /\ Passes(n, i.id)
        BY <1>4, <1>8 DEF Pairing
    <2> QED
        BY <1>7, <2>1, <2>2
<1> QED
    BY <1>1, <1>9 DEF IsJoined

LEMMA LegKeyVal ==
    ASSUME query \in Queries, NEW leg, NEW keys \in Seq(Exprs), keys # << >>,
           leg.partkeys \in Seq(ExprKeys), leg.partkeys # << >>, LegPlaced(leg, keys),
           NEW x, \A i \in DOMAIN query.preds : Holds(i, x)
    PROVE  Val(ExprOf(Last(leg.partkeys)), x) = Val(ExprOf(Last(keys)), x)
<1>1. CASE leg.lop = "Repartition"
    BY <1>1 DEF LegPlaced
<1>2. CASE leg.lop # "Repartition"
    <2>1. PICK n : n = Len(keys)
        OBVIOUS
    <2>2. Len(leg.partkeys) = n /\ \A i \in DOMAIN keys : CheckEq(ExprOf(keys[i]), ExprOf(leg.partkeys[i]))
        BY <1>2, <2>1 DEF LegPlaced, ComparePartKeys
    <2>3. n \in DOMAIN keys /\ Last(keys) = keys[n]
        BY <2>1, LastFacts
    <2>4. Last(leg.partkeys) = leg.partkeys[n]
        BY <2>2, LastFacts
    <2> QED
        BY <2>2, <2>3, <2>4, CheckEqVal
<1> QED
    BY <1>1, <1>2

LEMMA PairedVal ==
    ASSUME query \in Queries, NEW keys, KeysPaired(keys), NEW x, \A i \in DOMAIN query.preds : Holds(i, x),
           NEW k \in DOMAIN keys[1]
    PROVE  Val(ExprOf(keys[1][k]), x) = Val(ExprOf(keys[2][k]), x)
<1>1. PICK e, f : e = keys[1][k] /\ f = keys[2][k]
    OBVIOUS
<1>2. PICK i \in DOMAIN query.preds : {e, f} = {Lhs(i), Rhs(i)}
    BY <1>1 DEF KeysPaired
<1>3. Val(ExprOf(Lhs(i)), x) = Val(ExprOf(Rhs(i)), x)
    BY SideFacts DEF Holds
<1>4. (e = Lhs(i) /\ f = Rhs(i)) \/ (e = Rhs(i) /\ f = Lhs(i))
    BY <1>2
<1> QED
    BY <1>1, <1>3, <1>4

\* Rows that join are in one partition of both legs.
LEMMA LegsMeet ==
    ASSUME Ready, NEW n, NEW l, NEW r, IsJoin(n, l, r), NEW x \in JoinedRows
    PROVE  /\ Place(l, x) = Place(r, x)
           /\ KeysMeet(n, Restricted(x, lops[l].quns), Restricted(x, lops[r].quns))
<1>1. PICK keys, u, v, S, T : /\ keys = lops[n].join_keys /\ u = keys[1] /\ v = keys[2]
                              /\ S = lops[l].quns /\ T = lops[r].quns
    OBVIOUS
<1>2. /\ query \in Queries /\ KeysPaired(keys) /\ JoinLeg(n, l, u) /\ JoinLeg(n, r, v)
      /\ u \in Seq(Exprs) /\ v \in Seq(Exprs) /\ Len(u) = Len(v) /\ u # << >>
    BY <1>1 DEF IsJoin, JoinOk, KeysPaired
<1>3. v # << >>
    BY <1>2, EmptySeq
<1>4. IsRows(x, Quns) /\ \A i \in DOMAIN query.preds : Holds(i, x)
    BY JoinedFacts
<1>5. PICK m : m = Len(u)
    OBVIOUS
<1>6. m \in DOMAIN u /\ Last(u) = u[m] /\ Last(v) = v[m]
    BY <1>2, <1>3, <1>5, LastFacts
<1>7. Val(ExprOf(Last(u)), x) = Val(ExprOf(Last(v)), x)
    BY <1>1, <1>2, <1>4, <1>6, PairedVal
<1>8. Val(ExprOf(Last(lops[l].partkeys)), x) = Val(ExprOf(Last(u)), x)
    BY <1>2, <1>4, LegKeyVal DEF JoinLeg
<1>9. Val(ExprOf(Last(lops[r].partkeys)), x) = Val(ExprOf(Last(v)), x)
    BY <1>2, <1>3, <1>4, LegKeyVal DEF JoinLeg
<1>10. Place(l, x) = Place(r, x)
    BY <1>2, <1>7, <1>8, <1>9 DEF Place, JoinLeg
<1>11. PICK a, b : a = Restricted(x, S) /\ b = Restricted(x, T)
    OBVIOUS
<1>12. S \subseteq Quns /\ T \subseteq Quns
    BY <1>1, <1>2 DEF JoinLeg
<1>13. IsRows(a, S) /\ SameRows(a, x, S) /\ IsRows(b, T) /\ SameRows(b, x, T)
    BY <1>4, <1>11, <1>12, RestrictedFacts
<1>14. KeyColsOk(n, l, 1) /\ KeyColsOk(n, r, 2) /\ DOMAIN u = DOMAIN v
    BY <1>1, JoinKeyCols, JoinDomains
<1>15. ASSUME NEW i \in DOMAIN u PROVE Val(ExprOf(u[i]), a) = Val(ExprOf(v[i]), b)
    <2>1. Val(ExprOf(u[i]), x) = Val(ExprOf(v[i]), x)
        BY <1>1, <1>2, <1>4, PairedVal
    <2>2. IsExprOf(ExprOf(u[i]), S)
        BY <1>1, <1>2, <1>13, <1>14, KeyCompared DEF JoinLeg
    <2>3. i \in DOMAIN v
        BY <1>14
    <2>4. IsExprOf(ExprOf(v[i]), T)
        BY <1>1, <1>2, <1>13, <1>14, <2>3, KeyCompared DEF JoinLeg
    <2>5. Val(ExprOf(u[i]), a) = Val(ExprOf(u[i]), x)
        BY <1>13, <2>2, ValSame
    <2>6. Val(ExprOf(v[i]), b) = Val(ExprOf(v[i]), x)
        BY <1>13, <2>4, ValSame
    <2> QED
        BY <2>1, <2>5, <2>6
<1>16. KeysMeet(n, a, b)
    BY <1>1, <1>15 DEF KeysMeet
<1> QED
    BY <1>1, <1>10, <1>11, <1>16

\* What a join applies, and its legs have, is all there is to satisfy.
LEMMA JoinSatisfies ==
    ASSUME Ready, NEW n, NEW l, NEW r, IsJoin(n, l, r), lops[n].lop = "HashJoin",
           NEW a, IsRows(a, lops[l].quns), NEW b, IsRows(b, lops[r].quns), NEW x, x = Together(a, b),
           KeysMeet(n, a, b), Passes(n, x), Satisfies(l, a), Satisfies(r, b)
    PROVE  Satisfies(n, x)
<1>1. PICK S, T : S = lops[l].quns /\ T = lops[r].quns
    OBVIOUS
<1>2. /\ query \in Queries /\ JoinOk(lops[l], lops[r], lops[n]) /\ lops[n].quns = S \union T
      /\ S \in SUBSET Quns /\ T \in SUBSET Quns
    BY <1>1 DEF IsJoin, JoinOk, JoinLeg
<1>3. IsRows(x, S \union T) /\ SameRows(a, x, S) /\ SameRows(b, x, T)
    <2>1. S \intersect T = {}
        BY <1>1, <1>2 DEF JoinOk
    <2> QED
        BY <1>1, <2>1, MergedFacts
<1>4. ASSUME NEW i \in DOMAIN query.preds, i \in lops[n].preds \/ JoinsOn(lops[n], i)
      PROVE  Holds(i, x)
    <2>2. CASE i \in lops[n].preds
        BY <2>2 DEF Passes
    <2>3. CASE JoinsOn(lops[n], i)
        <3>1. PICK keys, u, v : keys = lops[n].join_keys /\ u = keys[1] /\ v = keys[2]
            OBVIOUS
        <3>2. PICK k \in DOMAIN u : {u[k], v[k]} = {Lhs(i), Rhs(i)}
            BY <2>3, <3>1 DEF JoinsOn
        <3>3. KeyColsOk(n, l, 1) /\ KeyColsOk(n, r, 2) /\ DOMAIN u = DOMAIN v
            BY <3>1, JoinKeyCols, JoinDomains
        <3>4. IsExprOf(ExprOf(u[k]), S)
            BY <1>1, <1>2, <3>1, <3>3, KeyCompared DEF JoinLeg, IsJoin
        <3>5. k \in DOMAIN v
            BY <3>3
        <3>6. IsExprOf(ExprOf(v[k]), T)
            BY <1>1, <1>2, <3>1, <3>3, <3>5, KeyCompared DEF JoinLeg, IsJoin
        <3>7. Val(ExprOf(u[k]), a) = Val(ExprOf(v[k]), b)
            BY <3>1 DEF KeysMeet
        <3>8. Val(ExprOf(u[k]), a) = Val(ExprOf(u[k]), x)
            BY <1>3, <3>4, ValSame
        <3>9. Val(ExprOf(v[k]), b) = Val(ExprOf(v[k]), x)
            BY <1>3, <3>6, ValSame
        <3>10. Val(ExprOf(Lhs(i)), x) = Val(ExprOf(Rhs(i)), x)
            <4>1. PICK e, f : e = u[k] /\ f = v[k]
                OBVIOUS
            <4>2. Val(ExprOf(e), x) = Val(ExprOf(f), x)
                BY <3>7, <3>8, <3>9, <4>1
            <4>3. (e = Lhs(i) /\ f = Rhs(i)) \/ (e = Rhs(i) /\ f = Lhs(i))
                BY <3>2, <4>1
            <4> QED
                BY <4>2, <4>3
        <3> QED
            BY <3>10, SideFacts DEF Holds
    <2> QED
        BY <1>4, <2>2, <2>3
<1>5. ASSUME NEW i \in DOMAIN query.preds, PredQuns(i) # {}, PredQuns(i) \subseteq S \union T
      PROVE  Holds(i, x)
    <2>1. CASE PredQuns(i) \subseteq S
        <3>1. Holds(i, a)
            BY <1>1, <1>5, <2>1 DEF Satisfies
        <3>2. IsExprOf(Pred(i).lhs, S) /\ IsExprOf(Pred(i).rhs, S)
            BY <1>2, <2>1, PredExprs
        <3> QED
            BY <1>3, <3>1, <3>2, HoldsSame
    <2>2. CASE PredQuns(i) \subseteq T
        <3>1. Holds(i, b)
            BY <1>1, <1>5, <2>2 DEF Satisfies
        <3>2. IsExprOf(Pred(i).lhs, T) /\ IsExprOf(Pred(i).rhs, T)
            BY <1>2, <2>2, PredExprs
        <3> QED
            BY <1>3, <3>1, <3>2, HoldsSame
    <2>3. CASE ~(PredQuns(i) \subseteq S) /\ ~(PredQuns(i) \subseteq T)
        <3>1. i \in lops[n].preds \/ JoinsOn(lops[n], i)
            BY <1>1, <1>2, <1>5, <2>3 DEF JoinOk
        <3> QED
            BY <1>4, <3>1
    <2> QED
        BY <2>1, <2>2, <2>3
<1>6. \A i : Applies(lops[n], i) => i \in lops[n].preds \/ JoinsOn(lops[n], i)
    BY DEF Applies
<1> QED
    BY <1>2, <1>4, <1>5, <1>6 DEF Satisfies

LEMMA JoinRight ==
    ASSUME Ready, NEW n, DataLop(n), lops[n].lop = "HashJoin", NEW l, NEW r, IsJoin(n, l, r), Right(l), Right(r)
    PROVE  Right(n)
<1>1. PICK f, g, h, S, T, d : /\ f = Rows[n] /\ g = Rows[l] /\ h = Rows[r]
                              /\ S = lops[l].quns /\ T = lops[r].quns /\ d = query.degree
    OBVIOUS
<1>2. /\ n \in DOMAIN lops /\ query \in Queries /\ lops[n].quns = S \union T /\ S \intersect T = {}
      /\ lops[n].npartitions = d /\ lops[n].partkeys = lops[l].partkeys
      /\ lops[n].children[1] = l /\ lops[n].children[2] = r
      /\ TasksOf(lops[l]) = d /\ TasksOf(lops[r]) = d /\ lops[l].lop # "TableScan"
      /\ S \subseteq Quns /\ T \subseteq Quns /\ DataLop(l) /\ DataLop(r)
    BY <1>1 DEF IsJoin, JoinOk, JoinLeg
<1>3. DOMAIN g = 0 .. d - 1 /\ DOMAIN h = 0 .. d - 1
    BY <1>1, <1>2 DEF Right
<1>4. f = JoinReturns(n, g, h)
    BY <1>1, <1>2, RowsOf DEF Input, Ready
<1>5. DOMAIN f = 0 .. d - 1 /\ \A p \in 0 .. d - 1 : f[p] = Output(pops[n], HashMatchRows(pops[n], g[p], h[p]))
    BY <1>2, <1>3, <1>4 DEF JoinReturns, PartOf
<1>6. /\ \A p \in 0 .. d - 1 : \A a \in g[p] : IsRight(l, p, a)
      /\ \A p \in 0 .. d - 1 : \A b \in h[p] : IsRight(r, p, b)
    BY <1>1, <1>3 DEF Right, Sound
<1>7. \A p \in 0 .. d - 1 : AreRowsOf(l, g[p]) /\ AreRowsOf(r, h[p])
    BY <1>6 DEF IsRight, AreRowsOf
<1>8. \A p \in 0 .. d - 1 : \A o :
          o \in f[p] <=> \E a \in g[p] : \E b \in h[p] : Pairing(n, a.id, b.id) /\ o = RowOf(n, Together(a.id, b.id))
    <2> SUFFICES ASSUME NEW p \in 0 .. d - 1
                 PROVE  \A o : o \in f[p] <=> \E a \in g[p] : \E b \in h[p] :
                                   Pairing(n, a.id, b.id) /\ o = RowOf(n, Together(a.id, b.id))
        OBVIOUS
    <2>1. IsJoined(n, f[p], g[p], h[p])
        BY <1>5, <1>7, JoinOutput
    <2> QED
        BY <2>1 DEF IsJoined
<1>9. \A x : Place(n, x) = Place(l, x)
    BY <1>2 DEF Place
<1>10. \A m, x : RowOf(m, x).id = x
    BY DEF RowOf
<1>11. ASSUME NEW p \in 0 .. d - 1, NEW o \in f[p] PROVE IsRight(n, p, o)
    <2>1. PICK a \in g[p], b \in h[p] : Pairing(n, a.id, b.id) /\ o = RowOf(n, Together(a.id, b.id))
        BY <1>8, <1>11
    <2>2. PICK y, z, x : y = a.id /\ z = b.id /\ x = Together(y, z)
        OBVIOUS
    <2>3. IsRows(y, S) /\ Satisfies(l, y) /\ Place(l, y) = p /\ IsRows(z, T) /\ Satisfies(r, z)
        BY <1>1, <1>6, <2>2 DEF IsRight
    <2>4. IsRows(x, S \union T) /\ SameRows(y, x, S)
        BY <1>2, <2>2, <2>3, MergedFacts
    <2>5. Place(n, x) = p
        BY <1>1, <1>2, <1>9, <2>3, <2>4, PlaceSame
    <2>6. Satisfies(n, x)
        BY <1>1, <2>1, <2>2, <2>3, JoinSatisfies DEF Pairing
    <2>7. o.id = x /\ o = RowOf(n, x)
        BY <1>10, <2>1, <2>2
    <2> QED
        BY <1>2, <2>4, <2>5, <2>6, <2>7 DEF IsRight
<1>12. Sound(n)
    BY <1>1, <1>5, <1>11 DEF Sound
<1>13. ASSUME NEW x \in JoinedRows PROVE Has(n, x)
    <2>1. PICK y, z, w : y = Restricted(x, S) /\ z = Restricted(x, T) /\ w = Restricted(x, S \union T)
        OBVIOUS
    <2>2. IsRows(x, Quns) /\ \A i \in DOMAIN query.preds : Holds(i, x)
        BY JoinedFacts
    <2>3. PICK p : p = Place(l, x)
        OBVIOUS
    <2>4. Place(r, x) = p /\ KeysMeet(n, y, z)
        BY <1>1, <2>1, <2>3, LegsMeet
    <2>5. Has(l, x) /\ Has(r, x)
        BY DEF Right, Complete
    <2>6. p \in 0 .. d - 1 /\ RowOf(l, y) \in g[p] /\ RowOf(r, z) \in h[p]
        BY <1>1, <1>3, <2>1, <2>3, <2>4, <2>5 DEF Has
    <2>7. Together(y, z) = w
        BY <2>1, MergedBack
    <2>8. SameRows(x, w, S \union T) /\ S \union T \subseteq Quns
        BY <1>2, <2>1, <2>2, RestrictedFacts
    <2>9. Passes(n, w)
        <3>1. ASSUME NEW i \in lops[n].preds PROVE Holds(i, w)
            <4>1. RefersTo(n, S \union T) /\ Served(lops, lops[n])
                BY <1>2 DEF IsJoin, Scoped, Ready, FlowInv, AllServed
            <4>2. IsExprOf(Pred(i).lhs, S \union T) /\ IsExprOf(Pred(i).rhs, S \union T) /\ i \in DOMAIN query.preds
                BY <4>1 DEF RefersTo, Served
            <4> QED
                BY <2>2, <2>8, <4>2, HoldsSame
        <3> QED
            BY <3>1 DEF Passes
    <2>10. RowOf(n, w) \in f[p]
        <3>1. Pairing(n, RowOf(l, y).id, RowOf(r, z).id) /\ Together(RowOf(l, y).id, RowOf(r, z).id) = w
            BY <1>10, <2>4, <2>7, <2>9 DEF Pairing
        <3> QED
            BY <1>8, <2>6, <3>1
    <2> QED
        BY <1>1, <1>2, <1>5, <1>9, <2>1, <2>3, <2>6, <2>10 DEF Has
<1>14. Complete(n)
    BY <1>13 DEF Complete
<1>15. DOMAIN f = 0 .. TasksOf(lops[n]) - 1
    BY <1>2, <1>5 DEF TasksOf
<1> QED
    BY <1>1, <1>12, <1>14, <1>15 DEF Right

\* Below the aggregations, every LOP returns the rows of its tables that satisfy the predicates
\* about them, each in the partition its keys say, as far as they are part of the answer.
LEMMA AllRight == Ready => \A n : DataLop(n) => Right(n)
<1> SUFFICES ASSUME Ready PROVE \A n : DataLop(n) => Right(n)
    OBVIOUS
<1>1. PICK T : T = {n \in DOMAIN lops : Right(n)}
    OBVIOUS
<1>2. ASSUME NEW n, DataLop(n), \A k \in DOMAIN lops[n].children : lops[n].children[k] \in T
      PROVE  n \in T
    <2>1. /\ n \in DOMAIN lops /\ lops[n] \in LOPs
          /\ DOMAIN lops[n].children = 1 .. Arity(lops[n].lop)
        BY <1>2, DataFacts
    <2>2. CASE lops[n].lop = "TableScan"
        BY <1>1, <1>2, <2>1, <2>2, ScanRight
    <2>3. CASE lops[n].lop = "Repartition"
        <3>1. PICK c : IsWrite(n, c)
            BY <1>2, <2>3, WriteFacts
        <3>2. Right(c)
            BY <1>1, <1>2, <2>1, <2>3, <3>1 DEF IsWrite, Arity
        <3> QED
            BY <1>1, <1>2, <2>1, <2>3, <3>1, <3>2, WriteRight
    <2>4. CASE lops[n].lop = "HashJoin"
        <3>1. PICK l, r : IsJoin(n, l, r)
            BY <1>2, <2>4, JoinFacts
        <3>2. Right(l) /\ Right(r)
            BY <1>1, <1>2, <2>1, <2>4, <3>1 DEF IsJoin, Arity
        <3> QED
            BY <1>1, <1>2, <2>1, <2>4, <3>1, <3>2, JoinRight
    <2>5. lops[n].lop # "Aggregation"
        BY <1>2 DEF DataLop, IsData
    <2> QED
        BY <2>1, <2>2, <2>3, <2>4, <2>5 DEF LOPs
<1>3. \A n : DataLop(n) => n \in T
    BY <1>2, DataInd
<1> QED
    BY <1>1, <1>3

-----------------------------------------------------------------------------
(* The last LOP of the joins, and the answer. *)

\* A predicate of constants holds of all rows or of none.
LEMMA ConstantHolds ==
    ASSUME query \in Queries, NEW i \in DOMAIN query.preds, PredQuns(i) = {}, NEW x, NEW y, Holds(i, x)
    PROVE  Holds(i, y)
<1>1. IsExprOf(Pred(i).lhs, {}) /\ IsExprOf(Pred(i).rhs, {})
    BY PredExprs
<1>2. SameRows(x, y, {})
    BY DEF SameRows
<1> QED
    BY <1>1, <1>2, HoldsSame

ConstantsHold == \A i \in DOMAIN query.preds : PredQuns(i) = {} => \A x : Holds(i, x)

LEMMA RootRow ==
    ASSUME query \in Queries, NEW n, JoinRoot(lops[n]), NEW x
    PROVE  RowOf(n, x) = [id |-> x, vals |-> Selected(x), times |-> Copies[n]]
<1>1. PICK m : m = Len(query.select)
    OBVIOUS
<1>2. m \in Nat /\ DOMAIN query.select = 1 .. m
    BY <1>1, QueryFacts
<1>3. PICK v : v = [i \in 1 .. m |-> Val(query.select[i], x)]
    OBVIOUS
<1>4. v \in Seq({v[i] : i \in 1 .. m}) /\ Selected(x) = v
    BY <1>2, <1>3 DEF Selected
<1>5. DOMAIN SelectList = 1 .. m /\ \A i \in 1 .. m : ExprOf(SelectList[i]) = query.select[i]
    BY <1>2 DEF SelectList, ExprOf
<1>6. [i \in DOMAIN SelectList |-> Val(ExprOf(SelectList[i]), x)] = v
    BY <1>3, <1>5
<1>7. PICK none : none = [i \in 1 .. Cardinality({}) |-> CellOf(InOrder({})[i], x)]
    OBVIOUS
<1>8. none = << >>
    <2>1. Cardinality({}) = 0
        BY FS_EmptySet
    <2>2. DOMAIN none = {}
        BY <1>7, <2>1
    <2>3. none = [i \in {} |-> CellOf(InOrder({})[i], x)]
        BY <1>7, <2>1
    <2> QED
        BY <2>3
<1>9. none \o v = v
    BY <1>4, <1>8, NoKeys
<1>10. Chunk({}, SelectList, x) = v
    BY <1>6, <1>7, <1>9 DEF Chunk
<1> QED
    BY <1>4, <1>10 DEF RowOf, JoinRoot

\* There is a number of times that the answer has its rows.
Counted == Copies[worklist[1]] \in Int

\* The rows of the answer, each in its partition.
IsSplit(n) ==
    /\ Counted
    /\ \A r \in Answer : Place(n, r.id) \in DOMAIN Rows[n]
    /\ \A p \in DOMAIN Rows[n] : \A r : r \in Rows[n][p] <=> r \in Answer /\ Place(n, r.id) = p

LEMMA RootSplit ==
    ASSUME Ready, ConstantsHold, NEW n, DataLop(n), JoinRoot(lops[n]), Copies[n] = Copies[worklist[1]]
    PROVE  IsSplit(n) /\ DOMAIN Rows[n] = 0 .. lops[n].npartitions - 1
<1>1. Right(n) /\ query \in Queries
    BY AllRight, DataFacts
<1>2. lops[n].quns = Quns /\ lops[n].lop # "Repartition"
    BY DEF JoinRoot
<1>3. \A x : RowOf(n, x) = [id |-> x, vals |-> Selected(x), times |-> Copies[worklist[1]]]
    BY <1>1, RootRow
<1>4. \A r : r \in Answer <=> \E x \in JoinedRows : r = [id |-> x, vals |-> Selected(x), times |-> Copies[worklist[1]]]
    BY DEF Answer
<1>5. ASSUME NEW r \in Answer PROVE r.id \in JoinedRows /\ r = RowOf(n, r.id)
    BY <1>3, <1>4
<1>6. ASSUME NEW r \in Answer PROVE Place(n, r.id) \in DOMAIN Rows[n] /\ r \in Rows[n][Place(n, r.id)]
    <2>1. PICK x : x = r.id
        OBVIOUS
    <2>2. x \in JoinedRows /\ r = RowOf(n, x)
        BY <1>5, <2>1
    <2>3. Has(n, x)
        BY <1>1, <2>2 DEF Right, Complete
    <2>4. Restricted(x, Quns) = x
        BY <2>2, JoinedFacts DEF IsRows
    <2> QED
        BY <1>2, <2>1, <2>2, <2>3, <2>4 DEF Has
<1>7. ASSUME NEW p \in DOMAIN Rows[n], NEW r \in Rows[n][p] PROVE r \in Answer /\ Place(n, r.id) = p
    <2>1. PICK x : x = r.id
        OBVIOUS
    <2>2. IsRows(x, Quns) /\ r = RowOf(n, x) /\ Place(n, x) = p /\ Satisfies(n, x)
        BY <1>1, <1>2, <1>7, <2>1 DEF Right, Sound, IsRight
    <2>3. ASSUME NEW i \in DOMAIN query.preds PROVE Holds(i, x)
        <3>1. CASE PredQuns(i) = {}
            BY <3>1 DEF ConstantsHold
        <3>2. CASE PredQuns(i) # {}
            <4>1. PredQuns(i) \subseteq Quns
                <5>1. \A c \in PredCols(i) : c \in Quns \X Nat
                    BY <1>1, ColumnFacts
                <5> QED
                    BY <5>1 DEF PredQuns
            <4> QED
                BY <1>2, <2>2, <3>2, <4>1 DEF Satisfies
        <3> QED
            BY <3>1, <3>2
    <2>4. x \in JoinedRows
        BY <2>2, <2>3, JoinedAre
    <2> QED
        BY <1>3, <1>4, <2>1, <2>2, <2>4
<1>8. IsSplit(n)
    <2>1. Counted
        BY CopiesInt DEF Counted
    <2> QED
        BY <1>6, <1>7, <2>1 DEF IsSplit
<1>9. DOMAIN Rows[n] = 0 .. lops[n].npartitions - 1
    BY <1>1, <1>2 DEF Right, TasksOf
<1> QED
    BY <1>8, <1>9

-----------------------------------------------------------------------------
(* A predicate of constants that does not hold. *)

IsEmpty(n) == \A p \in DOMAIN Rows[n] : Rows[n][p] = {}

LEMMA NothingOf ==
    ASSUME NEW pop, NEW n, NEW p
    PROVE  /\ Output(pop, {}) = {}
           /\ \A A, B : A = {} \/ B = {} => HashMatchRows(pop, A, B) = {}
           /\ HashAggRows(lops[n], {}, p) = {}
<1>1. Output(pop, {}) = {}
    BY DEF Output, Filtered
<1>2. ASSUME NEW A, NEW B, A = {} \/ B = {} PROVE HashMatchRows(pop, A, B) = {}
    BY <1>2 DEF HashMatchRows
<1>3. KeysOf({}) = {}
    BY DEF KeysOf
<1>4. HashAggRows(lops[n], {}, p) = {}
    BY <1>3 DEF HashAggRows
<1> QED
    BY <1>1, <1>2, <1>4

LEMMA PartEmpty ==
    ASSUME NEW c, IsEmpty(c)
    PROVE  \A p : PartOf(Rows[c], p) = {}
BY DEF IsEmpty, PartOf

\* A LOP returns nothing when an input does.
LEMMA EmptyAbove ==
    ASSUME FormInv, NEW n \in DOMAIN lops, NEW k \in DOMAIN lops[n].children, NEW c, c = lops[n].children[k], IsEmpty(c)
    PROVE  IsEmpty(n)
<1>1. /\ lops[n] \in LOPs /\ lops[n].children \in Seq(Nat) /\ Len(lops[n].children) = Arity(lops[n].lop)
    <2>1. lops[n] \in LOPs
        BY ElementOfSeq DEF FormInv, TypeInv
    <2>2. Len(lops[n].children) = Arity(lops[n].lop)
        BY DEF FormInv, Shape
    <2> QED
        BY <2>1, <2>2 DEF LOPs
<1>2. DOMAIN lops[n].children = 1 .. Arity(lops[n].lop)
    BY <1>1, LenProperties
<1>3. \A p : PartOf(Rows[c], p) = {}
    BY PartEmpty
<1>4. CASE lops[n].lop = "HashJoin"
    <2>1. k = 1 \/ k = 2
        BY <1>2, <1>4 DEF Arity
    <2>2. Rows[n] = JoinReturns(n, Rows[Input(n, 1)], Rows[Input(n, 2)])
        BY <1>4, RowsOf
    <2>3. \A p : HashMatchRows(pops[n], PartOf(Rows[Input(n, 1)], p), PartOf(Rows[Input(n, 2)], p)) = {}
        BY <1>3, <2>1, NothingOf, SMTT(30) DEF Input
    <2>4. Output(pops[n], {}) = {}
        BY NothingOf
    <2> QED
        BY <2>2, <2>3, <2>4 DEF JoinReturns, IsEmpty
<1>5. CASE lops[n].lop = "Repartition"
    <2>1. k = 1
        BY <1>2, <1>5 DEF Arity
    <2>2. Rows[n] = WriteReturns(n, Rows[c])
        BY <1>5, <2>1, RowsOf DEF Input
    <2>3. Output(pops[n], {}) = {}
        BY NothingOf
    <2>4. Written(pops[n], Rows[c]) = {}
        BY <1>3, <2>3 DEF Written
    <2> QED
        BY <2>2, <2>4 DEF WriteReturns, IsEmpty
<1>6. CASE lops[n].lop = "Aggregation"
    <2>1. k = 1
        BY <1>2, <1>6 DEF Arity
    <2>2. Rows[n] = AggReturns(n, Rows[c])
        BY <1>6, <2>1, RowsOf DEF Input
    <2>3. ASSUME NEW p PROVE Output(pops[n], HashAggRows(lops[n], PartOf(Rows[c], p), p)) = {}
        <3>1. PartOf(Rows[c], p) = {}
            BY <1>3
        <3>2. HashAggRows(lops[n], {}, p) = {} /\ Output(pops[n], {}) = {}
            BY NothingOf
        <3> QED
            BY <3>1, <3>2
    <2>4. \A p \in DOMAIN Rows[n] : Rows[n][p] = Output(pops[n], HashAggRows(lops[n], PartOf(Rows[c], p), p))
        BY <2>2 DEF AggReturns
    <2> QED
        BY <2>3, <2>4 DEF IsEmpty
<1>7. lops[n].lop # "TableScan"
    BY <1>2 DEF Arity
<1> QED
    BY <1>1, <1>4, <1>5, <1>6, <1>7 DEF LOPs

LEMMA EmptyRoot ==
    ASSUME FormInv, Covered, Len(worklist) = 1, NEW n \in DOMAIN lops, IsEmpty(n)
    PROVE  IsEmpty(worklist[1])
<1>1. PICK N \in Nat : N = Len(lops) /\ DOMAIN lops = 1 .. N
    BY LenProperties DEF FormInv, TypeInv
<1>2. PICK S : S = {m \in DOMAIN lops : IsEmpty(m)}
    OBVIOUS
<1>3. PICK m : m = Max(S)
    OBVIOUS
<1>4. m \in S /\ \A i \in S : i <= m
    BY <1>1, <1>2, <1>3, MaxFacts
<1>5. m \in ToSet(worklist)
    <2>1. SUFFICES ASSUME m \notin ToSet(worklist) PROVE FALSE
        OBVIOUS
    <2>2. PICK u \in DOMAIN lops : \E k \in DOMAIN lops[u].children : lops[u].children[k] = m
        BY <1>2, <1>4, <2>1 DEF Covered
    <2>3. PICK k \in DOMAIN lops[u].children : lops[u].children[k] = m
        BY <2>2
    <2>4. IsEmpty(u)
        BY <1>2, <1>4, <2>3, EmptyAbove
    <2>5. m \in 1 .. u - 1
        BY <2>3 DEF FormInv, Forest
    <2> QED
        BY <1>1, <1>2, <1>4, <2>4, <2>5
<1>6. m = worklist[1]
    <2>1. worklist \in Seq(Nat)
        BY DEF FormInv, TypeInv
    <2>2. DOMAIN worklist = {1}
        BY <2>1, LenProperties
    <2> QED
        BY <1>5, <2>2 DEF ToSet
<1> QED
    BY <1>2, <1>4, <1>6

\* A query that ConstantsAreApplied is about: a predicate of constants is applied by a join.
ConstantsAreApplied == Len(query.parts) = 1 => \A i \in DOMAIN query.preds : PredQuns(i) # {}

LEMMA ConstantFails ==
    ASSUME Ready, ConstantsAreApplied, ~ConstantsHold
    PROVE  IsEmpty(worklist[1]) /\ JoinedRows = {}
<1>1. query \in Queries /\ Len(worklist) = 1
    BY DEF Ready, FormInv, TypeInv, Shape
<1>2. PICK i \in DOMAIN query.preds : PredQuns(i) = {} /\ \E x : ~Holds(i, x)
    BY DEF ConstantsHold
<1>3. \A x : ~Holds(i, x)
    BY <1>1, <1>2, ConstantHolds
<1>4. JoinedRows = {}
    BY <1>2, <1>3, JoinedFacts
<1>5. Len(query.parts) # 1
    BY <1>2 DEF ConstantsAreApplied
<1>6. i \notin pred_map
    BY <1>1, <1>2, <1>5 DEF Ready, PredInv, OnlyConstantsLeft
<1>7. PICK n \in DOMAIN lops : Applies(lops[n], i)
    BY <1>2, <1>6 DEF Ready, PredInv, AppliedOnce
<1>8. NodeOk(lops, lops[n])
    BY DEF Ready, TreeInv, NodesOk
<1>9. lops[n].lop # "Repartition" /\ lops[n].lop # "Aggregation"
    BY <1>7, <1>8 DEF Applies, JoinsOn, NodeOk, RepartitionOk
<1>10. DataLop(n)
    BY <1>9 DEF DataLop, IsData
<1>11. Right(n)
    BY <1>10, AllRight
<1>12. ASSUME NEW p \in DOMAIN Rows[n], NEW r \in Rows[n][p] PROVE FALSE
    <2>1. Satisfies(n, r.id)
        BY <1>11, <1>12 DEF Right, Sound, IsRight
    <2> QED
        BY <1>2, <1>3, <1>7, <2>1 DEF Satisfies
<1>13. IsEmpty(n)
    BY <1>12 DEF IsEmpty
<1>14. IsEmpty(worklist[1])
    BY <1>1, <1>13, EmptyRoot DEF Ready, TreeInv
<1> QED
    BY <1>4, <1>14

-----------------------------------------------------------------------------
(* There are finitely many rows. *)

LEMMA FunctionsFinite ==
    ASSUME NEW A, IsFiniteSet(A), NEW B, IsFiniteSet(B)
    PROVE  IsFiniteSet([A -> B])
<1>1. PICK T : T = {s \in SUBSET A : IsFiniteSet([s -> B])}
    OBVIOUS
<1>2. {} \in T
    <2>1. PICK e : e = [z \in {} |-> z]
        OBVIOUS
    <2>2. \A f \in [{} -> B] : f = e
        BY <2>1
    <2>3. [{} -> B] \subseteq {e}
        BY <2>2
    <2>4. IsFiniteSet([{} -> B])
        BY <2>3, FS_Singleton, FS_Subset
    <2> QED
        BY <1>1, <2>4
<1>3. ASSUME NEW s \in SUBSET A, NEW x \in A \ s, s \in T PROVE s \union {x} \in T
    <2>1. PICK F, G : F = [s -> B] /\ G = [s \union {x} -> B]
        OBVIOUS
    <2>2. IsFiniteSet(F \X B)
        BY <1>1, <1>3, <2>1, FS_Product
    <2>3. PICK h : h = [p \in F \X B |-> [z \in s \union {x} |-> IF z = x THEN p[2] ELSE p[1][z]]]
        OBVIOUS
    <2>4. IsFiniteSet({h[p] : p \in F \X B})
        BY <2>2, ImageFinite
    <2>5. ASSUME NEW g \in G PROVE g \in {h[p] : p \in F \X B}
        <3>1. PICK f, p : f = [z \in s |-> g[z]] /\ p = <<f, g[x]>>
            OBVIOUS
        <3>2. f \in F /\ g[x] \in B
            BY <2>1, <2>5, <3>1
        <3>3. p \in F \X B /\ p[1] = f /\ p[2] = g[x]
            BY <3>1, <3>2
        <3>4. h[p] = [z \in s \union {x} |-> IF z = x THEN g[x] ELSE f[z]]
            BY <2>3, <3>3
        <3>5. \A z \in s : f[z] = g[z]
            BY <3>1
        <3>6. [z \in s \union {x} |-> IF z = x THEN g[x] ELSE f[z]] = g
            BY <2>1, <2>5, <3>5
        <3> QED
            BY <3>3, <3>4, <3>6
    <2>6. IsFiniteSet(G)
        BY <2>4, <2>5, FS_Subset
    <2> QED
        BY <1>1, <1>3, <2>1, <2>6
<1>4. A \in T
    BY <1>2, <1>3, FinInd
<1> QED
    BY <1>1, <1>4

LEMMA TableFinite ==
    ASSUME query \in Queries, NEW q \in Quns
    PROVE  IsFiniteSet(TableRows(q))
<1>1. PICK n : n = query.parts[q]
    OBVIOUS
<1>2. n \in Nat /\ Width \in Nat
    BY <1>1, QueryFacts, ColumnsAssumption
<1>3. PICK P, D : P = 0 .. n - 1 /\ D = 0 .. Width - 1
    OBVIOUS
<1>4. IsFiniteSet(P) /\ IsFiniteSet(D)
    <2>1. PICK m \in Int : m = n - 1
        BY <1>2
    <2>2. PICK w \in Int : w = Width - 1
        BY <1>2
    <2> QED
        BY <1>3, <2>1, <2>2, FS_Interval
<1>5. IsFiniteSet({0, 1})
    <2>1. IsFiniteSet({0} \union {1})
        BY FS_Singleton, FS_Union
    <2>2. {0, 1} = {0} \union {1}
        OBVIOUS
    <2> QED
        BY <2>1, <2>2
<1>6. PICK V : V = [D -> {0, 1}]
    OBVIOUS
<1>7. IsFiniteSet(P \X V)
    BY <1>4, <1>5, <1>6, FunctionsFinite, FS_Product
<1>8. PICK h : h = [x \in P \X V |-> [part |-> x[1], val |-> x[2]]]
    OBVIOUS
<1>9. IsFiniteSet({h[x] : x \in P \X V})
    BY <1>7, ImageFinite
<1>10. TableRows(q) \subseteq {h[x] : x \in P \X V}
    <2>1. ASSUME NEW t \in TableRows(q) PROVE t \in {h[x] : x \in P \X V}
        <3>1. PICK p \in P, v \in V : t = [part |-> p, val |-> v]
            BY <1>1, <1>3, <1>6, <2>1 DEF TableRows
        <3>2. <<p, v>> \in P \X V /\ h[<<p, v>>] = t
            BY <1>8, <3>1
        <3> QED
            BY <3>2
    <2> QED
        BY <2>1
<1> QED
    BY <1>9, <1>10, FS_Subset

LEMMA AnswerFinite ==
    ASSUME query \in Queries
    PROVE  IsFiniteSet(Answer)
<1>1. PICK n, F : n = Len(query.parts) /\ F = {TableRows(q) : q \in Quns}
    OBVIOUS
<1>2. n \in Nat /\ Quns = 1 .. n
    BY <1>1, QueryFacts DEF Quns
<1>3. IsFiniteSet(Quns)
    BY <1>2, FS_Interval
<1>4. IsFiniteSet(F)
    <2>1. PICK h : h = [q \in Quns |-> TableRows(q)]
        OBVIOUS
    <2>2. IsFiniteSet({h[q] : q \in Quns})
        BY <1>3, ImageFinite
    <2>3. F = {h[q] : q \in Quns}
        BY <1>1, <2>1
    <2> QED
        BY <2>2, <2>3
<1>5. \A t \in F : IsFiniteSet(t)
    BY <1>1, TableFinite
<1>6. IsFiniteSet(UNION F)
    BY <1>4, <1>5, FS_UNION
<1>7. IsFiniteSet([Quns -> UNION F])
    BY <1>3, <1>6, FunctionsFinite
<1>8. JoinedRows \subseteq [Quns -> UNION F]
    BY <1>1 DEF JoinedRows
<1>9. IsFiniteSet(JoinedRows)
    BY <1>7, <1>8, FS_Subset
<1>10. PICK h : h = [r \in JoinedRows |-> [id |-> r, vals |-> Selected(r), times |-> Copies[worklist[1]]]]
    OBVIOUS
<1>11. IsFiniteSet({h[r] : r \in JoinedRows})
    BY <1>9, ImageFinite
<1>12. Answer = {h[r] : r \in JoinedRows}
    BY <1>10 DEF Answer
<1> QED
    BY <1>11, <1>12

-----------------------------------------------------------------------------
(* The result, without an aggregation. *)

Tagged(n) == UNION {{<<p, r>> : r \in Rows[n][p]} : p \in DOMAIN Rows[n]}
ResultOf(n) == IF query.key_len = 0 THEN {x[2] : x \in Tagged(n)} ELSE {x[2].vals : x \in Tagged(n)}
Expected == IF query.key_len = 0 THEN Answer ELSE Groups
RightResult(n) == ResultOf(n) = Expected /\ Cardinality(Tagged(n)) = Cardinality(ResultOf(n))

LEMMA ResultDef ==
    ASSUME RightResult(worklist[1])
    PROVE  ResultIsRight
<1> DEFINE results == Results
           rows == UNION {{<<p, r>> : r \in results[p]} : p \in DOMAIN results}
           answer == IF query.key_len = 0 THEN {x[2] : x \in rows} ELSE {x[2].vals : x \in rows}
<1>1. rows = Tagged(worklist[1])
    BY DEF Results, Tagged
<1> HIDE DEF rows
<1>2. answer = ResultOf(worklist[1])
    BY <1>1 DEF ResultOf
<1>3. answer = Expected /\ Cardinality(rows) = Cardinality(answer)
    BY <1>1, <1>2 DEF RightResult
<1> USE DEF rows
<1> QED
    BY <1>3 DEF ResultIsRight, Expected

LEMMA TaggedIs ==
    ASSUME NEW n
    PROVE  \A x : x \in Tagged(n) <=> \E p \in DOMAIN Rows[n] : \E r \in Rows[n][p] : x = <<p, r>>
BY DEF Tagged

LEMMA NothingGrouped ==
    ASSUME JoinedRows = {}
    PROVE  Answer = {} /\ Groups = {}
<1>1. Answer = {}
    BY DEF Answer
<1>2. KeysOf({}) = {}
    BY DEF KeysOf
<1>3. KeysOf(Answer) = {}
    BY <1>1, <1>2
<1> QED
    BY <1>1, <1>3 DEF Groups

LEMMA EmptyResult ==
    ASSUME NEW n, IsEmpty(n), JoinedRows = {}
    PROVE  RightResult(n)
<1>1. Tagged(n) = {}
    BY DEF Tagged, IsEmpty
<1>2. ResultOf(n) = {}
    BY <1>1 DEF ResultOf
<1>3. Expected = {}
    BY NothingGrouped DEF Expected
<1> QED
    BY <1>1, <1>2, <1>3 DEF RightResult

LEMMA PlainResult ==
    ASSUME query \in Queries, query.key_len = 0, NEW n, IsSplit(n)
    PROVE  RightResult(n)
<1>1. PICK h : h = [r \in Answer |-> <<Place(n, r.id), r>>]
    OBVIOUS
<1>2. \A x : x \in Tagged(n) <=> \E p \in DOMAIN Rows[n] : \E r \in Rows[n][p] : x = <<p, r>>
    BY TaggedIs
<1>3. Tagged(n) = {h[r] : r \in Answer}
    <2>1. ASSUME NEW x \in Tagged(n) PROVE x \in {h[r] : r \in Answer}
        <3>1. PICK p \in DOMAIN Rows[n] : \E r \in Rows[n][p] : x = <<p, r>>
            BY <1>2, <2>1
        <3>2. PICK r \in Rows[n][p] : x = <<p, r>>
            BY <3>1
        <3>3. r \in Answer /\ Place(n, r.id) = p
            BY <3>2 DEF IsSplit
        <3> QED
            BY <1>1, <3>2, <3>3
    <2>2. ASSUME NEW r \in Answer PROVE h[r] \in Tagged(n)
        <3>1. PICK p : p = Place(n, r.id)
            OBVIOUS
        <3>2. p \in DOMAIN Rows[n] /\ r \in Rows[n][p]
            BY <3>1 DEF IsSplit
        <3> QED
            BY <1>1, <1>2, <3>1, <3>2
    <2> QED
        BY <2>1, <2>2
<1>4. \A r \in Answer : h[r][2] = r
    BY <1>1
<1>5. Cardinality(Tagged(n)) = Cardinality(Answer)
    <2>1. \A r, s \in Answer : h[r] = h[s] => r = s
        BY <1>4
    <2>2. IsFiniteSet(Answer)
        BY AnswerFinite
    <2> QED
        BY <1>3, <2>1, <2>2, ImageFinite
<1>6. {x[2] : x \in Tagged(n)} = Answer
    BY <1>3, <1>4
<1> QED
    BY <1>5, <1>6 DEF RightResult, ResultOf, Expected

-----------------------------------------------------------------------------
(* Aggregates. *)

LEMMA AggFacts ==
    ASSUME query \in Queries, NEW L, L = query.key_len, NEW m, m = Len(query.aggs)
    PROVE  /\ L \in Nat /\ m \in Nat /\ DOMAIN query.aggs = 1 .. m
           /\ L # 0 => Len(query.select) = L + m
<1>1. IsQuery(query)
    BY QueriesAssumption
<1>2. L \in Nat /\ m \in Nat /\ DOMAIN query.aggs = 1 .. m /\ Len(query.select) \in Nat
    BY QueryFacts
<1>3. m = IF L = 0 THEN 0 ELSE Len(query.select) - L
    BY <1>1 DEF IsQuery
<1> QED
    BY <1>2, <1>3

LEMMA ListIs ==
    ASSUME NEW X, NEW n \in Nat, NEW u, u = [i \in 1 .. n |-> u[i]], \A i \in 1 .. n : u[i] \in X
    PROVE  u \in Seq(X) /\ Len(u) = n
<1>1. u \in [1 .. n -> X]
    OBVIOUS
<1> QED
    BY <1>1

\* The key of a list of values.
LEMMA KeyFacts ==
    ASSUME query \in Queries, NEW v \in Seq(Int), NEW L, L = query.key_len, Len(v) >= L
    PROVE  Key(v) \in Seq(Int) /\ Len(Key(v)) = L /\ \A i \in 1 .. L : Key(v)[i] = v[i]
<1>1. L \in Nat
    BY QueryFacts
<1>2. PICK n \in Nat : n = Len(v) /\ DOMAIN v = 1 .. n
    BY LenProperties
<1>3. PICK u : u = [i \in 1 .. L |-> v[i]]
    OBVIOUS
<1>4. SubSeq(v, 1, L) = u
    BY <1>1, <1>2, <1>3
<1>5. \A i \in 1 .. L : u[i] \in Int
    BY <1>1, <1>2, <1>3, ElementOfSeq
<1>6. u \in Seq(Int) /\ Len(u) = L
    <2>1. u = [i \in 1 .. L |-> u[i]]
        BY <1>3
    <2> QED
        BY <1>1, <1>5, <2>1, ListIs
<1> QED
    BY <1>3, <1>4, <1>6 DEF Key

LEMMA KeyIs ==
    ASSUME query \in Queries, NEW v \in Seq(Int), NEW L, L = query.key_len, Len(v) >= L,
           NEW k \in Seq(Int), Len(k) = L, \A i \in 1 .. L : v[i] = k[i]
    PROVE  Key(v) = k
<1>1. PICK u : u = Key(v)
    OBVIOUS
<1>2. u \in Seq(Int) /\ Len(u) = L /\ \A i \in 1 .. L : u[i] = v[i]
    BY <1>1, KeyFacts
<1>3. L \in Nat
    BY QueryFacts
<1>4. \A i \in 1 .. L : u[i] = k[i]
    BY <1>2
<1>5. u = k
    BY <1>2, <1>3, <1>4, SeqEqual
<1> QED
    BY <1>1, <1>5

\* What an aggregation can be given, the groups of it, and what a row adds to aggregate i.
AreGiven(rows) ==
    /\ IsFiniteSet(rows)
    /\ \A r \in rows : r.vals \in Seq(Int) /\ Len(r.vals) = query.key_len + Len(query.aggs) /\ r.times \in Int
GroupOf(rows, k) == {r \in rows : Key(r.vals) = k}
AddsOf(rows, k, type, i) ==
    [r \in GroupOf(rows, k) |-> IF type = "COUNT" THEN r.times ELSE r.times * r.vals[query.key_len + i]]
AggOf(rows, k, type, i) == SumFunctionOnSet(AddsOf(rows, k, type, i), GroupOf(rows, k))
\* v is the row of key k.
IsAggregate(v, rows, k, types) ==
    /\ v \in Seq(Int) /\ Len(v) = query.key_len + Len(query.aggs) /\ Key(v) = k
    /\ k \in Seq(Int) /\ Len(k) = query.key_len
    /\ \A i \in 1 .. query.key_len : v[i] = k[i]
    /\ \A i \in 1 .. Len(query.aggs) : v[query.key_len + i] = AggOf(rows, k, types[i], i)

LEMMA AggInt ==
    ASSUME query \in Queries, NEW rows, AreGiven(rows), NEW k, NEW type, NEW i \in 1 .. Len(query.aggs)
    PROVE  /\ IsFiniteSet(GroupOf(rows, k))
           /\ Ints(AddsOf(rows, k, type, i), GroupOf(rows, k))
           /\ AggOf(rows, k, type, i) \in Int
<1>1. PICK G, L, m : G = GroupOf(rows, k) /\ L = query.key_len /\ m = Len(query.aggs)
    OBVIOUS
<1>2. L \in Nat /\ m \in Nat
    BY <1>1, AggFacts
<1>3. G \subseteq rows
    BY <1>1 DEF GroupOf
<1>4. IsFiniteSet(G)
    BY <1>3, FS_Subset DEF AreGiven
<1>5. \A r \in G : r.times \in Int /\ r.times * r.vals[L + i] \in Int
    <2> SUFFICES ASSUME NEW r \in G PROVE r.times \in Int /\ r.times * r.vals[L + i] \in Int
        OBVIOUS
    <2>1. PICK v, t : v = r.vals /\ t = r.times
        OBVIOUS
    <2>2. v \in Seq(Int) /\ Len(v) = L + m /\ t \in Int
        BY <1>1, <1>3, <2>1 DEF AreGiven
    <2>3. L + i \in 1 .. L + m
        BY <1>1, <1>2
    <2>4. v[L + i] \in Int
        BY <2>2, <2>3, ElementOfSeq
    <2> QED
        BY <2>1, <2>2, <2>4
<1>6. Ints(AddsOf(rows, k, type, i), G)
    BY <1>1, <1>5, Zenon DEF Ints, AddsOf
<1>7. SumFunctionOnSet(AddsOf(rows, k, type, i), G) \in Int
    BY <1>4, <1>6, SumInt
<1> QED
    BY <1>1, <1>4, <1>6, <1>7 DEF AggOf

LEMMA AggregatedIs ==
    ASSUME query \in Queries, NEW rows, AreGiven(rows), NEW k \in KeysOf(rows), NEW types
    PROVE  IsAggregate(Aggregated(rows, k, types), rows, k, types)
<1>1. PICK L, m, v : L = query.key_len /\ m = Len(query.aggs) /\ v = Aggregated(rows, k, types)
    OBVIOUS
<1>2. L \in Nat /\ m \in Nat /\ DOMAIN query.aggs = 1 .. m
    BY <1>1, AggFacts
<1>3. PICK u : u = [i \in 1 .. m |-> AggOf(rows, k, types[i], i)]
    OBVIOUS
<1>4. v = k \o u
    <2>1. PICK G : G = GroupOf(rows, k)
        OBVIOUS
    <2>2. G = {r \in rows : Key(r.vals) = k}
        BY <2>1 DEF GroupOf
    <2>3. PICK w : w = [i \in DOMAIN query.aggs |->
                          IF types[i] = "COUNT" THEN SumFunction([r \in G |-> r.times])
                          ELSE SumFunction([r \in G |-> r.times * r.vals[query.key_len + i]])]
        OBVIOUS
    <2>4. v = k \o w
        BY <1>1, <2>2, <2>3, Zenon DEF Aggregated
    <2>5. ASSUME NEW i \in 1 .. m PROVE w[i] = u[i]
        <3>1. PICK f : f = AddsOf(rows, k, types[i], i)
            OBVIOUS
        <3>2. DOMAIN f = G
            BY <2>1, <3>1 DEF AddsOf
        <3>3. SumFunction(f) = SumFunctionOnSet(f, G)
            BY <3>2 DEF SumFunction
        <3>4. w[i] = SumFunction(f)
            <4>1. CASE types[i] = "COUNT"
                BY <1>2, <2>1, <2>3, <3>1, <4>1 DEF AddsOf
            <4>2. CASE types[i] # "COUNT"
                BY <1>2, <2>1, <2>3, <3>1, <4>2 DEF AddsOf
            <4> QED
                BY <4>1, <4>2
        <3>5. u[i] = AggOf(rows, k, types[i], i)
            BY <1>3
        <3> QED
            BY <2>1, <3>1, <3>3, <3>4, <3>5 DEF AggOf
    <2>6. w = u
        BY <1>2, <1>3, <2>3, <2>5
    <2> QED
        BY <2>4, <2>6
<1>5. \A i \in 1 .. m : u[i] \in Int
    BY <1>1, <1>3, AggInt
<1>6. u \in Seq(Int) /\ Len(u) = m
    BY <1>2, <1>3, <1>5
<1>7. PICK r \in rows : k = Key(r.vals)
    BY DEF KeysOf
<1>8. k \in Seq(Int) /\ Len(k) = L
    <2>1. PICK z : z = r.vals
        OBVIOUS
    <2>2. z \in Seq(Int) /\ Len(z) = L + m
        BY <1>1, <2>1 DEF AreGiven
    <2>3. Len(z) >= L
        BY <1>2, <2>2
    <2> QED
        BY <1>1, <1>7, <2>1, <2>2, <2>3, KeyFacts
<1>9. v \in Seq(Int) /\ IsConcat(v, k, L, u, m)
    BY <1>4, <1>6, <1>8, ConcatFacts
<1>10. Len(v) = L + m /\ (\A i \in 1 .. L : v[i] = k[i]) /\ \A i \in 1 .. m : v[L + i] = u[i]
    BY <1>9 DEF IsConcat
<1>11. Len(v) >= L
    BY <1>2, <1>10
<1>12. Key(v) = k
    BY <1>1, <1>8, <1>9, <1>10, <1>11, KeyIs, SMTT(30)
<1> QED
    BY <1>1, <1>3, <1>8, <1>9, <1>10, <1>12 DEF IsAggregate

\* There is one for each key.
LEMMA AggregateOne ==
    ASSUME query \in Queries, NEW k, NEW v, NEW rows, NEW types, IsAggregate(v, rows, k, types),
           NEW w, NEW others, NEW kinds, IsAggregate(w, others, k, kinds),
           \A i \in 1 .. Len(query.aggs) : AggOf(rows, k, types[i], i) = AggOf(others, k, kinds[i], i)
    PROVE  v = w
<1>1. PICK L, m : L = query.key_len /\ m = Len(query.aggs)
    OBVIOUS
<1>2. L \in Nat /\ m \in Nat
    BY <1>1, AggFacts
<1>3. v \in Seq(Int) /\ w \in Seq(Int) /\ Len(v) = L + m /\ Len(w) = L + m
    BY <1>1 DEF IsAggregate
<1>4. \A i \in 1 .. L : v[i] = w[i]
    BY <1>1 DEF IsAggregate
<1>5. \A i \in 1 .. m : v[L + i] = w[L + i]
    BY <1>1 DEF IsAggregate
<1>6. ASSUME NEW i \in 1 .. L + m PROVE v[i] = w[i]
    <2>1. CASE i <= L
        BY <1>2, <1>4, <2>1
    <2>2. CASE i > L
        <3>1. PICK j : j = i - L
            OBVIOUS
        <3>2. j \in 1 .. m /\ i = L + j
            BY <1>2, <2>2, <3>1
        <3> QED
            BY <1>5, <3>2
    <2> QED
        BY <1>2, <2>1, <2>2
<1> QED
    BY <1>3, <1>6, SeqEqual

-----------------------------------------------------------------------------
(* Aggregations, and the repartitioning between two of them, return what they are given. *)

Steps == {"once", "pre", "post"}

IsAggList(u, step, L, m) ==
    /\ Len(u) = L + m /\ DOMAIN u = 1 .. L + m
    /\ \A i \in 1 .. L : u[i] = <<"CID", i>>
    /\ \A i \in 1 .. m : u[L + i] = <<step, i>>

LEMMA AggList ==
    ASSUME query \in Queries, NEW step, NEW L, L = query.key_len, NEW m, m = Len(query.aggs),
           NEW u, u = Keys \o Aggregates(step)
    PROVE  IsAggList(u, step, L, m)
<1>1. L \in Nat /\ m \in Nat /\ DOMAIN query.aggs = 1 .. m
    BY AggFacts
<1>2. PICK X : X = {<<"CID", i>> : i \in 1 .. L} \union {<<step, i>> : i \in 1 .. m}
    OBVIOUS
<1>3. PICK s, t : s = Keys /\ t = Aggregates(step)
    OBVIOUS
<1>4. s = [i \in 1 .. L |-> s[i]] /\ (\A i \in 1 .. L : s[i] = <<"CID", i>>)
    BY <1>3 DEF Keys
<1>5. t = [i \in 1 .. m |-> t[i]] /\ (\A i \in 1 .. m : t[i] = <<step, i>>)
    BY <1>1, <1>3 DEF Aggregates
<1>6. s \in Seq(X) /\ Len(s) = L
    <2>1. \A i \in 1 .. L : s[i] \in X
        BY <1>2, <1>4
    <2>2. L \in Nat /\ s = [i \in 1 .. L |-> s[i]]
        BY <1>1, <1>4
    <2> QED
        BY <2>1, <2>2, ListIs
<1>7. t \in Seq(X) /\ Len(t) = m
    <2>1. \A i \in 1 .. m : t[i] \in X
        BY <1>2, <1>5
    <2>2. m \in Nat /\ t = [i \in 1 .. m |-> t[i]]
        BY <1>1, <1>5
    <2> QED
        BY <2>1, <2>2, ListIs
<1>8. IsConcat(u, s, L, t, m)
    BY <1>3, <1>6, <1>7, ConcatFacts
<1> QED
    BY <1>4, <1>5, <1>8, ZenonT(60) DEF IsConcat, IsAggList

\* The places of the keys and of the aggregates.
InPlace(map, step) ==
    /\ \A i \in 1 .. query.key_len : Compile(map, <<"CID", i>>) = Code({i - 1}, 0)
    /\ \A i \in 1 .. Len(query.aggs) : Compile(map, <<step, i>>) = Code({query.key_len + i - 1}, 0)

\* In the input of an aggregation.
LEMMA AggPlaces ==
    ASSUME NEW n, lops[n].lop = "Aggregation", NEW qun, NEW step \in Steps
    PROVE  InPlace(InputMap(n, qun), step)
<1>1. PICK map : map = InputMap(n, qun)
    OBVIOUS
<1>2. DOMAIN map = {QunCol(<<qun, c>>) : c \in 0 .. query.key_len - 1}
    <2>1. map = [p \in {QunCol(<<qun, c>>) : c \in 0 .. query.key_len - 1} |-> p[2][2]]
        BY <1>1 DEF InputMap
    <2> QED
        BY <2>1
<1>3. \A e : VirtCol(e) \notin DOMAIN map
    BY <1>2 DEF QunCol, VirtCol
<1>4. ASSUME NEW i PROVE Compile(map, <<"CID", i>>) = Code({i - 1}, 0)
    <2>1. PICK e : e = <<"CID", i>>
        OBVIOUS
    <2>2. ~IsExpression(e) /\ e[1] = "CID" /\ e[2] = i
        BY <2>1 DEF IsExpression
    <2> QED
        BY <1>3, <2>1, <2>2 DEF Compile
<1>5. ASSUME NEW i PROVE Compile(map, <<step, i>>) = Code({query.key_len + i - 1}, 0)
    <2>1. PICK e : e = <<step, i>>
        OBVIOUS
    <2>2. ~IsExpression(e) /\ e[1] # "CID" /\ e[2] = i
        BY <2>1 DEF IsExpression, Steps
    <2> QED
        BY <1>3, <2>1, <2>2 DEF Compile
<1> QED
    BY <1>1, <1>4, <1>5 DEF InPlace

\* In its output.
LEMMA OutPlaces ==
    ASSUME query \in Queries, NEW n, NEW step \in Steps, lops[n].cols = {}, lops[n].virtcols = Keys \o Aggregates(step)
    PROVE  InPlace(OutputMap(n), step)
<1>1. PICK map, u, L, m : map = OutputMap(n) /\ u = lops[n].virtcols /\ L = query.key_len /\ m = Len(query.aggs)
    OBVIOUS
<1>2. L \in Nat /\ m \in Nat
    BY <1>1, AggFacts
<1>3. Len(u) = L + m /\ DOMAIN u = 1 .. L + m /\ (\A i \in 1 .. L : u[i] = <<"CID", i>>) /\ \A i \in 1 .. m : u[L + i] = <<step, i>>
    <2>1. IsAggList(u, step, L, m)
        BY <1>1, AggList
    <2> QED
        BY <2>1 DEF IsAggList
<1>4. PICK none, z : none = {} /\ z = Cardinality(none)
    OBVIOUS
<1>5. z = 0
    BY <1>4, FS_EmptySet
<1>6. IsMap(map, none, u, 0)
    <2>1. map = MapOf(none, u)
        BY <1>1, <1>4 DEF OutputMap
    <2> QED
        BY <1>4, <1>5, <2>1, MapFields
<1>7. ASSUME NEW j \in 1 .. L + m, \A i \in 1 .. L + m : u[i] = u[j] => i = j
      PROVE  Compile(map, u[j]) = Code({j - 1}, 0)
    <2>1. PICK e : e = u[j]
        OBVIOUS
    <2>2. PICK S : S = {i \in DOMAIN u : u[i] = e}
        OBVIOUS
    <2>3. S = {j}
        BY <1>3, <1>7, <2>1, <2>2
    <2>4. Max(S) = j
        <3>1. S \subseteq 1 .. L + m /\ S # {} /\ L + m \in Nat
            BY <1>2, <2>3
        <3>2. Max(S) \in S
            BY <3>1, MaxFacts
        <3> QED
            BY <2>3, <3>2
    <2>5. e \in ToSet(u)
        BY <1>3, <2>1 DEF ToSet
    <2>6. VirtCol(e) \in DOMAIN map /\ map[VirtCol(e)] = 0 + Max(S) - 1
        BY <1>6, <2>2, <2>5 DEF IsMap
    <2>7. map[VirtCol(e)] = j - 1
        BY <1>2, <2>4, <2>6
    <2>8. Compile(map, e) = Code({map[VirtCol(e)]}, 0)
        BY <2>6 DEF Compile
    <2> QED
        BY <2>1, <2>7, <2>8
<1>8. step # "CID"
    BY DEF Steps
<1>9. ASSUME NEW i \in 1 .. L + m, NEW j \in 1 .. L + m, u[i] = u[j] PROVE i = j
    <2>1. \A k \in 1 .. L + m : k \in 1 .. L \/ k - L \in 1 .. m
        BY <1>2
    <2>2. \A k \in 1 .. L + m : k \in 1 .. L => u[k] = <<"CID", k>>
        BY <1>3
    <2>3. \A k \in 1 .. L + m : k - L \in 1 .. m => u[k] = <<step, k - L>>
        <3> SUFFICES ASSUME NEW k \in 1 .. L + m, k - L \in 1 .. m PROVE u[k] = <<step, k - L>>
            OBVIOUS
        <3>1. PICK a \in 1 .. m : a = k - L
            OBVIOUS
        <3>2. k = L + a
            BY <1>2, <3>1
        <3> QED
            BY <1>3, <3>1, <3>2
    <2>4. CASE i \in 1 .. L /\ j \in 1 .. L
        BY <1>9, <2>2, <2>4
    <2>5. CASE i \in 1 .. L /\ j - L \in 1 .. m
        BY <1>8, <1>9, <2>2, <2>3, <2>5
    <2>6. CASE i - L \in 1 .. m /\ j \in 1 .. L
        BY <1>8, <1>9, <2>2, <2>3, <2>6
    <2>7. CASE i - L \in 1 .. m /\ j - L \in 1 .. m
        <3>1. i - L = j - L
            BY <1>9, <2>3, <2>7
        <3> QED
            BY <1>2, <3>1
    <2> QED
        BY <2>1, <2>4, <2>5, <2>6, <2>7
<1>10. \A j \in 1 .. L + m : Compile(map, u[j]) = Code({j - 1}, 0)
    BY <1>7, <1>9
<1>11. \A i \in 1 .. L : Compile(map, <<"CID", i>>) = Code({i - 1}, 0)
    <2>1. \A i \in 1 .. L : i \in 1 .. L + m
        BY <1>2
    <2> QED
        BY <1>3, <1>10, <2>1
<1>12. ASSUME NEW i \in 1 .. m PROVE Compile(map, <<step, i>>) = Code({L + i - 1}, 0)
    <2>1. PICK j : j = L + i
        OBVIOUS
    <2>2. j \in 1 .. L + m /\ j - 1 = L + i - 1
        BY <1>2, <2>1
    <2>3. u[j] = <<step, i>>
        BY <1>3, <2>1
    <2> QED
        BY <1>10, <2>1, <2>2, <2>3
<1> QED
    BY <1>1, <1>11, <1>12 DEF InPlace

-----------------------------------------------------------------------------
(* What an aggregation, or a repartitioning of its rows, does with a row. *)

\* The codes c return the row they are given.
ArePlaces(c) ==
    /\ DOMAIN c = 1 .. query.key_len + Len(query.aggs)
    /\ \A j \in 1 .. query.key_len + Len(query.aggs) : c[j] = Code({j - 1}, 0)

LEMMA PlainCodes ==
    ASSUME query \in Queries, NEW step \in Steps, NEW map, InPlace(map, step), NEW c,
           c = Codes(map, {}, Keys \o Aggregates(step))
    PROVE  ArePlaces(c)
<1>1. PICK u, L, m : u = Keys \o Aggregates(step) /\ L = query.key_len /\ m = Len(query.aggs)
    OBVIOUS
<1>2. L \in Nat /\ m \in Nat
    BY <1>1, AggFacts
<1>3. IsAggList(u, step, L, m)
    BY <1>1, AggList
<1>4. DOMAIN u = 1 .. L + m
    BY <1>3 DEF IsAggList
<1>5. PICK none : none = {}
    OBVIOUS
<1>6. PICK s, t : /\ s = [i \in DOMAIN InOrder(none) |-> Code({map[QunCol(InOrder(none)[i])]}, 0)]
                  /\ t = [i \in DOMAIN u |-> Compile(map, u[i])]
    OBVIOUS
<1>7. c = s \o t
    BY <1>1, <1>5, <1>6 DEF Codes
<1>8. PICK X : X = {t[i] : i \in 1 .. L + m}
    OBVIOUS
<1>9. s \in Seq(X) /\ Len(s) = 0
    <2>1. Cardinality(none) = 0
        BY <1>5, FS_EmptySet
    <2>2. DOMAIN InOrder(none) = 1 .. 0
        BY <2>1 DEF InOrder
    <2>3. s = [i \in 1 .. 0 |-> s[i]]
        BY <1>6, <2>2
    <2>4. \A i \in 1 .. 0 : s[i] \in X
        OBVIOUS
    <2> QED
        BY <2>3, <2>4, ListIs
<1>10. t \in Seq(X) /\ Len(t) = L + m
    <2>1. t = [i \in 1 .. L + m |-> t[i]] /\ L + m \in Nat
        BY <1>2, <1>4, <1>6
    <2>2. \A i \in 1 .. L + m : t[i] \in X
        BY <1>8
    <2> QED
        BY <2>1, <2>2, ListIs
<1>11. IsConcat(c, s, 0, t, L + m)
    BY <1>7, <1>9, <1>10, ConcatFacts
<1>12. DOMAIN c = 1 .. L + m /\ \A i \in 1 .. L + m : c[i] = t[i]
    <2>1. DOMAIN c = 1 .. 0 + (L + m) /\ \A i \in 1 .. L + m : c[0 + i] = t[i]
        BY <1>11 DEF IsConcat
    <2>2. 0 + (L + m) = L + m /\ \A i \in 1 .. L + m : 0 + i = i
        BY <1>2
    <2> QED
        BY <2>1, <2>2
<1>13. ASSUME NEW j \in 1 .. L + m PROVE t[j] = Code({j - 1}, 0)
    <2>1. t[j] = Compile(map, u[j])
        BY <1>4, <1>6
    <2>2. CASE j \in 1 .. L
        <3>1. u[j] = <<"CID", j>>
            BY <1>3, <2>2 DEF IsAggList
        <3> QED
            BY <1>1, <2>1, <2>2, <3>1 DEF InPlace
    <2>3. CASE j \notin 1 .. L
        <3>1. PICK i \in 1 .. m : j = L + i
            <4>1. j - L \in 1 .. m /\ j = L + (j - L)
                BY <1>2, <2>3
            <4> QED
                BY <4>1
        <3>2. u[j] = <<step, i>>
            BY <1>3, <3>1 DEF IsAggList
        <3>3. Compile(map, <<step, i>>) = Code({L + i - 1}, 0)
            BY <1>1, <3>1 DEF InPlace
        <3>4. L + i - 1 = j - 1
            BY <1>2, <3>1
        <3>5. Compile(map, <<step, i>>) = Code({j - 1}, 0)
            BY <3>3, <3>4
        <3> QED
            BY <2>1, <3>2, <3>5
    <2> QED
        BY <2>2, <2>3
<1> QED
    BY <1>1, <1>12, <1>13 DEF ArePlaces

\* A row of an aggregation, or of what it is given.
IsRow(r) == r = [id |-> r.id, vals |-> r.vals, times |-> r.times]
IsGiven(r) == r.vals \in Seq(Int) /\ Len(r.vals) = query.key_len + Len(query.aggs) /\ r.times \in Int

LEMMA PlainRow ==
    ASSUME query \in Queries, NEW pop, ArePlaces(pop.projection), NEW r, NEW a, NEW v, NEW t,
           r = [id |-> a, vals |-> v, times |-> t], IsGiven(r)
    PROVE  Projected(pop, r) = r
<1>1. PICK n \in Int : n = query.key_len + Len(query.aggs) /\ n \in Nat
    BY AggFacts
<1>2. v \in Seq(Int) /\ Len(v) = n
    BY <1>1 DEF IsGiven
<1>3. PICK c : c = pop.projection
    OBVIOUS
<1>4. DOMAIN c = 1 .. n /\ \A j \in 1 .. n : c[j] = Code({j - 1}, 0)
    BY <1>1, <1>3 DEF ArePlaces
<1>5. PICK w : w = [i \in DOMAIN c |-> Eval(c[i], v)]
    OBVIOUS
<1>6. ASSUME NEW j \in 1 .. n PROVE Eval(c[j], v) = v[j]
    <2>1. PICK a1 \in Nat : a1 = j - 1 /\ a1 < n /\ a1 + 1 = j
        BY <1>1
    <2>2. Eval(Code({a1}, 0), v) = v[a1 + 1]
        BY <1>2, <2>1, EvalPlace
    <2> QED
        BY <1>4, <2>1, <2>2
<1>7. w = [j \in 1 .. n |-> v[j]]
    BY <1>4, <1>5, <1>6
<1>8. w = v
    BY <1>1, <1>2, <1>7
<1>9. Projected(pop, r) = [r EXCEPT !.vals = w]
    BY <1>3, <1>5 DEF Projected
<1> QED
    BY <1>8, <1>9

LEMMA OutputDef ==
    ASSUME NEW pop, NEW rows, NEW o
    PROVE  o \in Output(pop, rows) <=>
               \E r \in rows : o = Projected(pop, r) /\ \A p \in pop.preds : Eval(p.lhs, r.vals) = Eval(p.rhs, r.vals)
BY DEF Output, Filtered

HavingCode == [lhs |-> Code({0}, 0), rhs |-> Code({}, 0)]

\* The HAVING clause is evaluated on the first key.
LEMMA HavingIs ==
    ASSUME query \in Queries, query.key_len # 0, NEW r, IsGiven(r)
    PROVE  Eval(HavingCode.lhs, r.vals) = Eval(HavingCode.rhs, r.vals) <=> HavingHolds(Key(r.vals))
<1>1. PICK L, m, v : L = query.key_len /\ m = Len(query.aggs) /\ v = r.vals
    OBVIOUS
<1>2. L \in Nat /\ m \in Nat
    BY <1>1, AggFacts
<1>3. v \in Seq(Int) /\ Len(v) >= L /\ Len(v) > 0
    BY <1>1, <1>2 DEF IsGiven
<1>4. Eval(Code({0}, 0), v) = v[1]
    <2>1. Eval(Code({0}, 0), v) = v[0 + 1]
        BY <1>3, EvalPlace
    <2> QED
        BY <2>1
<1>5. Eval(Code({}, 0), v) = 0
    BY EvalNone
<1>6. \A i \in 1 .. L : Key(v)[i] = v[i]
    BY <1>1, <1>3, KeyFacts
<1>7. Key(v)[1] = v[1]
    <2>1. 1 \in 1 .. L
        BY <1>1, <1>2
    <2> QED
        BY <1>6, <2>1
<1> QED
    BY <1>1, <1>4, <1>5, <1>7 DEF HavingHolds, HavingCode

\* What has the properties of an aggregation step returns its rows as they are, but for HAVING.
LEMMA PlainOutput ==
    ASSUME query \in Queries, query.key_len # 0, NEW pop, ArePlaces(pop.projection), pop.preds \subseteq {HavingCode},
           NEW rows, \A r \in rows : IsRow(r) /\ IsGiven(r)
    PROVE  \A o : o \in Output(pop, rows) <=> o \in rows /\ (pop.preds # {} => HavingHolds(Key(o.vals)))
<1>1. ASSUME NEW r \in rows PROVE Projected(pop, r) = r
    BY PlainRow DEF IsRow
<1>2. ASSUME NEW r \in rows
      PROVE  (\A p \in pop.preds : Eval(p.lhs, r.vals) = Eval(p.rhs, r.vals)) <=> (pop.preds # {} => HavingHolds(Key(r.vals)))
    <2>1. Eval(HavingCode.lhs, r.vals) = Eval(HavingCode.rhs, r.vals) <=> HavingHolds(Key(r.vals))
        BY HavingIs
    <2>2. pop.preds = {} \/ pop.preds = {HavingCode}
        OBVIOUS
    <2> QED
        BY <2>1, <2>2
<1>3. ASSUME NEW o PROVE o \in Output(pop, rows) <=> o \in rows /\ (pop.preds # {} => HavingHolds(Key(o.vals)))
    <2>1. o \in Output(pop, rows) <=>
               \E r \in rows : o = Projected(pop, r) /\ \A p \in pop.preds : Eval(p.lhs, r.vals) = Eval(p.rhs, r.vals)
        BY OutputDef
    <2>2. o \in Output(pop, rows) <=> \E r \in rows : o = r /\ (pop.preds # {} => HavingHolds(Key(r.vals)))
        BY <1>1, <1>2, <2>1
    <2> QED
        BY <2>2
<1> QED
    BY <1>3

-----------------------------------------------------------------------------
(* What an aggregation returns. *)

\* What each step aggregates.
TypesOf(step) == [i \in DOMAIN query.aggs |-> IF step = "post" THEN PostAggType(query.aggs[i]) ELSE query.aggs[i]]
AggRow(rows, k, p, step) == [id |-> <<k, p>>, vals |-> Aggregated(rows, k, TypesOf(step)), times |-> 1]

LEMMA HashAggIs ==
    ASSUME query \in Queries, NEW step \in Steps, NEW x, x.virtcols = Keys \o Aggregates(step), NEW rows, NEW p
    PROVE  HashAggRows(x, rows, p) = {AggRow(rows, k, p, step) : k \in KeysOf(rows)}
<1>1. PICK u, L, m : u = x.virtcols /\ L = query.key_len /\ m = Len(query.aggs)
    OBVIOUS
<1>2. L \in Nat /\ m \in Nat /\ DOMAIN query.aggs = 1 .. m
    BY <1>1, AggFacts
<1>3. IsAggList(u, step, L, m)
    BY <1>1, AggList
<1>4. PICK types : types = [i \in DOMAIN query.aggs |->
                               IF Last(u)[1] = "post" THEN PostAggType(query.aggs[i]) ELSE query.aggs[i]]
    OBVIOUS
<1>5. m # 0 => Last(u)[1] = step
    <2> SUFFICES ASSUME m # 0 PROVE Last(u)[1] = step
        OBVIOUS
    <2>1. Last(u) = u[L + m] /\ m \in 1 .. m
        BY <1>2, <1>3 DEF IsAggList, Last
    <2>2. u[L + m] = <<step, m>>
        BY <1>3, <2>1 DEF IsAggList
    <2> QED
        BY <2>1, <2>2
<1>6. types = TypesOf(step)
    <2>1. CASE m = 0
        <3>1. DOMAIN query.aggs = {}
            BY <1>2, <2>1
        <3> QED
            BY <1>4, <3>1 DEF TypesOf
    <2>2. CASE m # 0
        BY <1>4, <1>5, <2>2 DEF TypesOf
    <2> QED
        BY <2>1, <2>2
<1>7. HashAggRows(x, rows, p) = {[id |-> <<k, p>>, vals |-> Aggregated(rows, k, types), times |-> 1] : k \in KeysOf(rows)}
    BY <1>1, <1>4, Zenon DEF HashAggRows
<1> QED
    BY <1>6, <1>7, Zenon DEF AggRow

\* Out is what the aggregation n returns of the rows in partition p.
IsAggOut(out, n, rows, p, step) ==
    \A o : o \in out <=> \E k \in KeysOf(rows) : (lops[n].preds # {} => HavingHolds(k)) /\ o = AggRow(rows, k, p, step)

LEMMA PredCodes ==
    ASSUME NEW n, IsPop(pops[n], n), lops[n].preds \subseteq {Having}
    PROVE  pops[n].preds = IF lops[n].preds = {} THEN {} ELSE {HavingCode}
<1>1. PICK qun, call : pops[n] = Pop(n, qun, call)
    BY DEF IsPop
<1>2. CASE lops[n].preds = {}
    BY <1>1, <1>2 DEF Pop
<1>3. CASE lops[n].preds = {Having}
    BY <1>1, <1>3 DEF Pop, HavingCode
<1> QED
    BY <1>2, <1>3

LEMMA AggOut ==
    ASSUME query \in Queries, query.key_len # 0, NEW step \in Steps, NEW n, IsPop(pops[n], n), AggLop(lops[n], step),
           lops[n].preds \subseteq {Having}, NEW rows, AreGiven(rows), NEW p
    PROVE  IsAggOut(Output(pops[n], HashAggRows(lops[n], rows, p)), n, rows, p, step)
<1>1. PICK pop, In : pop = pops[n] /\ In = HashAggRows(lops[n], rows, p)
    OBVIOUS
<1>2. In = {AggRow(rows, k, p, step) : k \in KeysOf(rows)}
    BY <1>1, HashAggIs DEF AggLop
<1>3. ASSUME NEW k \in KeysOf(rows)
      PROVE  LET r == AggRow(rows, k, p, step)
             IN  IsRow(r) /\ IsGiven(r) /\ Key(r.vals) = k
    <2>1. IsAggregate(Aggregated(rows, k, TypesOf(step)), rows, k, TypesOf(step))
        BY AggregatedIs
    <2> QED
        BY <2>1 DEF AggRow, IsAggregate, IsGiven, IsRow
<1>4. ArePlaces(pop.projection)
    <2>1. PICK qun, call : pop = Pop(n, qun, call)
        BY <1>1 DEF IsPop
    <2>2. HasCodes(pop, n, InputMap(n, qun))
        BY <2>1, PopCodes
    <2>3. InPlace(InputMap(n, qun), step)
        BY AggPlaces DEF AggLop
    <2>4. pop.projection = Codes(InputMap(n, qun), {}, Keys \o Aggregates(step))
        BY <2>2 DEF HasCodes, AggLop
    <2> QED
        BY <2>3, <2>4, PlainCodes
<1>5. pop.preds = IF lops[n].preds = {} THEN {} ELSE {HavingCode}
    BY <1>1, PredCodes
<1>6. \A r \in In : IsRow(r) /\ IsGiven(r)
    BY <1>2, <1>3
<1>7. \A o : o \in Output(pop, In) <=> o \in In /\ (pop.preds # {} => HavingHolds(Key(o.vals)))
    BY <1>4, <1>5, <1>6, PlainOutput
<1>8. ASSUME NEW o
      PROVE  o \in Output(pop, In) <=>
                 \E k \in KeysOf(rows) : (lops[n].preds # {} => HavingHolds(k)) /\ o = AggRow(rows, k, p, step)
    <2>1. pop.preds # {} <=> lops[n].preds # {}
        BY <1>5
    <2>2. o \in Output(pop, In) <=>
             \E k \in KeysOf(rows) : o = AggRow(rows, k, p, step) /\ (pop.preds # {} => HavingHolds(Key(o.vals)))
        BY <1>2, <1>7
    <2>3. \A k \in KeysOf(rows) : o = AggRow(rows, k, p, step) => Key(o.vals) = k
        BY <1>3
    <2> QED
        BY <2>1, <2>2, <2>3
<1> QED
    BY <1>1, <1>8 DEF IsAggOut

-----------------------------------------------------------------------------
(* The groups of the answer. *)

LEMMA AnswerGiven ==
    ASSUME query \in Queries, query.key_len # 0, Counted
    PROVE  AreGiven(Answer)
<1>1. PICK L, m, s : L = query.key_len /\ m = Len(query.aggs) /\ s = query.select
    OBVIOUS
<1>2. L \in Nat /\ m \in Nat /\ Len(s) = L + m
    BY <1>1, AggFacts
<1>3. DOMAIN s = 1 .. L + m
    BY <1>1, <1>2, QueryFacts
<1>4. ASSUME NEW i \in DOMAIN s PROVE IsExprOf(s[i], Quns)
    <2>1. PICK e : e = <<"select", i>>
        OBVIOUS
    <2>2. e \in Exprs /\ ExprOf(e) = s[i]
        BY <1>1, <2>1 DEF Exprs, SelectList, ToSet, ExprOf
    <2>3. ExprOf(e).plus \in Int /\ \A c \in ExprOf(e).cols : c \in SelectCols \union PredsCols(DOMAIN query.preds)
        BY <2>2, QueryCols
    <2>4. \A c \in ExprOf(e).cols : c \in ColsOf(Quns)
        BY <2>3, QueryCols
    <2> QED
        BY <2>2, <2>3, <2>4, ExprIn
<1>5. ASSUME NEW r \in Answer PROVE r.vals \in Seq(Int) /\ Len(r.vals) = L + m /\ r.times \in Int
    <2>1. PICK x \in JoinedRows : r = [id |-> x, vals |-> Selected(x), times |-> Copies[worklist[1]]]
        BY DEF Answer
    <2>2. HasRows(x, Quns)
        BY JoinedFacts, IsRowsHas
    <2>3. PICK v : v = r.vals
        OBVIOUS
    <2>4. v = [i \in 1 .. L + m |-> Val(s[i], x)]
        BY <1>1, <1>3, <2>1, <2>3 DEF Selected
    <2>5. \A i \in 1 .. L + m : v[i] \in Int
        BY <1>3, <1>4, <2>2, <2>4, ValInt
    <2>6. v = [i \in 1 .. L + m |-> v[i]] /\ L + m \in Nat
        BY <1>2, <2>4
    <2>7. r.times \in Int
        BY <2>1 DEF Counted
    <2> QED
        BY <2>3, <2>5, <2>6, <2>7, ListIs
<1> QED
    BY <1>1, <1>5, AnswerFinite DEF AreGiven

GroupKeys == {key \in KeysOf(Answer) : query.having => HavingHolds(key)}
GroupRow(k, p) == [id |-> <<k, p>>, vals |-> Aggregated(Answer, k, query.aggs), times |-> 1]

\* LOP n returns each group, in the partition P has for its key.
IsGrouped(n, P) ==
    /\ \A k \in GroupKeys : P[k] \in DOMAIN Rows[n]
    /\ \A p \in DOMAIN Rows[n] : \A o : o \in Rows[n][p] <=> \E k \in GroupKeys : P[k] = p /\ o = GroupRow(k, p)

LEMMA GroupedResult ==
    ASSUME query \in Queries, query.key_len # 0, Counted, NEW n, NEW P, IsGrouped(n, P)
    PROVE  RightResult(n)
<1>1. IsFiniteSet(GroupKeys)
    <2>1. PICK h : h = [r \in Answer |-> Key(r.vals)]
        OBVIOUS
    <2>2. KeysOf(Answer) = {h[r] : r \in Answer}
        BY <2>1 DEF KeysOf
    <2>3. IsFiniteSet(KeysOf(Answer))
        BY <2>2, AnswerFinite, ImageFinite
    <2>4. GroupKeys \subseteq KeysOf(Answer)
        BY DEF GroupKeys
    <2> QED
        BY <2>3, <2>4, FS_Subset
<1>2. ASSUME NEW k \in GroupKeys PROVE Key(Aggregated(Answer, k, query.aggs)) = k
    <2>1. k \in KeysOf(Answer)
        BY DEF GroupKeys
    <2>2. IsAggregate(Aggregated(Answer, k, query.aggs), Answer, k, query.aggs)
        BY <2>1, AnswerGiven, AggregatedIs
    <2> QED
        BY <2>2 DEF IsAggregate
<1>3. PICK h, g : /\ h = [k \in GroupKeys |-> <<P[k], GroupRow(k, P[k])>>]
                  /\ g = [k \in GroupKeys |-> Aggregated(Answer, k, query.aggs)]
    OBVIOUS
<1>4. \A k \in GroupKeys : h[k][2].vals = g[k]
    BY <1>3 DEF GroupRow
<1>5. \A j, k \in GroupKeys : g[j] = g[k] => j = k
    BY <1>2, <1>3
<1>6. \A x : x \in Tagged(n) <=> \E p \in DOMAIN Rows[n] : \E r \in Rows[n][p] : x = <<p, r>>
    BY TaggedIs
<1>7. Tagged(n) = {h[k] : k \in GroupKeys}
    <2>1. ASSUME NEW x \in Tagged(n) PROVE x \in {h[k] : k \in GroupKeys}
        <3>1. PICK p \in DOMAIN Rows[n] : \E r \in Rows[n][p] : x = <<p, r>>
            BY <1>6, <2>1
        <3>2. PICK r \in Rows[n][p] : x = <<p, r>>
            BY <3>1
        <3>3. PICK k \in GroupKeys : P[k] = p /\ r = GroupRow(k, p)
            BY <3>2 DEF IsGrouped
        <3> QED
            BY <1>3, <3>2, <3>3
    <2>2. ASSUME NEW k \in GroupKeys PROVE h[k] \in Tagged(n)
        <3>1. PICK p, r : p = P[k] /\ r = GroupRow(k, p)
            OBVIOUS
        <3>2. p \in DOMAIN Rows[n] /\ r \in Rows[n][p]
            BY <3>1 DEF IsGrouped
        <3> QED
            BY <1>3, <1>6, <3>1, <3>2
    <2> QED
        BY <2>1, <2>2
<1>8. {x[2].vals : x \in Tagged(n)} = {g[k] : k \in GroupKeys}
    BY <1>4, <1>7
<1>9. Groups = {g[k] : k \in GroupKeys}
    BY <1>3 DEF Groups, GroupKeys
<1>10. Cardinality({g[k] : k \in GroupKeys}) = Cardinality(GroupKeys)
    BY <1>1, <1>5, ImageFinite
<1>11. Cardinality({h[k] : k \in GroupKeys}) = Cardinality(GroupKeys)
    <2>1. \A j, k \in GroupKeys : h[j] = h[k] => j = k
        BY <1>4, <1>5
    <2> QED
        BY <1>1, <2>1, ImageFinite
<1> QED
    BY <1>7, <1>8, <1>9, <1>10, <1>11 DEF RightResult, ResultOf, Expected

\* One task has all rows of the answer, and aggregates them.
LEMMA OnceResult ==
    ASSUME Ready, query.key_len # 0, NEW n \in DOMAIN lops, OncePlan(lops, lops[n]), NEW c, c = lops[n].children[1],
           IsSplit(c), DOMAIN Rows[c] = 0 .. lops[c].npartitions - 1
    PROVE  RightResult(n)
<1>1. query \in Queries /\ FormInv /\ IsPop(pops[n], n)
    BY AllPopped DEF Ready, FormInv, TypeInv
<1>2. AggLop(lops[n], "once") /\ lops[n].preds = HavingPreds /\ lops[n].npartitions = 1 /\ JoinRoot(lops[c])
    BY DEF OncePlan
<1>3. 1 \in DOMAIN lops[n].children
    <2>1. Len(lops[n].children) = 1
        BY <1>1, <1>2 DEF FormInv, Shape, Arity, AggLop
    <2> QED
        BY <1>1, <2>1, LopIn DEF FormInv, LOPs
<1>4. lops[c].npartitions = 1
    <2>1. TasksOf(lops[c]) = lops[n].npartitions
        BY <1>3 DEF Ready, PartInv
    <2> QED
        BY <1>2, <2>1 DEF TasksOf, JoinRoot
<1>5. DOMAIN Rows[c] = {0}
    BY <1>4
<1>6. \A r : r \in Rows[c][0] <=> r \in Answer
    BY <1>5 DEF IsSplit
<1>7. PartOf(Rows[c], 0) = Answer
    BY <1>5, <1>6 DEF PartOf
<1>8. Rows[n] = AggReturns(n, Rows[c])
    BY <1>1, <1>2, RowsOf DEF AggLop, Input
<1>9. DOMAIN Rows[n] = {0} /\ Rows[n][0] = Output(pops[n], HashAggRows(lops[n], Answer, 0))
    BY <1>2, <1>7, <1>8 DEF AggReturns
<1>10. IsAggOut(Rows[n][0], n, Answer, 0, "once")
    <2>1. lops[n].preds \subseteq {Having} /\ "once" \in Steps
        BY <1>2 DEF HavingPreds, Steps
    <2>2. AreGiven(Answer)
        BY <1>1, AnswerGiven DEF IsSplit
    <2>3. PICK rows : rows = Answer
        OBVIOUS
    <2>4. IsAggOut(Output(pops[n], HashAggRows(lops[n], rows, 0)), n, rows, 0, "once")
        BY <1>1, <1>2, <2>1, <2>2, <2>3, AggOut
    <2> QED
        BY <1>9, <2>3, <2>4
<1>11. TypesOf("once") = query.aggs
    <2>1. query.aggs = [i \in DOMAIN query.aggs |-> query.aggs[i]]
        BY <1>1, QueriesAssumption DEF IsQuery
    <2> QED
        BY <2>1 DEF TypesOf
<1>12. \A k : AggRow(Answer, k, 0, "once") = GroupRow(k, 0)
    BY <1>11 DEF AggRow, GroupRow
<1>13. lops[n].preds # {} <=> query.having
    BY <1>2 DEF HavingPreds
<1>14. PICK P : P = [k \in GroupKeys |-> 0]
    OBVIOUS
<1>15. \A o : o \in Rows[n][0] <=> \E k \in GroupKeys : o = GroupRow(k, 0)
    BY <1>10, <1>12, <1>13 DEF IsAggOut, GroupKeys
<1>16. IsGrouped(n, P)
    BY <1>9, <1>14, <1>15 DEF IsGrouped
<1> QED
    BY <1>1, <1>16, GroupedResult DEF IsSplit

-----------------------------------------------------------------------------
(* An aggregate in two steps. *)

LEMMA PartGiven ==
    ASSUME NEW rows, AreGiven(rows), NEW part, part \subseteq rows
    PROVE  AreGiven(part)
BY FS_Subset DEF AreGiven

\* The rows of key k in the parts R[p] for p in J, and what the first step makes of them.
GroupsOf(R, J, k) == UNION {GroupOf(R[p], k) : p \in J}
MidRows(R, J, k) == {AggRow(R[p], k, p, "pre") : p \in J}

\* The sum of what the first step has of the parts, R[p] for p in J, is that of all rows.
LEMMA SumOfSteps ==
    ASSUME query \in Queries, NEW rows, AreGiven(rows), NEW J, IsFiniteSet(J), NEW R,
           \A p \in J : R[p] \subseteq rows, \A p, q \in J : p # q => R[p] \intersect R[q] = {},
           NEW k, GroupOf(rows, k) = GroupsOf(R, J, k), NEW i \in 1 .. Len(query.aggs),
           NEW type, NEW f, f = [p \in J |-> AggOf(R[p], k, type, i)]
    PROVE  /\ Ints(f, J)
           /\ AggOf(rows, k, type, i) = SumFunctionOnSet(f, J)
<1>1. \A p \in J : AreGiven(R[p])
    BY PartGiven
<1>2. Ints(f, J)
    BY <1>1, AggInt DEF Ints
<1>3. PICK G : G = [p \in J |-> GroupOf(R[p], k)]
    OBVIOUS
<1>4. \A p \in J : G[p] = GroupOf(R[p], k) /\ IsFiniteSet(G[p])
    BY <1>1, <1>3, AggInt
<1>5. {GroupOf(R[p], k) : p \in J} = {G[p] : p \in J}
    BY <1>3
<1>6. GroupOf(rows, k) = UNION {G[p] : p \in J}
    BY <1>5 DEF GroupsOf
<1>7. ASSUME NEW p \in J, NEW q \in J, p # q PROVE G[p] \intersect G[q] = {}
    <2>1. R[p] \intersect R[q] = {}
        BY <1>7
    <2>2. G[p] \subseteq R[p] /\ G[q] \subseteq R[q]
        BY <1>4 DEF GroupOf
    <2> QED
        BY <2>1, <2>2
<1>8. PICK w, U : w = AddsOf(rows, k, type, i) /\ U = GroupOf(rows, k)
    OBVIOUS
<1>9. Ints(w, U)
    BY <1>8, AggInt
<1>10. \A p \in J : G[p] \subseteq U
    BY <1>6, <1>8
<1>11. \A p \in J : Ints(w, G[p])
    BY <1>9, <1>10 DEF Ints
<1>12. ASSUME NEW p \in J PROVE f[p] = SumFunctionOnSet(w, G[p])
    <2>1. PICK g : g = AddsOf(R[p], k, type, i)
        OBVIOUS
    <2>2. f[p] = SumFunctionOnSet(g, G[p])
        BY <1>4, <2>1 DEF AggOf
    <2>3. \A r \in G[p] : g[r] = w[r]
        BY <1>4, <1>8, <1>10, <2>1, Zenon DEF AddsOf
    <2> QED
        BY <1>4, <2>2, <2>3, SumSame
<1>13. SumFunctionOnSet(w, UNION {G[p] : p \in J}) = SumFunctionOnSet(f, J)
    BY <1>4, <1>7, <1>11, <1>12, SumParts
<1> QED
    BY <1>2, <1>6, <1>8, <1>13 DEF AggOf

LEMMA TypesFacts ==
    ASSUME query \in Queries, NEW i \in 1 .. Len(query.aggs)
    PROVE  /\ TypesOf("pre")[i] = query.aggs[i]
           /\ TypesOf("post")[i] = PostAggType(query.aggs[i]) /\ TypesOf("post")[i] # "COUNT"
           /\ query.aggs[i] # "COUNT" => TypesOf("post")[i] = query.aggs[i]
BY AggFacts DEF TypesOf, PostAggType

\* Mid has what the first step returns of the parts that have rows of key k.
LEMMA TwoSteps ==
    ASSUME query \in Queries, NEW rows, AreGiven(rows), NEW J, IsFiniteSet(J), NEW R,
           \A p \in J : R[p] \subseteq rows, \A p, q \in J : p # q => R[p] \intersect R[q] = {},
           NEW k \in KeysOf(rows), GroupOf(rows, k) = GroupsOf(R, J, k),
           \A p \in J : k \in KeysOf(R[p]),
           NEW mid, AreGiven(mid), k \in KeysOf(mid), GroupOf(mid, k) = MidRows(R, J, k)
    PROVE  Aggregated(mid, k, TypesOf("post")) = Aggregated(rows, k, query.aggs)
<1>1. IsAggregate(Aggregated(mid, k, TypesOf("post")), mid, k, TypesOf("post"))
    BY AggregatedIs
<1>2. IsAggregate(Aggregated(rows, k, query.aggs), rows, k, query.aggs)
    BY AggregatedIs
<1>3. PICK h : h = [p \in J |-> AggRow(R[p], k, p, "pre")]
    OBVIOUS
<1>4. GroupOf(mid, k) = {h[p] : p \in J}
    BY <1>3 DEF MidRows
<1>5. \A p, q \in J : h[p] = h[q] => p = q
    BY <1>3 DEF AggRow
<1>6. ASSUME NEW i \in 1 .. Len(query.aggs)
      PROVE  AggOf(mid, k, TypesOf("post")[i], i) = AggOf(rows, k, query.aggs[i], i)
    <2>1. PICK type, f, g : /\ type = query.aggs[i] /\ f = [p \in J |-> AggOf(R[p], k, type, i)]
                            /\ g = AddsOf(mid, k, TypesOf("post")[i], i)
        OBVIOUS
    <2>2. Ints(f, J) /\ AggOf(rows, k, type, i) = SumFunctionOnSet(f, J)
        BY <2>1, SumOfSteps
    <2>3. AggOf(mid, k, TypesOf("post")[i], i) = SumFunctionOnSet(g, GroupOf(mid, k))
        BY <2>1, TypesFacts DEF AggOf
    <2>4. ASSUME NEW p \in J PROVE g[h[p]] = f[p]
        <3>1. AreGiven(R[p])
            BY PartGiven
        <3>2. IsAggregate(Aggregated(R[p], k, TypesOf("pre")), R[p], k, TypesOf("pre"))
            BY <3>1, AggregatedIs
        <3>3. h[p].vals = Aggregated(R[p], k, TypesOf("pre"))
            BY <1>3 DEF AggRow
        <3>4. h[p].vals[query.key_len + i] = AggOf(R[p], k, TypesOf("pre")[i], i)
            BY <3>2, <3>3 DEF IsAggregate
        <3>5. h[p] \in GroupOf(mid, k)
            BY <1>4
        <3>6. g[h[p]] = h[p].times * h[p].vals[query.key_len + i]
            BY <2>1, <3>5, TypesFacts DEF AddsOf
        <3>7. h[p].times = 1
            BY <1>3 DEF AggRow
        <3>8. f[p] \in Int /\ h[p].vals[query.key_len + i] = f[p]
            BY <2>1, <2>2, <3>4, TypesFacts DEF Ints
        <3> QED
            BY <3>6, <3>7, <3>8
    <2>5. SumFunctionOnSet(g, {h[p] : p \in J}) = SumFunctionOnSet(f, J)
        BY <1>5, <2>2, <2>4, SumImage
    <2> QED
        BY <1>4, <2>1, <2>2, <2>3, <2>5
<1> QED
    BY <1>1, <1>2, <1>6, AggregateOne

-----------------------------------------------------------------------------
(* The plan of an aggregation in two steps. *)

\* LOP c is the root of the joins, a the first step, b the repartitioning and n the second step.
IsTwoSteps(n, b, a, c) ==
    /\ query \in Queries /\ query.key_len # 0
    /\ n \in DOMAIN lops /\ b \in DOMAIN lops /\ a \in DOMAIN lops
    /\ lops[n].children[1] = b /\ lops[b].children[1] = a /\ lops[a].children[1] = c
    /\ IsPop(pops[n], n) /\ IsPop(pops[b], b) /\ IsPop(pops[a], a)
    /\ AggLop(lops[n], "post") /\ lops[n].preds = {} /\ lops[n].npartitions = query.degree
    /\ lops[b].lop = "Repartition" /\ lops[b].cols = {} /\ lops[b].virtcols = Keys \o Aggregates("pre")
    /\ lops[b].preds = {} /\ lops[b].partkeys = Keys /\ Keys \in Seq(ExprKeys) /\ lops[b].cpartitions = query.degree
    /\ AggLop(lops[a], "pre") /\ lops[a].preds = {}
    /\ IsSplit(c) /\ DOMAIN Rows[c] = 0 .. lops[a].npartitions - 1

LEMMA SplitFacts ==
    ASSUME query \in Queries, query.key_len # 0, NEW c, IsSplit(c), NEW S, S = Rows[c]
    PROVE  /\ \A p \in DOMAIN S : AreGiven(S[p]) /\ S[p] \subseteq Answer
           /\ \A p, q \in DOMAIN S : p # q => S[p] \intersect S[q] = {}
           /\ \A r \in Answer : \E p \in DOMAIN S : r \in S[p]
<1>1. \A p \in DOMAIN S : S[p] \subseteq Answer
    BY DEF IsSplit
<1>2. \A p \in DOMAIN S : AreGiven(S[p])
    BY <1>1, AnswerGiven, PartGiven DEF IsSplit
<1>3. \A p, q \in DOMAIN S : p # q => S[p] \intersect S[q] = {}
    BY DEF IsSplit
<1>4. \A r \in Answer : \E p \in DOMAIN S : r \in S[p]
    BY DEF IsSplit
<1> QED
    BY <1>1, <1>2, <1>3, <1>4

LEMMA FirstStep ==
    ASSUME Ready, NEW n, NEW b, NEW a, NEW c, IsTwoSteps(n, b, a, c), NEW S, S = Rows[c]
    PROVE  /\ DOMAIN Rows[a] = DOMAIN S
           /\ \A p \in DOMAIN S : \A o : o \in Rows[a][p] <=> \E k \in KeysOf(S[p]) : o = AggRow(S[p], k, p, "pre")
<1>1. Rows[a] = AggReturns(a, S)
    BY RowsOf DEF Ready, IsTwoSteps, AggLop, Input
<1>2. DOMAIN S = 0 .. lops[a].npartitions - 1
    BY DEF IsTwoSteps
<1>3. DOMAIN Rows[a] = DOMAIN S
    BY <1>1, <1>2 DEF AggReturns
<1>4. ASSUME NEW p \in DOMAIN S
      PROVE  \A o : o \in Rows[a][p] <=> \E k \in KeysOf(S[p]) : o = AggRow(S[p], k, p, "pre")
    <2>1. Rows[a][p] = Output(pops[a], HashAggRows(lops[a], S[p], p))
        BY <1>1, <1>2 DEF AggReturns, PartOf
    <2>2. AreGiven(S[p])
        BY SplitFacts DEF IsTwoSteps
    <2>3. "pre" \in Steps
        BY DEF Steps
    <2>4. IsAggOut(Rows[a][p], a, S[p], p, "pre")
        <3>1. PICK R : R = S[p]
            OBVIOUS
        <3>2. IsPop(pops[a], a) /\ AggLop(lops[a], "pre") /\ lops[a].preds \subseteq {Having}
              /\ query \in Queries /\ query.key_len # 0
            BY DEF IsTwoSteps
        <3>3. IsAggOut(Output(pops[a], HashAggRows(lops[a], R, p)), a, R, p, "pre")
            BY <2>2, <2>3, <3>1, <3>2, AggOut
        <3> QED
            BY <2>1, <3>1, <3>3
    <2> QED
        BY <2>4 DEF IsAggOut, IsTwoSteps
<1> QED
    BY <1>3, <1>4

\* A row of the first step, of key k.
IsMid(r, k) ==
    /\ IsRow(r) /\ IsGiven(r) /\ Key(r.vals) = k
    /\ r.vals[query.key_len] = k[query.key_len] /\ k[query.key_len] \in Int

LEMMA MidRow ==
    ASSUME query \in Queries, query.key_len # 0, NEW c, IsSplit(c), NEW S, S = Rows[c], NEW p \in DOMAIN S,
           NEW k \in KeysOf(S[p]), NEW r, r = AggRow(S[p], k, p, "pre")
    PROVE  IsMid(r, k)
<1>1. AreGiven(S[p])
    BY SplitFacts
<1>2. IsAggregate(Aggregated(S[p], k, TypesOf("pre")), S[p], k, TypesOf("pre"))
    BY <1>1, AggregatedIs
<1>3. PICK L, v : L = query.key_len /\ v = r.vals
    OBVIOUS
<1>4. L \in Nat /\ L \in 1 .. L
    <2>1. L \in Nat /\ L # 0
        BY <1>3, AggFacts
    <2> QED
        BY <2>1
<1>5. IsAggregate(v, S[p], k, TypesOf("pre"))
    BY <1>2, <1>3 DEF AggRow
<1>6. v[L] = k[L]
    BY <1>3, <1>4, <1>5 DEF IsAggregate
<1>7. k[L] \in Int
    BY <1>3, <1>4, <1>5, ElementOfSeq DEF IsAggregate
<1>8. IsGiven(r) /\ Key(v) = k
    BY <1>3, <1>5 DEF IsAggregate, IsGiven, AggRow
<1> QED
    BY <1>3, <1>6, <1>7, <1>8 DEF AggRow, IsMid, IsRow

LEMMA MidCodes ==
    ASSUME NEW n, NEW b, NEW a, NEW c, IsTwoSteps(n, b, a, c), NEW pop, pop = pops[b]
    PROVE  /\ ArePlaces(pop.projection) /\ pop.preds = {}
           /\ Last(pop.repart_key) = Code({query.key_len - 1}, 0)
<1>1. PICK L, map : L = query.key_len /\ map = OutputMap(a)
    OBVIOUS
<1>2. L \in Nat /\ L \in 1 .. L
    <2>1. L \in Nat /\ L # 0
        BY <1>1, AggFacts DEF IsTwoSteps
    <2> QED
        BY <2>1
<1>3. PICK qun, call : pop = Pop(b, qun, call)
    BY DEF IsPop, IsTwoSteps
<1>4. InputMap(b, qun) = map
    BY <1>1 DEF InputMap, IsTwoSteps
<1>5. "pre" \in Steps
    BY DEF Steps
<1>6. InPlace(map, "pre")
    BY <1>1, <1>5, OutPlaces DEF IsTwoSteps, AggLop
<1>7. HasCodes(pop, b, map)
    BY <1>3, <1>4, PopCodes
<1>8. ArePlaces(pop.projection)
    <2>1. pop.projection = Codes(map, {}, Keys \o Aggregates("pre"))
        BY <1>7 DEF HasCodes, IsTwoSteps
    <2> QED
        BY <1>5, <1>6, <2>1, PlainCodes DEF IsTwoSteps
<1>9. pop.preds = {}
    BY PredCodes DEF IsTwoSteps
<1>10. PICK keys : keys = Keys
    OBVIOUS
<1>11. Len(keys) = L /\ keys # << >> /\ Last(keys) = <<"CID", L>>
    <2>1. DOMAIN keys = 1 .. L /\ keys[L] = <<"CID", L>>
        BY <1>1, <1>2, <1>10 DEF Keys
    <2>2. keys \in Seq(ExprKeys)
        BY <1>10 DEF IsTwoSteps
    <2>3. Len(keys) = L
        BY <1>2, <2>1, <2>2, LenProperties
    <2>4. keys # << >>
        BY <1>2, <2>1
    <2> QED
        BY <2>1, <2>3, <2>4 DEF Last
<1>12. Last(pop.repart_key) = Compile(map, <<"CID", L>>)
    BY <1>1, <1>10, <1>11, RepartKeys DEF IsTwoSteps
<1>13. Compile(map, <<"CID", L>>) = Code({L - 1}, 0)
    BY <1>1, <1>2, <1>6 DEF InPlace
<1> QED
    BY <1>1, <1>8, <1>9, <1>12, <1>13

\* What is written between the steps.
LEMMA WrittenBetween ==
    ASSUME Ready, NEW n, NEW b, NEW a, NEW c, IsTwoSteps(n, b, a, c), NEW S, S = Rows[c]
    PROVE  \A o : o \in Written(pops[b], Rows[a]) <=>
                      \E p \in DOMAIN S : \E k \in KeysOf(S[p]) : o = AggRow(S[p], k, p, "pre")
<1>1. PICK f, pop : f = Rows[a] /\ pop = pops[b]
    OBVIOUS
<1>2. /\ DOMAIN f = DOMAIN S
      /\ \A p \in DOMAIN S : \A o : o \in f[p] <=> \E k \in KeysOf(S[p]) : o = AggRow(S[p], k, p, "pre")
    BY <1>1, FirstStep
<1>3. query \in Queries /\ query.key_len # 0 /\ IsSplit(c)
    BY DEF IsTwoSteps
<1>4. ArePlaces(pop.projection) /\ pop.preds = {}
    BY <1>1, MidCodes
<1>5. ASSUME NEW p \in DOMAIN S PROVE \A o : o \in Output(pop, f[p]) <=> o \in f[p]
    <2>1. PICK rows : rows = f[p]
        OBVIOUS
    <2>2. \A r \in rows : IsRow(r) /\ IsGiven(r)
        BY <1>2, <1>3, <2>1, MidRow DEF IsMid
    <2>3. \A o : o \in Output(pop, rows) <=> o \in rows /\ (pop.preds # {} => HavingHolds(Key(o.vals)))
        BY <1>3, <1>4, <2>2, PlainOutput
    <2> QED
        BY <1>4, <2>1, <2>3
<1>6. \A o : o \in Written(pop, f) <=> \E p \in DOMAIN f : o \in Output(pop, PartOf(f, p))
    BY DEF Written
<1>7. \A p \in DOMAIN f : PartOf(f, p) = f[p]
    BY DEF PartOf
<1>8. \A o : o \in Written(pop, f) <=> \E p \in DOMAIN S : o \in f[p]
    BY <1>2, <1>5, <1>6, <1>7
<1> QED
    BY <1>1, <1>2, <1>8

\* The last key decides where a group is aggregated.
KeyPlace(k) == k[query.key_len] % query.degree

\* Rows are those of the first step, of the parts S, that are read in partition q.
IsRead(rows, S, q) ==
    \A o : o \in rows <=> \E p \in DOMAIN S : \E k \in KeysOf(S[p]) : o = AggRow(S[p], k, p, "pre") /\ KeyPlace(k) = q

LEMMA ReadBetween ==
    ASSUME Ready, NEW n, NEW b, NEW a, NEW c, IsTwoSteps(n, b, a, c), NEW S, S = Rows[c], NEW f, f = Rows[b]
    PROVE  /\ DOMAIN f = 0 .. query.degree - 1
           /\ \A q \in DOMAIN f : IsRead(f[q], S, q)
<1>1. query \in Queries /\ query.key_len # 0 /\ IsSplit(c)
    BY DEF IsTwoSteps
<1>2. PICK W, pop : W = Written(pops[b], Rows[a]) /\ pop = pops[b]
    OBVIOUS
<1>3. f = WriteReturns(b, Rows[a])
    BY RowsOf DEF Ready, IsTwoSteps, Input
<1>4. lops[b].cpartitions = query.degree
    BY DEF IsTwoSteps
<1>5. f = [q \in 0 .. query.degree - 1 |-> {r \in W : PartitionOf(pop, r) % query.degree = q}]
    BY <1>2, <1>3, <1>4 DEF WriteReturns
<1>6. \A o : o \in W <=> \E p \in DOMAIN S : \E k \in KeysOf(S[p]) : o = AggRow(S[p], k, p, "pre")
    BY <1>2, WrittenBetween
<1>7. ASSUME NEW p \in DOMAIN S, NEW k \in KeysOf(S[p]), NEW r, r = AggRow(S[p], k, p, "pre")
      PROVE  PartitionOf(pop, r) % query.degree = KeyPlace(k)
    <2>1. PICK L, v, m : L = query.key_len /\ v = r.vals /\ m = Len(query.aggs)
        OBVIOUS
    <2>2. IsGiven(r) /\ v[L] = k[L]
        <3>1. IsMid(r, k)
            BY <1>1, <1>7, MidRow
        <3> QED
            BY <2>1, <3>1 DEF IsMid
    <2>3. PICK at \in Nat : at = L - 1 /\ at + 1 = L
        <3>1. L \in Nat /\ L # 0
            BY <1>1, <2>1, AggFacts
        <3> QED
            BY <3>1
    <2>4. v \in Seq(Int) /\ at < Len(v)
        <3>1. v \in Seq(Int) /\ Len(v) = L + m
            BY <2>1, <2>2 DEF IsGiven
        <3>2. L \in Nat /\ m \in Nat
            BY <1>1, <2>1, AggFacts
        <3> QED
            BY <2>3, <3>1, <3>2
    <2>5. Last(pop.repart_key) = Code({at}, 0)
        BY <1>2, <2>1, <2>3, MidCodes
    <2>6. Eval(Code({at}, 0), v) = v[at + 1]
        BY <2>4, EvalPlace
    <2>7. PartitionOf(pop, r) = k[L]
        BY <2>1, <2>2, <2>3, <2>5, <2>6 DEF PartitionOf
    <2> QED
        BY <2>1, <2>7 DEF KeyPlace
<1>8. ASSUME NEW q \in DOMAIN f, NEW o
      PROVE  o \in f[q] <=>
                 \E p \in DOMAIN S : \E k \in KeysOf(S[p]) : o = AggRow(S[p], k, p, "pre") /\ KeyPlace(k) = q
    <2>1. o \in f[q] <=> o \in W /\ PartitionOf(pop, o) % query.degree = q
        BY <1>5
    <2> QED
        BY <1>6, <1>7, <2>1
<1> QED
    BY <1>5, <1>8 DEF IsRead

LEMMA KeysIn ==
    ASSUME NEW rows, NEW k
    PROVE  k \in KeysOf(rows) <=> \E r \in rows : Key(r.vals) = k
BY DEF KeysOf

\* The parts with rows of key k.
PartsOf(S, k) == {p \in DOMAIN S : k \in KeysOf(S[p])}

\* A key of the answer is in a part.
LEMMA KeyParts ==
    ASSUME query \in Queries, query.key_len # 0, NEW c, IsSplit(c), NEW S, S = Rows[c], NEW k
    PROVE  /\ k \in KeysOf(Answer) <=> PartsOf(S, k) # {}
           /\ k \in KeysOf(Answer) => k[query.key_len] \in Int
           /\ GroupOf(Answer, k) = GroupsOf(S, PartsOf(S, k), k)
<1>1. /\ \A p \in DOMAIN S : S[p] \subseteq Answer
      /\ \A r \in Answer : \E p \in DOMAIN S : r \in S[p]
    BY SplitFacts
<1>2. k \in KeysOf(Answer) <=> \E p \in DOMAIN S : k \in KeysOf(S[p])
    <2>1. k \in KeysOf(Answer) <=> \E r \in Answer : Key(r.vals) = k
        BY KeysIn
    <2>2. \A p \in DOMAIN S : k \in KeysOf(S[p]) <=> \E r \in S[p] : Key(r.vals) = k
        BY KeysIn
    <2> QED
        BY <1>1, <2>1, <2>2
<1>3. ASSUME k \in KeysOf(Answer) PROVE k[query.key_len] \in Int
    <2>1. PICK p \in DOMAIN S : k \in KeysOf(S[p])
        BY <1>2, <1>3
    <2>2. IsMid(AggRow(S[p], k, p, "pre"), k)
        BY <2>1, MidRow
    <2> QED
        BY <2>2 DEF IsMid
<1>4. GroupOf(Answer, k) = GroupsOf(S, PartsOf(S, k), k)
    <2>1. ASSUME NEW r \in GroupOf(Answer, k) PROVE \E p \in PartsOf(S, k) : r \in GroupOf(S[p], k)
        <3>1. r \in Answer /\ Key(r.vals) = k
            BY DEF GroupOf
        <3>2. PICK p \in DOMAIN S : r \in S[p]
            BY <1>1, <3>1
        <3>3. k \in KeysOf(S[p])
            BY <3>1, <3>2, KeysIn
        <3> QED
            BY <3>1, <3>2, <3>3 DEF PartsOf, GroupOf
    <2>2. ASSUME NEW p \in PartsOf(S, k), NEW r \in GroupOf(S[p], k) PROVE r \in GroupOf(Answer, k)
        BY <1>1 DEF PartsOf, GroupOf
    <2> QED
        BY <2>1, <2>2 DEF GroupsOf
<1> QED
    BY <1>2, <1>3, <1>4 DEF PartsOf

\* What the second step is given in partition q.
LEMMA BetweenFacts ==
    ASSUME Ready, NEW n, NEW b, NEW a, NEW c, IsTwoSteps(n, b, a, c), NEW S, S = Rows[c], NEW f, f = Rows[b],
           NEW q \in DOMAIN f, NEW rows, rows = f[q]
    PROVE  /\ AreGiven(rows)
           /\ \A k : k \in KeysOf(rows) <=> k \in KeysOf(Answer) /\ KeyPlace(k) = q
           /\ \A k \in KeysOf(rows) : GroupOf(rows, k) = MidRows(S, PartsOf(S, k), k)
<1>1. query \in Queries /\ query.key_len # 0 /\ IsSplit(c)
    BY DEF IsTwoSteps
<1>2. \A o : o \in rows <=>
                 \E p \in DOMAIN S : \E k \in KeysOf(S[p]) : o = AggRow(S[p], k, p, "pre") /\ KeyPlace(k) = q
    <2>1. \A z \in DOMAIN f : IsRead(f[z], S, z)
        BY ReadBetween
    <2>2. IsRead(rows, S, q)
        BY <2>1
    <2> QED
        BY <2>2 DEF IsRead
<1>3. \A p \in DOMAIN S : \A k \in KeysOf(S[p]) : IsMid(AggRow(S[p], k, p, "pre"), k)
    BY <1>1, MidRow
<1>4. IsFiniteSet(rows)
    <2>1. PICK h : h = [r \in Answer |-> AggRow(S[Place(c, r.id)], Key(r.vals), Place(c, r.id), "pre")]
        OBVIOUS
    <2>2. ASSUME NEW o \in rows PROVE o \in {h[r] : r \in Answer}
        <3>1. PICK p \in DOMAIN S : \E k \in KeysOf(S[p]) : o = AggRow(S[p], k, p, "pre")
            BY <1>2
        <3>2. PICK k \in KeysOf(S[p]) : o = AggRow(S[p], k, p, "pre")
            BY <3>1
        <3>3. PICK r \in S[p] : Key(r.vals) = k
            BY KeysIn
        <3>4. r \in Answer /\ Place(c, r.id) = p
            BY <1>1, <3>1 DEF IsSplit
        <3>5. h[r] = o
            BY <2>1, <3>2, <3>3, <3>4
        <3> QED
            BY <3>4, <3>5
    <2>3. rows \subseteq {h[r] : r \in Answer}
        BY <2>2
    <2>4. IsFiniteSet({h[r] : r \in Answer})
        BY <1>1, AnswerFinite, ImageFinite
    <2> QED
        BY <2>3, <2>4, FS_Subset
<1>5. \A r \in rows : IsGiven(r)
    <2> SUFFICES ASSUME NEW r \in rows PROVE IsGiven(r)
        OBVIOUS
    <2>1. PICK p \in DOMAIN S : \E k \in KeysOf(S[p]) : r = AggRow(S[p], k, p, "pre")
        BY <1>2
    <2>2. PICK k \in KeysOf(S[p]) : r = AggRow(S[p], k, p, "pre")
        BY <2>1
    <2>3. IsMid(r, k)
        BY <1>3, <2>2
    <2> QED
        BY <2>3 DEF IsMid
<1>6. AreGiven(rows)
    BY <1>4, <1>5 DEF AreGiven, IsGiven
<1>7. ASSUME NEW k PROVE k \in KeysOf(rows) <=> k \in KeysOf(Answer) /\ KeyPlace(k) = q
    <2>1. ASSUME k \in KeysOf(rows) PROVE k \in KeysOf(Answer) /\ KeyPlace(k) = q
        <3>1. PICK r \in rows : Key(r.vals) = k
            BY <2>1, KeysIn
        <3>2. PICK p \in DOMAIN S : \E j \in KeysOf(S[p]) : r = AggRow(S[p], j, p, "pre") /\ KeyPlace(j) = q
            BY <1>2
        <3>3. PICK j \in KeysOf(S[p]) : r = AggRow(S[p], j, p, "pre") /\ KeyPlace(j) = q
            BY <3>2
        <3>4. j = k
            <4>1. IsMid(r, j)
                BY <1>3, <3>3
            <4> QED
                BY <3>1, <4>1 DEF IsMid
        <3>5. p \in PartsOf(S, k)
            BY <3>4 DEF PartsOf
        <3> QED
            BY <1>1, <3>3, <3>4, <3>5, KeyParts
    <2>2. ASSUME k \in KeysOf(Answer), KeyPlace(k) = q PROVE k \in KeysOf(rows)
        <3>1. PICK p \in PartsOf(S, k) : TRUE
            BY <1>1, <2>2, KeyParts
        <3>2. p \in DOMAIN S /\ k \in KeysOf(S[p])
            BY <3>1 DEF PartsOf
        <3>3. PICK r : r = AggRow(S[p], k, p, "pre")
            OBVIOUS
        <3>4. r \in rows
            BY <1>2, <2>2, <3>2, <3>3
        <3>5. IsMid(r, k)
            BY <1>3, <3>2, <3>3
        <3> QED
            BY <3>4, <3>5, KeysIn DEF IsMid
    <2> QED
        BY <2>1, <2>2
<1>8. ASSUME NEW k \in KeysOf(rows) PROVE GroupOf(rows, k) = MidRows(S, PartsOf(S, k), k)
    <2>1. KeyPlace(k) = q
        BY <1>7
    <2>2. ASSUME NEW r \in GroupOf(rows, k) PROVE \E p \in PartsOf(S, k) : r = AggRow(S[p], k, p, "pre")
        <3>1. r \in rows /\ Key(r.vals) = k
            BY DEF GroupOf
        <3>2. PICK p \in DOMAIN S : \E j \in KeysOf(S[p]) : r = AggRow(S[p], j, p, "pre") /\ KeyPlace(j) = q
            BY <1>2, <3>1
        <3>3. PICK j \in KeysOf(S[p]) : r = AggRow(S[p], j, p, "pre")
            BY <3>2
        <3>4. j = k
            <4>1. IsMid(r, j)
                BY <1>3, <3>3
            <4> QED
                BY <3>1, <4>1 DEF IsMid
        <3> QED
            BY <3>3, <3>4 DEF PartsOf
    <2>3. ASSUME NEW p \in PartsOf(S, k), NEW r, r = AggRow(S[p], k, p, "pre") PROVE r \in GroupOf(rows, k)
        <3>1. p \in DOMAIN S /\ k \in KeysOf(S[p])
            BY DEF PartsOf
        <3>2. r \in rows
            BY <1>2, <2>1, <2>3, <3>1
        <3>3. IsMid(r, k)
            BY <1>3, <2>3, <3>1
        <3> QED
            BY <3>2, <3>3 DEF GroupOf, IsMid
    <2> QED
        BY <2>2, <2>3 DEF MidRows
<1> QED
    BY <1>6, <1>7, <1>8

\* The second step makes of what it is given for a key what one step makes of the answer.
LEMMA SecondStep ==
    ASSUME Ready, NEW n, NEW b, NEW a, NEW c, IsTwoSteps(n, b, a, c), NEW f, f = Rows[b], NEW q \in DOMAIN f,
           NEW k \in KeysOf(f[q])
    PROVE  AggRow(f[q], k, q, "post") = GroupRow(k, q)
<1>1. PICK S, rows, J : S = Rows[c] /\ rows = f[q] /\ J = PartsOf(S, k)
    OBVIOUS
<1>2. query \in Queries /\ query.key_len # 0 /\ IsSplit(c) /\ DOMAIN S = 0 .. lops[a].npartitions - 1 /\ a \in DOMAIN lops
    BY <1>1 DEF IsTwoSteps
<1>3. /\ AreGiven(rows)
      /\ \A j : j \in KeysOf(rows) <=> j \in KeysOf(Answer) /\ KeyPlace(j) = q
      /\ \A j \in KeysOf(rows) : GroupOf(rows, j) = MidRows(S, PartsOf(S, j), j)
    BY <1>1, BetweenFacts
<1>4. k \in KeysOf(rows) /\ k \in KeysOf(Answer) /\ GroupOf(rows, k) = MidRows(S, J, k)
    BY <1>1, <1>3
<1>5. IsFiniteSet(J)
    <2>1. lops[a].npartitions \in Nat
        BY <1>2, LopIn DEF Ready, FormInv, LOPs
    <2>2. IsFiniteSet(DOMAIN S)
        BY <1>2, <2>1, FS_Interval
    <2>3. J \subseteq DOMAIN S
        BY <1>1 DEF PartsOf
    <2> QED
        BY <2>2, <2>3, FS_Subset
<1>6. /\ \A p \in J : S[p] \subseteq Answer /\ k \in KeysOf(S[p])
      /\ \A p, o \in J : p # o => S[p] \intersect S[o] = {}
    <2>1. /\ \A p \in DOMAIN S : S[p] \subseteq Answer
          /\ \A p, o \in DOMAIN S : p # o => S[p] \intersect S[o] = {}
        BY <1>1, <1>2, SplitFacts
    <2> QED
        BY <1>1, <2>1 DEF PartsOf
<1>7. GroupOf(Answer, k) = GroupsOf(S, J, k)
    BY <1>1, <1>2, KeyParts
<1>8. Aggregated(rows, k, TypesOf("post")) = Aggregated(Answer, k, query.aggs)
    <2>1. AreGiven(Answer) /\ AreGiven(rows) /\ query \in Queries /\ query.key_len # 0
        BY <1>2, <1>3, AnswerGiven DEF IsSplit
    <2>2. \A p \in J : S[p] \subseteq Answer
        BY <1>6
    <2>3. \A p \in J : k \in KeysOf(S[p])
        BY <1>6
    <2>4. \A p, o \in J : p # o => S[p] \intersect S[o] = {}
        BY <1>6
    <2> QED
        BY <1>4, <1>5, <1>7, <2>1, <2>2, <2>3, <2>4, TwoSteps
<1> QED
    BY <1>1, <1>8 DEF AggRow, GroupRow

LEMMA TwiceResult ==
    ASSUME Ready, NEW n, NEW b, NEW a, NEW c, IsTwoSteps(n, b, a, c), ~query.having
    PROVE  RightResult(n)
<1>1. PICK f : f = Rows[b]
    OBVIOUS
<1>2. query \in Queries /\ query.key_len # 0 /\ IsSplit(c)
    BY DEF IsTwoSteps
<1>3. DOMAIN f = 0 .. query.degree - 1
    BY <1>1, ReadBetween
<1>4. Rows[n] = AggReturns(n, f)
    BY <1>1, RowsOf DEF Ready, IsTwoSteps, AggLop, Input
<1>5. DOMAIN Rows[n] = DOMAIN f
    BY <1>3, <1>4 DEF AggReturns, IsTwoSteps
<1>6. ASSUME NEW q \in DOMAIN f
      PROVE  /\ AreGiven(f[q])
             /\ \A k : k \in KeysOf(f[q]) <=> k \in KeysOf(Answer) /\ KeyPlace(k) = q
    <2>1. PICK rows : rows = f[q]
        OBVIOUS
    <2>2. AreGiven(rows) /\ \A k : k \in KeysOf(rows) <=> k \in KeysOf(Answer) /\ KeyPlace(k) = q
        BY <1>1, <2>1, BetweenFacts
    <2> QED
        BY <2>1, <2>2
<1>7. ASSUME NEW q \in DOMAIN f
      PROVE  \A o : o \in Rows[n][q] <=> \E k \in KeysOf(f[q]) : o = AggRow(f[q], k, q, "post")
    <2>1. PICK rows : rows = f[q]
        OBVIOUS
    <2>2. Rows[n][q] = Output(pops[n], HashAggRows(lops[n], rows, q))
        BY <1>3, <1>4, <1>5, <2>1 DEF AggReturns, PartOf
    <2>3. IsPop(pops[n], n) /\ AggLop(lops[n], "post") /\ lops[n].preds = {} /\ lops[n].preds \subseteq {Having}
        BY DEF IsTwoSteps
    <2>4. AreGiven(rows) /\ "post" \in Steps
        BY <1>6, <2>1 DEF Steps
    <2>5. IsAggOut(Output(pops[n], HashAggRows(lops[n], rows, q)), n, rows, q, "post")
        BY <1>2, <2>3, <2>4, AggOut
    <2> QED
        BY <2>1, <2>2, <2>3, <2>5 DEF IsAggOut
<1>8. GroupKeys = KeysOf(Answer)
    BY DEF GroupKeys
<1>9. PICK P : P = [k \in GroupKeys |-> KeyPlace(k)]
    OBVIOUS
<1>10. \A k \in GroupKeys : P[k] \in DOMAIN Rows[n]
    <2> SUFFICES ASSUME NEW k \in KeysOf(Answer) PROVE KeyPlace(k) \in DOMAIN f
        BY <1>5, <1>8, <1>9
    <2>1. k[query.key_len] \in Int
        BY <1>2, KeyParts
    <2> QED
        BY <1>2, <1>3, <2>1, DegreeFacts DEF KeyPlace
<1>11. ASSUME NEW q \in DOMAIN f, NEW o
       PROVE  o \in Rows[n][q] <=> \E k \in GroupKeys : P[k] = q /\ o = GroupRow(k, q)
    <2>1. \A k \in KeysOf(f[q]) : AggRow(f[q], k, q, "post") = GroupRow(k, q)
        BY <1>1, SecondStep
    <2>2. o \in Rows[n][q] <=> \E k \in KeysOf(f[q]) : o = GroupRow(k, q)
        BY <1>7, <2>1
    <2> QED
        BY <1>6, <1>8, <1>9, <2>2
<1>12. IsGrouped(n, P)
    BY <1>5, <1>10, <1>11 DEF IsGrouped
<1> QED
    BY <1>2, <1>12, GroupedResult DEF IsSplit

-----------------------------------------------------------------------------
(* The result. *)

\* A query and a plan that filter nothing where two steps would aggregate: the first step has
\* the predicates of its input, which it does not find, and the second has no HAVING clause.
NoFilterInTwoSteps ==
    \A m \in DOMAIN lops :
        lops[m].lop = "Repartition" /\ lops[lops[m].children[1]].lop = "Aggregation" =>
            ~query.having /\ lops[lops[m].children[1]].preds = {}

LEMMA OnlyChild ==
    ASSUME FormInv, NEW n \in DOMAIN lops, lops[n].lop \in {"Repartition", "Aggregation"}
    PROVE  1 \in DOMAIN lops[n].children /\ lops[n].children[1] \in DOMAIN lops
<1>1. Len(lops[n].children) = 1
    BY DEF FormInv, Shape, Arity
<1>2. lops[n].children \in Seq(Nat)
    BY LopIn DEF FormInv, LOPs
<1>3. 1 \in DOMAIN lops[n].children
    BY <1>1, <1>2
<1>4. lops[n].children[1] \in 1 .. n - 1
    BY <1>3 DEF FormInv, Forest
<1> QED
    BY <1>3, <1>4 DEF FormInv, TypeInv

LEMMA RootOfJoins ==
    ASSUME Ready, ConstantsHold, NEW c \in DOMAIN lops, JoinRoot(lops[c]), Copies[c] = Copies[worklist[1]]
    PROVE  IsSplit(c) /\ DOMAIN Rows[c] = 0 .. lops[c].npartitions - 1
<1>1. DataLop(c)
    BY DEF DataLop, IsData, JoinRoot
<1> QED
    BY <1>1, RootSplit

LEMMA TwoStepsAre ==
    ASSUME Ready, ConstantsHold, NoFilterInTwoSteps, query.key_len # 0, NEW n \in DOMAIN lops, n = worklist[1],
           TwicePlan(lops, lops[n])
    PROVE  ~query.having /\ \E b, a, c : IsTwoSteps(n, b, a, c)
<1>1. PICK b, a, c : b = lops[n].children[1] /\ a = lops[b].children[1] /\ c = lops[a].children[1]
    BY Zenon
<1>2. /\ AggLop(lops[n], "post") /\ lops[n].preds = {} /\ lops[n].npartitions = query.degree
      /\ lops[b].lop = "Repartition" /\ lops[b].cols = {} /\ lops[b].virtcols = Keys \o Aggregates("pre")
      /\ lops[b].partkeys = Keys /\ lops[b].cpartitions = query.degree
      /\ AggLop(lops[a], "pre") /\ lops[a].npartitions = lops[c].npartitions
      /\ JoinRoot(lops[c])
    BY <1>1, Zenon DEF TwicePlan
<1>3. FormInv /\ query \in Queries
    BY Zenon DEF Ready, FormInv, TypeInv
<1>4. b \in DOMAIN lops
    BY <1>1, <1>2, <1>3, OnlyChild, Zenon DEF AggLop
<1>5. a \in DOMAIN lops
    BY <1>1, <1>2, <1>3, <1>4, OnlyChild, Zenon
<1>6. c \in DOMAIN lops
    BY <1>1, <1>2, <1>3, <1>5, OnlyChild, Zenon DEF AggLop
<1>7. IsSplit(c) /\ DOMAIN Rows[c] = 0 .. lops[a].npartitions - 1
    <2>1. Copies[n] = Copies[b]
        BY <1>1, <1>2, <1>3, CopiesOf, Zenon DEF AggLop, Input
    <2>2. Copies[b] = Copies[a]
        BY <1>1, <1>2, <1>3, <1>4, CopiesOf, Zenon DEF Input
    <2>3. Copies[a] = Copies[c]
        BY <1>1, <1>2, <1>3, <1>5, CopiesOf, Zenon DEF AggLop, Input
    <2>4. Copies[c] = Copies[worklist[1]]
        BY <2>1, <2>2, <2>3
    <2> QED
        BY <1>2, <1>6, <2>4, RootOfJoins, Zenon
<1>8. ~query.having /\ lops[a].preds = {}
    BY <1>1, <1>2, <1>4, Zenon DEF NoFilterInTwoSteps, AggLop
<1>9. lops[b].preds = {}
    <2>1. NodeOk(lops, lops[b])
        BY <1>4 DEF Ready, TreeInv, NodesOk
    <2> QED
        BY <1>2, <2>1 DEF NodeOk, RepartitionOk
<1>10. Keys \in Seq(ExprKeys)
    BY <1>2, <1>3, <1>4, LopIn DEF FormInv, LOPs
<1>11. IsPop(pops[n], n) /\ IsPop(pops[b], b) /\ IsPop(pops[a], a)
    BY <1>4, <1>5, AllPopped DEF Ready
<1>12. IsTwoSteps(n, b, a, c)
    BY <1>1, <1>2, <1>3, <1>4, <1>5, <1>7, <1>8, <1>9, <1>10, <1>11, Zenon DEF IsTwoSteps
<1> QED
    BY <1>8, <1>12

LEMMA RootResult ==
    ASSUME Ready, ConstantsAreApplied, NoFilterInTwoSteps, NEW n, n = worklist[1]
    PROVE  RightResult(n)
<1>1. /\ query \in Queries /\ FormInv /\ n \in DOMAIN lops
      /\ PlanOf(lops, lops[n])
    <2>1. Len(worklist) = 1 /\ worklist \in Seq(Nat) /\ ToSet(worklist) \subseteq DOMAIN lops
        BY DEF Ready, FormInv, TypeInv, Shape
    <2>2. worklist[1] \in ToSet(worklist)
        BY <2>1 DEF ToSet
    <2>3. PlanOf(lops, lops[worklist[1]])
        BY DEF Ready, TreeInv, RootInv
    <2> QED
        BY <2>1, <2>2, <2>3 DEF Ready, FormInv, TypeInv
<1>2. CASE ~ConstantsHold
    BY <1>2, ConstantFails, EmptyResult
<1>3. CASE ConstantsHold /\ query.key_len = 0
    <2>1. JoinRoot(lops[n])
        BY <1>1, <1>3 DEF PlanOf
    <2>2. IsSplit(n)
        BY <1>1, <1>3, <2>1, RootOfJoins
    <2> QED
        BY <1>1, <1>3, <2>2, PlainResult
<1>4. CASE ConstantsHold /\ query.key_len # 0 /\ OncePlan(lops, lops[n])
    <2>1. PICK c : c = lops[n].children[1]
        OBVIOUS
    <2>2. JoinRoot(lops[c]) /\ lops[n].lop = "Aggregation"
        BY <1>4, <2>1 DEF OncePlan, AggLop
    <2>3. c \in DOMAIN lops
        BY <1>1, <2>1, <2>2, OnlyChild
    <2>4. Copies[n] = Copies[c]
        BY <1>1, <2>1, <2>2, CopiesOf, Zenon DEF Input
    <2>5. IsSplit(c) /\ DOMAIN Rows[c] = 0 .. lops[c].npartitions - 1
        BY <1>4, <2>2, <2>3, <2>4, RootOfJoins
    <2> QED
        BY <1>1, <1>4, <2>1, <2>5, OnceResult
<1>5. CASE ConstantsHold /\ query.key_len # 0 /\ TwicePlan(lops, lops[n])
    BY <1>1, <1>5, TwoStepsAre, TwiceResult
<1> QED
    BY <1>1, <1>2, <1>3, <1>4, <1>5 DEF PlanOf

DataLops == {n \in DOMAIN lops : DataLop(n)}

LEMMA WhenReady == PlanInv /\ pc = "compiled" /\ KeysInOrder => Ready
BY DEF PlanInv, Ready

\* Below the aggregations, each partition of each LOP has the rows of its tables that satisfy
\* the predicates about them and belong in it, each as often as Copies says, and no row is
\* missing that the answer is made of: unless a join compares its keys in another order than
\* that of its predicates, and so finds other rows.
RowsAreRight == pc = "compiled" /\ KeysInOrder => \A n \in DataLops : Right(n)

\* Scans, joins and repartitionings, as compiled, lose no row, make none up and put none in two
\* partitions: the legs of a join are partitioned by keys that agree on what joins
\* (harmonize_partitions, ExprEqClass), and what the operators evaluate is where
\* compute_projection_map says.  A row is returned more than once for one reason only, that
\* the hash join files a row of its build side once for each of its columns.
THEOREM RowsCorrect == Spec => []RowsAreRight
<1>1. PlanInv => RowsAreRight
    BY WhenReady, AllRight DEF RowsAreRight, DataLops
<1> QED
    BY <1>1, PlanInvariant, PTL

\* The plan that build_logical_plan and the rewrites make, compiled with the positions of
\* compute_projection_map, returns what the query asks for, in one step of aggregation, in
\* two or without any, whatever the query and the number of partitions: the rows that join,
\* or their groups, where a row of a join is returned, counted and summed up once for each
\* choice of a column of the build sides.  ResultIsRight leaves out a query whose joins compare
\* their keys in another order than that of the predicates; of one that ConstantsAreApplied or
\* NoFilterInTwoSteps leaves out, the code does forget a predicate.
THEOREM ResultCorrect == Spec => [](ConstantsAreApplied /\ NoFilterInTwoSteps => ResultIsRight)
<1>1. PlanInv /\ ConstantsAreApplied /\ NoFilterInTwoSteps => ResultIsRight
    <2>1. CASE pc = "compiled" /\ KeysInOrder
        BY <2>1, WhenReady, RootResult, ResultDef
    <2>2. CASE ~(pc = "compiled" /\ KeysInOrder)
        BY <2>2 DEF ResultIsRight
    <2> QED
        BY <2>1, <2>2
<1>2. PlanInv => (ConstantsAreApplied /\ NoFilterInTwoSteps => ResultIsRight)
    BY <1>1
<1> QED
    BY <1>2, PlanInvariant, PTL
=============================================================================
