---------------------------- MODULE DataInduction ----------------------------
(***************************************************************************)
(* Induction over numbers, sequences and finite sets, with a set for the   *)
(* predicate, and what it shows of FlattenSeq and of sums.                 *)
(***************************************************************************)
EXTENDS Integers, SequencesExt, FiniteSetTheorems, SequenceTheorems, TLAPS,
        WellFoundedInduction

LessThan == {pair \in Nat \X Nat : pair[1] < pair[2]}

LEMMA LessThanIsWellFounded == IsWellFoundedOn(LessThan, Nat)
BY NatLessThanWellFounded, Zenon DEF OpToRel, LessThan

LEMMA NatInd ==
    ASSUME NEW S, 0 \in S, \A n \in Nat : n \in S => n + 1 \in S
    PROVE  Nat \subseteq S
<1> DEFINE T == {n \in Nat : n \notin S}
<1>1. SUFFICES ASSUME T # {} PROVE FALSE
    OBVIOUS
<1>2. PICK x \in T : \A y \in T : ~ (<<y, x>> \in LessThan)
    <2> HIDE DEF T
    <2>1. T \subseteq Nat
        BY DEF T
    <2> QED
        BY <1>1, <2>1, LessThanIsWellFounded, WFMin
<1>3. x # 0 /\ x \in Nat /\ x - 1 \in Nat
    OBVIOUS
<1>4. x - 1 \in T
    BY <1>3
<1>5. <<x - 1, x>> \in LessThan
    BY <1>3 DEF LessThan
<1> QED
    BY <1>2, <1>4, <1>5

LEMMA SeqInd ==
    ASSUME NEW X, NEW S, << >> \in S, \A s \in Seq(X) : \A x \in X : s \in S => Append(s, x) \in S
    PROVE  Seq(X) \subseteq S
<1> DEFINE T == {n \in Nat : \A s \in Seq(X) : Len(s) = n => s \in S}
<1>1. 0 \in T
    BY EmptySeq
<1>2. ASSUME NEW n \in Nat, n \in T PROVE n + 1 \in T
    <2> SUFFICES ASSUME NEW s \in Seq(X), Len(s) = n + 1 PROVE s \in S
        OBVIOUS
    <2>1. s # << >>
        OBVIOUS
    <2>2. PICK r \in Seq(X), x \in X : s = Append(r, x)
        BY <2>1, SequenceEmptyOrAppend
    <2>3. Len(r) = n
        BY <2>2, AppendProperties, LenProperties
    <2>4. r \in S
        BY <1>2, <2>3
    <2> QED
        BY <2>2, <2>4
<1>3. Nat \subseteq T
    <2> HIDE DEF T
    <2> QED
        BY <1>1, <1>2, NatInd
<1>4. \A s \in Seq(X) : Len(s) \in T
    BY <1>3, LenProperties
<1> QED
    BY <1>4

-----------------------------------------------------------------------------
(* FlattenSeq. *)

\* f is the function the definition of FlattenSeq(s) is by.
IsFlat(f, s, n) == f = [i \in 1 .. n |-> IF i = 1 THEN s[i] ELSE f[i - 1] \o s[i]]

LEMMA FlatStep ==
    ASSUME NEW s, NEW n, NEW f, IsFlat(f, s, n), NEW i \in 1 .. n
    PROVE  f[i] = IF i = 1 THEN s[i] ELSE f[i - 1] \o s[i]
<1> DEFINE h == [j \in 1 .. n |-> IF j = 1 THEN s[j] ELSE f[j - 1] \o s[j]]
<1>1. f = h
    BY DEF IsFlat
<1>2. h[i] = IF i = 1 THEN s[i] ELSE f[i - 1] \o s[i]
    OBVIOUS
<1> HIDE DEF h
<1> QED
    BY <1>1, <1>2

LEMMA FlatGrows ==
    ASSUME NEW s, NEW n \in Nat, NEW f, IsFlat(f, s, n)
    PROVE  \E g : /\ IsFlat(g, s, n + 1)
                  /\ g[n + 1] = IF n = 0 THEN s[1] ELSE f[n] \o s[n + 1]
<1> DEFINE g == [i \in 1 .. n + 1 |-> IF i <= n THEN f[i]
                                      ELSE IF n = 0 THEN s[1] ELSE f[n] \o s[n + 1]]
<1>1. \A i \in 1 .. n : g[i] = f[i] /\ f[i] = IF i = 1 THEN s[i] ELSE f[i - 1] \o s[i]
    BY FlatStep
<1>2. g[n + 1] = IF n = 0 THEN s[1] ELSE f[n] \o s[n + 1]
    OBVIOUS
<1>3. ASSUME NEW i \in 1 .. n + 1
      PROVE  g[i] = IF i = 1 THEN s[i] ELSE g[i - 1] \o s[i]
    <2>1. CASE i \in 1 .. n
        <3>1. i # 1 => i - 1 \in 1 .. n
            BY <2>1
        <3> HIDE DEF g
        <3> QED
            BY <1>1, <2>1, <3>1
    <2>2. CASE i = n + 1
        <3>1. i # 1 => n \in 1 .. n /\ n # 0 /\ i - 1 = n
            BY <2>2
        <3>2. i = 1 => n = 0
            BY <2>2
        <3> HIDE DEF g
        <3> QED
            BY <1>1, <1>2, <2>2, <3>1, <3>2
    <2> QED
        BY <2>1, <2>2
<1>4. g = [i \in 1 .. n + 1 |-> g[i]]
    OBVIOUS
<1> HIDE DEF g
<1>5. IsFlat(g, s, n + 1)
    BY <1>3, <1>4 DEF IsFlat
<1> QED
    BY <1>2, <1>5

LEMMA FlatExists ==
    ASSUME NEW s, NEW n \in Nat
    PROVE  \E f : IsFlat(f, s, n)
<1> DEFINE T == {m \in Nat : \E f : IsFlat(f, s, m)}
<1>1. 0 \in T
    <2>1. IsFlat(<< >>, s, 0)
        BY DEF IsFlat
    <2> QED
        BY <2>1
<1>2. \A m \in Nat : m \in T => m + 1 \in T
    BY FlatGrows
<1>3. Nat \subseteq T
    <2> HIDE DEF T
    <2> QED
        BY <1>1, <1>2, NatInd
<1> QED
    BY <1>3

\* Two such functions agree as far as the sequences do.
LEMMA FlatUnique ==
    ASSUME NEW s, NEW t, NEW m \in Nat, NEW n \in Nat, NEW f, NEW g,
           IsFlat(f, s, m), IsFlat(g, t, n), m <= n, \A i \in 1 .. m : s[i] = t[i]
    PROVE  \A i \in 1 .. m : f[i] = g[i]
<1> DEFINE T == {k \in Nat : k \in 1 .. m => f[k] = g[k]}
<1>1. 0 \in T
    OBVIOUS
<1>2. ASSUME NEW k \in Nat, k \in T PROVE k + 1 \in T
    <2> SUFFICES ASSUME k + 1 \in 1 .. m PROVE f[k + 1] = g[k + 1]
        OBVIOUS
    <2>1. /\ f[k + 1] = IF k + 1 = 1 THEN s[k + 1] ELSE f[k + 1 - 1] \o s[k + 1]
          /\ g[k + 1] = IF k + 1 = 1 THEN t[k + 1] ELSE g[k + 1 - 1] \o t[k + 1]
        BY FlatStep
    <2>2. CASE k = 0
        BY <2>1, <2>2
    <2>3. CASE k # 0
        <3>1. f[k] = g[k] /\ k + 1 - 1 = k /\ s[k + 1] = t[k + 1]
            BY <1>2, <2>3
        <3> QED
            BY <2>1, <2>3, <3>1
    <2> QED
        BY <2>2, <2>3
<1>3. Nat \subseteq T
    <2> HIDE DEF T
    <2> QED
        BY <1>1, <1>2, NatInd
<1> QED
    BY <1>3

LEMMA FlattenDef ==
    ASSUME NEW s, Len(s) \in Nat, Len(s) # 0
    PROVE  \E f : IsFlat(f, s, Len(s)) /\ FlattenSeq(s) = f[Len(s)]
<1>1. \E f : f = [i \in 1 .. Len(s) |-> IF i = 1 THEN s[i] ELSE f[i - 1] \o s[i]]
    BY FlatExists DEF IsFlat
<1> DEFINE h == CHOOSE f : f = [i \in 1 .. Len(s) |-> IF i = 1 THEN s[i] ELSE f[i - 1] \o s[i]]
<1>2. IsFlat(h, s, Len(s))
    BY <1>1 DEF IsFlat
<1>3. FlattenSeq(s) = h[Len(s)]
    BY DEF FlattenSeq
<1> QED
    BY <1>2, <1>3

LEMMA FlattenEmpty == FlattenSeq(<< >>) = << >>
BY DEF FlattenSeq

LEMMA FlattenAppendRaw ==
    ASSUME NEW X, NEW s \in Seq(X), NEW x \in X
    PROVE  FlattenSeq(Append(s, x)) = IF s = << >> THEN x ELSE FlattenSeq(s) \o x
<1> DEFINE t == Append(s, x)
           n == Len(s)
<1>1. /\ n \in Nat /\ Len(t) = n + 1 /\ t[n + 1] = x
      /\ \A i \in 1 .. n : t[i] = s[i]
    BY AppendProperties, LenProperties
<1> HIDE DEF t, n
<1>2. PICK g : IsFlat(g, t, n + 1) /\ FlattenSeq(t) = g[n + 1]
    BY <1>1, FlattenDef
<1>3. g[n + 1] = IF n + 1 = 1 THEN t[n + 1] ELSE g[n + 1 - 1] \o t[n + 1]
    BY <1>1, <1>2, FlatStep
<1>4. CASE n = 0
    <2>1. s = << >>
        BY <1>4, EmptySeq DEF n
    <2> QED
        BY <1>1, <1>2, <1>3, <1>4, <2>1 DEF t
<1>5. CASE n # 0
    <2>1. s # << >>
        BY <1>5, EmptySeq DEF n
    <2>2. PICK f : IsFlat(f, s, n) /\ FlattenSeq(s) = f[n]
        BY <1>1, <1>5, FlattenDef DEF n
    <2>3. f[n] = g[n]
        <3>1. \A i \in 1 .. n : s[i] = t[i]
            BY <1>1
        <3>2. n \in 1 .. n /\ n <= n + 1 /\ n + 1 \in Nat
            BY <1>1, <1>5
        <3> QED
            BY <1>1, <1>2, <2>2, <3>1, <3>2, FlatUnique
    <2>4. n + 1 - 1 = n /\ n + 1 # 1
        BY <1>1, <1>5
    <2> QED
        BY <1>1, <1>2, <1>3, <2>1, <2>2, <2>3, <2>4 DEF t
<1> QED
    BY <1>4, <1>5

LEMMA FlattenType ==
    ASSUME NEW X, NEW s \in Seq(Seq(X))
    PROVE  FlattenSeq(s) \in Seq(X)
<1> DEFINE T == {r \in Seq(Seq(X)) : FlattenSeq(r) \in Seq(X)}
<1>1. << >> \in T
    BY FlattenEmpty, EmptySeq
<1>2. ASSUME NEW r \in Seq(Seq(X)), NEW x \in Seq(X), r \in T PROVE Append(r, x) \in T
    BY <1>2, FlattenAppendRaw, AppendProperties, ConcatProperties
<1>3. Seq(Seq(X)) \subseteq T
    <2> HIDE DEF T
    <2> QED
        BY <1>1, <1>2, SeqInd
<1> QED
    BY <1>3

LEMMA FlattenAppend ==
    ASSUME NEW X, NEW s \in Seq(Seq(X)), NEW x \in Seq(X)
    PROVE  FlattenSeq(Append(s, x)) = FlattenSeq(s) \o x
<1>1. CASE s = << >>
    <2>1. FlattenSeq(s) \o x = x
        BY <1>1, FlattenEmpty, ConcatEmptySeq
    <2> QED
        BY <1>1, <2>1, FlattenAppendRaw
<1> QED
    BY <1>1, FlattenAppendRaw

\* Concatenation with a name, for steps that need its law and none of its definition.
Cat(a, b) == a \o b
Associative(S) == \A a, b, c \in S : Cat(Cat(a, b), c) = Cat(a, Cat(b, c))

LEMMA CatAssociative == \A X : Associative(Seq(X))
BY ConcatAssociative DEF Associative, Cat

LEMMA FlattenConcat ==
    ASSUME NEW X, NEW s \in Seq(Seq(X)), NEW t \in Seq(Seq(X))
    PROVE  FlattenSeq(s \o t) = FlattenSeq(s) \o FlattenSeq(t)
<1> DEFINE T == {r \in Seq(Seq(X)) : FlattenSeq(s \o r) = FlattenSeq(s) \o FlattenSeq(r)}
<1>0. FlattenSeq(s) \in Seq(X)
    BY FlattenType
<1>1. << >> \in T
    <2>1. s \o << >> = s /\ FlattenSeq(s) \o << >> = FlattenSeq(s) /\ << >> \in Seq(Seq(X))
        BY <1>0, ConcatEmptySeq, EmptySeq
    <2> QED
        BY <2>1, FlattenEmpty
<1>2. ASSUME NEW r \in Seq(Seq(X)), NEW x \in Seq(X), r \in T PROVE Append(r, x) \in T
    <2>1. s \o Append(r, x) = Append(s \o r, x)
        <3>1. Append(r, x) = r \o <<x>> /\ Append(s \o r, x) = (s \o r) \o <<x>>
            BY AppendIsConcat, ConcatProperties
        <3>2. <<x>> \in Seq(Seq(X))
            OBVIOUS
        <3> QED
            BY <3>1, <3>2, ConcatAssociative
    <2>2. FlattenSeq(Append(s \o r, x)) = (FlattenSeq(s) \o FlattenSeq(r)) \o x
        <3>1. s \o r \in Seq(Seq(X))
            BY ConcatProperties
        <3>2. FlattenSeq(Append(s \o r, x)) = FlattenSeq(s \o r) \o x
            BY <3>1, FlattenAppend
        <3> QED
            BY <1>2, <3>2
    <2>3. (FlattenSeq(s) \o FlattenSeq(r)) \o x = FlattenSeq(s) \o (FlattenSeq(r) \o x)
        <3>1. FlattenSeq(r) \in Seq(X)
            BY FlattenType
        <3>2. Associative(Seq(X))
            BY CatAssociative, Zenon
        <3>3. Cat(Cat(FlattenSeq(s), FlattenSeq(r)), x) = Cat(FlattenSeq(s), Cat(FlattenSeq(r), x))
            BY <1>0, <3>1, <3>2, Zenon DEF Associative
        <3> QED
            BY <3>3, Zenon DEF Cat
    <2>4. Append(r, x) \in Seq(Seq(X)) /\ FlattenSeq(Append(r, x)) = FlattenSeq(r) \o x
        BY FlattenAppend, AppendProperties
    <2> QED
        BY <2>1, <2>2, <2>3, <2>4
<1>3. Seq(Seq(X)) \subseteq T
    <2> HIDE DEF T
    <2> QED
        BY <1>1, <1>2, SeqInd
<1> QED
    BY <1>3

\* What is flattened so far is a prefix of the whole.
LEMMA FlattenPrefix ==
    ASSUME NEW X, NEW s \in Seq(Seq(X)), NEW k \in 0 .. Len(s)
    PROVE  /\ FlattenSeq(SubSeq(s, 1, k)) \in Seq(X)
           /\ Len(FlattenSeq(SubSeq(s, 1, k))) <= Len(FlattenSeq(s))
           /\ SubSeq(FlattenSeq(s), 1, Len(FlattenSeq(SubSeq(s, 1, k)))) = FlattenSeq(SubSeq(s, 1, k))
<1> DEFINE a == SubSeq(s, 1, k)
           b == SubSeq(s, k + 1, Len(s))
           n == Len(s)
<1>0. n \in Nat /\ k \in Nat /\ k <= n /\ \A i \in 1 .. n : s[i] \in Seq(X)
    BY LenProperties, ElementOfSeq
<1>1. a \in Seq(Seq(X)) /\ b \in Seq(Seq(X))
    <2>1. a \in Seq(Seq(X))
        BY <1>0, SubSeqProperties
    <2>2. b \in Seq(Seq(X))
        BY <1>0, SubSeqProperties
    <2> QED
        BY <2>1, <2>2
<1>2. s = a \o b
    <2>1. SubSeq(s, 1, k) \o SubSeq(s, k + 1, n) = SubSeq(s, 1, n)
        <3>1. 1 \in 1 .. n + 1 /\ k \in 1 - 1 .. n /\ n \in k .. n
            BY <1>0
        <3> QED
            BY <3>1, ConcatAdjacentSubSeq
    <2> QED
        BY <2>1, SubSeqFull
<1> HIDE DEF a, b, n
<1> DEFINE x == FlattenSeq(a)
           y == FlattenSeq(b)
<1>3. FlattenSeq(s) = x \o y /\ x \in Seq(X) /\ y \in Seq(X)
    BY <1>1, <1>2, FlattenConcat, FlattenType
<1> HIDE DEF x, y
<1>4. /\ Len(x) \in Nat /\ Len(y) \in Nat /\ Len(x \o y) = Len(x) + Len(y)
      /\ x \o y \in Seq(X)
      /\ \A i \in 1 .. Len(x) : (x \o y)[i] = x[i]
    BY <1>3, ConcatProperties, LenProperties
<1>5. SubSeq(x \o y, 1, Len(x)) = x
    <2>1. \A i \in 1 .. Len(x) : (x \o y)[i] \in X
        BY <1>4, ElementOfSeq
    <2>2. /\ SubSeq(x \o y, 1, Len(x)) \in Seq(X)
          /\ Len(SubSeq(x \o y, 1, Len(x))) = Len(x)
          /\ \A i \in 1 .. Len(x) : SubSeq(x \o y, 1, Len(x))[i] = (x \o y)[i]
        BY <1>4, <2>1, SubSeqProperties
    <2> QED
        BY <1>3, <1>4, <2>2, SeqEqual
<1> QED
    BY <1>3, <1>4, <1>5 DEF x, a

\* More of the parts, no fewer members.
LEMMA FlattenMonotone ==
    ASSUME NEW X, NEW s \in Seq(Seq(X)), NEW j \in 0 .. Len(s), NEW k \in j .. Len(s)
    PROVE  Len(FlattenSeq(SubSeq(s, 1, j))) <= Len(FlattenSeq(SubSeq(s, 1, k)))
<1>0. Len(s) \in Nat
    BY LenProperties
<1>1. PICK a, b : a = SubSeq(s, 1, j) /\ b = SubSeq(s, j + 1, k)
    OBVIOUS
<1>2. a \in Seq(Seq(X)) /\ b \in Seq(Seq(X))
    <2>1. \A i \in 1 .. j : s[i] \in Seq(X)
        BY <1>0, ElementOfSeq
    <2>2. \A i \in j + 1 .. k : s[i] \in Seq(X)
        BY <1>0, ElementOfSeq
    <2>3. a \in Seq(Seq(X))
        BY <1>0, <1>1, <2>1, SubSeqProperties
    <2>4. b \in Seq(Seq(X))
        BY <1>0, <1>1, <2>2, SubSeqProperties
    <2> QED
        BY <2>3, <2>4
<1>3. a \o b = SubSeq(s, 1, k)
    <2>1. 1 \in 1 .. Len(s) + 1 /\ j \in 1 - 1 .. Len(s)
        BY <1>0
    <2> QED
        BY <1>0, <1>1, <2>1, ConcatAdjacentSubSeq
<1>4. FlattenSeq(a \o b) = FlattenSeq(a) \o FlattenSeq(b)
    BY <1>2, FlattenConcat
<1>5. PICK u, v : u = FlattenSeq(a) /\ v = FlattenSeq(b)
    OBVIOUS
<1>6. u \in Seq(X) /\ v \in Seq(X)
    BY <1>2, <1>5, FlattenType
<1>7. Len(u \o v) = Len(u) + Len(v) /\ Len(u) \in Nat /\ Len(v) \in Nat
    BY <1>6, ConcatProperties, LenProperties
<1> QED
    <2>1. FlattenSeq(SubSeq(s, 1, k)) = u \o v
        BY <1>3, <1>4, <1>5
    <2>2. FlattenSeq(SubSeq(s, 1, j)) = u
        BY <1>1, <1>5
    <2> QED
        BY <1>7, <2>1, <2>2

\* The values of g along s.
Images(g, s) == [i \in DOMAIN s |-> g[s[i]]]

LEMMA ImagesConcat ==
    ASSUME NEW X, NEW s \in Seq(X), NEW t \in Seq(X), NEW g
    PROVE  Images(g, s \o t) = Images(g, s) \o Images(g, t)
<1> DEFINE a == Images(g, s)
           b == Images(g, t)
           c == Images(g, s \o t)
           V == {g[s[i]] : i \in DOMAIN s} \union {g[t[i]] : i \in DOMAIN t}
<1>1. /\ DOMAIN s = 1 .. Len(s) /\ Len(s) \in Nat
      /\ DOMAIN t = 1 .. Len(t) /\ Len(t) \in Nat
      /\ DOMAIN (s \o t) = 1 .. Len(s) + Len(t)
    BY LenProperties, ConcatProperties
<1>2. /\ a \in Seq(V) /\ Len(a) = Len(s)
      /\ b \in Seq(V) /\ Len(b) = Len(t)
    BY <1>1 DEF Images
<1>3. \A i \in 1 .. Len(s) + Len(t) :
            (s \o t)[i] = IF i <= Len(s) THEN s[i] ELSE t[i - Len(s)]
    BY ConcatProperties
<1>4. c \in Seq(V) /\ Len(c) = Len(s) + Len(t)
    <2>1. \A i \in 1 .. Len(s) + Len(t) : g[(s \o t)[i]] \in V
        BY <1>1, <1>3
    <2> HIDE DEF V
    <2> QED
        BY <1>1, <2>1 DEF Images
<1>5. \A i \in 1 .. Len(c) : c[i] = (a \o b)[i]
    <2> SUFFICES ASSUME NEW i \in 1 .. Len(s) + Len(t) PROVE c[i] = (a \o b)[i]
        BY <1>4
    <2>1. c[i] = g[(s \o t)[i]]
        BY <1>1 DEF Images
    <2>2. (a \o b)[i] = IF i <= Len(s) THEN a[i] ELSE b[i - Len(s)]
        <3> HIDE DEF a, b, V
        <3> QED
            BY <1>2, ConcatProperties
    <2>3. i <= Len(s) => a[i] = g[s[i]]
        BY <1>1 DEF Images
    <2>4. ~(i <= Len(s)) => b[i - Len(s)] = g[t[i - Len(s)]]
        BY <1>1 DEF Images
    <2> HIDE DEF a, b, c, V
    <2> QED
        BY <1>3, <2>1, <2>2, <2>3, <2>4
<1>6. c = a \o b
    <2> HIDE DEF a, b, c, V
    <2>1. a \o b \in Seq(V) /\ Len(a \o b) = Len(c)
        <3>1. a \in Seq(V) /\ b \in Seq(V)
            BY <1>2
        <3>2. a \o b \in Seq(V) /\ Len(a \o b) = Len(a) + Len(b)
            BY <3>1, ConcatProperties
        <3> QED
            BY <1>2, <1>4, <3>2
    <2> QED
        BY <1>4, <1>5, <2>1, SeqEqual
<1> QED
    BY <1>6

LEMMA ImagesAppend ==
    ASSUME NEW X, NEW s \in Seq(X), NEW x \in X, NEW g
    PROVE  Images(g, Append(s, x)) = Append(Images(g, s), g[x])
<1>1. /\ DOMAIN s = 1 .. Len(s) /\ Len(s) \in Nat
      /\ DOMAIN Append(s, x) = 1 .. Len(s) + 1
      /\ \A i \in 1 .. Len(s) : Append(s, x)[i] = s[i]
      /\ Append(s, x)[Len(s) + 1] = x
    BY LenProperties, AppendProperties
<1> DEFINE V == {g[s[i]] : i \in DOMAIN s} \union {g[x]}
<1>2. PICK a, b : a = Images(g, s) /\ b = Images(g, Append(s, x))
    OBVIOUS
<1>3. a \in Seq(V) /\ Len(a) = Len(s) /\ \A i \in 1 .. Len(s) : a[i] = g[s[i]]
    BY <1>1, <1>2 DEF Images
<1>4. /\ DOMAIN b = 1 .. Len(s) + 1
      /\ \A i \in 1 .. Len(s) + 1 : b[i] = IF i \in 1 .. Len(s) THEN g[s[i]] ELSE g[x]
      /\ b = [i \in 1 .. Len(s) + 1 |-> b[i]]
    BY <1>1, <1>2 DEF Images
<1>5. \A i \in 1 .. Len(s) + 1 : b[i] \in V
    BY <1>1, <1>4
<1>6. g[x] \in V
    OBVIOUS
<1> HIDE DEF V
<1>7. b \in Seq(V) /\ Len(b) = Len(s) + 1
    BY <1>1, <1>4, <1>5
<1>8. /\ Append(a, g[x]) \in Seq(V) /\ Len(Append(a, g[x])) = Len(s) + 1
      /\ \A i \in 1 .. Len(s) : Append(a, g[x])[i] = a[i]
      /\ Append(a, g[x])[Len(s) + 1] = g[x]
    BY <1>3, <1>6, AppendProperties
<1>9. \A i \in 1 .. Len(b) : b[i] = Append(a, g[x])[i]
    BY <1>1, <1>3, <1>4, <1>7, <1>8
<1>10. b = Append(a, g[x])
    BY <1>7, <1>8, <1>9, SeqEqual
<1> QED
    BY <1>2, <1>10

-----------------------------------------------------------------------------
(* How often a sequence has a member. *)

Times(s, x) == Cardinality({j \in DOMAIN s : s[j] = x})

LEMMA TimesEmpty == \A x : Times(<< >>, x) = 0
<1>1. ASSUME NEW x PROVE Times(<< >>, x) = 0
    <2>1. {j \in DOMAIN << >> : << >>[j] = x} = {}
        OBVIOUS
    <2> QED
        BY <2>1, FS_EmptySet DEF Times
<1> QED
    BY <1>1

\* A number, which is not 0 where x is a member.
LEMMA TimesType ==
    ASSUME NEW X, NEW s \in Seq(X), NEW x
    PROVE  /\ Times(s, x) \in Nat
           /\ Times(s, x) # 0 <=> \E i \in DOMAIN s : s[i] = x
<1> DEFINE J == {j \in DOMAIN s : s[j] = x}
<1>1. DOMAIN s = 1 .. Len(s) /\ Len(s) \in Nat
    BY LenProperties
<1>2. IsFiniteSet(1 .. Len(s))
    BY <1>1, FS_Interval
<1>3. IsFiniteSet(J)
    BY <1>1, <1>2, FS_Subset
<1>4. Cardinality(J) \in Nat /\ (Cardinality(J) = 0 <=> J = {})
    <2> HIDE DEF J
    <2> QED
        BY <1>3, FS_CardinalityType, FS_EmptySet
<1> QED
    BY <1>4 DEF Times

LEMMA TimesAppend ==
    ASSUME NEW X, NEW s \in Seq(X), NEW y \in X, NEW x
    PROVE  Times(Append(s, y), x) = Times(s, x) + (IF y = x THEN 1 ELSE 0)
<1> DEFINE J == {j \in DOMAIN s : s[j] = x}
           K == {j \in DOMAIN Append(s, y) : Append(s, y)[j] = x}
           n == Len(s)
<1>1. /\ DOMAIN s = 1 .. n /\ n \in Nat
      /\ DOMAIN Append(s, y) = 1 .. n + 1
      /\ \A i \in 1 .. n : Append(s, y)[i] = s[i]
      /\ Append(s, y)[n + 1] = y
    BY LenProperties, AppendProperties
<1>2. IsFiniteSet(J)
    <2>1. J \in SUBSET (1 .. n) /\ IsFiniteSet(1 .. n)
        BY <1>1, FS_Interval
    <2> HIDE DEF J
    <2> QED
        BY <2>1, FS_Subset
<1>3. Cardinality(J) \in Nat /\ n + 1 \notin J
    <2>1. n + 1 \notin J
        BY <1>1
    <2> HIDE DEF J
    <2> QED
        BY <1>2, <2>1, FS_CardinalityType
<1>4. CASE y = x
    <2>1. K = J \union {n + 1}
        BY <1>1, <1>4
    <2> HIDE DEF J, K
    <2>2. Cardinality(K) = Cardinality(J) + 1
        BY <1>2, <1>3, <2>1, FS_AddElement
    <2> QED
        BY <1>4, <2>2 DEF J, K, Times
<1>5. CASE y # x
    <2>1. K = J
        BY <1>1, <1>5
    <2>2. Times(Append(s, y), x) = Cardinality(K) /\ Times(s, x) = Cardinality(J)
        BY DEF Times
    <2> HIDE DEF J, K
    <2> QED
        BY <1>3, <1>5, <2>1, <2>2
<1> QED
    BY <1>4, <1>5

LEMMA TimesConcat ==
    ASSUME NEW X, NEW s \in Seq(X), NEW t \in Seq(X), NEW x
    PROVE  Times(s \o t, x) = Times(s, x) + Times(t, x)
<1> DEFINE T == {r \in Seq(X) : Times(s \o r, x) = Times(s, x) + Times(r, x)}
<1>1. << >> \in T
    <2>1. s \o << >> = s /\ << >> \in Seq(X)
        BY ConcatEmptySeq, EmptySeq
    <2>2. Times(s, x) \in Nat /\ Times(<< >>, x) = 0
        BY TimesType, TimesEmpty
    <2> QED
        BY <2>1, <2>2
<1>2. ASSUME NEW r \in Seq(X), NEW y \in X, r \in T PROVE Append(r, y) \in T
    <2>1. s \o r \in Seq(X) /\ Append(r, y) \in Seq(X)
        BY ConcatProperties, AppendProperties
    <2>2. s \o Append(r, y) = Append(s \o r, y)
        <3>1. Append(r, y) = r \o <<y>> /\ Append(s \o r, y) = (s \o r) \o <<y>>
            BY <2>1, AppendIsConcat
        <3>2. <<y>> \in Seq(X)
            OBVIOUS
        <3> QED
            BY <3>1, <3>2, ConcatAssociative
    <2>3. PICK u : u = s \o r
        OBVIOUS
    <2>4. Times(Append(u, y), x) = Times(u, x) + (IF y = x THEN 1 ELSE 0)
        <3>1. u \in Seq(X)
            BY <2>1, <2>3
        <3> QED
            BY <3>1, TimesAppend
    <2>5. Times(Append(r, y), x) = Times(r, x) + (IF y = x THEN 1 ELSE 0)
        BY TimesAppend
    <2>6. Times(s, x) \in Nat /\ Times(r, x) \in Nat
        BY TimesType
    <2>7. Times(u, x) = Times(s, x) + Times(r, x)
        <3>1. Times(s \o r, x) = Times(s, x) + Times(r, x)
            BY <1>2
        <3> QED
            BY <2>3, <3>1
    <2>8. Times(Append(u, y), x) = Times(s, x) + Times(Append(r, y), x)
        BY <2>4, <2>5, <2>6, <2>7
    <2>9. Times(s \o Append(r, y), x) = Times(s, x) + Times(Append(r, y), x)
        BY <2>2, <2>3, <2>8
    <2> QED
        BY <2>1, <2>9
<1>3. Seq(X) \subseteq T
    <2> HIDE DEF T
    <2> QED
        BY <1>1, <1>2, SeqInd
<1> QED
    BY <1>3

\* One part alone has x, if any has.
LEMMA TimesInOnePart ==
    ASSUME NEW X, NEW s \in Seq(Seq(X)), NEW x, NEW i, \A j \in DOMAIN s : j # i => Times(s[j], x) = 0
    PROVE  Times(FlattenSeq(s), x) = IF i \in DOMAIN s THEN Times(s[i], x) ELSE 0
<1> DEFINE Alone(r) == \A j \in DOMAIN r : j # i => Times(r[j], x) = 0
           T == {r \in Seq(Seq(X)) :
                    Alone(r) => Times(FlattenSeq(r), x) = IF i \in DOMAIN r THEN Times(r[i], x) ELSE 0}
<1>1. << >> \in T
    <2>1. << >> \in Seq(Seq(X))
        BY EmptySeq
    <2> QED
        BY <2>1, FlattenEmpty, TimesEmpty
<1>2. ASSUME NEW r \in Seq(Seq(X)), NEW y \in Seq(X), r \in T PROVE Append(r, y) \in T
    <2>0. PICK w : w = Append(r, y)
        OBVIOUS
    <2>1. /\ DOMAIN r = 1 .. Len(r) /\ Len(r) \in Nat
          /\ w \in Seq(Seq(X)) /\ DOMAIN w = 1 .. Len(r) + 1
          /\ \A j \in 1 .. Len(r) : w[j] = r[j]
          /\ w[Len(r) + 1] = y
        BY <2>0, LenProperties, AppendProperties
    <2> SUFFICES ASSUME Alone(w)
                 PROVE  Times(FlattenSeq(w), x) = IF i \in DOMAIN w THEN Times(w[i], x) ELSE 0
        BY <2>0, <2>1
    <2>2. /\ \A j \in 1 .. Len(r) : j \in 1 .. Len(r) + 1
          /\ Len(r) + 1 \in 1 .. Len(r) + 1
        BY <2>1
    <2>3. \A j \in 1 .. Len(r) + 1 : j # i => Times(w[j], x) = 0
        BY <2>1
    <2>4. Alone(r) /\ (Len(r) + 1 # i => Times(y, x) = 0)
        BY <2>1, <2>2, <2>3
    <2>5. Times(FlattenSeq(r), x) = IF i \in DOMAIN r THEN Times(r[i], x) ELSE 0
        BY <1>2, <2>4
    <2>6. PICK f : f = FlattenSeq(r) /\ f \in Seq(X)
        BY FlattenType
    <2>7. FlattenSeq(w) = f \o y
        BY <2>0, <2>6, FlattenAppend
    <2>8. Times(f \o y, x) = Times(f, x) + Times(y, x) /\ Times(f, x) \in Nat /\ Times(y, x) \in Nat
        BY <2>6, TimesConcat, TimesType
    <2> HIDE DEF Alone, T
    <2>9. CASE i \in 1 .. Len(r)
        <3>1. Len(r) + 1 # i /\ i \in 1 .. Len(r) + 1
            BY <2>1, <2>9
        <3> QED
            BY <2>1, <2>4, <2>5, <2>6, <2>7, <2>8, <2>9, <3>1
    <2>10. CASE i = Len(r) + 1
        <3>1. i \notin 1 .. Len(r)
            BY <2>1, <2>10
        <3> QED
            BY <2>1, <2>2, <2>5, <2>6, <2>7, <2>8, <2>10, <3>1
    <2>11. CASE i \notin 1 .. Len(r) + 1
        <3>1. i \notin 1 .. Len(r) /\ i # Len(r) + 1
            BY <2>2, <2>11
        <3> QED
            BY <2>1, <2>4, <2>5, <2>6, <2>7, <2>8, <2>11, <3>1
    <2>12. \A j \in 1 .. Len(r) + 1 : j \in 1 .. Len(r) \/ j = Len(r) + 1
        BY <2>1
    <2> QED
        BY <2>9, <2>10, <2>11, <2>12
<1>3. Seq(Seq(X)) \subseteq T
    <2> HIDE DEF T
    <2> QED
        BY <1>1, <1>2, SeqInd
<1> QED
    BY <1>3

\* Every part has x once.
LEMMA TimesInEveryPart ==
    ASSUME NEW X, NEW s \in Seq(Seq(X)), NEW x, \A j \in DOMAIN s : Times(s[j], x) = 1
    PROVE  Times(FlattenSeq(s), x) = Len(s)
<1> DEFINE Once(r) == \A j \in DOMAIN r : Times(r[j], x) = 1
           T == {r \in Seq(Seq(X)) : Once(r) => Times(FlattenSeq(r), x) = Len(r)}
<1>1. << >> \in T
    <2>1. << >> \in Seq(Seq(X)) /\ Len(<< >>) = 0
        BY EmptySeq
    <2> QED
        BY <2>1, FlattenEmpty, TimesEmpty
<1>2. ASSUME NEW r \in Seq(Seq(X)), NEW y \in Seq(X), r \in T PROVE Append(r, y) \in T
    <2> SUFFICES ASSUME Once(Append(r, y))
                 PROVE  Times(FlattenSeq(Append(r, y)), x) = Len(Append(r, y))
        BY AppendProperties
    <2>1. /\ DOMAIN r = 1 .. Len(r) /\ Len(r) \in Nat
          /\ DOMAIN Append(r, y) = 1 .. Len(r) + 1
          /\ Len(Append(r, y)) = Len(r) + 1
          /\ \A j \in 1 .. Len(r) : Append(r, y)[j] = r[j]
          /\ Append(r, y)[Len(r) + 1] = y
        BY LenProperties, AppendProperties
    <2>2. Once(r) /\ Times(y, x) = 1
        <3>1. \A j \in 1 .. Len(r) + 1 : Times(Append(r, y)[j], x) = 1
            BY <2>1
        <3>2. \A j \in 1 .. Len(r) : j \in 1 .. Len(r) + 1 /\ Append(r, y)[j] = r[j]
            BY <2>1
        <3>3. Len(r) + 1 \in 1 .. Len(r) + 1
            BY <2>1
        <3>4. \A j \in 1 .. Len(r) : Times(r[j], x) = 1
            BY <3>1, <3>2
        <3>5. Times(y, x) = 1
            BY <2>1, <3>1, <3>3
        <3> QED
            BY <2>1, <3>4, <3>5
    <2>3. Times(FlattenSeq(r), x) = Len(r)
        BY <1>2, <2>2
    <2>4. FlattenSeq(r) \in Seq(X)
        BY FlattenType
    <2>5. PICK f : f = FlattenSeq(r) /\ f \in Seq(X)
        BY <2>4
    <2>6. FlattenSeq(Append(r, y)) = f \o y
        BY <2>5, FlattenAppend
    <2>7. Times(f \o y, x) = Times(f, x) + Times(y, x)
        BY <2>5, TimesConcat
    <2> HIDE DEF Once, T
    <2>8. Times(f \o y, x) = Len(r) + 1
        BY <2>2, <2>3, <2>5, <2>7
    <2> QED
        BY <2>1, <2>6, <2>8
<1>3. Seq(Seq(X)) \subseteq T
    <2> HIDE DEF T
    <2> QED
        BY <1>1, <1>2, SeqInd
<1> QED
    BY <1>3

\* Functions that give every member of a sequence a sequence in its place.
Replacements(X, Y) == [X -> Seq(Y)]

LEMMA ReplacedType ==
    ASSUME NEW X, NEW Y, NEW g \in Replacements(X, Y), NEW s \in Seq(X)
    PROVE  Images(g, s) \in Seq(Seq(Y))
<1>1. DOMAIN s = 1 .. Len(s) /\ Len(s) \in Nat /\ \A i \in 1 .. Len(s) : s[i] \in X
    BY LenProperties, ElementOfSeq
<1>2. \A i \in 1 .. Len(s) : g[s[i]] \in Seq(Y)
    BY <1>1 DEF Replacements
<1> QED
    BY <1>1, <1>2 DEF Images

\* y stands in the place of q alone, or of nothing.
LEMMA TimesReplaced ==
    ASSUME NEW X, NEW Y, NEW g \in Replacements(X, Y), NEW s \in Seq(X), NEW y, NEW q, NEW k \in {0, 1},
           \A z \in X : Times(g[z], y) = IF z = q THEN k ELSE 0
    PROVE  Times(FlattenSeq(Images(g, s)), y) = IF k = 1 THEN Times(s, q) ELSE 0
<1> DEFINE T == {r \in Seq(X) : Times(FlattenSeq(Images(g, r)), y) = IF k = 1 THEN Times(r, q) ELSE 0}
<1>1. << >> \in T
    <2>1. Images(g, << >>) = << >>
        BY DEF Images
    <2>2. << >> \in Seq(X)
        BY EmptySeq
    <2> QED
        BY <2>1, <2>2, FlattenEmpty, TimesEmpty
<1>2. ASSUME NEW r \in Seq(X), NEW z \in X, r \in T PROVE Append(r, z) \in T
    <2>1. PICK f, h : f = FlattenSeq(Images(g, r)) /\ h = g[z]
        OBVIOUS
    <2>2. Images(g, r) \in Seq(Seq(Y)) /\ h \in Seq(Y)
        BY <2>1, ReplacedType DEF Replacements
    <2>3. f \in Seq(Y)
        BY <2>1, <2>2, FlattenType
    <2>4. FlattenSeq(Append(Images(g, r), h)) = f \o h
        BY <2>1, <2>2, FlattenAppend
    <2>5. Images(g, Append(r, z)) = Append(Images(g, r), h)
        BY <2>1, ImagesAppend
    <2>6. Times(f \o h, y) = Times(f, y) + Times(h, y)
        BY <2>2, <2>3, TimesConcat
    <2>7. Times(h, y) = IF z = q THEN k ELSE 0
        BY <2>1
    <2>8. Times(f, y) = IF k = 1 THEN Times(r, q) ELSE 0
        BY <1>2, <2>1
    <2>9. Times(Append(r, z), q) = Times(r, q) + (IF z = q THEN 1 ELSE 0)
        BY TimesAppend
    <2>10. Times(r, q) \in Nat /\ Append(r, z) \in Seq(X)
        BY TimesType, AppendProperties
    <2>11. Times(f \o h, y) = IF k = 1 THEN Times(Append(r, z), q) ELSE 0
        BY <2>6, <2>7, <2>8, <2>9, <2>10
    <2>12. Times(FlattenSeq(Images(g, Append(r, z))), y) = Times(f \o h, y)
        BY <2>4, <2>5
    <2> QED
        BY <2>10, <2>11, <2>12
<1>3. Seq(X) \subseteq T
    <2> HIDE DEF T
    <2> QED
        BY <1>1, <1>2, SeqInd
<1> QED
    BY <1>3

LEMMA TimesSingle == \A x, y : Times(<<x>>, y) = IF x = y THEN 1 ELSE 0
<1>1. ASSUME NEW x, NEW y PROVE Times(<<x>>, y) = IF x = y THEN 1 ELSE 0
    <2>1. CASE x = y
        <3>1. {j \in DOMAIN <<x>> : <<x>>[j] = y} = {1}
            BY <2>1
        <3> QED
            BY <2>1, <3>1, FS_Singleton DEF Times
    <2>2. CASE x # y
        <3>1. {j \in DOMAIN <<x>> : <<x>>[j] = y} = {}
            BY <2>2
        <3> QED
            BY <2>2, <3>1, FS_EmptySet DEF Times
    <2> QED
        BY <2>1, <2>2
<1> QED
    BY <1>1

-----------------------------------------------------------------------------
(* Sequences of growing numbers. *)

Growing(s) == \A i, j \in DOMAIN s : i < j => s[i] < s[j]

\* There is one for each set.
LEMMA GrowingUnique ==
    ASSUME NEW s \in Seq(Int), NEW t \in Seq(Int), Growing(s), Growing(t),
           {s[i] : i \in DOMAIN s} = {t[i] : i \in DOMAIN t}
    PROVE  s = t
<1>1. /\ DOMAIN s = 1 .. Len(s) /\ Len(s) \in Nat /\ \A i \in 1 .. Len(s) : s[i] \in Int
      /\ DOMAIN t = 1 .. Len(t) /\ Len(t) \in Nat /\ \A i \in 1 .. Len(t) : t[i] \in Int
    BY LenProperties, ElementOfSeq
<1>2. /\ \A i \in 1 .. Len(s) : \E k \in 1 .. Len(t) : s[i] = t[k]
      /\ \A i \in 1 .. Len(t) : \E k \in 1 .. Len(s) : t[i] = s[k]
    <2>1. /\ \A i \in DOMAIN s : s[i] \in {t[k] : k \in DOMAIN t}
          /\ \A i \in DOMAIN t : t[i] \in {s[k] : k \in DOMAIN s}
        OBVIOUS
    <2>2. \A v : v \in {t[k] : k \in DOMAIN t} => \E k \in DOMAIN t : v = t[k]
        OBVIOUS
    <2>3. \A v : v \in {s[k] : k \in DOMAIN s} => \E k \in DOMAIN s : v = s[k]
        OBVIOUS
    <2> QED
        BY <1>1, <2>1, <2>2, <2>3, Zenon
<1>3. /\ \A i, j \in 1 .. Len(s) : i < j => s[i] < s[j]
      /\ \A i, j \in 1 .. Len(t) : i < j => t[i] < t[j]
    BY <1>1 DEF Growing
<1>0. \A k, n \in Nat : k = n + 1 \/ n + 1 < k \/ k <= n
    OBVIOUS
<1> DEFINE T == {n \in Nat : \A i \in 1 .. n : (i <= Len(s) <=> i <= Len(t)) /\ (i <= Len(s) => s[i] = t[i])}
<1>4. 0 \in T
    OBVIOUS
<1>5. ASSUME NEW n \in Nat, n \in T PROVE n + 1 \in T
    <2>0. \A i \in 1 .. n : (i <= Len(s) <=> i <= Len(t)) /\ (i <= Len(s) => s[i] = t[i])
        BY <1>5
    <2>1. ASSUME n + 1 <= Len(s) PROVE n + 1 <= Len(t) /\ t[n + 1] <= s[n + 1]
        <3>1. PICK k \in 1 .. Len(t) : s[n + 1] = t[k]
            BY <1>1, <1>2, <2>1
        <3>2. ~(k <= n)
            <4> SUFFICES ASSUME k <= n PROVE FALSE
                OBVIOUS
            <4>1. k <= Len(s) /\ s[k] = t[k]
                BY <1>1, <2>0
            <4>2. k \in 1 .. Len(s) /\ n + 1 \in 1 .. Len(s) /\ k < n + 1
                BY <1>1, <2>1, <4>1
            <4>3. s[k] < s[n + 1] /\ s[k] \in Int
                BY <1>1, <1>3, <4>2
            <4> QED
                BY <3>1, <4>1, <4>3
        <3>3. k = n + 1 \/ n + 1 < k
            <4>1. k \in Nat
                BY <1>1
            <4> QED
                BY <1>0, <3>2, <4>1, Zenon
        <3>4. n + 1 \in 1 .. Len(t)
            BY <1>1, <3>3
        <3> QED
            BY <1>1, <1>3, <3>1, <3>3, <3>4
    <2>2. ASSUME n + 1 <= Len(t) PROVE n + 1 <= Len(s) /\ s[n + 1] <= t[n + 1]
        <3>1. PICK k \in 1 .. Len(s) : t[n + 1] = s[k]
            BY <1>1, <1>2, <2>2
        <3>2. ~(k <= n)
            <4> SUFFICES ASSUME k <= n PROVE FALSE
                OBVIOUS
            <4>1. k <= Len(t) /\ s[k] = t[k]
                BY <1>1, <2>0
            <4>2. k \in 1 .. Len(t) /\ n + 1 \in 1 .. Len(t) /\ k < n + 1
                BY <1>1, <2>2, <4>1
            <4>3. t[k] < t[n + 1] /\ t[k] \in Int
                BY <1>1, <1>3, <4>2
            <4> QED
                BY <3>1, <4>1, <4>3
        <3>3. k = n + 1 \/ n + 1 < k
            <4>1. k \in Nat
                BY <1>1
            <4> QED
                BY <1>0, <3>2, <4>1, Zenon
        <3>4. n + 1 \in 1 .. Len(s)
            BY <1>1, <3>3
        <3> QED
            BY <1>1, <1>3, <3>1, <3>3, <3>4
    <2>3. (n + 1 <= Len(s) <=> n + 1 <= Len(t)) /\ (n + 1 <= Len(s) => s[n + 1] = t[n + 1])
        <3>1. n + 1 <= Len(s) => n + 1 \in 1 .. Len(s)
            BY <1>1
        <3>2. n + 1 <= Len(t) => n + 1 \in 1 .. Len(t)
            BY <1>1
        <3> QED
            BY <1>1, <2>1, <2>2, <3>1, <3>2
    <2>4. \A i \in 1 .. n + 1 : i \in 1 .. n \/ i = n + 1
        OBVIOUS
    <2> QED
        BY <2>0, <2>3, <2>4
<1>6. Nat \subseteq T
    <2> HIDE DEF T
    <2> QED
        BY <1>4, <1>5, NatInd
<1>7. \A i \in 1 .. Len(s) + Len(t) : (i <= Len(s) <=> i <= Len(t)) /\ (i <= Len(s) => s[i] = t[i])
    <2>1. Len(s) + Len(t) \in Nat
        BY <1>1
    <2>2. Len(s) + Len(t) \in T
        BY <1>6, <2>1
    <2> QED
        BY <2>2
<1>8. Len(s) = Len(t)
    <2>1. Len(s) \in 1 .. Len(s) + Len(t) \/ Len(s) = 0
        BY <1>1
    <2>2. Len(t) \in 1 .. Len(s) + Len(t) \/ Len(t) = 0
        BY <1>1
    <2>3. Len(s) <= Len(t)
        BY <1>1, <1>7, <2>1
    <2>4. Len(t) <= Len(s)
        BY <1>1, <1>7, <2>2
    <2>5. \A m, n \in Nat : m <= n /\ n <= m => m = n
        OBVIOUS
    <2>6. Len(s) \in Nat /\ Len(t) \in Nat
        BY <1>1
    <2> HIDE DEF T
    <2> QED
        BY <2>3, <2>4, <2>5, <2>6, Zenon
<1> QED
    <2>1. \A i \in 1 .. Len(s) : s[i] = t[i]
        BY <1>1, <1>7
    <2> HIDE DEF T
    <2> QED
        BY <1>8, <2>1, SeqEqual

LEMMA GrowingAppend ==
    ASSUME NEW k \in Nat, NEW e, NEW w, Growing(e), DOMAIN e = 1 .. k, DOMAIN w = 1 .. k + 1,
           \A i \in 1 .. k : w[i] = e[i] /\ w[i] < w[k + 1]
    PROVE  Growing(w)
<1>1. \A i, j \in 1 .. k + 1 : i < j => i \in 1 .. k /\ (j \in 1 .. k \/ j = k + 1)
    OBVIOUS
<1> QED
    BY <1>1 DEF Growing

\* The members of S up to n, in order.
UpTo(S, n) == FlattenSeq([i \in 1 .. n |-> IF i \in S THEN <<i>> ELSE << >>])

LEMMA UpToFacts ==
    ASSUME NEW S, NEW n \in Nat
    PROVE  /\ UpTo(S, n) \in Seq(1 .. n)
           /\ Growing(UpTo(S, n))
           /\ {UpTo(S, n)[i] : i \in DOMAIN UpTo(S, n)} = S \intersect 1 .. n
<1> DEFINE Good(e, m) == /\ e \in Seq(1 .. m)
                         /\ Growing(e)
                         /\ {e[i] : i \in DOMAIN e} = S \intersect 1 .. m
           T == {m \in Nat : Good(UpTo(S, m), m)}
<1>1. 0 \in T
    <2>1. [i \in 1 .. 0 |-> IF i \in S THEN <<i>> ELSE << >>] = << >>
        OBVIOUS
    <2>2. UpTo(S, 0) = << >>
        BY <2>1, FlattenEmpty DEF UpTo
    <2>3. Good(<< >>, 0)
        BY EmptySeq DEF Growing
    <2> QED
        BY <2>2, <2>3
<1>2. ASSUME NEW m \in Nat, m \in T PROVE m + 1 \in T
    <2>1. PICK a, b, e, h : /\ a = [i \in 1 .. m |-> IF i \in S THEN <<i>> ELSE << >>]
                            /\ b = [i \in 1 .. m + 1 |-> IF i \in S THEN <<i>> ELSE << >>]
                            /\ e = UpTo(S, m)
                            /\ h = IF m + 1 \in S THEN <<m + 1>> ELSE << >>
        OBVIOUS
    <2>2. a \in Seq(Seq(Nat)) /\ Len(a) = m /\ h \in Seq(Nat)
        BY <2>1
    <2>3. b = Append(a, h)
        <3>1. b \in Seq(Seq(Nat)) /\ Len(b) = m + 1
            BY <2>1
        <3>2. Append(a, h) \in Seq(Seq(Nat)) /\ Len(Append(a, h)) = m + 1
            BY <2>2, AppendProperties
        <3>3. ASSUME NEW i \in 1 .. m + 1 PROVE b[i] = Append(a, h)[i]
            <4>1. CASE i \in 1 .. m
                BY <2>1, <2>2, <4>1, AppendProperties
            <4>2. CASE i = m + 1
                BY <2>1, <2>2, <4>2, AppendProperties
            <4>3. i \in 1 .. m \/ i = m + 1
                OBVIOUS
            <4> QED
                BY <4>1, <4>2, <4>3
        <3> QED
            BY <3>1, <3>2, <3>3, SeqEqual
    <2>4. UpTo(S, m + 1) = e \o h
        <3>1. FlattenSeq(Append(a, h)) = FlattenSeq(a) \o h
            BY <2>2, FlattenAppend
        <3>2. UpTo(S, m + 1) = FlattenSeq(b) /\ e = FlattenSeq(a)
            BY <2>1 DEF UpTo
        <3> QED
            BY <2>3, <3>1, <3>2
    <2>5. Good(e, m)
        BY <1>2, <2>1
    <2>6. /\ e \in Seq(1 .. m + 1) /\ DOMAIN e = 1 .. Len(e) /\ Len(e) \in Nat
          /\ \A i \in 1 .. Len(e) : e[i] \in 1 .. m
        <3>1. e \in Seq(1 .. m)
            BY <2>5
        <3>2. DOMAIN e = 1 .. Len(e) /\ Len(e) \in Nat /\ \A i \in 1 .. Len(e) : e[i] \in 1 .. m
            BY <3>1, LenProperties, ElementOfSeq
        <3>3. \A i \in 1 .. Len(e) : e[i] \in 1 .. m + 1
            BY <3>2
        <3>4. e \in Seq(1 .. m + 1)
            BY <3>1, <3>2, <3>3
        <3> QED
            BY <3>2, <3>4
    <2>7. CASE m + 1 \in S
        <3>1. e \o h = Append(e, m + 1)
            BY <2>1, <2>6, <2>7, AppendIsConcat
        <3>2. PICK w : w = Append(e, m + 1)
            OBVIOUS
        <3>3. /\ w \in Seq(1 .. m + 1)
              /\ DOMAIN w = 1 .. Len(e) + 1
              /\ \A i \in 1 .. Len(e) : w[i] = e[i]
              /\ w[Len(e) + 1] = m + 1
            <4>1. m + 1 \in 1 .. m + 1
                OBVIOUS
            <4> QED
                BY <2>6, <3>2, <4>1, AppendProperties, LenProperties
        <3>4. Growing(w)
            <4>1. \A i \in 1 .. Len(e) : w[i] = e[i] /\ e[i] \in 1 .. m /\ w[Len(e) + 1] = m + 1
                BY <2>6, <3>3, Zenon
            <4>2. \A k \in 1 .. m : k < m + 1
                OBVIOUS
            <4>3. \A i \in 1 .. Len(e) : w[i] = e[i] /\ w[i] < w[Len(e) + 1]
                BY <4>1, <4>2, Zenon
            <4> QED
                BY <2>5, <2>6, <3>3, <4>3, GrowingAppend
        <3>5. {w[i] : i \in DOMAIN w} = S \intersect 1 .. m + 1
            <4>1. {e[i] : i \in DOMAIN e} = S \intersect 1 .. m
                BY <2>5
            <4>2. \A x \in S \intersect 1 .. m : \E i \in 1 .. Len(e) : x = e[i]
                BY <2>6, <4>1
            <4>3. \A i \in 1 .. Len(e) : e[i] \in S
                BY <2>6, <4>1
            <4>4. ASSUME NEW i \in 1 .. Len(e) + 1 PROVE w[i] \in S \intersect 1 .. m + 1
                <5>1. CASE i = Len(e) + 1
                    BY <2>7, <3>3, <5>1
                <5>2. CASE i \in 1 .. Len(e)
                    BY <2>6, <3>3, <4>3, <5>2
                <5> QED
                    BY <2>6, <5>1, <5>2
            <4>5. ASSUME NEW x \in S \intersect 1 .. m + 1 PROVE \E i \in 1 .. Len(e) + 1 : x = w[i]
                <5>1. CASE x = m + 1
                    <6>1. Len(e) + 1 \in 1 .. Len(e) + 1
                        BY <2>6
                    <6> QED
                        BY <3>3, <5>1, <6>1
                <5>2. CASE x # m + 1
                    <6>1. x \in S \intersect 1 .. m
                        BY <5>2
                    <6>2. PICK i \in 1 .. Len(e) : x = e[i]
                        BY <4>2, <6>1
                    <6>3. i \in 1 .. Len(e) + 1
                        BY <2>6
                    <6> QED
                        BY <3>3, <6>2, <6>3
                <5> QED
                    BY <5>1, <5>2
            <4> QED
                BY <3>3, <4>4, <4>5
        <3>6. Good(w, m + 1)
            BY <3>3, <3>4, <3>5
        <3>7. UpTo(S, m + 1) = w
            BY <2>4, <3>1, <3>2
        <3> QED
            BY <3>6, <3>7
    <2>8. CASE m + 1 \notin S
        <3>1. e \o h = e
            BY <2>1, <2>6, <2>8, ConcatEmptySeq
        <3>2. S \intersect 1 .. m + 1 = S \intersect 1 .. m
            BY <2>8
        <3>3. Good(e, m + 1)
            BY <2>5, <2>6, <3>2
        <3> QED
            BY <2>4, <3>1, <3>3
    <2> QED
        BY <2>7, <2>8
<1>3. Nat \subseteq T
    <2> HIDE DEF T
    <2> QED
        BY <1>1, <1>2, NatInd
<1> QED
    BY <1>3

-----------------------------------------------------------------------------
(* Finite sets. *)

LEMMA CardStep ==
    ASSUME NEW s, IsFiniteSet(s), NEW n \in Nat, Cardinality(s) = n + 1
    PROVE  s # {} /\ \A x \in s : Cardinality(s \ {x}) = n
<1>1. Cardinality({}) = 0
    BY FS_EmptySet
<1>2. s # {}
    <2> SUFFICES ASSUME s = {} PROVE FALSE
        OBVIOUS
    <2>1. n + 1 = 0
        BY <1>1
    <2> QED
        BY <2>1
<1>3. ASSUME NEW x \in s PROVE Cardinality(s \ {x}) = n
    <2>1. Cardinality(s \ {x}) = Cardinality(s) - 1
        BY FS_RemoveElement
    <2> QED
        BY <2>1
<1> QED
    BY <1>2, <1>3

LEMMA FinInd ==
    ASSUME NEW S, IsFiniteSet(S), NEW T, {} \in T,
           \A s \in SUBSET S : \A x \in S \ s : s \in T => s \union {x} \in T
    PROVE  S \in T
<1> DEFINE N == {n \in Nat : \A s \in SUBSET S : Cardinality(s) = n => s \in T}
<1>1. \A s \in SUBSET S : IsFiniteSet(s) /\ Cardinality(s) \in Nat
    BY FS_Subset, FS_CardinalityType
<1>2. 0 \in N
    BY <1>1, FS_EmptySet
<1>3. ASSUME NEW n \in Nat, n \in N PROVE n + 1 \in N
    <2> SUFFICES ASSUME NEW s \in SUBSET S, Cardinality(s) = n + 1 PROVE s \in T
        OBVIOUS
    <2>1. s # {} /\ \A x \in s : Cardinality(s \ {x}) = n
        BY <1>1, CardStep
    <2>2. PICK x : x \in s
        BY <2>1
    <2>3. Cardinality(s \ {x}) = n
        BY <2>1, <2>2
    <2>4. s \ {x} \in T
        BY <1>3, <2>3
    <2>5. (s \ {x}) \union {x} \in T
        BY <2>2, <2>4
    <2> QED
        BY <2>2, <2>5
<1>4. Nat \subseteq N
    <2> HIDE DEF N
    <2> QED
        BY <1>2, <1>3, NatInd
<1> QED
    BY <1>1, <1>4

LEMMA ImageFinite ==
    ASSUME NEW S, IsFiniteSet(S), NEW h
    PROVE  /\ IsFiniteSet({h[x] : x \in S})
           /\ (\A x, y \in S : h[x] = h[y] => x = y) => Cardinality({h[x] : x \in S}) = Cardinality(S)
<1> DEFINE T == {h[x] : x \in S}
           f == [x \in S |-> h[x]]
<1>1. f \in Surjection(S, T)
    BY DEF Surjection
<1>2. (\A x, y \in S : h[x] = h[y] => x = y) => f \in Injection(S, T)
    BY DEF Injection, IsInjective
<1>3. IsFiniteSet(T) /\ (Cardinality(T) = Cardinality(S) <=> f \in Injection(S, T))
    <2> HIDE DEF f, T
    <2> QED
        BY <1>1, FS_Surjection
<1> QED
    BY <1>2, <1>3

-----------------------------------------------------------------------------
(* Sums. *)

\* it is the function the definition of SumFunctionOnSet is by, on the sets D.
IsSumOver(it, f, D) == it = [s \in D |-> IF s = {} THEN 0 ELSE LET x == CHOOSE x \in s : TRUE IN f[x] + it[s \ {x}]]

Small(S, n) == {s \in SUBSET S : Cardinality(s) <= n}

LEMMA SumIterStep ==
    ASSUME NEW it, NEW f, NEW D, IsSumOver(it, f, D), NEW s \in D
    PROVE  it[s] = IF s = {} THEN 0 ELSE LET x == CHOOSE x \in s : TRUE IN f[x] + it[s \ {x}]
<1> DEFINE h == [t \in D |-> IF t = {} THEN 0 ELSE LET x == CHOOSE x \in t : TRUE IN f[x] + it[t \ {x}]]
<1>1. it = h
    BY DEF IsSumOver
<1>2. h[s] = IF s = {} THEN 0 ELSE LET x == CHOOSE x \in s : TRUE IN f[x] + it[s \ {x}]
    OBVIOUS
<1> HIDE DEF h
<1> QED
    BY <1>1, <1>2

LEMMA SumExists ==
    ASSUME NEW S, IsFiniteSet(S), NEW f
    PROVE  \E it : IsSumOver(it, f, SUBSET S)
<1> DEFINE N == {n \in Nat : \E it : IsSumOver(it, f, Small(S, n))}
<1>1. \A s \in SUBSET S : IsFiniteSet(s) /\ Cardinality(s) \in Nat
    BY FS_Subset, FS_CardinalityType
<1>2. 0 \in N
    <2>1. Small(S, 0) = {{}}
        BY <1>1, FS_EmptySet DEF Small
    <2>2. IsSumOver([s \in {{}} |-> 0], f, {{}})
        BY DEF IsSumOver
    <2> QED
        BY <2>1, <2>2
<1>3. ASSUME NEW n \in Nat, n \in N PROVE n + 1 \in N
    <2>1. PICK it : IsSumOver(it, f, Small(S, n))
        BY <1>3
    <2> DEFINE Of(g, s) == IF s = {} THEN 0 ELSE LET x == CHOOSE x \in s : TRUE IN f[x] + g[s \ {x}]
               new == [s \in Small(S, n + 1) |-> Of(it, s)]
    <2>2. ASSUME NEW s \in Small(S, n) PROVE s \in Small(S, n + 1) /\ new[s] = it[s]
        <3>1. s \in Small(S, n + 1)
            BY <1>1 DEF Small
        <3>2. it[s] = Of(it, s)
            BY <2>1, SumIterStep
        <3> QED
            BY <3>1, <3>2
    <2>3. ASSUME NEW s \in Small(S, n + 1) PROVE Of(new, s) = Of(it, s)
        <3>1. CASE s = {}
            BY <3>1
        <3>2. CASE s # {}
            <4>1. PICK x : x = CHOOSE y \in s : TRUE
                OBVIOUS
            <4>2. x \in s
                BY <3>2, <4>1
            <4>3. s \ {x} \in Small(S, n)
                BY <1>1, <4>2, FS_RemoveElement DEF Small
            <4>4. new[s \ {x}] = it[s \ {x}]
                BY <2>2, <4>3
            <4> HIDE DEF new
            <4> QED
                BY <3>2, <4>1, <4>4
        <3> QED
            BY <3>1, <3>2
    <2>4. new = [s \in Small(S, n + 1) |-> Of(new, s)]
        <3>1. PICK g : g = new
            OBVIOUS
        <3>2. \A s \in Small(S, n + 1) : Of(g, s) = Of(it, s)
            BY <2>3, <3>1
        <3> HIDE DEF Of
        <3>3. new = [s \in Small(S, n + 1) |-> Of(g, s)]
            BY <3>2
        <3> QED
            BY <3>1, <3>3
    <2>5. IsSumOver(new, f, Small(S, n + 1))
        BY <2>4 DEF IsSumOver
    <2> QED
        BY <2>5
<1>4. Nat \subseteq N
    <2> HIDE DEF N
    <2> QED
        BY <1>2, <1>3, NatInd
<1>5. Small(S, Cardinality(S)) = SUBSET S
    BY FS_Subset, FS_CardinalityType DEF Small
<1>6. Cardinality(S) \in N
    BY <1>4, FS_CardinalityType
<1> QED
    BY <1>5, <1>6

LEMMA SumDef ==
    ASSUME NEW S, IsFiniteSet(S), NEW f
    PROVE  \E it : IsSumOver(it, f, SUBSET S) /\ SumFunctionOnSet(f, S) = it[S]
<1> DEFINE h == CHOOSE it : it = [s \in SUBSET S |-> IF s = {} THEN 0 ELSE LET x == CHOOSE x \in s : TRUE IN f[x] + it[s \ {x}]]
<1>1. \E it : IsSumOver(it, f, SUBSET S)
    BY SumExists
<1>2. IsSumOver(h, f, SUBSET S)
    <2>1. h = CHOOSE it : IsSumOver(it, f, SUBSET S)
        BY DEF IsSumOver
    <2> HIDE DEF h
    <2> QED
        BY <1>1, <2>1
<1>3. SumFunctionOnSet(f, S) = h[S]
    BY DEF SumFunctionOnSet, FoldFunctionOnSet, MapThenFoldSet
<1> QED
    BY <1>2, <1>3

\* Two such functions, of functions that agree, agree.
LEMMA SumUnique ==
    ASSUME NEW S, IsFiniteSet(S), NEW D, SUBSET S \subseteq D, NEW f, NEW g, \A x \in S : f[x] = g[x],
           NEW it, NEW jt, IsSumOver(it, f, SUBSET S), IsSumOver(jt, g, D)
    PROVE  it[S] = jt[S]
<1> DEFINE N == {n \in Nat : \A s \in SUBSET S : Cardinality(s) = n => it[s] = jt[s]}
<1>1. \A s \in SUBSET S : IsFiniteSet(s) /\ Cardinality(s) \in Nat
    BY FS_Subset, FS_CardinalityType
<1>2. ASSUME NEW s \in SUBSET S
      PROVE  /\ it[s] = IF s = {} THEN 0 ELSE LET x == CHOOSE x \in s : TRUE IN f[x] + it[s \ {x}]
             /\ jt[s] = IF s = {} THEN 0 ELSE LET x == CHOOSE x \in s : TRUE IN g[x] + jt[s \ {x}]
    BY SumIterStep
<1>3. 0 \in N
    BY <1>1, <1>2, FS_EmptySet
<1>4. ASSUME NEW n \in Nat, n \in N PROVE n + 1 \in N
    <2> SUFFICES ASSUME NEW s \in SUBSET S, Cardinality(s) = n + 1 PROVE it[s] = jt[s]
        OBVIOUS
    <2>1. s # {} /\ \A x \in s : Cardinality(s \ {x}) = n
        BY <1>1, CardStep
    <2>2. PICK x : x = CHOOSE y \in s : TRUE
        OBVIOUS
    <2>3. x \in s
        BY <2>1, <2>2
    <2>4. Cardinality(s \ {x}) = n
        BY <2>1, <2>3
    <2>5. it[s \ {x}] = jt[s \ {x}]
        BY <1>4, <2>4
    <2>6. it[s] = f[x] + it[s \ {x}] /\ jt[s] = g[x] + jt[s \ {x}]
        BY <1>2, <2>1, <2>2
    <2> QED
        BY <2>3, <2>5, <2>6
<1>5. Nat \subseteq N
    <2> HIDE DEF N
    <2> QED
        BY <1>3, <1>4, NatInd
<1> QED
    BY <1>1, <1>5

LEMMA SumSame ==
    ASSUME NEW S, IsFiniteSet(S), NEW f, NEW g, \A x \in S : f[x] = g[x]
    PROVE  SumFunctionOnSet(f, S) = SumFunctionOnSet(g, S)
<1>1. PICK it : IsSumOver(it, f, SUBSET S) /\ SumFunctionOnSet(f, S) = it[S]
    BY SumDef
<1>2. PICK jt : IsSumOver(jt, g, SUBSET S) /\ SumFunctionOnSet(g, S) = jt[S]
    BY SumDef
<1>3. it[S] = jt[S]
    BY <1>1, <1>2, SumUnique
<1> QED
    BY <1>1, <1>2, <1>3

LEMMA SumEmpty == \A f : SumFunctionOnSet(f, {}) = 0
<1>1. ASSUME NEW f PROVE SumFunctionOnSet(f, {}) = 0
    <2>1. PICK it : IsSumOver(it, f, SUBSET {}) /\ SumFunctionOnSet(f, {}) = it[{}]
        BY SumDef, FS_EmptySet
    <2>2. {} \in SUBSET {}
        OBVIOUS
    <2> QED
        BY <2>1, <2>2, SumIterStep
<1> QED
    BY <1>1

LEMMA SumStep ==
    ASSUME NEW S, IsFiniteSet(S), S # {}, NEW f
    PROVE  \E x \in S : SumFunctionOnSet(f, S) = f[x] + SumFunctionOnSet(f, S \ {x})
<1>1. PICK it : IsSumOver(it, f, SUBSET S) /\ SumFunctionOnSet(f, S) = it[S]
    BY SumDef
<1>2. PICK x : x = CHOOSE y \in S : TRUE
    OBVIOUS
<1>3. x \in S
    BY <1>2
<1>4. it[S] = f[x] + it[S \ {x}]
    <2>1. S \in SUBSET S
        OBVIOUS
    <2>2. it[S] = IF S = {} THEN 0 ELSE LET y == CHOOSE y \in S : TRUE IN f[y] + it[S \ {y}]
        BY <1>1, <2>1, SumIterStep, Zenon
    <2> QED
        BY <1>2, <2>2
<1>5. PICK R : R = S \ {x}
    OBVIOUS
<1>6. IsFiniteSet(R) /\ SUBSET R \subseteq SUBSET S
    BY <1>5, FS_RemoveElement
<1>7. PICK jt : IsSumOver(jt, f, SUBSET R) /\ SumFunctionOnSet(f, R) = jt[R]
    BY <1>6, SumDef
<1>8. jt[R] = it[R]
    <2>1. \A y \in R : f[y] = f[y]
        OBVIOUS
    <2> QED
        BY <1>1, <1>6, <1>7, <2>1, SumUnique
<1> QED
    BY <1>1, <1>3, <1>4, <1>5, <1>7, <1>8

Ints(f, S) == \A x \in S : f[x] \in Int

LEMMA SumInt ==
    ASSUME NEW S, IsFiniteSet(S), NEW f, Ints(f, S)
    PROVE  SumFunctionOnSet(f, S) \in Int
<1> DEFINE N == {n \in Nat : \A s \in SUBSET S : Cardinality(s) = n => SumFunctionOnSet(f, s) \in Int}
<1>1. \A s \in SUBSET S : IsFiniteSet(s) /\ Cardinality(s) \in Nat
    BY FS_Subset, FS_CardinalityType
<1>2. 0 \in N
    BY <1>1, FS_EmptySet, SumEmpty
<1>3. ASSUME NEW n \in Nat, n \in N PROVE n + 1 \in N
    <2> SUFFICES ASSUME NEW s \in SUBSET S, Cardinality(s) = n + 1 PROVE SumFunctionOnSet(f, s) \in Int
        OBVIOUS
    <2>1. s # {} /\ \A x \in s : Cardinality(s \ {x}) = n
        BY <1>1, CardStep
    <2>2. PICK x \in s : SumFunctionOnSet(f, s) = f[x] + SumFunctionOnSet(f, s \ {x})
        BY <1>1, <2>1, SumStep
    <2>3. SumFunctionOnSet(f, s \ {x}) \in Int
        BY <1>3, <2>1
    <2>4. f[x] \in Int
        BY DEF Ints
    <2> QED
        BY <2>2, <2>3, <2>4
<1>4. Nat \subseteq N
    <2> HIDE DEF N
    <2> QED
        BY <1>2, <1>3, NatInd
<1> QED
    BY <1>1, <1>4

LEMMA SumRemove ==
    ASSUME NEW S, IsFiniteSet(S), NEW f, Ints(f, S), NEW z \in S
    PROVE  SumFunctionOnSet(f, S) = f[z] + SumFunctionOnSet(f, S \ {z})
<1> DEFINE Ok(s) == \A y \in s : SumFunctionOnSet(f, s) = f[y] + SumFunctionOnSet(f, s \ {y})
           N == {n \in Nat : \A s \in SUBSET S : Cardinality(s) = n => Ok(s)}
<1>1. \A s \in SUBSET S : IsFiniteSet(s) /\ Cardinality(s) \in Nat
    BY FS_Subset, FS_CardinalityType
<1>2. 0 \in N
    <2>1. \A s \in SUBSET S : Cardinality(s) = 0 => s = {}
        BY <1>1, FS_EmptySet
    <2>2. Ok({})
        OBVIOUS
    <2> QED
        BY <2>1, <2>2
<1>3. ASSUME NEW n \in Nat, n \in N PROVE n + 1 \in N
    <2> SUFFICES ASSUME NEW s \in SUBSET S, Cardinality(s) = n + 1
                 PROVE  Ok(s)
        OBVIOUS
    <2> TAKE y \in s
    <2>1. s # {} /\ \A x \in s : Cardinality(s \ {x}) = n
        BY <1>1, CardStep
    <2>2. PICK x \in s : SumFunctionOnSet(f, s) = f[x] + SumFunctionOnSet(f, s \ {x})
        BY <1>1, <2>1, SumStep
    <2>3. CASE x = y
        BY <2>2, <2>3
    <2>4. CASE x # y
        <3>1. PICK a, b : a = s \ {x} /\ b = s \ {y}
            OBVIOUS
        <3>2. Ok(a) /\ Ok(b) /\ a \in SUBSET S /\ b \in SUBSET S
            BY <1>3, <2>1, <3>1, Zenon
        <3>3. y \in a /\ x \in b /\ a \ {y} = b \ {x}
            BY <2>4, <3>1
        <3>4. PICK c, k, ka, kb, kc : /\ c = a \ {y} /\ k = SumFunctionOnSet(f, s)
                                      /\ ka = SumFunctionOnSet(f, a) /\ kb = SumFunctionOnSet(f, b)
                                      /\ kc = SumFunctionOnSet(f, c)
            OBVIOUS
        <3>5. k = f[x] + ka
            BY <2>2, <3>1, <3>4
        <3>6. ka = f[y] + kc /\ kb = f[x] + kc
            BY <3>2, <3>3, <3>4, Zenon
        <3>7. kc \in Int
            <4>1. c \in SUBSET S
                BY <3>2, <3>4
            <4>2. Ints(f, c)
                BY <4>1 DEF Ints
            <4> QED
                BY <1>1, <3>4, <4>1, <4>2, SumInt
        <3>8. f[x] \in Int /\ f[y] \in Int
            BY DEF Ints
        <3>9. k = f[y] + kb
            BY <3>5, <3>6, <3>7, <3>8
        <3> QED
            BY <3>1, <3>4, <3>9
    <2> QED
        BY <2>3, <2>4
<1>4. Nat \subseteq N
    <2> HIDE DEF N
    <2> QED
        BY <1>2, <1>3, NatInd
<1>5. Ok(S)
    BY <1>1, <1>4
<1> QED
    BY <1>5

LEMMA SumAdd ==
    ASSUME NEW S, IsFiniteSet(S), NEW f, NEW z, z \notin S, Ints(f, S \union {z})
    PROVE  SumFunctionOnSet(f, S \union {z}) = f[z] + SumFunctionOnSet(f, S)
<1>1. PICK T : T = S \union {z}
    OBVIOUS
<1>2. IsFiniteSet(T) /\ z \in T /\ T \ {z} = S /\ Ints(f, T)
    BY <1>1, FS_AddElement
<1>3. SumFunctionOnSet(f, T) = f[z] + SumFunctionOnSet(f, T \ {z})
    BY <1>2, SumRemove
<1> QED
    BY <1>1, <1>2, <1>3

LEMMA SumOne ==
    ASSUME NEW f, NEW z, f[z] \in Int
    PROVE  SumFunctionOnSet(f, {z}) = f[z]
<1>1. IsFiniteSet({}) /\ z \notin {} /\ {} \union {z} = {z} /\ Ints(f, {z})
    BY FS_EmptySet DEF Ints
<1>2. SumFunctionOnSet(f, {z}) = f[z] + SumFunctionOnSet(f, {})
    BY <1>1, SumAdd
<1> QED
    BY <1>2, SumEmpty

\* A sum over other indices.
LEMMA SumImage ==
    ASSUME NEW S, IsFiniteSet(S), NEW f, Ints(f, S), NEW h, NEW g,
           \A x, y \in S : h[x] = h[y] => x = y, \A x \in S : g[h[x]] = f[x]
    PROVE  SumFunctionOnSet(g, {h[x] : x \in S}) = SumFunctionOnSet(f, S)
<1> DEFINE Ok(s) == SumFunctionOnSet(g, {h[x] : x \in s}) = SumFunctionOnSet(f, s)
           T == {s \in SUBSET S : Ok(s)}
<1>1. {} \in T
    <2>1. {h[x] : x \in {}} = {}
        OBVIOUS
    <2> QED
        BY <2>1, SumEmpty
<1>2. ASSUME NEW s \in SUBSET S, NEW z \in S \ s, s \in T PROVE s \union {z} \in T
    <2>1. PICK a, b : a = {h[x] : x \in s} /\ b = {h[x] : x \in s \union {z}}
        OBVIOUS
    <2>2. b = a \union {h[z]} /\ h[z] \notin a
        BY <2>1
    <2>3. IsFiniteSet(s) /\ IsFiniteSet(a)
        <3>1. IsFiniteSet(s)
            BY FS_Subset
        <3>2. IsFiniteSet(a)
            BY <2>1, <3>1, ImageFinite
        <3> QED
            BY <3>1, <3>2
    <2>4. Ints(f, s \union {z}) /\ Ints(g, a \union {h[z]})
        BY <2>1 DEF Ints
    <2>5. SumFunctionOnSet(f, s \union {z}) = f[z] + SumFunctionOnSet(f, s)
        BY <2>3, <2>4, SumAdd
    <2>6. SumFunctionOnSet(g, b) = g[h[z]] + SumFunctionOnSet(g, a)
        BY <2>2, <2>3, <2>4, SumAdd
    <2>7. SumFunctionOnSet(g, a) = SumFunctionOnSet(f, s)
        BY <1>2, <2>1
    <2>8. g[h[z]] = f[z]
        OBVIOUS
    <2>9. Ok(s \union {z})
        BY <2>1, <2>5, <2>6, <2>7, <2>8
    <2> QED
        BY <2>9
<1>3. S \in T
    <2> HIDE DEF T
    <2> QED
        BY <1>1, <1>2, FinInd
<1> QED
    BY <1>3

LEMMA SumUnion ==
    ASSUME NEW A, IsFiniteSet(A), NEW B, IsFiniteSet(B), A \intersect B = {}, NEW f, Ints(f, A \union B)
    PROVE  SumFunctionOnSet(f, A \union B) = SumFunctionOnSet(f, A) + SumFunctionOnSet(f, B)
<1> DEFINE Ok(s) == SumFunctionOnSet(f, A \union s) = SumFunctionOnSet(f, A) + SumFunctionOnSet(f, s)
           T == {s \in SUBSET B : Ok(s)}
<1>0. SumFunctionOnSet(f, A) \in Int
    <2>1. Ints(f, A)
        BY DEF Ints
    <2> QED
        BY <2>1, SumInt
<1>1. {} \in T
    <2>1. A \union {} = A
        OBVIOUS
    <2>2. SumFunctionOnSet(f, {}) = 0
        BY SumEmpty
    <2> QED
        BY <1>0, <2>1, <2>2
<1>2. ASSUME NEW s \in SUBSET B, NEW z \in B \ s, s \in T PROVE s \union {z} \in T
    <2>1. PICK c : c = A \union s
        OBVIOUS
    <2>2. IsFiniteSet(s) /\ IsFiniteSet(c) /\ z \notin c /\ A \union (s \union {z}) = c \union {z}
        <3>1. IsFiniteSet(s)
            BY FS_Subset
        <3>2. IsFiniteSet(c)
            BY <2>1, <3>1, FS_Union
        <3> QED
            BY <2>1, <3>1, <3>2
    <2>3. Ints(f, s \union {z}) /\ Ints(f, c \union {z}) /\ Ints(f, s) /\ f[z] \in Int
        BY <2>1 DEF Ints
    <2>4. SumFunctionOnSet(f, s \union {z}) = f[z] + SumFunctionOnSet(f, s)
        BY <2>2, <2>3, SumAdd
    <2>5. SumFunctionOnSet(f, c \union {z}) = f[z] + SumFunctionOnSet(f, c)
        BY <2>2, <2>3, SumAdd
    <2>6. SumFunctionOnSet(f, c) = SumFunctionOnSet(f, A) + SumFunctionOnSet(f, s)
        BY <1>2, <2>1
    <2>7. SumFunctionOnSet(f, s) \in Int
        BY <2>2, <2>3, SumInt
    <2>8. Ok(s \union {z})
        <3>1. PICK k, m, n : k = SumFunctionOnSet(f, A) /\ m = SumFunctionOnSet(f, s) /\ n = f[z]
            OBVIOUS
        <3>2. k \in Int /\ m \in Int /\ n \in Int
            BY <1>0, <2>3, <2>7, <3>1
        <3>3. SumFunctionOnSet(f, A \union (s \union {z})) = n + (k + m)
            BY <2>2, <2>5, <2>6, <3>1
        <3>4. SumFunctionOnSet(f, s \union {z}) = n + m
            BY <2>4, <3>1
        <3>5. n + (k + m) = k + (n + m)
            BY <3>2
        <3> QED
            BY <3>1, <3>3, <3>4, <3>5
    <2> QED
        BY <2>8
<1>3. B \in T
    <2> HIDE DEF T
    <2> QED
        BY <1>1, <1>2, FinInd
<1> QED
    BY <1>3

\* A sum of sums.
LEMMA SumParts ==
    ASSUME NEW I, IsFiniteSet(I), NEW G, \A i \in I : IsFiniteSet(G[i]),
           \A i, j \in I : i # j => G[i] \intersect G[j] = {},
           NEW f, \A i \in I : Ints(f, G[i]), NEW g, \A i \in I : g[i] = SumFunctionOnSet(f, G[i])
    PROVE  IsFiniteSet(UNION {G[i] : i \in I})
           /\ SumFunctionOnSet(f, UNION {G[i] : i \in I}) = SumFunctionOnSet(g, I)
<1> DEFINE All(s) == UNION {G[i] : i \in s}
           Ok(s) == IsFiniteSet(All(s)) /\ SumFunctionOnSet(f, All(s)) = SumFunctionOnSet(g, s)
           T == {s \in SUBSET I : Ok(s)}
<1>1. {} \in T
    <2>1. All({}) = {}
        OBVIOUS
    <2> QED
        BY <2>1, SumEmpty, FS_EmptySet
<1>2. ASSUME NEW s \in SUBSET I, NEW z \in I \ s, s \in T PROVE s \union {z} \in T
    <2>1. PICK a : a = All(s)
        OBVIOUS
    <2>2. All(s \union {z}) = a \union G[z] /\ a \intersect G[z] = {}
        BY <2>1
    <2>3. IsFiniteSet(s) /\ IsFiniteSet(a) /\ IsFiniteSet(G[z]) /\ IsFiniteSet(a \union G[z])
        <3>1. IsFiniteSet(s)
            BY FS_Subset
        <3>2. IsFiniteSet(a) /\ IsFiniteSet(G[z])
            BY <1>2, <2>1
        <3> QED
            BY <3>1, <3>2, FS_Union
    <2>4. Ints(f, a \union G[z])
        BY <2>1 DEF Ints
    <2>5. SumFunctionOnSet(f, a \union G[z]) = SumFunctionOnSet(f, a) + SumFunctionOnSet(f, G[z])
        BY <2>2, <2>3, <2>4, SumUnion
    <2>6. Ints(g, s \union {z})
        <3>1. \A i \in I : g[i] \in Int
            BY SumInt
        <3> QED
            BY <3>1 DEF Ints
    <2>7. SumFunctionOnSet(g, s \union {z}) = g[z] + SumFunctionOnSet(g, s)
        BY <2>3, <2>6, SumAdd
    <2>8. SumFunctionOnSet(f, a) = SumFunctionOnSet(g, s) /\ g[z] = SumFunctionOnSet(f, G[z])
        BY <1>2, <2>1
    <2>9. SumFunctionOnSet(g, s) \in Int /\ g[z] \in Int
        <3>1. Ints(g, s) /\ g[z] \in Int
            BY <2>6 DEF Ints
        <3> QED
            BY <2>3, <3>1, SumInt
    <2>10. Ok(s \union {z})
        <3>1. SumFunctionOnSet(g, s) + g[z] = g[z] + SumFunctionOnSet(g, s)
            BY <2>9
        <3>2. SumFunctionOnSet(f, a \union G[z]) = SumFunctionOnSet(g, s \union {z})
            BY <2>5, <2>7, <2>8, <3>1
        <3>3. All(s \union {z}) = a \union G[z] /\ IsFiniteSet(a \union G[z])
            BY <2>2, <2>3
        <3> HIDE DEF All
        <3> QED
            BY <3>2, <3>3
    <2> QED
        BY <2>10
<1>3. I \in T
    <2> HIDE DEF T
    <2> QED
        BY <1>1, <1>2, FinInd
<1> QED
    BY <1>3
=============================================================================
