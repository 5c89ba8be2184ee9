---------------------------- MODULE PlannerProofs ----------------------------
(***************************************************************************)
(* Theorems about Planner, for every query: the stages of a plan are a     *)
(* flow as the scheduler takes them, with as many tasks as each of their   *)
(* operators has partitions; what an operator refers to is in the          *)
(* projection map it is compiled with; taking the first pair that joins    *)
(* finds a plan where there is one; and no predicate is lost.  The last    *)
(* part has the invariants that the rows of a plan depend on               *)
(* (PlanResultProofs).                                                     *)
(***************************************************************************)
EXTENDS PlanResult, DataInduction

-----------------------------------------------------------------------------
(* Lists. *)

LEMMA WithoutAppend ==
    ASSUME NEW X, NEW s \in Seq(X), NEW x \in X, NEW S
    PROVE  /\ Without(s, S) \in Seq(X)
           /\ Without(Append(s, x), S) = IF x \in S THEN Without(s, S) ELSE Append(Without(s, S), x)
<1> DEFINE g == [y \in X |-> IF y \in S THEN << >> ELSE <<y>>]
<1>1. g \in [X -> Seq(X)]
    OBVIOUS
<1>2. ASSUME NEW t \in Seq(X)
      PROVE  /\ Without(t, S) = FlattenSeq(Images(g, t))
             /\ Images(g, t) \in Seq(Seq(X))
             /\ Without(t, S) \in Seq(X)
    <2>1. DOMAIN t = 1 .. Len(t) /\ Len(t) \in Nat /\ \A i \in 1 .. Len(t) : t[i] \in X
        BY LenProperties, ElementOfSeq
    <2>2. [i \in DOMAIN t |-> IF t[i] \in S THEN << >> ELSE <<t[i]>>] = Images(g, t)
        BY <2>1 DEF Images
    <2>3. Images(g, t) \in Seq(Seq(X))
        BY <1>1, <2>1 DEF Images
    <2> HIDE DEF g
    <2> QED
        BY <2>2, <2>3, FlattenType DEF Without
<1>3. g[x] = IF x \in S THEN << >> ELSE <<x>>
    OBVIOUS
<1>4. g[x] \in Seq(X)
    BY <1>1
<1> HIDE DEF g
<1>5. Append(s, x) \in Seq(X)
    BY AppendProperties
<1>6. FlattenSeq(Append(Images(g, s), g[x])) = FlattenSeq(Images(g, s)) \o g[x]
    BY <1>2, <1>4, FlattenAppend
<1>7. Without(Append(s, x), S) = Without(s, S) \o g[x]
    BY <1>2, <1>5, <1>6, ImagesAppend
<1>8. Without(s, S) \in Seq(X)
    BY <1>2
<1>9. CASE x \in S
    BY <1>3, <1>7, <1>8, <1>9, ConcatEmptySeq
<1>10. CASE x \notin S
    BY <1>3, <1>7, <1>8, <1>10, AppendIsConcat
<1> QED
    BY <1>8, <1>9, <1>10

\* What is left of a list: its elements that are not in S, each once if it was there once.
LEMMA WithoutFacts ==
    ASSUME NEW X, NEW s \in Seq(X), NEW S
    PROVE  /\ Without(s, S) \in Seq(X)
           /\ ToSet(Without(s, S)) = ToSet(s) \ S
           /\ IsInjective(s) => IsInjective(Without(s, S))
<1> DEFINE Good(t, w) == /\ w \in Seq(X)
                         /\ ToSet(w) = ToSet(t) \ S
                         /\ IsInjective(t) => IsInjective(w)
           T == {t \in Seq(X) : Good(t, Without(t, S))}
<1>1. << >> \in T
    <2>1. [i \in DOMAIN << >> |-> IF << >>[i] \in S THEN << >> ELSE << << >>[i] >>] = << >>
        OBVIOUS
    <2>2. Without(<< >>, S) = << >>
        BY <2>1, FlattenEmpty DEF Without
    <2>3. Good(<< >>, << >>)
        BY EmptySeq DEF ToSet
    <2> QED
        BY <2>2, <2>3, EmptySeq
<1>2. ASSUME NEW t \in Seq(X), NEW x \in X, t \in T PROVE Append(t, x) \in T
    <2>1. PICK a, w, v : a = Append(t, x) /\ w = Without(t, S) /\ v = Without(a, S)
        OBVIOUS
    <2>2. w \in Seq(X) /\ v = IF x \in S THEN w ELSE Append(w, x)
        <3>1. Without(t, S) \in Seq(X)
            BY WithoutAppend
        <3>2. Without(Append(t, x), S) = IF x \in S THEN Without(t, S) ELSE Append(Without(t, S), x)
            BY WithoutAppend
        <3> QED
            BY <2>1, <3>1, <3>2
    <2>3. /\ a \in Seq(X) /\ DOMAIN t = 1 .. Len(t) /\ DOMAIN a = 1 .. Len(t) + 1 /\ Len(t) \in Nat
          /\ \A i \in 1 .. Len(t) : a[i] = t[i]
          /\ a[Len(t) + 1] = x
        BY <2>1, AppendProperties, LenProperties
    <2>4. Good(t, w)
        BY <1>2, <2>1
    <2>5. ToSet(a) = ToSet(t) \union {x}
        BY <2>3 DEF ToSet
    <2>6. IsInjective(a) => IsInjective(t) /\ x \notin ToSet(t)
        BY <2>3 DEF IsInjective, ToSet
    <2>7. ASSUME x \in S PROVE Good(a, v)
        <3>1. v = w
            BY <2>2, <2>7
        <3> QED
            BY <2>2, <2>4, <2>5, <2>6, <2>7, <3>1
    <2>8. ASSUME x \notin S PROVE Good(a, v)
        <3>1. /\ v \in Seq(X) /\ DOMAIN w = 1 .. Len(w) /\ DOMAIN v = 1 .. Len(w) + 1 /\ Len(w) \in Nat
              /\ \A i \in 1 .. Len(w) : v[i] = w[i]
              /\ v[Len(w) + 1] = x
            BY <2>2, <2>8, AppendProperties, LenProperties
        <3>2. ToSet(v) = ToSet(w) \union {x}
            BY <3>1 DEF ToSet
        <3>3. IsInjective(w) /\ x \notin ToSet(w) => IsInjective(v)
            BY <3>1 DEF IsInjective, ToSet
        <3> QED
            BY <2>4, <2>5, <2>6, <2>8, <3>1, <3>2, <3>3
    <2>9. Good(a, v)
        BY <2>7, <2>8
    <2> QED
        BY <2>1, <2>3, <2>9
<1>3. Seq(X) \subseteq T
    <2> HIDE DEF T
    <2> QED
        BY <1>1, <1>2, SeqInd
<1> QED
    BY <1>3

LEMMA ToSetConcat ==
    ASSUME NEW X, NEW s \in Seq(X), NEW t \in Seq(X)
    PROVE  ToSet(s \o t) = ToSet(s) \union ToSet(t)
<1>1. PICK u : u = s \o t
    OBVIOUS
<1>2. /\ DOMAIN s = 1 .. Len(s) /\ Len(s) \in Nat /\ DOMAIN t = 1 .. Len(t) /\ Len(t) \in Nat
      /\ u \in Seq(X) /\ Len(u) = Len(s) + Len(t) /\ DOMAIN u = 1 .. Len(s) + Len(t)
      /\ \A i \in 1 .. Len(s) + Len(t) : u[i] = IF i <= Len(s) THEN s[i] ELSE t[i - Len(s)]
    <2>1. /\ u \in Seq(X) /\ Len(u) = Len(s) + Len(t)
          /\ \A i \in 1 .. Len(s) + Len(t) : u[i] = IF i <= Len(s) THEN s[i] ELSE t[i - Len(s)]
        BY <1>1, ConcatProperties
    <2> QED
        BY <2>1, LenProperties
<1>3. \A i \in 1 .. Len(s) : i \in DOMAIN u /\ u[i] = s[i]
    BY <1>2
<1>4. \A i \in 1 .. Len(t) : i + Len(s) \in DOMAIN u /\ u[i + Len(s)] = t[i]
    <2>1. \A i \in 1 .. Len(t) : i + Len(s) \in 1 .. Len(s) + Len(t) /\ ~(i + Len(s) <= Len(s)) /\ i + Len(s) - Len(s) = i
        BY <1>2
    <2>2. ASSUME NEW i \in 1 .. Len(t) PROVE i + Len(s) \in DOMAIN u /\ u[i + Len(s)] = t[i]
        <3>1. PICK j : j = i + Len(s)
            OBVIOUS
        <3>2. j \in 1 .. Len(s) + Len(t) /\ ~(j <= Len(s)) /\ j - Len(s) = i
            BY <2>1, <3>1
        <3>3. u[j] = t[j - Len(s)]
            BY <1>2, <3>2
        <3> QED
            BY <1>2, <3>1, <3>2, <3>3
    <2> QED
        BY <2>2
<1>5. \A i \in DOMAIN u : \/ i \in 1 .. Len(s) /\ u[i] = s[i]
                          \/ i - Len(s) \in 1 .. Len(t) /\ u[i] = t[i - Len(s)]
    BY <1>2
<1>6. ToSet(u) \subseteq ToSet(s) \union ToSet(t)
    BY <1>2, <1>5 DEF ToSet
<1>7. ToSet(s) \subseteq ToSet(u)
    BY <1>2, <1>3 DEF ToSet
<1>8. ASSUME NEW e \in ToSet(t) PROVE e \in ToSet(u)
    <2>1. PICK i \in DOMAIN t : t[i] = e
        BY DEF ToSet
    <2>2. i + Len(s) \in DOMAIN u /\ u[i + Len(s)] = e
        BY <1>2, <1>4, <2>1
    <2> QED
        BY <2>2 DEF ToSet
<1> QED
    BY <1>1, <1>6, <1>7, <1>8

-----------------------------------------------------------------------------
(* The LOPs. *)

ExprKeys == {"lhs", "rhs", "select", "CID", "once", "pre", "post"} \X Nat

LOPs == [lop : {"TableScan", "HashJoin", "Repartition", "Aggregation"}, quns : SUBSET Nat,
         children : Seq(Nat), cols : SUBSET (Nat \X Nat), virtcols : Seq(ExprKeys), preds : SUBSET Nat,
         partkeys : Seq(ExprKeys), npartitions : Nat, cpartitions : Nat, join_keys : Seq(Seq(ExprKeys))]

TypeInv ==
    /\ query \in Queries
    /\ lops \in Seq(LOPs)
    /\ worklist \in Seq(Nat) /\ ToSet(worklist) \subseteq DOMAIN lops
    /\ pred_map \subseteq DOMAIN query.preds

\* The LOPs are a forest, of which the work list has the roots.
Forest ==
    /\ \A n \in DOMAIN lops : \A k \in DOMAIN lops[n].children : lops[n].children[k] \in 1 .. n - 1
    /\ \A n, m \in DOMAIN lops : \A j \in DOMAIN lops[n].children, k \in DOMAIN lops[m].children :
          lops[n].children[j] = lops[m].children[k] => n = m /\ j = k
    /\ IsInjective(worklist)
    /\ \A n \in DOMAIN lops : \A k \in DOMAIN lops[n].children : lops[n].children[k] \notin ToSet(worklist)

Arity(lop) == IF lop = "TableScan" THEN 0 ELSE IF lop = "HashJoin" THEN 2 ELSE 1

Shape ==
    /\ \A n \in DOMAIN lops : /\ Len(lops[n].children) = Arity(lops[n].lop)
                              /\ Len(lops[n].join_keys) = IF lops[n].lop = "HashJoin" THEN 2 ELSE 0
    /\ pc \in {"scan", "join"} => \A n \in DOMAIN lops : lops[n].lop # "Aggregation"
    /\ pc \in {"scan", "join"} \/ (pc = "panicked" /\ Len(worklist) > 1) \/ Len(worklist) = 1
    /\ \A n \in ToSet(worklist) : lops[n].lop # "Repartition"

FormInv == TypeInv /\ Forest /\ Shape

LEMMA QueryFacts ==
    ASSUME query \in Queries
    PROVE  /\ DOMAIN query.parts = 1 .. Len(query.parts) /\ Len(query.parts) \in Nat
           /\ \A q \in Quns : query.parts[q] \in Nat
           /\ query.degree \in Nat
           /\ DOMAIN query.preds = 1 .. Len(query.preds) /\ Len(query.preds) \in Nat
           /\ DOMAIN query.select = 1 .. Len(query.select) /\ Len(query.select) \in Nat
           /\ DOMAIN query.aggs = 1 .. Len(query.aggs) /\ Len(query.aggs) \in Nat
           /\ query.key_len \in Nat
<1>1. IsQuery(query)
    BY QueriesAssumption
<1> QED
    BY <1>1, LenProperties, ElementOfSeq DEF IsQuery, Quns

\* What the query refers to are columns of its tables.
LEMMA ColumnFacts ==
    ASSUME query \in Queries, NEW c
    PROVE  /\ c \in SelectCols => c \in Quns \X Nat
           /\ \A i \in DOMAIN query.preds : c \in PredCols(i) => c \in Quns \X Nat
<1>1. IsQuery(query)
    BY QueriesAssumption
<1>2. /\ \A e \in ToSet(query.select) : \A d \in e.cols : d \in Quns \X Nat
      /\ \A p \in ToSet(query.preds) : \A d \in p.lhs.cols \union p.rhs.cols : d \in Quns \X Nat
    BY <1>1 DEF IsQuery, Quns
<1>3. c \in SelectCols => c \in Quns \X Nat
    BY <1>2 DEF SelectCols
<1>4. ASSUME NEW i \in DOMAIN query.preds, c \in PredCols(i) PROVE c \in Quns \X Nat
    <2>1. PICK p : p = query.preds[i]
        OBVIOUS
    <2>2. p \in ToSet(query.preds)
        BY <2>1 DEF ToSet
    <2>3. c \in p.lhs.cols \union p.rhs.cols
        BY <1>4, <2>1 DEF PredCols, Pred
    <2> QED
        BY <1>2, <2>2, <2>3
<1> QED
    BY <1>3, <1>4

\* The predicates of a join in the order of the query.
LEMMA JoinOrder ==
    ASSUME query \in Queries, NEW S \in SUBSET DOMAIN query.preds, NEW order,
           order = Without([i \in DOMAIN query.preds |-> i], DOMAIN query.preds \ S)
    PROVE  /\ DOMAIN order = 1 .. Len(order) /\ Len(order) \in Nat /\ ToSet(order) = S
           /\ \A k \in DOMAIN order : order[k] \in S /\ order[k] \in Nat
<1>1. PICK all : all = [i \in DOMAIN query.preds |-> i] /\ order = Without(all, DOMAIN query.preds \ S)
    OBVIOUS
<1>2. all \in Seq(DOMAIN query.preds) /\ ToSet(all) = DOMAIN query.preds
    <2>1. DOMAIN query.preds = 1 .. Len(query.preds) /\ Len(query.preds) \in Nat
        BY QueryFacts
    <2>2. PICK n \in Nat : n = Len(query.preds)
        BY <2>1
    <2>3. all = [i \in 1 .. n |-> i] /\ DOMAIN query.preds = 1 .. n
        BY <1>1, <2>1, <2>2
    <2>4. all \in Seq(1 .. n)
        BY <2>3
    <2>5. \A i \in DOMAIN query.preds : all[i] = i
        BY <1>1
    <2> QED
        BY <2>3, <2>4, <2>5 DEF ToSet
<1>3. order \in Seq(DOMAIN query.preds) /\ ToSet(order) = S
    <2>1. ToSet(order) = ToSet(all) \ (DOMAIN query.preds \ S) /\ order \in Seq(DOMAIN query.preds)
        BY <1>1, <1>2, WithoutFacts
    <2> QED
        BY <1>2, <2>1
<1>4. /\ DOMAIN order = 1 .. Len(order) /\ Len(order) \in Nat
      /\ \A k \in DOMAIN order : order[k] \in S /\ order[k] \in Nat
    <2>1. DOMAIN order = 1 .. Len(order) /\ Len(order) \in Nat
        BY <1>3, LenProperties
    <2>2. \A k \in DOMAIN order : order[k] \in S
        BY <1>3 DEF ToSet
    <2>3. \A i \in S : i \in Nat
        BY QueryFacts
    <2> QED
        BY <2>1, <2>2, <2>3
<1> QED
    BY <1>3, <1>4

\* The keys of a join by the equalities S, for its legs l and r.
AreJoinKeys(keys, S, l, r) ==
    /\ keys \in Seq(Seq(ExprKeys)) /\ Len(keys) = 2
    /\ keys[1] \in Seq(ExprKeys) /\ keys[2] \in Seq(ExprKeys)
    /\ S # {} => Len(keys[1]) # 0 /\ Len(keys[2]) # 0
    /\ \A e \in ToSet(keys[1]) : \E i \in S : e = IF Aligned(i, l, r) THEN Lhs(i) ELSE Rhs(i)
    /\ \A e \in ToSet(keys[2]) : \E i \in S : e = IF Aligned(i, l, r) THEN Rhs(i) ELSE Lhs(i)

LEMMA JoinKeysFacts ==
    ASSUME query \in Queries, NEW S \in SUBSET DOMAIN query.preds, NEW l, NEW r,
           NEW keys, keys = JoinKeys(S, l, r)
    PROVE  AreJoinKeys(keys, S, l, r)
<1>1. PICK order : order = Without([i \in DOMAIN query.preds |-> i], DOMAIN query.preds \ S)
    OBVIOUS
<1>2. /\ DOMAIN order = 1 .. Len(order) /\ Len(order) \in Nat /\ ToSet(order) = S
      /\ \A k \in DOMAIN order : order[k] \in S /\ order[k] \in Nat
    BY <1>1, JoinOrder
<1>3. PICK a, b : /\ a = [k \in DOMAIN order |-> IF Aligned(order[k], l, r) THEN Lhs(order[k]) ELSE Rhs(order[k])]
                  /\ b = [k \in DOMAIN order |-> IF Aligned(order[k], l, r) THEN Rhs(order[k]) ELSE Lhs(order[k])]
    OBVIOUS
<1>4. keys = <<a, b>>
    BY <1>1, <1>3 DEF JoinKeys
<1>5. \A i \in Nat : Lhs(i) \in ExprKeys /\ Rhs(i) \in ExprKeys
    BY DEF Lhs, Rhs, ExprKeys
<1>6. a \in Seq(ExprKeys) /\ b \in Seq(ExprKeys)
    BY <1>2, <1>3, <1>5
<1>7. S # {} => Len(a) # 0 /\ Len(b) # 0
    <2>1. S # {} => Len(order) # 0
        BY <1>2 DEF ToSet
    <2>2. DOMAIN a = DOMAIN order /\ DOMAIN b = DOMAIN order
        BY <1>3
    <2>3. S # {} => 1 \in DOMAIN order
        BY <1>2, <2>1
    <2> QED
        BY <2>2, <2>3
<1>8. \A k \in DOMAIN order : order[k] \in S
    BY <1>2
<1>9. \A e \in ToSet(a) : \E i \in S : e = IF Aligned(i, l, r) THEN Lhs(i) ELSE Rhs(i)
    <2>1. \A e \in ToSet(a) : \E k \in DOMAIN order : e = a[k]
        BY <1>3 DEF ToSet
    <2>2. \A k \in DOMAIN order : a[k] = IF Aligned(order[k], l, r) THEN Lhs(order[k]) ELSE Rhs(order[k])
        BY <1>3
    <2> QED
        BY <1>8, <2>1, <2>2
<1>10. \A e \in ToSet(b) : \E i \in S : e = IF Aligned(i, l, r) THEN Rhs(i) ELSE Lhs(i)
    <2>1. \A e \in ToSet(b) : \E k \in DOMAIN order : e = b[k]
        BY <1>3 DEF ToSet
    <2>2. \A k \in DOMAIN order : b[k] = IF Aligned(order[k], l, r) THEN Rhs(order[k]) ELSE Lhs(order[k])
        BY <1>3
    <2> QED
        BY <1>8, <2>1, <2>2
<1>11. keys[1] = a /\ keys[2] = b /\ keys \in Seq(Seq(ExprKeys)) /\ Len(keys) = 2
    BY <1>4, <1>6
<1> QED
    BY <1>6, <1>7, <1>9, <1>10, <1>11 DEF AreJoinKeys

LEMMA LopIn ==
    ASSUME TypeInv, NEW n \in DOMAIN lops
    PROVE  lops[n] \in LOPs
BY LenProperties, ElementOfSeq DEF TypeInv

LEMMA LopFacts ==
    ASSUME NEW lop \in {"TableScan", "HashJoin", "Repartition", "Aggregation"}, NEW quns \in SUBSET Nat
    PROVE  Lop(lop, quns) \in LOPs
BY EmptySeq DEF Lop, LOPs

\* What a LOP of the work list is.
LEMMA WorkFacts ==
    ASSUME TypeInv, NEW n \in ToSet(worklist)
    PROVE  n \in DOMAIN lops /\ lops[n] \in LOPs
BY LenProperties, ElementOfSeq DEF TypeInv, ToSet

LEMMA RepartitionFacts ==
    ASSUME TypeInv, NEW n \in ToSet(worklist), NEW keys \in Seq(ExprKeys)
    PROVE  Repartition(n, keys) \in LOPs
<1>1. n \in Nat /\ lops[n] \in LOPs /\ query.degree \in Nat
    BY WorkFacts, QueryFacts, LenProperties DEF TypeInv
<1>2. PICK x, d, base : x = lops[n] /\ d = query.degree /\ base = Lop("Repartition", x.quns)
    OBVIOUS
<1>3. x \in LOPs /\ d \in Nat /\ <<n>> \in Seq(Nat)
    BY <1>1, <1>2
<1>4. base \in LOPs
    BY <1>2, <1>3, LopFacts DEF LOPs
<1>5. Repartition(n, keys) = [base EXCEPT !.children = <<n>>, !.cols = x.cols, !.partkeys = keys,
                                          !.npartitions = x.npartitions, !.cpartitions = d]
    BY <1>2 DEF Repartition
<1>6. [base EXCEPT !.children = <<n>>, !.cols = x.cols, !.partkeys = keys,
                   !.npartitions = x.npartitions, !.cpartitions = d] \in LOPs
    BY <1>3, <1>4 DEF LOPs
<1> QED
    BY <1>5, <1>6

\* The leg of a join made of LOP n is n itself, or a new repartitioning of it.
IsLeg(leg, n, keys, legs) ==
    \/ leg = n /\ ComparePartKeys(keys, lops[n].partkeys)
    \/ leg \in DOMAIN legs \ DOMAIN lops /\ legs[leg] = Repartition(n, keys)

JoinLop(l, r, newl, newr, legs, equi, keys) ==
    [Lop("HashJoin", JoinQuns(l, r)) EXCEPT
         !.children = <<newl, newr>>, !.join_keys = keys,
         !.cols = (lops[l].cols \union lops[r].cols) \intersect FlowCols(pred_map \ JoinPreds(l, r)),
         !.preds = JoinPreds(l, r) \ equi,
         !.partkeys = legs[newl].partkeys,
         !.npartitions = JoinPartitions(legs[newl])]

\* Join as it concerns LOPs l and r.
Joins(l, r, newl, newr, legs, equi, keys, join) ==
    /\ l \in ToSet(worklist) /\ r \in ToSet(worklist) /\ l # r
    /\ equi = EquiJoinPreds(l, r) /\ equi # {} /\ keys = JoinKeys(equi, l, r)
    /\ legs \in Seq(LOPs)
    /\ \A n \in DOMAIN lops : n \in DOMAIN legs /\ legs[n] = lops[n]
    /\ IsLeg(newl, l, keys[1], legs) /\ IsLeg(newr, r, keys[2], legs) /\ newl # newr
    /\ \A n \in DOMAIN legs : n \in DOMAIN lops \/ n = newl \/ n = newr
    /\ newl \in DOMAIN legs /\ newr \in DOMAIN legs
    /\ join = JoinLop(l, r, newl, newr, legs, equi, keys) /\ join \in LOPs
    /\ lops' = Append(legs, join)
    /\ pred_map' = pred_map \ JoinPreds(l, r)
    /\ worklist' = <<Len(legs) + 1>> \o Without(worklist, {l, r})
    /\ UNCHANGED <<query, pc, stack, stages, pops>>
    /\ pc = "join"

LEMMA EquiFacts ==
    ASSUME TypeInv, NEW l, NEW r
    PROVE  /\ EquiJoinPreds(l, r) \in SUBSET DOMAIN query.preds
           /\ JoinPreds(l, r) \in SUBSET DOMAIN query.preds
BY DEF TypeInv, EquiJoinPreds, JoinPreds

LEMMA JoinEffect ==
    ASSUME TypeInv, Forest, Join
    PROVE  \E l, r, newl, newr, legs, equi, keys, join : Joins(l, r, newl, newr, legs, equi, keys, join)
<1> DEFINE Update(l, r, equi, keys, newl, newr, legs, left) ==
               /\ lops' = Append(legs,
                      [Lop("HashJoin", JoinQuns(l, r)) EXCEPT
                         !.children = <<newl, newr>>, !.join_keys = keys,
                         !.cols = (lops[l].cols \union lops[r].cols) \intersect FlowCols(left),
                         !.preds = JoinPreds(l, r) \ equi,
                         !.partkeys = legs[newl].partkeys,
                         !.npartitions = JoinPartitions(legs[newl])])
               /\ pred_map' = left
               /\ worklist' = <<Len(legs) + 1>> \o Without(worklist, {l, r})
<1>a. PICK p \in Joinable :
            LET l == worklist[p[1]]
                r == worklist[p[2]]
                equi == EquiJoinPreds(l, r)
                keys == JoinKeys(equi, l, r)
                lrep == RepartitionLeg(l, keys[1])
                rrep == RepartitionLeg(r, keys[2])
                legs == lops \o lrep \o rrep
                newl == IF lrep = << >> THEN l ELSE Len(lops) + 1
                newr == IF rrep = << >> THEN r ELSE Len(legs)
                left == pred_map \ JoinPreds(l, r)
             IN Update(l, r, equi, keys, newl, newr, legs, left)
    BY Zenon DEF Join
<1>b. /\ p[1] \in DOMAIN worklist /\ p[2] \in DOMAIN worklist /\ p[1] # p[2]
      /\ EquiJoinPreds(worklist[p[1]], worklist[p[2]]) # {}
    BY DEF Joinable
<1>c. worklist[p[1]] \in ToSet(worklist) /\ worklist[p[2]] \in ToSet(worklist) /\ worklist[p[1]] # worklist[p[2]]
    BY <1>b DEF Forest, ToSet, IsInjective
<1> HIDE DEF Update
<1>d. PICK l, r : l = worklist[p[1]] /\ r = worklist[p[2]]
    OBVIOUS
<1>e. PICK equi, left : equi = EquiJoinPreds(l, r) /\ left = pred_map \ JoinPreds(l, r)
    OBVIOUS
<1>f. PICK keys : keys = JoinKeys(equi, l, r)
    OBVIOUS
<1>g. PICK lrep, rrep : lrep = RepartitionLeg(l, keys[1]) /\ rrep = RepartitionLeg(r, keys[2])
    OBVIOUS
<1>h. PICK legs : legs = lops \o lrep \o rrep
    OBVIOUS
<1>i. PICK newl, newr : /\ newl = (IF lrep = << >> THEN l ELSE Len(lops) + 1)
                        /\ newr = (IF rrep = << >> THEN r ELSE Len(legs))
    BY Zenon
<1>j. Update(l, r, equi, keys, newl, newr, legs, left)
    BY <1>a, <1>d, <1>e, <1>f, <1>g, <1>h, <1>i, Zenon
<1>1. /\ l \in ToSet(worklist) /\ r \in ToSet(worklist) /\ l # r
      /\ equi = EquiJoinPreds(l, r) /\ equi # {} /\ keys = JoinKeys(equi, l, r)
      /\ lrep = RepartitionLeg(l, keys[1]) /\ rrep = RepartitionLeg(r, keys[2])
      /\ legs = lops \o lrep \o rrep
      /\ newl = (IF lrep = << >> THEN l ELSE Len(lops) + 1)
      /\ newr = (IF rrep = << >> THEN r ELSE Len(legs))
      /\ left = pred_map \ JoinPreds(l, r)
    BY <1>b, <1>c, <1>d, <1>e, <1>f, <1>g, <1>h, <1>i
<1>2. /\ keys \in Seq(Seq(ExprKeys)) /\ Len(keys) = 2 /\ keys[1] \in Seq(ExprKeys) /\ keys[2] \in Seq(ExprKeys)
    <2>1. equi \in SUBSET DOMAIN query.preds /\ query \in Queries
        BY <1>1, EquiFacts DEF TypeInv
    <2>2. AreJoinKeys(keys, equi, l, r)
        BY <1>1, <2>1, JoinKeysFacts
    <2> QED
        BY <2>2 DEF AreJoinKeys
<1>3. PICK a, b : a = Repartition(l, keys[1]) /\ b = Repartition(r, keys[2])
    OBVIOUS
<1>4. a \in LOPs /\ b \in LOPs
    BY <1>1, <1>2, <1>3, RepartitionFacts
<1>5. PICK n \in Nat : n = Len(lops)
    BY LenProperties DEF TypeInv
<1>6. lops \in Seq(LOPs) /\ DOMAIN lops = 1 .. n
    BY <1>5, LenProperties DEF TypeInv
<1>7. /\ lrep = IF ComparePartKeys(keys[1], lops[l].partkeys) THEN << >> ELSE <<a>>
      /\ rrep = IF ComparePartKeys(keys[2], lops[r].partkeys) THEN << >> ELSE <<b>>
    BY <1>1, <1>3 DEF RepartitionLeg
<1>8. /\ lops \o << >> = lops /\ lops \o <<a>> = Append(lops, a) /\ lops \o <<b>> = Append(lops, b)
      /\ Append(lops, a) \o << >> = Append(lops, a)
      /\ Append(lops, a) \o <<b>> = Append(Append(lops, a), b)
    <2>1. Append(lops, a) \in Seq(LOPs)
        BY <1>4, <1>6, AppendProperties
    <2> QED
        BY <1>4, <1>6, <2>1, ConcatEmptySeq, AppendIsConcat
<1>9. /\ legs \in Seq(LOPs) /\ DOMAIN legs = 1 .. Len(legs) /\ Len(legs) \in Nat
      /\ \A m \in DOMAIN lops : m \in DOMAIN legs /\ legs[m] = lops[m]
      /\ IsLeg(newl, l, keys[1], legs) /\ IsLeg(newr, r, keys[2], legs) /\ newl # newr
      /\ \A m \in DOMAIN legs : m \in DOMAIN lops \/ m = newl \/ m = newr
      /\ newl \in DOMAIN legs /\ newr \in DOMAIN legs
    <2>1. l \in 1 .. n /\ r \in 1 .. n
        BY <1>1, <1>6, WorkFacts
    <2>2. CASE lrep = << >> /\ rrep = << >>
        <3>1. legs = lops /\ newl = l /\ newr = r
            BY <1>1, <1>8, <2>2
        <3>2. ComparePartKeys(keys[1], lops[l].partkeys) /\ ComparePartKeys(keys[2], lops[r].partkeys)
            BY <1>7, <2>2
        <3> QED
            BY <1>1, <1>5, <1>6, <2>1, <3>1, <3>2 DEF IsLeg
    <2>3. CASE lrep = <<a>> /\ rrep = << >>
        <3>1. legs = Append(lops, a) /\ newl = n + 1 /\ newr = r
            BY <1>1, <1>5, <1>8, <2>3
        <3>2. ComparePartKeys(keys[2], lops[r].partkeys)
            BY <1>7, <2>3
        <3>3. /\ legs \in Seq(LOPs) /\ DOMAIN legs = 1 .. n + 1 /\ Len(legs) = n + 1 /\ legs[n + 1] = a
              /\ \A m \in 1 .. n : legs[m] = lops[m]
            BY <1>4, <1>5, <1>6, <3>1, AppendProperties, LenProperties
        <3> QED
            BY <1>1, <1>3, <1>6, <2>1, <3>1, <3>2, <3>3 DEF IsLeg
    <2>4. CASE lrep = << >> /\ rrep = <<b>>
        <3>1. legs = Append(lops, b) /\ newl = l
            BY <1>1, <1>8, <2>4
        <3>2. ComparePartKeys(keys[1], lops[l].partkeys)
            BY <1>7, <2>4
        <3>3. /\ legs \in Seq(LOPs) /\ DOMAIN legs = 1 .. n + 1 /\ Len(legs) = n + 1 /\ legs[n + 1] = b
              /\ \A m \in 1 .. n : legs[m] = lops[m]
            BY <1>4, <1>5, <1>6, <3>1, AppendProperties, LenProperties
        <3>4. newr = n + 1
            BY <1>1, <2>4, <3>3
        <3> QED
            BY <1>1, <1>3, <1>6, <2>1, <3>1, <3>2, <3>3, <3>4 DEF IsLeg
    <2>5. CASE lrep = <<a>> /\ rrep = <<b>>
        <3>1. legs = Append(Append(lops, a), b) /\ newl = n + 1
            <4>1. lops \o lrep = Append(lops, a)
                BY <1>8, <2>5
            <4>2. legs = Append(lops, a) \o <<b>>
                BY <1>1, <2>5, <4>1
            <4>3. lrep # << >>
                BY <2>5
            <4> QED
                BY <1>1, <1>5, <1>8, <4>2, <4>3
        <3>2. PICK c : c = Append(lops, a)
            OBVIOUS
        <3>3. /\ c \in Seq(LOPs) /\ DOMAIN c = 1 .. n + 1 /\ Len(c) = n + 1 /\ c[n + 1] = a
              /\ \A m \in 1 .. n : c[m] = lops[m]
            BY <1>4, <1>5, <1>6, <3>2, AppendProperties, LenProperties
        <3>4. /\ legs \in Seq(LOPs) /\ DOMAIN legs = 1 .. n + 2 /\ Len(legs) = n + 2 /\ legs[n + 2] = b
              /\ \A m \in 1 .. n + 1 : legs[m] = c[m]
            <4>1. /\ legs \in Seq(LOPs) /\ Len(legs) = n + 1 + 1 /\ legs[n + 1 + 1] = b
                  /\ \A m \in 1 .. n + 1 : legs[m] = c[m]
                BY <1>4, <3>1, <3>2, <3>3, AppendProperties
            <4>2. n + 1 + 1 = n + 2
                OBVIOUS
            <4> QED
                BY <4>1, <4>2, LenProperties
        <3>5. newr = n + 2
            BY <1>1, <2>5, <3>4
        <3>6. /\ \A m \in 1 .. n : m \in 1 .. n + 1 /\ m \in 1 .. n + 2
              /\ n + 1 \in 1 .. n + 1 /\ n + 1 \in 1 .. n + 2 /\ n + 2 \in 1 .. n + 2
              /\ n + 1 \notin 1 .. n /\ n + 2 \notin 1 .. n
              /\ \A m \in 1 .. n + 2 : m \in 1 .. n \/ m = n + 1 \/ m = n + 2
            OBVIOUS
        <3>7. legs[n + 1] = a
            BY <3>3, <3>4, <3>6
        <3> QED
            <4>1. \A m \in DOMAIN lops : m \in DOMAIN legs /\ legs[m] = lops[m]
                BY <1>6, <3>3, <3>4, <3>6
            <4>2. IsLeg(newl, l, keys[1], legs) /\ IsLeg(newr, r, keys[2], legs)
                BY <1>3, <1>6, <3>1, <3>4, <3>5, <3>6, <3>7 DEF IsLeg
            <4>3. newl # newr
                BY <3>1, <3>5
            <4> QED
                BY <1>6, <3>1, <3>4, <3>5, <3>6, <4>1, <4>2, <4>3
    <2> QED
        BY <1>7, <2>2, <2>3, <2>4, <2>5
<1>10. PICK join : join = JoinLop(l, r, newl, newr, legs, equi, keys)
    OBVIOUS
<1>11. join \in LOPs
    <2>1. lops[l] \in LOPs /\ lops[r] \in LOPs /\ legs[newl] \in LOPs /\ newl \in Nat /\ newr \in Nat /\ query.degree \in Nat
        <3>1. lops[l] \in LOPs /\ lops[r] \in LOPs
            BY <1>1, WorkFacts
        <3>2. newl \in 1 .. Len(legs) /\ newr \in 1 .. Len(legs)
            BY <1>9
        <3>3. legs[newl] \in LOPs
            BY <1>9, <3>2, ElementOfSeq
        <3>4. query.degree \in Nat
            BY QueryFacts DEF TypeInv
        <3> QED
            BY <3>1, <3>2, <3>3, <3>4
    <2>2. PICK x, y, z, C, P, d, base :
              /\ x = lops[l] /\ y = lops[r] /\ z = legs[newl]
              /\ C = (x.cols \union y.cols) \intersect FlowCols(left)
              /\ P = JoinPreds(l, r) \ equi /\ d = query.degree
              /\ base = Lop("HashJoin", JoinQuns(l, r))
        OBVIOUS
    <2>3. x \in LOPs /\ y \in LOPs /\ z \in LOPs /\ <<newl, newr>> \in Seq(Nat) /\ d \in Nat
        BY <2>1, <2>2
    <2>4. JoinPreds(l, r) \in SUBSET Nat
        BY EquiFacts, QueryFacts DEF TypeInv
    <2>5. C \in SUBSET (Nat \X Nat) /\ P \in SUBSET Nat
        BY <2>2, <2>3, <2>4 DEF LOPs
    <2>6. base \in LOPs
        <3>1. JoinQuns(l, r) \in SUBSET Nat
            BY <2>2, <2>3 DEF LOPs, JoinQuns
        <3> QED
            BY <2>2, <3>1, LopFacts
    <2>7. join = [base EXCEPT !.children = <<newl, newr>>, !.join_keys = keys, !.cols = C, !.preds = P,
                              !.partkeys = z.partkeys, !.npartitions = d]
        BY <1>1, <1>10, <2>2 DEF JoinLop, JoinPartitions
    <2>8. [base EXCEPT !.children = <<newl, newr>>, !.join_keys = keys, !.cols = C, !.preds = P,
                       !.partkeys = z.partkeys, !.npartitions = d] \in LOPs
        BY <1>2, <2>3, <2>5, <2>6 DEF LOPs
    <2> QED
        BY <2>7, <2>8
<1>12. /\ lops' = Append(legs, join)
       /\ pred_map' = pred_map \ JoinPreds(l, r)
       /\ worklist' = <<Len(legs) + 1>> \o Without(worklist, {l, r})
    BY <1>1, <1>10, <1>j DEF JoinLop, Update
<1>13. UNCHANGED <<query, pc, stack, stages, pops>> /\ pc = "join"
    BY DEF Join
<1>14. Joins(l, r, newl, newr, legs, equi, keys, join)
    BY <1>1, <1>9, <1>10, <1>11, <1>12, <1>13 DEF Joins
<1> QED
    BY <1>14

LEMMA RepartitionFields ==
    ASSUME NEW n, NEW keys, NEW x, x = Repartition(n, keys)
    PROVE  /\ x.lop = "Repartition" /\ x.quns = lops[n].quns /\ x.children = <<n>> /\ x.cols = lops[n].cols
           /\ x.virtcols = << >> /\ x.preds = {} /\ x.partkeys = keys /\ x.npartitions = lops[n].npartitions
           /\ x.cpartitions = query.degree /\ x.join_keys = << >>
BY DEF Repartition, Lop

LEMMA JoinFields ==
    ASSUME NEW l, NEW r, NEW newl, NEW newr, NEW legs, NEW equi, NEW keys, NEW join,
           Joins(l, r, newl, newr, legs, equi, keys, join)
    PROVE  /\ join.lop = "HashJoin" /\ join.quns = JoinQuns(l, r) /\ join.children = <<newl, newr>>
           /\ join.virtcols = << >> /\ join.preds = JoinPreds(l, r) \ equi
           /\ join.partkeys = legs[newl].partkeys /\ join.npartitions = query.degree
           /\ join.join_keys = keys
BY DEF Joins, JoinLop, Lop, JoinPartitions

LEMMA JoinCols ==
    ASSUME NEW l, NEW r, NEW newl, NEW newr, NEW legs, NEW equi, NEW keys, NEW join,
           Joins(l, r, newl, newr, legs, equi, keys, join)
    PROVE  \A c : c \in join.cols <=> (c \in lops[l].cols \/ c \in lops[r].cols) /\ c \in FlowCols(pred_map')
<1>1. PICK left : left = pred_map \ JoinPreds(l, r)
    OBVIOUS
<1>2. join = JoinLop(l, r, newl, newr, legs, equi, keys) /\ pred_map' = left
    BY <1>1 DEF Joins
<1>3. join.cols = (lops[l].cols \union lops[r].cols) \intersect FlowCols(left)
    BY <1>1, <1>2 DEF JoinLop, Lop
<1> QED
    BY <1>2, <1>3

\* The LOPs after a join: those before, the new legs, and the join behind them.
LEMMA JoinCases ==
    ASSUME TypeInv, NEW l, NEW r, NEW newl, NEW newr, NEW legs, NEW equi, NEW keys, NEW join,
           Joins(l, r, newl, newr, legs, equi, keys, join)
    PROVE  /\ DOMAIN lops = 1 .. Len(lops) /\ Len(lops) \in Nat
           /\ DOMAIN legs = 1 .. Len(legs) /\ Len(legs) \in Nat /\ Len(lops) <= Len(legs)
           /\ lops' \in Seq(LOPs) /\ DOMAIN lops' = 1 .. Len(legs) + 1 /\ Len(lops') = Len(legs) + 1
           /\ newl \in 1 .. Len(legs) /\ newr \in 1 .. Len(legs) /\ newl # newr
           /\ l \in 1 .. Len(lops) /\ r \in 1 .. Len(lops) /\ l # r
           /\ \A n \in DOMAIN lops : lops'[n] = lops[n]
           /\ lops'[Len(legs) + 1] = join
           /\ newl = l \/ (newl \notin DOMAIN lops /\ lops'[newl] = Repartition(l, keys[1]))
           /\ newr = r \/ (newr \notin DOMAIN lops /\ lops'[newr] = Repartition(r, keys[2]))
           /\ \A n \in DOMAIN lops' : n \in DOMAIN lops \/ n = newl \/ n = newr \/ n = Len(legs) + 1
<1>1. /\ DOMAIN lops = 1 .. Len(lops) /\ Len(lops) \in Nat /\ lops \in Seq(LOPs)
      /\ DOMAIN legs = 1 .. Len(legs) /\ Len(legs) \in Nat /\ legs \in Seq(LOPs)
    BY LenProperties DEF TypeInv, Joins
<1>2. /\ \A n \in DOMAIN lops : n \in DOMAIN legs /\ legs[n] = lops[n]
      /\ IsLeg(newl, l, keys[1], legs) /\ IsLeg(newr, r, keys[2], legs) /\ newl # newr
      /\ \A n \in DOMAIN legs : n \in DOMAIN lops \/ n = newl \/ n = newr
      /\ newl \in DOMAIN legs /\ newr \in DOMAIN legs
      /\ join \in LOPs /\ lops' = Append(legs, join) /\ l # r
    BY DEF Joins
<1>3. /\ lops' \in Seq(LOPs) /\ DOMAIN lops' = 1 .. Len(legs) + 1 /\ Len(lops') = Len(legs) + 1
      /\ lops'[Len(legs) + 1] = join
      /\ \A n \in 1 .. Len(legs) : lops'[n] = legs[n]
    BY <1>1, <1>2, AppendProperties, LenProperties
<1>4. l \in 1 .. Len(lops) /\ r \in 1 .. Len(lops)
    BY <1>1, WorkFacts DEF Joins
<1>5. Len(lops) <= Len(legs)
    <2>1. Len(lops) # 0 => Len(lops) \in DOMAIN lops
        BY <1>1
    <2> QED
        BY <1>1, <1>2, <2>1
<1>6. \A n \in DOMAIN lops : lops'[n] = lops[n]
    BY <1>1, <1>2, <1>3
<1>7. /\ newl = l \/ (newl \notin DOMAIN lops /\ lops'[newl] = Repartition(l, keys[1]))
      /\ newr = r \/ (newr \notin DOMAIN lops /\ lops'[newr] = Repartition(r, keys[2]))
    BY <1>1, <1>2, <1>3 DEF IsLeg
<1>8. \A n \in DOMAIN lops' : n \in DOMAIN lops \/ n = newl \/ n = newr \/ n = Len(legs) + 1
    <2>1. \A n \in 1 .. Len(legs) + 1 : n \in 1 .. Len(legs) \/ n = Len(legs) + 1
        BY <1>1
    <2> QED
        BY <1>1, <1>2, <1>3, <2>1
<1> QED
    BY <1>1, <1>2, <1>3, <1>4, <1>5, <1>6, <1>7, <1>8

\* The work list after a join.
LEMMA JoinWork ==
    ASSUME TypeInv, Forest, NEW l, NEW r, NEW newl, NEW newr, NEW legs, NEW equi, NEW keys, NEW join,
           Joins(l, r, newl, newr, legs, equi, keys, join)
    PROVE  /\ worklist' \in Seq(Nat)
           /\ ToSet(worklist') = (ToSet(worklist) \ {l, r}) \union {Len(legs) + 1}
           /\ IsInjective(worklist')
<1>1. PICK rest, new : rest = Without(worklist, {l, r}) /\ new = Len(legs) + 1
    OBVIOUS
<1>2. rest \in Seq(Nat) /\ ToSet(rest) = ToSet(worklist) \ {l, r} /\ IsInjective(rest)
    BY <1>1, WithoutFacts DEF TypeInv, Forest
<1>3. new \in Nat /\ new \notin ToSet(rest)
    <2>1. DOMAIN lops = 1 .. Len(lops) /\ Len(lops) \in Nat /\ Len(legs) \in Nat /\ Len(lops) <= Len(legs)
        BY JoinCases
    <2>2. new \in Nat /\ new \notin DOMAIN lops
        BY <1>1, <2>1
    <2> QED
        BY <1>2, <2>2 DEF TypeInv
<1>4. worklist' = <<new>> \o rest
    BY <1>1 DEF Joins
<1>5. /\ worklist' \in Seq(Nat) /\ DOMAIN worklist' = 1 .. Len(rest) + 1 /\ Len(rest) \in Nat
      /\ DOMAIN rest = 1 .. Len(rest)
      /\ worklist'[1] = new
      /\ \A i \in 1 .. Len(rest) : worklist'[i + 1] = rest[i]
    <2>1. /\ <<new>> \in Seq(Nat) /\ Len(<<new>>) = 1 /\ <<new>>[1] = new
          /\ Len(rest) \in Nat /\ DOMAIN rest = 1 .. Len(rest)
        BY <1>2, <1>3, LenProperties
    <2>2. /\ worklist' \in Seq(Nat) /\ Len(worklist') = 1 + Len(rest)
          /\ \A i \in 1 .. 1 + Len(rest) : worklist'[i] = IF i <= 1 THEN <<new>>[i] ELSE rest[i - 1]
        BY <1>2, <1>4, <2>1, ConcatProperties
    <2>3. DOMAIN worklist' = 1 .. Len(rest) + 1
        BY <2>1, <2>2, LenProperties
    <2>4. \A i \in 1 .. Len(rest) : i + 1 \in 1 .. 1 + Len(rest) /\ ~(i + 1 <= 1) /\ i + 1 - 1 = i
        BY <2>1
    <2> QED
        BY <2>1, <2>2, <2>3, <2>4
<1>6. \A j \in DOMAIN worklist' : j = 1 \/ (j - 1 \in 1 .. Len(rest) /\ worklist'[j] = rest[j - 1])
    <2>1. \A j \in 1 .. Len(rest) + 1 : j = 1 \/ (j - 1 \in 1 .. Len(rest) /\ j - 1 + 1 = j)
        BY <1>5
    <2> QED
        BY <1>5, <2>1
<1>7. ToSet(worklist') = ToSet(rest) \union {new}
    <2>1. \A x \in ToSet(worklist') : x \in ToSet(rest) \/ x = new
        BY <1>5, <1>6 DEF ToSet
    <2>2. \A x \in ToSet(rest) : x \in ToSet(worklist')
        <3>1. \A i \in 1 .. Len(rest) : i + 1 \in DOMAIN worklist'
            BY <1>5
        <3> QED
            BY <1>5, <3>1 DEF ToSet
    <2>3. new \in ToSet(worklist')
        BY <1>5 DEF ToSet
    <2> QED
        BY <2>1, <2>2, <2>3
<1>8. IsInjective(worklist')
    <2>1. \A i \in 1 .. Len(rest) : rest[i] # new
        BY <1>3, <1>5 DEF ToSet
    <2>2. \A i, j \in 1 .. Len(rest) : rest[i] = rest[j] => i = j
        BY <1>2, <1>5 DEF IsInjective
    <2>3. SUFFICES ASSUME NEW i \in DOMAIN worklist', NEW j \in DOMAIN worklist', worklist'[i] = worklist'[j]
                   PROVE  i = j
        BY DEF IsInjective
    <2>4. i \in Nat /\ j \in Nat
        BY <1>5
    <2>5. CASE i = 1 /\ j # 1
        BY <1>5, <1>6, <2>1, <2>3, <2>5
    <2>6. CASE i # 1 /\ j = 1
        BY <1>5, <1>6, <2>1, <2>3, <2>6
    <2>7. CASE i # 1 /\ j # 1
        <3>1. i - 1 \in 1 .. Len(rest) /\ j - 1 \in 1 .. Len(rest) /\ rest[i - 1] = rest[j - 1]
            BY <1>6, <2>3, <2>7
        <3>2. i - 1 = j - 1
            BY <2>2, <3>1
        <3> QED
            BY <2>4, <3>2
    <2> QED
        BY <2>5, <2>6, <2>7
<1> QED
    BY <1>1, <1>2, <1>5, <1>7, <1>8

LEMMA AppendVirtFacts ==
    ASSUME NEW X, NEW v \in Seq(X), NEW w \in Seq(X)
    PROVE  /\ AppendVirtCols(v, w) \in Seq(X)
           /\ ToSet(AppendVirtCols(v, w)) \subseteq ToSet(v) \union ToSet(w)
           /\ v = << >> => AppendVirtCols(v, w) = w
<1>1. CASE v = << >>
    BY <1>1 DEF AppendVirtCols
<1>2. CASE v # << >>
    <2>1. PICK u : u = Without(w, ToSet(w))
        OBVIOUS
    <2>2. u \in Seq(X) /\ ToSet(u) \subseteq ToSet(w)
        BY <2>1, WithoutFacts
    <2>3. AppendVirtCols(v, w) = v \o u
        BY <1>2, <2>1 DEF AppendVirtCols
    <2>4. ToSet(v \o u) \subseteq ToSet(v) \union ToSet(u)
        BY <2>2, ToSetConcat
    <2>5. v \o u \in Seq(X)
        BY <2>2, ConcatProperties
    <2> QED
        BY <1>2, <2>2, <2>3, <2>4, <2>5
<1> QED
    BY <1>1, <1>2

\* What a rewrite adds to LOP n comes from one LOP above it.
LEMMA FromParentFacts ==
    ASSUME NEW n, NEW f
    PROVE  /\ Parents(n) = {} => FromParent(n, f) = << >>
           /\ Parents(n) # {} => \E m \in Parents(n) : FromParent(n, f) = f[m]
BY DEF FromParent

LEMMA PartKeysFacts ==
    ASSUME TypeInv, NEW m \in DOMAIN lops
    PROVE  /\ ComputedPartKeys(m) \in Seq(ExprKeys)
           /\ ~IsRepartition(m) => ComputedPartKeys(m) = << >>
           /\ IsRepartition(m) =>
                 ToSet(ComputedPartKeys(m)) = {e \in ToSet(lops[m].partkeys) : ~IsColumn(e)}
<1>1. PICK S : S = {e \in ToSet(lops[m].partkeys) : IsColumn(e)}
    OBVIOUS
<1>2. lops[m].partkeys \in Seq(ExprKeys)
    BY LopIn DEF LOPs
<1>3. /\ Without(lops[m].partkeys, S) \in Seq(ExprKeys)
      /\ ToSet(Without(lops[m].partkeys, S)) = ToSet(lops[m].partkeys) \ S
    BY <1>2, WithoutFacts
<1>4. ComputedPartKeys(m) = IF IsRepartition(m) THEN Without(lops[m].partkeys, S) ELSE << >>
    BY <1>1 DEF ComputedPartKeys
<1> QED
    BY <1>1, <1>3, <1>4, EmptySeq

LEMMA LegKeysFacts ==
    ASSUME TypeInv, Shape, NEW n, NEW m \in Parents(n)
    PROVE  /\ LegKeys(m, n) \in Seq(ExprKeys)
           /\ \/ LegKeys(m, n) = << >>
              \/ /\ lops[m].lop = "HashJoin"
                 /\ \E k \in 1 .. 2 : lops[m].children[k] = n /\ LegKeys(m, n) = lops[m].join_keys[k]
<1>1. PICK x, keys : x = lops[m] /\ keys = x.join_keys
    OBVIOUS
<1>2. m \in DOMAIN lops /\ n \in ToSet(x.children)
    BY <1>1 DEF Parents
<1>3. x \in LOPs
    BY <1>1, <1>2, LenProperties, ElementOfSeq DEF TypeInv
<1>4. keys \in Seq(Seq(ExprKeys)) /\ x.children \in Seq(Nat)
    BY <1>1, <1>3 DEF LOPs
<1>5. CASE \A k \in DOMAIN keys : \A e \in ToSet(keys[k]) : IsColumn(e)
    <2>1. LegKeys(m, n) = << >>
        BY <1>1, <1>5 DEF LegKeys
    <2> QED
        BY <2>1, EmptySeq
<1>6. CASE ~ \A k \in DOMAIN keys : \A e \in ToSet(keys[k]) : IsColumn(e)
    <2>1. Len(keys) # 0
        <3>1. DOMAIN keys # {}
            BY <1>6
        <3> QED
            BY <1>4, <3>1, LenProperties
    <2>2. x.lop = "HashJoin" /\ Len(keys) = 2 /\ Len(x.children) = 2
        <3>1. Len(x.children) = Arity(x.lop) /\ Len(keys) = IF x.lop = "HashJoin" THEN 2 ELSE 0
            BY <1>1, <1>2 DEF Shape
        <3>2. x.lop = "HashJoin"
            BY <2>1, <3>1
        <3> QED
            BY <3>1, <3>2 DEF Arity
    <2>3. \E k \in 1 .. 2 : x.children[k] = n
        BY <1>2, <1>4, <2>2, LenProperties DEF ToSet
    <2>4. PICK leg : leg = CHOOSE k \in 1 .. 2 : x.children[k] = n
        OBVIOUS
    <2>5. leg \in 1 .. 2 /\ x.children[leg] = n
        BY <2>3, <2>4
    <2>6. LegKeys(m, n) = keys[leg]
        BY <1>1, <1>6, <2>4 DEF LegKeys
    <2>7. keys[leg] \in Seq(ExprKeys)
        BY <1>4, <2>2, <2>5, ElementOfSeq
    <2> QED
        BY <1>1, <2>2, <2>5, <2>6, <2>7
<1> QED
    BY <1>5, <1>6

\* A rewrite changes virtual columns and nothing else.
Rewritten(v) ==
    /\ DOMAIN v = DOMAIN lops
    /\ \A n \in DOMAIN lops : v[n] \in Seq(ExprKeys)
    /\ lops' = [n \in DOMAIN lops |-> [lops[n] EXCEPT !.virtcols = v[n]]]

LEMMA AddedKeys ==
    ASSUME TypeInv, AddRepartitioningKeys
    PROVE  \E v : /\ Rewritten(v)
                  /\ \A n \in DOMAIN lops :
                        \E w \in Seq(ExprKeys) :
                           /\ v[n] = AppendVirtCols(lops[n].virtcols, ComputedPartKeys(n) \o w)
                           /\ Parents(n) = {} => w = << >>
                           /\ Parents(n) # {} => \E m \in Parents(n) : w = ComputedPartKeys(m)
<1> DEFINE w(n) == FromParent(n, [m \in Parents(n) |-> ComputedPartKeys(m)])
           v == [n \in DOMAIN lops |-> AppendVirtCols(lops[n].virtcols, ComputedPartKeys(n) \o w(n))]
<1>1. lops' = [n \in DOMAIN lops |-> [lops[n] EXCEPT !.virtcols = v[n]]]
    BY DEF AddRepartitioningKeys
<1>2. ASSUME NEW n \in DOMAIN lops
      PROVE  /\ v[n] = AppendVirtCols(lops[n].virtcols, ComputedPartKeys(n) \o w(n))
             /\ v[n] \in Seq(ExprKeys) /\ w(n) \in Seq(ExprKeys)
             /\ Parents(n) = {} => w(n) = << >>
             /\ Parents(n) # {} => \E m \in Parents(n) : w(n) = ComputedPartKeys(m)
    <2>1. PICK f : f = [m \in Parents(n) |-> ComputedPartKeys(m)]
        OBVIOUS
    <2>2. /\ Parents(n) = {} => w(n) = << >>
          /\ Parents(n) # {} => \E m \in Parents(n) : w(n) = f[m]
        BY <2>1, FromParentFacts
    <2>3. /\ Parents(n) = {} => w(n) = << >>
          /\ Parents(n) # {} => \E m \in Parents(n) : w(n) = ComputedPartKeys(m)
        BY <2>1, <2>2
    <2>4. v[n] = AppendVirtCols(lops[n].virtcols, ComputedPartKeys(n) \o w(n))
        OBVIOUS
    <2> HIDE DEF v, w
    <2>5. w(n) \in Seq(ExprKeys)
        BY <2>3, PartKeysFacts, EmptySeq DEF Parents
    <2>6. lops[n].virtcols \in Seq(ExprKeys)
        BY LopIn DEF LOPs
    <2>7. ComputedPartKeys(n) \o w(n) \in Seq(ExprKeys)
        BY <2>5, PartKeysFacts, ConcatProperties
    <2>8. v[n] \in Seq(ExprKeys)
        <3>1. PICK a, b : a = lops[n].virtcols /\ b = ComputedPartKeys(n) \o w(n)
            OBVIOUS
        <3>2. AppendVirtCols(a, b) \in Seq(ExprKeys)
            BY <2>6, <2>7, <3>1, AppendVirtFacts
        <3> QED
            BY <2>4, <3>1, <3>2
    <2> QED
        BY <2>3, <2>4, <2>5, <2>8
<1>3. DOMAIN v = DOMAIN lops
    OBVIOUS
<1> HIDE DEF v, w
<1>4. Rewritten(v)
    BY <1>1, <1>2, <1>3 DEF Rewritten
<1> QED
    BY <1>2, <1>4

LEMMA PushedKeys ==
    ASSUME TypeInv, Shape, PushdownJoinKeys
    PROVE  \E v : /\ Rewritten(v)
                  /\ \A n \in DOMAIN lops :
                        \E w \in Seq(ExprKeys) :
                           /\ v[n] = AppendVirtCols(lops[n].virtcols, w)
                           /\ Parents(n) = {} => w = << >>
                           /\ Parents(n) # {} => \E m \in Parents(n) : w = LegKeys(m, n)
<1> DEFINE w(n) == FromParent(n, [m \in Parents(n) |-> LegKeys(m, n)])
           v == [n \in DOMAIN lops |-> AppendVirtCols(lops[n].virtcols, w(n))]
<1>1. lops' = [n \in DOMAIN lops |-> [lops[n] EXCEPT !.virtcols = v[n]]]
    BY DEF PushdownJoinKeys
<1>2. ASSUME NEW n \in DOMAIN lops
      PROVE  /\ v[n] = AppendVirtCols(lops[n].virtcols, w(n))
             /\ v[n] \in Seq(ExprKeys) /\ w(n) \in Seq(ExprKeys)
             /\ Parents(n) = {} => w(n) = << >>
             /\ Parents(n) # {} => \E m \in Parents(n) : w(n) = LegKeys(m, n)
    <2>1. PICK f : f = [m \in Parents(n) |-> LegKeys(m, n)]
        OBVIOUS
    <2>2. /\ Parents(n) = {} => w(n) = << >>
          /\ Parents(n) # {} => \E m \in Parents(n) : w(n) = f[m]
        BY <2>1, FromParentFacts
    <2>3. /\ Parents(n) = {} => w(n) = << >>
          /\ Parents(n) # {} => \E m \in Parents(n) : w(n) = LegKeys(m, n)
        BY <2>1, <2>2
    <2>4. v[n] = AppendVirtCols(lops[n].virtcols, w(n))
        OBVIOUS
    <2> HIDE DEF v, w
    <2>5. w(n) \in Seq(ExprKeys)
        BY <2>3, LegKeysFacts, EmptySeq
    <2>6. lops[n].virtcols \in Seq(ExprKeys)
        BY LopIn DEF LOPs
    <2>7. v[n] \in Seq(ExprKeys)
        BY <2>4, <2>5, <2>6, AppendVirtFacts
    <2> QED
        BY <2>3, <2>4, <2>5, <2>7
<1>3. DOMAIN v = DOMAIN lops
    OBVIOUS
<1> HIDE DEF v, w
<1>4. Rewritten(v)
    BY <1>1, <1>2, <1>3 DEF Rewritten
<1> QED
    BY <1>2, <1>4

LEMMA RewrittenFacts ==
    ASSUME TypeInv, NEW v, Rewritten(v)
    PROVE  /\ lops' \in Seq(LOPs) /\ DOMAIN lops' = DOMAIN lops
           /\ \A n \in DOMAIN lops :
                 LET x == lops[n]
                     y == lops'[n]
                 IN  /\ y.virtcols = v[n]
                     /\ y.lop = x.lop /\ y.quns = x.quns /\ y.children = x.children /\ y.cols = x.cols
                     /\ y.preds = x.preds /\ y.partkeys = x.partkeys /\ y.npartitions = x.npartitions
                     /\ y.cpartitions = x.cpartitions /\ y.join_keys = x.join_keys
<1>1. PICK N \in Nat : N = Len(lops)
    BY LenProperties DEF TypeInv
<1>2. DOMAIN lops = 1 .. N /\ \A n \in 1 .. N : lops[n] \in LOPs
    BY <1>1, LenProperties, ElementOfSeq DEF TypeInv
<1>3. ASSUME NEW n \in 1 .. N PROVE [lops[n] EXCEPT !.virtcols = v[n]] \in LOPs
    BY <1>2, <1>3 DEF LOPs, Rewritten
<1>4. lops' = [n \in 1 .. N |-> [lops[n] EXCEPT !.virtcols = v[n]]]
    BY <1>2 DEF Rewritten
<1>5. lops' \in Seq(LOPs) /\ DOMAIN lops' = DOMAIN lops
    BY <1>2, <1>3, <1>4
<1>6. ASSUME NEW n \in DOMAIN lops
      PROVE  LET x == lops[n]
                 y == lops'[n]
             IN  /\ y.virtcols = v[n]
                 /\ y.lop = x.lop /\ y.quns = x.quns /\ y.children = x.children /\ y.cols = x.cols
                 /\ y.preds = x.preds /\ y.partkeys = x.partkeys /\ y.npartitions = x.npartitions
                 /\ y.cpartitions = x.cpartitions /\ y.join_keys = x.join_keys
    <2>1. PICK x, y : x = lops[n] /\ y = lops'[n]
        OBVIOUS
    <2>2. y = [x EXCEPT !.virtcols = v[n]] /\ x \in LOPs
        BY <1>2, <1>4, <2>1
    <2> QED
        BY <2>1, <2>2 DEF LOPs
<1> QED
    BY <1>5, <1>6

-----------------------------------------------------------------------------
(* What the actions do to the LOPs. *)

LEMMA Appended ==
    ASSUME TypeInv, NEW x \in LOPs, lops' = Append(lops, x)
    PROVE  /\ Len(lops) \in Nat /\ DOMAIN lops = 1 .. Len(lops) /\ DOMAIN lops' = 1 .. Len(lops) + 1
           /\ lops' \in Seq(LOPs)
           /\ \A n \in DOMAIN lops : n \in DOMAIN lops' /\ lops'[n] = lops[n]
           /\ \A n \in DOMAIN lops' : n \in DOMAIN lops \/ n = Len(lops) + 1
           /\ Len(lops) + 1 \notin DOMAIN lops /\ Len(lops) + 1 \in DOMAIN lops'
           /\ lops'[Len(lops) + 1] = x
<1>1. lops \in Seq(LOPs) /\ Len(lops) \in Nat /\ DOMAIN lops = 1 .. Len(lops)
    BY LenProperties DEF TypeInv
<1>2. /\ lops' \in Seq(LOPs) /\ Len(lops') = Len(lops) + 1 /\ lops'[Len(lops) + 1] = x
      /\ \A n \in 1 .. Len(lops) : lops'[n] = lops[n]
    BY <1>1, AppendProperties
<1>3. DOMAIN lops' = 1 .. Len(lops) + 1
    BY <1>2, LenProperties
<1>4. PICK N \in Nat : N = Len(lops)
    BY <1>1
<1>5. /\ \A n \in 1 .. N : n \in 1 .. N + 1
      /\ \A n \in 1 .. N + 1 : n \in 1 .. N \/ n = N + 1
      /\ N + 1 \notin 1 .. N /\ N + 1 \in 1 .. N + 1
    OBVIOUS
<1> QED
    BY <1>1, <1>2, <1>3, <1>4, <1>5

\* The predicates of a scan, and those that its columns are kept for.
Local == {i \in pred_map : PredQuns(i) = {Len(worklist) + 1}}
Unbound == {i \in pred_map \ Local : Len(worklist) + 1 \in PredQuns(i)}

LEMMA ScanEffect ==
    ASSUME TypeInv, BuildScan
    PROVE  /\ pc = "scan" /\ Len(worklist) + 1 \in Quns /\ Len(worklist) + 1 \in Nat
           /\ pred_map' = pred_map \ Local
           /\ worklist' = Append(worklist, Len(lops) + 1)
           /\ pc' = IF Len(worklist) + 1 = Len(query.parts) THEN "join" ELSE "scan"
           /\ UNCHANGED <<query, stack, stages, pops>>
           /\ \E x \in LOPs :
                /\ lops' = Append(lops, x)
                /\ x.lop = "TableScan" /\ x.quns = {Len(worklist) + 1} /\ x.children = << >>
                /\ x.cols = {c \in FlowCols(Unbound) : c[1] = Len(worklist) + 1}
                /\ x.virtcols = << >> /\ x.preds = Local /\ x.partkeys = << >> /\ x.join_keys = << >>
                /\ x.npartitions = query.parts[Len(worklist) + 1]
<1>1. PICK qun, local, unbound :
          /\ qun = Len(worklist) + 1
          /\ local = {i \in pred_map : PredQuns(i) = {qun}}
          /\ unbound = {i \in pred_map \ local : qun \in PredQuns(i)}
    OBVIOUS
<1>2. local = Local /\ unbound = Unbound
    BY <1>1 DEF Local, Unbound
<1>3. PICK C, p, x, base :
          /\ C = {c \in FlowCols(unbound) : c[1] = qun}
          /\ p = query.parts[qun]
          /\ base = Lop("TableScan", {qun})
          /\ x = [base EXCEPT !.preds = local, !.cols = C, !.npartitions = p]
    OBVIOUS
<1>4. lops' = Append(lops, x) /\ pc = "scan" /\ qun \in Quns
    BY <1>1, <1>3, Zenon DEF BuildScan
<1>5. qun \in Nat /\ p \in Nat /\ local \in SUBSET Nat
    BY <1>1, <1>3, <1>4, QueryFacts DEF TypeInv, Quns
<1>6. C \in SUBSET (Nat \X Nat)
    <2>1. \A c \in C : c \in SelectCols \/ \E i \in DOMAIN query.preds : c \in PredCols(i)
        BY <1>1, <1>3 DEF FlowCols, PredsCols, TypeInv
    <2>2. \A c \in C : c \in Quns \X Nat
        BY <2>1, ColumnFacts DEF TypeInv
    <2>3. Quns \subseteq Nat
        BY QueryFacts DEF TypeInv, Quns
    <2> QED
        BY <2>2, <2>3
<1>7. base \in LOPs
    BY <1>3, <1>5, LopFacts
<1>8. x \in LOPs
    BY <1>3, <1>5, <1>6, <1>7 DEF LOPs
<1>9. /\ base.lop = "TableScan" /\ base.quns = {qun} /\ base.children = << >> /\ base.virtcols = << >>
      /\ base.partkeys = << >> /\ base.join_keys = << >>
    BY <1>3 DEF Lop
<1>10. /\ x.lop = base.lop /\ x.quns = base.quns /\ x.children = base.children
       /\ x.cols = C /\ x.virtcols = base.virtcols /\ x.preds = local /\ x.partkeys = base.partkeys
       /\ x.join_keys = base.join_keys /\ x.npartitions = p
    BY <1>3, <1>7 DEF LOPs
<1>11. \E y \in LOPs :
          /\ lops' = Append(lops, y)
          /\ y.lop = "TableScan" /\ y.quns = {Len(worklist) + 1} /\ y.children = << >>
          /\ y.cols = {c \in FlowCols(Unbound) : c[1] = Len(worklist) + 1}
          /\ y.virtcols = << >> /\ y.preds = Local /\ y.partkeys = << >> /\ y.join_keys = << >>
          /\ y.npartitions = query.parts[Len(worklist) + 1]
    BY <1>1, <1>2, <1>3, <1>4, <1>8, <1>9, <1>10
<1>12. pred_map' = pred_map \ local
    BY <1>1, Zenon DEF BuildScan
<1> QED
    BY <1>1, <1>2, <1>4, <1>5, <1>11, <1>12 DEF BuildScan

\* The one LOP of the work list when the joins are done.
LEMMA RootFacts ==
    ASSUME TypeInv, Shape, Len(worklist) = 1
    PROVE  /\ worklist[1] \in DOMAIN lops /\ worklist[1] \in Nat /\ lops[worklist[1]] \in LOPs
           /\ ToSet(worklist) = {worklist[1]} /\ lops[worklist[1]].lop # "Repartition"
           /\ DOMAIN worklist = {1}
<1>1. DOMAIN worklist = 1 .. 1
    BY LenProperties DEF TypeInv
<1>2. worklist[1] \in ToSet(worklist) /\ ToSet(worklist) = {worklist[1]}
    BY <1>1 DEF ToSet
<1>3. worklist[1] \in Nat
    BY <1>1, ElementOfSeq DEF TypeInv
<1> QED
    BY <1>1, <1>2, <1>3, WorkFacts DEF Shape

LEMMA DoneEffect ==
    ASSUME TypeInv, Shape, JoinsDone
    PROVE  /\ pc = "join" /\ pc' = "agg" /\ Len(worklist) = 1
           /\ UNCHANGED <<query, worklist, pred_map, stack, stages, pops>>
           /\ lops' \in Seq(LOPs) /\ DOMAIN lops' = DOMAIN lops
           /\ \A n \in DOMAIN lops : n # worklist[1] => lops'[n] = lops[n]
           /\ LET x == lops[worklist[1]]
                  y == lops'[worklist[1]]
              IN  /\ y.virtcols = SelectList /\ y.cols = {}
                  /\ y.lop = x.lop /\ y.quns = x.quns /\ y.children = x.children
                  /\ y.preds = x.preds /\ y.partkeys = x.partkeys /\ y.npartitions = x.npartitions
                  /\ y.cpartitions = x.cpartitions /\ y.join_keys = x.join_keys
<1>1. PICK w : w = worklist[1]
    OBVIOUS
<1>2. /\ pc = "join" /\ pc' = "agg" /\ Len(worklist) = 1
      /\ UNCHANGED <<query, worklist, pred_map, stack, stages, pops>>
      /\ lops' = [lops EXCEPT ![w].cols = {}, ![w].virtcols = SelectList]
    BY <1>1 DEF JoinsDone
<1>3. w \in DOMAIN lops
    BY <1>1, <1>2, RootFacts
<1>4. PICK N \in Nat : N = Len(lops)
    BY LenProperties DEF TypeInv
<1>5. DOMAIN lops = 1 .. N /\ \A n \in 1 .. N : lops[n] \in LOPs
    BY <1>4, LenProperties, ElementOfSeq DEF TypeInv
<1>6. PICK x, y, L : x = lops[w] /\ L = SelectList /\ y = [x EXCEPT !.cols = {}, !.virtcols = L]
    OBVIOUS
<1>7. L \in Seq(ExprKeys)
    <2>1. PICK m \in Nat : m = Len(query.select) /\ DOMAIN query.select = 1 .. m
        BY QueryFacts DEF TypeInv
    <2>2. L = [i \in 1 .. m |-> <<"select", i>>]
        BY <1>6, <2>1 DEF SelectList
    <2>3. \A i \in 1 .. m : <<"select", i>> \in ExprKeys
        BY DEF ExprKeys
    <2> QED
        BY <2>2, <2>3
<1>8. x \in LOPs
    BY <1>3, <1>5, <1>6
<1>9. y \in LOPs
    BY <1>6, <1>7, <1>8 DEF LOPs
<1>10. /\ y.virtcols = L /\ y.cols = {}
       /\ y.lop = x.lop /\ y.quns = x.quns /\ y.children = x.children
       /\ y.preds = x.preds /\ y.partkeys = x.partkeys /\ y.npartitions = x.npartitions
       /\ y.cpartitions = x.cpartitions /\ y.join_keys = x.join_keys
    BY <1>6, <1>8 DEF LOPs
<1>11. lops' = [lops EXCEPT ![w] = y]
    BY <1>2, <1>3, <1>6
<1>12. lops' = [n \in 1 .. N |-> IF n = w THEN y ELSE lops[n]]
    BY <1>5, <1>11
<1>13. lops' \in Seq(LOPs)
    BY <1>5, <1>9, <1>12
<1> QED
    BY <1>1, <1>2, <1>3, <1>5, <1>6, <1>10, <1>12, <1>13

\* An aggregation refers to its input by position.
LEMMA AggregateKeys ==
    ASSUME query \in Queries, NEW step \in {"once", "pre", "post"}
    PROVE  /\ Keys \in Seq(ExprKeys) /\ Keys \o Aggregates(step) \in Seq(ExprKeys)
           /\ \A e \in ToSet(Keys) : ~IsExpression(e)
           /\ \A e \in ToSet(Keys \o Aggregates(step)) : ~IsExpression(e)
<1>1. PICK a, b : a = Keys /\ b = Aggregates(step)
    OBVIOUS
<1>2. PICK k \in Nat, m \in Nat : k = query.key_len /\ DOMAIN query.aggs = 1 .. m
    BY QueryFacts
<1>3. a = [i \in 1 .. k |-> <<"CID", i>>] /\ b = [i \in 1 .. m |-> <<step, i>>]
    BY <1>1, <1>2 DEF Keys, Aggregates
<1>5. a \in Seq(ExprKeys) /\ b \in Seq(ExprKeys)
    <2>1. \A i \in 1 .. k : <<"CID", i>> \in ExprKeys
        BY DEF ExprKeys
    <2>2. \A i \in 1 .. m : <<step, i>> \in ExprKeys
        BY DEF ExprKeys
    <2>3. a \in Seq(ExprKeys)
        BY <1>3, <2>1
    <2>4. b \in Seq(ExprKeys)
        BY <1>3, <2>2
    <2> QED
        BY <2>3, <2>4
<1>6. /\ \A e \in ToSet(a) : ~IsExpression(e)
      /\ \A e \in ToSet(b) : ~IsExpression(e)
    BY <1>3 DEF ToSet, IsExpression
<1>7. a \o b \in Seq(ExprKeys) /\ ToSet(a \o b) = ToSet(a) \union ToSet(b)
    BY <1>5, ToSetConcat, ConcatProperties
<1> QED
    BY <1>1, <1>5, <1>6, <1>7

LEMMA OnceEffect ==
    ASSUME TypeInv, Shape, AggregateOnce
    PROVE  /\ pc = "agg" /\ pc' = "repartition_keys" /\ Len(worklist) = 1
           /\ worklist' = <<Len(lops) + 1>>
           /\ lops[worklist[1]].npartitions = 1
           /\ UNCHANGED <<query, pred_map, stack, stages, pops>>
           /\ \E x \in LOPs :
                /\ lops' = Append(lops, x)
                /\ x.lop = "Aggregation" /\ x.children = worklist /\ x.cols = {} /\ x.preds = HavingPreds
                /\ x.partkeys = << >> /\ x.npartitions = 1 /\ x.join_keys = << >>
                /\ x.virtcols = Keys \o Aggregates("once")
                /\ \A e \in ToSet(x.virtcols) : ~IsExpression(e)
<1>1. PICK base, v, w, h, x :
          /\ base = Lop("Aggregation", {AggQun}) /\ v = Keys \o Aggregates("once") /\ w = worklist
          /\ h = HavingPreds
          /\ x = [base EXCEPT !.children = w, !.preds = h, !.virtcols = v, !.npartitions = 1]
    OBVIOUS
<1>2. lops' = Append(lops, x)
    BY <1>1 DEF AggregateOnce
<1>3. Len(worklist) = 1
    BY DEF AggregateOnce, Shape
<1>4. v \in Seq(ExprKeys) /\ (\A e \in ToSet(v) : ~IsExpression(e)) /\ w \in Seq(Nat) /\ h \in SUBSET Nat
    BY <1>1, AggregateKeys DEF TypeInv, HavingPreds, Having
<1>5. base \in LOPs
    BY <1>1, LopFacts DEF AggQun
<1>6. x \in LOPs
    BY <1>1, <1>4, <1>5 DEF LOPs
<1>7. base.lop = "Aggregation" /\ base.cols = {} /\ base.partkeys = << >> /\ base.join_keys = << >>
    BY <1>1 DEF Lop
<1>8. /\ x.lop = base.lop /\ x.children = w /\ x.cols = base.cols /\ x.preds = h /\ x.virtcols = v
      /\ x.partkeys = base.partkeys /\ x.npartitions = 1 /\ x.join_keys = base.join_keys
    BY <1>1, <1>5 DEF LOPs
<1>9. \E y \in LOPs :
          /\ lops' = Append(lops, y)
          /\ y.lop = "Aggregation" /\ y.children = worklist /\ y.cols = {} /\ y.preds = HavingPreds
          /\ y.partkeys = << >> /\ y.npartitions = 1 /\ y.join_keys = << >>
          /\ y.virtcols = Keys \o Aggregates("once")
          /\ \A e \in ToSet(y.virtcols) : ~IsExpression(e)
    BY <1>1, <1>2, <1>4, <1>6, <1>7, <1>8
<1> QED
    BY <1>3, <1>9 DEF AggregateOnce

\* Aggregation in two steps, with a repartitioning between them.
Twice(a, b, c) ==
    /\ a \in LOPs /\ b \in LOPs /\ c \in LOPs
    /\ a.lop = "Aggregation" /\ b.lop = "Repartition" /\ c.lop = "Aggregation"
    /\ a.children = worklist /\ b.children = <<Len(lops) + 1>> /\ c.children = <<Len(lops) + 2>>
    /\ a.cols = {} /\ b.cols = {} /\ c.cols = {}
    /\ b.preds = {} /\ c.preds = {}
    /\ \A e \in ToSet(a.virtcols) : ~IsExpression(e)
    /\ \A e \in ToSet(b.virtcols) : ~IsExpression(e)
    /\ \A e \in ToSet(c.virtcols) : ~IsExpression(e)
    /\ \A e \in ToSet(b.partkeys) : ~IsExpression(e)
    /\ a.virtcols = Keys \o Aggregates("pre") /\ b.virtcols = a.virtcols
    /\ c.virtcols = Keys \o Aggregates("post")
    /\ b.partkeys = Keys /\ b.cpartitions = query.degree
    /\ a.npartitions = lops[worklist[1]].npartitions /\ b.npartitions = a.npartitions
    /\ b.cpartitions = c.npartitions
    /\ a.join_keys = << >> /\ b.join_keys = << >> /\ c.join_keys = << >>
    /\ lops' \in Seq(LOPs) /\ DOMAIN lops' = 1 .. Len(lops) + 3
    /\ \A n \in DOMAIN lops : lops'[n] = lops[n]
    /\ lops'[Len(lops) + 1] = a /\ lops'[Len(lops) + 2] = b /\ lops'[Len(lops) + 3] = c

LEMMA TwiceEffect ==
    ASSUME TypeInv, Shape, AggregateTwice
    PROVE  /\ pc = "agg" /\ pc' = "repartition_keys" /\ Len(worklist) = 1
           /\ worklist' = <<Len(lops) + 3>>
           /\ UNCHANGED <<query, pred_map, stack, stages, pops>>
           /\ \E a, b, c : Twice(a, b, c)
<1>1. PICK child, n, w, d, keys, pre, post, base :
          /\ child = lops[worklist[1]] /\ n = Len(lops) /\ w = worklist /\ d = query.degree
          /\ keys = Keys /\ pre = Keys \o Aggregates("pre") /\ post = Keys \o Aggregates("post")
          /\ base = Lop("Aggregation", child.quns)
    OBVIOUS
<1>2. PICK a : a = [base EXCEPT !.children = w, !.preds = child.preds, !.virtcols = pre,
                                !.partkeys = child.partkeys, !.npartitions = child.npartitions]
    OBVIOUS
<1>3. PICK b : b = [a EXCEPT !.lop = "Repartition", !.children = <<n + 1>>, !.preds = {}, !.partkeys = keys,
                             !.cpartitions = d]
    OBVIOUS
<1>4. PICK c : c = [b EXCEPT !.lop = "Aggregation", !.children = <<n + 2>>, !.cpartitions = 0,
                             !.virtcols = post, !.npartitions = d]
    OBVIOUS
<1>5. lops' = lops \o <<a, b, c>> /\ worklist' = <<n + 3>>
    BY <1>1, <1>2, <1>3, <1>4, Zenon DEF AggregateTwice
<1>6. Len(worklist) = 1
    BY DEF AggregateTwice, Shape
<1>7. /\ child \in LOPs /\ n \in Nat /\ w \in Seq(Nat) /\ d \in Nat /\ lops \in Seq(LOPs)
      /\ DOMAIN lops = 1 .. n
    BY <1>1, <1>6, RootFacts, QueryFacts, LenProperties DEF TypeInv
<1>8. /\ keys \in Seq(ExprKeys) /\ pre \in Seq(ExprKeys) /\ post \in Seq(ExprKeys)
      /\ \A e \in ToSet(keys) : ~IsExpression(e)
      /\ \A e \in ToSet(pre) : ~IsExpression(e)
      /\ \A e \in ToSet(post) : ~IsExpression(e)
    BY <1>1, AggregateKeys DEF TypeInv
<1>9. base \in LOPs /\ base.lop = "Aggregation" /\ base.cols = {} /\ base.join_keys = << >>
    <2>1. base \in LOPs
        BY <1>1, <1>7, LopFacts DEF LOPs
    <2> QED
        BY <1>1, <2>1 DEF Lop
<1>10. /\ a \in LOPs /\ a.lop = "Aggregation" /\ a.children = w /\ a.cols = {} /\ a.virtcols = pre
       /\ a.npartitions = child.npartitions /\ a.join_keys = << >>
    BY <1>2, <1>7, <1>8, <1>9 DEF LOPs
<1>11. /\ b \in LOPs /\ b.lop = "Repartition" /\ b.children = <<n + 1>> /\ b.cols = {} /\ b.preds = {}
       /\ b.virtcols = pre /\ b.partkeys = keys /\ b.npartitions = child.npartitions /\ b.cpartitions = d
       /\ b.join_keys = << >>
    <2>1. PICK f : f = <<n + 1>> /\ f \in Seq(Nat)
        <3>1. PICK m : m = n + 1
            OBVIOUS
        <3>2. <<m>> \in Seq(Nat)
            BY <1>7, <3>1
        <3> QED
            BY <3>1, <3>2
    <2>2. b = [a EXCEPT !.lop = "Repartition", !.children = f, !.preds = {}, !.partkeys = keys, !.cpartitions = d]
        BY <1>3, <2>1
    <2>3. b \in LOPs
        BY <1>7, <1>8, <1>10, <2>1, <2>2 DEF LOPs
    <2>4. /\ b.lop = "Repartition" /\ b.children = f /\ b.cols = a.cols /\ b.preds = {}
          /\ b.virtcols = a.virtcols /\ b.partkeys = keys /\ b.npartitions = a.npartitions /\ b.cpartitions = d
          /\ b.join_keys = a.join_keys
        BY <1>10, <2>2 DEF LOPs
    <2> QED
        BY <1>10, <2>1, <2>3, <2>4
<1>12. /\ c \in LOPs /\ c.lop = "Aggregation" /\ c.children = <<n + 2>> /\ c.cols = {} /\ c.preds = {}
       /\ c.virtcols = post /\ c.npartitions = d /\ c.join_keys = << >>
    <2>1. PICK f : f = <<n + 2>> /\ f \in Seq(Nat)
        <3>1. PICK m : m = n + 2
            OBVIOUS
        <3>2. <<m>> \in Seq(Nat)
            BY <1>7, <3>1
        <3> QED
            BY <3>1, <3>2
    <2>2. c = [b EXCEPT !.lop = "Aggregation", !.children = f, !.cpartitions = 0, !.virtcols = post, !.npartitions = d]
        BY <1>4, <2>1
    <2>3. c \in LOPs
        BY <1>7, <1>8, <1>11, <2>1, <2>2 DEF LOPs
    <2>4. /\ c.lop = "Aggregation" /\ c.children = f /\ c.cols = b.cols /\ c.preds = b.preds
          /\ c.virtcols = post /\ c.npartitions = d /\ c.join_keys = b.join_keys
        BY <1>11, <2>2 DEF LOPs
    <2> QED
        BY <1>11, <2>1, <2>3, <2>4
<1>13. /\ lops' \in Seq(LOPs) /\ DOMAIN lops' = 1 .. n + 3
       /\ \A m \in 1 .. n : lops'[m] = lops[m]
       /\ lops'[n + 1] = a /\ lops'[n + 2] = b /\ lops'[n + 3] = c
    <2>1. PICK t : t = <<a, b, c>>
        OBVIOUS
    <2>2. t \in Seq(LOPs) /\ Len(t) = 3 /\ t[1] = a /\ t[2] = b /\ t[3] = c
        BY <1>10, <1>11, <1>12, <2>1
    <2>3. /\ lops' \in Seq(LOPs) /\ Len(lops') = n + 3
          /\ \A i \in 1 .. n + 3 : lops'[i] = IF i <= n THEN lops[i] ELSE t[i - n]
        BY <1>1, <1>5, <1>7, <2>1, <2>2, ConcatProperties
    <2>4. DOMAIN lops' = 1 .. n + 3
        BY <2>3, LenProperties
    <2>5. /\ \A i \in 1 .. n : i \in 1 .. n + 3 /\ i <= n
          /\ \A i \in 1 .. 3 : n + i \in 1 .. n + 3 /\ ~(n + i <= n) /\ n + i - n = i
        BY <1>7
    <2>6. lops'[n + 1] = t[1] /\ lops'[n + 2] = t[2] /\ lops'[n + 3] = t[3]
        BY <1>7, <2>3, <2>5
    <2> QED
        BY <2>2, <2>3, <2>4, <2>5, <2>6
<1>14. Twice(a, b, c)
    BY <1>1, <1>7, <1>8, <1>10, <1>11, <1>12, <1>13 DEF Twice
<1> QED
    BY <1>1, <1>5, <1>6, <1>14 DEF AggregateTwice

-----------------------------------------------------------------------------
(* The form of the plan: FormInv is an invariant. *)

LEMMA ListAppend ==
    ASSUME NEW X, NEW s \in Seq(X), NEW x \in X
    PROVE  /\ Append(s, x) \in Seq(X) /\ Len(Append(s, x)) = Len(s) + 1
           /\ ToSet(Append(s, x)) = ToSet(s) \union {x}
           /\ IsInjective(s) /\ x \notin ToSet(s) => IsInjective(Append(s, x))
<1>1. PICK t : t = Append(s, x)
    OBVIOUS
<1>2. /\ t \in Seq(X) /\ Len(t) = Len(s) + 1 /\ t[Len(s) + 1] = x
      /\ \A i \in 1 .. Len(s) : t[i] = s[i]
      /\ DOMAIN s = 1 .. Len(s) /\ Len(s) \in Nat /\ DOMAIN t = 1 .. Len(s) + 1
    BY <1>1, AppendProperties, LenProperties
<1>3. ToSet(t) = ToSet(s) \union {x}
    BY <1>2 DEF ToSet
<1>4. IsInjective(s) /\ x \notin ToSet(s) => IsInjective(t)
    BY <1>2 DEF ToSet, IsInjective
<1> QED
    BY <1>1, <1>2, <1>3, <1>4

LEMMA ListOne ==
    ASSUME NEW X, NEW x \in X
    PROVE  /\ <<x>> \in Seq(X) /\ Len(<<x>>) = 1 /\ <<x>>[1] = x /\ DOMAIN <<x>> = {1}
           /\ ToSet(<<x>>) = {x} /\ IsInjective(<<x>>)
BY DEF ToSet, IsInjective

\* A child is an earlier LOP.
LEMMA ChildFacts ==
    ASSUME TypeInv, Forest, NEW n \in DOMAIN lops, NEW k \in DOMAIN lops[n].children
    PROVE  /\ lops[n].children[k] \in DOMAIN lops /\ lops[n].children[k] < n
           /\ lops[n].children[k] \in Nat /\ lops[n].children[k] \in ToSet(lops[n].children)
           /\ lops[n].children[k] \notin ToSet(worklist)
<1>1. DOMAIN lops = 1 .. Len(lops) /\ Len(lops) \in Nat
    BY LenProperties DEF TypeInv
<1>2. lops[n].children[k] \in 1 .. n - 1 /\ lops[n].children[k] \notin ToSet(worklist)
    BY DEF Forest
<1>3. lops[n].children[k] \in ToSet(lops[n].children)
    BY DEF ToSet
<1> QED
    BY <1>1, <1>2, <1>3

LEMMA FormInit == Init => FormInv
<1> SUFFICES ASSUME Init PROVE FormInv
    OBVIOUS
<1>1. lops = << >> /\ worklist = << >> /\ pc = "scan" /\ query \in Queries /\ pred_map = DOMAIN query.preds
    BY DEF Init
<1>2. DOMAIN lops = {} /\ ToSet(worklist) = {} /\ DOMAIN worklist = {}
    BY <1>1 DEF ToSet
<1>3. lops \in Seq(LOPs) /\ worklist \in Seq(Nat)
    BY <1>1, EmptySeq
<1> QED
    BY <1>1, <1>2, <1>3 DEF FormInv, TypeInv, Forest, Shape, IsInjective

\* A LOP without children, or with the root for its only child, is put on top.
LEMMA ScanForm ==
    ASSUME FormInv, BuildScan
    PROVE  FormInv'
<1> USE DEF FormInv
<1>1. PICK x \in LOPs :
                /\ lops' = Append(lops, x)
                /\ x.lop = "TableScan" /\ x.children = << >> /\ x.join_keys = << >>
    BY ScanEffect
<1>2. PICK N : N = Len(lops)
    OBVIOUS
<1>3. /\ N \in Nat /\ DOMAIN lops = 1 .. N /\ DOMAIN lops' = 1 .. N + 1 /\ lops' \in Seq(LOPs)
      /\ \A n \in DOMAIN lops : n \in DOMAIN lops' /\ lops'[n] = lops[n]
      /\ \A n \in DOMAIN lops' : n \in DOMAIN lops \/ n = N + 1
      /\ N + 1 \notin DOMAIN lops /\ N + 1 \in DOMAIN lops'
      /\ lops'[N + 1] = x
    BY <1>1, <1>2, Appended
<1>4. /\ pc = "scan" /\ pred_map' \subseteq pred_map /\ worklist' = Append(worklist, N + 1)
      /\ pc' \in {"scan", "join"} /\ query' = query
    BY <1>2, ScanEffect
<1>5. /\ worklist' \in Seq(Nat) /\ ToSet(worklist') = ToSet(worklist) \union {N + 1}
      /\ IsInjective(worklist')
    <2>1. N + 1 \in Nat /\ N + 1 \notin ToSet(worklist)
        BY <1>3 DEF TypeInv
    <2> QED
        BY <1>4, <2>1, ListAppend DEF TypeInv, Forest
<1>6. TypeInv'
    BY <1>3, <1>4, <1>5 DEF TypeInv
<1>7. DOMAIN x.children = {} /\ Len(x.children) = 0 /\ Len(x.join_keys) = 0
    BY <1>1
<1>8. \A n \in DOMAIN lops' : \A k \in DOMAIN lops'[n].children : n \in DOMAIN lops /\ lops'[n] = lops[n]
    BY <1>3, <1>7
<1>9. Forest'
    <2>1. \A n \in DOMAIN lops' : \A k \in DOMAIN lops'[n].children : lops'[n].children[k] \in 1 .. n - 1
        BY <1>8 DEF Forest
    <2>2. \A n, m \in DOMAIN lops' : \A j \in DOMAIN lops'[n].children, k \in DOMAIN lops'[m].children :
              lops'[n].children[j] = lops'[m].children[k] => n = m /\ j = k
        BY <1>8 DEF Forest
    <2>3. \A n \in DOMAIN lops' : \A k \in DOMAIN lops'[n].children : lops'[n].children[k] \notin ToSet(worklist')
        <3>1. SUFFICES ASSUME NEW n \in DOMAIN lops', NEW k \in DOMAIN lops'[n].children
                       PROVE  lops'[n].children[k] \notin ToSet(worklist')
            OBVIOUS
        <3>2. n \in DOMAIN lops /\ lops'[n] = lops[n]
            BY <1>8
        <3>3. lops[n].children[k] \in DOMAIN lops /\ lops[n].children[k] \notin ToSet(worklist)
            BY <3>1, <3>2, ChildFacts
        <3> QED
            BY <1>3, <1>5, <3>2, <3>3
    <2> QED
        BY <1>5, <2>1, <2>2, <2>3 DEF Forest
<1>10. Shape'
    <2>1. \A n \in DOMAIN lops' : /\ Len(lops'[n].children) = Arity(lops'[n].lop)
                                  /\ Len(lops'[n].join_keys) = IF lops'[n].lop = "HashJoin" THEN 2 ELSE 0
        BY <1>1, <1>3, <1>7 DEF Shape, Arity
    <2>2. \A n \in DOMAIN lops' : lops'[n].lop # "Aggregation"
        BY <1>1, <1>3, <1>4 DEF Shape
    <2>3. \A n \in ToSet(worklist') : lops'[n].lop # "Repartition"
        BY <1>1, <1>3, <1>5 DEF Shape, TypeInv
    <2> QED
        BY <1>4, <2>1, <2>2, <2>3 DEF Shape
<1> QED
    BY <1>6, <1>9, <1>10

LEMMA JoinForm ==
    ASSUME FormInv, Join
    PROVE  FormInv'
<1> USE DEF FormInv
<1>1. PICK l, r, newl, newr, legs, equi, keys, join : Joins(l, r, newl, newr, legs, equi, keys, join)
    BY JoinEffect
<1>2. PICK N, O : N = Len(legs) /\ O = DOMAIN lops
    OBVIOUS
<1>3. /\ N \in Nat /\ O \subseteq 1 .. N
      /\ lops' \in Seq(LOPs) /\ DOMAIN lops' = 1 .. N + 1
      /\ newl \in 1 .. N /\ newr \in 1 .. N /\ newl # newr
      /\ l \in O /\ r \in O /\ l # r
      /\ \A n \in O : lops'[n] = lops[n]
      /\ lops'[N + 1] = join
      /\ newl = l \/ (newl \notin O /\ lops'[newl] = Repartition(l, keys[1]))
      /\ newr = r \/ (newr \notin O /\ lops'[newr] = Repartition(r, keys[2]))
      /\ \A n \in DOMAIN lops' : n \in O \/ n = newl \/ n = newr \/ n = N + 1
    <2>1. DOMAIN lops = 1 .. Len(lops) /\ Len(lops) \in Nat /\ N \in Nat /\ Len(lops) <= N
        BY <1>1, <1>2, JoinCases
    <2>2. O \subseteq 1 .. N
        BY <1>2, <2>1
    <2> QED
        BY <1>1, <1>2, <2>1, <2>2, JoinCases
<1>4. /\ worklist' \in Seq(Nat) /\ ToSet(worklist') = (ToSet(worklist) \ {l, r}) \union {N + 1}
      /\ IsInjective(worklist')
    BY <1>1, <1>2, JoinWork
<1>5. pc' = pc /\ pc = "join" /\ query' = query /\ pred_map' \subseteq pred_map
      /\ l \in ToSet(worklist) /\ r \in ToSet(worklist)
    BY <1>1 DEF Joins
<1>6. /\ newl \notin O => /\ lops'[newl].lop = "Repartition" /\ lops'[newl].children = <<l>>
                          /\ lops'[newl].join_keys = << >>
      /\ newr \notin O => /\ lops'[newr].lop = "Repartition" /\ lops'[newr].children = <<r>>
                          /\ lops'[newr].join_keys = << >>
    BY <1>3, RepartitionFields
<1>7. join.lop = "HashJoin" /\ join.children = <<newl, newr>> /\ Len(join.join_keys) = 2
    <2>1. query \in Queries /\ equi \in SUBSET DOMAIN query.preds /\ keys = JoinKeys(equi, l, r)
        BY <1>1, EquiFacts DEF TypeInv, Joins
    <2>2. Len(keys) = 2
        BY <2>1, JoinKeysFacts DEF AreJoinKeys
    <2>3. join.lop = "HashJoin" /\ join.children = <<newl, newr>> /\ join.join_keys = keys
        BY <1>1, JoinFields
    <2> QED
        BY <2>2, <2>3
<1>8. TypeInv'
    <2>1. ToSet(worklist') \subseteq DOMAIN lops'
        BY <1>2, <1>3, <1>4 DEF TypeInv
    <2> QED
        BY <1>3, <1>4, <1>5, <2>1 DEF TypeInv
\* The edges of the plan.
<1>9. ASSUME NEW n \in DOMAIN lops', NEW k \in DOMAIN lops'[n].children
      PROVE  \/ /\ n \in O /\ lops'[n] = lops[n] /\ k \in DOMAIN lops[n].children
                /\ lops'[n].children[k] \in O /\ lops'[n].children[k] \notin ToSet(worklist)
                /\ lops'[n].children[k] \in 1 .. n - 1
             \/ n = newl /\ newl \notin O /\ k = 1 /\ lops'[n].children[k] = l
             \/ n = newr /\ newr \notin O /\ k = 1 /\ lops'[n].children[k] = r
             \/ n = N + 1 /\ k = 1 /\ lops'[n].children[k] = newl
             \/ n = N + 1 /\ k = 2 /\ lops'[n].children[k] = newr
    <2>1. CASE n \in O
        <3>1. lops'[n] = lops[n] /\ k \in DOMAIN lops[n].children
            BY <1>3, <1>9, <2>1
        <3> QED
            BY <1>2, <2>1, <3>1, ChildFacts DEF Forest
    <2>2. CASE n = newl /\ newl \notin O
        BY <1>6, <1>9, <2>2
    <2>3. CASE n = newr /\ newr \notin O
        BY <1>6, <1>9, <2>3
    <2>4. CASE n = N + 1
        <3>1. lops'[n].children = <<newl, newr>>
            BY <1>3, <1>7, <2>4
        <3>2. k = 1 \/ k = 2
            BY <1>9, <3>1
        <3> QED
            BY <2>4, <3>1, <3>2
    <2> QED
        BY <1>3, <2>1, <2>2, <2>3, <2>4
<1>10. Forest'
    <2>1. \A n \in O : n < newl \/ newl \in O
        <3>1. \A n \in O : n \in DOMAIN lops
            BY <1>2
        <3>2. DOMAIN lops = 1 .. Len(lops) /\ Len(lops) \in Nat
            BY LenProperties DEF TypeInv
        <3> QED
            BY <1>2, <1>3, <3>1, <3>2
    <2>2. \A n \in O : n < newr \/ newr \in O
        <3>1. DOMAIN lops = 1 .. Len(lops) /\ Len(lops) \in Nat
            BY LenProperties DEF TypeInv
        <3> QED
            BY <1>2, <1>3, <3>1
    <2>3. ASSUME NEW n \in DOMAIN lops', NEW k \in DOMAIN lops'[n].children
          PROVE  lops'[n].children[k] \in 1 .. n - 1 /\ lops'[n].children[k] \notin ToSet(worklist')
        <3>1. PICK c : c = lops'[n].children[k]
            OBVIOUS
        <3>2. \/ c \in O /\ c \notin ToSet(worklist) /\ c \in 1 .. n - 1
              \/ n = newl /\ newl \notin O /\ c = l
              \/ n = newr /\ newr \notin O /\ c = r
              \/ n = N + 1 /\ c = newl
              \/ n = N + 1 /\ c = newr
            BY <1>9, <2>3, <3>1
        <3>3. c \in 1 .. n - 1
            BY <1>3, <2>1, <2>2, <3>2
        <3>4. c \notin ToSet(worklist')
            BY <1>2, <1>3, <1>4, <3>2 DEF TypeInv
        <3> QED
            BY <3>1, <3>3, <3>4
    <2>4. ASSUME NEW n \in DOMAIN lops', NEW m \in DOMAIN lops',
                 NEW j \in DOMAIN lops'[n].children, NEW k \in DOMAIN lops'[m].children,
                 lops'[n].children[j] = lops'[m].children[k]
          PROVE  n = m /\ j = k
        <3>1. PICK c : c = lops'[n].children[j] /\ c = lops'[m].children[k]
            BY <2>4
        <3>2. \/ n \in O /\ lops'[n] = lops[n] /\ j \in DOMAIN lops[n].children /\ c \in O /\ c \notin ToSet(worklist)
              \/ n = newl /\ newl \notin O /\ j = 1 /\ c = l
              \/ n = newr /\ newr \notin O /\ j = 1 /\ c = r
              \/ n = N + 1 /\ j = 1 /\ c = newl
              \/ n = N + 1 /\ j = 2 /\ c = newr
            BY <1>9, <2>4, <3>1
        <3>3. \/ m \in O /\ lops'[m] = lops[m] /\ k \in DOMAIN lops[m].children /\ c \in O /\ c \notin ToSet(worklist)
              \/ m = newl /\ newl \notin O /\ k = 1 /\ c = l
              \/ m = newr /\ newr \notin O /\ k = 1 /\ c = r
              \/ m = N + 1 /\ k = 1 /\ c = newl
              \/ m = N + 1 /\ k = 2 /\ c = newr
            BY <1>9, <2>4, <3>1
        <3>4. ASSUME n \in O, m \in O, lops'[n] = lops[n], lops'[m] = lops[m],
                     j \in DOMAIN lops[n].children, k \in DOMAIN lops[m].children
              PROVE  n = m /\ j = k
            <4>1. lops[n].children[j] = lops[m].children[k]
                BY <3>1, <3>4
            <4> QED
                BY <1>2, <3>4, <4>1 DEF Forest
        <3>5. N + 1 \notin O /\ newl \in 1 .. N /\ newr \in 1 .. N /\ N + 1 # newl /\ N + 1 # newr
            BY <1>3
        <3>6. /\ l \in ToSet(worklist) /\ r \in ToSet(worklist) /\ l # r /\ l \in O /\ r \in O /\ newl # newr
              /\ newl = l \/ newl \notin O
              /\ newr = r \/ newr \notin O
            BY <1>3, <1>5
        <3>7. CASE n \in O /\ c \in O /\ c \notin ToSet(worklist)
            BY <3>2, <3>3, <3>4, <3>5, <3>6, <3>7
        <3>8. CASE n = newl /\ newl \notin O /\ j = 1 /\ c = l
            BY <3>3, <3>5, <3>6, <3>8
        <3>9. CASE n = newr /\ newr \notin O /\ j = 1 /\ c = r
            BY <3>3, <3>5, <3>6, <3>9
        <3>10. CASE n = N + 1 /\ j = 1 /\ c = newl
            BY <3>3, <3>5, <3>6, <3>10
        <3>11. CASE n = N + 1 /\ j = 2 /\ c = newr
            BY <3>3, <3>5, <3>6, <3>11
        <3> QED
            BY <3>2, <3>7, <3>8, <3>9, <3>10, <3>11
    <2> QED
        BY <1>4, <2>3, <2>4 DEF Forest
<1>11. Shape'
    <2>1. ASSUME NEW n \in DOMAIN lops'
          PROVE  /\ Len(lops'[n].children) = Arity(lops'[n].lop)
                 /\ Len(lops'[n].join_keys) = IF lops'[n].lop = "HashJoin" THEN 2 ELSE 0
                 /\ lops'[n].lop # "Aggregation"
        <3>1. CASE n \in O
            <4>1. n \in DOMAIN lops /\ lops'[n] = lops[n]
                BY <1>2, <1>3, <3>1
            <4> QED
                BY <1>5, <4>1 DEF Shape
        <3>2. CASE n \notin O /\ (n = newl \/ n = newr)
            <4>1. lops'[n].lop = "Repartition" /\ Len(lops'[n].children) = 1 /\ Len(lops'[n].join_keys) = 0
                <5>1. PICK y : y = lops'[n]
                    OBVIOUS
                <5>2. PICK c : y.lop = "Repartition" /\ y.join_keys = << >> /\ y.children = <<c>>
                    BY <1>6, <3>2, <5>1
                <5>3. Len(y.children) = 1 /\ Len(y.join_keys) = 0
                    BY <5>2
                <5> QED
                    BY <5>1, <5>2, <5>3
            <4> QED
                BY <4>1 DEF Arity
        <3>3. CASE n = N + 1
            <4>1. lops'[n].lop = "HashJoin" /\ Len(lops'[n].children) = 2 /\ Len(lops'[n].join_keys) = 2
                BY <1>3, <1>7, <3>3
            <4> QED
                BY <4>1 DEF Arity
        <3> QED
            BY <1>3, <3>1, <3>2, <3>3
    <2>2. \A n \in ToSet(worklist') : lops'[n].lop # "Repartition"
        BY <1>2, <1>3, <1>4, <1>7 DEF Shape, TypeInv
    <2> QED
        BY <1>5, <2>1, <2>2 DEF Shape
<1> QED
    BY <1>8, <1>10, <1>11

\* The rewrites and the end of the joins leave the tree as it is.
LEMMA SameTree ==
    ASSUME FormInv, UNCHANGED <<query, worklist, pred_map>>,
           lops' \in Seq(LOPs), DOMAIN lops' = DOMAIN lops,
           \A n \in DOMAIN lops : /\ lops'[n].lop = lops[n].lop /\ lops'[n].children = lops[n].children
                                  /\ lops'[n].join_keys = lops[n].join_keys
    PROVE  /\ TypeInv' /\ Forest'
           /\ \A n \in DOMAIN lops' : /\ Len(lops'[n].children) = Arity(lops'[n].lop)
                                      /\ Len(lops'[n].join_keys) = IF lops'[n].lop = "HashJoin" THEN 2 ELSE 0
           /\ \A n \in ToSet(worklist') : lops'[n].lop # "Repartition"
<1> USE DEF FormInv
<1>1. query' = query /\ worklist' = worklist /\ pred_map' = pred_map
    OBVIOUS
<1>2. TypeInv'
    BY <1>1 DEF TypeInv
<1>3. Forest'
    BY <1>1 DEF Forest
<1>4. \A n \in DOMAIN lops' : /\ Len(lops'[n].children) = Arity(lops'[n].lop)
                              /\ Len(lops'[n].join_keys) = IF lops'[n].lop = "HashJoin" THEN 2 ELSE 0
    BY DEF Shape
<1>5. \A n \in ToSet(worklist') : lops'[n].lop # "Repartition"
    BY <1>1 DEF Shape, TypeInv
<1> QED
    BY <1>2, <1>3, <1>4, <1>5

LEMMA DoneForm ==
    ASSUME FormInv, JoinsDone
    PROVE  FormInv'
<1> USE DEF FormInv
<1>1. /\ pc' = "agg" /\ Len(worklist) = 1 /\ worklist' = worklist
      /\ UNCHANGED <<query, worklist, pred_map>>
      /\ lops' \in Seq(LOPs) /\ DOMAIN lops' = DOMAIN lops
      /\ \A n \in DOMAIN lops : n # worklist[1] => lops'[n] = lops[n]
      /\ lops'[worklist[1]].lop = lops[worklist[1]].lop
      /\ lops'[worklist[1]].children = lops[worklist[1]].children
      /\ lops'[worklist[1]].join_keys = lops[worklist[1]].join_keys
    BY DoneEffect
<1>2. \A n \in DOMAIN lops : /\ lops'[n].lop = lops[n].lop /\ lops'[n].children = lops[n].children
                             /\ lops'[n].join_keys = lops[n].join_keys
    BY <1>1
<1> QED
    BY <1>1, <1>2, SameTree DEF Shape

LEMMA RewriteForm ==
    ASSUME FormInv, AddRepartitioningKeys \/ PushdownJoinKeys
    PROVE  FormInv'
<1> USE DEF FormInv
<1>1. PICK v : Rewritten(v)
    BY AddedKeys, PushedKeys
<1>2. /\ lops' \in Seq(LOPs) /\ DOMAIN lops' = DOMAIN lops
      /\ \A n \in DOMAIN lops : /\ lops'[n].lop = lops[n].lop /\ lops'[n].children = lops[n].children
                                /\ lops'[n].join_keys = lops[n].join_keys
    BY <1>1, RewrittenFacts
<1>3. UNCHANGED <<query, worklist, pred_map>> /\ pc \in {"repartition_keys", "join_keys"} /\ pc' \in {"join_keys", "compile"}
    BY DEF AddRepartitioningKeys, PushdownJoinKeys
<1>4. Len(worklist') = 1
    BY <1>3 DEF Shape
<1> QED
    BY <1>2, <1>3, <1>4, SameTree DEF Shape

LEMMA OnceForm ==
    ASSUME FormInv, AggregateOnce
    PROVE  FormInv'
<1> USE DEF FormInv
<1>1. PICK x \in LOPs :
          lops' = Append(lops, x) /\ x.lop = "Aggregation" /\ x.children = worklist /\ x.join_keys = << >>
    BY OnceEffect
<1>2. PICK N, w : N = Len(lops) /\ w = worklist[1]
    OBVIOUS
<1>3. /\ N \in Nat /\ DOMAIN lops = 1 .. N /\ DOMAIN lops' = 1 .. N + 1 /\ lops' \in Seq(LOPs)
      /\ \A n \in DOMAIN lops : n \in DOMAIN lops' /\ lops'[n] = lops[n]
      /\ \A n \in DOMAIN lops' : n \in DOMAIN lops \/ n = N + 1
      /\ N + 1 \notin DOMAIN lops /\ N + 1 \in DOMAIN lops'
      /\ lops'[N + 1] = x
    BY <1>1, <1>2, Appended
<1>4. /\ pc' = "repartition_keys" /\ query' = query /\ pred_map' = pred_map /\ worklist' = <<N + 1>>
      /\ Len(worklist) = 1
    BY <1>2, OnceEffect
<1>5. w \in DOMAIN lops /\ DOMAIN worklist = {1} /\ ToSet(worklist) = {w} /\ w \in ToSet(worklist)
    BY <1>2, <1>4, RootFacts
<1>6. worklist' \in Seq(Nat) /\ ToSet(worklist') = {N + 1} /\ IsInjective(worklist') /\ Len(worklist') = 1
    <2>1. N + 1 \in Nat
        BY <1>3
    <2> QED
        BY <1>4, <2>1, ListOne
<1>7. TypeInv'
    BY <1>3, <1>4, <1>6 DEF TypeInv
<1>8. ASSUME NEW n \in DOMAIN lops', NEW k \in DOMAIN lops'[n].children
      PROVE  \/ /\ n \in DOMAIN lops /\ lops'[n] = lops[n] /\ k \in DOMAIN lops[n].children
                /\ lops'[n].children[k] \in DOMAIN lops /\ lops'[n].children[k] # w
                /\ lops'[n].children[k] \in 1 .. n - 1
             \/ n = N + 1 /\ k = 1 /\ lops'[n].children[k] = w
    <2>1. CASE n \in DOMAIN lops
        <3>1. lops'[n] = lops[n] /\ k \in DOMAIN lops[n].children
            BY <1>3, <1>8, <2>1
        <3> QED
            BY <1>5, <2>1, <3>1, ChildFacts DEF Forest
    <2>2. CASE n = N + 1
        <3>1. lops'[n].children = worklist
            BY <1>1, <1>3, <2>2
        <3> QED
            BY <1>2, <1>5, <1>8, <2>2, <3>1
    <2> QED
        BY <1>3, <2>1, <2>2
<1>9. Forest'
    <2>1. ASSUME NEW n \in DOMAIN lops', NEW k \in DOMAIN lops'[n].children
          PROVE  lops'[n].children[k] \in 1 .. n - 1 /\ lops'[n].children[k] \notin ToSet(worklist')
        <3>1. lops'[n].children[k] \in DOMAIN lops /\ lops'[n].children[k] \in 1 .. n - 1
            BY <1>3, <1>5, <1>8
        <3> QED
            BY <1>3, <1>6, <3>1
    <2>2. ASSUME NEW n \in DOMAIN lops', NEW m \in DOMAIN lops',
                 NEW j \in DOMAIN lops'[n].children, NEW k \in DOMAIN lops'[m].children,
                 lops'[n].children[j] = lops'[m].children[k]
          PROVE  n = m /\ j = k
        <3>1. CASE n \in DOMAIN lops /\ m \in DOMAIN lops
            <4>1. lops'[n] = lops[n] /\ lops'[m] = lops[m]
                BY <1>3, <3>1
            <4> QED
                BY <2>2, <3>1, <4>1 DEF Forest
        <3>2. CASE n \notin DOMAIN lops \/ m \notin DOMAIN lops
            BY <1>8, <2>2, <3>2
        <3> QED
            BY <3>1, <3>2
    <2> QED
        BY <1>6, <2>1, <2>2 DEF Forest
<1>10. Shape'
    <2>1. \A n \in DOMAIN lops' : /\ Len(lops'[n].children) = Arity(lops'[n].lop)
                                  /\ Len(lops'[n].join_keys) = IF lops'[n].lop = "HashJoin" THEN 2 ELSE 0
        <3>1. Len(x.children) = 1 /\ Len(x.join_keys) = 0
            BY <1>1, <1>4
        <3>2. ASSUME NEW n \in DOMAIN lops
              PROVE  /\ Len(lops'[n].children) = Arity(lops'[n].lop)
                     /\ Len(lops'[n].join_keys) = IF lops'[n].lop = "HashJoin" THEN 2 ELSE 0
            <4>1. lops'[n] = lops[n]
                BY <1>3
            <4> QED
                BY <4>1 DEF Shape
        <3>3. Arity(x.lop) = 1 /\ x.lop # "HashJoin"
            BY <1>1 DEF Arity
        <3> QED
            BY <1>3, <3>1, <3>2, <3>3
    <2>2. \A n \in ToSet(worklist') : lops'[n].lop # "Repartition"
        BY <1>1, <1>3, <1>6
    <2> QED
        BY <1>4, <1>6, <2>1, <2>2 DEF Shape
<1> QED
    BY <1>7, <1>9, <1>10

LEMMA TwiceForm ==
    ASSUME FormInv, AggregateTwice
    PROVE  FormInv'
<1> USE DEF FormInv
<1>1. PICK a, b, c : Twice(a, b, c)
    BY TwiceEffect
<1>2. PICK N, w : N = Len(lops) /\ w = worklist[1]
    OBVIOUS
<1>3. /\ N \in Nat /\ DOMAIN lops = 1 .. N /\ DOMAIN lops' = 1 .. N + 3 /\ lops' \in Seq(LOPs)
      /\ \A n \in 1 .. N : lops'[n] = lops[n]
      /\ lops'[N + 1] = a /\ lops'[N + 2] = b /\ lops'[N + 3] = c
    <2>1. N \in Nat /\ DOMAIN lops = 1 .. N
        BY <1>2, LenProperties DEF TypeInv
    <2> QED
        BY <1>1, <1>2, <2>1 DEF Twice
<1>4. /\ pc' = "repartition_keys" /\ query' = query /\ pred_map' = pred_map /\ worklist' = <<N + 3>>
      /\ Len(worklist) = 1
    BY <1>2, TwiceEffect
<1>5. w \in DOMAIN lops /\ DOMAIN worklist = {1} /\ ToSet(worklist) = {w} /\ w \in ToSet(worklist)
    BY <1>2, <1>4, RootFacts
<1>6. worklist' \in Seq(Nat) /\ ToSet(worklist') = {N + 3} /\ IsInjective(worklist') /\ Len(worklist') = 1
    <2>1. N + 3 \in Nat
        BY <1>3
    <2> QED
        BY <1>4, <2>1, ListOne
<1>7. TypeInv'
    <2>1. N + 3 \in 1 .. N + 3
        BY <1>3
    <2> QED
        BY <1>3, <1>4, <1>6, <2>1 DEF TypeInv
<1>8. /\ a.lop = "Aggregation" /\ a.children = worklist /\ Len(a.join_keys) = 0
      /\ b.lop = "Repartition" /\ b.children[1] = N + 1 /\ DOMAIN b.children = {1} /\ Len(b.children) = 1 /\ Len(b.join_keys) = 0
      /\ c.lop = "Aggregation" /\ c.children[1] = N + 2 /\ DOMAIN c.children = {1} /\ Len(c.children) = 1 /\ Len(c.join_keys) = 0
    <2>1. /\ a.lop = "Aggregation" /\ a.children = worklist /\ a.join_keys = << >>
          /\ b.lop = "Repartition" /\ b.children = <<N + 1>> /\ b.join_keys = << >>
          /\ c.lop = "Aggregation" /\ c.children = <<N + 2>> /\ c.join_keys = << >>
        BY <1>1, <1>2 DEF Twice
    <2>2. N + 1 \in Nat /\ N + 2 \in Nat
        BY <1>3
    <2> QED
        BY <2>1, <2>2, ListOne
<1>9. \A n \in DOMAIN lops' : n \in 1 .. N \/ n = N + 1 \/ n = N + 2 \/ n = N + 3
    BY <1>3
<1>10. ASSUME NEW n \in DOMAIN lops', NEW k \in DOMAIN lops'[n].children
      PROVE  \/ /\ n \in 1 .. N /\ lops'[n] = lops[n] /\ k \in DOMAIN lops[n].children
                /\ lops'[n].children[k] \in 1 .. N /\ lops'[n].children[k] # w
                /\ lops'[n].children[k] \in 1 .. n - 1
             \/ n = N + 1 /\ k = 1 /\ lops'[n].children[k] = w
             \/ n = N + 2 /\ k = 1 /\ lops'[n].children[k] = N + 1
             \/ n = N + 3 /\ k = 1 /\ lops'[n].children[k] = N + 2
    <2>1. CASE n \in 1 .. N
        <3>1. n \in DOMAIN lops /\ lops'[n] = lops[n] /\ k \in DOMAIN lops[n].children
            BY <1>3, <1>10, <2>1
        <3>2. /\ lops[n].children[k] \in DOMAIN lops /\ lops[n].children[k] \notin ToSet(worklist)
              /\ lops[n].children[k] \in 1 .. n - 1
            BY <3>1, ChildFacts DEF Forest
        <3> QED
            BY <1>3, <1>5, <2>1, <3>1, <3>2
    <2>2. CASE n = N + 1
        <3>1. lops'[n].children = worklist
            BY <1>3, <1>8, <2>2
        <3> QED
            BY <1>2, <1>5, <1>10, <2>2, <3>1
    <2>3. CASE n = N + 2
        <3>1. lops'[n] = b
            BY <1>3, <2>3
        <3> QED
            BY <1>8, <1>10, <2>3, <3>1
    <2>4. CASE n = N + 3
        <3>1. lops'[n] = c
            BY <1>3, <2>4
        <3> QED
            BY <1>8, <1>10, <2>4, <3>1
    <2> QED
        BY <1>9, <2>1, <2>2, <2>3, <2>4
<1>11. Forest'
    <2>1. ASSUME NEW n \in DOMAIN lops', NEW k \in DOMAIN lops'[n].children
          PROVE  lops'[n].children[k] \in 1 .. n - 1 /\ lops'[n].children[k] \notin ToSet(worklist')
        <3>1. lops'[n].children[k] \in 1 .. n - 1 /\ lops'[n].children[k] \in 1 .. N + 2
            BY <1>3, <1>5, <1>10
        <3> QED
            BY <1>3, <1>6, <3>1
    <2>2. ASSUME NEW n \in DOMAIN lops', NEW m \in DOMAIN lops',
                 NEW j \in DOMAIN lops'[n].children, NEW k \in DOMAIN lops'[m].children,
                 lops'[n].children[j] = lops'[m].children[k]
          PROVE  n = m /\ j = k
        <3>1. CASE n \in 1 .. N /\ m \in 1 .. N
            <4>1. lops'[n] = lops[n] /\ lops'[m] = lops[m] /\ n \in DOMAIN lops /\ m \in DOMAIN lops
                BY <1>3, <3>1
            <4> QED
                BY <2>2, <4>1 DEF Forest
        <3>2. CASE n \notin 1 .. N \/ m \notin 1 .. N
            <4>1. PICK d : d = lops'[n].children[j] /\ d = lops'[m].children[k]
                BY <2>2
            <4>2. \/ n \in 1 .. N /\ d \in 1 .. N /\ d # w
                  \/ n = N + 1 /\ j = 1 /\ d = w
                  \/ n = N + 2 /\ j = 1 /\ d = N + 1
                  \/ n = N + 3 /\ j = 1 /\ d = N + 2
                BY <1>10, <4>1
            <4>3. \/ m \in 1 .. N /\ d \in 1 .. N /\ d # w
                  \/ m = N + 1 /\ k = 1 /\ d = w
                  \/ m = N + 2 /\ k = 1 /\ d = N + 1
                  \/ m = N + 3 /\ k = 1 /\ d = N + 2
                BY <1>10, <4>1
            <4>4. w \in 1 .. N
                BY <1>3, <1>5
            <4> QED
                BY <1>3, <3>2, <4>2, <4>3, <4>4
        <3> QED
            BY <3>1, <3>2
    <2> QED
        BY <1>6, <2>1, <2>2 DEF Forest
<1>12. Shape'
    <2>1. ASSUME NEW n \in DOMAIN lops'
          PROVE  /\ Len(lops'[n].children) = Arity(lops'[n].lop)
                 /\ Len(lops'[n].join_keys) = IF lops'[n].lop = "HashJoin" THEN 2 ELSE 0
        <3>1. CASE n \in 1 .. N
            <4>1. n \in DOMAIN lops /\ lops'[n] = lops[n]
                BY <1>3, <3>1
            <4> QED
                BY <4>1 DEF Shape
        <3>2. CASE n \notin 1 .. N
            <4>1. PICK y : y = lops'[n]
                OBVIOUS
            <4>2. y = a \/ y = b \/ y = c
                BY <1>3, <1>9, <3>2, <4>1
            <4>3. y.lop \in {"Aggregation", "Repartition"} /\ Len(y.children) = 1 /\ Len(y.join_keys) = 0
                BY <1>4, <1>8, <4>2
            <4> QED
                BY <4>1, <4>3 DEF Arity
        <3> QED
            BY <3>1, <3>2
    <2>2. \A n \in ToSet(worklist') : lops'[n].lop # "Repartition"
        BY <1>3, <1>6, <1>8, Zenon
    <2> QED
        BY <1>4, <1>6, <2>1, <2>2 DEF Shape
<1> QED
    BY <1>7, <1>11, <1>12

Compiles == CompileFlow \/ CompileCall \/ CompileReturn \/ CompilePanics

LEMMA CompilesPlan == Compiles => UNCHANGED <<query, lops, worklist, pred_map>> /\ pc = "compile" /\ pc' \in {"compile", "compiled", "panicked"}
BY Zenon DEF Compiles, CompileFlow, CompileCall, CompileReturn, CompilePanics

LEMMA FormNext == FormInv /\ [Next]_vars => FormInv'
<1> SUFFICES ASSUME FormInv, [Next]_vars PROVE FormInv'
    OBVIOUS
<1>1. CASE BuildScan
    BY <1>1, ScanForm
<1>2. CASE Join
    BY <1>2, JoinForm
<1>3. ASSUME UNCHANGED <<query, lops, worklist, pred_map>>,
             pc' \in {"scan", "join"} => pc = pc',
             pc \in {"scan", "join"} => pc' = pc \/ (pc' = "panicked" /\ Len(worklist) > 1),
             pc = "panicked" => pc' = pc
      PROVE  FormInv'
    <2>1. TypeInv' /\ Forest'
        BY <1>3 DEF FormInv, TypeInv, Forest
    <2>2. Shape'
        BY <1>3 DEF FormInv, Shape
    <2> QED
        BY <2>1, <2>2 DEF FormInv
<1>4. CASE NoJoin
    BY <1>3, <1>4 DEF NoJoin
<1>5. CASE JoinsDone
    BY <1>5, DoneForm
<1>6. CASE NoAggregation
    BY <1>3, <1>6 DEF NoAggregation
<1>7. CASE AggregateOnce
    BY <1>7, OnceForm
<1>8. CASE AggregateTwice
    BY <1>8, TwiceForm
<1>9. CASE AddRepartitioningKeys \/ PushdownJoinKeys
    BY <1>9, RewriteForm
<1>10. CASE Compiles
    BY <1>3, <1>10, CompilesPlan
<1>11. CASE UNCHANGED vars
    BY <1>3, <1>11 DEF vars
<1> QED
    BY <1>1, <1>2, <1>4, <1>5, <1>6, <1>7, <1>8, <1>9, <1>10, <1>11 DEF Next, Compiles, Terminated

-----------------------------------------------------------------------------
(* The partitions of the LOPs. *)

\* Tasks of the stage that reads what a LOP returns.
TasksOf(x) == IF x.lop = "Repartition" THEN x.cpartitions ELSE x.npartitions

\* A LOP has as many partitions as each of its inputs has readers.  A leg of a join that is
\* left as it is has partitioning keys, so that it is a join.
PartInv ==
    /\ \A n \in DOMAIN lops : \A k \in DOMAIN lops[n].children :
          TasksOf(lops[lops[n].children[k]]) = lops[n].npartitions
    /\ \A n \in DOMAIN lops : lops[n].lop = "TableScan" => lops[n].partkeys = << >>
    /\ pc \in {"scan", "join"} =>
          \A n \in DOMAIN lops : lops[n].lop = "HashJoin" => lops[n].npartitions = query.degree

LEMMA PartInit == Init => PartInv
BY DEF Init, PartInv

LEMMA ScanParts ==
    ASSUME FormInv, PartInv, BuildScan
    PROVE  PartInv'
<1> USE DEF FormInv
<1>1. PICK x \in LOPs :
          lops' = Append(lops, x) /\ x.lop = "TableScan" /\ x.children = << >> /\ x.partkeys = << >>
    BY ScanEffect
<1>2. /\ \A n \in DOMAIN lops : lops'[n] = lops[n]
      /\ \A n \in DOMAIN lops' : n \in DOMAIN lops \/ lops'[n] = x
    BY <1>1, Appended
<1>3. query' = query /\ pc = "scan"
    BY ScanEffect
<1>4. DOMAIN x.children = {}
    BY <1>1
<1>5. ASSUME NEW n \in DOMAIN lops', NEW k \in DOMAIN lops'[n].children
      PROVE  TasksOf(lops'[lops'[n].children[k]]) = lops'[n].npartitions
    <2>1. n \in DOMAIN lops /\ lops'[n] = lops[n]
        BY <1>2, <1>4, <1>5
    <2>2. lops[n].children[k] \in DOMAIN lops
        BY <1>5, <2>1, ChildFacts
    <2>3. lops'[lops'[n].children[k]] = lops[lops[n].children[k]]
        BY <1>2, <2>1, <2>2
    <2> QED
        BY <1>5, <2>1, <2>3 DEF PartInv
<1>6. \A n \in DOMAIN lops' : lops'[n].lop = "TableScan" => lops'[n].partkeys = << >>
    BY <1>1, <1>2 DEF PartInv
<1>7. \A n \in DOMAIN lops' : lops'[n].lop = "HashJoin" => lops'[n].npartitions = query'.degree
    BY <1>1, <1>2, <1>3 DEF PartInv
<1> QED
    BY <1>5, <1>6, <1>7 DEF PartInv

\* A leg of a join has a reader for each partition of the join.
LEMMA LegTasks ==
    ASSUME FormInv, PartInv, pc = "join", NEW n \in ToSet(worklist), NEW keys \in Seq(ExprKeys), Len(keys) # 0,
           ComparePartKeys(keys, lops[n].partkeys)
    PROVE  TasksOf(lops[n]) = query.degree
<1>1. n \in DOMAIN lops /\ lops[n] \in LOPs
    BY WorkFacts DEF FormInv
<1>2. lops[n].partkeys # << >>
    BY DEF ComparePartKeys
<1>3. lops[n].lop \notin {"TableScan", "Aggregation", "Repartition"}
    BY <1>1, <1>2 DEF FormInv, PartInv, Shape
<1>4. lops[n].lop = "HashJoin"
    BY <1>1, <1>3 DEF LOPs
<1> QED
    BY <1>1, <1>4 DEF PartInv, TasksOf

LEMMA JoinParts ==
    ASSUME FormInv, PartInv, Join
    PROVE  PartInv'
<1> USE DEF FormInv
<1>1. PICK l, r, newl, newr, legs, equi, keys, join : Joins(l, r, newl, newr, legs, equi, keys, join)
    BY JoinEffect
<1>2. PICK N : N = Len(legs)
    OBVIOUS
<1>3. /\ DOMAIN lops' = 1 .. N + 1
      /\ l \in DOMAIN lops /\ r \in DOMAIN lops
      /\ \A n \in DOMAIN lops : lops'[n] = lops[n]
      /\ lops'[N + 1] = join
      /\ newl = l \/ (newl \notin DOMAIN lops /\ lops'[newl] = Repartition(l, keys[1]))
      /\ newr = r \/ (newr \notin DOMAIN lops /\ lops'[newr] = Repartition(r, keys[2]))
      /\ \A n \in DOMAIN lops' : n \in DOMAIN lops \/ n = newl \/ n = newr \/ n = N + 1
    BY <1>1, <1>2, JoinCases
<1>4. pc' = pc /\ pc = "join" /\ query' = query /\ l \in ToSet(worklist) /\ r \in ToSet(worklist)
    BY <1>1 DEF Joins
<1>5. lops[l].lop # "Repartition" /\ lops[r].lop # "Repartition"
    BY <1>4 DEF Shape
<1>6. /\ newl \notin DOMAIN lops => /\ lops'[newl].lop = "Repartition" /\ lops'[newl].children = <<l>>
                                    /\ lops'[newl].npartitions = lops[l].npartitions
                                    /\ lops'[newl].cpartitions = query.degree
      /\ newr \notin DOMAIN lops => /\ lops'[newr].lop = "Repartition" /\ lops'[newr].children = <<r>>
                                    /\ lops'[newr].npartitions = lops[r].npartitions
                                    /\ lops'[newr].cpartitions = query.degree
    BY <1>3, RepartitionFields
<1>7. join.lop = "HashJoin" /\ join.children = <<newl, newr>> /\ join.npartitions = query.degree
    BY <1>1, JoinFields
<1>8. keys[1] \in Seq(ExprKeys) /\ keys[2] \in Seq(ExprKeys) /\ Len(keys[1]) # 0 /\ Len(keys[2]) # 0
    <2>1. query \in Queries /\ equi \in SUBSET DOMAIN query.preds /\ keys = JoinKeys(equi, l, r) /\ equi # {}
        BY <1>1, EquiFacts DEF TypeInv, Joins
    <2>2. AreJoinKeys(keys, equi, l, r)
        BY <2>1, JoinKeysFacts
    <2> QED
        BY <2>1, <2>2 DEF AreJoinKeys
<1>9. TasksOf(lops'[newl]) = query.degree
    <2>1. CASE newl = l
        <3>1. ComparePartKeys(keys[1], lops[l].partkeys)
            BY <1>1, <1>3, <2>1 DEF Joins, IsLeg
        <3> QED
            BY <1>3, <1>4, <1>8, <2>1, <3>1, LegTasks
    <2>2. CASE newl # l
        BY <1>3, <1>6, <2>2 DEF TasksOf
    <2> QED
        BY <2>1, <2>2
<1>10. TasksOf(lops'[newr]) = query.degree
    <2>1. CASE newr = r
        <3>1. ComparePartKeys(keys[2], lops[r].partkeys)
            BY <1>1, <1>3, <2>1 DEF Joins, IsLeg
        <3> QED
            BY <1>3, <1>4, <1>8, <2>1, <3>1, LegTasks
    <2>2. CASE newr # r
        BY <1>3, <1>6, <2>2 DEF TasksOf
    <2> QED
        BY <2>1, <2>2
<1>11. ASSUME NEW n \in DOMAIN lops', NEW k \in DOMAIN lops'[n].children
      PROVE  TasksOf(lops'[lops'[n].children[k]]) = lops'[n].npartitions
    <2>1. CASE n \in DOMAIN lops
        <3>1. lops'[n] = lops[n] /\ k \in DOMAIN lops[n].children
            BY <1>3, <1>11, <2>1
        <3>2. lops[n].children[k] \in DOMAIN lops
            BY <2>1, <3>1, ChildFacts
        <3>3. lops'[lops'[n].children[k]] = lops[lops[n].children[k]]
            BY <1>3, <3>1, <3>2
        <3> QED
            BY <2>1, <3>1, <3>3 DEF PartInv
    <2>2. CASE n = newl /\ newl \notin DOMAIN lops
        <3>1. lops'[n].children = <<l>> /\ lops'[n].npartitions = lops[l].npartitions
            BY <1>6, <2>2
        <3>2. lops'[n].children[k] = l
            BY <1>11, <3>1
        <3> QED
            BY <1>3, <1>5, <3>1, <3>2 DEF TasksOf
    <2>3. CASE n = newr /\ newr \notin DOMAIN lops
        <3>1. lops'[n].children = <<r>> /\ lops'[n].npartitions = lops[r].npartitions
            BY <1>6, <2>3
        <3>2. lops'[n].children[k] = r
            BY <1>11, <3>1
        <3> QED
            BY <1>3, <1>5, <3>1, <3>2 DEF TasksOf
    <2>4. CASE n = N + 1
        <3>1. lops'[n].children = <<newl, newr>> /\ lops'[n].npartitions = query.degree
            BY <1>3, <1>7, <2>4
        <3>2. lops'[n].children[k] \in {newl, newr}
            BY <1>11, <3>1
        <3> QED
            BY <1>9, <1>10, <3>1, <3>2
    <2> QED
        BY <1>3, <2>1, <2>2, <2>3, <2>4
<1>12. \A n \in DOMAIN lops' : /\ lops'[n].lop = "TableScan" => lops'[n].partkeys = << >>
                               /\ lops'[n].lop = "HashJoin" => lops'[n].npartitions = query'.degree
    <2>1. SUFFICES ASSUME NEW n \in DOMAIN lops'
                   PROVE  /\ lops'[n].lop = "TableScan" => lops'[n].partkeys = << >>
                          /\ lops'[n].lop = "HashJoin" => lops'[n].npartitions = query'.degree
        OBVIOUS
    <2>2. CASE n \in DOMAIN lops
        BY <1>3, <1>4, <2>2 DEF PartInv
    <2>3. CASE n \notin DOMAIN lops
        BY <1>3, <1>4, <1>6, <1>7, <2>3
    <2> QED
        BY <2>2, <2>3
<1> QED
    BY <1>11, <1>12 DEF PartInv

\* Nothing else changes the partitions of a LOP.
LEMMA SameParts ==
    ASSUME FormInv, PartInv, pc' \notin {"scan", "join"}, DOMAIN lops' = DOMAIN lops,
           \A n \in DOMAIN lops : /\ lops'[n].lop = lops[n].lop /\ lops'[n].children = lops[n].children
                                  /\ lops'[n].npartitions = lops[n].npartitions
                                  /\ lops'[n].cpartitions = lops[n].cpartitions
                                  /\ lops'[n].partkeys = lops[n].partkeys
    PROVE  PartInv'
<1>1. ASSUME NEW n \in DOMAIN lops', NEW k \in DOMAIN lops'[n].children
      PROVE  TasksOf(lops'[lops'[n].children[k]]) = lops'[n].npartitions
    <2>1. n \in DOMAIN lops /\ k \in DOMAIN lops[n].children /\ lops'[n].children[k] = lops[n].children[k]
        BY <1>1
    <2>2. lops[n].children[k] \in DOMAIN lops
        BY <2>1, ChildFacts DEF FormInv
    <2> QED
        BY <2>1, <2>2 DEF PartInv, TasksOf
<1> QED
    BY <1>1 DEF PartInv

LEMMA OnceParts ==
    ASSUME FormInv, PartInv, AggregateOnce
    PROVE  PartInv'
<1> USE DEF FormInv
<1>1. PICK x \in LOPs :
          lops' = Append(lops, x) /\ x.lop = "Aggregation" /\ x.children = worklist /\ x.npartitions = 1
    BY OnceEffect
<1>2. /\ \A n \in DOMAIN lops : lops'[n] = lops[n]
      /\ \A n \in DOMAIN lops' : n \in DOMAIN lops \/ lops'[n] = x
    BY <1>1, Appended
<1>3. Len(worklist) = 1 /\ lops[worklist[1]].npartitions = 1 /\ pc' = "repartition_keys"
    BY OnceEffect
<1>4. DOMAIN worklist = {1} /\ worklist[1] \in DOMAIN lops /\ lops[worklist[1]].lop # "Repartition"
    BY <1>3, RootFacts
<1>5. ASSUME NEW n \in DOMAIN lops', NEW k \in DOMAIN lops'[n].children
      PROVE  TasksOf(lops'[lops'[n].children[k]]) = lops'[n].npartitions
    <2>1. CASE n \in DOMAIN lops
        <3>1. lops'[n] = lops[n] /\ k \in DOMAIN lops[n].children
            BY <1>2, <1>5, <2>1
        <3>2. lops[n].children[k] \in DOMAIN lops
            BY <2>1, <3>1, ChildFacts
        <3>3. lops'[lops'[n].children[k]] = lops[lops[n].children[k]]
            BY <1>2, <3>1, <3>2
        <3> QED
            BY <2>1, <3>1, <3>3 DEF PartInv
    <2>2. CASE lops'[n] = x
        <3>1. lops'[n].children[k] = worklist[1] /\ lops'[n].npartitions = 1
            BY <1>1, <1>4, <1>5, <2>2
        <3> QED
            BY <1>2, <1>3, <1>4, <3>1 DEF TasksOf
    <2> QED
        BY <1>2, <2>1, <2>2
<1>6. \A n \in DOMAIN lops' : lops'[n].lop = "TableScan" => lops'[n].partkeys = << >>
    BY <1>1, <1>2 DEF PartInv
<1> QED
    BY <1>3, <1>5, <1>6 DEF PartInv

LEMMA TwiceParts ==
    ASSUME FormInv, PartInv, AggregateTwice
    PROVE  PartInv'
<1> USE DEF FormInv
<1>1. PICK a, b, c : Twice(a, b, c)
    BY TwiceEffect
<1>2. PICK N, w : N = Len(lops) /\ w = worklist[1]
    OBVIOUS
<1>3. /\ N \in Nat /\ DOMAIN lops = 1 .. N /\ DOMAIN lops' = 1 .. N + 3
      /\ \A n \in 1 .. N : lops'[n] = lops[n]
      /\ lops'[N + 1] = a /\ lops'[N + 2] = b /\ lops'[N + 3] = c
    <2>1. N \in Nat /\ DOMAIN lops = 1 .. N
        BY <1>2, LenProperties DEF TypeInv
    <2> QED
        BY <1>1, <1>2, <2>1 DEF Twice
<1>4. pc' = "repartition_keys" /\ Len(worklist) = 1
    BY TwiceEffect
<1>5. w \in DOMAIN lops /\ DOMAIN worklist = {1} /\ lops[w].lop # "Repartition"
    BY <1>2, <1>4, RootFacts
<1>6. /\ a.lop = "Aggregation" /\ a.children = worklist /\ a.npartitions = lops[w].npartitions
      /\ b.lop = "Repartition" /\ b.children = <<N + 1>> /\ b.npartitions = a.npartitions
      /\ b.cpartitions = c.npartitions
      /\ c.lop = "Aggregation" /\ c.children = <<N + 2>>
    BY <1>1, <1>2 DEF Twice
<1>7. \A n \in DOMAIN lops' : n \in 1 .. N \/ n = N + 1 \/ n = N + 2 \/ n = N + 3
    BY <1>3
<1>8. ASSUME NEW n \in DOMAIN lops', NEW k \in DOMAIN lops'[n].children
      PROVE  TasksOf(lops'[lops'[n].children[k]]) = lops'[n].npartitions
    <2>1. CASE n \in 1 .. N
        <3>1. n \in DOMAIN lops /\ lops'[n] = lops[n] /\ k \in DOMAIN lops[n].children
            BY <1>3, <1>8, <2>1
        <3>2. lops[n].children[k] \in DOMAIN lops
            BY <3>1, ChildFacts
        <3>3. lops'[lops'[n].children[k]] = lops[lops[n].children[k]]
            BY <1>3, <3>1, <3>2
        <3> QED
            BY <3>1, <3>3 DEF PartInv
    <2>2. CASE n = N + 1
        <3>1. lops'[n].children[k] = w /\ lops'[n].npartitions = lops[w].npartitions
            BY <1>2, <1>3, <1>5, <1>6, <1>8, <2>2
        <3> QED
            BY <1>3, <1>5, <3>1 DEF TasksOf
    <2>3. CASE n = N + 2
        <3>1. lops'[n] = b
            BY <1>3, <2>3
        <3>2. lops'[n].children[k] = N + 1
            BY <1>6, <1>8, <3>1
        <3> QED
            BY <1>3, <1>6, <3>1, <3>2 DEF TasksOf
    <2>4. CASE n = N + 3
        <3>1. lops'[n] = c
            BY <1>3, <2>4
        <3>2. lops'[n].children[k] = N + 2
            BY <1>6, <1>8, <3>1
        <3> QED
            BY <1>3, <1>6, <3>1, <3>2 DEF TasksOf
    <2> QED
        BY <1>7, <2>1, <2>2, <2>3, <2>4
<1>9. \A n \in DOMAIN lops' : lops'[n].lop = "TableScan" => lops'[n].partkeys = << >>
    BY <1>3, <1>6, <1>7 DEF PartInv
<1> QED
    BY <1>4, <1>8, <1>9 DEF PartInv

LEMMA PartNext == FormInv /\ PartInv /\ [Next]_vars => PartInv'
<1> SUFFICES ASSUME FormInv, PartInv, [Next]_vars PROVE PartInv'
    OBVIOUS
<1> USE DEF FormInv
<1>1. CASE BuildScan
    BY <1>1, ScanParts
<1>2. CASE Join
    BY <1>2, JoinParts
<1>3. ASSUME UNCHANGED <<query, lops>>, pc' \in {"scan", "join"} => pc = pc'
      PROVE  PartInv'
    BY <1>3 DEF PartInv
<1>4. CASE NoJoin \/ NoAggregation
    BY <1>3, <1>4 DEF NoJoin, NoAggregation
<1>5. CASE JoinsDone
    <2>1. /\ pc' = "agg" /\ DOMAIN lops' = DOMAIN lops
          /\ \A n \in DOMAIN lops : n # worklist[1] => lops'[n] = lops[n]
          /\ lops'[worklist[1]].lop = lops[worklist[1]].lop
          /\ lops'[worklist[1]].children = lops[worklist[1]].children
          /\ lops'[worklist[1]].partkeys = lops[worklist[1]].partkeys
          /\ lops'[worklist[1]].npartitions = lops[worklist[1]].npartitions
          /\ lops'[worklist[1]].cpartitions = lops[worklist[1]].cpartitions
        BY <1>5, DoneEffect
    <2>2. \A n \in DOMAIN lops : /\ lops'[n].lop = lops[n].lop /\ lops'[n].children = lops[n].children
                                 /\ lops'[n].npartitions = lops[n].npartitions
                                 /\ lops'[n].cpartitions = lops[n].cpartitions
                                 /\ lops'[n].partkeys = lops[n].partkeys
        BY <2>1
    <2> QED
        BY <2>1, <2>2, SameParts
<1>6. CASE AggregateOnce
    BY <1>6, OnceParts
<1>7. CASE AggregateTwice
    BY <1>7, TwiceParts
<1>8. CASE AddRepartitioningKeys \/ PushdownJoinKeys
    <2>1. PICK v : Rewritten(v)
        BY <1>8, AddedKeys, PushedKeys
    <2>2. /\ DOMAIN lops' = DOMAIN lops
          /\ \A n \in DOMAIN lops : /\ lops'[n].lop = lops[n].lop /\ lops'[n].children = lops[n].children
                                    /\ lops'[n].npartitions = lops[n].npartitions
                                    /\ lops'[n].cpartitions = lops[n].cpartitions
                                    /\ lops'[n].partkeys = lops[n].partkeys
        BY <2>1, RewrittenFacts
    <2>3. pc' \in {"join_keys", "compile"}
        BY <1>8 DEF AddRepartitioningKeys, PushdownJoinKeys
    <2> QED
        BY <2>2, <2>3, SameParts
<1>9. CASE Compiles
    BY <1>3, <1>9, CompilesPlan
<1>10. CASE UNCHANGED vars
    BY <1>3, <1>10 DEF vars
<1> QED
    BY <1>1, <1>2, <1>4, <1>5, <1>6, <1>7, <1>8, <1>9, <1>10 DEF Next, Compiles, Terminated

-----------------------------------------------------------------------------
(* The stages, and what is left to compile of them. *)

Calls == [lop : Nat, stage : Nat, reader : Nat, entered : BOOLEAN]
StageRecords == [parent : Nat, nchildren : Nat, npartitions : Nat]

\* The stages that stage s reads, of a sequence g of stages.
ReadBy(g, s) == {c \in 1 .. Len(g) - 1 : g[c + 1].parent = s}

\* Every stage but the first is read by an earlier one, which counts those it reads.
IsTree(g) ==
    /\ g \in Seq(StageRecords)
    /\ \A s \in 1 .. Len(g) - 1 : g[s + 1].parent \in 0 .. s - 1
    /\ \A s \in 0 .. Len(g) - 1 : g[s + 1].nchildren = Cardinality(ReadBy(g, s))

\* The calls of compile_lop end at the root of the plan, which is in stage 0.
StackInv ==
    /\ stack \in Seq(Calls)
    /\ stack # << >> => stack[Len(stack)].lop = worklist[1] /\ stack[Len(stack)].stage = 0

CallOk(c, T) ==
    /\ c.lop \in DOMAIN lops
    /\ c.stage \in 0 .. Len(T) - 1 /\ c.reader \in 0 .. Len(T) - 1
    /\ TasksOf(lops[c.lop]) = T[c.reader + 1]
    /\ c.entered => lops[c.lop].npartitions = T[c.stage + 1]
    /\ ~c.entered => c.reader = c.stage

PopOk(pop, n, T) ==
    /\ n \in DOMAIN lops
    /\ pop.stage \in 0 .. Len(T) - 1 /\ pop.reader \in 0 .. Len(T) - 1
    /\ pop.npartitions = T[pop.stage + 1]
    /\ IsRepartition(n) => lops[n].cpartitions = T[pop.reader + 1]

\* The number of tasks of stage s is not known before what starts it has been compiled.
Open(s) ==
    \/ s = 0 /\ stack # << >>
    \/ \E c \in ToSet(stack) : c.stage = s /\ c.entered /\ IsRepartition(c.lop)

\* T has the tasks that the stages will have.
IsTasks(T) ==
    /\ T \in Seq(Nat) /\ Len(T) = Len(stages)
    /\ \A c \in ToSet(stack) : CallOk(c, T)
    /\ \A n \in DOMAIN pops : PopOk(pops[n], n, T)
    /\ \A s \in 0 .. Len(stages) - 1 : stages[s + 1].npartitions = T[s + 1] \/ Open(s)

CompileInv ==
    /\ IsTree(stages)
    /\ StackInv
    /\ pc \notin {"compile", "compiled", "panicked"} => stages = << >>
    /\ stages = << >> => stack = << >> /\ DOMAIN pops = {}
    /\ pc = "compiled" => stack = << >> /\ stages # << >>
    /\ pc \in {"compile", "compiled"} => \E T : IsTasks(T)

LEMMA TailFacts ==
    ASSUME NEW X, NEW s \in Seq(X), s # << >>
    PROVE  /\ Head(s) \in X /\ Head(s) \in ToSet(s) /\ Tail(s) \in Seq(X) /\ Len(s) \in Nat \ {0}
           /\ ToSet(s) = {Head(s)} \union ToSet(Tail(s))
           /\ Len(s) = 1 => Tail(s) = << >> /\ Head(s) = s[Len(s)]
           /\ Len(s) # 1 => Tail(s) # << >> /\ Tail(s)[Len(Tail(s))] = s[Len(s)]
<1>1. PICK n, t : n = Len(s) /\ t = Tail(s)
    OBVIOUS
<1>2. n \in Nat /\ DOMAIN s = 1 .. n
    BY <1>1, LenProperties
<1>3. n # 0
    BY <1>1, <1>2, EmptySeq
<1>4. /\ Head(s) \in X /\ Head(s) = s[1] /\ t \in Seq(X) /\ Len(t) = n - 1
      /\ \A i \in 1 .. n - 1 : t[i] = s[i + 1]
    BY <1>1, HeadTailProperties
<1>5. DOMAIN t = 1 .. n - 1
    BY <1>4, LenProperties
<1>6. ToSet(s) = {s[1]} \union ToSet(t)
    <2>1. \A i \in 1 .. n : i = 1 \/ (i - 1 \in 1 .. n - 1 /\ s[i] = t[i - 1])
        <3>1. SUFFICES ASSUME NEW i \in 1 .. n, i # 1 PROVE i - 1 \in 1 .. n - 1 /\ s[i] = t[i - 1]
            OBVIOUS
        <3>2. i - 1 \in 1 .. n - 1 /\ i - 1 + 1 = i
            BY <1>2, <3>1
        <3> QED
            BY <1>4, <3>2
    <2>2. \A i \in 1 .. n - 1 : i + 1 \in 1 .. n
        BY <1>2
    <2>3. 1 \in 1 .. n
        BY <1>2, <1>3
    <2>4. ToSet(s) \subseteq {s[1]} \union ToSet(t)
        BY <1>2, <1>5, <2>1 DEF ToSet
    <2>5. ToSet(t) \subseteq ToSet(s)
        <3>1. SUFFICES ASSUME NEW x \in ToSet(t) PROVE x \in ToSet(s)
            OBVIOUS
        <3>2. PICK i \in 1 .. n - 1 : x = t[i]
            BY <1>5, <3>1 DEF ToSet
        <3>3. x = s[i + 1] /\ i + 1 \in DOMAIN s
            BY <1>2, <1>4, <2>2, <3>2
        <3> QED
            BY <3>3 DEF ToSet
    <2>6. s[1] \in ToSet(s)
        BY <1>2, <2>3 DEF ToSet
    <2> QED
        BY <2>4, <2>5, <2>6
<1>7. n = 1 => t = << >>
    BY <1>2, <1>4, EmptySeq
<1>8. n # 1 => t # << >> /\ t[n - 1] = s[n]
    <2>1. n # 1 => n - 1 \in 1 .. n - 1 /\ n - 1 + 1 = n
        BY <1>2, <1>3
    <2> QED
        BY <1>4, <1>5, <2>1
<1> QED
    BY <1>1, <1>2, <1>3, <1>4, <1>6, <1>7, <1>8

\* The head of list s is replaced by x and others are put before it.
IsSpliced(new, X, cs, x, s) ==
    /\ new \in Seq(X) /\ new # << >>
    /\ ToSet(new) = ToSet(cs) \union {x} \union ToSet(Tail(s))
    /\ new[Len(new)] = IF Len(s) = 1 THEN x ELSE s[Len(s)]

LEMMA Spliced ==
    ASSUME NEW X, NEW s \in Seq(X), s # << >>, NEW cs \in Seq(X), NEW x \in X,
           NEW new, new = cs \o <<x>> \o Tail(s)
    PROVE  IsSpliced(new, X, cs, x, s)
<1>1. PICK t, u, v : t = Tail(s) /\ u = <<x>> /\ v = cs \o u
    OBVIOUS
<1>2. /\ t \in Seq(X)
      /\ Len(s) = 1 => t = << >>
      /\ Len(s) # 1 => t # << >> /\ t[Len(t)] = s[Len(s)]
    BY <1>1, TailFacts
<1>3. u \in Seq(X) /\ Len(u) = 1 /\ u[1] = x /\ ToSet(u) = {x}
    BY <1>1, ListOne
<1>4. v \in Seq(X) /\ Len(v) = Len(cs) + 1 /\ v[Len(v)] = x /\ ToSet(v) = ToSet(cs) \union {x}
    <2>1. Len(cs) \in Nat
        BY LenProperties
    <2>a. ToSet(cs \o u) = ToSet(cs) \union ToSet(u)
        BY <1>3, ToSetConcat
    <2>b. cs \o u \in Seq(X) /\ Len(cs \o u) = Len(cs) + Len(u)
        BY <1>3, ConcatProperties
    <2>2. v \in Seq(X) /\ Len(v) = Len(cs) + 1 /\ ToSet(v) = ToSet(cs) \union {x}
        BY <1>1, <1>3, <2>a, <2>b
    <2>3. \A i \in 1 .. Len(cs) + 1 : v[i] = IF i <= Len(cs) THEN cs[i] ELSE u[i - Len(cs)]
        BY <1>1, <1>3, ConcatProperties
    <2>4. /\ Len(cs) + 1 \in 1 .. Len(cs) + 1 /\ ~(Len(cs) + 1 <= Len(cs))
          /\ Len(cs) + 1 - Len(cs) = 1
        BY <2>1
    <2>5. v[Len(cs) + 1] = u[1]
        BY <2>3, <2>4
    <2> QED
        BY <1>3, <2>2, <2>5
<1>5. new = v \o t
    BY <1>1
<1>6. /\ new \in Seq(X) /\ Len(new) = Len(v) + Len(t) /\ ToSet(new) = ToSet(v) \union ToSet(t)
      /\ \A i \in 1 .. Len(v) + Len(t) : new[i] = IF i <= Len(v) THEN v[i] ELSE t[i - Len(v)]
    <2>1. v \in Seq(X) /\ t \in Seq(X)
        BY <1>2, <1>4
    <2>2. ToSet(v \o t) = ToSet(v) \union ToSet(t)
        BY <2>1, ToSetConcat
    <2>3. /\ v \o t \in Seq(X) /\ Len(v \o t) = Len(v) + Len(t)
          /\ \A i \in 1 .. Len(v) + Len(t) : (v \o t)[i] = IF i <= Len(v) THEN v[i] ELSE t[i - Len(v)]
        BY <2>1, ConcatProperties
    <2> QED
        BY <1>5, <2>2, <2>3
<1>7. Len(cs) \in Nat /\ Len(t) \in Nat /\ Len(v) \in Nat
    BY <1>2, <1>4, LenProperties
<1>8. new # << >>
    BY <1>4, <1>6, <1>7
<1>9. CASE Len(s) = 1
    <2>1. Len(t) = 0
        BY <1>2, <1>9
    <2>2. Len(v) \in 1 .. Len(v) + Len(t) /\ Len(new) = Len(v)
        BY <1>4, <1>6, <1>7, <2>1
    <2>3. new[Len(v)] = v[Len(v)]
        BY <1>6, <1>7, <2>2
    <2> QED
        BY <1>1, <1>4, <1>6, <1>8, <1>9, <2>2, <2>3 DEF IsSpliced
<1>10. CASE Len(s) # 1
    <2>1. Len(t) # 0
        BY <1>2, <1>10, EmptySeq
    <2>2. PICK k : k = Len(v) + Len(t)
        OBVIOUS
    <2>3. k \in 1 .. Len(v) + Len(t) /\ ~(k <= Len(v)) /\ k - Len(v) = Len(t)
        BY <1>7, <2>1, <2>2
    <2>4. new[k] = t[Len(t)]
        BY <1>6, <2>3
    <2> QED
        BY <1>1, <1>2, <1>4, <1>6, <1>8, <1>10, <2>2, <2>4 DEF IsSpliced
<1> QED
    BY <1>9, <1>10

\* The calls for the children of LOP n.
LEMMA ChildCalls ==
    ASSUME TypeInv, Forest, NEW n \in DOMAIN lops, NEW s \in Nat,
           NEW cs, cs = [i \in DOMAIN lops[n].children |-> Call(lops[n].children[i], s)]
    PROVE  /\ cs \in Seq(Calls)
           /\ \A c \in ToSet(cs) : \E k \in DOMAIN lops[n].children :
                 c.lop = lops[n].children[k] /\ c.stage = s /\ c.reader = s /\ ~c.entered
<1>1. PICK ch : ch = lops[n].children
    OBVIOUS
<1>2. ch \in Seq(Nat)
    BY <1>1, LopIn DEF LOPs
<1>3. DOMAIN ch = 1 .. Len(ch) /\ Len(ch) \in Nat /\ \A k \in 1 .. Len(ch) : ch[k] \in Nat
    BY <1>2, LenProperties, ElementOfSeq
<1>4. \A m \in Nat : Call(m, s) \in Calls
    BY DEF Call, Calls
<1>5. cs = [i \in 1 .. Len(ch) |-> Call(ch[i], s)]
    BY <1>1, <1>3
<1>6. cs \in Seq(Calls)
    BY <1>3, <1>4, <1>5
<1>7. ASSUME NEW c \in ToSet(cs)
      PROVE  \E k \in DOMAIN ch : c.lop = ch[k] /\ c.stage = s /\ c.reader = s /\ ~c.entered
    <2>1. PICK k \in 1 .. Len(ch) : c = Call(ch[k], s)
        BY <1>5 DEF ToSet
    <2> QED
        BY <1>3, <2>1 DEF Call
<1> QED
    BY <1>1, <1>6, <1>7

LEMMA StageFacts ==
    ASSUME NEW g, IsTree(g)
    PROVE  /\ DOMAIN g = 1 .. Len(g) /\ Len(g) \in Nat
           /\ \A i \in 1 .. Len(g) : g[i] \in StageRecords
           /\ \A s : ReadBy(g, s) \subseteq 1 .. Len(g) - 1
           /\ \A s : IsFiniteSet(ReadBy(g, s)) /\ Cardinality(ReadBy(g, s)) \in Nat
<1>1. DOMAIN g = 1 .. Len(g) /\ Len(g) \in Nat /\ \A i \in 1 .. Len(g) : g[i] \in StageRecords
    BY LenProperties, ElementOfSeq DEF IsTree
<1>2. ASSUME NEW s
      PROVE  /\ ReadBy(g, s) \subseteq 1 .. Len(g) - 1
             /\ IsFiniteSet(ReadBy(g, s)) /\ Cardinality(ReadBy(g, s)) \in Nat
    <2>0. Len(g) - 1 \in Int
        BY <1>1
    <2>1. PICK n \in Int : n = Len(g) - 1
        BY <2>0
    <2>2. IsFiniteSet(1 .. n)
        BY FS_Interval
    <2>3. ReadBy(g, s) \in SUBSET (1 .. n)
        BY <2>1 DEF ReadBy
    <2>4. IsFiniteSet(ReadBy(g, s))
        BY <2>2, <2>3, FS_Subset
    <2> QED
        BY <2>1, <2>3, <2>4, FS_CardinalityType
<1> QED
    BY <1>1, <1>2

LEMMA FirstStage ==
    ASSUME NEW g, g = <<Stage(0)>>
    PROVE  IsTree(g) /\ Len(g) = 1
<1>1. Stage(0) \in StageRecords /\ Stage(0).nchildren = 0
    BY DEF Stage, StageRecords
<1>2. g \in Seq(StageRecords) /\ Len(g) = 1 /\ g[1] = Stage(0)
    BY <1>1, ListOne
<1>3. ReadBy(g, 0) = {}
    BY <1>2 DEF ReadBy
<1>4. \A s \in 0 .. Len(g) - 1 : s = 0 /\ s + 1 = 1
    BY <1>2
<1>5. \A s \in 1 .. Len(g) - 1 : FALSE
    BY <1>2
<1>6. Cardinality(ReadBy(g, 0)) = 0
    BY <1>3, FS_EmptySet
<1> QED
    BY <1>1, <1>2, <1>4, <1>5, <1>6 DEF IsTree

\* The number of tasks of stage s is set.
IsSet(h, g, s, k) ==
    /\ IsTree(h) /\ Len(h) = Len(g)
    /\ h[s + 1].npartitions = k
    /\ \A i \in 1 .. Len(g) : i # s + 1 => h[i] = g[i]

LEMMA StageSet ==
    ASSUME NEW g, IsTree(g), NEW s \in 0 .. Len(g) - 1, NEW k \in Nat,
           NEW h, h = [g EXCEPT ![s + 1].npartitions = k]
    PROVE  IsSet(h, g, s, k)
<1>1. /\ DOMAIN g = 1 .. Len(g) /\ Len(g) \in Nat
      /\ \A i \in 1 .. Len(g) : g[i] \in StageRecords
    BY StageFacts
<1>0. Len(g) \in Nat /\ s + 1 \in Nat
    BY <1>1
<1>2. PICK n \in Nat, j \in Nat : n = Len(g) /\ j = s + 1
    BY <1>0
<1>3. j \in 1 .. n
    BY <1>1, <1>2
<1>4. PICK x, y : x = g[j] /\ y = [x EXCEPT !.npartitions = k]
    OBVIOUS
<1>5. x \in StageRecords
    BY <1>1, <1>2, <1>3, <1>4
<1>6. /\ y \in StageRecords /\ y.npartitions = k /\ y.parent = x.parent /\ y.nchildren = x.nchildren
    BY <1>4, <1>5 DEF StageRecords
<1>7. h = [g EXCEPT ![j] = y]
    BY <1>2, <1>4
<1>8. /\ h \in Seq(StageRecords) /\ Len(h) = n
      /\ \A i \in 1 .. n : h[i] = IF i = j THEN y ELSE g[i]
    <2>1. g \in Seq(StageRecords)
        BY DEF IsTree
    <2> QED
        BY <1>2, <1>3, <1>6, <1>7, <2>1, ExceptSeq
<1>9. \A i \in 1 .. n : h[i].parent = g[i].parent /\ h[i].nchildren = g[i].nchildren
    BY <1>4, <1>6, <1>8
<1>10. /\ \A i \in 1 .. n - 1 : i + 1 \in 1 .. n
       /\ \A i \in 0 .. n - 1 : i + 1 \in 1 .. n
    OBVIOUS
<1>11. \A i : ReadBy(h, i) = ReadBy(g, i)
    BY <1>2, <1>8, <1>9, <1>10 DEF ReadBy
<1>12. IsTree(h)
    BY <1>2, <1>8, <1>9, <1>10, <1>11 DEF IsTree
<1> QED
    BY <1>2, <1>3, <1>6, <1>8, <1>12 DEF IsSet

\* A stage is added, which stage s reads.
LEMMA StageAdded ==
    ASSUME NEW g, IsTree(g), NEW s \in 0 .. Len(g) - 1,
           NEW h, h = Append([g EXCEPT ![s + 1].nchildren = @ + 1], Stage(s))
    PROVE  /\ IsTree(h) /\ Len(h) = Len(g) + 1
           /\ \A i \in 1 .. Len(g) : h[i].npartitions = g[i].npartitions
<1>1. /\ DOMAIN g = 1 .. Len(g) /\ Len(g) \in Nat
      /\ \A i \in 1 .. Len(g) : g[i] \in StageRecords
    BY StageFacts
<1>0. Len(g) \in Nat /\ s + 1 \in Nat
    BY <1>1
<1>2. PICK n \in Nat, j \in Nat : n = Len(g) /\ j = s + 1
    BY <1>0
<1>3. j \in 1 .. n /\ s \in Nat /\ s \in 0 .. n - 1
    BY <1>1, <1>2
<1>4. PICK x, y, z, e : /\ x = g[j] /\ y = [x EXCEPT !.nchildren = @ + 1] /\ z = Stage(s)
                        /\ e = [g EXCEPT ![j] = y]
    OBVIOUS
<1>5. x \in StageRecords
    BY <1>1, <1>2, <1>3, <1>4
<1>6. /\ y \in StageRecords /\ y.npartitions = x.npartitions /\ y.parent = x.parent
      /\ y.nchildren = x.nchildren + 1
    <2>1. x.nchildren + 1 \in Nat
        BY <1>5 DEF StageRecords
    <2>2. PICK k : k = x.nchildren + 1 /\ k \in Nat
        BY <2>1
    <2>3. y = [x EXCEPT !.nchildren = k]
        BY <1>4, <2>2
    <2>4. /\ y \in StageRecords /\ y.npartitions = x.npartitions /\ y.parent = x.parent
          /\ y.nchildren = k
        BY <1>5, <2>2, <2>3 DEF StageRecords
    <2> QED
        BY <2>2, <2>4
<1>7. z \in StageRecords /\ z.parent = s /\ z.nchildren = 0
    BY <1>3, <1>4 DEF Stage, StageRecords
<1>8. h = Append(e, z)
    BY <1>2, <1>4
<1>9. g \in Seq(StageRecords)
    BY DEF IsTree
<1>10. /\ e \in Seq(StageRecords) /\ Len(e) = n
       /\ \A i \in 1 .. n : e[i] = IF i = j THEN y ELSE g[i]
    BY <1>2, <1>3, <1>4, <1>6, <1>9, ExceptSeq
<1>11. /\ h \in Seq(StageRecords) /\ Len(h) = n + 1 /\ h[n + 1] = z
       /\ \A i \in 1 .. n : h[i] = IF i = j THEN y ELSE g[i]
    <2>1. /\ Append(e, z) \in Seq(StageRecords) /\ Len(Append(e, z)) = Len(e) + 1
          /\ Append(e, z)[Len(e) + 1] = z
          /\ \A i \in 1 .. Len(e) : Append(e, z)[i] = e[i]
        BY <1>7, <1>10, AppendProperties
    <2> QED
        BY <1>8, <1>10, <2>1
<1>12. \A i \in 1 .. n : /\ h[i].parent = g[i].parent /\ h[i].npartitions = g[i].npartitions
                         /\ h[i].nchildren = IF i = j THEN g[i].nchildren + 1 ELSE g[i].nchildren
    BY <1>4, <1>6, <1>11
<1>13. \A i : ReadBy(h, i) = IF i = s THEN ReadBy(g, i) \union {n} ELSE ReadBy(g, i)
    <2>1. ASSUME NEW i, NEW c \in 1 .. n
          PROVE  c \in ReadBy(h, i) <=> c \in ReadBy(g, i) \/ (c = n /\ i = s)
        <3>1. CASE c = n
            BY <1>2, <1>7, <1>11, <3>1 DEF ReadBy
        <3>2. CASE c # n
            <4>1. c \in 1 .. n - 1 /\ c + 1 \in 1 .. n
                BY <3>2
            <4> QED
                BY <1>2, <1>11, <1>12, <3>2, <4>1 DEF ReadBy
        <3> QED
            BY <3>1, <3>2
    <2>2. \A i : ReadBy(h, i) \subseteq 1 .. n /\ ReadBy(g, i) \subseteq 1 .. n
        BY <1>2, <1>11 DEF ReadBy
    <2>3. n \in 1 .. n
        BY <1>3
    <2> QED
        BY <2>1, <2>2, <2>3
<1>14. \A i : n \notin ReadBy(g, i)
    BY <1>2 DEF ReadBy
<1>15. ASSUME NEW i \in 0 .. n PROVE h[i + 1].nchildren = Cardinality(ReadBy(h, i))
    <2>1. IsFiniteSet(ReadBy(g, i)) /\ Cardinality(ReadBy(g, i)) \in Nat
        BY StageFacts
    <2>2. CASE i = s
        <3>1. Cardinality(ReadBy(g, i) \union {n}) = Cardinality(ReadBy(g, i)) + 1
            BY <1>14, <2>1, FS_AddElement
        <3>2. g[i + 1].nchildren = Cardinality(ReadBy(g, i))
            BY <2>2 DEF IsTree
        <3>3. i + 1 = j
            BY <1>2, <2>2
        <3> QED
            BY <1>3, <1>12, <1>13, <2>2, <3>1, <3>2, <3>3
    <2>3. CASE i = n
        <3>1. ReadBy(g, i) = {}
            <4>1. ASSUME NEW c \in ReadBy(g, n) PROVE FALSE
                <5>1. c \in 1 .. n - 1 /\ g[c + 1].parent = n /\ g[c + 1].parent \in 0 .. c - 1
                    BY <1>2 DEF IsTree, ReadBy
                <5> QED
                    BY <5>1
            <4> QED
                BY <2>3, <4>1
        <3>2. i # s
            BY <1>3, <2>3
        <3> QED
            BY <1>7, <1>11, <1>13, <2>3, <3>1, <3>2, FS_EmptySet
    <2>4. CASE i # s /\ i # n
        <3>1. i + 1 \in 1 .. n /\ i + 1 # j /\ i \in 0 .. Len(g) - 1
            BY <1>2, <2>4
        <3>2. g[i + 1].nchildren = Cardinality(ReadBy(g, i))
            BY <3>1 DEF IsTree
        <3> QED
            BY <1>12, <1>13, <2>4, <3>1, <3>2
    <2> QED
        BY <2>2, <2>3, <2>4
<1>16. ASSUME NEW i \in 1 .. n PROVE h[i + 1].parent \in 0 .. i - 1
    <2>1. CASE i = n
        BY <1>3, <1>7, <1>11, <2>1
    <2>2. CASE i # n
        <3>1. i \in 1 .. Len(g) - 1 /\ i + 1 \in 1 .. n
            BY <1>2, <2>2
        <3> QED
            BY <1>12, <3>1 DEF IsTree
    <2> QED
        BY <2>1, <2>2
<1>17. Len(h) - 1 = n
    BY <1>11
<1>18. IsTree(h)
    BY <1>11, <1>15, <1>16, <1>17 DEF IsTree
<1> QED
    BY <1>2, <1>11, <1>12, <1>18

LEMMA CompileInit == Init => CompileInv
<1> SUFFICES ASSUME Init PROVE CompileInv
    OBVIOUS
<1>1. stack = << >> /\ stages = << >> /\ pops = << >> /\ pc = "scan"
    BY DEF Init
<1>2. DOMAIN pops = {} /\ Len(stages) = 0 /\ stages \in Seq(StageRecords) /\ stack \in Seq(Calls)
    BY <1>1, EmptySeq
<1>3. IsTree(stages)
    BY <1>2 DEF IsTree
<1> QED
    BY <1>1, <1>2, <1>3 DEF CompileInv, StackInv

\* Before the plan is compiled, and when nothing is left of it to compile.
LEMMA NothingCompiled ==
    ASSUME CompileInv, UNCHANGED <<stack, stages, pops>>, pc \notin {"compile", "compiled", "panicked"},
           pc' # "compiled"
    PROVE  CompileInv'
<1>1. stages = << >> /\ stack = << >> /\ DOMAIN pops = {} /\ IsTree(stages)
    BY DEF CompileInv
<1>2. stack \in Seq(Calls) /\ << >> \in Seq(Nat) /\ Len(<< >>) = 0 /\ ToSet(stack) = {}
    BY <1>1, EmptySeq DEF ToSet
<1>3. IsTasks(<< >>)'
    BY <1>1, <1>2 DEF IsTasks
<1>4. StackInv'
    BY <1>1, <1>2 DEF StackInv
<1> QED
    BY <1>1, <1>3, <1>4 DEF CompileInv

LEMMA FlowCompiles ==
    ASSUME FormInv, CompileInv, CompileFlow
    PROVE  CompileInv'
<1>1. /\ pc = "compile" /\ pc' = pc /\ UNCHANGED <<query, lops, worklist, pops>> /\ stages = << >>
      /\ stages' = <<Stage(0)>> /\ stack' = <<Call(worklist[1], 0)>>
    BY DEF CompileFlow
<1>2. DOMAIN pops = {}
    BY <1>1 DEF CompileInv
<1>3. PICK w, k, c : w = worklist[1] /\ k = lops[w].npartitions /\ c = Call(w, 0)
    OBVIOUS
<1>4. w \in DOMAIN lops /\ w \in Nat /\ k \in Nat /\ lops[w].lop # "Repartition"
    <2>1. Len(worklist) = 1
        BY <1>1 DEF FormInv, Shape
    <2> QED
        BY <1>3, <2>1, RootFacts DEF FormInv, LOPs
<1>5. c \in Calls /\ c.lop = w /\ c.stage = 0 /\ c.reader = 0 /\ ~c.entered
    BY <1>3, <1>4 DEF Call, Calls
<1>6. stack' \in Seq(Calls) /\ Len(stack') = 1 /\ stack'[1] = c /\ ToSet(stack') = {c} /\ stack' # << >>
    <2>1. stack' = <<c>>
        BY <1>1, <1>3
    <2> QED
        BY <1>5, <2>1, ListOne
<1>7. IsTree(stages') /\ Len(stages') = 1
    BY <1>1, FirstStage
<1>8. PICK T : T = <<k>>
    OBVIOUS
<1>9. T \in Seq(Nat) /\ Len(T) = 1 /\ T[1] = k
    BY <1>4, <1>8, ListOne
<1>10. CallOk(c, T)'
    <2>1. 0 \in 0 .. Len(T) - 1 /\ T[0 + 1] = k
        BY <1>9
    <2> QED
        BY <1>1, <1>3, <1>4, <1>5, <2>1 DEF CallOk, TasksOf
<1>11. \A s \in 0 .. Len(stages') - 1 : s = 0
    BY <1>7
<1>12. IsTasks(T)'
    BY <1>1, <1>2, <1>6, <1>7, <1>9, <1>10, <1>11 DEF IsTasks, Open
<1>13. StackInv'
    BY <1>1, <1>3, <1>5, <1>6 DEF StackInv
<1>14. stages' # << >>
    BY <1>7, EmptySeq
<1> QED
    BY <1>1, <1>7, <1>12, <1>13, <1>14 DEF CompileInv

LEMMA PanicCompiles ==
    ASSUME CompileInv, CompilePanics
    PROVE  CompileInv'
<1>1. UNCHANGED <<worklist, stack, stages, pops>> /\ pc' = "panicked" /\ stack # << >>
    BY DEF CompilePanics
<1> QED
    BY <1>1 DEF CompileInv, StackInv

\* The call on top of the stack, when the plan is being compiled.
LEMMA TopFacts ==
    ASSUME CompileInv, pc = "compile", stack # << >>, NEW top, top = Head(stack)
    PROVE  /\ top \in Calls /\ top \in ToSet(stack) /\ stack \in Seq(Calls) /\ Tail(stack) \in Seq(Calls)
           /\ ToSet(stack) = {top} \union ToSet(Tail(stack)) /\ Len(stack) \in Nat \ {0}
           /\ stack[Len(stack)].lop = worklist[1] /\ stack[Len(stack)].stage = 0
           /\ Len(stack) = 1 => Tail(stack) = << >> /\ top = stack[Len(stack)]
           /\ Len(stack) # 1 => Tail(stack) # << >> /\ Tail(stack)[Len(Tail(stack))] = stack[Len(stack)]
<1>1. stack \in Seq(Calls) /\ stack[Len(stack)].lop = worklist[1] /\ stack[Len(stack)].stage = 0
    BY DEF CompileInv, StackInv
<1> QED
    BY <1>1, TailFacts

\* What holds with tasks T of the stages holds when stages are added.
Longer(T, U) ==
    /\ T \in Seq(Nat) /\ U \in Seq(Nat) /\ Len(T) <= Len(U)
    /\ \A i \in 1 .. Len(T) : U[i] = T[i]

LEMMA PlaceFacts ==
    ASSUME NEW T, NEW U, Longer(T, U), NEW s \in 0 .. Len(T) - 1
    PROVE  s \in 0 .. Len(U) - 1 /\ U[s + 1] = T[s + 1] /\ s \in Nat /\ s + 1 \in 1 .. Len(T)
<1>1. Len(T) \in Nat /\ Len(U) \in Nat
    BY LenProperties DEF Longer
<1> QED
    BY <1>1 DEF Longer

LEMMA CallStays ==
    ASSUME UNCHANGED lops, NEW T, NEW U, Longer(T, U), NEW c, CallOk(c, T)
    PROVE  CallOk(c, U)'
<1>0. PICK a, b : a = c.stage /\ b = c.reader
    OBVIOUS
<1>1. a \in 0 .. Len(T) - 1 /\ b \in 0 .. Len(T) - 1
    BY <1>0 DEF CallOk
<1>2. a \in 0 .. Len(U) - 1 /\ U[a + 1] = T[a + 1]
    BY <1>1, PlaceFacts
<1>3. b \in 0 .. Len(U) - 1 /\ U[b + 1] = T[b + 1]
    BY <1>1, PlaceFacts
<1> QED
    BY <1>0, <1>2, <1>3 DEF CallOk

LEMMA PopStays ==
    ASSUME UNCHANGED lops, NEW T, NEW U, Longer(T, U), NEW pop, NEW n, PopOk(pop, n, T)
    PROVE  PopOk(pop, n, U)'
<1>0. PICK a, b : a = pop.stage /\ b = pop.reader
    OBVIOUS
<1>1. a \in 0 .. Len(T) - 1 /\ b \in 0 .. Len(T) - 1
    BY <1>0 DEF PopOk
<1>2. a \in 0 .. Len(U) - 1 /\ U[a + 1] = T[a + 1]
    BY <1>1, PlaceFacts
<1>3. b \in 0 .. Len(U) - 1 /\ U[b + 1] = T[b + 1]
    BY <1>1, PlaceFacts
<1> QED
    BY <1>0, <1>2, <1>3 DEF PopOk, IsRepartition

\* The tasks U of the stages after CompileCall.
LEMMA CallTasks ==
    ASSUME FormInv, CompileInv, CompileCall, NEW T, IsTasks(T), NEW top, top = Head(stack),
           NEW s, s = IF IsRepartition(top.lop) THEN NewStageId ELSE top.stage
    PROVE  \E U : /\ Longer(T, U) /\ Len(U) = Len(stages') /\ IsTree(stages')
                  /\ s \in 0 .. Len(U) - 1 /\ lops[top.lop].npartitions = U[s + 1]
                  /\ \A i \in 1 .. Len(stages) : stages'[i].npartitions = stages[i].npartitions
                  /\ \A i \in 0 .. Len(U) - 1 : i \in 0 .. Len(T) - 1 \/ (i = s /\ IsRepartition(top.lop))
<1>1. /\ pc = "compile" /\ stack # << >> /\ ~top.entered
      /\ stages' = IF IsRepartition(top.lop)
                   THEN Append([stages EXCEPT ![top.stage + 1].nchildren = @ + 1], Stage(top.stage))
                   ELSE stages
    BY Zenon DEF CompileCall
<1>2. top \in ToSet(stack) /\ IsTree(stages)
    BY <1>1, TopFacts DEF CompileInv
<1>3. T \in Seq(Nat) /\ Len(T) = Len(stages) /\ CallOk(top, T)
    BY <1>2 DEF IsTasks
<1>4. PICK k, st : k = lops[top.lop].npartitions /\ st = top.stage
    OBVIOUS
<1>5. /\ k \in Nat /\ st \in 0 .. Len(stages) - 1 /\ top.reader = st
      /\ TasksOf(lops[top.lop]) = T[st + 1]
    <2>1. top.lop \in DOMAIN lops
        BY <1>3 DEF CallOk
    <2>2. lops[top.lop] \in LOPs
        BY <2>1, LopIn DEF FormInv
    <2> QED
        BY <1>1, <1>3, <1>4, <2>2 DEF CallOk, LOPs
<1>6. Len(T) \in Nat
    BY <1>3, LenProperties
<1>7. CASE IsRepartition(top.lop)
    <2>1. PICK U : U = Append(T, k)
        OBVIOUS
    <2>2. /\ U \in Seq(Nat) /\ Len(U) = Len(T) + 1 /\ U[Len(T) + 1] = k
          /\ \A i \in 1 .. Len(T) : U[i] = T[i]
        BY <1>3, <1>5, <2>1, AppendProperties
    <2>3. Longer(T, U)
        BY <1>3, <1>6, <2>2 DEF Longer
    <2>4. stages' = Append([stages EXCEPT ![st + 1].nchildren = @ + 1], Stage(st))
        BY <1>1, <1>4, <1>7
    <2>5. /\ IsTree(stages') /\ Len(stages') = Len(stages) + 1
          /\ \A i \in 1 .. Len(stages) : stages'[i].npartitions = stages[i].npartitions
        <3>1. PICK g, h : g = stages /\ h = stages'
            OBVIOUS
        <3>2. IsTree(g) /\ st \in 0 .. Len(g) - 1 /\ h = Append([g EXCEPT ![st + 1].nchildren = @ + 1], Stage(st))
            BY <1>2, <1>5, <2>4, <3>1
        <3>3. /\ IsTree(h) /\ Len(h) = Len(g) + 1
              /\ \A i \in 1 .. Len(g) : h[i].npartitions = g[i].npartitions
            BY <3>2, StageAdded
        <3> QED
            BY <3>1, <3>3
    <2>6. s = Len(T)
        BY <1>3, <1>7 DEF NewStageId
    <2>7. s \in 0 .. Len(U) - 1 /\ \A i \in 0 .. Len(U) - 1 : i \in 0 .. Len(T) - 1 \/ i = s
        BY <1>6, <2>2, <2>6
    <2> QED
        BY <1>3, <1>4, <1>7, <2>2, <2>3, <2>5, <2>6, <2>7
<1>8. CASE ~IsRepartition(top.lop)
    <2>1. stages' = stages /\ s = st
        BY <1>1, <1>4, <1>8
    <2>2. Longer(T, T)
        BY <1>3, <1>6 DEF Longer
    <2>3. k = T[st + 1]
        BY <1>4, <1>5, <1>8 DEF TasksOf, IsRepartition
    <2> QED
        BY <1>2, <1>3, <1>4, <1>5, <2>1, <2>2, <2>3
<1> QED
    BY <1>7, <1>8, Zenon

LEMMA CallCompiles ==
    ASSUME FormInv, PartInv, CompileInv, CompileCall
    PROVE  CompileInv'
<1>1. PICK top : top = Head(stack)
    OBVIOUS
<1>2. PICK s : s = IF IsRepartition(top.lop) THEN NewStageId ELSE top.stage
    OBVIOUS
<1>3. PICK n, cs, t : /\ n = top.lop /\ t = [top EXCEPT !.entered = TRUE, !.stage = s]
                      /\ cs = [i \in DOMAIN lops[n].children |-> Call(lops[n].children[i], s)]
    BY Zenon
<1>4. /\ pc = "compile" /\ pc' = pc /\ stack # << >> /\ ~top.entered
      /\ UNCHANGED <<query, lops, worklist, pops>>
      /\ stack' = cs \o <<t>> \o Tail(stack)
    BY <1>1, <1>2, <1>3, Zenon DEF CompileCall
<1>5. PICK T : IsTasks(T)
    BY <1>4 DEF CompileInv
<1>6. PICK U : /\ Longer(T, U) /\ Len(U) = Len(stages') /\ IsTree(stages')
               /\ s \in 0 .. Len(U) - 1 /\ lops[top.lop].npartitions = U[s + 1]
               /\ \A i \in 1 .. Len(stages) : stages'[i].npartitions = stages[i].npartitions
               /\ \A i \in 0 .. Len(U) - 1 : i \in 0 .. Len(T) - 1 \/ (i = s /\ IsRepartition(top.lop))
    BY <1>1, <1>2, <1>5, CallTasks
<1>7. /\ top \in Calls /\ top \in ToSet(stack) /\ stack \in Seq(Calls) /\ Tail(stack) \in Seq(Calls)
      /\ ToSet(stack) = {top} \union ToSet(Tail(stack))
      /\ stack[Len(stack)].lop = worklist[1] /\ stack[Len(stack)].stage = 0
      /\ Len(stack) = 1 => top = stack[Len(stack)]
    BY <1>1, <1>4, TopFacts
<1>8. CallOk(top, T) /\ T \in Seq(Nat) /\ Len(T) = Len(stages) /\ Len(T) \in Nat /\ Len(U) \in Nat
    BY <1>5, <1>6, <1>7, LenProperties DEF IsTasks, Longer
<1>9. n \in DOMAIN lops /\ lops[n].npartitions = U[s + 1] /\ s \in Nat
    BY <1>3, <1>6, <1>8 DEF CallOk
<1>10. t \in Calls /\ t.lop = n /\ t.reader = top.reader /\ t.stage = s /\ t.entered
    BY <1>3, <1>7, <1>9 DEF Calls
<1>11. cs \in Seq(Calls)
       /\ \A c \in ToSet(cs) : \E k \in DOMAIN lops[n].children :
             c.lop = lops[n].children[k] /\ c.stage = s /\ c.reader = s /\ ~c.entered
    BY <1>3, <1>9, ChildCalls DEF FormInv
<1>12. /\ stack' \in Seq(Calls) /\ stack' # << >>
       /\ ToSet(stack') = ToSet(cs) \union {t} \union ToSet(Tail(stack))
       /\ stack'[Len(stack')] = IF Len(stack) = 1 THEN t ELSE stack[Len(stack)]
    <2>1. PICK old, new : old = stack /\ new = stack'
        OBVIOUS
    <2>2. old \in Seq(Calls) /\ old # << >> /\ new = cs \o <<t>> \o Tail(old)
        BY <1>4, <1>7, <2>1
    <2>3. cs \in Seq(Calls) /\ t \in Calls
        BY <1>10, <1>11
    <2>4. IsSpliced(new, Calls, cs, t, old)
        BY <2>2, <2>3, Spliced, Zenon
    <2> QED
        BY <2>1, <2>4 DEF IsSpliced
<1>13. ASSUME NEW c \in ToSet(cs) PROVE CallOk(c, U)'
    <2>1. PICK k \in DOMAIN lops[n].children :
              c.lop = lops[n].children[k] /\ c.stage = s /\ c.reader = s /\ ~c.entered
        BY <1>11
    <2>2. c.lop \in DOMAIN lops /\ TasksOf(lops[c.lop]) = lops[n].npartitions
        BY <1>9, <2>1, ChildFacts DEF FormInv, PartInv
    <2> QED
        BY <1>4, <1>6, <1>9, <2>1, <2>2 DEF CallOk
<1>14. CallOk(t, U)'
    <2>1. top.reader \in 0 .. Len(T) - 1 /\ TasksOf(lops[n]) = T[top.reader + 1]
        BY <1>3, <1>8 DEF CallOk
    <2>2. top.reader \in 0 .. Len(U) - 1 /\ U[top.reader + 1] = T[top.reader + 1]
        BY <1>6, <2>1, PlaceFacts
    <2> QED
        BY <1>4, <1>6, <1>9, <1>10, <2>1, <2>2 DEF CallOk
<1>15. ASSUME NEW c \in ToSet(Tail(stack)) PROVE CallOk(c, U)'
    <2>1. CallOk(c, T)
        BY <1>5, <1>7 DEF IsTasks
    <2> QED
        BY <1>4, <1>6, <2>1, CallStays
<1>16. ASSUME NEW m \in DOMAIN pops PROVE PopOk(pops[m], m, U)'
    <2>1. PICK p : p = pops[m]
        OBVIOUS
    <2>2. PopOk(p, m, T)
        BY <1>5, <2>1 DEF IsTasks
    <2>3. PopOk(p, m, U)'
        BY <1>4, <1>6, <2>2, PopStays
    <2> QED
        BY <1>4, <2>1, <2>3
<1>17. ASSUME NEW i \in 0 .. Len(stages') - 1 PROVE stages'[i + 1].npartitions = U[i + 1] \/ Open(i)'
    <2>1. CASE i = s /\ IsRepartition(top.lop)
        BY <1>3, <1>4, <1>10, <1>12, <2>1, Zenon DEF Open, IsRepartition
    <2>2. CASE i \in 0 .. Len(T) - 1
        <3>1. U[i + 1] = T[i + 1] /\ i + 1 \in 1 .. Len(stages)
            BY <1>6, <1>8, <2>2, PlaceFacts
        <3>2. stages[i + 1].npartitions = T[i + 1] => stages'[i + 1].npartitions = U[i + 1]
            BY <1>6, <3>1
        <3>3. Open(i) => Open(i)'
            BY <1>4, <1>7, <1>12 DEF Open, IsRepartition
        <3> QED
            BY <1>5, <1>8, <2>2, <3>2, <3>3 DEF IsTasks
    <2> QED
        BY <1>6, <2>1, <2>2, Zenon
<1>18. IsTasks(U)'
    <2>1. U \in Seq(Nat) /\ Len(U) = Len(stages') /\ pops' = pops
        BY <1>4, <1>6 DEF Longer
    <2> QED
        BY <1>12, <1>13, <1>14, <1>15, <1>16, <1>17, <2>1 DEF IsTasks
<1>19. StackInv'
    <2>1. Len(stack) = 1 => t.lop = worklist[1] /\ t.stage = 0
        <3>1. SUFFICES ASSUME Len(stack) = 1 PROVE t.lop = worklist[1] /\ t.stage = 0
            OBVIOUS
        <3>2. top.lop = worklist[1] /\ top.stage = 0
            BY <1>7, <3>1
        <3>3. Len(worklist) = 1
            BY <1>4 DEF FormInv, Shape
        <3>4. ~IsRepartition(top.lop)
            BY <3>2, <3>3, RootFacts DEF FormInv, IsRepartition
        <3> QED
            BY <1>2, <1>3, <1>10, <3>2, <3>4
    <2> QED
        BY <1>4, <1>7, <1>12, <2>1 DEF StackInv
<1>20. stages' # << >>
    BY <1>6, <1>8, EmptySeq
<1> QED
    BY <1>4, <1>6, <1>18, <1>19, <1>20 DEF CompileInv

LEMMA PopFields ==
    ASSUME NEW n, NEW qun, NEW call, NEW p, p = Pop(n, qun, call)
    PROVE  p.stage = call.stage /\ p.reader = call.reader /\ p.npartitions = lops[n].npartitions
BY DEF Pop

LEMMA ReturnStages ==
    ASSUME FormInv, CompileInv, CompileReturn, NEW T, IsTasks(T), NEW top, top = Head(stack)
    PROVE  /\ IsTree(stages') /\ Len(stages') = Len(stages)
           /\ \A i \in 0 .. Len(stages) - 1 :
                 stages'[i + 1].npartitions = IF i = top.stage /\ (IsRepartition(top.lop) \/ Len(stack) = 1)
                                              THEN lops[top.lop].npartitions ELSE stages[i + 1].npartitions
<1>1. /\ pc = "compile" /\ stack # << >>
      /\ stages' = IF IsRepartition(top.lop) \/ Len(stack) = 1
                   THEN [stages EXCEPT ![top.stage + 1].npartitions = lops[top.lop].npartitions]
                   ELSE stages
    BY DEF CompileReturn
<1>2. top \in ToSet(stack) /\ IsTree(stages)
    BY <1>1, TopFacts DEF CompileInv
<1>3. T \in Seq(Nat) /\ Len(T) = Len(stages) /\ CallOk(top, T)
    BY <1>2 DEF IsTasks
<1>4. PICK k, st, g, h : k = lops[top.lop].npartitions /\ st = top.stage /\ g = stages /\ h = stages'
    OBVIOUS
<1>5. k \in Nat /\ st \in 0 .. Len(g) - 1 /\ IsTree(g)
    <2>1. top.lop \in DOMAIN lops
        BY <1>3 DEF CallOk
    <2>2. lops[top.lop] \in LOPs
        BY <2>1, LopIn DEF FormInv
    <2> QED
        BY <1>2, <1>3, <1>4, <2>2 DEF CallOk, LOPs
<1>6. CASE IsRepartition(top.lop) \/ Len(stack) = 1
    <2>1. h = [g EXCEPT ![st + 1].npartitions = k]
        BY <1>1, <1>4, <1>6
    <2>2. /\ IsTree(h) /\ Len(h) = Len(g) /\ h[st + 1].npartitions = k
          /\ \A i \in 1 .. Len(g) : i # st + 1 => h[i] = g[i]
        <3>1. IsSet(h, g, st, k)
            BY <1>5, <2>1, StageSet
        <3> QED
            BY <3>1 DEF IsSet
    <2>3. Len(g) \in Nat
        BY <1>5, StageFacts
    <2>4. \A i \in 0 .. Len(g) - 1 : i + 1 \in 1 .. Len(g) /\ (i # st => i + 1 # st + 1)
        BY <1>5, <2>3
    <2> QED
        BY <1>4, <1>6, <2>2, <2>4
<1>7. CASE ~(IsRepartition(top.lop) \/ Len(stack) = 1)
    BY <1>1, <1>2, <1>7
<1> QED
    BY <1>6, <1>7

LEMMA ReturnCompiles ==
    ASSUME FormInv, CompileInv, CompileReturn
    PROVE  CompileInv'
<1>1. PICK top, n : top = Head(stack) /\ n = top.lop
    OBVIOUS
<1>2. PICK qun : pops' = [m \in DOMAIN pops \union {n} |-> IF m = n THEN Pop(n, qun, top) ELSE pops[m]]
    BY <1>1 DEF CompileReturn
<1>3. /\ pc = "compile" /\ stack # << >> /\ top.entered
      /\ stack' = Tail(stack)
      /\ pc' = IF Len(stack) = 1 THEN "compiled" ELSE pc
      /\ UNCHANGED <<query, lops, worklist>>
    BY <1>1 DEF CompileReturn
<1>4. PICK T : IsTasks(T)
    BY <1>3 DEF CompileInv
<1>5. /\ IsTree(stages') /\ Len(stages') = Len(stages)
      /\ \A i \in 0 .. Len(stages) - 1 :
            stages'[i + 1].npartitions = IF i = top.stage /\ (IsRepartition(n) \/ Len(stack) = 1)
                                         THEN lops[n].npartitions ELSE stages[i + 1].npartitions
    BY <1>1, <1>4, ReturnStages
<1>6. /\ top \in Calls /\ top \in ToSet(stack) /\ stack \in Seq(Calls) /\ Tail(stack) \in Seq(Calls)
      /\ ToSet(stack) = {top} \union ToSet(Tail(stack)) /\ Len(stack) \in Nat \ {0}
      /\ stack[Len(stack)].lop = worklist[1] /\ stack[Len(stack)].stage = 0
      /\ Len(stack) = 1 => Tail(stack) = << >> /\ top = stack[Len(stack)]
      /\ Len(stack) # 1 => Tail(stack) # << >> /\ Tail(stack)[Len(Tail(stack))] = stack[Len(stack)]
    BY <1>1, <1>3, TopFacts
<1>7. CallOk(top, T) /\ T \in Seq(Nat) /\ Len(T) = Len(stages) /\ Len(T) \in Nat
    BY <1>4, <1>6, LenProperties DEF IsTasks
<1>8. /\ n \in DOMAIN lops /\ lops[n].npartitions = T[top.stage + 1]
      /\ top.stage \in 0 .. Len(T) - 1 /\ top.reader \in 0 .. Len(T) - 1
      /\ IsRepartition(n) => lops[n].cpartitions = T[top.reader + 1]
    BY <1>1, <1>3, <1>7 DEF CallOk, TasksOf, IsRepartition
<1>9. Longer(T, T)
    BY <1>7 DEF Longer
<1>10. \A c \in ToSet(stack') : CallOk(c, T)'
    <2>1. SUFFICES ASSUME NEW c \in ToSet(Tail(stack)) PROVE CallOk(c, T)'
        BY <1>3
    <2>2. CallOk(c, T)
        BY <1>4, <1>6, <2>1 DEF IsTasks
    <2> QED
        BY <1>3, <1>9, <2>2, CallStays
<1>11. \A m \in DOMAIN pops' : PopOk(pops[m], m, T)'
    <2>1. SUFFICES ASSUME NEW m \in DOMAIN pops' PROVE PopOk(pops[m], m, T)'
        OBVIOUS
    <2>2. PICK p : p = pops'[m]
        OBVIOUS
    <2>3. CASE m = n
        <3>1. p = Pop(n, qun, top)
            BY <1>2, <2>1, <2>2, <2>3
        <3>2. p.stage = top.stage /\ p.reader = top.reader /\ p.npartitions = lops[n].npartitions
            BY <3>1, PopFields
        <3>3. PopOk(p, m, T)'
            BY <1>3, <1>8, <2>3, <3>2 DEF PopOk, IsRepartition
        <3> QED
            BY <2>2, <3>3
    <2>4. CASE m # n
        <3>1. m \in DOMAIN pops /\ p = pops[m]
            BY <1>2, <2>1, <2>2, <2>4
        <3>2. PopOk(p, m, T)
            BY <1>4, <3>1 DEF IsTasks
        <3>3. PopOk(p, m, T)'
            BY <1>3, <1>9, <3>2, PopStays
        <3> QED
            BY <2>2, <3>3
    <2> QED
        BY <2>3, <2>4
<1>12. ASSUME NEW i \in 0 .. Len(stages') - 1 PROVE stages'[i + 1].npartitions = T[i + 1] \/ Open(i)'
    <2>1. i \in 0 .. Len(stages) - 1
        BY <1>5
    <2>2. CASE i = top.stage /\ (IsRepartition(n) \/ Len(stack) = 1)
        BY <1>5, <1>8, <2>1, <2>2
    <2>3. CASE ~(i = top.stage /\ (IsRepartition(n) \/ Len(stack) = 1))
        <3>1. stages'[i + 1].npartitions = stages[i + 1].npartitions
            BY <1>5, <2>1, <2>3
        <3>2. Open(i) => Open(i)'
            <4>1. CASE i = 0 /\ stack # << >>
                BY <1>3, <1>6, <2>3, <4>1 DEF Open
            <4>2. ASSUME NEW c \in ToSet(stack), c.stage = i, c.entered, IsRepartition(c.lop) PROVE Open(i)'
                <5>1. c # top
                    BY <1>1, <2>3, <4>2
                <5> QED
                    BY <1>3, <1>6, <4>2, <5>1 DEF Open, IsRepartition
            <4> QED
                BY <4>1, <4>2 DEF Open
        <3> QED
            BY <1>4, <2>1, <3>1, <3>2 DEF IsTasks
    <2> QED
        BY <2>2, <2>3
<1>13. IsTasks(T)'
    BY <1>5, <1>7, <1>10, <1>11, <1>12 DEF IsTasks
<1>14. StackInv'
    <2>1. CASE Len(stack) = 1
        BY <1>3, <1>6, <2>1 DEF StackInv
    <2>2. CASE Len(stack) # 1
        BY <1>3, <1>6, <2>2 DEF StackInv
    <2> QED
        BY <2>1, <2>2
<1>15. stages' # << >>
    <2>1. Len(stages') # 0
        BY <1>5, <1>7, <1>8
    <2> QED
        BY <2>1, EmptySeq
<1> QED
    BY <1>3, <1>5, <1>6, <1>13, <1>14, <1>15 DEF CompileInv

LEMMA CompileNext == FormInv /\ PartInv /\ CompileInv /\ [Next]_vars => CompileInv'
<1> SUFFICES ASSUME FormInv, PartInv, CompileInv, [Next]_vars PROVE CompileInv'
    OBVIOUS
<1>1. CASE CompileFlow \/ CompileCall \/ CompileReturn \/ CompilePanics
    BY <1>1, FlowCompiles, CallCompiles, ReturnCompiles, PanicCompiles
<1>2. CASE \/ BuildScan \/ Join \/ NoJoin \/ JoinsDone \/ NoAggregation \/ AggregateOnce \/ AggregateTwice
           \/ AddRepartitioningKeys \/ PushdownJoinKeys
    <2>1. /\ UNCHANGED <<stack, stages, pops>> /\ pc \notin {"compile", "compiled", "panicked"}
          /\ pc' # "compiled"
        BY <1>2, Zenon DEF BuildScan, Join, NoJoin, JoinsDone, NoAggregation, AggregateOnce, AggregateTwice,
                    AddRepartitioningKeys, PushdownJoinKeys
    <2> QED
        BY <2>1, NothingCompiled, Zenon
<1>3. CASE UNCHANGED vars
    BY <1>3 DEF vars, CompileInv, StackInv, IsTasks, CallOk, PopOk, Open, IsRepartition
<1> QED
    BY <1>1, <1>2, <1>3 DEF Next, Terminated

\* With nothing left to compile, each stage has the tasks of its operators.
LEMMA Compiled == FormInv /\ CompileInv => StagesAgree
<1> SUFFICES ASSUME FormInv, CompileInv, pc = "compiled"
             PROVE  LET parent == [s \in 1 .. Len(stages) - 1 |-> stages[s + 1].parent]
                    IN
                    /\ StageGraphs!IsFlow([nstages |-> Len(stages), parent |-> parent,
                           npartitions |-> [s \in 0 .. Len(stages) - 1 |-> stages[s + 1].npartitions]])
                    /\ \A n \in DOMAIN pops :
                          /\ pops[n].npartitions = stages[pops[n].stage + 1].npartitions
                          /\ IsRepartition(n) => lops[n].cpartitions = stages[pops[n].reader + 1].npartitions
                    /\ \A s \in 0 .. Len(stages) - 1 :
                          stages[s + 1].nchildren = Cardinality({c \in DOMAIN parent : parent[c] = s})
    BY DEF StagesAgree
<1>1. IsTree(stages) /\ stack = << >> /\ stages # << >>
    BY DEF CompileInv
<1>2. PICK T : IsTasks(T)
    BY DEF CompileInv
<1>3. DOMAIN stages = 1 .. Len(stages) /\ Len(stages) \in Nat /\ \A i \in 1 .. Len(stages) : stages[i] \in StageRecords
    BY <1>1, StageFacts
<1>4. Len(stages) # 0
    BY <1>1, EmptySeq DEF IsTree
<1>5. \A s \in 0 .. Len(stages) - 1 : stages[s + 1].npartitions = T[s + 1]
    <2>1. ToSet(stack) = {}
        BY <1>1 DEF ToSet
    <2> QED
        BY <1>1, <1>2, <2>1 DEF IsTasks, Open
<1>6. PICK parent : parent = [s \in 1 .. Len(stages) - 1 |-> stages[s + 1].parent]
    OBVIOUS
<1>7. PICK tasks : tasks = [s \in 0 .. Len(stages) - 1 |-> stages[s + 1].npartitions]
    OBVIOUS
<1>8. StageGraphs!IsFlow([nstages |-> Len(stages), parent |-> parent, npartitions |-> tasks])
    <2>1. \A s \in 0 .. Len(stages) - 1 : s + 1 \in 1 .. Len(stages)
        BY <1>3
    <2>2. tasks \in [0 .. Len(stages) - 1 -> Nat]
        BY <1>3, <1>7, <2>1 DEF StageRecords
    <2>3. DOMAIN parent = 1 .. Len(stages) - 1 /\ \A s \in 1 .. Len(stages) - 1 : parent[s] \in 0 .. s - 1
        BY <1>1, <1>6 DEF IsTree
    <2> QED
        BY <1>3, <1>4, <2>2, <2>3 DEF StageGraphs!IsFlow
<1>9. ASSUME NEW n \in DOMAIN pops
      PROVE  /\ pops[n].npartitions = stages[pops[n].stage + 1].npartitions
             /\ IsRepartition(n) => lops[n].cpartitions = stages[pops[n].reader + 1].npartitions
    <2>1. PopOk(pops[n], n, T) /\ Len(T) = Len(stages)
        BY <1>2 DEF IsTasks
    <2> QED
        BY <1>5, <2>1 DEF PopOk
<1>10. ASSUME NEW s \in 0 .. Len(stages) - 1
       PROVE  stages[s + 1].nchildren = Cardinality({c \in DOMAIN parent : parent[c] = s})
    <2>1. {c \in DOMAIN parent : parent[c] = s} = ReadBy(stages, s)
        BY <1>6 DEF ReadBy
    <2> QED
        BY <1>1, <2>1 DEF IsTree
<1> QED
    BY <1>6, <1>7, <1>8, <1>9, <1>10

\* The operators that compile_lop makes of a plan run in stages with as many tasks as they
\* have partitions, the stages are a flow as the scheduler takes them, and each counts the
\* stages that it reads, which is what a stage waits for, whatever the query.
THEOREM StagesCorrect == Spec => []StagesAgree
<1>1. Init => FormInv /\ PartInv /\ CompileInv
    BY FormInit, PartInit, CompileInit
<1>2. FormInv /\ PartInv /\ CompileInv /\ [Next]_vars => FormInv' /\ PartInv' /\ CompileInv'
    BY FormNext, PartNext, CompileNext
<1>3. FormInv /\ CompileInv => StagesAgree
    BY Compiled
<1> QED
    BY <1>1, <1>2, <1>3, PTL DEF Spec

-----------------------------------------------------------------------------
(* The tables of the LOPs. *)

\* The tables that have been scanned.
Planned == IF pc = "scan" THEN 1 .. Len(worklist) ELSE Quns

\* The LOPs of the work list share out the tables, and a predicate that has been applied
\* is about the tables of one of them.
QunInv ==
    pc \in {"scan", "join"} =>
        /\ \A n \in ToSet(worklist) : lops[n].quns # {} /\ lops[n].quns \subseteq Planned
        /\ \A n, m \in ToSet(worklist) : n # m => lops[n].quns \intersect lops[m].quns = {}
        /\ \A q \in Planned : \E n \in ToSet(worklist) : q \in lops[n].quns
        /\ \A i \in DOMAIN query.preds \ pred_map :
              \E n \in ToSet(worklist) : PredQuns(i) \subseteq lops[n].quns
        /\ Planned \subseteq Quns

LEMMA QunInit == Init => QunInv
<1> SUFFICES ASSUME Init PROVE QunInv
    OBVIOUS
<1>1. worklist = << >> /\ pred_map = DOMAIN query.preds /\ pc = "scan" /\ Len(worklist) = 0
    BY DEF Init
<1>2. ToSet(worklist) = {} /\ Planned = {}
    BY <1>1 DEF ToSet, Planned
<1> QED
    BY <1>1, <1>2 DEF QunInv

LEMMA ScanQuns ==
    ASSUME FormInv, QunInv, BuildScan
    PROVE  QunInv'
<1>1. PICK q, N : q = Len(worklist) + 1 /\ N = Len(lops)
    OBVIOUS
<1>2. /\ pc = "scan" /\ q \in Quns /\ q \in Nat /\ pred_map' = pred_map \ Local
      /\ worklist' = Append(worklist, N + 1) /\ query' = query
      /\ pc' = IF q = Len(query.parts) THEN "join" ELSE "scan"
    BY <1>1, ScanEffect DEF FormInv
<1>3. PICK x \in LOPs : lops' = Append(lops, x) /\ x.quns = {q}
    BY <1>1, ScanEffect DEF FormInv
<1>4. /\ N \in Nat /\ N + 1 \notin DOMAIN lops /\ lops'[N + 1] = x
      /\ \A n \in DOMAIN lops : lops'[n] = lops[n]
    BY <1>1, <1>3, Appended DEF FormInv
<1>5. /\ ToSet(worklist') = ToSet(worklist) \union {N + 1} /\ Len(worklist') = q
      /\ Len(worklist) \in Nat
    BY <1>1, <1>2, <1>4, ListAppend, LenProperties DEF FormInv, TypeInv
<1>6. ToSet(worklist) \subseteq DOMAIN lops
    BY DEF FormInv, TypeInv
<1>7. Planned = 1 .. q - 1 /\ Quns = 1 .. Len(query.parts) /\ Len(query.parts) \in Nat /\ Quns' = Quns
    BY <1>1, <1>2, <1>5, QueryFacts DEF Planned, Quns, FormInv, TypeInv
<1>8. Planned' = Planned \union {q} /\ q \notin Planned /\ Planned \subseteq Quns
    <2>1. Planned' = 1 .. q
        <3>1. CASE q = Len(query.parts)
            BY <1>2, <1>7, <3>1 DEF Planned
        <3>2. CASE q # Len(query.parts)
            BY <1>2, <1>5, <3>2 DEF Planned
        <3> QED
            BY <3>1, <3>2
    <2>2. 1 .. q = (1 .. q - 1) \union {q} /\ q \notin 1 .. q - 1
        BY <1>2, <1>7
    <2> QED
        BY <1>2, <1>7, <2>1, <2>2 DEF QunInv
<1>9. \A i : PredQuns(i)' = PredQuns(i)
    BY <1>2 DEF PredQuns, PredCols, Pred
<1>10. \A n \in ToSet(worklist') : lops'[n].quns # {} /\ lops'[n].quns \subseteq Planned'
    BY <1>2, <1>3, <1>4, <1>5, <1>6, <1>8 DEF QunInv
<1>11. \A n, m \in ToSet(worklist') : n # m => lops'[n].quns \intersect lops'[m].quns = {}
    <2>1. \A n \in ToSet(worklist) : q \notin lops[n].quns /\ lops'[n].quns = lops[n].quns
        BY <1>2, <1>4, <1>6, <1>8 DEF QunInv
    <2>2. \A n, m \in ToSet(worklist) : n # m => lops[n].quns \intersect lops[m].quns = {}
        BY <1>2 DEF QunInv
    <2>3. lops'[N + 1].quns = {q}
        BY <1>3, <1>4
    <2> QED
        BY <1>5, <2>1, <2>2, <2>3
<1>12. \A p \in Planned' : \E n \in ToSet(worklist') : p \in lops'[n].quns
    BY <1>2, <1>3, <1>4, <1>5, <1>6, <1>8 DEF QunInv
<1>13. \A i \in DOMAIN query'.preds \ pred_map' :
          \E n \in ToSet(worklist') : PredQuns(i)' \subseteq lops'[n].quns
    <2>1. SUFFICES ASSUME NEW i \in DOMAIN query.preds \ pred_map'
                   PROVE  \E n \in ToSet(worklist') : PredQuns(i) \subseteq lops'[n].quns
        BY <1>2, <1>9
    <2>2. CASE i \in Local
        BY <1>1, <1>3, <1>4, <1>5, <2>2 DEF Local
    <2>3. CASE i \notin Local
        BY <1>2, <1>4, <1>5, <1>6, <2>1, <2>3 DEF QunInv
    <2> QED
        BY <2>2, <2>3
<1> QED
    BY <1>2, <1>7, <1>8, <1>10, <1>11, <1>12, <1>13 DEF QunInv

LEMMA JoinQunsStay ==
    ASSUME FormInv, QunInv, Join
    PROVE  QunInv'
<1>1. PICK l, r, newl, newr, legs, equi, keys, join : Joins(l, r, newl, newr, legs, equi, keys, join)
    BY JoinEffect DEF FormInv
<1>2. PICK N : N = Len(legs)
    OBVIOUS
<1>3. /\ \A n \in DOMAIN lops : lops'[n] = lops[n]
      /\ lops'[N + 1] = join
    BY <1>1, <1>2, JoinCases DEF FormInv
<1>4. ToSet(worklist') = (ToSet(worklist) \ {l, r}) \union {N + 1}
    BY <1>1, <1>2, JoinWork DEF FormInv
<1>5. /\ pc' = pc /\ pc = "join" /\ query' = query /\ pred_map' = pred_map \ JoinPreds(l, r)
      /\ l \in ToSet(worklist) /\ r \in ToSet(worklist) /\ l # r
    BY <1>1 DEF Joins
<1>6. join.quns = lops[l].quns \union lops[r].quns
    BY <1>1, JoinFields DEF JoinQuns
<1>7. ToSet(worklist) \subseteq DOMAIN lops
    BY DEF FormInv, TypeInv
<1>8. Planned' = Planned /\ Quns' = Quns
    BY <1>5 DEF Planned, Quns
<1>9. \A i : PredQuns(i)' = PredQuns(i)
    BY <1>5 DEF PredQuns, PredCols, Pred
<1>10. \A n \in ToSet(worklist') : lops'[n].quns # {} /\ lops'[n].quns \subseteq Planned'
    BY <1>3, <1>4, <1>5, <1>6, <1>7, <1>8 DEF QunInv
<1>11. \A n, m \in ToSet(worklist') : n # m => lops'[n].quns \intersect lops'[m].quns = {}
    <2>1. \A n \in ToSet(worklist) \ {l, r} : lops'[n].quns = lops[n].quns /\ lops[n].quns \intersect join.quns = {}
        BY <1>3, <1>5, <1>6, <1>7 DEF QunInv
    <2>2. \A n, m \in ToSet(worklist) : n # m => lops[n].quns \intersect lops[m].quns = {}
        BY <1>5 DEF QunInv
    <2> QED
        BY <1>3, <1>4, <2>1, <2>2
<1>12. \A q \in Planned' : \E n \in ToSet(worklist') : q \in lops'[n].quns
    <2>1. SUFFICES ASSUME NEW q \in Planned PROVE \E n \in ToSet(worklist') : q \in lops'[n].quns
        BY <1>8
    <2>2. PICK n \in ToSet(worklist) : q \in lops[n].quns
        BY <1>5, <2>1 DEF QunInv
    <2> QED
        BY <1>3, <1>4, <1>6, <1>7, <2>2
<1>13. \A i \in DOMAIN query'.preds \ pred_map' :
          \E n \in ToSet(worklist') : PredQuns(i)' \subseteq lops'[n].quns
    <2>1. SUFFICES ASSUME NEW i \in DOMAIN query.preds \ pred_map'
                   PROVE  \E n \in ToSet(worklist') : PredQuns(i) \subseteq lops'[n].quns
        BY <1>5, <1>9
    <2>2. CASE i \in JoinPreds(l, r)
        BY <1>3, <1>4, <1>6, <2>2 DEF JoinPreds, JoinQuns
    <2>3. CASE i \notin JoinPreds(l, r)
        <3>1. PICK n \in ToSet(worklist) : PredQuns(i) \subseteq lops[n].quns
            BY <1>5, <2>1, <2>3 DEF QunInv
        <3> QED
            BY <1>3, <1>4, <1>6, <1>7, <3>1
    <2> QED
        BY <2>2, <2>3
<1> QED
    BY <1>5, <1>8, <1>10, <1>11, <1>12, <1>13 DEF QunInv

LEMMA QunNext == FormInv /\ QunInv /\ [Next]_vars => QunInv'
<1> SUFFICES ASSUME FormInv, QunInv, [Next]_vars PROVE QunInv'
    OBVIOUS
<1>1. CASE BuildScan
    BY <1>1, ScanQuns
<1>2. CASE Join
    BY <1>2, JoinQunsStay
<1>3. CASE \/ NoJoin \/ JoinsDone \/ NoAggregation \/ AggregateOnce \/ AggregateTwice
           \/ AddRepartitioningKeys \/ PushdownJoinKeys \/ CompileFlow \/ CompileCall \/ CompileReturn
           \/ CompilePanics
    <2>1. pc' \notin {"scan", "join"}
        BY <1>3, Zenon DEF NoJoin, JoinsDone, NoAggregation, AggregateOnce, AggregateTwice, AddRepartitioningKeys,
                    PushdownJoinKeys, CompileFlow, CompileCall, CompileReturn, CompilePanics
    <2> QED
        BY <2>1, Zenon DEF QunInv
<1>4. CASE UNCHANGED vars
    BY <1>4 DEF vars, QunInv, Planned, Quns, PredQuns, PredCols, Pred
<1> QED
    BY <1>1, <1>2, <1>3, <1>4 DEF Next, Terminated

\* Where no pair of the work list joins, no order of joins brings all tables together: the
\* sets of tables of one LOP are a family that JoinFamilies speaks of.
LEMMA NothingJoins ==
    ASSUME FormInv, QunInv, pc = "join", Len(worklist) > 1, Joinable = {}
    PROVE  Quns \notin JoinTrees
<1>1. PICK F : F = {A \in SUBSET Quns : \E n \in ToSet(worklist) : A \subseteq lops[n].quns}
    OBVIOUS
<1>2. Planned = Quns
    BY DEF Planned
<1>3. \A q \in Quns : {q} \in F
    BY <1>1, <1>2 DEF QunInv
<1>4. ASSUME NEW A \in F, NEW B \in F, A \intersect B = {},
             NEW i \in DOMAIN query.preds, HasEqJoinDesc(i),
             QunsOf(Pred(i).lhs) \subseteq A, QunsOf(Pred(i).rhs) \subseteq B
      PROVE  A \union B \in F
    <2>1. PICK n \in ToSet(worklist) : A \subseteq lops[n].quns
        BY <1>1
    <2>2. PICK m \in ToSet(worklist) : B \subseteq lops[m].quns
        BY <1>1
    <2>3. CASE n = m
        BY <1>1, <2>1, <2>2, <2>3
    <2>4. ASSUME n # m PROVE FALSE
        <3>1. PredQuns(i) = QunsOf(Pred(i).lhs) \union QunsOf(Pred(i).rhs)
            BY DEF PredQuns, PredCols, QunsOf
        <3>2. Aligned(i, n, m)
            BY <1>4, <2>1, <2>2 DEF Aligned
        <3>3. i \in pred_map
            <4>1. ASSUME NEW k \in ToSet(worklist), PredQuns(i) \subseteq lops[k].quns PROVE FALSE
                <5>1. lops[k].quns \intersect lops[n].quns # {} /\ lops[k].quns \intersect lops[m].quns # {}
                    BY <3>1, <3>2, <4>1, <1>4 DEF Aligned, HasEqJoinDesc
                <5> QED
                    BY <2>4, <5>1 DEF QunInv
            <4> QED
                BY <4>1 DEF QunInv
        <3>4. i \in EquiJoinPreds(n, m)
            BY <1>4, <3>1, <3>2, <3>3 DEF EquiJoinPreds, JoinPreds, JoinQuns, Aligned
        <3>5. PICK a \in DOMAIN worklist, b \in DOMAIN worklist : worklist[a] = n /\ worklist[b] = m
            BY DEF ToSet
        <3>6. <<a, b>> \in Joinable
            BY <2>4, <3>4, <3>5 DEF Joinable
        <3> QED
            BY <3>6
    <2> QED
        BY <2>3, <2>4
<1>5. F \in JoinFamilies
    BY <1>1, <1>3, <1>4 DEF JoinFamilies
<1>6. Quns \notin F
    <2>1. SUFFICES ASSUME NEW n \in ToSet(worklist), Quns \subseteq lops[n].quns PROVE FALSE
        BY <1>1
    <2>2. 1 \in DOMAIN worklist /\ 2 \in DOMAIN worklist
        BY LenProperties DEF FormInv, TypeInv
    <2>3. worklist[1] # worklist[2] /\ worklist[1] \in ToSet(worklist) /\ worklist[2] \in ToSet(worklist)
        BY <2>2 DEF FormInv, Forest, IsInjective, ToSet
    <2>4. PICK m \in ToSet(worklist) : m # n
        BY <2>3
    <2> QED
        BY <1>2, <2>1, <2>4 DEF QunInv
<1> QED
    BY <1>5, <1>6 DEF JoinTrees

\* The enumeration of joins panics only on a query that no order of joins by equality can
\* answer, although it takes the first pair that joins and never another one, whatever the
\* tables and the predicates.
THEOREM GreedyCorrect == Spec => []GreedyFindsAPlan
<1> DEFINE Inv == FormInv /\ QunInv /\ GreedyFindsAPlan
<1>1. Init => Inv
    BY FormInit, QunInit DEF Init, GreedyFindsAPlan
<1>2. ASSUME Inv, [Next]_vars PROVE Inv'
    <2>1. FormInv' /\ QunInv'
        BY <1>2, FormNext, QunNext
    <2>2. GreedyFindsAPlan'
        <3>1. CASE NoJoin
            <4>1. Quns \notin JoinTrees
                BY <1>2, <3>1, NothingJoins DEF NoJoin
            <4>2. query' = query
                BY <3>1 DEF NoJoin
            <4>3. Quns' = Quns /\ JoinTrees' = JoinTrees
                BY <4>2 DEF Quns, JoinTrees, JoinFamilies, HasEqJoinDesc, Pred, QunsOf
            <4> QED
                BY <4>1, <4>3 DEF GreedyFindsAPlan
        <3>2. CASE CompilePanics
            <4>1. Len(worklist) = 1 /\ worklist' = worklist
                BY <1>2, <3>2 DEF CompilePanics, FormInv, Shape
            <4>2. ~(Len(worklist') > 1)
                <5>1. PICK k : k = Len(worklist')
                    BY Zenon
                <5>2. k = 1
                    BY <4>1, <5>1
                <5> QED
                    BY <5>1, <5>2
            <4> QED
                BY <4>2 DEF GreedyFindsAPlan
        <3>3. CASE \/ BuildScan \/ Join \/ JoinsDone \/ NoAggregation \/ AggregateOnce \/ AggregateTwice
                   \/ AddRepartitioningKeys \/ PushdownJoinKeys \/ CompileFlow \/ CompileCall \/ CompileReturn
            <4>1. pc' # "panicked"
                BY <3>3, Zenon DEF BuildScan, Join, JoinsDone, NoAggregation, AggregateOnce, AggregateTwice,
                            AddRepartitioningKeys, PushdownJoinKeys, CompileFlow, CompileCall, CompileReturn
            <4> QED
                BY <4>1 DEF GreedyFindsAPlan
        <3>4. CASE UNCHANGED vars
            <4>1. Quns' = Quns /\ JoinTrees' = JoinTrees
                BY <3>4 DEF vars, Quns, JoinTrees, JoinFamilies, HasEqJoinDesc, Pred, QunsOf
            <4> QED
                BY <1>2, <3>4, <4>1 DEF vars, GreedyFindsAPlan
        <3> QED
            BY <1>2, <3>1, <3>2, <3>3, <3>4 DEF Next, Terminated
    <2> QED
        BY <2>1, <2>2
<1>3. Inv => GreedyFindsAPlan
    OBVIOUS
<1> HIDE DEF Inv
<1> QED
    BY <1>1, <1>2, <1>3, PTL DEF Spec

-----------------------------------------------------------------------------
(* The columns of the LOPs. *)

\* Column c reaches LOP x of plan g.
Reaches(g, x, c) ==
    IF x.lop = "TableScan"
    THEN c \in SelectCols \union PredsCols(DOMAIN query.preds) /\ c[1] \in x.quns
    ELSE \E k \in DOMAIN x.children : c \in g[x.children[k]].cols

KeyReaches(g, x, e) == IsExpression(e) => \A c \in ExprOf(e).cols : Reaches(g, x, c)
KeyKept(x, e) == IsExpression(e) => \A c \in ExprOf(e).cols : c \in x.cols

\* Virtual columns v can be computed where LOP x is.
VirtServed(g, x, v) ==
    \A e \in ToSet(v) : IF x.lop = "Aggregation" THEN ~IsExpression(e) ELSE KeyReaches(g, x, e)

LegServed(leg, keys) ==
    /\ leg.lop # "Aggregation"
    /\ \A e \in ToSet(keys) : IsExpression(e) /\ KeyKept(leg, e)
    /\ leg.lop = "Repartition" => leg.partkeys = keys

\* What LOP x of plan g refers to reaches it.
Served(g, x) ==
    /\ x.lop = "TableScan" => \E q \in Quns : x.quns = {q}
    /\ x.lop = "Aggregation" => x.cols = {}
    /\ VirtServed(g, x, x.virtcols)
    /\ x.lop # "Aggregation" =>
          /\ \A c \in x.cols : Reaches(g, x, c)
          /\ \A i \in x.preds : i \in DOMAIN query.preds /\ \A c \in PredCols(i) : Reaches(g, x, c)
    /\ x.lop = "Repartition" =>
          \A e \in ToSet(x.partkeys) :
             KeyKept(x, e) /\ (g[x.children[1]].lop = "Aggregation" => ~IsExpression(e))
    /\ x.lop = "HashJoin" => \A k \in 1 .. 2 : LegServed(g[x.children[k]], x.join_keys[k])

AllServed == \A n \in DOMAIN lops : Served(lops, lops[n])

\* What is still referred to has not been dropped.
ColsKept ==
    pc \in {"scan", "join"} =>
        \A n \in ToSet(worklist) : \A c \in FlowCols(pred_map) : c[1] \in lops[n].quns => c \in lops[n].cols

\* A leg of a join computes the keys that are no columns.
LegComputes(leg, keys) == \A e \in ToSet(keys) : ~IsColumn(e) => e \in ToSet(leg.virtcols)

LegReady(leg, keys) ==
    /\ pc \in {"scan", "join", "agg", "repartition_keys"} => leg.virtcols = << >>
    /\ pc = "join_keys" => leg.virtcols = << >> \/ LegComputes(leg, keys)
    /\ pc \in {"compile", "compiled"} => LegComputes(leg, keys)

LegsReady ==
    /\ pc \in {"scan", "join"} => \A n \in DOMAIN lops : lops[n].virtcols = << >>
    /\ \A m \in DOMAIN lops : lops[m].lop = "HashJoin" =>
          \A k \in 1 .. 2 : LegReady(lops[lops[m].children[k]], lops[m].join_keys[k])

FlowInv == AllServed /\ ColsKept /\ LegsReady

LEMMA SameQuery ==
    ASSUME UNCHANGED query, NEW g, NEW x, Served(g, x)
    PROVE  Served(g, x)'
<1>1. ASSUME NEW c, Reaches(g, x, c) PROVE Reaches(g, x, c)'
    BY <1>1 DEF Reaches, SelectCols, PredsCols, PredCols, Pred
<1>2. \A i : PredCols(i)' = PredCols(i)
    BY DEF PredCols, Pred
<1>3. \A e : ExprOf(e)' = ExprOf(e)
    BY DEF ExprOf, Pred
<1>4. ASSUME NEW e, KeyReaches(g, x, e) PROVE KeyReaches(g, x, e)'
    BY <1>1, <1>3, <1>4 DEF KeyReaches
<1>5. \A y, e : KeyKept(y, e) => KeyKept(y, e)'
    BY <1>3 DEF KeyKept
<1>6. VirtServed(g, x, x.virtcols)'
    BY <1>4 DEF Served, VirtServed
<1>7. x.lop = "HashJoin" => \A k \in 1 .. 2 : LegServed(g[x.children[k]], x.join_keys[k])'
    BY <1>5 DEF Served, LegServed
<1>8. x.lop # "Aggregation" =>
          /\ \A c \in x.cols : Reaches(g, x, c)'
          /\ \A i \in x.preds : i \in DOMAIN query'.preds /\ \A c \in PredCols(i)' : Reaches(g, x, c)'
    BY <1>1, <1>2 DEF Served
<1>9. x.lop = "Repartition" =>
          \A e \in ToSet(x.partkeys) :
             KeyKept(x, e)' /\ (g[x.children[1]].lop = "Aggregation" => ~IsExpression(e))
    BY <1>5 DEF Served
<1>10. x.lop = "TableScan" => \E q \in Quns' : x.quns = {q}
    BY DEF Served, Quns
<1>11. x.lop = "Aggregation" => x.cols = {}
    BY DEF Served
<1> QED
    BY <1>6, <1>7, <1>8, <1>9, <1>10, <1>11 DEF Served

\* LOP y of plan h refers to no more than LOP x of plan g, and they have the same inputs.
SameInputs(g, h, x) ==
    \A k \in DOMAIN x.children :
        LET a == g[x.children[k]]
            b == h[x.children[k]]
        IN  b.cols = a.cols /\ b.lop = a.lop /\ b.partkeys = a.partkeys

SameLop(x, y) ==
    /\ y.lop = x.lop /\ y.quns = x.quns /\ y.children = x.children /\ y.preds = x.preds
    /\ y.partkeys = x.partkeys /\ y.join_keys = x.join_keys
    /\ y.cols = x.cols \/ (y.cols = {} /\ x.lop # "Repartition")

LEMMA ServedStays ==
    ASSUME NEW g, NEW h, NEW x, NEW y, Served(g, x), SameInputs(g, h, x), SameLop(x, y),
           VirtServed(g, x, y.virtcols), Len(x.children) = Arity(x.lop), x \in LOPs
    PROVE  Served(h, y)
<1>1. /\ x.lop = "Repartition" => 1 \in DOMAIN x.children
      /\ x.lop = "HashJoin" => \A k \in 1 .. 2 : k \in DOMAIN x.children
    BY LenProperties DEF Arity, LOPs
<1>2. \A c : Reaches(g, x, c) => Reaches(h, y, c)
    BY DEF Reaches, SameInputs, SameLop
<1>3. \A e : KeyReaches(g, x, e) => KeyReaches(h, y, e)
    BY <1>2 DEF KeyReaches
<1>4. VirtServed(h, y, y.virtcols)
    BY <1>3 DEF VirtServed, SameLop
<1>5. x.lop = "HashJoin" => \A k \in 1 .. 2 : LegServed(h[y.children[k]], y.join_keys[k])
    <2>1. SUFFICES ASSUME x.lop = "HashJoin", NEW k \in 1 .. 2
                   PROVE  LegServed(h[y.children[k]], y.join_keys[k])
        OBVIOUS
    <2>2. PICK a, b, keys : a = g[x.children[k]] /\ b = h[x.children[k]] /\ keys = x.join_keys[k]
        OBVIOUS
    <2>3. b.cols = a.cols /\ b.lop = a.lop /\ b.partkeys = a.partkeys
        BY <1>1, <2>1, <2>2 DEF SameInputs
    <2>4. LegServed(a, keys)
        BY <2>1, <2>2 DEF Served
    <2>5. LegServed(b, keys)
        BY <2>3, <2>4 DEF LegServed, KeyKept
    <2> QED
        BY <2>2, <2>5 DEF SameLop
<1>6. x.lop # "Aggregation" =>
          /\ \A c \in y.cols : Reaches(h, y, c)
          /\ \A i \in y.preds : i \in DOMAIN query.preds /\ \A c \in PredCols(i) : Reaches(h, y, c)
    BY <1>2 DEF Served, SameLop
<1>7. x.lop = "Repartition" =>
          \A e \in ToSet(y.partkeys) :
             KeyKept(y, e) /\ (h[y.children[1]].lop = "Aggregation" => ~IsExpression(e))
    BY <1>1 DEF Served, SameLop, KeyKept, SameInputs
<1> QED
    BY <1>4, <1>5, <1>6, <1>7 DEF Served, SameLop

LEMMA FlowInit == Init => FlowInv
<1> SUFFICES ASSUME Init PROVE FlowInv
    OBVIOUS
<1>1. DOMAIN lops = {} /\ ToSet(worklist) = {}
    BY DEF Init, ToSet
<1> QED
    BY <1>1 DEF FlowInv, AllServed, ColsKept, LegsReady

LEMMA OldServed ==
    ASSUME FormInv, AllServed, UNCHANGED query, \A n \in DOMAIN lops : lops'[n] = lops[n]
    PROVE  \A n \in DOMAIN lops : Served(lops, lops[n])'
<1>1. SUFFICES ASSUME NEW n \in DOMAIN lops PROVE Served(lops, lops[n])'
    OBVIOUS
<1>2. PICK g, h, x : g = lops /\ h = lops' /\ x = lops[n]
    OBVIOUS
<1>3. Served(g, x) /\ x \in LOPs /\ Len(x.children) = Arity(x.lop)
    BY <1>2, LopIn DEF AllServed, FormInv, Shape
<1>4. SameInputs(g, h, x)
    <2>1. \A k \in DOMAIN x.children : x.children[k] \in DOMAIN lops
        BY <1>2, ChildFacts DEF FormInv
    <2>2. \A k \in DOMAIN x.children : h[x.children[k]] = g[x.children[k]]
        BY <1>2, <2>1
    <2> QED
        BY <2>2 DEF SameInputs
<1>5. SameLop(x, x) /\ VirtServed(g, x, x.virtcols)
    BY <1>3 DEF SameLop, Served
<1>6. Served(h, x)
    BY <1>3, <1>4, <1>5, ServedStays
<1>7. Served(h, x)'
    BY <1>6, SameQuery
<1> QED
    BY <1>2, <1>7

\* There are fewer columns to keep with fewer predicates left.
LEMMA FlowColsShrink ==
    ASSUME UNCHANGED query, pred_map' \subseteq pred_map
    PROVE  \A c : c \in FlowCols(pred_map)' => c \in FlowCols(pred_map)
BY DEF FlowCols, SelectCols, PredsCols, PredCols, Pred

\* A join has two legs, which are LOPs of the plan.
LEMMA LegPlace ==
    ASSUME FormInv, NEW m \in DOMAIN lops, lops[m].lop = "HashJoin", NEW k \in 1 .. 2
    PROVE  k \in DOMAIN lops[m].children /\ lops[m].children[k] \in DOMAIN lops
<1>1. PICK x : x = lops[m]
    OBVIOUS
<1>2. x \in LOPs /\ Len(x.children) = 2
    BY <1>1, LopIn DEF FormInv, Shape, Arity
<1>3. DOMAIN x.children = 1 .. 2
    BY <1>2, LenProperties DEF LOPs
<1> QED
    BY <1>1, <1>3, ChildFacts DEF FormInv

LEMMA ScanFlow ==
    ASSUME FormInv, FlowInv, BuildScan
    PROVE  FlowInv'
<1>1. PICK q, N : q = Len(worklist) + 1 /\ N = Len(lops)
    OBVIOUS
<1>2. /\ pc = "scan" /\ q \in Quns /\ pred_map' = pred_map \ Local
      /\ worklist' = Append(worklist, N + 1) /\ query' = query
      /\ pc' \in {"scan", "join"}
    BY <1>1, ScanEffect DEF FormInv
<1>3. PICK x \in LOPs :
          /\ lops' = Append(lops, x)
          /\ x.lop = "TableScan" /\ x.quns = {q} /\ x.children = << >>
          /\ x.cols = {c \in FlowCols(Unbound) : c[1] = q}
          /\ x.virtcols = << >> /\ x.preds = Local /\ x.partkeys = << >> /\ x.join_keys = << >>
    BY <1>1, ScanEffect DEF FormInv
<1>4. /\ N \in Nat /\ N + 1 \notin DOMAIN lops /\ lops'[N + 1] = x
      /\ \A n \in DOMAIN lops : lops'[n] = lops[n]
      /\ \A n \in DOMAIN lops' : n \in DOMAIN lops \/ n = N + 1
    BY <1>1, <1>3, Appended DEF FormInv
<1>5. ToSet(worklist') = ToSet(worklist) \union {N + 1}
    BY <1>2, <1>4, ListAppend DEF FormInv, TypeInv
<1>6. /\ ToSet(worklist) \subseteq DOMAIN lops /\ pred_map \subseteq DOMAIN query.preds
    BY DEF FormInv, TypeInv
<1>7. Local \subseteq pred_map /\ Unbound \subseteq pred_map
    BY DEF Local, Unbound
<1>8. PICK h : h = lops'
    OBVIOUS
<1>9. \A c \in x.cols : Reaches(h, x, c)
    <2>1. \A c : c \in FlowCols(Unbound) => c \in SelectCols \union PredsCols(DOMAIN query.preds)
        BY <1>6, <1>7 DEF FlowCols, PredsCols
    <2> QED
        BY <1>3, <2>1 DEF Reaches
<1>10. \A i \in x.preds : i \in DOMAIN query.preds /\ \A c \in PredCols(i) : Reaches(h, x, c)
    <2>1. SUFFICES ASSUME NEW i \in Local PROVE i \in DOMAIN query.preds /\ \A c \in PredCols(i) : Reaches(h, x, c)
        BY <1>3
    <2>2. i \in DOMAIN query.preds /\ PredQuns(i) = {q}
        BY <1>1, <1>6, <1>7 DEF Local
    <2>3. \A c \in PredCols(i) : c[1] = q /\ c \in PredsCols(DOMAIN query.preds)
        BY <2>2 DEF PredQuns, PredsCols
    <2> QED
        BY <1>3, <2>2, <2>3 DEF Reaches
<1>11. Served(h, x)
    BY <1>2, <1>3, <1>9, <1>10 DEF Served, VirtServed, ToSet
<1>12. AllServed'
    <2>1. \A n \in DOMAIN lops : Served(lops, lops[n])'
        BY <1>2, <1>4, OldServed DEF FlowInv
    <2>2. Served(h, x)'
        BY <1>2, <1>11, SameQuery
    <2> QED
        BY <1>4, <1>8, <2>1, <2>2 DEF AllServed
<1>13. ColsKept'
    <2>1. SUFFICES ASSUME NEW n \in ToSet(worklist'), NEW c \in FlowCols(pred_map)', c[1] \in lops'[n].quns
                   PROVE  c \in lops'[n].cols
        BY DEF ColsKept
    <2>2. c \in FlowCols(pred_map)
        BY <1>2, <2>1, FlowColsShrink
    <2>3. CASE n \in ToSet(worklist)
        BY <1>2, <1>4, <1>6, <2>1, <2>2, <2>3 DEF FlowInv, ColsKept
    <2>4. CASE n = N + 1
        <3>1. c[1] = q
            BY <1>3, <1>4, <2>1, <2>4
        <3>2. c \in SelectCols \/ \E i \in pred_map \ Local : c \in PredCols(i)
            BY <1>2, <2>1 DEF FlowCols, SelectCols, PredsCols, PredCols, Pred
        <3>3. ASSUME NEW i \in pred_map \ Local, c \in PredCols(i) PROVE i \in Unbound
            BY <1>1, <3>1, <3>3 DEF Unbound, PredQuns
        <3>4. c \in FlowCols(Unbound)
            BY <3>2, <3>3 DEF FlowCols, PredsCols
        <3> QED
            BY <1>3, <1>4, <2>4, <3>1, <3>4
    <2> QED
        BY <1>5, <2>1, <2>3, <2>4
<1>14. LegsReady'
    <2>1. \A n \in DOMAIN lops' : lops'[n].virtcols = << >>
        BY <1>2, <1>3, <1>4 DEF FlowInv, LegsReady
    <2>2. ASSUME NEW m \in DOMAIN lops', lops'[m].lop = "HashJoin", NEW k \in 1 .. 2
          PROVE  LegReady(lops[lops[m].children[k]], lops[m].join_keys[k])'
        <3>1. m \in DOMAIN lops /\ lops'[m] = lops[m]
            BY <1>3, <1>4, <2>2
        <3>2. lops[m].children[k] \in DOMAIN lops
            BY <2>2, <3>1, LegPlace
        <3>3. lops'[lops'[m].children[k]].virtcols = << >>
            BY <1>2, <1>4, <3>1, <3>2 DEF FlowInv, LegsReady
        <3> QED
            BY <1>2, <3>3 DEF LegReady
    <2> QED
        BY <2>1, <2>2 DEF LegsReady
<1> QED
    BY <1>12, <1>13, <1>14 DEF FlowInv

LEMMA SideFacts ==
    ASSUME NEW i
    PROVE  /\ IsExpression(Lhs(i)) /\ ExprOf(Lhs(i)) = Pred(i).lhs
           /\ IsExpression(Rhs(i)) /\ ExprOf(Rhs(i)) = Pred(i).rhs
BY DEF Lhs, Rhs, IsExpression, ExprOf

\* The side of an equality that is about the tables of LOP n is a key that n can give.
LEMMA KeyOfLeg ==
    ASSUME ColsKept, pc = "join", NEW n \in ToSet(worklist), NEW i \in pred_map,
           NEW e \in {Lhs(i), Rhs(i)}, QunsOf(ExprOf(e)) \subseteq lops[n].quns
    PROVE  IsExpression(e) /\ KeyKept(lops[n], e)
<1>1. IsExpression(e)
    BY SideFacts
<1>2. ASSUME NEW c \in ExprOf(e).cols PROVE c \in lops[n].cols
    <2>1. c \in PredCols(i)
        BY <1>2, SideFacts DEF PredCols
    <2>2. c \in FlowCols(pred_map)
        BY <2>1 DEF FlowCols, PredsCols
    <2>3. c[1] \in lops[n].quns
        BY <1>2 DEF QunsOf
    <2> QED
        BY <2>2, <2>3 DEF ColsKept
<1> QED
    BY <1>1, <1>2 DEF KeyKept

LEMMA KeysOfLegs ==
    ASSUME FormInv, FlowInv, pc = "join", NEW l \in ToSet(worklist), NEW r \in ToSet(worklist),
           NEW keys, keys = JoinKeys(EquiJoinPreds(l, r), l, r)
    PROVE  /\ \A e \in ToSet(keys[1]) : IsExpression(e) /\ KeyKept(lops[l], e)
           /\ \A e \in ToSet(keys[2]) : IsExpression(e) /\ KeyKept(lops[r], e)
<1>1. PICK S : S = EquiJoinPreds(l, r)
    OBVIOUS
<1>2. AreJoinKeys(keys, S, l, r)
    <2>1. query \in Queries /\ S \in SUBSET DOMAIN query.preds
        BY <1>1, EquiFacts DEF FormInv, TypeInv
    <2> QED
        BY <1>1, <2>1, JoinKeysFacts
<1>3. ASSUME NEW i \in S PROVE i \in pred_map /\ (Aligned(i, l, r) \/ Aligned(i, r, l))
    BY <1>1 DEF EquiJoinPreds, JoinPreds
<1>4. ASSUME NEW i \in S, Aligned(i, l, r)
      PROVE  /\ IsExpression(Lhs(i)) /\ KeyKept(lops[l], Lhs(i))
             /\ IsExpression(Rhs(i)) /\ KeyKept(lops[r], Rhs(i))
    <2>1. QunsOf(ExprOf(Lhs(i))) \subseteq lops[l].quns /\ QunsOf(ExprOf(Rhs(i))) \subseteq lops[r].quns
        BY <1>4, SideFacts DEF Aligned
    <2>2. i \in pred_map
        BY <1>3
    <2> QED
        BY <2>1, <2>2, KeyOfLeg DEF FlowInv
<1>5. ASSUME NEW i \in S, ~Aligned(i, l, r)
      PROVE  /\ IsExpression(Rhs(i)) /\ KeyKept(lops[l], Rhs(i))
             /\ IsExpression(Lhs(i)) /\ KeyKept(lops[r], Lhs(i))
    <2>1. i \in pred_map /\ Aligned(i, r, l)
        BY <1>3, <1>5
    <2>2. QunsOf(ExprOf(Lhs(i))) \subseteq lops[r].quns /\ QunsOf(ExprOf(Rhs(i))) \subseteq lops[l].quns
        BY <2>1, SideFacts DEF Aligned
    <2> QED
        BY <2>1, <2>2, KeyOfLeg DEF FlowInv
<1>6. ASSUME NEW e \in ToSet(keys[1]) PROVE IsExpression(e) /\ KeyKept(lops[l], e)
    <2>1. PICK i \in S : e = IF Aligned(i, l, r) THEN Lhs(i) ELSE Rhs(i)
        BY <1>2 DEF AreJoinKeys
    <2> QED
        BY <1>4, <1>5, <2>1
<1>7. ASSUME NEW e \in ToSet(keys[2]) PROVE IsExpression(e) /\ KeyKept(lops[r], e)
    <2>1. PICK i \in S : e = IF Aligned(i, l, r) THEN Rhs(i) ELSE Lhs(i)
        BY <1>2 DEF AreJoinKeys
    <2> QED
        BY <1>4, <1>5, <2>1
<1> QED
    BY <1>6, <1>7

\* A new leg of a join is served.
LEMMA RepartitionServed ==
    ASSUME FormInv, FlowInv, pc = "join", NEW n \in ToSet(worklist), NEW keys,
           \A e \in ToSet(keys) : IsExpression(e) /\ KeyKept(lops[n], e),
           NEW x, x = Repartition(n, keys), NEW h, h[n] = lops[n]
    PROVE  Served(h, x) /\ LegServed(x, keys) /\ x.cols = lops[n].cols /\ x.virtcols = << >>
<1>1. /\ x.lop = "Repartition" /\ x.children = <<n>> /\ x.cols = lops[n].cols
      /\ x.virtcols = << >> /\ x.preds = {} /\ x.partkeys = keys
    BY RepartitionFields
<1>2. \A c \in x.cols : Reaches(h, x, c)
    <2>1. 1 \in DOMAIN x.children /\ x.children[1] = n
        BY <1>1
    <2> QED
        BY <1>1, <2>1 DEF Reaches
<1>3. \A e \in ToSet(keys) : IsExpression(e) /\ KeyKept(x, e)
    BY <1>1 DEF KeyKept
<1>4. VirtServed(h, x, x.virtcols)
    BY <1>1 DEF VirtServed, ToSet
<1>5. h[x.children[1]].lop # "Aggregation"
    <2>1. x.children[1] = n /\ n \in DOMAIN lops
        BY <1>1 DEF FormInv, TypeInv
    <2> QED
        BY <2>1 DEF FormInv, Shape
<1> QED
    BY <1>1, <1>2, <1>3, <1>4, <1>5 DEF Served, LegServed

LEMMA JoinFlow ==
    ASSUME FormInv, FlowInv, Join
    PROVE  FlowInv'
<1>1. PICK l, r, newl, newr, legs, equi, keys, join : Joins(l, r, newl, newr, legs, equi, keys, join)
    BY JoinEffect DEF FormInv
<1>2. PICK N, h : N = Len(legs) /\ h = lops'
    OBVIOUS
<1>3. /\ l \in DOMAIN lops /\ r \in DOMAIN lops
      /\ \A n \in DOMAIN lops : h[n] = lops[n]
      /\ h[N + 1] = join
      /\ newl = l \/ (newl \notin DOMAIN lops /\ h[newl] = Repartition(l, keys[1]))
      /\ newr = r \/ (newr \notin DOMAIN lops /\ h[newr] = Repartition(r, keys[2]))
      /\ \A n \in DOMAIN h : n \in DOMAIN lops \/ n = newl \/ n = newr \/ n = N + 1
    BY <1>1, <1>2, JoinCases DEF FormInv
<1>4. /\ pc' = pc /\ pc = "join" /\ query' = query /\ l \in ToSet(worklist) /\ r \in ToSet(worklist)
      /\ pred_map' = pred_map \ JoinPreds(l, r)
      /\ keys = JoinKeys(EquiJoinPreds(l, r), l, r)
    BY <1>1 DEF Joins
<1>5. ToSet(worklist') = (ToSet(worklist) \ {l, r}) \union {N + 1}
    BY <1>1, <1>2, JoinWork DEF FormInv
<1>6. /\ join.lop = "HashJoin" /\ join.quns = JoinQuns(l, r) /\ join.children = <<newl, newr>>
      /\ join.virtcols = << >> /\ join.preds = JoinPreds(l, r) \ equi /\ join.join_keys = keys
    BY <1>1, JoinFields
<1>7. \A c : c \in join.cols <=> (c \in lops[l].cols \/ c \in lops[r].cols) /\ c \in FlowCols(pred_map')
    BY <1>1, JoinCols
<1>8. /\ \A e \in ToSet(keys[1]) : IsExpression(e) /\ KeyKept(lops[l], e)
      /\ \A e \in ToSet(keys[2]) : IsExpression(e) /\ KeyKept(lops[r], e)
    BY <1>4, KeysOfLegs
<1>9. /\ lops[l].lop \notin {"Aggregation", "Repartition"} /\ lops[l].virtcols = << >>
      /\ lops[r].lop \notin {"Aggregation", "Repartition"} /\ lops[r].virtcols = << >>
    BY <1>3, <1>4 DEF FormInv, Shape, FlowInv, LegsReady
<1>10. LegServed(h[newl], keys[1]) /\ h[newl].cols = lops[l].cols /\ h[newl].virtcols = << >>
    <2>1. CASE newl = l
        BY <1>3, <1>8, <1>9, <2>1 DEF LegServed
    <2>2. CASE newl # l
        BY <1>3, <1>4, <1>8, <2>2, RepartitionServed
    <2> QED
        BY <2>1, <2>2
<1>11. LegServed(h[newr], keys[2]) /\ h[newr].cols = lops[r].cols /\ h[newr].virtcols = << >>
    <2>1. CASE newr = r
        BY <1>3, <1>8, <1>9, <2>1 DEF LegServed
    <2>2. CASE newr # r
        BY <1>3, <1>4, <1>8, <2>2, RepartitionServed
    <2> QED
        BY <2>1, <2>2
<1>12. ASSUME NEW n, n \in {newl, newr}, n \notin DOMAIN lops PROVE Served(h, h[n])
    <2>1. CASE n = newl
        BY <1>3, <1>4, <1>8, <1>12, <2>1, RepartitionServed
    <2>2. CASE n = newr
        BY <1>3, <1>4, <1>8, <1>12, <2>2, RepartitionServed
    <2> QED
        BY <1>12, <2>1, <2>2
<1>13. 1 \in DOMAIN join.children /\ 2 \in DOMAIN join.children
       /\ join.children[1] = newl /\ join.children[2] = newr
    BY <1>6
<1>14. \A c : c \in lops[l].cols \/ c \in lops[r].cols => Reaches(h, join, c)
    <2>1. \A c : c \in h[newl].cols \/ c \in h[newr].cols => \E k \in DOMAIN join.children : c \in h[join.children[k]].cols
        BY <1>13
    <2> QED
        BY <1>6, <1>10, <1>11, <2>1 DEF Reaches
<1>15. Served(h, join)
    <2>1. \A i \in join.preds : i \in DOMAIN query.preds /\ \A c \in PredCols(i) : Reaches(h, join, c)
        <3>1. SUFFICES ASSUME NEW i \in JoinPreds(l, r), NEW c \in PredCols(i) PROVE Reaches(h, join, c)
            BY <1>6, EquiFacts DEF FormInv
        <3>2. c \in FlowCols(pred_map) /\ (c[1] \in lops[l].quns \/ c[1] \in lops[r].quns)
            BY DEF JoinPreds, FlowCols, PredsCols, PredQuns, JoinQuns
        <3>3. c \in lops[l].cols \/ c \in lops[r].cols
            BY <1>4, <3>2 DEF FlowInv, ColsKept
        <3> QED
            BY <1>14, <3>3
    <2>2. \A c \in join.cols : Reaches(h, join, c)
        BY <1>7, <1>14
    <2>3. VirtServed(h, join, join.virtcols)
        BY <1>6 DEF VirtServed, ToSet
    <2>4. \A k \in 1 .. 2 : LegServed(h[join.children[k]], join.join_keys[k])
        BY <1>6, <1>10, <1>11, <1>13
    <2> QED
        BY <1>6, <2>1, <2>2, <2>3, <2>4 DEF Served
<1>16. AllServed'
    <2>1. \A n \in DOMAIN lops : Served(lops, lops[n])'
        BY <1>2, <1>3, <1>4, OldServed DEF FlowInv
    <2>2. ASSUME NEW n \in DOMAIN h, n \notin DOMAIN lops PROVE Served(h, h[n])'
        <3>1. Served(h, h[n])
            BY <1>3, <1>12, <1>15, <2>2
        <3> QED
            BY <1>4, <3>1, SameQuery
    <2> QED
        BY <1>2, <2>1, <2>2 DEF AllServed
<1>17. ColsKept'
    <2>1. SUFFICES ASSUME NEW n \in ToSet(worklist'), NEW c \in FlowCols(pred_map)', c[1] \in lops'[n].quns
                   PROVE  c \in lops'[n].cols
        BY DEF ColsKept
    <2>2. c \in FlowCols(pred_map)
        BY <1>4, <2>1, FlowColsShrink
    <2>3. CASE n \in ToSet(worklist) \ {l, r}
        <3>1. n \in DOMAIN lops
            BY <2>3 DEF FormInv, TypeInv
        <3> QED
            BY <1>2, <1>3, <1>4, <2>1, <2>2, <2>3, <3>1 DEF FlowInv, ColsKept
    <2>4. CASE n = N + 1
        <3>1. c[1] \in lops[l].quns \/ c[1] \in lops[r].quns
            BY <1>2, <1>3, <1>6, <2>1, <2>4 DEF JoinQuns
        <3>2. c \in lops[l].cols \/ c \in lops[r].cols
            BY <1>4, <2>2, <3>1 DEF FlowInv, ColsKept
        <3>3. c \in FlowCols(pred_map')
            BY <1>4, <2>1 DEF FlowCols, SelectCols, PredsCols, PredCols, Pred
        <3> QED
            BY <1>2, <1>3, <1>7, <2>4, <3>2, <3>3
    <2> QED
        BY <1>5, <2>1, <2>3, <2>4
<1>18. LegsReady'
    <2>1. \A n \in DOMAIN h : h[n].virtcols = << >>
        <3>1. \A n \in DOMAIN lops : h[n].virtcols = << >>
            BY <1>3, <1>4 DEF FlowInv, LegsReady
        <3> QED
            BY <1>3, <1>6, <1>10, <1>11, <3>1
    <2>2. ASSUME NEW m \in DOMAIN h, h[m].lop = "HashJoin", NEW k \in 1 .. 2
          PROVE  h[h[m].children[k]].virtcols = << >>
        <3>1. CASE m \in DOMAIN lops
            <4>1. lops[m].lop = "HashJoin" /\ h[m] = lops[m]
                BY <1>3, <2>2, <3>1
            <4>2. lops[m].children[k] \in DOMAIN lops
                BY <2>2, <3>1, <4>1, LegPlace
            <4> QED
                BY <1>3, <1>4, <4>1, <4>2 DEF FlowInv, LegsReady
        <3>2. CASE m = N + 1
            BY <1>3, <1>10, <1>11, <1>13, <2>2, <3>2
        <3>3. m \notin DOMAIN lops => m = N + 1
            <4>1. ASSUME m \in {newl, newr}, m \notin DOMAIN lops PROVE FALSE
                BY <1>3, <2>2, <4>1, RepartitionFields
            <4> QED
                BY <1>3, <4>1
        <3> QED
            BY <3>1, <3>2, <3>3
    <2> QED
        BY <1>2, <1>4, <2>1, <2>2 DEF LegsReady, LegReady
<1> QED
    BY <1>16, <1>17, <1>18 DEF FlowInv

\* A step that leaves the plan as it is.
LEMMA FlowStill ==
    ASSUME FlowInv, UNCHANGED <<query, lops, worklist, pred_map>>,
           pc' \in {"scan", "join"} => pc = pc',
           pc' \in {"agg", "repartition_keys"} => pc \in {"scan", "join", "agg", "repartition_keys"},
           pc' = "join_keys" => pc = "join_keys",
           pc' \in {"compile", "compiled"} => pc \in {"compile", "compiled"}
    PROVE  FlowInv'
<1>1. query' = query /\ lops' = lops /\ worklist' = worklist /\ pred_map' = pred_map
    OBVIOUS
<1>2. AllServed'
    <2>1. PICK g : g = lops
        OBVIOUS
    <2>2. ASSUME NEW n \in DOMAIN g PROVE Served(g, g[n])'
        <3>1. Served(g, g[n])
            BY <2>1, <2>2 DEF FlowInv, AllServed
        <3> QED
            BY <1>1, <3>1, SameQuery
    <2> QED
        BY <1>1, <2>1, <2>2 DEF AllServed
<1>3. ColsKept'
    <2>1. \A c : c \in FlowCols(pred_map)' => c \in FlowCols(pred_map)
        BY <1>1, FlowColsShrink
    <2> QED
        BY <1>1, <2>1 DEF FlowInv, ColsKept
<1>4. LegsReady'
    <2>1. \A leg, keys : LegReady(leg, keys) => LegReady(leg, keys)'
        <3>1. \A leg, keys : LegComputes(leg, keys)' <=> LegComputes(leg, keys)
            BY <1>1 DEF LegComputes, IsColumn, ExprOf, Pred
        <3> QED
            BY <3>1 DEF LegReady
    <2>2. pc' \in {"scan", "join"} => \A n \in DOMAIN lops' : lops'[n].virtcols = << >>
        BY <1>1 DEF FlowInv, LegsReady
    <2>3. ASSUME NEW m \in DOMAIN lops', lops'[m].lop = "HashJoin", NEW k \in 1 .. 2
          PROVE  LegReady(lops[lops[m].children[k]], lops[m].join_keys[k])'
        <3>1. PICK leg, keys : leg = lops[lops[m].children[k]] /\ keys = lops[m].join_keys[k]
            OBVIOUS
        <3>2. LegReady(leg, keys)
            BY <1>1, <2>3, <3>1 DEF FlowInv, LegsReady
        <3>3. LegReady(leg, keys)'
            BY <2>1, <3>2
        <3> QED
            BY <1>1, <3>1, <3>3
    <2> QED
        BY <2>2, <2>3 DEF LegsReady
<1> QED
    BY <1>2, <1>3, <1>4 DEF FlowInv

\* The columns of the select list are those of the last LOP of the joins, which has all tables.
LEMMA SelectServed ==
    ASSUME FormInv, QunInv, FlowInv, pc = "join", Len(worklist) = 1, NEW w, w = worklist[1],
           NEW g, g = lops
    PROVE  VirtServed(g, g[w], SelectList)
<1>1. w \in DOMAIN lops /\ ToSet(worklist) = {w} /\ lops[w].lop # "Aggregation"
    BY RootFacts DEF FormInv, Shape
<1>2. \A q \in Quns : q \in lops[w].quns
    BY <1>1 DEF QunInv, Planned
<1>3. ASSUME NEW e \in ToSet(SelectList) PROVE KeyReaches(g, g[w], e)
    <2>1. PICK i \in DOMAIN query.select : e = <<"select", i>>
        BY DEF SelectList, ToSet
    <2>2. ExprOf(e) = query.select[i]
        BY <2>1 DEF ExprOf
    <2>3. ASSUME NEW c \in ExprOf(e).cols PROVE Reaches(g, g[w], c)
        <3>1. c \in SelectCols
            BY <2>2 DEF SelectCols, ToSet
        <3>2. c \in Quns \X Nat
            BY <3>1, ColumnFacts DEF FormInv, TypeInv
        <3>3. c[1] \in lops[w].quns
            BY <1>2, <3>2
        <3>4. c \in FlowCols(pred_map)
            BY <3>1 DEF FlowCols
        <3>5. c \in g[w].cols
            BY <1>1, <3>3, <3>4 DEF FlowInv, ColsKept
        <3> QED
            BY <1>1, <3>5 DEF FlowInv, AllServed, Served
    <2> QED
        BY <2>3 DEF KeyReaches
<1> QED
    BY <1>1, <1>3 DEF VirtServed

LEMMA DoneFlow ==
    ASSUME FormInv, QunInv, FlowInv, JoinsDone
    PROVE  FlowInv'
<1>1. PICK w, g, h : w = worklist[1] /\ g = lops /\ h = lops'
    OBVIOUS
<1>2. /\ pc = "join" /\ pc' = "agg" /\ Len(worklist) = 1
      /\ query' = query /\ DOMAIN h = DOMAIN g
      /\ \A n \in DOMAIN g : n # w => h[n] = g[n]
      /\ h[w].virtcols = SelectList /\ h[w].cols = {}
      /\ h[w].lop = g[w].lop /\ h[w].quns = g[w].quns /\ h[w].children = g[w].children
      /\ h[w].preds = g[w].preds /\ h[w].partkeys = g[w].partkeys /\ h[w].join_keys = g[w].join_keys
    BY <1>1, DoneEffect DEF FormInv
<1>3. w \in DOMAIN g /\ g[w].lop # "Repartition" /\ w \in ToSet(worklist)
    BY <1>1, <1>2, RootFacts DEF FormInv
<1>4. \A n \in DOMAIN g : \A k \in DOMAIN g[n].children :
          g[n].children[k] \in DOMAIN g /\ h[g[n].children[k]] = g[g[n].children[k]]
    BY <1>1, <1>2, <1>3, ChildFacts DEF FormInv
<1>5. AllServed'
    <2>1. SUFFICES ASSUME NEW n \in DOMAIN g PROVE Served(h, h[n])'
        BY <1>1, <1>2 DEF AllServed
    <2>2. PICK x, y : x = g[n] /\ y = h[n]
        OBVIOUS
    <2>3. Served(g, x) /\ x \in LOPs /\ Len(x.children) = Arity(x.lop)
        BY <1>1, <2>2, LopIn DEF FlowInv, AllServed, FormInv, Shape
    <2>4. SameInputs(g, h, x)
        BY <1>4, <2>2 DEF SameInputs
    <2>5. SameLop(x, y)
        BY <1>2, <1>3, <2>2 DEF SameLop
    <2>6. VirtServed(g, x, y.virtcols)
        <3>1. CASE n = w
            BY <1>1, <1>2, <2>2, <3>1, SelectServed
        <3>2. CASE n # w
            BY <1>2, <2>2, <2>3, <3>2 DEF Served
        <3> QED
            BY <3>1, <3>2
    <2>7. Served(h, y)
        BY <2>3, <2>4, <2>5, <2>6, ServedStays
    <2> QED
        BY <1>2, <2>2, <2>7, SameQuery
<1>6. ColsKept'
    BY <1>2 DEF ColsKept
<1>7. LegsReady'
    <2>1. ASSUME NEW m \in DOMAIN h, h[m].lop = "HashJoin", NEW k \in 1 .. 2
          PROVE  h[h[m].children[k]].virtcols = << >>
        <3>1. m \in DOMAIN g /\ g[m].lop = "HashJoin" /\ h[m].children = g[m].children
            BY <1>2, <2>1
        <3>2. k \in DOMAIN g[m].children
            BY <1>1, <2>1, <3>1, LegPlace
        <3>3. g[m].children[k] \in DOMAIN g /\ h[g[m].children[k]] = g[g[m].children[k]]
            BY <1>4, <3>1, <3>2
        <3> QED
            BY <1>1, <1>2, <3>1, <3>3 DEF FlowInv, LegsReady
    <2> QED
        BY <1>1, <1>2, <2>1 DEF LegsReady, LegReady
<1> QED
    BY <1>5, <1>6, <1>7 DEF FlowInv

\* The legs of the joins when LOPs have been put on top of the plan to aggregate.
LEMMA OldLegs ==
    ASSUME FormInv, FlowInv, pc = "agg", pc' = "repartition_keys",
           \A n \in DOMAIN lops : lops'[n] = lops[n],
           \A n \in DOMAIN lops' : n \in DOMAIN lops \/ lops'[n].lop # "HashJoin"
    PROVE  LegsReady'
<1>1. ASSUME NEW m \in DOMAIN lops', lops'[m].lop = "HashJoin", NEW k \in 1 .. 2
      PROVE  lops'[lops'[m].children[k]].virtcols = << >>
    <2>1. m \in DOMAIN lops /\ lops[m].lop = "HashJoin" /\ lops'[m] = lops[m]
        BY <1>1
    <2>2. lops[m].children[k] \in DOMAIN lops
        BY <1>1, <2>1, LegPlace
    <2> QED
        BY <2>1, <2>2 DEF FlowInv, LegsReady, LegReady
<1> QED
    BY <1>1 DEF LegsReady, LegReady

\* An aggregation is served by whatever is below it.
LEMMA AggregationServed ==
    ASSUME NEW h, NEW x, x.lop = "Aggregation", x.cols = {}, \A e \in ToSet(x.virtcols) : ~IsExpression(e)
    PROVE  Served(h, x)
BY DEF Served, VirtServed

LEMMA OnceFlow ==
    ASSUME FormInv, FlowInv, AggregateOnce
    PROVE  FlowInv'
<1>1. /\ pc = "agg" /\ pc' = "repartition_keys" /\ query' = query
    BY OnceEffect DEF FormInv
<1>2. PICK x \in LOPs : /\ lops' = Append(lops, x)
                        /\ x.lop = "Aggregation" /\ x.cols = {} /\ \A e \in ToSet(x.virtcols) : ~IsExpression(e)
    BY OnceEffect DEF FormInv
<1>3. PICK N, h : N = Len(lops) /\ h = lops'
    OBVIOUS
<1>4. /\ h[N + 1] = x
      /\ \A n \in DOMAIN lops : h[n] = lops[n]
      /\ \A n \in DOMAIN h : n \in DOMAIN lops \/ n = N + 1
    BY <1>2, <1>3, Appended DEF FormInv
<1>5. AllServed'
    <2>1. \A n \in DOMAIN lops : Served(lops, lops[n])'
        BY <1>1, <1>3, <1>4, OldServed DEF FlowInv
    <2>2. Served(h, x)'
        BY <1>1, <1>2, AggregationServed, SameQuery
    <2> QED
        BY <1>3, <1>4, <2>1, <2>2 DEF AllServed
<1>6. ColsKept'
    BY <1>1 DEF ColsKept
<1>7. LegsReady'
    BY <1>1, <1>2, <1>3, <1>4, OldLegs
<1> QED
    BY <1>5, <1>6, <1>7 DEF FlowInv

LEMMA TwiceFlow ==
    ASSUME FormInv, FlowInv, AggregateTwice
    PROVE  FlowInv'
<1>1. /\ pc = "agg" /\ pc' = "repartition_keys" /\ query' = query
    BY TwiceEffect DEF FormInv
<1>2. PICK a, b, c : Twice(a, b, c)
    BY TwiceEffect DEF FormInv
<1>3. PICK N, h : N = Len(lops) /\ h = lops'
    OBVIOUS
<1>4. /\ h[N + 1] = a /\ h[N + 2] = b /\ h[N + 3] = c
      /\ a.lop = "Aggregation" /\ b.lop = "Repartition" /\ c.lop = "Aggregation"
      /\ \A n \in DOMAIN lops : h[n] = lops[n]
      /\ \A n \in DOMAIN h : n \in DOMAIN lops \/ n = N + 1 \/ n = N + 2 \/ n = N + 3
    <2>1. N \in Nat /\ DOMAIN lops = 1 .. N
        BY <1>3, LenProperties DEF FormInv, TypeInv
    <2>2. \A n \in 1 .. N + 3 : n \in 1 .. N \/ n = N + 1 \/ n = N + 2 \/ n = N + 3
        BY <2>1
    <2> QED
        BY <1>2, <1>3, <2>1, <2>2 DEF Twice
<1>5. Served(h, a) /\ Served(h, c)
    BY <1>2, AggregationServed DEF Twice
<1>6. Served(h, b)
    <2>1. VirtServed(h, b, b.virtcols)
        BY <1>2 DEF Twice, VirtServed, KeyReaches
    <2>2. \A e \in ToSet(b.partkeys) : ~IsExpression(e) /\ KeyKept(b, e)
        BY <1>2 DEF Twice, KeyKept
    <2>3. b.cols = {} /\ b.preds = {}
        BY <1>2 DEF Twice
    <2> QED
        BY <1>4, <2>1, <2>2, <2>3 DEF Served
<1>7. AllServed'
    <2>1. \A n \in DOMAIN lops : Served(lops, lops[n])'
        BY <1>1, <1>3, <1>4, OldServed DEF FlowInv
    <2>2. Served(h, a)' /\ Served(h, b)' /\ Served(h, c)'
        BY <1>1, <1>5, <1>6, SameQuery
    <2> QED
        BY <1>3, <1>4, <2>1, <2>2 DEF AllServed
<1>8. ColsKept'
    BY <1>1 DEF ColsKept
<1>9. LegsReady'
    BY <1>1, <1>3, <1>4, OldLegs
<1> QED
    BY <1>7, <1>8, <1>9 DEF FlowInv

LEMMA AppendVirtKeeps ==
    ASSUME NEW X, NEW v \in Seq(X), NEW w \in Seq(X)
    PROVE  ToSet(v) \subseteq ToSet(AppendVirtCols(v, w))
<1>1. CASE v = << >>
    BY <1>1 DEF ToSet
<1>2. CASE v # << >>
    <2>1. PICK u : u = Without(w, ToSet(w))
        OBVIOUS
    <2>2. u \in Seq(X)
        BY <2>1, WithoutFacts
    <2>3. AppendVirtCols(v, w) = v \o u
        BY <1>2, <2>1 DEF AppendVirtCols
    <2> QED
        BY <2>2, <2>3, ToSetConcat
<1> QED
    BY <1>1, <1>2

LEMMA RewriteServed ==
    ASSUME FormInv, AllServed, UNCHANGED query, NEW v, Rewritten(v), NEW g, g = lops,
           \A n \in DOMAIN lops : VirtServed(g, g[n], v[n])
    PROVE  AllServed'
<1>1. PICK h : h = lops'
    OBVIOUS
<1>2. /\ DOMAIN h = DOMAIN g
      /\ \A n \in DOMAIN g : /\ h[n].virtcols = v[n]
                             /\ h[n].lop = g[n].lop /\ h[n].quns = g[n].quns /\ h[n].children = g[n].children
                             /\ h[n].cols = g[n].cols /\ h[n].preds = g[n].preds /\ h[n].partkeys = g[n].partkeys
                             /\ h[n].join_keys = g[n].join_keys
    BY <1>1, RewrittenFacts DEF FormInv
<1>3. ASSUME NEW n \in DOMAIN g PROVE Served(h, h[n])'
    <2>1. PICK x, y : x = g[n] /\ y = h[n]
        OBVIOUS
    <2>2. Served(g, x) /\ x \in LOPs /\ Len(x.children) = Arity(x.lop)
        BY <2>1, LopIn DEF AllServed, FormInv, Shape
    <2>3. SameInputs(g, h, x)
        <3>1. \A k \in DOMAIN x.children : x.children[k] \in DOMAIN g
            BY <2>1, ChildFacts DEF FormInv
        <3> QED
            BY <1>2, <3>1 DEF SameInputs
    <2>4. SameLop(x, y)
        BY <1>2, <2>1 DEF SameLop
    <2>5. VirtServed(g, x, y.virtcols)
        BY <1>2, <2>1
    <2>6. Served(h, y)
        BY <2>2, <2>3, <2>4, <2>5, ServedStays
    <2> QED
        BY <2>1, <2>6, SameQuery
<1> QED
    BY <1>1, <1>2, <1>3 DEF AllServed

\* What a key needs that a LOP keeps reaches it.
LEMMA KeptReaches ==
    ASSUME AllServed, NEW g, g = lops, NEW n \in DOMAIN g, g[n].lop # "Aggregation", NEW e, KeyKept(g[n], e)
    PROVE  KeyReaches(g, g[n], e)
BY DEF KeyKept, KeyReaches, AllServed, Served

\* The parent of a leg is its join.
LEMMA LegFacts ==
    ASSUME FormInv, NEW m \in DOMAIN lops, lops[m].lop = "HashJoin", NEW k \in 1 .. 2, NEW n,
           n = lops[m].children[k]
    PROVE  /\ n \in DOMAIN lops /\ Parents(n) = {m} /\ k \in DOMAIN lops[m].join_keys
           /\ \A j \in 1 .. 2 : lops[m].children[j] = n => j = k
<1>1. PICK x : x = lops[m]
    OBVIOUS
<1>2. x \in LOPs /\ Len(x.children) = 2 /\ Len(x.join_keys) = 2
    BY <1>1, LopIn DEF FormInv, Shape, Arity
<1>3. DOMAIN x.children = 1 .. 2 /\ DOMAIN x.join_keys = 1 .. 2
    BY <1>2, LenProperties DEF LOPs
<1>4. n \in DOMAIN lops /\ n \in ToSet(x.children)
    BY <1>1, <1>3, ChildFacts DEF FormInv
<1>5. \A j \in 1 .. 2 : x.children[j] = n => j = k
    BY <1>1, <1>3 DEF FormInv, Forest
<1>6. ASSUME NEW p \in Parents(n) PROVE p = m
    <2>1. p \in DOMAIN lops /\ n \in ToSet(lops[p].children)
        BY DEF Parents
    <2>2. PICK j \in DOMAIN lops[p].children : lops[p].children[j] = n
        BY <2>1 DEF ToSet
    <2> QED
        BY <1>1, <1>3, <2>1, <2>2 DEF FormInv, Forest
<1> QED
    BY <1>1, <1>3, <1>4, <1>5, <1>6 DEF Parents

LEMMA AddedFlow ==
    ASSUME FormInv, FlowInv, AddRepartitioningKeys
    PROVE  FlowInv'
<1>1. pc = "repartition_keys" /\ pc' = "join_keys" /\ query' = query
    BY DEF AddRepartitioningKeys
<1>2. PICK v : /\ Rewritten(v)
               /\ \A n \in DOMAIN lops :
                     \E w \in Seq(ExprKeys) :
                        /\ v[n] = AppendVirtCols(lops[n].virtcols, ComputedPartKeys(n) \o w)
                        /\ Parents(n) = {} => w = << >>
                        /\ Parents(n) # {} => \E m \in Parents(n) : w = ComputedPartKeys(m)
    BY AddedKeys DEF FormInv
<1>3. PICK g : g = lops
    OBVIOUS
<1>4. ASSUME NEW n \in DOMAIN g PROVE VirtServed(g, g[n], v[n])
    <2>1. PICK w \in Seq(ExprKeys) :
              /\ v[n] = AppendVirtCols(g[n].virtcols, ComputedPartKeys(n) \o w)
              /\ Parents(n) = {} => w = << >>
              /\ Parents(n) # {} => \E m \in Parents(n) : w = ComputedPartKeys(m)
        BY <1>2, <1>3
    <2>2. PICK own : own = ComputedPartKeys(n)
        OBVIOUS
    <2>3. own \in Seq(ExprKeys) /\ g[n].virtcols \in Seq(ExprKeys)
        BY <1>3, <2>2, PartKeysFacts, LopIn DEF FormInv, LOPs
    <2>4. ToSet(v[n]) \subseteq ToSet(g[n].virtcols) \union ToSet(own) \union ToSet(w)
        <3>1. PICK u, new : u = g[n].virtcols /\ new = own \o w
            OBVIOUS
        <3>2. new \in Seq(ExprKeys) /\ ToSet(new) = ToSet(own) \union ToSet(w)
            BY <2>3, <3>1, ToSetConcat, ConcatProperties
        <3>3. ToSet(AppendVirtCols(u, new)) \subseteq ToSet(u) \union ToSet(new)
            <4>1. u \in Seq(ExprKeys)
                BY <2>3, <3>1
            <4> QED
                BY ONLY <3>2, <4>1, AppendVirtFacts
        <3>4. v[n] = AppendVirtCols(u, new)
            BY <2>1, <2>2, <3>1
        <3> QED
            BY <3>1, <3>2, <3>3, <3>4
    <2>5. Served(g, g[n])
        BY <1>3 DEF FlowInv, AllServed
    <2>6. ASSUME NEW e \in ToSet(own) PROVE g[n].lop # "Aggregation" /\ KeyReaches(g, g[n], e)
        <3>1. IsRepartition(n)
            BY <1>3, <2>2, <2>6, PartKeysFacts DEF FormInv, ToSet
        <3>2. e \in ToSet(g[n].partkeys) /\ g[n].lop = "Repartition"
            BY <1>3, <2>2, <2>6, <3>1, PartKeysFacts DEF FormInv, IsRepartition
        <3>3. KeyKept(g[n], e)
            BY <2>5, <3>2 DEF Served
        <3> QED
            BY <1>3, <3>2, <3>3, KeptReaches DEF FlowInv
    <2>7. ASSUME NEW e \in ToSet(w)
          PROVE  IF g[n].lop = "Aggregation" THEN ~IsExpression(e) ELSE KeyReaches(g, g[n], e)
        <3>1. w # << >>
            BY <2>7 DEF ToSet
        <3>2. PICK m \in Parents(n) : w = ComputedPartKeys(m)
            BY <2>1, <3>1
        <3>3. m \in DOMAIN g /\ n \in ToSet(g[m].children)
            BY <1>3 DEF Parents
        <3>4. IsRepartition(m)
            BY <1>3, <3>1, <3>2, <3>3, PartKeysFacts DEF FormInv
        <3>5. e \in ToSet(g[m].partkeys) /\ g[m].lop = "Repartition"
            BY <1>3, <2>7, <3>2, <3>3, <3>4, PartKeysFacts DEF FormInv, IsRepartition
        <3>6. DOMAIN g[m].children = {1} /\ g[m].children[1] = n
            <4>1. g[m] \in LOPs /\ Len(g[m].children) = 1
                BY <1>3, <3>3, <3>5, LopIn DEF FormInv, Shape, Arity
            <4>2. DOMAIN g[m].children = {1}
                BY <4>1, LenProperties DEF LOPs
            <4> QED
                BY <3>3, <4>2 DEF ToSet
        <3>7. Served(g, g[m])
            BY <1>3, <3>3 DEF FlowInv, AllServed
        <3>8. KeyKept(g[m], e) /\ (g[n].lop = "Aggregation" => ~IsExpression(e))
            BY <3>5, <3>6, <3>7 DEF Served
        <3>9. \A c \in g[m].cols : c \in g[n].cols
            BY <3>5, <3>6, <3>7 DEF Served, Reaches
        <3>10. KeyKept(g[n], e)
            BY <3>8, <3>9 DEF KeyKept
        <3> QED
            BY <1>3, <3>8, <3>10, KeptReaches DEF FlowInv
    <2> QED
        BY <2>4, <2>5, <2>6, <2>7 DEF VirtServed, Served
<1>5. AllServed'
    BY <1>1, <1>2, <1>3, <1>4, RewriteServed DEF FlowInv
<1>6. ColsKept'
    BY <1>1 DEF ColsKept
<1>7. /\ DOMAIN lops' = DOMAIN lops
      /\ \A n \in DOMAIN lops : /\ lops'[n].virtcols = v[n] /\ lops'[n].lop = lops[n].lop
                                /\ lops'[n].children = lops[n].children /\ lops'[n].join_keys = lops[n].join_keys
    BY <1>2, RewrittenFacts DEF FormInv
<1>8. ASSUME NEW m \in DOMAIN lops, lops[m].lop = "HashJoin", NEW k \in 1 .. 2, NEW n, n = lops[m].children[k],
             NEW keys, keys = lops[m].join_keys[k]
      PROVE  n \in DOMAIN lops /\ (v[n] = << >> \/ \A e \in ToSet(keys) : ~IsColumn(e) => e \in ToSet(v[n]))
    <2>1. n \in DOMAIN lops /\ Parents(n) = {m}
        BY <1>8, LegFacts
    <2>2. PICK w \in Seq(ExprKeys) :
              /\ v[n] = AppendVirtCols(lops[n].virtcols, ComputedPartKeys(n) \o w)
              /\ \E p \in Parents(n) : w = ComputedPartKeys(p)
        BY <1>2, <2>1
    <2>3. w = << >>
        BY <1>8, <2>1, <2>2, PartKeysFacts DEF FormInv, IsRepartition
    <2>4. lops[n].virtcols = << >>
        BY <1>1, <1>8 DEF FlowInv, LegsReady, LegReady
    <2>5. v[n] = ComputedPartKeys(n)
        <3>1. PICK own : own = ComputedPartKeys(n)
            OBVIOUS
        <3>2. own \in Seq(ExprKeys)
            BY <2>1, <3>1, PartKeysFacts DEF FormInv
        <3>3. own \o << >> = own
            BY <3>2, ConcatEmptySeq
        <3> QED
            BY <2>2, <2>3, <2>4, <3>1, <3>3 DEF AppendVirtCols
    <2>6. LegServed(lops[n], keys)
        <3>1. Served(g, g[m])
            BY <1>3, <1>8 DEF FlowInv, AllServed
        <3> QED
            BY <1>3, <1>8, <3>1 DEF Served
    <2>7. CASE IsRepartition(n)
        <3>1. ToSet(v[n]) = {e \in ToSet(lops[n].partkeys) : ~IsColumn(e)}
            BY <2>1, <2>5, <2>7, PartKeysFacts DEF FormInv
        <3>2. lops[n].partkeys = keys
            BY <2>6, <2>7 DEF LegServed, IsRepartition
        <3> QED
            BY <2>1, <3>1, <3>2
    <2>8. CASE ~IsRepartition(n)
        BY <2>1, <2>5, <2>8, PartKeysFacts DEF FormInv
    <2> QED
        BY <2>7, <2>8
<1>9. LegsReady'
    <2>1. ASSUME NEW m \in DOMAIN lops', lops'[m].lop = "HashJoin", NEW k \in 1 .. 2
          PROVE  LegReady(lops[lops[m].children[k]], lops[m].join_keys[k])'
        <3>1. PICK n, keys : n = lops[m].children[k] /\ keys = lops[m].join_keys[k]
            OBVIOUS
        <3>2. m \in DOMAIN lops /\ lops[m].lop = "HashJoin" /\ lops'[m].children[k] = n /\ lops'[m].join_keys[k] = keys
            BY <1>7, <2>1, <3>1
        <3>3. n \in DOMAIN lops /\ (v[n] = << >> \/ \A e \in ToSet(keys) : ~IsColumn(e) => e \in ToSet(v[n]))
            BY <1>8, <2>1, <3>1, <3>2
        <3>4. lops'[n].virtcols = v[n]
            BY <1>7, <3>3
        <3>5. \A e : IsColumn(e)' <=> IsColumn(e)
            BY <1>1 DEF IsColumn, ExprOf, Pred
        <3>6. PICK leg : leg = lops'[n]
            OBVIOUS
        <3>7. leg.virtcols = << >> \/ LegComputes(leg, keys)'
            BY <3>3, <3>4, <3>5, <3>6 DEF LegComputes
        <3>8. LegReady(leg, keys)'
            BY <1>1, <3>7 DEF LegReady
        <3> QED
            BY <3>2, <3>6, <3>8
    <2> QED
        BY <1>1, <2>1 DEF LegsReady
<1> QED
    BY <1>5, <1>6, <1>9 DEF FlowInv

\* The keys that a join pushes down to a leg are those for this leg, if there are any.
LEMMA LegKeysOf ==
    ASSUME FormInv, NEW m \in DOMAIN lops, lops[m].lop = "HashJoin", NEW k \in 1 .. 2, NEW n,
           n = lops[m].children[k], NEW keys, keys = lops[m].join_keys[k]
    PROVE  \/ LegKeys(m, n) = keys
           \/ LegKeys(m, n) = << >> /\ \A e \in ToSet(keys) : IsColumn(e)
<1>1. PICK x : x = lops[m]
    OBVIOUS
<1>2. k \in DOMAIN x.join_keys /\ x.children[k] = n /\ \A j \in 1 .. 2 : x.children[j] = n => j = k
    BY <1>1, LegFacts
<1>3. PICK leg : leg = CHOOSE j \in 1 .. 2 : x.children[j] = n
    OBVIOUS
<1>4. leg \in 1 .. 2 /\ x.children[leg] = n
    BY <1>2, <1>3
<1>5. leg = k
    BY <1>2, <1>4
<1>6. CASE \A j \in DOMAIN x.join_keys : \A e \in ToSet(x.join_keys[j]) : IsColumn(e)
    <2>1. LegKeys(m, n) = << >>
        BY <1>1, <1>6 DEF LegKeys
    <2> QED
        BY <1>1, <1>2, <1>6, <2>1
<1>7. CASE ~ \A j \in DOMAIN x.join_keys : \A e \in ToSet(x.join_keys[j]) : IsColumn(e)
    <2>1. LegKeys(m, n) = x.join_keys[leg]
        BY <1>1, <1>3, <1>7 DEF LegKeys
    <2> QED
        BY <1>1, <1>5, <2>1
<1> QED
    BY <1>6, <1>7

LEMMA PushedFlow ==
    ASSUME FormInv, FlowInv, PushdownJoinKeys
    PROVE  FlowInv'
<1>1. pc = "join_keys" /\ pc' = "compile" /\ query' = query
    BY DEF PushdownJoinKeys
<1>2. PICK v : /\ Rewritten(v)
               /\ \A n \in DOMAIN lops :
                     \E w \in Seq(ExprKeys) :
                        /\ v[n] = AppendVirtCols(lops[n].virtcols, w)
                        /\ Parents(n) = {} => w = << >>
                        /\ Parents(n) # {} => \E m \in Parents(n) : w = LegKeys(m, n)
    BY PushedKeys DEF FormInv
<1>3. PICK g : g = lops
    OBVIOUS
<1>4. ASSUME NEW m \in DOMAIN g, g[m].lop = "HashJoin", NEW k \in 1 .. 2, NEW n, n = g[m].children[k],
             NEW keys, keys = g[m].join_keys[k]
      PROVE  /\ n \in DOMAIN g /\ Parents(n) = {m}
             /\ g[n].lop # "Aggregation" /\ \A e \in ToSet(keys) : KeyReaches(g, g[n], e)
    <2>1. n \in DOMAIN g /\ Parents(n) = {m}
        BY <1>3, <1>4, LegFacts
    <2>2. Served(g, g[m])
        BY <1>3, <1>4 DEF FlowInv, AllServed
    <2>3. LegServed(g[n], keys)
        BY <1>4, <2>2 DEF Served
    <2>4. g[n].lop # "Aggregation" /\ \A e \in ToSet(keys) : KeyKept(g[n], e)
        BY <2>3 DEF LegServed
    <2> QED
        BY <1>3, <2>1, <2>4, KeptReaches DEF FlowInv
<1>5. ASSUME NEW n \in DOMAIN g PROVE VirtServed(g, g[n], v[n])
    <2>1. PICK w \in Seq(ExprKeys) :
              /\ v[n] = AppendVirtCols(g[n].virtcols, w)
              /\ Parents(n) = {} => w = << >>
              /\ Parents(n) # {} => \E m \in Parents(n) : w = LegKeys(m, n)
        BY <1>2, <1>3
    <2>2. PICK u : u = g[n].virtcols
        OBVIOUS
    <2>3. u \in Seq(ExprKeys)
        BY <1>3, <2>2, LopIn DEF FormInv, LOPs
    <2>4. ToSet(v[n]) \subseteq ToSet(u) \union ToSet(w)
        <3>1. ToSet(AppendVirtCols(u, w)) \subseteq ToSet(u) \union ToSet(w)
            BY ONLY <2>1, <2>3, AppendVirtFacts
        <3> QED
            BY <2>1, <2>2, <3>1
    <2>5. VirtServed(g, g[n], u)
        BY <1>3, <2>2 DEF FlowInv, AllServed, Served
    <2>6. ASSUME NEW e \in ToSet(w) PROVE g[n].lop # "Aggregation" /\ KeyReaches(g, g[n], e)
        <3>1. w # << >>
            BY <2>6 DEF ToSet
        <3>2. PICK m \in Parents(n) : w = LegKeys(m, n)
            BY <2>1, <3>1
        <3>3. PICK k \in 1 .. 2 : g[m].lop = "HashJoin" /\ g[m].children[k] = n /\ w = g[m].join_keys[k]
            BY <1>3, <3>1, <3>2, LegKeysFacts DEF FormInv
        <3>4. m \in DOMAIN g
            BY <1>3 DEF Parents
        <3> QED
            BY <1>4, <2>6, <3>3, <3>4
    <2> QED
        BY <2>4, <2>5, <2>6 DEF VirtServed
<1>6. AllServed'
    BY <1>1, <1>2, <1>3, <1>5, RewriteServed DEF FlowInv
<1>7. ColsKept'
    BY <1>1 DEF ColsKept
<1>8. /\ DOMAIN lops' = DOMAIN lops
      /\ \A n \in DOMAIN lops : /\ lops'[n].virtcols = v[n] /\ lops'[n].lop = lops[n].lop
                                /\ lops'[n].children = lops[n].children /\ lops'[n].join_keys = lops[n].join_keys
    BY <1>2, RewrittenFacts DEF FormInv
<1>9. ASSUME NEW m \in DOMAIN g, g[m].lop = "HashJoin", NEW k \in 1 .. 2, NEW n, n = g[m].children[k],
             NEW keys, keys = g[m].join_keys[k]
      PROVE  n \in DOMAIN g /\ \A e \in ToSet(keys) : ~IsColumn(e) => e \in ToSet(v[n])
    <2>1. n \in DOMAIN g /\ Parents(n) = {m}
        BY <1>4, <1>9
    <2>2. PICK w \in Seq(ExprKeys) : v[n] = AppendVirtCols(g[n].virtcols, w) /\ w = LegKeys(m, n)
        BY <1>2, <1>3, <2>1
    <2>3. w = keys \/ \A e \in ToSet(keys) : IsColumn(e)
        BY <1>3, <1>9, <2>2, LegKeysOf
    <2>4. PICK u : u = g[n].virtcols
        OBVIOUS
    <2>5. u \in Seq(ExprKeys)
        BY <1>3, <2>1, <2>4, LopIn DEF FormInv, LOPs
    <2>6. u = << >> \/ \A e \in ToSet(keys) : ~IsColumn(e) => e \in ToSet(u)
        BY <1>1, <1>3, <1>9, <2>4 DEF FlowInv, LegsReady, LegReady, LegComputes
    <2>7. CASE u = << >>
        <3>1. v[n] = w
            BY <2>2, <2>4, <2>7 DEF AppendVirtCols
        <3> QED
            BY <2>1, <2>3, <3>1
    <2>8. CASE \A e \in ToSet(keys) : ~IsColumn(e) => e \in ToSet(u)
        <3>1. ToSet(u) \subseteq ToSet(AppendVirtCols(u, w))
            BY ONLY <2>2, <2>5, AppendVirtKeeps
        <3> QED
            BY <2>1, <2>2, <2>4, <2>8, <3>1
    <2> QED
        BY <2>6, <2>7, <2>8
<1>10. LegsReady'
    <2>1. ASSUME NEW m \in DOMAIN lops', lops'[m].lop = "HashJoin", NEW k \in 1 .. 2
          PROVE  LegReady(lops[lops[m].children[k]], lops[m].join_keys[k])'
        <3>1. PICK n, keys : n = lops[m].children[k] /\ keys = lops[m].join_keys[k]
            OBVIOUS
        <3>2. m \in DOMAIN lops /\ lops[m].lop = "HashJoin" /\ lops'[m].children[k] = n /\ lops'[m].join_keys[k] = keys
            BY <1>8, <2>1, <3>1
        <3>3. n \in DOMAIN lops /\ \A e \in ToSet(keys) : ~IsColumn(e) => e \in ToSet(v[n])
            BY <1>3, <1>9, <2>1, <3>1, <3>2
        <3>4. lops'[n].virtcols = v[n]
            BY <1>8, <3>3
        <3>5. \A e : IsColumn(e)' <=> IsColumn(e)
            BY <1>1 DEF IsColumn, ExprOf, Pred
        <3>6. PICK leg : leg = lops'[n]
            OBVIOUS
        <3>7. LegComputes(leg, keys)'
            BY <3>3, <3>4, <3>5, <3>6 DEF LegComputes
        <3>8. LegReady(leg, keys)'
            BY <1>1, <3>7 DEF LegReady
        <3> QED
            BY <3>2, <3>6, <3>8
    <2> QED
        BY <1>1, <2>1 DEF LegsReady
<1> QED
    BY <1>6, <1>7, <1>10 DEF FlowInv

\* What is in a projection map.
LEMMA MapDomain ==
    ASSUME NEW cols, NEW virtcols
    PROVE  /\ \A c \in cols : QunCol(c) \in DOMAIN MapOf(cols, virtcols)
           /\ \A e \in ToSet(virtcols) : VirtCol(e) \in DOMAIN MapOf(cols, virtcols)
BY DEF MapOf

LEMMA AppendDomain ==
    ASSUME NEW map, NEW other
    PROVE  DOMAIN MapAppend(map, other) = DOMAIN map \union DOMAIN other
BY DEF MapAppend

\* A column that reaches a LOP is in the projection map of its input.
LEMMA ReachesInput ==
    ASSUME FormInv, AllServed, NEW n \in DOMAIN lops, NEW qun \in lops[n].quns,
           lops[n].lop # "Aggregation", NEW c, Reaches(lops, lops[n], c)
    PROVE  QunCol(c) \in DOMAIN InputMap(n, qun)
<1>1. PICK x : x = lops[n]
    OBVIOUS
<1>2. x \in LOPs /\ Len(x.children) = Arity(x.lop)
    BY <1>1, LopIn DEF FormInv, Shape
<1>3. CASE x.lop = "TableScan"
    <2>1. x.quns = {qun}
        BY <1>1, <1>3 DEF AllServed, Served
    <2>2. c \in InputCols(qun)
        BY <1>1, <1>3, <2>1 DEF Reaches, InputCols
    <2>3. InputMap(n, qun) = MapOf(InputCols(qun), << >>)
        BY <1>1, <1>3 DEF InputMap
    <2> QED
        BY <2>2, <2>3, MapDomain
<1>4. CASE x.lop = "HashJoin"
    <2>1. DOMAIN x.children = 1 .. 2
        BY <1>2, <1>4, LenProperties DEF LOPs, Arity
    <2>2. PICK k \in 1 .. 2 : c \in lops[x.children[k]].cols
        BY <1>1, <1>4, <2>1 DEF Reaches
    <2>3. QunCol(c) \in DOMAIN OutputMap(x.children[k])
        BY <2>2, MapDomain DEF OutputMap
    <2>4. PICK a, b : a = OutputMap(x.children[1]) /\ b = OutputMap(x.children[2])
        OBVIOUS
    <2>5. InputMap(n, qun) = MapAppend(a, b)
        BY <1>1, <1>4, <2>4 DEF InputMap
    <2>6. QunCol(c) \in DOMAIN a \/ QunCol(c) \in DOMAIN b
        BY <2>3, <2>4
    <2>7. PICK map : map = MapAppend(a, b)
        OBVIOUS
    <2>8. DOMAIN map = DOMAIN a \union DOMAIN b
        BY <2>7, AppendDomain
    <2> QED
        BY <2>5, <2>6, <2>7, <2>8
<1>5. CASE x.lop = "Repartition"
    <2>1. DOMAIN x.children = {1}
        BY <1>2, <1>5, LenProperties DEF LOPs, Arity
    <2>2. c \in lops[x.children[1]].cols
        BY <1>1, <1>5, <2>1 DEF Reaches
    <2>3. InputMap(n, qun) = OutputMap(x.children[1])
        BY <1>1, <1>5 DEF InputMap
    <2> QED
        BY <2>2, <2>3, MapDomain DEF OutputMap
<1>6. x.lop \in {"TableScan", "HashJoin", "Repartition"}
    BY <1>1, <1>2 DEF LOPs
<1> QED
    BY <1>3, <1>4, <1>5, <1>6

LEMMA BindsFacts ==
    ASSUME FormInv, FlowInv, pc = "compile", NEW n \in DOMAIN lops, NEW qun \in lops[n].quns,
           lops[n].lop = "Aggregation" => lops[n].preds \ {Having} = {}
    PROVE  Binds(n, qun)
<1>1. PICK g, x, map : g = lops /\ x = lops[n] /\ map = InputMap(n, qun)
    OBVIOUS
<1>2. Served(g, x) /\ x \in LOPs
    BY <1>1, LopIn DEF FlowInv, AllServed, FormInv
<1>3. ASSUME x.lop # "Aggregation", NEW c, Reaches(g, x, c) PROVE QunCol(c) \in DOMAIN map
    BY <1>1, <1>3, ReachesInput DEF FlowInv
<1>4. ASSUME x.lop # "Aggregation", NEW e, KeyReaches(g, x, e) PROVE Compilable(map, e)
    BY <1>3, <1>4 DEF KeyReaches, Compilable
<1>5. \A e : ~IsExpression(e) => Compilable(map, e)
    BY DEF Compilable
<1>6. \A c \in x.cols : QunCol(c) \in DOMAIN map
    <2>1. CASE x.lop = "Aggregation"
        BY <1>2, <2>1 DEF Served
    <2>2. CASE x.lop # "Aggregation"
        BY <1>2, <1>3, <2>2 DEF Served
    <2> QED
        BY <2>1, <2>2
<1>7. \A e \in ToSet(x.virtcols) : Compilable(map, e)
    BY <1>2, <1>4, <1>5 DEF Served, VirtServed
<1>8. ASSUME NEW i \in x.preds \ {Having} PROVE Compilable(map, Lhs(i)) /\ Compilable(map, Rhs(i))
    <2>1. x.lop # "Aggregation"
        BY <1>1, <1>8
    <2>2. \A c \in PredCols(i) : Reaches(g, x, c)
        BY <1>2, <1>8, <2>1 DEF Served
    <2>3. KeyReaches(g, x, Lhs(i)) /\ KeyReaches(g, x, Rhs(i))
        BY <2>2, SideFacts DEF KeyReaches, PredCols
    <2> QED
        BY <1>4, <2>1, <2>3
<1>9. ASSUME x.lop = "Repartition", NEW e \in ToSet(x.partkeys) PROVE Compilable(map, e)
    <2>1. KeyKept(x, e)
        BY <1>2, <1>9 DEF Served
    <2>2. KeyReaches(g, x, e)
        BY <1>1, <1>9, <2>1, KeptReaches DEF FlowInv
    <2> QED
        BY <1>4, <1>9, <2>2
<1>10. ASSUME NEW k \in DOMAIN x.join_keys, NEW e \in ToSet(x.join_keys[k])
       PROVE  KeyProjection(e) \in DOMAIN OutputMap(x.children[k])
    <2>1. x.lop = "HashJoin" /\ k \in 1 .. 2
        <3>1. DOMAIN x.join_keys = 1 .. Len(x.join_keys)
            BY <1>2, LenProperties DEF LOPs
        <3>2. Len(x.join_keys) = IF x.lop = "HashJoin" THEN 2 ELSE 0
            BY <1>1 DEF FormInv, Shape
        <3> QED
            BY <1>10, <3>1, <3>2
    <2>2. PICK keys, leg : keys = x.join_keys[k] /\ leg = g[x.children[k]]
        OBVIOUS
    <2>3. LegServed(leg, keys) /\ LegComputes(leg, keys)
        <3>1. LegServed(leg, keys)
            BY <1>2, <2>1, <2>2 DEF Served
        <3>2. LegComputes(leg, keys)
            BY <1>1, <2>1, <2>2 DEF FlowInv, LegsReady, LegReady
        <3> QED
            BY <3>1, <3>2
    <2>4. OutputMap(x.children[k]) = MapOf(leg.cols, leg.virtcols)
        BY <1>1, <2>2 DEF OutputMap
    <2>5. CASE IsColumn(e)
        <3>1. PICK c : c = CHOOSE d \in ExprOf(e).cols : TRUE
            OBVIOUS
        <3>2. ExprOf(e).cols # {}
            BY <2>5, FS_EmptySet DEF IsColumn
        <3>3. c \in ExprOf(e).cols
            BY <3>1, <3>2
        <3>4. c \in leg.cols
            BY <1>10, <2>2, <2>3, <3>3 DEF LegServed, KeyKept
        <3>5. KeyProjection(e) = QunCol(c)
            BY <2>5, <3>1 DEF KeyProjection
        <3> QED
            BY <2>4, <3>4, <3>5, MapDomain
    <2>6. CASE ~IsColumn(e)
        <3>1. e \in ToSet(leg.virtcols)
            BY <1>10, <2>2, <2>3, <2>6 DEF LegComputes
        <3>2. KeyProjection(e) = VirtCol(e)
            BY <2>6 DEF KeyProjection
        <3> QED
            BY <2>4, <3>1, <3>2, MapDomain
    <2> QED
        BY <2>5, <2>6
<1>11. PICK sides, partkeys :
           /\ sides = {Lhs(i) : i \in x.preds \ {Having}} \union {Rhs(i) : i \in x.preds \ {Having}}
           /\ partkeys = IF IsRepartition(n) THEN ToSet(x.partkeys) ELSE {}
    OBVIOUS
<1>12. \A e \in ToSet(x.virtcols) \union sides \union partkeys : Compilable(map, e)
    <2>1. \A e \in sides : Compilable(map, e)
        BY <1>8, <1>11
    <2>2. \A e \in partkeys : Compilable(map, e)
        BY <1>1, <1>9, <1>11 DEF IsRepartition
    <2> QED
        BY <1>7, <2>1, <2>2
<1> QED
    BY <1>1, <1>6, <1>10, <1>11, <1>12 DEF Binds

LEMMA FlowNext == FormInv /\ CompileInv /\ QunInv /\ FlowInv /\ [Next]_vars => FlowInv'
<1> SUFFICES ASSUME FormInv, CompileInv, QunInv, FlowInv, [Next]_vars PROVE FlowInv'
    OBVIOUS
<1>1. CASE BuildScan
    BY <1>1, ScanFlow
<1>2. CASE Join
    BY <1>2, JoinFlow
<1>3. CASE JoinsDone
    BY <1>3, DoneFlow
<1>4. CASE AggregateOnce
    BY <1>4, OnceFlow
<1>5. CASE AggregateTwice
    BY <1>5, TwiceFlow
<1>6. CASE AddRepartitioningKeys
    BY <1>6, AddedFlow
<1>7. CASE PushdownJoinKeys
    BY <1>7, PushedFlow
<1>8. CASE NoJoin \/ NoAggregation
    BY <1>8, FlowStill DEF NoJoin, NoAggregation
<1>9. CASE Compiles
    BY <1>9, CompilesPlan, FlowStill
<1>10. CASE UNCHANGED vars
    BY <1>10, FlowStill DEF vars
<1> QED
    BY <1>1, <1>2, <1>3, <1>4, <1>5, <1>6, <1>7, <1>8, <1>9, <1>10 DEF Next, Compiles, Terminated

LEMMA PanicFlow ==
    ASSUME FormInv, CompileInv, FlowInv, CompilePanics
    PROVE  ColumnsFlow'
<1>1. PICK top, n : top = Head(stack) /\ n = top.lop
    OBVIOUS
<1>2. /\ pc = "compile" /\ stack # << >> /\ \E qun \in lops[n].quns : ~Binds(n, qun)
      /\ UNCHANGED <<lops, stack>>
    BY <1>1 DEF CompilePanics
<1>3. n \in DOMAIN lops
    <2>1. top \in ToSet(stack)
        BY <1>1, <1>2, TopFacts
    <2> QED
        BY <1>1, <1>2, <2>1 DEF CompileInv, IsTasks, CallOk
<1>4. lops[n].lop = "Aggregation" /\ lops[n].preds \ {Having} # {}
    BY <1>2, <1>3, BindsFacts
<1> QED
    BY <1>1, <1>2, <1>4 DEF ColumnsFlow

\* What an operator refers to is in the projection map it is compiled with
\* (compile_projection, compile_join, get(..).unwrap()): compile_flow panics on nothing but
\* the predicates that the first step of an aggregation inherits from its input.
THEOREM ColumnsCorrect == Spec => []ColumnsFlow
<1> DEFINE Inv == FormInv /\ PartInv /\ CompileInv /\ QunInv /\ FlowInv /\ ColumnsFlow
<1>1. Init => Inv
    <2>1. Init => ColumnsFlow
        BY DEF Init, ColumnsFlow
    <2> QED
        BY <2>1, FormInit, PartInit, CompileInit, QunInit, FlowInit
<1>2. Inv /\ [Next]_vars => Inv'
    <2> SUFFICES ASSUME Inv, [Next]_vars PROVE Inv'
        OBVIOUS
    <2>1. FormInv' /\ PartInv' /\ CompileInv' /\ QunInv' /\ FlowInv'
        BY FormNext, PartNext, CompileNext, QunNext, FlowNext
    <2>2. ColumnsFlow'
        <3>1. CASE CompilePanics
            BY <3>1, PanicFlow
        <3>2. CASE NoJoin
            <4>1. stack = << >> /\ stack' = stack
                BY <3>2 DEF NoJoin, CompileInv
            <4> QED
                BY <4>1 DEF ColumnsFlow
        <3>3. CASE \/ BuildScan \/ Join \/ JoinsDone \/ NoAggregation \/ AggregateOnce \/ AggregateTwice
                   \/ AddRepartitioningKeys \/ PushdownJoinKeys \/ CompileFlow \/ CompileCall \/ CompileReturn
            <4>1. pc' # "panicked"
                BY <3>3, Zenon DEF BuildScan, Join, JoinsDone, NoAggregation, AggregateOnce, AggregateTwice,
                            AddRepartitioningKeys, PushdownJoinKeys, CompileFlow, CompileCall, CompileReturn
            <4> QED
                BY <4>1, Zenon DEF ColumnsFlow
        <3>4. CASE UNCHANGED vars
            BY <3>4 DEF vars, ColumnsFlow
        <3> QED
            BY <3>1, <3>2, <3>3, <3>4 DEF Next, Terminated
    <2> QED
        BY <2>1, <2>2
<1>3. Inv => ColumnsFlow
    OBVIOUS
<1> HIDE DEF Inv
<1> QED
    BY <1>1, <1>2, <1>3, PTL DEF Spec

-----------------------------------------------------------------------------
(* The predicates of the LOPs. *)

\* Join x has both sides of predicate i for keys, one of each leg, in the same place.
JoinsOn(x, i) ==
    /\ x.lop = "HashJoin"
    /\ \E k \in DOMAIN x.join_keys[1] : {x.join_keys[1][k], x.join_keys[2][k]} = {Lhs(i), Rhs(i)}

\* Those of an aggregation are not from the WHERE clause, but for what it inherits.
Applies(x, i) == x.lop # "Aggregation" /\ (i \in x.preds \/ JoinsOn(x, i))

\* A predicate is left to be applied, or has been once; what is left is not about the tables
\* of one LOP of the work list, unless it is about none.
AppliedOnce ==
    \A i \in DOMAIN query.preds :
        /\ i \in pred_map <=> \A n \in DOMAIN lops : ~Applies(lops[n], i)
        /\ \A n, m \in DOMAIN lops : Applies(lops[n], i) /\ Applies(lops[m], i) => n = m

NoneOverdue ==
    pc \in {"scan", "join"} =>
        \A n \in ToSet(worklist) : \A i \in pred_map :
            PredQuns(i) \subseteq lops[n].quns => PredQuns(i) = {} /\ lops[n].lop = "TableScan"

\* When the joins are done, what is left is of constants in a query of one table.
OnlyConstantsLeft ==
    pc \in {"scan", "join"} \/ Len(worklist) # 1 \/
        \A i \in pred_map : PredQuns(i) = {} /\ Len(query.parts) = 1

PredInv == AppliedOnce /\ NoneOverdue /\ OnlyConstantsLeft

\* The keys of a join pair the sides of predicates S and of no others.
Pairs(keys, S) ==
    \A i : i \in S <=> \E k \in DOMAIN keys[1] : {keys[1][k], keys[2][k]} = {Lhs(i), Rhs(i)}

LEMMA JoinKeyPairs ==
    ASSUME query \in Queries, NEW S \in SUBSET DOMAIN query.preds, NEW l, NEW r,
           NEW keys, keys = JoinKeys(S, l, r)
    PROVE  Pairs(keys, S)
<1>1. PICK order : order = Without([j \in DOMAIN query.preds |-> j], DOMAIN query.preds \ S)
    OBVIOUS
<1>2. ToSet(order) = S
    BY <1>1, JoinOrder
<1>3. PICK a, b : /\ a = [k \in DOMAIN order |-> IF Aligned(order[k], l, r) THEN Lhs(order[k]) ELSE Rhs(order[k])]
                  /\ b = [k \in DOMAIN order |-> IF Aligned(order[k], l, r) THEN Rhs(order[k]) ELSE Lhs(order[k])]
    OBVIOUS
<1>4. keys = <<a, b>>
    BY <1>1, <1>3 DEF JoinKeys
<1>5. keys[1] = a /\ keys[2] = b /\ DOMAIN a = DOMAIN order
    BY <1>3, <1>4
<1>6. \A k \in DOMAIN order : {a[k], b[k]} = {Lhs(order[k]), Rhs(order[k])}
    BY <1>3
<1>7. ASSUME NEW i, NEW j PROVE {Lhs(j), Rhs(j)} = {Lhs(i), Rhs(i)} <=> j = i
    <2>1. \A p, q : Lhs(p) # Rhs(q) /\ (Lhs(p) = Lhs(q) => p = q)
        BY DEF Lhs, Rhs
    <2>2. ASSUME {Lhs(j), Rhs(j)} = {Lhs(i), Rhs(i)} PROVE j = i
        <3>1. Lhs(j) \in {Lhs(i), Rhs(i)}
            BY <2>2
        <3> QED
            BY <2>1, <3>1
    <2> QED
        BY <2>2
<1>8. \A i : i \in S <=> \E k \in DOMAIN order : order[k] = i
    BY <1>2 DEF ToSet
<1> QED
    BY <1>5, <1>6, <1>7, <1>8 DEF Pairs

LEMMA PredInit == Init => PredInv
<1> SUFFICES ASSUME Init PROVE PredInv
    OBVIOUS
<1>1. DOMAIN lops = {} /\ ToSet(worklist) = {} /\ pred_map = DOMAIN query.preds /\ pc = "scan"
    BY DEF Init, ToSet
<1> QED
    BY <1>1 DEF PredInv, AppliedOnce, NoneOverdue, OnlyConstantsLeft

\* A step that leaves the LOPs as they are, and may put LOPs on top, of which p applies
\* predicates R.
LEMMA AppliedNext ==
    ASSUME AppliedOnce, UNCHANGED query, NEW p, NEW R, R \subseteq pred_map, pred_map' = pred_map \ R,
           \A n \in DOMAIN lops : n \in DOMAIN lops' /\ \A i : Applies(lops'[n], i) <=> Applies(lops[n], i),
           \A n \in DOMAIN lops' \ DOMAIN lops : \A i : Applies(lops'[n], i) <=> n = p /\ i \in R,
           R = {} \/ p \in DOMAIN lops' \ DOMAIN lops
    PROVE  AppliedOnce'
<1>1. query' = query
    OBVIOUS
<1>2. ASSUME NEW i \in DOMAIN query.preds
      PROVE  i \in pred_map' <=> \A n \in DOMAIN lops' : ~Applies(lops'[n], i)
    BY <1>2 DEF AppliedOnce
<1>3. ASSUME NEW i \in DOMAIN query.preds, NEW n \in DOMAIN lops', NEW m \in DOMAIN lops',
             Applies(lops'[n], i), Applies(lops'[m], i)
      PROVE  n = m
    <2>1. CASE i \in R
        <3>1. \A k \in DOMAIN lops : ~Applies(lops[k], i)
            BY <2>1 DEF AppliedOnce
        <3> QED
            BY <1>3, <3>1
    <2>2. CASE i \notin R
        BY <1>3, <2>2 DEF AppliedOnce
    <2> QED
        BY <2>1, <2>2
<1> QED
    BY <1>1, <1>2, <1>3 DEF AppliedOnce

LEMMA ScanPreds ==
    ASSUME FormInv, QunInv, PredInv, BuildScan
    PROVE  PredInv'
<1>1. PICK q, N : q = Len(worklist) + 1 /\ N = Len(lops)
    OBVIOUS
<1>2. /\ pc = "scan" /\ pred_map' = pred_map \ Local /\ worklist' = Append(worklist, N + 1)
      /\ query' = query /\ pc' \in {"scan", "join"}
    BY <1>1, ScanEffect DEF FormInv
<1>3. PICK x \in LOPs : lops' = Append(lops, x) /\ x.lop = "TableScan" /\ x.quns = {q} /\ x.preds = Local
    BY <1>1, ScanEffect DEF FormInv
<1>4. /\ N + 1 \notin DOMAIN lops /\ N + 1 \in DOMAIN lops' /\ lops'[N + 1] = x /\ N \in Nat
      /\ \A n \in DOMAIN lops : n \in DOMAIN lops' /\ lops'[n] = lops[n]
      /\ \A n \in DOMAIN lops' : n \in DOMAIN lops \/ n = N + 1
    BY <1>1, <1>3, Appended DEF FormInv
<1>5. \A i : Applies(x, i) <=> i \in Local
    BY <1>3 DEF Applies, JoinsOn
<1>6. Local \subseteq pred_map
    BY DEF Local
<1>7. AppliedOnce'
    BY <1>2, <1>4, <1>5, <1>6, AppliedNext DEF PredInv
<1>8. ToSet(worklist') = ToSet(worklist) \union {N + 1}
    BY <1>2, <1>4, ListAppend DEF FormInv, TypeInv
<1>9. NoneOverdue'
    <2>1. SUFFICES ASSUME NEW n \in ToSet(worklist'), NEW i \in pred_map', PredQuns(i) \subseteq lops'[n].quns
                   PROVE  PredQuns(i) = {} /\ lops'[n].lop = "TableScan"
        BY <1>2 DEF NoneOverdue, PredQuns, PredCols, Pred
    <2>2. i \in pred_map /\ i \notin Local
        BY <1>2, <2>1
    <2>3. CASE n \in ToSet(worklist)
        <3>1. n \in DOMAIN lops
            BY <2>3 DEF FormInv, TypeInv
        <3> QED
            BY <1>2, <1>4, <2>1, <2>2, <2>3, <3>1 DEF PredInv, NoneOverdue
    <2>4. CASE n = N + 1
        <3>1. PredQuns(i) # {q}
            BY <1>1, <2>2 DEF Local
        <3> QED
            BY <1>3, <1>4, <2>1, <2>4, <3>1
    <2> QED
        BY <1>8, <2>1, <2>3, <2>4
<1>10. OnlyConstantsLeft'
    BY <1>2 DEF OnlyConstantsLeft
<1> QED
    BY <1>7, <1>9, <1>10 DEF PredInv

LEMMA JoinAppliesPreds ==
    ASSUME FormInv, PredInv, Join
    PROVE  PredInv'
<1>1. PICK l, r, newl, newr, legs, equi, keys, join : Joins(l, r, newl, newr, legs, equi, keys, join)
    BY JoinEffect DEF FormInv
<1>2. PICK N, h : N = Len(legs) /\ h = lops'
    OBVIOUS
<1>3. /\ N + 1 \in DOMAIN h /\ N + 1 \notin DOMAIN lops
      /\ \A n \in DOMAIN lops : n \in DOMAIN h /\ h[n] = lops[n]
      /\ h[N + 1] = join
      /\ newl = l \/ (newl \notin DOMAIN lops /\ newl # N + 1 /\ h[newl] = Repartition(l, keys[1]))
      /\ newr = r \/ (newr \notin DOMAIN lops /\ newr # N + 1 /\ h[newr] = Repartition(r, keys[2]))
      /\ \A n \in DOMAIN h : n \in DOMAIN lops \/ n = newl \/ n = newr \/ n = N + 1
      /\ l \in DOMAIN lops /\ r \in DOMAIN lops
    <2>1. PICK n \in Nat, m \in Nat : n = Len(lops) /\ m = Len(legs)
        BY <1>1, JoinCases DEF FormInv
    <2>2. /\ DOMAIN lops = 1 .. n /\ n <= m /\ DOMAIN h = 1 .. m + 1 /\ newl \in 1 .. m /\ newr \in 1 .. m
          /\ l \in 1 .. n /\ r \in 1 .. n
        BY <1>1, <1>2, <2>1, JoinCases DEF FormInv
    <2>3. /\ \A i \in 1 .. n : i \in 1 .. m + 1
          /\ m + 1 \in 1 .. m + 1 /\ m + 1 \notin 1 .. n /\ m + 1 \notin 1 .. m
        BY <2>2
    <2>4. /\ \A i \in DOMAIN lops : h[i] = lops[i]
          /\ h[N + 1] = join
          /\ newl = l \/ (newl \notin DOMAIN lops /\ h[newl] = Repartition(l, keys[1]))
          /\ newr = r \/ (newr \notin DOMAIN lops /\ h[newr] = Repartition(r, keys[2]))
          /\ \A i \in DOMAIN h : i \in DOMAIN lops \/ i = newl \/ i = newr \/ i = N + 1
        BY <1>1, <1>2, JoinCases DEF FormInv
    <2> QED
        BY <1>2, <2>1, <2>2, <2>3, <2>4
<1>4. /\ pc' = pc /\ pc = "join" /\ query' = query /\ l \in ToSet(worklist) /\ r \in ToSet(worklist)
      /\ pred_map' = pred_map \ JoinPreds(l, r)
      /\ equi = EquiJoinPreds(l, r) /\ keys = JoinKeys(equi, l, r)
    BY <1>1 DEF Joins
<1>5. ToSet(worklist') = (ToSet(worklist) \ {l, r}) \union {N + 1}
    BY <1>1, <1>2, JoinWork DEF FormInv
<1>6. /\ join.lop = "HashJoin" /\ join.quns = JoinQuns(l, r)
      /\ join.preds = JoinPreds(l, r) \ equi /\ join.join_keys = keys
    BY <1>1, JoinFields
<1>7. equi \subseteq JoinPreds(l, r) /\ JoinPreds(l, r) \subseteq pred_map
    BY <1>4 DEF EquiJoinPreds, JoinPreds
<1>8. \A i : Applies(join, i) <=> i \in JoinPreds(l, r)
    <2>1. equi \in SUBSET DOMAIN query.preds /\ query \in Queries
        BY <1>4, EquiFacts DEF FormInv, TypeInv
    <2>2. \A i : JoinsOn(join, i) <=> i \in equi
        <3>1. Pairs(keys, equi)
            BY <1>4, <2>1, JoinKeyPairs
        <3> QED
            BY <1>6, <3>1 DEF JoinsOn, Pairs
    <2> QED
        BY <1>6, <1>7, <2>2 DEF Applies
<1>9. \A n \in DOMAIN h \ DOMAIN lops : \A i : Applies(h[n], i) <=> n = N + 1 /\ i \in JoinPreds(l, r)
    <2>1. \A c, k, i : ~Applies(Repartition(c, k), i)
        BY RepartitionFields DEF Applies, JoinsOn
    <2> QED
        BY <1>3, <1>8, <2>1
<1>10. AppliedOnce'
    BY <1>2, <1>3, <1>4, <1>7, <1>9, AppliedNext DEF PredInv
<1>11. NoneOverdue'
    <2>1. SUFFICES ASSUME NEW n \in ToSet(worklist'), NEW i \in pred_map', PredQuns(i) \subseteq lops'[n].quns
                   PROVE  PredQuns(i) = {} /\ lops'[n].lop = "TableScan"
        BY <1>4 DEF NoneOverdue, PredQuns, PredCols, Pred
    <2>2. i \in pred_map /\ i \notin JoinPreds(l, r)
        BY <1>4, <2>1
    <2>3. CASE n \in ToSet(worklist)
        <3>1. n \in DOMAIN lops
            BY <2>3 DEF FormInv, TypeInv
        <3> QED
            BY <1>2, <1>3, <1>4, <2>1, <2>2, <2>3, <3>1 DEF PredInv, NoneOverdue
    <2>4. n # N + 1
        BY <1>2, <1>3, <1>6, <2>1, <2>2 DEF JoinPreds
    <2> QED
        BY <1>5, <2>1, <2>3, <2>4
<1>12. OnlyConstantsLeft'
    BY <1>4 DEF OnlyConstantsLeft
<1> QED
    BY <1>10, <1>11, <1>12 DEF PredInv

\* The last LOP of the joins has all tables, so that nothing about tables is left.
LEMMA DonePreds ==
    ASSUME FormInv, QunInv, FlowInv, PredInv, JoinsDone
    PROVE  PredInv'
<1>1. PICK w, x : w = worklist[1] /\ x = lops[w]
    OBVIOUS
<1>2. /\ pc = "join" /\ pc' = "agg" /\ Len(worklist) = 1
      /\ query' = query /\ worklist' = worklist /\ pred_map' = pred_map /\ DOMAIN lops' = DOMAIN lops
      /\ \A n \in DOMAIN lops : n # w => lops'[n] = lops[n]
      /\ lops'[w].lop = x.lop /\ lops'[w].preds = x.preds /\ lops'[w].join_keys = x.join_keys
    BY <1>1, DoneEffect DEF FormInv
<1>3. \A n \in DOMAIN lops : \A i : Applies(lops'[n], i) <=> Applies(lops[n], i)
    BY <1>1, <1>2 DEF Applies, JoinsOn
<1>4. AppliedOnce'
    BY <1>2, <1>3, AppliedNext DEF PredInv
<1>5. ASSUME NEW i \in pred_map PROVE PredQuns(i) = {} /\ Len(query.parts) = 1
    <2>1. w \in ToSet(worklist) /\ ToSet(worklist) = {w} /\ w \in DOMAIN lops
        BY <1>1, <1>2, RootFacts DEF FormInv
    <2>2. x.quns = Quns
        <3>1. Planned = Quns
            BY <1>2 DEF Planned
        <3>2. x.quns \subseteq Quns
            BY <1>1, <1>2, <2>1, <3>1 DEF QunInv
        <3>3. ASSUME NEW q \in Quns PROVE q \in x.quns
            BY <1>1, <1>2, <2>1, <3>1, <3>3 DEF QunInv
        <3> QED
            BY <3>2, <3>3
    <2>3. \A c \in PredCols(i) : c \in Quns \X Nat
        BY <1>5, ColumnFacts DEF FormInv, TypeInv
    <2>4. PredQuns(i) \subseteq Quns
        BY <2>3 DEF PredQuns
    <2>5. PredQuns(i) = {} /\ x.lop = "TableScan"
        BY <1>1, <1>2, <2>1, <2>2, <2>4 DEF PredInv, NoneOverdue
    <2>6. PICK q : x.quns = {q}
        BY <1>1, <2>1, <2>5 DEF FlowInv, AllServed, Served
    <2>7. PICK N \in Nat : N = Len(query.parts) /\ Quns = 1 .. N
        BY QueryFacts DEF FormInv, TypeInv, Quns
    <2>8. 1 .. N = {q}
        BY <2>2, <2>6, <2>7
    <2>9. q \in 1 .. N
        BY <2>8
    <2>10. 1 \in 1 .. N /\ N \in 1 .. N
        BY <2>9
    <2>11. N = 1
        BY <2>8, <2>10
    <2> QED
        BY <2>5, <2>7, <2>11
<1>6. OnlyConstantsLeft'
    BY <1>2, <1>5 DEF OnlyConstantsLeft, PredQuns, PredCols, Pred
<1>7. NoneOverdue'
    BY <1>2 DEF NoneOverdue
<1> QED
    BY <1>4, <1>6, <1>7 DEF PredInv

\* A later step, which may put LOPs on top that are of no predicate of the WHERE clause.
LEMMA LaterPreds ==
    ASSUME PredInv, UNCHANGED <<query, pred_map>>, pc \notin {"scan", "join"}, pc' \notin {"scan", "join"},
           Len(worklist) = 1,
           \A n \in DOMAIN lops : n \in DOMAIN lops' /\ \A i : Applies(lops'[n], i) <=> Applies(lops[n], i),
           \A n \in DOMAIN lops' \ DOMAIN lops : \A i : ~Applies(lops'[n], i)
    PROVE  PredInv'
<1>1. query' = query /\ pred_map' = pred_map
    OBVIOUS
<1>2. AppliedOnce'
    <2>1. PICK R : R = {}
        OBVIOUS
    <2>2. R \subseteq pred_map /\ pred_map' = pred_map \ R
        BY <1>1, <2>1
    <2>3. \A n \in DOMAIN lops' \ DOMAIN lops : \A i : Applies(lops'[n], i) <=> n = 0 /\ i \in R
        BY <2>1
    <2> QED
        BY <1>1, <2>1, <2>2, <2>3, AppliedNext DEF PredInv
<1>3. NoneOverdue'
    BY DEF NoneOverdue
<1>4. OnlyConstantsLeft'
    BY <1>1 DEF PredInv, OnlyConstantsLeft, PredQuns, PredCols, Pred
<1> QED
    BY <1>2, <1>3, <1>4 DEF PredInv

LEMMA OncePreds ==
    ASSUME FormInv, PredInv, AggregateOnce
    PROVE  PredInv'
<1>1. PICK x \in LOPs : lops' = Append(lops, x) /\ x.lop = "Aggregation"
    BY OnceEffect DEF FormInv
<1>2. /\ \A n \in DOMAIN lops : n \in DOMAIN lops' /\ lops'[n] = lops[n]
      /\ \A n \in DOMAIN lops' : n \in DOMAIN lops \/ lops'[n] = x
    BY <1>1, Appended DEF FormInv
<1>3. /\ pc = "agg" /\ pc' = "repartition_keys" /\ Len(worklist) = 1
      /\ UNCHANGED <<query, pred_map>>
    BY OnceEffect DEF FormInv
<1>4. \A i : ~Applies(x, i)
    BY <1>1 DEF Applies
<1> QED
    BY <1>2, <1>3, <1>4, LaterPreds

LEMMA TwicePreds ==
    ASSUME FormInv, PredInv, AggregateTwice
    PROVE  PredInv'
<1>1. PICK a, b, c : Twice(a, b, c)
    BY TwiceEffect DEF FormInv
<1>2. PICK N \in Nat : N = Len(lops) /\ DOMAIN lops = 1 .. N
    BY LenProperties DEF FormInv, TypeInv
<1>3. /\ \A n \in DOMAIN lops : n \in DOMAIN lops' /\ lops'[n] = lops[n]
      /\ \A n \in DOMAIN lops' : n \in DOMAIN lops \/ lops'[n] \in {a, b, c}
    <2>1. DOMAIN lops' = 1 .. N + 3 /\ \A n \in DOMAIN lops : lops'[n] = lops[n]
        BY <1>1, <1>2 DEF Twice
    <2>2. \A n \in 1 .. N + 3 : n \in 1 .. N \/ n = N + 1 \/ n = N + 2 \/ n = N + 3
        OBVIOUS
    <2>3. lops'[N + 1] = a /\ lops'[N + 2] = b /\ lops'[N + 3] = c
        BY <1>1, <1>2 DEF Twice
    <2> QED
        BY <1>2, <2>1, <2>2, <2>3
<1>4. /\ pc = "agg" /\ pc' = "repartition_keys" /\ Len(worklist) = 1
      /\ UNCHANGED <<query, pred_map>>
    BY TwiceEffect DEF FormInv
<1>5. \A i : ~Applies(a, i) /\ ~Applies(b, i) /\ ~Applies(c, i)
    BY <1>1 DEF Applies, JoinsOn, Twice
<1> QED
    BY <1>3, <1>4, <1>5, LaterPreds

LEMMA RewritePreds ==
    ASSUME FormInv, PredInv, AddRepartitioningKeys \/ PushdownJoinKeys
    PROVE  PredInv'
<1>1. PICK v : Rewritten(v)
    BY AddedKeys, PushedKeys DEF FormInv
<1>2. /\ DOMAIN lops' = DOMAIN lops
      /\ \A n \in DOMAIN lops : /\ lops'[n].lop = lops[n].lop /\ lops'[n].preds = lops[n].preds
                                 /\ lops'[n].join_keys = lops[n].join_keys
    BY <1>1, RewrittenFacts DEF FormInv
<1>3. \A n \in DOMAIN lops : \A i : Applies(lops'[n], i) <=> Applies(lops[n], i)
    BY <1>2 DEF Applies, JoinsOn
<1>4. pc \notin {"scan", "join", "panicked"} /\ pc' \notin {"scan", "join"} /\ UNCHANGED <<query, pred_map>>
    BY DEF AddRepartitioningKeys, PushdownJoinKeys
<1>5. Len(worklist) = 1
    BY <1>4 DEF FormInv, Shape, AddRepartitioningKeys, PushdownJoinKeys
<1> QED
    BY <1>2, <1>3, <1>4, <1>5, LaterPreds

LEMMA PredNext == FormInv /\ QunInv /\ FlowInv /\ PredInv /\ [Next]_vars => PredInv'
<1> SUFFICES ASSUME FormInv, QunInv, FlowInv, PredInv, [Next]_vars PROVE PredInv'
    OBVIOUS
<1>1. CASE BuildScan
    BY <1>1, ScanPreds
<1>2. CASE Join
    BY <1>2, JoinAppliesPreds
<1>3. CASE JoinsDone
    BY <1>3, DonePreds
<1>4. CASE AggregateOnce
    BY <1>4, OncePreds
<1>5. CASE AggregateTwice
    BY <1>5, TwicePreds
<1>6. CASE AddRepartitioningKeys \/ PushdownJoinKeys
    BY <1>6, RewritePreds
<1>7. ASSUME UNCHANGED <<query, lops, worklist, pred_map>>, pc' = "join" => pc = pc', pc' = "scan" => pc = pc',
             pc \in {"scan", "join"} => pc' = pc \/ Len(worklist) > 1
      PROVE  PredInv'
    <2>1. query' = query /\ lops' = lops /\ worklist' = worklist /\ pred_map' = pred_map
        BY <1>7
    <2>2. AppliedOnce'
        BY <2>1 DEF PredInv, AppliedOnce, Applies, JoinsOn, Lhs, Rhs
    <2>3. NoneOverdue'
        BY <1>7, <2>1 DEF PredInv, NoneOverdue, PredQuns, PredCols, Pred
    <2>4. OnlyConstantsLeft'
        <3>1. Len(worklist) > 1 => Len(worklist) # 1
            <4>1. PICK k : k = Len(worklist)
                OBVIOUS
            <4>2. ~(1 > 1)
                OBVIOUS
            <4> QED
                BY <4>1, <4>2
        <3>2. (pc \in {"scan", "join"} \/ Len(worklist) # 1) => (pc' \in {"scan", "join"} \/ Len(worklist) # 1)
            BY <1>7, <3>1
        <3> QED
            BY <2>1, <3>2 DEF PredInv, OnlyConstantsLeft, PredQuns, PredCols, Pred
    <2> QED
        BY <2>2, <2>3, <2>4 DEF PredInv
<1>8. CASE NoJoin \/ NoAggregation
    BY <1>7, <1>8 DEF NoJoin, NoAggregation
<1>9. CASE Compiles
    BY <1>7, <1>9, CompilesPlan
<1>10. CASE UNCHANGED vars
    BY <1>7, <1>10 DEF vars
<1> QED
    BY <1>1, <1>2, <1>3, <1>4, <1>5, <1>6, <1>8, <1>9, <1>10 DEF Next, Compiles, Terminated

\* Every predicate of the WHERE clause is in one LOP, once the joins are there: among the
\* predicates of a scan or of a join, or as a pair of join keys.  The exception, in the
\* code too (no scan takes it), is a predicate without columns in a query of one table.
PredicatesApplied ==
    pc \in {"agg", "repartition_keys", "join_keys", "compile", "compiled"} =>
        \A i \in DOMAIN query.preds :
            \/ \E n \in DOMAIN lops : \A m \in DOMAIN lops : Applies(lops[m], i) <=> m = n
            \/ PredQuns(i) = {} /\ Len(query.parts) = 1

\* build_unary_plans, classify_predicates and the rewrites lose no predicate of the WHERE
\* clause, and leave none in two LOPs, whatever the tables, the predicates and the order of
\* the joins.  The first step of an aggregation lists those of its input again.
THEOREM PredicatesCorrect == Spec => []PredicatesApplied
<1> DEFINE Inv == FormInv /\ PartInv /\ CompileInv /\ QunInv /\ FlowInv /\ PredInv
<1>1. Init => Inv
    BY FormInit, PartInit, CompileInit, QunInit, FlowInit, PredInit
<1>2. Inv /\ [Next]_vars => Inv'
    BY FormNext, PartNext, CompileNext, QunNext, FlowNext, PredNext
<1>3. Inv => PredicatesApplied
    <2> SUFFICES ASSUME Inv, pc \in {"agg", "repartition_keys", "join_keys", "compile", "compiled"},
                        NEW i \in DOMAIN query.preds
                 PROVE  \/ \E n \in DOMAIN lops : \A m \in DOMAIN lops : Applies(lops[m], i) <=> m = n
                        \/ PredQuns(i) = {} /\ Len(query.parts) = 1
        BY DEF PredicatesApplied
    <2>1. Len(worklist) = 1
        BY DEF FormInv, Shape
    <2>2. CASE i \in pred_map
        BY <2>1, <2>2 DEF PredInv, OnlyConstantsLeft
    <2>3. CASE i \notin pred_map
        BY <2>3 DEF PredInv, AppliedOnce
    <2> QED
        BY <2>2, <2>3
<1> HIDE DEF Inv
<1> QED
    BY <1>1, <1>2, <1>3, PTL DEF Spec

-----------------------------------------------------------------------------
(* The form of the LOPs. *)

\* The expressions of the query.
Exprs == {Lhs(i) : i \in DOMAIN query.preds} \union {Rhs(i) : i \in DOMAIN query.preds} \union ToSet(SelectList)

\* The keys of a join pair the sides of equalities.
KeysPaired(keys) ==
    /\ keys[1] \in Seq(Exprs) /\ keys[2] \in Seq(Exprs)
    /\ Len(keys[1]) = Len(keys[2]) /\ keys[1] # << >>
    /\ IsInjective(keys[1]) /\ IsInjective(keys[2])
    /\ \A k \in DOMAIN keys[1] : \E i \in DOMAIN query.preds : {keys[1][k], keys[2][k]} = {Lhs(i), Rhs(i)}

ScanOk(x) ==
    \E q \in Quns :
        /\ x.quns = {q} /\ x.npartitions = query.parts[q]
        /\ \A i \in DOMAIN query.preds : PredQuns(i) = {q} => i \in x.preds

RepartitionOk(c, x) ==
    /\ x.preds = {} /\ c.lop # "Repartition"
    /\ c.lop # "Aggregation" =>
          x.quns = c.quns /\ x.cpartitions = query.degree /\ x.partkeys \in Seq(Exprs) /\ x.partkeys # << >>

\* A leg has been repartitioned by the keys, or was by equivalent ones.
LegPlaced(leg, keys) ==
    IF leg.lop = "Repartition" THEN leg.partkeys = keys ELSE ComparePartKeys(keys, leg.partkeys)

\* A join applies the predicates about its tables that are not about those of one leg.
JoinOk(l, r, x) ==
    /\ x.quns = l.quns \union r.quns /\ l.quns \intersect r.quns = {}
    /\ x.npartitions = query.degree /\ x.partkeys = l.partkeys
    /\ KeysPaired(x.join_keys)
    /\ LegPlaced(l, x.join_keys[1]) /\ LegPlaced(r, x.join_keys[2])
    /\ \A i \in DOMAIN query.preds :
          PredQuns(i) \subseteq x.quns /\ ~(PredQuns(i) \subseteq l.quns) /\ ~(PredQuns(i) \subseteq r.quns) =>
              i \in x.preds \/ JoinsOn(x, i)

\* LOP x of plan g is below the aggregations.
IsData(g, x) == x.lop # "Aggregation" /\ (x.lop = "Repartition" => g[x.children[1]].lop # "Aggregation")

NodeOk(g, x) ==
    /\ x.lop = "TableScan" => ScanOk(x)
    /\ x.lop = "Repartition" => RepartitionOk(g[x.children[1]], x)
    /\ x.lop = "HashJoin" => JoinOk(g[x.children[1]], g[x.children[2]], x)
    /\ IsData(g, x) => x.virtcols \in Seq(Exprs)

NodesOk == \A n \in DOMAIN lops : NodeOk(lops, lops[n])

\* Every LOP is the root of a plan or the input of a LOP.
Covered ==
    \A n \in DOMAIN lops :
        n \in ToSet(worklist) \/ \E m \in DOMAIN lops : \E k \in DOMAIN lops[m].children : lops[m].children[k] = n

\* No expression is twice in the chunks of a leg.
LegsOnce ==
    \A m \in DOMAIN lops : lops[m].lop = "HashJoin" =>
        \A k \in 1 .. 2 : IsInjective(lops[lops[m].children[k]].virtcols)

\* The last LOP of the joins returns the select list.
JoinRoot(x) == x.lop \in {"TableScan", "HashJoin"} /\ x.quns = Quns /\ x.cols = {} /\ x.virtcols = SelectList

AggLop(x, step) == x.lop = "Aggregation" /\ x.cols = {} /\ x.virtcols = Keys \o Aggregates(step)

OncePlan(g, x) ==
    /\ AggLop(x, "once") /\ x.preds = HavingPreds /\ x.npartitions = 1
    /\ JoinRoot(g[x.children[1]])

TwicePlan(g, x) ==
    LET b == g[x.children[1]]
        a == g[b.children[1]]
        c == g[a.children[1]]
    IN  /\ AggLop(x, "post") /\ x.preds = {} /\ x.npartitions = query.degree
        /\ b.lop = "Repartition" /\ b.cols = {} /\ b.virtcols = Keys \o Aggregates("pre")
        /\ b.partkeys = Keys /\ b.cpartitions = query.degree
        /\ AggLop(a, "pre") /\ a.npartitions = c.npartitions
        /\ JoinRoot(c)

PlanOf(g, x) ==
    IF query.key_len = 0 THEN JoinRoot(x) ELSE OncePlan(g, x) \/ TwicePlan(g, x)

RootInv ==
    /\ pc = "agg" => JoinRoot(lops[worklist[1]])
    /\ pc \in {"repartition_keys", "join_keys", "compile", "compiled"} => PlanOf(lops, lops[worklist[1]])

TreeInv == NodesOk /\ Covered /\ LegsOnce /\ RootInv

LEMMA SameExprs == ASSUME UNCHANGED query PROVE Exprs' = Exprs
BY DEF Exprs, SelectList, Lhs, Rhs

\* EqClasses of query q.
ClassesOf(q) ==
    LET ends(i) == q.preds[i]
        eqs == {i \in DOMAIN q.preds : {c[1] : c \in ends(i).lhs.cols} # {} /\ {c[1] : c \in ends(i).rhs.cols} # {}}
        legs == {ends(i).lhs : i \in eqs} \union {ends(i).rhs : i \in eqs}
        merge(i, classes) ==
            LET both == {c \in classes : ends(i).lhs \in c \/ ends(i).rhs \in c}
            IN  (classes \ both) \union {UNION both}
    IN  FoldSet(merge, {{e} : e \in legs}, eqs)

LEMMA SameClasses == ASSUME UNCHANGED query PROVE EqClasses' = EqClasses
<1>1. EqClasses = ClassesOf(query)
    BY DEF EqClasses, ClassesOf, HasEqJoinDesc, SetEq, Pred, QunsOf, FoldSet, MapThenFoldSet
<1>2. EqClasses' = ClassesOf(query')
    BY DEF EqClasses, ClassesOf, HasEqJoinDesc, SetEq, Pred, QunsOf, FoldSet, MapThenFoldSet
<1> QED
    BY <1>1, <1>2, Zenon

LEMMA SameNode ==
    ASSUME UNCHANGED query, NEW g, NEW x, NodeOk(g, x)
    PROVE  NodeOk(g, x)'
<1>1. query' = query
    OBVIOUS
<1>2. Exprs' = Exprs
    BY SameExprs
<1>3. \A keys : KeysPaired(keys)' <=> KeysPaired(keys)
    BY <1>1, <1>2 DEF KeysPaired, Lhs, Rhs
<1>4. \A a, b : ComparePartKeys(a, b)' <=> ComparePartKeys(a, b)
    <2>1. EqClasses' = EqClasses
        BY SameClasses
    <2>2. \A e : ExprOf(e)' = ExprOf(e)
        BY <1>1 DEF ExprOf, Pred
    <2> QED
        BY <2>1, <2>2 DEF ComparePartKeys, CheckEq
<1>5. \A i : PredQuns(i)' = PredQuns(i)
    BY <1>1 DEF PredQuns, PredCols, Pred
<1>6. ScanOk(x)' <=> ScanOk(x)
    BY <1>1, <1>5 DEF ScanOk, Quns
<1>7. ASSUME NEW c PROVE RepartitionOk(c, x)' <=> RepartitionOk(c, x)
    BY <1>1, <1>2 DEF RepartitionOk
<1>8. ASSUME NEW l, NEW r PROVE JoinOk(l, r, x)' <=> JoinOk(l, r, x)
    <2>1. \A leg, keys : LegPlaced(leg, keys)' <=> LegPlaced(leg, keys)
        BY <1>4 DEF LegPlaced
    <2>2. \A i : JoinsOn(x, i)' <=> JoinsOn(x, i)
        BY <1>1 DEF JoinsOn, Lhs, Rhs
    <2> QED
        BY <1>1, <1>3, <1>5, <2>1, <2>2 DEF JoinOk
<1> QED
    BY <1>2, <1>6, <1>7, <1>8 DEF NodeOk, IsData
\* LOP y is LOP x but for its virtual columns, and its inputs are those of x in plan g.
LEMMA NodeStays ==
    ASSUME NEW g, NEW h, NEW x, NEW y, NodeOk(g, x), x \in LOPs, Len(x.children) = Arity(x.lop),
           \A k \in DOMAIN x.children :
              LET a == g[x.children[k]]
                  b == h[x.children[k]]
              IN  b.lop = a.lop /\ b.quns = a.quns /\ b.partkeys = a.partkeys,
           y.lop = x.lop, y.quns = x.quns, y.children = x.children, y.preds = x.preds, y.partkeys = x.partkeys,
           y.npartitions = x.npartitions, y.cpartitions = x.cpartitions, y.join_keys = x.join_keys,
           IsData(g, x) => y.virtcols \in Seq(Exprs)
    PROVE  NodeOk(h, y)
<1>1. x.lop = "TableScan" => ScanOk(y)
    BY DEF NodeOk, ScanOk
<1>2. x.lop = "Repartition" => h[x.children[1]].lop = g[x.children[1]].lop /\ h[x.children[1]].quns = g[x.children[1]].quns
    <2>1. x.lop = "Repartition" => 1 \in DOMAIN x.children
        BY DEF LOPs, Arity
    <2> QED
        BY <2>1
<1>3. x.lop = "HashJoin" => \A k \in 1 .. 2 : LET a == g[x.children[k]]
                                                 b == h[x.children[k]]
                                             IN  b.lop = a.lop /\ b.quns = a.quns /\ b.partkeys = a.partkeys
    <2>1. x.lop = "HashJoin" => \A k \in 1 .. 2 : k \in DOMAIN x.children
        BY DEF LOPs, Arity
    <2> QED
        BY <2>1
<1>4. x.lop = "Repartition" => RepartitionOk(h[x.children[1]], y)
    BY <1>2 DEF NodeOk, RepartitionOk
<1>5. x.lop = "HashJoin" => JoinOk(h[x.children[1]], h[x.children[2]], y)
    <2>1. SUFFICES ASSUME x.lop = "HashJoin" PROVE JoinOk(h[x.children[1]], h[x.children[2]], y)
        OBVIOUS
    <2>2. PICK l, r, m, s : l = g[x.children[1]] /\ r = g[x.children[2]] /\ m = h[x.children[1]] /\ s = h[x.children[2]]
        OBVIOUS
    <2>3. JoinOk(l, r, x)
        BY <2>1, <2>2 DEF NodeOk
    <2>4. /\ m.lop = l.lop /\ m.quns = l.quns /\ m.partkeys = l.partkeys
          /\ s.lop = r.lop /\ s.quns = r.quns /\ s.partkeys = r.partkeys
        BY <1>3, <2>1, <2>2
    <2>5. LegPlaced(m, y.join_keys[1]) /\ LegPlaced(s, y.join_keys[2])
        BY <2>3, <2>4 DEF JoinOk, LegPlaced
    <2>6. \A i : JoinsOn(y, i) <=> JoinsOn(x, i)
        BY DEF JoinsOn
    <2>7. JoinOk(m, s, y)
        BY <2>3, <2>4, <2>5, <2>6 DEF JoinOk
    <2> QED
        BY <2>2, <2>7
<1>6. IsData(h, y) => IsData(g, x)
    BY <1>2 DEF IsData
<1> QED
    BY <1>1, <1>4, <1>5, <1>6 DEF NodeOk

LEMMA OldNodes ==
    ASSUME FormInv, NodesOk, UNCHANGED query, \A n \in DOMAIN lops : lops'[n] = lops[n]
    PROVE  \A n \in DOMAIN lops : NodeOk(lops, lops[n])'
<1>1. SUFFICES ASSUME NEW n \in DOMAIN lops PROVE NodeOk(lops, lops[n])'
    OBVIOUS
<1>2. PICK g, h, x : g = lops /\ h = lops' /\ x = lops[n]
    OBVIOUS
<1>3. NodeOk(g, x) /\ x \in LOPs /\ Len(x.children) = Arity(x.lop)
    BY <1>2, LopIn DEF NodesOk, FormInv, Shape
<1>4. \A k \in DOMAIN x.children : h[x.children[k]] = g[x.children[k]]
    BY <1>2, ChildFacts DEF FormInv
<1>5. IsData(g, x) => x.virtcols \in Seq(Exprs)
    BY <1>3 DEF NodeOk
<1>6. NodeOk(h, x)
    BY <1>3, <1>4, <1>5, NodeStays
<1>7. NodeOk(h, x)'
    BY <1>6, SameNode
<1> QED
    BY <1>2, <1>7

LEMMA EmptyOnce == IsInjective(<< >>) /\ \A X : << >> \in Seq(X)
BY EmptySeq DEF IsInjective

\* While the joins are enumerated, nothing is computed yet.
LEMMA EarlyLegs == FormInv /\ FlowInv /\ pc \in {"scan", "join"} => LegsOnce
<1> SUFFICES ASSUME FormInv, FlowInv, pc \in {"scan", "join"} PROVE LegsOnce
    OBVIOUS
<1>1. SUFFICES ASSUME NEW m \in DOMAIN lops, lops[m].lop = "HashJoin", NEW k \in 1 .. 2
               PROVE  IsInjective(lops[lops[m].children[k]].virtcols)
    BY DEF LegsOnce
<1>2. lops[m].children[k] \in DOMAIN lops
    BY <1>1, LegPlace
<1> QED
    BY <1>2, EmptyOnce DEF FlowInv, LegsReady

Early == pc \in {"scan", "join"}

LEMMA EarlyLegsNext == FormInv' /\ FlowInv' /\ Early' => LegsOnce'
<1>1. FormInv /\ FlowInv /\ Early => LegsOnce
    BY EarlyLegs DEF Early
<1> QED
    BY <1>1, PTL

LEMMA ScanTree ==
    ASSUME FormInv, QunInv, FlowInv, TreeInv, BuildScan, FormInv', FlowInv'
    PROVE  TreeInv'
<1>1. PICK q, N : q = Len(worklist) + 1 /\ N = Len(lops)
    OBVIOUS
<1>2. /\ pc = "scan" /\ q \in Quns /\ worklist' = Append(worklist, N + 1) /\ query' = query
      /\ pc' \in {"scan", "join"} /\ q \in Nat
    BY <1>1, ScanEffect DEF FormInv
<1>3. PICK x \in LOPs :
          /\ lops' = Append(lops, x)
          /\ x.lop = "TableScan" /\ x.quns = {q} /\ x.children = << >>
          /\ x.virtcols = << >> /\ x.preds = Local /\ x.npartitions = query.parts[q]
    BY <1>1, ScanEffect DEF FormInv
<1>4. /\ N \in Nat /\ N + 1 \notin DOMAIN lops /\ lops'[N + 1] = x
      /\ \A n \in DOMAIN lops : n \in DOMAIN lops' /\ lops'[n] = lops[n]
      /\ \A n \in DOMAIN lops' : n \in DOMAIN lops \/ n = N + 1
    BY <1>1, <1>3, Appended DEF FormInv
<1>5. ToSet(worklist') = ToSet(worklist) \union {N + 1}
    BY <1>2, <1>4, ListAppend DEF FormInv, TypeInv
<1>6. PICK h : h = lops'
    OBVIOUS
<1>7. ScanOk(x)
    <2>1. ASSUME NEW i \in DOMAIN query.preds, PredQuns(i) = {q} PROVE i \in Local
        <3>1. i \in pred_map
            <4>1. SUFFICES ASSUME i \notin pred_map PROVE FALSE
                OBVIOUS
            <4>2. q \in Planned
                BY <1>2, <2>1, <4>1 DEF QunInv
            <4> QED
                BY <1>1, <1>2, <4>2 DEF Planned
        <3> QED
            BY <1>1, <2>1, <3>1 DEF Local
    <2> QED
        BY <1>2, <1>3, <2>1 DEF ScanOk
<1>8. NodeOk(h, x)
    BY <1>3, <1>7, EmptyOnce DEF NodeOk
<1>9. NodesOk'
    <2>1. \A n \in DOMAIN lops : NodeOk(lops, lops[n])'
        BY <1>2, <1>4, OldNodes DEF TreeInv
    <2>2. NodeOk(h, x)'
        BY <1>2, <1>8, SameNode
    <2> QED
        BY <1>4, <1>6, <2>1, <2>2 DEF NodesOk
<1>10. Covered'
    <2>1. SUFFICES ASSUME NEW n \in DOMAIN lops', n \notin ToSet(worklist')
                   PROVE  \E m \in DOMAIN lops' : \E k \in DOMAIN lops'[m].children : lops'[m].children[k] = n
        BY DEF Covered
    <2>2. n \in DOMAIN lops /\ n \notin ToSet(worklist)
        BY <1>4, <1>5, <2>1
    <2>3. PICK m \in DOMAIN lops : \E k \in DOMAIN lops[m].children : lops[m].children[k] = n
        BY <2>2 DEF TreeInv, Covered
    <2> QED
        BY <1>4, <2>3
<1>11. LegsOnce'
    BY <1>2, EarlyLegsNext DEF Early
<1>12. RootInv'
    BY <1>2 DEF RootInv
<1> QED
    BY <1>9, <1>10, <1>11, <1>12 DEF TreeInv

\* The lists of the keys of a join are of one length, and no key is there twice.
LEMMA JoinKeyLists ==
    ASSUME query \in Queries, NEW S \in SUBSET DOMAIN query.preds, S # {}, NEW l, NEW r,
           NEW keys, keys = JoinKeys(S, l, r)
    PROVE  KeysPaired(keys)
<1>1. PICK all, order : /\ all = [i \in DOMAIN query.preds |-> i]
                        /\ order = Without(all, DOMAIN query.preds \ S)
    OBVIOUS
<1>2. PICK n \in Nat : DOMAIN query.preds = 1 .. n
    BY QueryFacts
<1>3. all \in Seq(1 .. n) /\ IsInjective(all)
    <2>1. all = [i \in 1 .. n |-> i]
        BY <1>1, <1>2
    <2> QED
        BY <2>1 DEF IsInjective
<1>4. IsInjective(order)
    BY <1>1, <1>3, WithoutFacts
<1>5. /\ DOMAIN order = 1 .. Len(order) /\ Len(order) \in Nat /\ ToSet(order) = S
      /\ \A k \in DOMAIN order : order[k] \in S
    BY <1>1, JoinOrder
<1>6. PICK m \in Nat : DOMAIN order = 1 .. m /\ m # 0
    <2>1. DOMAIN order # {}
        BY <1>5 DEF ToSet
    <2>2. Len(order) # 0
        BY <1>5, <2>1
    <2> QED
        BY <1>5, <2>2
<1>7. PICK a, b : /\ a = [k \in DOMAIN order |-> IF Aligned(order[k], l, r) THEN Lhs(order[k]) ELSE Rhs(order[k])]
                  /\ b = [k \in DOMAIN order |-> IF Aligned(order[k], l, r) THEN Rhs(order[k]) ELSE Lhs(order[k])]
    OBVIOUS
<1>8. keys = <<a, b>>
    BY <1>1, <1>7 DEF JoinKeys
<1>9. keys[1] = a /\ keys[2] = b
    BY <1>8
<1>10. \A i \in S : Lhs(i) \in Exprs /\ Rhs(i) \in Exprs /\ i \in DOMAIN query.preds
    BY DEF Exprs
<1>11. a \in [1 .. m -> Exprs] /\ b \in [1 .. m -> Exprs]
    <2>1. \A k \in DOMAIN order : Lhs(order[k]) \in Exprs /\ Rhs(order[k]) \in Exprs
        BY <1>5, <1>10
    <2> QED
        BY <1>6, <1>7, <2>1
<1>12. a \in Seq(Exprs) /\ b \in Seq(Exprs) /\ Len(a) = m /\ Len(b) = m /\ a # << >>
    BY <1>6, <1>11
<1>13. \A p, q : Lhs(p) # Rhs(q) /\ (Lhs(p) = Lhs(q) => p = q) /\ (Rhs(p) = Rhs(q) => p = q)
    BY DEF Lhs, Rhs
<1>14. IsInjective(a) /\ IsInjective(b)
    <2>1. \A j, k \in DOMAIN order : order[j] = order[k] => j = k
        BY <1>4 DEF IsInjective
    <2>2. ASSUME NEW j \in DOMAIN order, NEW k \in DOMAIN order, a[j] = a[k] \/ b[j] = b[k]
          PROVE  j = k
        <3>1. order[j] = order[k]
            BY <1>7, <1>13, <2>2
        <3> QED
            BY <2>1, <3>1
    <2> QED
        BY <1>7, <2>2 DEF IsInjective
<1>15. \A k \in DOMAIN a : \E i \in DOMAIN query.preds : {a[k], b[k]} = {Lhs(i), Rhs(i)}
    <2>1. ASSUME NEW k \in DOMAIN order PROVE {a[k], b[k]} = {Lhs(order[k]), Rhs(order[k])}
        BY <1>7
    <2> QED
        BY <1>5, <1>7, <1>10, <2>1
<1> QED
    BY <1>9, <1>12, <1>14, <1>15 DEF KeysPaired

LEMMA JoinTree ==
    ASSUME FormInv, QunInv, FlowInv, TreeInv, Join, FormInv', FlowInv'
    PROVE  TreeInv'
<1>1. PICK l, r, newl, newr, legs, equi, keys, join : Joins(l, r, newl, newr, legs, equi, keys, join)
    BY JoinEffect DEF FormInv
<1>2. PICK N, h : N = Len(legs) /\ h = lops'
    OBVIOUS
<1>3. /\ l \in DOMAIN lops /\ r \in DOMAIN lops
      /\ \A n \in DOMAIN lops : h[n] = lops[n]
      /\ h[N + 1] = join
      /\ newl = l \/ (newl \notin DOMAIN lops /\ h[newl] = Repartition(l, keys[1]))
      /\ newr = r \/ (newr \notin DOMAIN lops /\ h[newr] = Repartition(r, keys[2]))
      /\ \A n \in DOMAIN h : n \in DOMAIN lops \/ n = newl \/ n = newr \/ n = N + 1
    BY <1>1, <1>2, JoinCases DEF FormInv
<1>4. /\ N + 1 \in DOMAIN h /\ newl \in DOMAIN h /\ newr \in DOMAIN h
      /\ \A n \in DOMAIN lops : n \in DOMAIN h
    <2>1. PICK n \in Nat, m \in Nat : n = Len(lops) /\ m = Len(legs)
        BY <1>1, JoinCases DEF FormInv
    <2>2. DOMAIN lops = 1 .. n /\ n <= m /\ DOMAIN h = 1 .. m + 1 /\ newl \in 1 .. m /\ newr \in 1 .. m
        BY <1>1, <1>2, <2>1, JoinCases DEF FormInv
    <2> QED
        BY <1>2, <2>1, <2>2
<1>5. /\ pc' = pc /\ pc = "join" /\ query' = query /\ l \in ToSet(worklist) /\ r \in ToSet(worklist) /\ l # r
      /\ equi = EquiJoinPreds(l, r) /\ equi # {} /\ keys = JoinKeys(equi, l, r)
      /\ IsLeg(newl, l, keys[1], legs) /\ IsLeg(newr, r, keys[2], legs)
    BY <1>1 DEF Joins
<1>6. ToSet(worklist') = (ToSet(worklist) \ {l, r}) \union {N + 1}
    BY <1>1, <1>2, JoinWork DEF FormInv
<1>7. /\ join.lop = "HashJoin" /\ join.quns = JoinQuns(l, r) /\ join.children = <<newl, newr>>
      /\ join.virtcols = << >> /\ join.preds = JoinPreds(l, r) \ equi /\ join.join_keys = keys
      /\ join.partkeys = legs[newl].partkeys /\ join.npartitions = query.degree
    BY <1>1, JoinFields
<1>8. /\ lops[l].lop \notin {"Aggregation", "Repartition"} /\ lops[r].lop \notin {"Aggregation", "Repartition"}
    BY <1>3, <1>5 DEF FormInv, Shape
<1>9. query \in Queries /\ equi \in SUBSET DOMAIN query.preds
    BY <1>5, EquiFacts DEF FormInv, TypeInv
<1>10. KeysPaired(keys)
    BY <1>5, <1>9, JoinKeyLists
<1>11. keys[1] \in Seq(Exprs) /\ keys[1] # << >> /\ keys[2] \in Seq(Exprs) /\ keys[2] # << >>
    BY <1>10 DEF KeysPaired
<1>12. ASSUME NEW n \in {l, r}, NEW k \in {keys[1], keys[2]}, NEW x, x = Repartition(n, k)
       PROVE  NodeOk(h, x) /\ x.lop = "Repartition" /\ x.quns = lops[n].quns /\ x.partkeys = k /\ x.virtcols = << >>
    <2>1. /\ x.lop = "Repartition" /\ x.quns = lops[n].quns /\ x.children = <<n>> /\ x.virtcols = << >>
          /\ x.preds = {} /\ x.partkeys = k /\ x.cpartitions = query.degree
        BY <1>12, RepartitionFields
    <2>2. h[x.children[1]] = lops[n] /\ lops[n].lop \notin {"Aggregation", "Repartition"}
        BY <1>3, <1>8, <2>1
    <2>3. RepartitionOk(h[x.children[1]], x)
        BY <1>11, <2>1, <2>2 DEF RepartitionOk
    <2> QED
        BY <2>1, <2>3, EmptyOnce DEF NodeOk
<1>13. h[newl].quns = lops[l].quns /\ LegPlaced(h[newl], keys[1]) /\ (newl \notin DOMAIN lops => NodeOk(h, h[newl]))
    <2>1. CASE newl = l
        <3>1. ComparePartKeys(keys[1], lops[l].partkeys)
            BY <1>3, <1>5, <2>1 DEF IsLeg
        <3> QED
            BY <1>3, <1>8, <2>1, <3>1 DEF LegPlaced
    <2>2. CASE newl # l
        <3>1. h[newl] = Repartition(l, keys[1])
            BY <1>3, <2>2
        <3> QED
            BY <1>12, <3>1 DEF LegPlaced
    <2> QED
        BY <2>1, <2>2
<1>14. h[newr].quns = lops[r].quns /\ LegPlaced(h[newr], keys[2]) /\ (newr \notin DOMAIN lops => NodeOk(h, h[newr]))
    <2>1. CASE newr = r
        <3>1. ComparePartKeys(keys[2], lops[r].partkeys)
            BY <1>3, <1>5, <2>1 DEF IsLeg
        <3> QED
            BY <1>3, <1>8, <2>1, <3>1 DEF LegPlaced
    <2>2. CASE newr # r
        <3>1. h[newr] = Repartition(r, keys[2])
            BY <1>3, <2>2
        <3> QED
            BY <1>12, <3>1 DEF LegPlaced
    <2> QED
        BY <2>1, <2>2
<1>15. legs[newl] = h[newl]
    <2>1. lops' = Append(legs, join) /\ legs \in Seq(LOPs) /\ newl \in DOMAIN legs
        BY <1>1 DEF Joins
    <2>2. legs \in Seq(LOPs) /\ join \in LOPs
        BY <1>1 DEF Joins
    <2> QED
        BY <1>2, <2>1, <2>2, AppendProperties
<1>16. NodeOk(h, join)
    <2>1. join.children[1] = newl /\ join.children[2] = newr
        BY <1>7
    <2>2. join.quns = h[newl].quns \union h[newr].quns
        BY <1>7, <1>13, <1>14 DEF JoinQuns
    <2>3. h[newl].quns \intersect h[newr].quns = {}
        BY <1>5, <1>13, <1>14 DEF QunInv
    <2>4. ASSUME NEW i \in DOMAIN query.preds, PredQuns(i) \subseteq join.quns,
                 ~(PredQuns(i) \subseteq h[newl].quns), ~(PredQuns(i) \subseteq h[newr].quns)
          PROVE  i \in join.preds \/ JoinsOn(join, i)
        <3>1. i \in pred_map
            <4>1. SUFFICES ASSUME i \notin pred_map PROVE FALSE
                OBVIOUS
            <4>2. PICK n \in ToSet(worklist) : PredQuns(i) \subseteq lops[n].quns
                BY <1>5, <4>1 DEF QunInv
            <4>3. n # l /\ n # r
                BY <1>13, <1>14, <2>4, <4>2
            <4>4. lops[n].quns \intersect lops[l].quns = {} /\ lops[n].quns \intersect lops[r].quns = {}
                BY <1>5, <4>3 DEF QunInv
            <4> QED
                BY <1>13, <1>14, <2>2, <2>4, <4>2, <4>4
        <3>2. i \in JoinPreds(l, r)
            BY <1>7, <2>4, <3>1 DEF JoinPreds
        <3>3. i \in equi => JoinsOn(join, i)
            <4>1. Pairs(keys, equi)
                BY <1>5, <1>9, JoinKeyPairs
            <4> QED
                BY <1>7, <4>1 DEF JoinsOn, Pairs
        <3> QED
            BY <1>7, <3>2, <3>3
    <2>5. JoinOk(h[newl], h[newr], join)
        BY <1>7, <1>10, <1>13, <1>14, <1>15, <2>2, <2>3, <2>4 DEF JoinOk
    <2> QED
        BY <1>7, <2>1, <2>5, EmptyOnce DEF NodeOk
<1>17. NodesOk'
    <2>1. \A n \in DOMAIN lops : NodeOk(lops, lops[n])'
        BY <1>2, <1>3, <1>5, OldNodes DEF TreeInv
    <2>2. ASSUME NEW n \in DOMAIN h, n \notin DOMAIN lops PROVE NodeOk(h, h[n])'
        <3>1. NodeOk(h, h[n])
            BY <1>3, <1>13, <1>14, <1>16, <2>2
        <3> QED
            BY <1>5, <3>1, SameNode
    <2> QED
        BY <1>2, <2>1, <2>2 DEF NodesOk
<1>18. Covered'
    <2>1. SUFFICES ASSUME NEW n \in DOMAIN h, n \notin ToSet(worklist')
                   PROVE  \E m \in DOMAIN h : \E k \in DOMAIN h[m].children : h[m].children[k] = n
        BY <1>2 DEF Covered
    <2>2. 1 \in DOMAIN join.children /\ 2 \in DOMAIN join.children
          /\ join.children[1] = newl /\ join.children[2] = newr
        BY <1>7
    <2>3. CASE n = newl \/ n = newr
        BY <1>3, <1>4, <2>2, <2>3
    <2>4. CASE n = l /\ n # newl
        <3>1. h[newl] = Repartition(l, keys[1])
            BY <1>3, <2>4
        <3>2. h[newl].children = <<l>>
            BY <3>1, RepartitionFields
        <3>3. 1 \in DOMAIN h[newl].children /\ h[newl].children[1] = l
            BY <3>2
        <3> QED
            BY <1>4, <2>4, <3>3
    <2>5. CASE n = r /\ n # newr
        <3>1. h[newr] = Repartition(r, keys[2])
            BY <1>3, <2>5
        <3>2. h[newr].children = <<r>>
            BY <3>1, RepartitionFields
        <3>3. 1 \in DOMAIN h[newr].children /\ h[newr].children[1] = r
            BY <3>2
        <3> QED
            BY <1>4, <2>5, <3>3
    <2>6. CASE n \notin {l, r, newl, newr}
        <3>1. n \in DOMAIN lops /\ n \notin ToSet(worklist)
            BY <1>3, <1>6, <2>1, <2>6
        <3>2. PICK m \in DOMAIN lops : \E k \in DOMAIN lops[m].children : lops[m].children[k] = n
            BY <3>1 DEF TreeInv, Covered
        <3> QED
            BY <1>3, <1>4, <3>2
    <2> QED
        BY <2>3, <2>4, <2>5, <2>6
<1>19. LegsOnce'
    BY <1>5, EarlyLegsNext DEF Early
<1>20. RootInv'
    BY <1>5 DEF RootInv
<1> QED
    BY <1>17, <1>18, <1>19, <1>20 DEF TreeInv

LEMMA DoneTree ==
    ASSUME FormInv, QunInv, TreeInv, JoinsDone
    PROVE  TreeInv'
<1>1. PICK w, g, h : w = worklist[1] /\ g = lops /\ h = lops'
    OBVIOUS
<1>2. /\ pc = "join" /\ pc' = "agg" /\ Len(worklist) = 1
      /\ query' = query /\ worklist' = worklist /\ DOMAIN h = DOMAIN g
      /\ \A n \in DOMAIN g : n # w => h[n] = g[n]
      /\ h[w].virtcols = SelectList /\ h[w].cols = {}
      /\ h[w].lop = g[w].lop /\ h[w].quns = g[w].quns /\ h[w].children = g[w].children
      /\ h[w].preds = g[w].preds /\ h[w].partkeys = g[w].partkeys /\ h[w].join_keys = g[w].join_keys
      /\ h[w].npartitions = g[w].npartitions /\ h[w].cpartitions = g[w].cpartitions
    BY <1>1, DoneEffect DEF FormInv
<1>3. w \in DOMAIN g /\ g[w].lop # "Repartition" /\ w \in ToSet(worklist) /\ ToSet(worklist) = {w} /\ g[w] \in LOPs
    BY <1>1, <1>2, RootFacts DEF FormInv
<1>4. \A n \in DOMAIN g : \A k \in DOMAIN g[n].children :
          g[n].children[k] \in DOMAIN g /\ h[g[n].children[k]] = g[g[n].children[k]]
    BY <1>1, <1>2, <1>3, ChildFacts DEF FormInv
<1>5. SelectList \in Seq(Exprs)
    <2>1. IsQuery(query)
        BY QueriesAssumption DEF FormInv, TypeInv
    <2>2. query \in Queries
        BY DEF FormInv, TypeInv
    <2>3. PICK n \in Nat : DOMAIN query.select = 1 .. n
        BY <2>2, QueryFacts
    <2>4. ToSet(SelectList) \subseteq Exprs
        BY DEF Exprs
    <2>5. SelectList \in [1 .. n -> ToSet(SelectList)]
        BY <2>3 DEF SelectList, ToSet
    <2>6. SelectList \in [1 .. n -> Exprs]
        BY <2>4, <2>5
    <2> QED
        BY <2>6
<1>6. NodesOk'
    <2>1. SUFFICES ASSUME NEW n \in DOMAIN g PROVE NodeOk(h, h[n])'
        BY <1>1, <1>2 DEF NodesOk
    <2>2. PICK x, y : x = g[n] /\ y = h[n]
        OBVIOUS
    <2>3. NodeOk(g, x) /\ x \in LOPs /\ Len(x.children) = Arity(x.lop)
        BY <1>1, <2>2, LopIn DEF TreeInv, NodesOk, FormInv, Shape
    <2>4. \A k \in DOMAIN x.children : h[x.children[k]] = g[x.children[k]]
        BY <1>4, <2>2
    <2>5. IsData(g, x) => y.virtcols \in Seq(Exprs)
        BY <1>2, <1>5, <2>2, <2>3 DEF NodeOk
    <2>6. /\ y.lop = x.lop /\ y.quns = x.quns /\ y.children = x.children /\ y.preds = x.preds
          /\ y.partkeys = x.partkeys /\ y.npartitions = x.npartitions /\ y.cpartitions = x.cpartitions
          /\ y.join_keys = x.join_keys
        BY <1>2, <2>2
    <2>7. NodeOk(h, y)
        BY <2>3, <2>4, <2>5, <2>6, NodeStays
    <2> QED
        BY <1>2, <2>2, <2>7, SameNode
<1>7. Covered'
    <2>1. \A n \in DOMAIN g : h[n].children = g[n].children
        BY <1>2
    <2> QED
        BY <1>1, <1>2, <2>1 DEF TreeInv, Covered
<1>8. LegsOnce'
    <2>1. ASSUME NEW m \in DOMAIN h, h[m].lop = "HashJoin", NEW k \in 1 .. 2
          PROVE  IsInjective(h[h[m].children[k]].virtcols)
        <3>1. m \in DOMAIN g /\ g[m].lop = "HashJoin" /\ h[m].children = g[m].children
            BY <1>2, <2>1
        <3>2. k \in DOMAIN g[m].children
            BY <1>1, <2>1, <3>1, LegPlace
        <3>3. h[g[m].children[k]] = g[g[m].children[k]]
            BY <1>4, <3>1, <3>2
        <3> QED
            BY <1>1, <2>1, <3>1, <3>3 DEF TreeInv, LegsOnce
    <2> QED
        BY <1>1, <2>1 DEF LegsOnce, IsInjective
<1>9. JoinRoot(h[w])'
    <2>1. g[w].lop \in {"TableScan", "HashJoin"}
        BY <1>1, <1>2, <1>3 DEF FormInv, Shape, LOPs
    <2>2. g[w].quns = Quns
        <3>1. /\ \A n \in ToSet(worklist) : lops[n].quns \subseteq Quns
              /\ \A q \in Quns : \E n \in ToSet(worklist) : q \in lops[n].quns
            BY <1>2 DEF QunInv, Planned
        <3>2. \A q \in Quns : q \in lops[w].quns
            BY <1>3, <3>1
        <3>3. lops[w].quns \subseteq Quns
            BY <1>3, <3>1
        <3> QED
            BY <1>1, <3>2, <3>3
    <2> QED
        BY <1>2, <2>1, <2>2 DEF JoinRoot, Quns, SelectList
<1>10. RootInv'
    BY <1>1, <1>2, <1>9 DEF RootInv
<1> QED
    BY <1>6, <1>7, <1>8, <1>10 DEF TreeInv

\* Of the legs of the joins, when LOPs that are no joins have been put on top of the plan.
LEMMA LegsOnceStays ==
    ASSUME FormInv, LegsOnce, \A n \in DOMAIN lops : lops'[n] = lops[n],
           \A n \in DOMAIN lops' : n \in DOMAIN lops \/ lops'[n].lop # "HashJoin"
    PROVE  LegsOnce'
<1>1. PICK g, h : g = lops /\ h = lops'
    OBVIOUS
<1>2. ASSUME NEW m \in DOMAIN h, h[m].lop = "HashJoin", NEW k \in 1 .. 2
      PROVE  IsInjective(h[h[m].children[k]].virtcols)
    <2>1. m \in DOMAIN g /\ h[m] = g[m]
        BY <1>1, <1>2
    <2>2. g[m].children[k] \in DOMAIN g
        BY <1>1, <1>2, <2>1, LegPlace
    <2> QED
        BY <1>1, <1>2, <2>1, <2>2 DEF LegsOnce
<1> QED
    BY <1>1, <1>2 DEF LegsOnce, IsInjective

LEMMA SameRoot == ASSUME UNCHANGED query PROVE \A x : JoinRoot(x)' <=> JoinRoot(x)
BY DEF JoinRoot, Quns, SelectList

LEMMA SamePlan ==
    ASSUME UNCHANGED query, NEW g, NEW x, PlanOf(g, x)
    PROVE  PlanOf(g, x)'
<1>1. \A y : JoinRoot(y)' <=> JoinRoot(y)
    BY SameRoot
<1>2. \A y, step : AggLop(y, step)' <=> AggLop(y, step)
    BY DEF AggLop, Keys, Aggregates
<1>3. Keys' = Keys /\ \A step : Aggregates(step)' = Aggregates(step)
    BY DEF Keys, Aggregates
<1>4. HavingPreds' = HavingPreds
    BY DEF HavingPreds, Having
<1>5. OncePlan(g, x)' <=> OncePlan(g, x)
    BY <1>1, <1>2, <1>4, Zenon DEF OncePlan
<1>6. TwicePlan(g, x)' <=> TwicePlan(g, x)
    BY <1>1, <1>2, <1>3, Zenon DEF TwicePlan
<1> QED
    BY <1>1, <1>5, <1>6 DEF PlanOf

LEMMA OnceTree ==
    ASSUME FormInv, TreeInv, AggregateOnce
    PROVE  TreeInv'
<1>1. PICK w, N, g, h : w = worklist[1] /\ N = Len(lops) /\ g = lops /\ h = lops'
    OBVIOUS
<1>2. /\ pc = "agg" /\ pc' = "repartition_keys" /\ Len(worklist) = 1 /\ worklist' = <<N + 1>> /\ query' = query
    BY <1>1, OnceEffect DEF FormInv
<1>3. PICK x \in LOPs : /\ lops' = Append(lops, x)
                        /\ x.lop = "Aggregation" /\ x.children = worklist /\ x.cols = {} /\ x.preds = HavingPreds
                        /\ x.npartitions = 1 /\ x.virtcols = Keys \o Aggregates("once")
    BY OnceEffect DEF FormInv
<1>4. /\ h[N + 1] = x /\ N + 1 \in DOMAIN h
      /\ \A n \in DOMAIN g : n \in DOMAIN h /\ h[n] = g[n]
      /\ \A n \in DOMAIN h : n \in DOMAIN g \/ n = N + 1
    BY <1>1, <1>3, Appended DEF FormInv
<1>5. w \in DOMAIN g /\ ToSet(worklist) = {w} /\ DOMAIN worklist = {1}
    BY <1>1, <1>2, RootFacts DEF FormInv
<1>6. NodesOk'
    <2>1. \A n \in DOMAIN lops : NodeOk(lops, lops[n])'
        BY <1>1, <1>2, <1>4, OldNodes DEF TreeInv
    <2>2. NodeOk(h, x)
        BY <1>3 DEF NodeOk, IsData
    <2>3. NodeOk(h, x)'
        BY <1>2, <2>2, SameNode
    <2> QED
        BY <1>1, <1>4, <2>1, <2>3 DEF NodesOk
<1>7. Covered'
    <2>1. SUFFICES ASSUME NEW n \in DOMAIN h, n \notin ToSet(worklist')
                   PROVE  \E m \in DOMAIN h : \E k \in DOMAIN h[m].children : h[m].children[k] = n
        BY <1>1 DEF Covered
    <2>2. ToSet(worklist') = {N + 1}
        BY <1>2 DEF ToSet
    <2>3. n \in DOMAIN g
        BY <1>4, <2>1, <2>2
    <2>4. CASE n = w
        <3>1. 1 \in DOMAIN h[N + 1].children /\ h[N + 1].children[1] = n
            BY <1>1, <1>3, <1>4, <1>5, <2>4
        <3> QED
            BY <1>4, <3>1
    <2>5. CASE n # w
        <3>1. PICK m \in DOMAIN g : \E k \in DOMAIN g[m].children : g[m].children[k] = n
            BY <1>1, <1>5, <2>3, <2>5 DEF TreeInv, Covered
        <3> QED
            BY <1>4, <3>1
    <2> QED
        BY <2>4, <2>5
<1>8. LegsOnce'
    BY <1>1, <1>3, <1>4, LegsOnceStays DEF TreeInv
<1>9. RootInv'
    <2>1. JoinRoot(g[w])
        BY <1>1, <1>2 DEF TreeInv, RootInv
    <2>2. x.children[1] = w /\ h[w] = g[w]
        BY <1>1, <1>3, <1>4, <1>5
    <2>3. OncePlan(h, x)
        BY <1>3, <2>1, <2>2 DEF OncePlan, AggLop
    <2>4. query.key_len # 0
        <3>1. query.key_len > 0 /\ query \in Queries
            BY DEF AggregateOnce, FormInv, TypeInv
        <3> QED
            BY <3>1, QueryFacts
    <2>5. PlanOf(h, x)
        BY <2>3, <2>4 DEF PlanOf
    <2>6. PlanOf(h, x)'
        BY <1>2, <2>5, SamePlan
    <2>7. worklist'[1] = N + 1
        BY <1>2
    <2> QED
        BY <1>1, <1>2, <1>4, <2>6, <2>7 DEF RootInv
<1> QED
    BY <1>6, <1>7, <1>8, <1>9 DEF TreeInv

LEMMA TwiceTree ==
    ASSUME FormInv, TreeInv, AggregateTwice
    PROVE  TreeInv'
<1>1. PICK w, N, g, h : w = worklist[1] /\ N = Len(lops) /\ g = lops /\ h = lops'
    OBVIOUS
<1>2. /\ pc = "agg" /\ pc' = "repartition_keys" /\ Len(worklist) = 1 /\ worklist' = <<N + 3>> /\ query' = query
    BY <1>1, TwiceEffect DEF FormInv
<1>3. PICK a, b, c : Twice(a, b, c)
    BY TwiceEffect DEF FormInv
<1>4. /\ h[N + 1] = a /\ h[N + 2] = b /\ h[N + 3] = c
      /\ N + 1 \in DOMAIN h /\ N + 2 \in DOMAIN h /\ N + 3 \in DOMAIN h
      /\ \A n \in DOMAIN g : n \in DOMAIN h /\ h[n] = g[n]
      /\ \A n \in DOMAIN h : n \in DOMAIN g \/ n = N + 1 \/ n = N + 2 \/ n = N + 3
    <2>1. N \in Nat /\ DOMAIN g = 1 .. N
        BY <1>1, LenProperties DEF FormInv, TypeInv
    <2>2. \A n \in 1 .. N + 3 : n \in 1 .. N \/ n = N + 1 \/ n = N + 2 \/ n = N + 3
        BY <2>1
    <2>3. \A n \in 1 .. N : n \in 1 .. N + 3
        BY <2>1
    <2>4. N + 1 \in 1 .. N + 3 /\ N + 2 \in 1 .. N + 3 /\ N + 3 \in 1 .. N + 3
        BY <2>1
    <2> QED
        BY <1>1, <1>3, <2>1, <2>2, <2>3, <2>4 DEF Twice
<1>5. w \in DOMAIN g /\ ToSet(worklist) = {w} /\ DOMAIN worklist = {1}
    BY <1>1, <1>2, RootFacts DEF FormInv
<1>6. /\ a.lop = "Aggregation" /\ b.lop = "Repartition" /\ c.lop = "Aggregation"
      /\ a.children = worklist /\ b.children = <<N + 1>> /\ c.children = <<N + 2>>
      /\ b.preds = {}
    BY <1>1, <1>3 DEF Twice
<1>7. /\ a.children[1] = w /\ b.children[1] = N + 1 /\ c.children[1] = N + 2
      /\ 1 \in DOMAIN a.children /\ 1 \in DOMAIN b.children /\ 1 \in DOMAIN c.children
    BY <1>1, <1>5, <1>6
<1>8. NodesOk'
    <2>1. \A n \in DOMAIN lops : NodeOk(lops, lops[n])'
        BY <1>1, <1>2, <1>4, OldNodes DEF TreeInv
    <2>2. NodeOk(h, a) /\ NodeOk(h, c)
        BY <1>6 DEF NodeOk, IsData
    <2>3. NodeOk(h, b)
        BY <1>4, <1>6, <1>7 DEF NodeOk, IsData, RepartitionOk
    <2>4. NodeOk(h, a)' /\ NodeOk(h, b)' /\ NodeOk(h, c)'
        BY <1>2, <2>2, <2>3, SameNode
    <2> QED
        BY <1>1, <1>4, <2>1, <2>4 DEF NodesOk
<1>9. Covered'
    <2>1. SUFFICES ASSUME NEW n \in DOMAIN h, n \notin ToSet(worklist')
                   PROVE  \E m \in DOMAIN h : \E k \in DOMAIN h[m].children : h[m].children[k] = n
        BY <1>1 DEF Covered
    <2>2. ToSet(worklist') = {N + 3}
        BY <1>2 DEF ToSet
    <2>3. n \in DOMAIN g \/ n = N + 1 \/ n = N + 2
        BY <1>4, <2>1, <2>2
    <2>4. CASE n = w
        BY <1>4, <1>7, <2>4
    <2>5. CASE n = N + 1 \/ n = N + 2
        BY <1>4, <1>7, <2>5
    <2>6. CASE n \in DOMAIN g /\ n # w
        <3>1. PICK m \in DOMAIN g : \E k \in DOMAIN g[m].children : g[m].children[k] = n
            BY <1>1, <1>5, <2>6 DEF TreeInv, Covered
        <3> QED
            BY <1>4, <3>1
    <2> QED
        BY <2>3, <2>4, <2>5, <2>6
<1>10. LegsOnce'
    BY <1>1, <1>4, <1>6, LegsOnceStays DEF TreeInv
<1>11. RootInv'
    <2>1. JoinRoot(g[w])
        BY <1>1, <1>2 DEF TreeInv, RootInv
    <2>2. h[w] = g[w]
        BY <1>4, <1>5
    <2>3. /\ AggLop(c, "post") /\ c.preds = {} /\ c.npartitions = query.degree
          /\ b.lop = "Repartition" /\ b.cols = {} /\ b.virtcols = Keys \o Aggregates("pre")
          /\ b.partkeys = Keys /\ b.cpartitions = query.degree
          /\ AggLop(a, "pre") /\ a.npartitions = g[w].npartitions
        BY <1>1, <1>3 DEF Twice, AggLop
    <2>4. TwicePlan(h, c)
        BY <1>4, <1>7, <2>1, <2>2, <2>3 DEF TwicePlan
    <2>5. query.key_len # 0
        <3>1. query.key_len > 0 /\ query \in Queries
            BY DEF AggregateTwice, FormInv, TypeInv
        <3> QED
            BY <3>1, QueryFacts
    <2>6. PlanOf(h, c)
        BY <2>4, <2>5 DEF PlanOf
    <2>7. PlanOf(h, c)'
        BY <1>2, <2>6, SamePlan
    <2>8. worklist'[1] = N + 3
        BY <1>2
    <2> QED
        BY <1>1, <1>2, <1>4, <2>7, <2>8 DEF RootInv
<1> QED
    BY <1>8, <1>9, <1>10, <1>11 DEF TreeInv

\* To columns that are there, nothing is added.
LEMMA AppendVirtSame ==
    ASSUME NEW X, NEW u \in Seq(X), NEW w \in Seq(X), u # << >>
    PROVE  AppendVirtCols(u, w) = u
<1>1. PICK new : new = Without(w, ToSet(w))
    OBVIOUS
<1>2. new \in Seq(X) /\ ToSet(new) = {}
    BY <1>1, WithoutFacts
<1>3. new = << >>
    <2>1. DOMAIN new = {}
        BY <1>2 DEF ToSet
    <2>2. DOMAIN new = 1 .. Len(new) /\ Len(new) \in Nat
        BY <1>2, LenProperties
    <2>3. Len(new) = 0
        BY <2>1, <2>2
    <2> QED
        BY <1>2, <2>3, EmptySeq
<1>4. AppendVirtCols(u, w) = u \o new
    BY <1>1 DEF AppendVirtCols
<1> QED
    BY <1>3, <1>4, ConcatEmptySeq

LEMMA ParentFacts ==
    ASSUME FormInv, NEW n \in DOMAIN lops, NEW k \in DOMAIN lops[n].children, NEW c, c = lops[n].children[k]
    PROVE  c \in DOMAIN lops /\ Parents(c) = {n}
<1>1. c \in DOMAIN lops
    BY ChildFacts DEF FormInv
<1>2. n \in Parents(c)
    BY DEF Parents, ToSet
<1>3. \A m \in Parents(c) : m = n
    BY DEF Parents, ToSet, FormInv, Forest
<1> QED
    BY <1>1, <1>2, <1>3

\* What LOP n computes stays.
Keeps(v, n) == v[n] = lops[n].virtcols

\* A rewrite adds the keys of data, each once to a leg of a join, and nothing to the LOPs
\* that compute something or have no parent that asks for something.
RewriteOk(v) ==
    /\ \A n \in DOMAIN lops : IsData(lops, lops[n]) => v[n] \in Seq(Exprs)
    /\ \A m \in DOMAIN lops : lops[m].lop = "HashJoin" => \A k \in 1 .. 2 : IsInjective(v[lops[m].children[k]])
    /\ \A n \in DOMAIN lops : lops[n].virtcols # << >> => Keeps(v, n)
    /\ \A n \in DOMAIN lops :
          lops[n].lop # "Repartition" /\ (\A m \in Parents(n) : lops[m].lop = "Aggregation") => Keeps(v, n)

\* The root of the joins keeps what it computes.
LEMMA RootKeeps ==
    ASSUME FormInv, NEW v, RewriteOk(v), NEW n \in DOMAIN lops, JoinRoot(lops[n]),
           \A m \in Parents(n) : lops[m].lop = "Aggregation"
    PROVE  Keeps(v, n)
BY DEF RewriteOk, JoinRoot

LEMMA AggColumns ==
    ASSUME query \in Queries, query.key_len # 0, NEW step \in {"once", "pre", "post"}
    PROVE  Keys \o Aggregates(step) # << >>
<1>1. Keys \in Seq(ExprKeys) /\ Len(Keys) = query.key_len
    BY QueryFacts, AggregateKeys DEF Keys
<1>2. PICK n \in Nat : DOMAIN query.aggs = 1 .. n
    BY QueryFacts
<1>3. Aggregates(step) \in [1 .. n -> {step} \X Nat]
    BY <1>2 DEF Aggregates
<1>4. Aggregates(step) \in Seq({step} \X Nat) /\ Len(Aggregates(step)) = n
    BY <1>3
<1>5. PICK a, b : a = Keys /\ b = Aggregates(step)
    OBVIOUS
<1>6. /\ a \in Seq(ExprKeys \union ({step} \X Nat)) /\ b \in Seq(ExprKeys \union ({step} \X Nat))
      /\ Len(a) \in Nat /\ Len(b) \in Nat /\ Len(a) # 0
    <2>1. DOMAIN a = 1 .. Len(a) /\ Len(a) \in Nat /\ \A i \in 1 .. Len(a) : a[i] \in ExprKeys
        BY <1>1, <1>5, LenProperties, ElementOfSeq
    <2>2. DOMAIN b = 1 .. n /\ \A i \in 1 .. n : b[i] \in {step} \X Nat
        BY <1>3, <1>5
    <2> QED
        BY <1>1, <1>4, <1>5
<1>7. Len(a \o b) = Len(a) + Len(b)
    BY <1>6, ConcatProperties
<1>8. a \o b # << >>
    BY <1>6, <1>7, EmptySeq
<1> QED
    BY <1>5, <1>8

LEMMA RewriteTree ==
    ASSUME FormInv, TreeInv, UNCHANGED <<query, worklist>>, NEW v, Rewritten(v), RewriteOk(v), Len(worklist) = 1,
           pc \in {"repartition_keys", "join_keys"}, pc' \in {"join_keys", "compile"}
    PROVE  TreeInv'
<1>1. PICK w, g, h : w = worklist[1] /\ g = lops /\ h = lops'
    OBVIOUS
<1>2. /\ query' = query /\ worklist' = worklist /\ DOMAIN h = DOMAIN g
      /\ \A n \in DOMAIN g :
            /\ h[n].virtcols = v[n] /\ h[n].lop = g[n].lop /\ h[n].quns = g[n].quns
            /\ h[n].children = g[n].children /\ h[n].cols = g[n].cols /\ h[n].preds = g[n].preds
            /\ h[n].partkeys = g[n].partkeys /\ h[n].npartitions = g[n].npartitions
            /\ h[n].cpartitions = g[n].cpartitions /\ h[n].join_keys = g[n].join_keys
    BY <1>1, RewrittenFacts DEF FormInv
<1>3. w \in DOMAIN g /\ ToSet(worklist) = {w} /\ w \in ToSet(worklist)
    BY <1>1, <1>2, RootFacts DEF FormInv
<1>4. \A n \in DOMAIN g : \A k \in DOMAIN g[n].children : g[n].children[k] \in DOMAIN g
    BY <1>1, ChildFacts DEF FormInv
<1>5. NodesOk'
    <2>1. SUFFICES ASSUME NEW n \in DOMAIN g PROVE NodeOk(h, h[n])'
        BY <1>1, <1>2 DEF NodesOk
    <2>2. PICK x, y : x = g[n] /\ y = h[n]
        OBVIOUS
    <2>3. NodeOk(g, x) /\ x \in LOPs /\ Len(x.children) = Arity(x.lop)
        BY <1>1, <2>2, LopIn DEF TreeInv, NodesOk, FormInv, Shape
    <2>4. \A k \in DOMAIN x.children :
              LET a == g[x.children[k]]
                  b == h[x.children[k]]
              IN  b.lop = a.lop /\ b.quns = a.quns /\ b.partkeys = a.partkeys
        BY <1>2, <1>4, <2>2
    <2>5. IsData(g, x) => y.virtcols \in Seq(Exprs)
        BY <1>1, <1>2, <2>2 DEF RewriteOk
    <2>6. /\ y.lop = x.lop /\ y.quns = x.quns /\ y.children = x.children /\ y.preds = x.preds
          /\ y.partkeys = x.partkeys /\ y.npartitions = x.npartitions /\ y.cpartitions = x.cpartitions
          /\ y.join_keys = x.join_keys
        BY <1>2, <2>2
    <2>7. NodeOk(h, y)
        BY <2>3, <2>4, <2>5, <2>6, NodeStays
    <2> QED
        BY <1>2, <2>2, <2>7, SameNode
<1>6. Covered'
    <2>1. \A n \in DOMAIN g : h[n].children = g[n].children
        BY <1>2
    <2> QED
        BY <1>1, <1>2, <2>1 DEF TreeInv, Covered
<1>7. LegsOnce'
    <2>1. ASSUME NEW m \in DOMAIN h, h[m].lop = "HashJoin", NEW k \in 1 .. 2
          PROVE  IsInjective(h[h[m].children[k]].virtcols)
        <3>1. m \in DOMAIN g /\ g[m].lop = "HashJoin" /\ h[m].children = g[m].children
            BY <1>2, <2>1
        <3>2. g[m].children[k] \in DOMAIN g
            BY <1>1, <2>1, <3>1, LegPlace
        <3> QED
            BY <1>1, <1>2, <2>1, <3>1, <3>2 DEF RewriteOk
    <2> QED
        BY <1>1, <2>1 DEF LegsOnce, IsInjective
<1>8. PlanOf(g, g[w])
    BY <1>1 DEF TreeInv, RootInv
<1>9. PlanOf(h, h[w])
    <2>1. ASSUME NEW n \in DOMAIN g, JoinRoot(g[n]), \A m \in Parents(n) : g[m].lop = "Aggregation"
          PROVE  JoinRoot(h[n])
        BY <1>1, <1>2, <2>1, RootKeeps DEF Keeps, JoinRoot
    <2>2. \A n \in DOMAIN g : g[n].virtcols # << >> => h[n].virtcols = g[n].virtcols
        BY <1>1, <1>2 DEF RewriteOk, Keeps
    <2>3. ASSUME NEW n \in DOMAIN g, g[n].lop \in {"Aggregation", "Repartition"}
          PROVE  /\ g[n].children[1] \in DOMAIN g /\ Parents(g[n].children[1]) = {n}
                 /\ h[n].children[1] = g[n].children[1]
        <3>1. g[n] \in LOPs /\ Len(g[n].children) = 1
            BY <1>1, <2>3, LopIn DEF FormInv, Shape, Arity
        <3>2. 1 \in DOMAIN g[n].children
            BY <3>1, LenProperties DEF LOPs
        <3> QED
            BY <1>1, <1>2, <3>2, ParentFacts
    <2>4. query \in Queries
        BY DEF FormInv, TypeInv
    <2>5. CASE query.key_len = 0
        <3>1. Parents(w) = {}
            BY <1>1, <1>3 DEF Parents, ToSet, FormInv, Forest
        <3>2. JoinRoot(g[w])
            BY <1>8, <2>5 DEF PlanOf
        <3> QED
            BY <1>3, <2>1, <2>5, <3>1, <3>2 DEF PlanOf
    <2>6. CASE query.key_len # 0 /\ OncePlan(g, g[w])
        <3>1. PICK j : j = g[w].children[1]
            OBVIOUS
        <3>2. AggLop(g[w], "once") /\ g[w].preds = HavingPreds /\ g[w].npartitions = 1 /\ JoinRoot(g[j])
            BY <2>6, <3>1 DEF OncePlan
        <3>3. j \in DOMAIN g /\ Parents(j) = {w} /\ h[w].children[1] = j
            BY <1>3, <2>3, <3>1, <3>2 DEF AggLop
        <3>4. JoinRoot(h[j])
            BY <2>1, <3>2, <3>3 DEF AggLop
        <3>5. AggLop(h[w], "once")
            BY <1>2, <1>3, <2>2, <2>4, <2>6, <3>2, AggColumns DEF AggLop
        <3>6. OncePlan(h, h[w])
            BY <1>2, <1>3, <3>2, <3>3, <3>4, <3>5 DEF OncePlan
        <3> QED
            BY <2>6, <3>6 DEF PlanOf
    <2>7. CASE query.key_len # 0 /\ TwicePlan(g, g[w])
        <3>1. PICK nb, na, nc : nb = g[w].children[1] /\ na = g[nb].children[1] /\ nc = g[na].children[1]
            BY Zenon
        <3>2. /\ AggLop(g[w], "post") /\ g[w].preds = {} /\ g[w].npartitions = query.degree
              /\ g[nb].lop = "Repartition" /\ g[nb].cols = {} /\ g[nb].virtcols = Keys \o Aggregates("pre")
              /\ g[nb].partkeys = Keys /\ g[nb].cpartitions = query.degree
              /\ AggLop(g[na], "pre") /\ g[na].npartitions = g[nc].npartitions
              /\ JoinRoot(g[nc])
            BY <2>7, <3>1, Zenon DEF TwicePlan
        <3>3. nb \in DOMAIN g /\ h[w].children[1] = nb
            BY <1>3, <2>3, <3>1, <3>2, Zenon DEF AggLop
        <3>4. na \in DOMAIN g /\ h[nb].children[1] = na
            BY <2>3, <3>1, <3>2, <3>3, Zenon
        <3>5. nc \in DOMAIN g /\ Parents(nc) = {na} /\ h[na].children[1] = nc
            BY <2>3, <3>1, <3>2, <3>4, Zenon DEF AggLop
        <3>6. JoinRoot(h[nc])
            BY <2>1, <3>2, <3>5 DEF AggLop
        <3>7. AggLop(h[w], "post")
            BY <1>2, <1>3, <2>2, <2>4, <2>7, <3>2, AggColumns DEF AggLop
        <3>8. AggLop(h[na], "pre")
            BY <1>2, <2>2, <2>4, <2>7, <3>2, <3>4, AggColumns DEF AggLop
        <3>9. h[nb].virtcols = Keys \o Aggregates("pre")
            BY <2>2, <2>4, <2>7, <3>2, <3>3, AggColumns
        <3>10. /\ h[nb].lop = "Repartition" /\ h[nb].cols = {} /\ h[nb].partkeys = Keys /\ h[nb].cpartitions = query.degree
               /\ h[na].npartitions = h[nc].npartitions
            BY <1>2, <3>2, <3>3, <3>4, <3>5
        <3>11. h[w].preds = {} /\ h[w].npartitions = query.degree
            BY <1>2, <1>3, <3>2
        <3>12. TwicePlan(h, h[w])
            BY <3>3, <3>4, <3>5, <3>6, <3>7, <3>8, <3>9, <3>10, <3>11 DEF TwicePlan
        <3> QED
            BY <2>7, <3>12 DEF PlanOf
    <2> QED
        BY <1>8, <2>5, <2>6, <2>7 DEF PlanOf
<1>10. RootInv'
    <2>1. PlanOf(h, h[w])'
        BY <1>2, <1>9, SamePlan
    <2> QED
        BY <1>1, <1>2, <2>1 DEF RootInv
<1> QED
    BY <1>5, <1>6, <1>7, <1>10 DEF TreeInv

\* The keys of a data repartitioning are of the query.
LEMMA ComputedKeys ==
    ASSUME FormInv, NodesOk, NEW m \in DOMAIN lops,
           lops[m].lop = "Repartition" => lops[lops[m].children[1]].lop # "Aggregation"
    PROVE  ComputedPartKeys(m) \in Seq(Exprs)
<1>1. CASE IsRepartition(m)
    <2>1. RepartitionOk(lops[lops[m].children[1]], lops[m])
        BY <1>1 DEF NodesOk, NodeOk, IsRepartition
    <2>2. PICK keys : keys = lops[m].partkeys
        OBVIOUS
    <2>3. keys \in Seq(Exprs)
        BY <1>1, <2>1, <2>2 DEF RepartitionOk, IsRepartition
    <2>4. PICK S : S = {e \in ToSet(keys) : IsColumn(e)}
        OBVIOUS
    <2>5. ComputedPartKeys(m) = Without(keys, S)
        BY <1>1, <2>2, <2>4 DEF ComputedPartKeys
    <2> QED
        BY <2>3, <2>5, WithoutFacts
<1>2. CASE ~IsRepartition(m)
    BY <1>2, EmptyOnce DEF ComputedPartKeys
<1> QED
    BY <1>1, <1>2

LEMMA NoKeys == \A X : \A s \in Seq(X) : s \o << >> = s /\ << >> \o s = s
BY ConcatEmptySeq

LEMMA AddedTree ==
    ASSUME FormInv, FlowInv, TreeInv, AddRepartitioningKeys
    PROVE  TreeInv'
<1>1. pc = "repartition_keys" /\ pc' = "join_keys" /\ query' = query /\ worklist' = worklist /\ Len(worklist) = 1
    BY DEF AddRepartitioningKeys, FormInv, Shape
<1>2. PICK v : /\ Rewritten(v)
               /\ \A n \in DOMAIN lops :
                     \E w \in Seq(ExprKeys) :
                        /\ v[n] = AppendVirtCols(lops[n].virtcols, ComputedPartKeys(n) \o w)
                        /\ Parents(n) = {} => w = << >>
                        /\ Parents(n) # {} => \E m \in Parents(n) : w = ComputedPartKeys(m)
    BY AddedKeys DEF FormInv
<1>3. \A m \in DOMAIN lops : ~IsRepartition(m) => ComputedPartKeys(m) = << >>
    BY DEF ComputedPartKeys
<1>4. ASSUME NEW n \in DOMAIN lops, NEW m \in Parents(n), lops[m].lop = "Repartition"
      PROVE  m \in DOMAIN lops /\ lops[m].children[1] = n
    <2>1. m \in DOMAIN lops /\ n \in ToSet(lops[m].children)
        BY <1>4 DEF Parents
    <2>2. lops[m] \in LOPs /\ Len(lops[m].children) = 1
        BY <1>4, <2>1, LopIn DEF FormInv, Shape, Arity
    <2>3. DOMAIN lops[m].children = {1}
        BY <2>2, LenProperties DEF LOPs
    <2> QED
        BY <2>1, <2>3 DEF ToSet
<1>5. ASSUME NEW n \in DOMAIN lops, IsData(lops, lops[n]) PROVE v[n] \in Seq(Exprs)
    <2>1. PICK w \in Seq(ExprKeys) :
              /\ v[n] = AppendVirtCols(lops[n].virtcols, ComputedPartKeys(n) \o w)
              /\ Parents(n) = {} => w = << >>
              /\ Parents(n) # {} => \E m \in Parents(n) : w = ComputedPartKeys(m)
        BY <1>2
    <2>2. PICK u, own : u = lops[n].virtcols /\ own = ComputedPartKeys(n)
        OBVIOUS
    <2>3. u \in Seq(Exprs)
        BY <1>5, <2>2 DEF TreeInv, NodesOk, NodeOk
    <2>4. own \in Seq(Exprs)
        BY <1>5, <2>2, ComputedKeys DEF TreeInv, IsData
    <2>5. w \in Seq(Exprs)
        <3>1. CASE Parents(n) = {}
            BY <2>1, <3>1, EmptyOnce
        <3>2. CASE Parents(n) # {}
            <4>1. PICK m \in Parents(n) : w = ComputedPartKeys(m)
                BY <2>1, <3>2
            <4>2. m \in DOMAIN lops
                BY DEF Parents
            <4>3. lops[m].lop = "Repartition" => lops[lops[m].children[1]].lop # "Aggregation"
                BY <1>4, <1>5 DEF IsData
            <4> QED
                BY <4>1, <4>2, <4>3, ComputedKeys DEF TreeInv
        <3> QED
            BY <3>1, <3>2
    <2>6. PICK new : new = own \o w
        OBVIOUS
    <2>7. new \in Seq(Exprs)
        BY <2>4, <2>5, <2>6, ConcatProperties
    <2>8. AppendVirtCols(u, new) \in Seq(Exprs)
        BY <2>3, <2>7, AppendVirtFacts
    <2> QED
        BY <2>1, <2>2, <2>6, <2>8
<1>6. ASSUME NEW m \in DOMAIN lops, lops[m].lop = "HashJoin", NEW k \in 1 .. 2, NEW n, n = lops[m].children[k]
      PROVE  IsInjective(v[n])
    <2>1. n \in DOMAIN lops /\ Parents(n) = {m}
        BY <1>6, LegFacts
    <2>2. PICK w \in Seq(ExprKeys) :
              /\ v[n] = AppendVirtCols(lops[n].virtcols, ComputedPartKeys(n) \o w)
              /\ \E p \in Parents(n) : w = ComputedPartKeys(p)
        BY <1>2, <2>1
    <2>3. w = << >>
        BY <1>3, <1>6, <2>1, <2>2 DEF IsRepartition
    <2>4. lops[n].virtcols = << >>
        BY <1>1, <1>6 DEF FlowInv, LegsReady, LegReady
    <2>5. PICK own : own = ComputedPartKeys(n)
        OBVIOUS
    <2>6. own \in Seq(ExprKeys)
        BY <2>1, <2>5, PartKeysFacts DEF FormInv
    <2>7. v[n] = own
        BY <2>2, <2>3, <2>4, <2>5, <2>6, NoKeys DEF AppendVirtCols
    <2>8. CASE IsRepartition(n)
        <3>1. PICK keys, x : keys = lops[m].join_keys[k] /\ x = lops[n]
            OBVIOUS
        <3>2. Served(lops, lops[m])
            BY <1>6 DEF FlowInv, AllServed
        <3>3. x.partkeys = keys
            BY <1>6, <2>8, <3>1, <3>2 DEF Served, LegServed, IsRepartition
        <3>4. JoinOk(lops[lops[m].children[1]], lops[lops[m].children[2]], lops[m])
            BY <1>6 DEF TreeInv, NodesOk, NodeOk
        <3>5. keys \in Seq(Exprs) /\ IsInjective(keys)
            BY <3>1, <3>4 DEF JoinOk, KeysPaired
        <3>6. PICK S : S = {e \in ToSet(keys) : IsColumn(e)}
            OBVIOUS
        <3>7. own = Without(keys, S)
            BY <2>5, <2>8, <3>1, <3>3, <3>6 DEF ComputedPartKeys
        <3> QED
            BY <2>7, <3>5, <3>7, WithoutFacts
    <2>9. CASE ~IsRepartition(n)
        BY <2>1, <2>5, <2>7, <2>9, <1>3, EmptyOnce
    <2> QED
        BY <2>8, <2>9
<1>7. ASSUME NEW n \in DOMAIN lops, lops[n].virtcols # << >> PROVE Keeps(v, n)
    <2>1. PICK w \in Seq(ExprKeys) : v[n] = AppendVirtCols(lops[n].virtcols, ComputedPartKeys(n) \o w)
        BY <1>2
    <2>2. PICK u, own, new : u = lops[n].virtcols /\ own = ComputedPartKeys(n) /\ new = own \o w
        OBVIOUS
    <2>3. own \in Seq(ExprKeys) /\ u \in Seq(ExprKeys)
        BY <2>2, PartKeysFacts, LopIn DEF FormInv, LOPs
    <2>4. new \in Seq(ExprKeys)
        BY <2>2, <2>3, ConcatProperties
    <2>5. AppendVirtCols(u, new) = u
        BY <1>7, <2>2, <2>3, <2>4, AppendVirtSame
    <2> QED
        BY <2>1, <2>2, <2>5 DEF Keeps
<1>8. ASSUME NEW n \in DOMAIN lops, lops[n].lop # "Repartition", \A m \in Parents(n) : lops[m].lop = "Aggregation"
      PROVE  Keeps(v, n)
    <2>1. PICK w \in Seq(ExprKeys) :
              /\ v[n] = AppendVirtCols(lops[n].virtcols, ComputedPartKeys(n) \o w)
              /\ Parents(n) = {} => w = << >>
              /\ Parents(n) # {} => \E m \in Parents(n) : w = ComputedPartKeys(m)
        BY <1>2
    <2>2. w = << >>
        BY <1>3, <1>8, <2>1 DEF Parents, IsRepartition
    <2>3. ComputedPartKeys(n) = << >>
        BY <1>3, <1>8 DEF IsRepartition
    <2>4. v[n] = AppendVirtCols(lops[n].virtcols, << >>)
        BY <2>1, <2>2, <2>3, NoKeys, EmptyOnce
    <2>5. CASE lops[n].virtcols = << >>
        BY <2>4, <2>5 DEF AppendVirtCols, Keeps
    <2> QED
        BY <1>7, <2>5
<1>9. RewriteOk(v)
    BY <1>5, <1>6, <1>7, <1>8 DEF RewriteOk
<1> QED
    BY <1>1, <1>2, <1>9, RewriteTree

LEMMA PushedTree ==
    ASSUME FormInv, FlowInv, TreeInv, PushdownJoinKeys
    PROVE  TreeInv'
<1>1. pc = "join_keys" /\ pc' = "compile" /\ query' = query /\ worklist' = worklist /\ Len(worklist) = 1
    BY DEF PushdownJoinKeys, FormInv, Shape
<1>2. PICK v : /\ Rewritten(v)
               /\ \A n \in DOMAIN lops :
                     \E w \in Seq(ExprKeys) :
                        /\ v[n] = AppendVirtCols(lops[n].virtcols, w)
                        /\ Parents(n) = {} => w = << >>
                        /\ Parents(n) # {} => \E m \in Parents(n) : w = LegKeys(m, n)
    BY PushedKeys DEF FormInv
<1>3. ASSUME NEW n \in DOMAIN lops, NEW m \in Parents(n)
      PROVE  /\ m \in DOMAIN lops
             /\ \/ LegKeys(m, n) = << >>
                \/ lops[m].lop = "HashJoin" /\ LegKeys(m, n) \in Seq(Exprs) /\ IsInjective(LegKeys(m, n))
    <2>1. m \in DOMAIN lops
        BY DEF Parents
    <2>2. \/ LegKeys(m, n) = << >>
          \/ lops[m].lop = "HashJoin" /\ \E k \in 1 .. 2 : LegKeys(m, n) = lops[m].join_keys[k]
        BY LegKeysFacts DEF FormInv
    <2>3. lops[m].lop = "HashJoin" => JoinOk(lops[lops[m].children[1]], lops[lops[m].children[2]], lops[m])
        BY <2>1 DEF TreeInv, NodesOk, NodeOk
    <2> QED
        BY <2>1, <2>2, <2>3 DEF JoinOk, KeysPaired
<1>4. ASSUME NEW n \in DOMAIN lops, lops[n].virtcols # << >> PROVE Keeps(v, n)
    <2>1. PICK w \in Seq(ExprKeys) : v[n] = AppendVirtCols(lops[n].virtcols, w)
        BY <1>2
    <2>2. PICK u : u = lops[n].virtcols
        OBVIOUS
    <2>3. u \in Seq(ExprKeys)
        BY <2>2, LopIn DEF FormInv, LOPs
    <2>4. AppendVirtCols(u, w) = u
        BY <1>4, <2>2, <2>3, AppendVirtSame
    <2> QED
        BY <2>1, <2>2, <2>4 DEF Keeps
<1>5. ASSUME NEW n \in DOMAIN lops, lops[n].virtcols = << >>
      PROVE  \/ v[n] = << >>
             \/ \E m \in Parents(n) : lops[m].lop = "HashJoin" /\ v[n] \in Seq(Exprs) /\ IsInjective(v[n])
    <2>1. PICK w \in Seq(ExprKeys) :
              /\ v[n] = AppendVirtCols(lops[n].virtcols, w)
              /\ Parents(n) = {} => w = << >>
              /\ Parents(n) # {} => \E m \in Parents(n) : w = LegKeys(m, n)
        BY <1>2
    <2>2. v[n] = w
        BY <1>5, <2>1 DEF AppendVirtCols
    <2> QED
        BY <1>3, <2>1, <2>2
<1>6. ASSUME NEW n \in DOMAIN lops, IsData(lops, lops[n]) PROVE v[n] \in Seq(Exprs)
    <2>1. lops[n].virtcols \in Seq(Exprs)
        BY <1>6 DEF TreeInv, NodesOk, NodeOk
    <2> QED
        BY <1>4, <1>5, <2>1, EmptyOnce DEF Keeps
<1>7. ASSUME NEW m \in DOMAIN lops, lops[m].lop = "HashJoin", NEW k \in 1 .. 2, NEW n, n = lops[m].children[k]
      PROVE  IsInjective(v[n])
    <2>1. n \in DOMAIN lops
        BY <1>7, LegFacts
    <2>2. IsInjective(lops[n].virtcols)
        BY <1>7 DEF TreeInv, LegsOnce
    <2> QED
        BY <1>4, <1>5, <2>1, <2>2, EmptyOnce DEF Keeps
<1>8. ASSUME NEW n \in DOMAIN lops, \A m \in Parents(n) : lops[m].lop = "Aggregation" PROVE Keeps(v, n)
    BY <1>4, <1>5, <1>8 DEF Keeps
<1>9. RewriteOk(v)
    BY <1>4, <1>6, <1>7, <1>8 DEF RewriteOk
<1> QED
    BY <1>1, <1>2, <1>9, RewriteTree

LEMMA TreeInit == Init => TreeInv
<1> SUFFICES ASSUME Init PROVE TreeInv
    OBVIOUS
<1>1. pc = "scan" /\ DOMAIN lops = {}
    BY DEF Init
<1> QED
    BY <1>1 DEF TreeInv, NodesOk, Covered, LegsOnce, RootInv

\* A step that leaves the plan as it is.
LEMMA TreeStill ==
    ASSUME TreeInv, UNCHANGED <<query, lops, worklist>>,
           pc' = "agg" => pc = "agg",
           pc' \in {"repartition_keys", "join_keys", "compile", "compiled"} =>
              \/ pc \in {"repartition_keys", "join_keys", "compile", "compiled"}
              \/ pc = "agg" /\ query.key_len = 0
    PROVE  TreeInv'
<1>1. PICK g, w : g = lops /\ w = worklist[1]
    OBVIOUS
<1>2. NodesOk'
    BY SameNode DEF TreeInv, NodesOk
<1>3. Covered'
    BY DEF TreeInv, Covered
<1>4. LegsOnce'
    BY DEF TreeInv, LegsOnce, IsInjective
<1>5. RootInv'
    <2>1. pc' = "agg" => JoinRoot(g[w])'
        BY <1>1, SameRoot DEF TreeInv, RootInv
    <2>2. pc' \in {"repartition_keys", "join_keys", "compile", "compiled"} => PlanOf(g, g[w])
        BY <1>1 DEF TreeInv, RootInv, PlanOf
    <2>3. pc' \in {"repartition_keys", "join_keys", "compile", "compiled"} => PlanOf(g, g[w])'
        BY <2>2, SamePlan
    <2> QED
        BY <1>1, <2>1, <2>3 DEF RootInv
<1> QED
    BY <1>2, <1>3, <1>4, <1>5 DEF TreeInv

LEMMA TreeNext ==
    ASSUME FormInv, QunInv, FlowInv, TreeInv, [Next]_vars, FormInv', FlowInv'
    PROVE  TreeInv'
<1>1. CASE BuildScan
    BY <1>1, ScanTree
<1>2. CASE Join
    BY <1>2, JoinTree
<1>3. CASE NoJoin
    BY <1>3, TreeStill DEF NoJoin
<1>4. CASE JoinsDone
    BY <1>4, DoneTree
<1>5. CASE NoAggregation
    BY <1>5, TreeStill DEF NoAggregation
<1>6. CASE AggregateOnce
    BY <1>6, OnceTree
<1>7. CASE AggregateTwice
    BY <1>7, TwiceTree
<1>8. CASE AddRepartitioningKeys
    BY <1>8, AddedTree
<1>9. CASE PushdownJoinKeys
    BY <1>9, PushedTree
<1>10. CASE Compiles
    BY <1>10, CompilesPlan, TreeStill
<1>11. CASE Terminated \/ UNCHANGED vars
    BY <1>11, TreeStill DEF Terminated, vars
<1> QED
    BY <1>1, <1>2, <1>3, <1>4, <1>5, <1>6, <1>7, <1>8, <1>9, <1>10, <1>11 DEF Next, Compiles

-----------------------------------------------------------------------------
(* The operators of the plan: each LOP has been compiled. *)

IsPop(pop, n) == \E qun \in lops[n].quns : \E call \in Calls : Binds(n, qun) /\ pop = Pop(n, qun, call)

\* The LOPs that have been compiled or are to be, and those whose inputs are among them.
Reached == DOMAIN pops \union {c.lop : c \in ToSet(stack)}
Entered == DOMAIN pops \union {c.lop : c \in {d \in ToSet(stack) : d.entered}}

PopInv ==
    /\ \A n \in DOMAIN pops : n \in DOMAIN lops /\ IsPop(pops[n], n)
    /\ pc \in {"compile", "compiled"} /\ stages # << >> => worklist[1] \in Reached
    /\ \A n \in Entered : \A k \in DOMAIN lops[n].children : lops[n].children[k] \in Reached

AnyOf(S) == CHOOSE x \in S : TRUE

LEMMA SameMaps ==
    ASSUME query' = query, lops' = lops, NEW n, NEW qun
    PROVE  /\ OutputMap(n)' = OutputMap(n) /\ InputMap(n, qun)' = InputMap(n, qun)
           /\ \A map, e : Compilable(map, e)' <=> Compilable(map, e)
           /\ \A map, e : Compile(map, e)' = Compile(map, e)
           /\ \A e : KeyProjection(e)' = KeyProjection(e)
<1>1. query' = query /\ lops' = lops
    OBVIOUS
<1>2. \A m : OutputMap(m)' = OutputMap(m)
    BY <1>1 DEF OutputMap
<1>3. InputCols(qun)' = InputCols(qun)
    BY <1>1 DEF InputCols, SelectCols, PredsCols, PredCols, Pred
<1>4. InputMap(n, qun)' = InputMap(n, qun)
    BY <1>1, <1>2, <1>3, Zenon DEF InputMap
<1>5. \A e : ExprOf(e)' = ExprOf(e)
    BY <1>1 DEF ExprOf, Pred
<1>6. \A map, e : Compilable(map, e)' <=> Compilable(map, e)
    BY <1>5 DEF Compilable
<1>7. ASSUME NEW map, NEW e PROVE Compile(map, e)' = Compile(map, e)
    <2>1. ExprOf(e)' = ExprOf(e)
        BY <1>5
    <2> QED
        BY <1>1, <2>1 DEF Compile
<1>8. ASSUME NEW e PROVE KeyProjection(e)' = KeyProjection(e)
    <2>1. ExprOf(e)' = ExprOf(e)
        BY <1>5
    <2>2. IsColumn(e)' <=> IsColumn(e)
        BY <2>1 DEF IsColumn
    <2>3. KeyProjection(e) = IF IsColumn(e) THEN QunCol(AnyOf(ExprOf(e).cols)) ELSE VirtCol(e)
        BY DEF KeyProjection, AnyOf
    <2>4. KeyProjection(e)' = IF IsColumn(e)' THEN QunCol(AnyOf(ExprOf(e)'.cols)) ELSE VirtCol(e)
        BY DEF KeyProjection, AnyOf
    <2> QED
        BY <2>1, <2>2, <2>3, <2>4
<1> QED
    BY <1>2, <1>4, <1>6, <1>7, <1>8

LEMMA SamePop ==
    ASSUME query' = query, lops' = lops, NEW n, NEW qun, NEW call
    PROVE  /\ Binds(n, qun)' <=> Binds(n, qun)
           /\ Pop(n, qun, call)' = Pop(n, qun, call)
<1>1. lops' = lops
    OBVIOUS
<1>2. PICK x : x = lops[n]
    OBVIOUS
<1>3. lops'[n] = x
    BY <1>1, <1>2
<1>4. \A m : OutputMap(m)' = OutputMap(m)
    BY SameMaps
<1>5. InputMap(n, qun)' = InputMap(n, qun) /\ IsRepartition(n)' = IsRepartition(n)
    BY <1>1, SameMaps DEF IsRepartition
<1>6. \A map, e : /\ Compilable(map, e)' <=> Compilable(map, e)
                  /\ Compile(map, e)' = Compile(map, e) /\ KeyProjection(e)' = KeyProjection(e)
    BY SameMaps
<1>7. Binds(n, qun)' <=> Binds(n, qun)
    BY <1>2, <1>3, <1>4, <1>5, <1>6, SMTT(30) DEF Binds, IsRepartition
<1>8. Pop(n, qun, call)' = Pop(n, qun, call)
    BY <1>2, <1>3, <1>4, <1>5, <1>6 DEF Pop
<1> QED
    BY <1>7, <1>8

LEMMA IsPopStays ==
    ASSUME query' = query, lops' = lops, NEW p, NEW n, IsPop(p, n)
    PROVE  IsPop(p, n)'
<1>1. PICK qun \in lops[n].quns : \E call \in Calls : Binds(n, qun) /\ p = Pop(n, qun, call)
    BY DEF IsPop
<1>2. PICK c \in Calls : Binds(n, qun) /\ p = Pop(n, qun, c)
    BY <1>1
<1>3. qun \in lops'[n].quns
    OBVIOUS
<1>4. Binds(n, qun)' /\ p = Pop(n, qun, c)'
    BY <1>2, SamePop
<1>5. \E q \in lops'[n].quns : \E d \in Calls : Binds(n, q)' /\ p = Pop(n, q, d)'
    BY <1>3, <1>4
<1> QED
    BY <1>5 DEF IsPop

LEMMA OldPops ==
    ASSUME PopInv, query' = query, lops' = lops, pops' = pops
    PROVE  \A n \in DOMAIN pops' : n \in DOMAIN lops' /\ IsPop(pops[n], n)'
<1>1. SUFFICES ASSUME NEW n \in DOMAIN pops PROVE n \in DOMAIN lops' /\ IsPop(pops[n], n)'
    OBVIOUS
<1>2. PICK p : p = pops[n]
    OBVIOUS
<1>3. IsPop(p, n) /\ n \in DOMAIN lops
    BY <1>2 DEF PopInv
<1>4. IsPop(p, n)'
    BY <1>3, IsPopStays
<1> QED
    BY <1>2, <1>3, <1>4

LEMMA PopInit == Init => PopInv
<1> SUFFICES ASSUME Init PROVE PopInv
    OBVIOUS
<1>1. DOMAIN pops = {} /\ ToSet(stack) = {} /\ pc = "scan"
    BY DEF Init, ToSet
<1> QED
    BY <1>1 DEF PopInv, Entered

\* Nothing is compiled before the plan is complete.
LEMMA NonePopped ==
    ASSUME CompileInv, pc' \notin {"compile", "compiled"} \/ pc \notin {"compile", "compiled", "panicked"},
           UNCHANGED <<stack, stages, pops>>, pc \notin {"compile", "compiled", "panicked"}
    PROVE  PopInv'
<1>1. stages' = << >> /\ stack' = << >> /\ DOMAIN pops' = {}
    BY DEF CompileInv
<1>2. ToSet(stack') = {}
    BY <1>1 DEF ToSet
<1> QED
    BY <1>1, <1>2 DEF PopInv, Entered

LEMMA FlowPops ==
    ASSUME FormInv, CompileInv, CompileFlow
    PROVE  PopInv'
<1>1. PICK w, c : w = worklist[1] /\ c = Call(w, 0)
    OBVIOUS
<1>2. stack' = <<c>> /\ DOMAIN pops' = {} /\ worklist' = worklist /\ c.lop = w /\ ~c.entered
    BY <1>1 DEF CompileFlow, CompileInv, Call
<1>3. ToSet(stack') = {c}
    BY <1>2 DEF ToSet
<1> QED
    BY <1>1, <1>2, <1>3 DEF PopInv, Reached, Entered

LEMMA CallPops ==
    ASSUME FormInv, CompileInv, PopInv, CompileCall
    PROVE  PopInv'
<1>1. PICK top : top = Head(stack)
    OBVIOUS
<1>2. PICK s : s = IF IsRepartition(top.lop) THEN NewStageId ELSE top.stage
    OBVIOUS
<1>3. PICK n, new : n = top.lop /\ new = [top EXCEPT !.entered = TRUE, !.stage = s]
    OBVIOUS
<1>4. PICK cs : cs = [i \in DOMAIN lops[n].children |-> Call(lops[n].children[i], s)]
    BY Zenon
<1>5. /\ pc = "compile" /\ stack # << >> /\ UNCHANGED <<query, pc, lops, worklist, pred_map, pops>>
      /\ stack' = cs \o <<new>> \o Tail(stack)
    BY <1>1, <1>2, <1>3, <1>4, Zenon DEF CompileCall
<1>6. stack \in Seq(Calls) /\ top \in Calls /\ ToSet(stack) = {top} \union ToSet(Tail(stack)) /\ top \in ToSet(stack)
    BY <1>1, <1>5, TopFacts
<1>7. s \in Nat
    <2>1. Len(stages) \in Nat
        BY StageFacts DEF CompileInv
    <2> QED
        BY <1>2, <1>6, <2>1 DEF NewStageId, Calls
<1>8. new \in Calls /\ new.lop = n /\ new.entered
    BY <1>3, <1>6, <1>7 DEF Calls
<1>9. n \in DOMAIN lops
    <2>1. PICK T : IsTasks(T)
        BY <1>5 DEF CompileInv
    <2> QED
        BY <1>3, <1>6, <2>1 DEF IsTasks, CallOk
<1>10. cs \in Seq(Calls) /\ \A c \in ToSet(cs) : \E k \in DOMAIN lops[n].children :
                                 c.lop = lops[n].children[k] /\ ~c.entered
    BY <1>4, <1>7, <1>9, ChildCalls DEF FormInv
<1>11. ToSet(stack') = ToSet(cs) \union {new} \union ToSet(Tail(stack))
    <2>1. IsSpliced(stack', Calls, cs, new, stack)
        BY <1>5, <1>6, <1>8, <1>10, Spliced
    <2> QED
        BY <2>1 DEF IsSpliced
<1>12. \A k \in DOMAIN lops[n].children : \E c \in ToSet(cs) : c.lop = lops[n].children[k]
    BY <1>4 DEF ToSet, Call
<1>13. Reached \subseteq Reached'
    BY <1>3, <1>5, <1>6, <1>8, <1>11 DEF Reached
<1>14. \A k \in DOMAIN lops[n].children : lops[n].children[k] \in Reached'
    BY <1>11, <1>12 DEF Reached
<1>15. \A m \in Entered' : m = n \/ m \in Entered
    <2>1. \A c \in ToSet(stack') : c.entered => c = new \/ c \in ToSet(stack)
        BY <1>6, <1>10, <1>11
    <2> QED
        BY <1>5, <1>8, <2>1 DEF Entered
<1>16. \A m \in Entered' : \A k \in DOMAIN lops[m].children : lops[m].children[k] \in Reached'
    BY <1>13, <1>14, <1>15 DEF PopInv
<1>17. worklist[1] \in Reached'
    <2>1. stages # << >>
        BY <1>5 DEF CompileInv
    <2> QED
        BY <1>5, <1>13, <2>1 DEF PopInv
<1>18. \A m \in DOMAIN pops' : m \in DOMAIN lops' /\ IsPop(pops[m], m)'
    BY <1>5, OldPops
<1> QED
    BY <1>5, <1>16, <1>17, <1>18 DEF PopInv

LEMMA ReturnPops ==
    ASSUME FormInv, CompileInv, PopInv, CompileReturn
    PROVE  PopInv'
<1>1. PICK top, n : top = Head(stack) /\ n = top.lop
    OBVIOUS
<1>2. /\ pc = "compile" /\ stack # << >> /\ top.entered /\ stack' = Tail(stack)
      /\ query' = query /\ lops' = lops /\ worklist' = worklist
    BY <1>1 DEF CompileReturn
<1>3. PICK qun \in lops[n].quns :
          /\ Binds(n, qun)
          /\ pops' = [m \in DOMAIN pops \union {n} |-> IF m = n THEN Pop(n, qun, top) ELSE pops[m]]
    BY <1>1 DEF CompileReturn
<1>4. top \in Calls /\ ToSet(stack) = {top} \union ToSet(Tail(stack)) /\ top \in ToSet(stack)
    BY <1>1, <1>2, TopFacts
<1>5. n \in DOMAIN lops
    <2>1. PICK T : IsTasks(T)
        BY <1>2 DEF CompileInv
    <2> QED
        BY <1>1, <1>4, <2>1 DEF IsTasks, CallOk
<1>6. DOMAIN pops' = DOMAIN pops \union {n} /\ \A m \in DOMAIN pops' : pops'[m] = IF m = n THEN Pop(n, qun, top) ELSE pops[m]
    BY <1>3
<1>7. Reached \subseteq Reached'
    BY <1>1, <1>2, <1>4, <1>6 DEF Reached
<1>8. Entered' \subseteq Entered
    BY <1>1, <1>2, <1>4, <1>6 DEF Entered
<1>9. \A m \in DOMAIN pops' : m \in DOMAIN lops /\ IsPop(pops'[m], m)
    BY <1>3, <1>4, <1>5, <1>6 DEF PopInv, IsPop
<1>10. \A m \in DOMAIN pops' : m \in DOMAIN lops' /\ IsPop(pops[m], m)'
    <2>1. ASSUME NEW m \in DOMAIN pops' PROVE IsPop(pops[m], m)'
        <3>1. PICK p : p = pops'[m]
            OBVIOUS
        <3>2. IsPop(p, m)
            BY <1>9, <2>1, <3>1
        <3>3. IsPop(p, m)'
            BY <1>2, <3>2, IsPopStays
        <3> QED
            BY <3>1, <3>3
    <2> QED
        BY <1>2, <1>9, <2>1
<1>11. worklist[1] \in Reached'
    <2>1. stages # << >>
        BY <1>2 DEF CompileInv
    <2> QED
        BY <1>2, <1>7, <2>1 DEF PopInv
<1>12. \A m \in Entered' : \A k \in DOMAIN lops[m].children : lops[m].children[k] \in Reached'
    BY <1>7, <1>8 DEF PopInv
<1> QED
    BY <1>2, <1>10, <1>11, <1>12 DEF PopInv

LEMMA PopNext == FormInv /\ CompileInv /\ PopInv /\ [Next]_vars => PopInv'
<1> SUFFICES ASSUME FormInv, CompileInv, PopInv, [Next]_vars PROVE PopInv'
    BY Zenon
<1>1. CASE BuildScan \/ Join \/ NoJoin \/ JoinsDone
    BY <1>1, NonePopped, Zenon DEF BuildScan, Join, NoJoin, JoinsDone
<1>2. CASE NoAggregation \/ AggregateOnce \/ AggregateTwice \/ AddRepartitioningKeys \/ PushdownJoinKeys
    BY <1>2, NonePopped DEF NoAggregation, AggregateOnce, AggregateTwice, AddRepartitioningKeys, PushdownJoinKeys
<1>3. CASE CompileFlow
    BY <1>3, FlowPops
<1>4. CASE CompileCall
    BY <1>4, CallPops
<1>5. CASE CompileReturn
    BY <1>5, ReturnPops
<1>6. CASE CompilePanics \/ Terminated \/ UNCHANGED vars
    <2>1. UNCHANGED <<query, lops, worklist, stack, stages, pops>> /\ (pc' = pc \/ pc' = "panicked")
        BY <1>6 DEF CompilePanics, Terminated, vars
    <2>2. Reached' = Reached /\ Entered' = Entered
        BY <2>1 DEF Reached, Entered
    <2> QED
        BY <2>1, <2>2, OldPops DEF PopInv
<1> QED
    BY <1>1, <1>2, <1>3, <1>4, <1>5, <1>6 DEF Next

\* When the plan has been compiled, all of it has been.
LEMMA AllPopped ==
    ASSUME FormInv, CompileInv, TreeInv, PopInv, pc = "compiled"
    PROVE  /\ DOMAIN pops = DOMAIN lops
           /\ \A n \in DOMAIN lops : IsPop(pops[n], n)
<1>1. stack = << >> /\ stages # << >> /\ Len(worklist) = 1
    BY DEF CompileInv, FormInv, Shape
<1>2. ToSet(stack) = {}
    BY <1>1 DEF ToSet
<1>3. Reached = DOMAIN pops /\ Entered = DOMAIN pops
    BY <1>2 DEF Reached, Entered
<1>4. ToSet(worklist) = {worklist[1]}
    BY <1>1, RootFacts DEF FormInv
<1>5. worklist[1] \in DOMAIN pops /\ \A n \in DOMAIN pops : \A k \in DOMAIN lops[n].children : lops[n].children[k] \in DOMAIN pops
    BY <1>1, <1>3 DEF PopInv
<1>6. PICK N \in Nat : DOMAIN lops = 1 .. N
    BY LenProperties DEF FormInv, TypeInv
<1>7. PICK S : S = {i \in Nat : \A n \in DOMAIN lops : N - n <= i => n \in DOMAIN pops}
    OBVIOUS
<1>8. ASSUME NEW n \in DOMAIN lops, \A m \in DOMAIN lops : m > n => m \in DOMAIN pops PROVE n \in DOMAIN pops
    <2>1. CASE n \in ToSet(worklist)
        BY <1>4, <1>5, <2>1
    <2>2. CASE n \notin ToSet(worklist)
        <3>1. PICK m \in DOMAIN lops : \E k \in DOMAIN lops[m].children : lops[m].children[k] = n
            BY <2>2 DEF TreeInv, Covered
        <3>2. PICK k \in DOMAIN lops[m].children : lops[m].children[k] = n
            BY <3>1
        <3>3. n < m
            BY <3>2, ChildFacts DEF FormInv
        <3>4. m > n
            BY <1>6, <3>3
        <3> QED
            BY <1>5, <1>8, <3>2, <3>4
    <2> QED
        BY <2>1, <2>2
<1>9. 0 \in S
    <2>1. ASSUME NEW n \in DOMAIN lops, N - n <= 0 PROVE n \in DOMAIN pops
        <3>1. \A m \in DOMAIN lops : ~(m > n)
            BY <1>6, <2>1
        <3> QED
            BY <1>8, <3>1
    <2> QED
        BY <1>7, <2>1
<1>10. \A i \in Nat : i \in S => i + 1 \in S
    <2>1. ASSUME NEW i \in Nat, i \in S, NEW n \in DOMAIN lops, N - n <= i + 1 PROVE n \in DOMAIN pops
        <3>1. \A m \in DOMAIN lops : m > n => N - m <= i
            BY <1>6, <2>1
        <3> QED
            BY <1>7, <1>8, <2>1, <3>1
    <2> QED
        BY <1>7, <2>1
<1>11. Nat \subseteq S
    BY <1>9, <1>10, NatInd
<1>12. DOMAIN lops \subseteq DOMAIN pops
    <2>1. N \in S
        BY <1>11
    <2>2. \A n \in DOMAIN lops : N - n <= N
        BY <1>6
    <2> QED
        BY <1>7, <2>1, <2>2
<1> QED
    BY <1>12 DEF PopInv

-----------------------------------------------------------------------------
(* What is written to the files of a repartitioning is laid out as what is read, as far as
   its keys are concerned, which are compiled for the chunks of its input. *)

IsEarly == pc \in {"scan", "join", "agg", "repartition_keys"}

WriteOk(c, x, early) ==
    /\ x.cols = c.cols
    /\ c.virtcols = << >> \/ c.virtcols = x.virtcols
    /\ early => c.virtcols = << >> /\ x.virtcols = << >>

IsDataWrite(g, x) == x.lop = "Repartition" /\ g[x.children[1]].lop # "Aggregation"

WriteInv == \A n \in DOMAIN lops : IsDataWrite(lops, lops[n]) => WriteOk(lops[lops[n].children[1]], lops[n], IsEarly)

LEMMA WriteInit == Init => WriteInv
BY DEF Init, WriteInv

LEMMA WriteInput ==
    ASSUME FormInv, NEW n \in DOMAIN lops, lops[n].lop = "Repartition"
    PROVE  lops[n].children[1] \in DOMAIN lops /\ 1 \in DOMAIN lops[n].children
<1>1. lops[n] \in LOPs /\ Len(lops[n].children) = 1
    BY LopIn DEF FormInv, Shape, Arity
<1>2. 1 \in DOMAIN lops[n].children
    BY <1>1, LenProperties DEF LOPs
<1> QED
    BY <1>2, ChildFacts DEF FormInv

\* A step that leaves the LOPs as they are, and may put some on top.
LEMMA WriteStays ==
    ASSUME FormInv, WriteInv, IsEarly' => IsEarly, \A n \in DOMAIN lops : lops'[n] = lops[n],
           \A n \in DOMAIN lops' \ DOMAIN lops :
              IsDataWrite(lops', lops'[n]) => WriteOk(lops'[lops'[n].children[1]], lops'[n], IsEarly')
    PROVE  WriteInv'
<1> SUFFICES ASSUME NEW n \in DOMAIN lops', IsDataWrite(lops', lops'[n])
             PROVE  WriteOk(lops'[lops'[n].children[1]], lops'[n], IsEarly')
    BY DEF WriteInv, IsDataWrite
<1>1. CASE n \in DOMAIN lops
    <2>1. PICK c : c = lops[n].children[1]
        OBVIOUS
    <2>2. lops'[n] = lops[n] /\ lops[n].lop = "Repartition"
        BY <1>1 DEF IsDataWrite
    <2>3. c \in DOMAIN lops /\ lops'[c] = lops[c]
        BY <1>1, <2>1, <2>2, WriteInput
    <2>4. WriteOk(lops[c], lops[n], IsEarly)
        BY <1>1, <2>1, <2>2, <2>3 DEF WriteInv, IsDataWrite
    <2> QED
        BY <2>1, <2>2, <2>3, <2>4 DEF WriteOk
<1>2. CASE n \notin DOMAIN lops
    BY <1>2
<1> QED
    BY <1>1, <1>2

LEMMA JoinWrites ==
    ASSUME FormInv, FlowInv, WriteInv, Join
    PROVE  WriteInv'
<1>1. PICK l, r, newl, newr, legs, equi, keys, join : Joins(l, r, newl, newr, legs, equi, keys, join)
    BY JoinEffect DEF FormInv
<1>2. PICK N, h : N = Len(legs) /\ h = lops'
    OBVIOUS
<1>3. /\ l \in DOMAIN lops /\ r \in DOMAIN lops
      /\ \A n \in DOMAIN lops : h[n] = lops[n]
      /\ h[N + 1] = join
      /\ newl = l \/ (newl \notin DOMAIN lops /\ h[newl] = Repartition(l, keys[1]))
      /\ newr = r \/ (newr \notin DOMAIN lops /\ h[newr] = Repartition(r, keys[2]))
      /\ \A n \in DOMAIN h : n \in DOMAIN lops \/ n = newl \/ n = newr \/ n = N + 1
    BY <1>1, <1>2, JoinCases DEF FormInv
<1>4. join.lop = "HashJoin"
    BY <1>1, JoinFields
<1>5. pc = "join" /\ pc' = pc
    BY <1>1 DEF Joins
<1>6. lops[l].virtcols = << >> /\ lops[r].virtcols = << >>
    BY <1>3, <1>5 DEF FlowInv, LegsReady
<1>7. ASSUME NEW c \in {l, r}, NEW k, NEW x, x = Repartition(c, k)
      PROVE  x.children[1] = c /\ WriteOk(h[c], x, IsEarly')
    <2>1. x.children = <<c>> /\ x.cols = lops[c].cols /\ x.virtcols = << >>
        BY <1>7, RepartitionFields
    <2>2. h[c] = lops[c]
        BY <1>3
    <2> QED
        BY <1>6, <2>1, <2>2 DEF WriteOk
<1>8. ASSUME NEW n \in DOMAIN h, n \notin DOMAIN lops, IsDataWrite(h, h[n])
      PROVE  WriteOk(h[h[n].children[1]], h[n], IsEarly')
    <2>1. h[n].lop = "Repartition"
        BY <1>8 DEF IsDataWrite
    <2>2. n \in {newl, newr}
        BY <1>3, <1>4, <1>8, <2>1
    <2>3. CASE n = newl
        BY <1>3, <1>7, <1>8, <2>3
    <2>4. CASE n = newr
        BY <1>3, <1>7, <1>8, <2>4
    <2> QED
        BY <2>2, <2>3, <2>4
<1> QED
    BY <1>2, <1>3, <1>5, <1>8, WriteStays DEF IsEarly

LEMMA DoneWrites ==
    ASSUME FormInv, WriteInv, JoinsDone
    PROVE  WriteInv'
<1>1. PICK w, g, h : w = worklist[1] /\ g = lops /\ h = lops'
    OBVIOUS
<1>2. /\ pc = "join" /\ pc' = "agg" /\ Len(worklist) = 1 /\ DOMAIN h = DOMAIN g
      /\ \A n \in DOMAIN g : n # w => h[n] = g[n]
      /\ h[w].lop = g[w].lop
    BY <1>1, DoneEffect DEF FormInv
<1>3. w \in DOMAIN g /\ g[w].lop # "Repartition" /\ w \in ToSet(worklist)
    BY <1>1, <1>2, RootFacts DEF FormInv
<1> SUFFICES ASSUME NEW n \in DOMAIN h, IsDataWrite(h, h[n])
             PROVE  WriteOk(h[h[n].children[1]], h[n], IsEarly')
    BY <1>1 DEF WriteInv, IsDataWrite
<1>4. n # w /\ n \in DOMAIN g /\ h[n] = g[n] /\ g[n].lop = "Repartition"
    BY <1>2, <1>3 DEF IsDataWrite
<1>5. PICK c : c = g[n].children[1]
    OBVIOUS
<1>6. c \in DOMAIN g /\ c # w
    BY <1>1, <1>3, <1>4, <1>5, WriteInput, ChildFacts DEF FormInv
<1>7. h[c] = g[c]
    BY <1>2, <1>6
<1>8. WriteOk(g[c], g[n], IsEarly)
    BY <1>1, <1>4, <1>5, <1>7 DEF WriteInv, IsDataWrite
<1>9. IsEarly
    BY <1>2 DEF IsEarly
<1> QED
    BY <1>4, <1>5, <1>7, <1>8, <1>9 DEF WriteOk

LEMMA TwiceWrites ==
    ASSUME FormInv, WriteInv, AggregateTwice
    PROVE  WriteInv'
<1>1. PICK N, g, h : N = Len(lops) /\ g = lops /\ h = lops'
    OBVIOUS
<1>2. pc = "agg" /\ pc' = "repartition_keys"
    BY TwiceEffect DEF FormInv
<1>3. PICK a, b, c : Twice(a, b, c)
    BY TwiceEffect DEF FormInv
<1>4. /\ h[N + 1] = a /\ h[N + 2] = b /\ h[N + 3] = c
      /\ \A n \in DOMAIN g : h[n] = g[n]
    BY <1>1, <1>3 DEF Twice
<1>5. \A n \in DOMAIN h : n \in DOMAIN g \/ n = N + 1 \/ n = N + 2 \/ n = N + 3
    <2>1. N \in Nat /\ DOMAIN g = 1 .. N
        BY <1>1, LenProperties DEF FormInv, TypeInv
    <2>2. DOMAIN h = 1 .. N + 3
        BY <1>1, <1>3 DEF Twice
    <2> QED
        BY <2>1, <2>2
<1>6. a.lop = "Aggregation" /\ c.lop = "Aggregation" /\ b.children[1] = N + 1
    BY <1>1, <1>3 DEF Twice
<1>7. \A n \in DOMAIN h : n \notin DOMAIN g => ~IsDataWrite(h, h[n])
    BY <1>4, <1>5, <1>6 DEF IsDataWrite
<1> QED
    BY <1>1, <1>2, <1>4, <1>7, WriteStays DEF IsEarly

LEMMA OnceWrites ==
    ASSUME FormInv, WriteInv, AggregateOnce
    PROVE  WriteInv'
<1>1. pc = "agg"
    BY OnceEffect DEF FormInv
<1>2. PICK x \in LOPs : lops' = Append(lops, x) /\ x.lop = "Aggregation"
    BY OnceEffect DEF FormInv
<1>3. /\ \A n \in DOMAIN lops : lops'[n] = lops[n]
      /\ \A n \in DOMAIN lops' : n \in DOMAIN lops \/ lops'[n] = x
    BY <1>2, Appended DEF FormInv
<1>4. \A n \in DOMAIN lops' : n \notin DOMAIN lops => ~IsDataWrite(lops', lops'[n])
    BY <1>2, <1>3 DEF IsDataWrite
<1> QED
    BY <1>1, <1>3, <1>4, WriteStays DEF IsEarly

LEMMA ScanWrites ==
    ASSUME FormInv, WriteInv, BuildScan
    PROVE  WriteInv'
<1>1. pc = "scan"
    BY ScanEffect DEF FormInv
<1>2. PICK x \in LOPs : lops' = Append(lops, x) /\ x.lop = "TableScan"
    BY ScanEffect DEF FormInv
<1>3. /\ \A n \in DOMAIN lops : lops'[n] = lops[n]
      /\ \A n \in DOMAIN lops' : n \in DOMAIN lops \/ lops'[n] = x
    BY <1>2, Appended DEF FormInv
<1>4. \A n \in DOMAIN lops' : n \notin DOMAIN lops => ~IsDataWrite(lops', lops'[n])
    BY <1>2, <1>3 DEF IsDataWrite
<1> QED
    BY <1>1, <1>3, <1>4, WriteStays DEF IsEarly

\* The one parent of the input of a repartitioning is that, and its own parent is none.
LEMMA WriteParents ==
    ASSUME FormInv, TreeInv, NEW n \in DOMAIN lops, IsDataWrite(lops, lops[n]), NEW c, c = lops[n].children[1]
    PROVE  /\ c \in DOMAIN lops /\ Parents(c) = {n} /\ lops[c].lop # "Repartition"
           /\ \A m \in Parents(n) : m \in DOMAIN lops /\ lops[m].lop # "Repartition"
<1>1. lops[n].lop = "Repartition"
    BY DEF IsDataWrite
<1>2. c \in DOMAIN lops /\ Parents(c) = {n}
    BY <1>1, WriteInput, ParentFacts
<1>3. lops[c].lop # "Repartition"
    BY <1>1 DEF TreeInv, NodesOk, NodeOk, RepartitionOk
<1>4. ASSUME NEW m \in Parents(n) PROVE m \in DOMAIN lops /\ lops[m].lop # "Repartition"
    <2>1. m \in DOMAIN lops /\ n \in ToSet(lops[m].children)
        BY DEF Parents
    <2>2. SUFFICES ASSUME lops[m].lop = "Repartition" PROVE FALSE
        BY <2>1
    <2>3. lops[m] \in LOPs /\ Len(lops[m].children) = 1
        BY <2>1, <2>2, LopIn DEF FormInv, Shape, Arity
    <2>4. DOMAIN lops[m].children = {1}
        BY <2>3, LenProperties DEF LOPs
    <2>5. lops[m].children[1] = n
        BY <2>1, <2>4 DEF ToSet
    <2> QED
        BY <1>1, <2>1, <2>2, <2>5 DEF TreeInv, NodesOk, NodeOk, RepartitionOk
<1> QED
    BY <1>2, <1>3, <1>4

\* The virtual columns v of a rewrite are, at a repartitioning, those at its input, or there
\* are none there.
LEMMA RewriteWrites ==
    ASSUME FormInv, WriteInv, NEW v, Rewritten(v), ~IsEarly',
           \A n \in DOMAIN lops : IsDataWrite(lops, lops[n]) =>
              v[lops[n].children[1]] = << >> \/ v[lops[n].children[1]] = v[n]
    PROVE  WriteInv'
<1>1. PICK h : h = lops'
    OBVIOUS
<1>2. /\ DOMAIN h = DOMAIN lops
      /\ \A n \in DOMAIN lops : h[n].virtcols = v[n] /\ h[n].lop = lops[n].lop /\ h[n].cols = lops[n].cols
                                /\ h[n].children = lops[n].children
    BY <1>1, RewrittenFacts DEF FormInv
<1> SUFFICES ASSUME NEW n \in DOMAIN h, IsDataWrite(h, h[n]) PROVE WriteOk(h[h[n].children[1]], h[n], IsEarly')
    BY <1>1 DEF WriteInv, IsDataWrite
<1>3. PICK c : c = lops[n].children[1]
    OBVIOUS
<1>4. n \in DOMAIN lops /\ lops[n].lop = "Repartition" /\ h[n].children[1] = c
    BY <1>2, <1>3 DEF IsDataWrite
<1>5. c \in DOMAIN lops
    BY <1>3, <1>4, WriteInput
<1>6. IsDataWrite(lops, lops[n])
    BY <1>2, <1>3, <1>4, <1>5 DEF IsDataWrite
<1>7. WriteOk(lops[c], lops[n], IsEarly) /\ (v[c] = << >> \/ v[c] = v[n])
    BY <1>3, <1>4, <1>6 DEF WriteInv
<1> QED
    BY <1>2, <1>4, <1>5, <1>7 DEF WriteOk

LEMMA AddedWrites ==
    ASSUME FormInv, TreeInv, WriteInv, AddRepartitioningKeys
    PROVE  WriteInv'
<1>1. pc = "repartition_keys" /\ pc' = "join_keys"
    BY DEF AddRepartitioningKeys
<1>2. PICK v : /\ Rewritten(v)
               /\ \A n \in DOMAIN lops :
                     \E w \in Seq(ExprKeys) :
                        /\ v[n] = AppendVirtCols(lops[n].virtcols, ComputedPartKeys(n) \o w)
                        /\ Parents(n) = {} => w = << >>
                        /\ Parents(n) # {} => \E m \in Parents(n) : w = ComputedPartKeys(m)
    BY AddedKeys DEF FormInv
<1>3. \A m \in DOMAIN lops : ~IsRepartition(m) => ComputedPartKeys(m) = << >>
    BY DEF ComputedPartKeys
<1>4. ASSUME NEW n \in DOMAIN lops, IsDataWrite(lops, lops[n]) PROVE v[lops[n].children[1]] = v[n]
    <2>1. PICK c : c = lops[n].children[1]
        OBVIOUS
    <2>2. /\ c \in DOMAIN lops /\ Parents(c) = {n} /\ lops[c].lop # "Repartition"
          /\ \A m \in Parents(n) : m \in DOMAIN lops /\ lops[m].lop # "Repartition"
        BY <1>4, <2>1, WriteParents
    <2>3. lops[c].virtcols = << >> /\ lops[n].virtcols = << >>
        BY <1>1, <1>4, <2>1 DEF WriteInv, WriteOk, IsEarly
    <2>4. PICK own : own = ComputedPartKeys(n)
        OBVIOUS
    <2>5. own \in Seq(ExprKeys)
        BY <2>4, PartKeysFacts DEF FormInv
    <2>6. v[c] = own
        <3>1. PICK w \in Seq(ExprKeys) :
                  v[c] = AppendVirtCols(lops[c].virtcols, ComputedPartKeys(c) \o w) /\ w = own
            BY <1>2, <2>2, <2>4
        <3>2. ComputedPartKeys(c) = << >>
            BY <1>3, <2>2 DEF IsRepartition
        <3> QED
            BY <2>3, <2>5, <3>1, <3>2, NoKeys DEF AppendVirtCols
    <2>7. v[n] = own
        <3>1. PICK w \in Seq(ExprKeys) :
                  /\ v[n] = AppendVirtCols(lops[n].virtcols, own \o w)
                  /\ Parents(n) = {} => w = << >>
                  /\ Parents(n) # {} => \E m \in Parents(n) : w = ComputedPartKeys(m)
            BY <1>2, <2>4
        <3>2. w = << >>
            BY <1>3, <2>2, <3>1 DEF IsRepartition
        <3> QED
            BY <2>3, <2>5, <3>1, <3>2, NoKeys DEF AppendVirtCols
    <2> QED
        BY <2>1, <2>6, <2>7
<1> QED
    BY <1>1, <1>2, <1>4, RewriteWrites DEF IsEarly

LEMMA PushedWrites ==
    ASSUME FormInv, TreeInv, WriteInv, PushdownJoinKeys
    PROVE  WriteInv'
<1>1. pc' = "compile"
    BY DEF PushdownJoinKeys
<1>2. PICK v : /\ Rewritten(v)
               /\ \A n \in DOMAIN lops :
                     \E w \in Seq(ExprKeys) :
                        /\ v[n] = AppendVirtCols(lops[n].virtcols, w)
                        /\ Parents(n) = {} => w = << >>
                        /\ Parents(n) # {} => \E m \in Parents(n) : w = LegKeys(m, n)
    BY PushedKeys DEF FormInv
<1>3. ASSUME NEW n \in DOMAIN lops, lops[n].virtcols # << >> PROVE v[n] = lops[n].virtcols
    <2>1. PICK w \in Seq(ExprKeys) : v[n] = AppendVirtCols(lops[n].virtcols, w)
        BY <1>2
    <2>2. PICK u : u = lops[n].virtcols
        OBVIOUS
    <2>3. u \in Seq(ExprKeys)
        BY <2>2, LopIn DEF FormInv, LOPs
    <2> QED
        BY <1>3, <2>1, <2>2, <2>3, AppendVirtSame
<1>4. ASSUME NEW n \in DOMAIN lops, IsDataWrite(lops, lops[n]), NEW c, c = lops[n].children[1]
      PROVE  v[c] = << >> \/ v[c] = v[n]
    <2>1. c \in DOMAIN lops /\ Parents(c) = {n}
        BY <1>4, WriteParents
    <2>2. PICK w \in Seq(ExprKeys) : v[c] = AppendVirtCols(lops[c].virtcols, w) /\ w = LegKeys(n, c)
        BY <1>2, <2>1
    <2>3. w = << >>
        <3>1. n \in Parents(c) /\ lops[n].lop # "HashJoin"
            BY <1>4, <2>1 DEF IsDataWrite
        <3> QED
            BY <2>2, <3>1, LegKeysFacts DEF FormInv
    <2>4. CASE lops[c].virtcols = << >>
        BY <2>2, <2>3, <2>4 DEF AppendVirtCols
    <2>5. CASE lops[c].virtcols # << >>
        <3>1. lops[n].virtcols = lops[c].virtcols
            BY <1>4, <2>5 DEF WriteInv, WriteOk
        <3> QED
            BY <1>3, <2>1, <2>5, <3>1
    <2> QED
        BY <2>4, <2>5
<1> QED
    BY <1>1, <1>2, <1>4, RewriteWrites DEF IsEarly

LEMMA WriteNext ==
    ASSUME FormInv, FlowInv, TreeInv, WriteInv, [Next]_vars
    PROVE  WriteInv'
<1>1. CASE BuildScan
    BY <1>1, ScanWrites
<1>2. CASE Join
    BY <1>2, JoinWrites
<1>3. CASE NoJoin
    BY <1>3, WriteStays DEF NoJoin, IsEarly
<1>4. CASE JoinsDone
    BY <1>4, DoneWrites
<1>5. CASE NoAggregation
    BY <1>5, WriteStays DEF NoAggregation, IsEarly
<1>6. CASE AggregateOnce
    BY <1>6, OnceWrites
<1>7. CASE AggregateTwice
    BY <1>7, TwiceWrites
<1>8. CASE AddRepartitioningKeys
    BY <1>8, AddedWrites
<1>9. CASE PushdownJoinKeys
    BY <1>9, PushedWrites
<1>10. CASE Compiles
    <2>1. lops' = lops /\ (IsEarly' => IsEarly)
        BY <1>10, CompilesPlan DEF IsEarly
    <2> QED
        BY <2>1, WriteStays
<1>11. CASE Terminated \/ UNCHANGED vars
    BY <1>11, WriteStays DEF Terminated, vars, IsEarly
<1> QED
    BY <1>1, <1>2, <1>3, <1>4, <1>5, <1>6, <1>7, <1>8, <1>9, <1>10, <1>11 DEF Next, Compiles

-----------------------------------------------------------------------------
(* All of it. *)

PlanInv == FormInv /\ PartInv /\ QunInv /\ FlowInv /\ PredInv /\ CompileInv /\ TreeInv /\ WriteInv /\ PopInv

LEMMA PlanInvariant == Spec => []PlanInv
<1>1. Init => PlanInv
    BY FormInit, PartInit, QunInit, FlowInit, PredInit, CompileInit, TreeInit, WriteInit, PopInit DEF PlanInv
<1>2. PlanInv /\ [Next]_vars => PlanInv'
    <2> SUFFICES ASSUME PlanInv, [Next]_vars PROVE PlanInv'
        OBVIOUS
    <2>1. FormInv' /\ PartInv' /\ QunInv' /\ FlowInv' /\ PredInv' /\ CompileInv'
        BY FormNext, PartNext, QunNext, FlowNext, PredNext, CompileNext DEF PlanInv
    <2>2. TreeInv'
        BY <2>1, TreeNext DEF PlanInv
    <2>3. WriteInv' /\ PopInv'
        BY WriteNext, PopNext DEF PlanInv
    <2> QED
        BY <2>1, <2>2, <2>3 DEF PlanInv
<1> QED
    BY <1>1, <1>2, PTL DEF Spec
=============================================================================
