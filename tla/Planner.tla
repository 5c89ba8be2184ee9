------------------------------ MODULE Planner ------------------------------
(***************************************************************************)
(* From a query to the stages of a flow (lop.rs, lop_repartition.rs,       *)
(* pop_compile.rs, stage.rs): scans, the greedy enumeration of joins with  *)
(* the repartitioning of their legs, aggregation in one or two steps, the  *)
(* rewrites that add join keys to projections, the cut of the plan into    *)
(* stages and its operators, which find their input by its position.       *)
(*                                                                         *)
(* A column is <<qun, colid>>.  An expression is a sum of columns and a    *)
(* number, and a predicate the equality of two expressions, which is as    *)
(* much as the planner tells apart.  An expression of the plan is named    *)
(* by its place in the query (ExprKey): two places are two expressions.    *)
(***************************************************************************)
EXTENDS Integers, Sequences, FiniteSets, SequencesExt

CONSTANT Queries

\* quns are 1 .. Len(parts), each a table of parts[qun] partitions; degree is
\* PARALLEL_DEGREE.  With GROUP BY, select is the list of the inner block, its first
\* key_len expressions are the keys, and the others are what aggs aggregates.
IsQuery(q) ==
    /\ q.parts \in Seq(Nat \ {0})
    /\ q.degree \in Nat \ {0}
    /\ q.preds \in Seq(ToSet(q.preds)) /\ q.select \in Seq(ToSet(q.select)) /\ q.aggs \in Seq(ToSet(q.aggs))
    /\ \A e \in ToSet(q.select) : e.cols \subseteq (DOMAIN q.parts) \X Nat
    /\ \A p \in ToSet(q.preds) : p.lhs.cols \union p.rhs.cols \subseteq (DOMAIN q.parts) \X Nat
    /\ q.key_len \in 0 .. Len(q.select)
    /\ Len(q.aggs) = IF q.key_len = 0 THEN 0 ELSE Len(q.select) - q.key_len
    /\ q.having => q.key_len > 0

ASSUME QueriesAssumption == \A q \in Queries : IsQuery(q)

VARIABLES
    query,
    pc,         \* "scan", "join", "agg", "repartition_keys", "join_keys", "compile",
                \* "compiled" or "panicked"
    lops,       \* LOPGraph: a sequence, children before parents
    worklist,   \* LOPs not joined yet
    pred_map,   \* the predicates of no LOP yet, as places in query.preds
    stack,      \* the calls of compile_lop
    stages,     \* StageGraph.stages
    pops        \* the operators of all stages, by their LOPs

vars == <<query, pc, lops, worklist, pred_map, stack, stages, pops>>

Quns == DOMAIN query.parts
Pred(i) == query.preds[i]
QunsOf(e) == {c[1] : c \in e.cols}
PredCols(i) == Pred(i).lhs.cols \union Pred(i).rhs.cols
PredQuns(i) == {c[1] : c \in PredCols(i)}
PredsCols(S) == UNION {PredCols(i) : i \in S}
SelectCols == UNION {e.cols : e \in ToSet(query.select)}

\* ExprKeys: the sides of a predicate, the select list, references to a column of the
\* input of an aggregation (CID), and the aggregates before and after a repartitioning.
Lhs(i) == <<"lhs", i>>
Rhs(i) == <<"rhs", i>>
SelectList == [i \in DOMAIN query.select |-> <<"select", i>>]
Keys == [i \in 1 .. query.key_len |-> <<"CID", i>>]
Aggregates(step) == [i \in DOMAIN query.aggs |-> <<step, i>>]

IsExpression(e) == e[1] \in {"lhs", "rhs", "select"}
ExprOf(e) == IF e[1] = "select" THEN query.select[e[2]] ELSE Pred(e[2])[e[1]]
IsColumn(e) == IsExpression(e) /\ ExprOf(e).plus = 0 /\ Cardinality(ExprOf(e).cols) = 1

\* The HAVING clause, a predicate of the outer query block.
Having == 0

\* A LOP with its LOPProps, where nothing else is said.
Lop(lop, quns) ==
    [lop |-> lop, quns |-> quns, children |-> << >>, cols |-> {}, virtcols |-> << >>, preds |-> {},
     partkeys |-> << >>, npartitions |-> 0, cpartitions |-> 0, join_keys |-> << >>]

\* The elements of a list that are not in S (Vec::retain, Iterator::filter).
Without(s, S) == FlattenSeq([i \in DOMAIN s |-> IF s[i] \in S THEN << >> ELSE <<s[i]>>])

Init ==
    /\ query \in Queries
    /\ pc = "scan"
    /\ lops = << >>
    /\ worklist = << >>
    /\ pred_map = DOMAIN query.preds
    /\ stack = << >>
    /\ stages = << >>
    /\ pops = << >>

-----------------------------------------------------------------------------
(* Equivalence of expressions (collect_preds, ExprEqClass). *)

\* Only an equality with columns on both sides has an eqjoin_desc.
HasEqJoinDesc(i) == QunsOf(Pred(i).lhs) # {} /\ QunsOf(Pred(i).rhs) # {}

SetEq(classes, i) ==
    LET both == {c \in classes : Pred(i).lhs \in c \/ Pred(i).rhs \in c}
    IN  (classes \ both) \union {UNION both}

EqClasses ==
    LET eqs == {i \in DOMAIN query.preds : HasEqJoinDesc(i)}
        legs == {Pred(i).lhs : i \in eqs} \union {Pred(i).rhs : i \in eqs}
    IN  FoldSet(LAMBDA i, classes : SetEq(classes, i), {{e} : e \in legs}, eqs)

CheckEq(e, f) == \E c \in EqClasses : e \in c /\ f \in c

\* Variant: the number of keys is compared, and not the keys.
ComparePartLengths(keys1, keys2) == Len(keys1) = Len(keys2)

ComparePartKeys(keys1, keys2) ==
    /\ Len(keys1) = Len(keys2)
    /\ \A i \in DOMAIN keys1 : CheckEq(ExprOf(keys1[i]), ExprOf(keys2[i]))

-----------------------------------------------------------------------------
(* Scans: build_unary_plans. *)

\* Variant: the predicates that are left are forgotten.
SelectColsOnly(unbound) == SelectCols

\* Columns to keep: those of the select list and of predicates still to come.
FlowCols(unbound) == SelectCols \union PredsCols(unbound)

BuildScan ==
    LET qun == Len(worklist) + 1
        local == {i \in pred_map : PredQuns(i) = {qun}}
        unbound == {i \in pred_map \ local : qun \in PredQuns(i)}
    IN
    /\ pc = "scan" /\ qun \in Quns
    /\ lops' = Append(lops, 
                   [Lop("TableScan", {qun}) EXCEPT
                        !.preds = local, !.cols = {c \in FlowCols(unbound) : c[1] = qun},
                        !.npartitions = query.parts[qun]])
    /\ worklist' = Append(worklist, Len(lops) + 1)
    /\ pred_map' = pred_map \ local
    /\ pc' = IF qun = Len(query.parts) THEN "join" ELSE "scan"
    /\ UNCHANGED <<query, stack, stages, pops>>

-----------------------------------------------------------------------------
(* Joins: build_qblock_logical_plan, repartition_join_legs. *)

JoinQuns(l, r) == lops[l].quns \union lops[r].quns

\* Variant: whatever mentions the tables of the join is taken for bound.
TouchingPreds(l, r) == {i \in pred_map : PredQuns(i) \intersect JoinQuns(l, r) # {}}

JoinPreds(l, r) == {i \in pred_map : PredQuns(i) \subseteq JoinQuns(l, r)}

Aligned(i, l, r) == QunsOf(Pred(i).lhs) \subseteq lops[l].quns /\ QunsOf(Pred(i).rhs) \subseteq lops[r].quns

\* classify_predicate: Aligned or Reversed.
EquiJoinPreds(l, r) == {i \in JoinPreds(l, r) : HasEqJoinDesc(i) /\ (Aligned(i, l, r) \/ Aligned(i, r, l))}

\* compute_join_partitioning_keys
JoinKeys(preds, l, r) ==
    LET order == Without([i \in DOMAIN query.preds |-> i], DOMAIN query.preds \ preds)
    IN  << [k \in DOMAIN order |-> IF Aligned(order[k], l, r) THEN Lhs(order[k]) ELSE Rhs(order[k])],
           [k \in DOMAIN order |-> IF Aligned(order[k], l, r) THEN Rhs(order[k]) ELSE Lhs(order[k])] >>

Repartition(child, keys) ==
    [Lop("Repartition", lops[child].quns) EXCEPT
         !.children = <<child>>, !.cols = lops[child].cols, !.partkeys = keys,
         !.npartitions = lops[child].npartitions, !.cpartitions = query.degree]

\* harmonize_partitions: a leg that is partitioned by equivalent keys stays as it is.
RepartitionLeg(child, keys) ==
    IF ComparePartKeys(keys, lops[child].partkeys) THEN << >> ELSE <<Repartition(child, keys)>>

\* Variant: the join keeps the partition count of its left leg.
LegPartitions(leg) == leg.npartitions

\* The partitioning of the join is that of the left leg, in cpartitions partitions.
JoinPartitions(leg) == query.degree

\* The pairs of the work list in the order of the loops.
Before(p, q) == p[1] < q[1] \/ (p[1] = q[1] /\ p[2] < q[2])

Joinable == {p \in (DOMAIN worklist) \X (DOMAIN worklist) :
                p[1] # p[2] /\ EquiJoinPreds(worklist[p[1]], worklist[p[2]]) # {}}

Join ==
    /\ pc = "join" /\ Len(worklist) > 1
    /\ \E p \in Joinable :
          /\ \A q \in Joinable \ {p} : Before(p, q)
          /\ LET l == worklist[p[1]]
                 r == worklist[p[2]]
                 equi == EquiJoinPreds(l, r)
                 keys == JoinKeys(equi, l, r)
                 lrep == RepartitionLeg(l, keys[1])
                 rrep == RepartitionLeg(r, keys[2])
                 legs == lops \o lrep \o rrep
                 newl == IF lrep = << >> THEN l ELSE Len(lops) + 1
                 newr == IF rrep = << >> THEN r ELSE Len(legs)
                 left == pred_map \ JoinPreds(l, r)
             IN
             /\ lops' = Append(legs,
                    [Lop("HashJoin", JoinQuns(l, r)) EXCEPT
                         !.children = <<newl, newr>>, !.join_keys = keys,
                         !.cols = (lops[l].cols \union lops[r].cols) \intersect FlowCols(left),
                         !.preds = JoinPreds(l, r) \ equi,
                         !.partkeys = legs[newl].partkeys,
                         !.npartitions = JoinPartitions(legs[newl])])
             /\ pred_map' = left
             /\ worklist' = <<Len(legs) + 1>> \o Without(worklist, {l, r})
    /\ UNCHANGED <<query, pc, stack, stages, pops>>

\* panic!("No join found!!!")
NoJoin ==
    /\ pc = "join" /\ Len(worklist) > 1 /\ Joinable = {}
    /\ pc' = "panicked"
    /\ UNCHANGED <<query, lops, worklist, pred_map, stack, stages, pops>>

\* Only the select list flows out of the query block.
JoinsDone ==
    /\ pc = "join" /\ Len(worklist) = 1
    /\ pc' = "agg"
    /\ lops' = [lops EXCEPT ![worklist[1]].cols = {}, ![worklist[1]].virtcols = SelectList]
    /\ UNCHANGED <<query, worklist, pred_map, stack, stages, pops>>

-----------------------------------------------------------------------------
(* Aggregation: the outer query block of a GROUP BY, with one qun, AggQun. *)

AggQun == 0
HavingPreds == IF query.having THEN {Having} ELSE {}

NoAggregation ==
    /\ pc = "agg" /\ query.key_len = 0
    /\ pc' = "repartition_keys"
    /\ UNCHANGED <<query, lops, worklist, pred_map, stack, stages, pops>>

AggregateOnce ==
    /\ pc = "agg" /\ query.key_len > 0 /\ lops[worklist[1]].npartitions = 1
    /\ lops' = Append(lops,
                   [Lop("Aggregation", {AggQun}) EXCEPT
                        !.children = worklist, !.preds = HavingPreds,
                        !.virtcols = Keys \o Aggregates("once"), !.npartitions = 1])
    /\ worklist' = <<Len(lops) + 1>>
    /\ pc' = "repartition_keys"
    /\ UNCHANGED <<query, pred_map, stack, stages, pops>>

\* The first step has the properties of its child, predicates and all, and the second
\* those of the repartitioning; the keys of a child are never those of the outer block.
AggregateTwice ==
    LET child == lops[worklist[1]]
        n == Len(lops)
        pre == [Lop("Aggregation", child.quns) EXCEPT
                    !.children = worklist, !.preds = child.preds,
                    !.virtcols = Keys \o Aggregates("pre"), !.partkeys = child.partkeys,
                    !.npartitions = child.npartitions]
        repart == [pre EXCEPT !.lop = "Repartition", !.children = <<n + 1>>, !.preds = {},
                              !.partkeys = Keys, !.cpartitions = query.degree]
        post == [repart EXCEPT !.lop = "Aggregation", !.children = <<n + 2>>, !.cpartitions = 0,
                               !.virtcols = Keys \o Aggregates("post"), !.npartitions = query.degree]
    IN
    /\ pc = "agg" /\ query.key_len > 0 /\ child.npartitions > 1
    /\ lops' = lops \o <<pre, repart, post>>
    /\ worklist' = <<n + 3>>
    /\ pc' = "repartition_keys"
    /\ UNCHANGED <<query, pred_map, stack, stages, pops>>

-----------------------------------------------------------------------------
(* Rewrites.  A LOP has one parent, so that their order makes no difference. *)

IsRepartition(n) == lops[n].lop = "Repartition"
Parents(n) == {m \in DOMAIN lops : n \in ToSet(lops[m].children)}

\* newcols gives the new columns of each parent.
FromParent(n, newcols) == IF Parents(n) = {} THEN << >> ELSE newcols[CHOOSE m \in Parents(n) : TRUE]

\* append_virt_cols: the new columns that are not among the new columns are added to
\* those there are.
AppendVirtCols(virtcols, newcols) ==
    IF virtcols = << >> THEN newcols ELSE virtcols \o Without(newcols, ToSet(newcols))

\* The partitioning keys of a repartitioning that are no columns.
ComputedPartKeys(m) ==
    IF IsRepartition(m) THEN Without(lops[m].partkeys, {e \in ToSet(lops[m].partkeys) : IsColumn(e)}) ELSE << >>

\* qrw_add_repartitioning_keys_to_projections: to a repartitioning and to its child.
AddRepartitioningKeys ==
    /\ pc = "repartition_keys"
    /\ lops' = [n \in DOMAIN lops |->
                   [lops[n] EXCEPT !.virtcols =
                       AppendVirtCols(@, ComputedPartKeys(n)
                                            \o FromParent(n, [m \in Parents(n) |-> ComputedPartKeys(m)]))]]
    /\ pc' = "join_keys"
    /\ UNCHANGED <<query, worklist, pred_map, stack, stages, pops>>

\* The keys of join m for its leg n, if a key of m is not a column.
LegKeys(m, n) ==
    LET keys == lops[m].join_keys
        leg == CHOOSE k \in 1 .. 2 : lops[m].children[k] = n
    IN  IF \A k \in DOMAIN keys : \A e \in ToSet(keys[k]) : IsColumn(e) THEN << >> ELSE keys[leg]

\* qrw_pushdown_join_keys: if a key of a join is not a column, all of them, to its legs.
PushdownJoinKeys ==
    /\ pc = "join_keys"
    /\ lops' = [n \in DOMAIN lops |->
                   [lops[n] EXCEPT !.virtcols =
                       AppendVirtCols(@, FromParent(n, [m \in Parents(n) |-> LegKeys(m, n)]))]]
    /\ pc' = "compile"
    /\ UNCHANGED <<query, worklist, pred_map, stack, stages, pops>>

-----------------------------------------------------------------------------
(* Stages: compile_flow, compile_lop. *)

Stage(parent) == [parent |-> parent, nchildren |-> 0, npartitions |-> 0]
Call(n, s) == [lop |-> n, stage |-> s, reader |-> s, entered |-> FALSE]

\* add_stage; stages are numbered from 0.
NewStageId == Len(stages)

CompileFlow ==
    /\ pc = "compile" /\ stages = << >>
    /\ stages' = <<Stage(0)>>
    /\ stack' = <<Call(worklist[1], 0)>>
    /\ UNCHANGED <<query, pc, lops, worklist, pred_map, pops>>

\* A Repartition starts a stage, and its children are compiled in it.
CompileCall ==
    LET top == Head(stack)
        s == IF IsRepartition(top.lop) THEN NewStageId ELSE top.stage
        children == lops[top.lop].children
    IN
    /\ pc = "compile" /\ stack # << >> /\ ~top.entered
    /\ stages' = IF IsRepartition(top.lop)
                 THEN Append([stages EXCEPT ![top.stage + 1].nchildren = @ + 1], Stage(top.stage))
                 ELSE stages
    /\ stack' = [i \in DOMAIN children |-> Call(children[i], s)]
                 \o <<[top EXCEPT !.entered = TRUE, !.stage = s]>> \o Tail(stack)
    /\ UNCHANGED <<query, pc, lops, worklist, pred_map, pops>>

-----------------------------------------------------------------------------
(* Projection maps (pop.rs), which give a column or an expression its position in a
   chunk, and the operators compiled with them. *)

QunCol(c) == <<"QunCol", c>>
VirtCol(e) == <<"VirtCol", e>>

BeforeCol(c, d) == c[1] < d[1] \/ (c[1] = d[1] /\ c[2] < d[2])

\* The columns of a bitset in their order, which all bitsets share.
Rank(cols, c) == Cardinality({d \in cols : BeforeCol(d, c)})
InOrder(cols) == [i \in 1 .. Cardinality(cols) |-> CHOOSE c \in cols : Rank(cols, c) = i - 1]

\* compute_projection_map: columns in their order, then expressions, of which the last place
\* counts.
MapOf(cols, virtcols) ==
    [p \in {QunCol(c) : c \in cols} \union {VirtCol(e) : e \in ToSet(virtcols)} |->
        IF p[1] = "QunCol" THEN Rank(cols, p[2])
        ELSE Cardinality(cols) + Max({i \in DOMAIN virtcols : virtcols[i] = p[2]}) - 1]

OutputMap(n) == MapOf(lops[n].cols, lops[n].virtcols)

\* append
MapAppend(map, other) ==
    [p \in DOMAIN map \union DOMAIN other |->
        IF p \in DOMAIN other THEN other[p] + Cardinality(DOMAIN map) ELSE map[p]]

\* input_projection: what the query refers to anywhere.
InputCols(qun) == {c \in SelectCols \union PredsCols(DOMAIN query.preds) : c[1] = qun}

\* The map that the expressions of a LOP are compiled with.  That of an aggregation has
\* its key columns, under the first of its quns (in the order of a hash map).
InputMap(n, qun) ==
    LET children == lops[n].children IN
    CASE lops[n].lop = "TableScan" -> MapOf(InputCols(qun), << >>)
      [] lops[n].lop = "HashJoin" -> MapAppend(OutputMap(children[1]), OutputMap(children[2]))
      [] lops[n].lop = "Repartition" -> OutputMap(children[1])
      [] lops[n].lop = "Aggregation" ->
            [p \in {QunCol(<<qun, c>>) : c \in 0 .. query.key_len - 1} |-> p[2][2]]

\* ExprKey::compile.  The code of an expression: the positions it adds up and its number.
\* An aggregate is behind the keys.
Code(at, plus) == [at |-> at, plus |-> plus]

Compilable(map, e) ==
    IsExpression(e) /\ VirtCol(e) \notin DOMAIN map => \A c \in ExprOf(e).cols : QunCol(c) \in DOMAIN map

Compile(map, e) ==
    CASE VirtCol(e) \in DOMAIN map -> Code({map[VirtCol(e)]}, 0)
      [] IsExpression(e) /\ VirtCol(e) \notin DOMAIN map ->
            Code({map[QunCol(c)] : c \in ExprOf(e).cols}, ExprOf(e).plus)
      [] e[1] = "CID" /\ VirtCol(e) \notin DOMAIN map -> Code({e[2] - 1}, 0)
      [] ~IsExpression(e) /\ e[1] # "CID" /\ VirtCol(e) \notin DOMAIN map -> Code({query.key_len + e[2] - 1}, 0)

\* compile_join
KeyProjection(e) == IF IsColumn(e) THEN QunCol(CHOOSE c \in ExprOf(e).cols : TRUE) ELSE VirtCol(e)

\* Whatever LOP n refers to is in its input: get(..).unwrap() of the projection map.
Binds(n, qun) ==
    LET lop == lops[n]
        map == InputMap(n, qun)
        sides == {Lhs(i) : i \in lop.preds \ {Having}} \union {Rhs(i) : i \in lop.preds \ {Having}}
        partkeys == IF IsRepartition(n) THEN ToSet(lop.partkeys) ELSE {}
    IN
    /\ \A c \in lop.cols : QunCol(c) \in DOMAIN map
    /\ \A e \in ToSet(lop.virtcols) \union sides \union partkeys : Compilable(map, e)
    /\ \A k \in DOMAIN lop.join_keys : \A e \in ToSet(lop.join_keys[k]) :
          KeyProjection(e) \in DOMAIN OutputMap(lop.children[k])

\* compile_scan, compile_join, compile_aggregation and compile_repartition_write, and for
\* compile_repartition_read, which returns all columns, the stage of the reader.
Pop(n, qun, call) ==
    LET lop == lops[n]
        map == InputMap(n, qun)
        order == InOrder(lop.cols)
        codes(keys) == [i \in DOMAIN keys |-> Compile(map, keys[i])]
        having == [lhs |-> Code({0}, 0), rhs |-> Code({}, 0)]
    IN  [stage |-> call.stage, reader |-> call.reader, npartitions |-> lop.npartitions,
         preds |-> {IF i = Having THEN having
                    ELSE [lhs |-> Compile(map, Lhs(i)), rhs |-> Compile(map, Rhs(i))] : i \in lop.preds},
         projection |-> [i \in DOMAIN order |-> Code({map[QunCol(order[i])]}, 0)] \o codes(lop.virtcols),
         keycols |-> [k \in DOMAIN lop.join_keys |->
                         [i \in DOMAIN lop.join_keys[k] |->
                             OutputMap(lop.children[k])[KeyProjection(lop.join_keys[k][i])]]],
         repart_key |-> IF IsRepartition(n) THEN codes(lop.partkeys) ELSE << >>]

CompileReturn ==
    LET top == Head(stack)
        lop == lops[top.lop]
        last == Len(stack) = 1
    IN
    /\ pc = "compile" /\ stack # << >> /\ top.entered
    /\ \E qun \in lop.quns :
          /\ Binds(top.lop, qun)
          /\ pops' = [n \in DOMAIN pops \union {top.lop} |->
                         IF n = top.lop THEN Pop(top.lop, qun, top) ELSE pops[n]]
    /\ stages' = IF IsRepartition(top.lop) \/ last
                 THEN [stages EXCEPT ![top.stage + 1].npartitions = lop.npartitions]
                 ELSE stages
    /\ stack' = Tail(stack)
    /\ pc' = IF last THEN "compiled" ELSE pc
    /\ UNCHANGED <<query, lops, worklist, pred_map>>

CompilePanics ==
    /\ pc = "compile" /\ stack # << >> /\ Head(stack).entered
    /\ \E qun \in lops[Head(stack).lop].quns : ~Binds(Head(stack).lop, qun)
    /\ pc' = "panicked"
    /\ UNCHANGED <<query, lops, worklist, pred_map, stack, stages, pops>>

Terminated == pc \in {"compiled", "panicked"} /\ UNCHANGED vars

Next ==
    \/ BuildScan \/ Join \/ NoJoin \/ JoinsDone
    \/ NoAggregation \/ AggregateOnce \/ AggregateTwice
    \/ AddRepartitioningKeys \/ PushdownJoinKeys
    \/ CompileFlow \/ CompileCall \/ CompileReturn \/ CompilePanics
    \/ Terminated

Spec == Init /\ [][Next]_vars
=============================================================================
