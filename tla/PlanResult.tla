----------------------------- MODULE PlanResult -----------------------------
(***************************************************************************)
(* What a plan of Planner computes, partition by partition, against what   *)
(* the query asks for.  Each operator does what the modules HashMatch,     *)
(* HashAgg, CsvScan and Repartition say of it; a hash is the value itself. *)
(* A row is the values of its chunk, by position, an id, which is the rows *)
(* of the tables it was made of or the group and the task that returned    *)
(* it, and the number of times that it occurs: a join makes more of it.    *)
(* A join whose build side returns a chunk without columns, where nothing  *)
(* matched, panics: that is in HashMatch only.                             *)
(*                                                                         *)
(* A table has each row of the values 0 and 1 once in each of its          *)
(* partitions.  A joined row is decided by its own rows only, so that this *)
(* table stands for all its subsets.                                       *)
(***************************************************************************)
EXTENDS Planner

CONSTANT Width  \* columns of a table

ASSUME ColumnsAssumption ==
    /\ Width \in Nat
    /\ \A q \in Queries :
          \A e \in ToSet(q.select) \union UNION {{p.lhs, p.rhs} : p \in ToSet(q.preds)} :
              e.plus \in Int /\ e.cols \subseteq (DOMAIN q.parts) \X (0 .. Width - 1)

StageGraphs == INSTANCE StageGraph WITH Flows <- << >>

TableRows(qun) == {[part |-> p, val |-> v] : p \in 0 .. query.parts[qun] - 1,
                                             v \in [0 .. Width - 1 -> {0, 1}]}

\* The value of expression e in rows r, a function from quns to rows of their tables.
Val(e, r) == e.plus + SumFunction([c \in e.cols |-> r[c[1]].val[c[2]]])

Holds(i, r) == Val(Pred(i).lhs, r) = Val(Pred(i).rhs, r)

Selected(r) == [i \in DOMAIN query.select |-> Val(query.select[i], r)]

\* The HAVING clause selects groups by their first key.
HavingHolds(key) == key[1] = 0

-----------------------------------------------------------------------------
(* What the query asks for. *)

JoinedRows ==
    {r \in [Quns -> UNION {TableRows(q) : q \in Quns}] :
        /\ \A q \in Quns : r[q] \in TableRows(q)
        /\ \A i \in DOMAIN query.preds : Holds(i, r)}

\* How often LOP n, or the join below it, returns a row, times being that of its inputs:
\* HashMatchRows, and nothing else, makes more of a row than there were.
Multiplied(times, n) ==
    LET children == lops[n].children IN
    CASE lops[n].lop = "TableScan" -> 1
      [] lops[n].lop = "HashJoin" -> times[children[1]] * times[children[2]] * Len(pops[children[2]].projection)
      [] lops[n].lop \in {"Repartition", "Aggregation"} -> times[children[1]]

Copies[n \in DOMAIN lops] == Multiplied(Copies, n)

\* The rows that join, as often as the joins return them.
Answer == {[id |-> r, vals |-> Selected(r), times |-> Copies[worklist[1]]] : r \in JoinedRows}

Key(vals) == SubSeq(vals, 1, query.key_len)
KeysOf(rows) == {Key(r.vals) : r \in rows}

\* The aggregates of the types aggtypes over the rows of key k, behind the key.
Aggregated(rows, k, aggtypes) ==
    LET group == {r \in rows : Key(r.vals) = k}
    IN  k \o [i \in DOMAIN query.aggs |->
                 IF aggtypes[i] = "COUNT" THEN SumFunction([r \in group |-> r.times])
                 ELSE SumFunction([r \in group |-> r.times * r.vals[query.key_len + i]])]

Groups == {Aggregated(Answer, k, query.aggs) : k \in {key \in KeysOf(Answer) : query.having => HavingHolds(key)}}

-----------------------------------------------------------------------------
(* What the operators of the plan compute, per partition. *)

Eval(code, vals) == code.plus + SumFunction([at \in code.at |-> vals[at + 1]])

\* eval_predicates, eval_projection
Projected(pop, r) == [r EXCEPT !.vals = [i \in DOMAIN pop.projection |-> Eval(pop.projection[i], r.vals)]]
Filtered(pop, rows) == {r \in rows : \A p \in pop.preds : Eval(p.lhs, r.vals) = Eval(p.rhs, r.vals)}
Output(pop, rows) == {Projected(pop, r) : r \in Filtered(pop, rows)}

ScanRows(lop, p) ==
    LET qun == CHOOSE q \in lop.quns : TRUE
        order == InOrder(InputCols(qun))
    IN  {[id |-> [q \in {qun} |-> t], vals |-> [i \in DOMAIN order |-> t.val[order[i][2]]], times |-> 1] :
            t \in {u \in TableRows(qun) : u.part = p}}

\* The rows of two sets of tables.
Together(f, g) == [q \in DOMAIN f \union DOMAIN g |-> IF q \in DOMAIN f THEN f[q] ELSE g[q]]

\* contruct_joined_chunk compares the key columns of both sides, each once, in the order in
\* which the chunks have them.
ComparedKeys(keycols) ==
    LET columns(k) == SetToSortSeq(ToSet(keycols[k]), <)
    IN  {<<columns(1)[i], columns(2)[i]>> : i \in DOMAIN columns(1) \intersect DOMAIN columns(2)}

\* A row of the build side is filed once for each of its columns (insert).
HashMatchRows(pop, ls, rs) ==
    LET matches(l) == {r \in rs : \A k \in ComparedKeys(pop.keycols) : l.vals[k[1] + 1] = r.vals[k[2] + 1]}
    IN  UNION {{[id |-> Together(l.id, r.id), vals |-> l.vals \o r.vals,
                 times |-> l.times * r.times * Len(r.vals)] : r \in matches(l)} : l \in ls}

\* The aggregate of the second step for a COUNT of the first.
PostAggType(aggtype) == IF aggtype = "COUNT" THEN "SUM" ELSE aggtype

HashAggRows(lop, rows, p) ==
    LET isPost == Last(lop.virtcols)[1] = "post"
        aggtypes == [i \in DOMAIN query.aggs |-> IF isPost THEN PostAggType(query.aggs[i]) ELSE query.aggs[i]]
    IN  {[id |-> <<k, p>>, vals |-> Aggregated(rows, k, aggtypes), times |-> 1] : k \in KeysOf(rows)}

\* The keys are evaluated on what is written; the last one decides.
PartitionOf(pop, r) == Eval(Last(pop.repart_key), r.vals)

\* What LOP n returns in each partition, rows being what its inputs do.
Returned(rows, n) ==
    LET lop == lops[n]
        pop == pops[n]
        in(k, p) == IF p \in DOMAIN rows[lop.children[k]] THEN rows[lop.children[k]][p] ELSE {}
        written == UNION {Output(pop, in(1, p)) : p \in DOMAIN rows[lop.children[1]]}
    IN
    CASE lop.lop = "TableScan" -> [p \in 0 .. lop.npartitions - 1 |-> Output(pop, ScanRows(lop, p))]
      [] lop.lop = "HashJoin" ->
            [p \in 0 .. lop.npartitions - 1 |-> Output(pop, HashMatchRows(pop, in(1, p), in(2, p)))]
      [] lop.lop = "Repartition" ->
            [p \in 0 .. lop.cpartitions - 1 |->
                {r \in written : PartitionOf(pop, r) % lop.cpartitions = p}]
      [] lop.lop = "Aggregation" ->
            [p \in 0 .. lop.npartitions - 1 |-> Output(pop, HashAggRows(lop, in(1, p), p))]

Rows[n \in DOMAIN lops] == Returned(Rows, n)
Results == Rows[worklist[1]]

-----------------------------------------------------------------------------
(* Properties. *)

\* Each join compares the two sides of each of its predicates with one another.
KeysInOrder ==
    \A n \in DOMAIN lops : lops[n].lop = "HashJoin" =>
        LET keycols == pops[n].keycols
        IN  ComparedKeys(keycols) = {<<keycols[1][i], keycols[2][i]>> : i \in DOMAIN keycols[1]}

\* The plan returns the rows the query asks for, each in one partition only: rows that
\* join, and rows of a group, always meet in one partition (harmonize_partitions,
\* ExprEqClass), no predicate is lost and none is applied too early, and each operator
\* finds at a position what was put there (ProjectionMap, append_virt_cols), the keys of
\* a repartitioning too, which are compiled for the chunks of its child.  Each row is
\* returned, counted and summed up once for each way to choose a column of the build side
\* of each join, once only if there is no join or these sides have one column each.  A
\* join that compares its keys in another order finds other rows, which this leaves out.
ResultIsRight ==
    pc = "compiled" /\ KeysInOrder =>
        LET results == Results
            rows == UNION {{<<p, r>> : r \in results[p]} : p \in DOMAIN results}
            answer == IF query.key_len = 0 THEN {x[2] : x \in rows} ELSE {x[2].vals : x \in rows}
        IN  /\ answer = IF query.key_len = 0 THEN Answer ELSE Groups
            /\ Cardinality(rows) = Cardinality(answer)

\* Columns are dropped when nothing above needs them, and an expression is computed where
\* something does: what a LOP refers to is in the projection map of its input, whose
\* answer is unwrapped.  Only the predicates that the first step of an aggregation
\* inherits from its input are not found (build_unary_plans clones its properties).
ColumnsFlow ==
    pc = "panicked" /\ stack # << >> =>
        LET lop == lops[Head(stack).lop] IN lop.lop = "Aggregation" /\ lop.preds \ {Having} # {}

\* Task p of a stage runs partition p of each of its operators: they all have as many as
\* the stage has tasks, and the stages are a flow as the scheduler takes them.
StagesAgree ==
    pc = "compiled" =>
        LET parent == [s \in 1 .. Len(stages) - 1 |-> stages[s + 1].parent]
        IN
        /\ StageGraphs!IsFlow([nstages |-> Len(stages), parent |-> parent,
                               npartitions |-> [s \in 0 .. Len(stages) - 1 |-> stages[s + 1].npartitions]])
        /\ \A n \in DOMAIN pops :
              /\ pops[n].npartitions = stages[pops[n].stage + 1].npartitions
              /\ IsRepartition(n) => lops[n].cpartitions = stages[pops[n].reader + 1].npartitions
        /\ \A s \in 0 .. Len(stages) - 1 :
              stages[s + 1].nchildren = Cardinality({c \in DOMAIN parent : parent[c] = s})

\* The families of sets of quns that have each qun by itself and, with two sets that an
\* equality joins, their union.
JoinFamilies ==
    LET hasEdge(A, B) == \E i \in DOMAIN query.preds :
            HasEqJoinDesc(i) /\ QunsOf(Pred(i).lhs) \subseteq A /\ QunsOf(Pred(i).rhs) \subseteq B
    IN  {F \in SUBSET SUBSET Quns :
            /\ \A q \in Quns : {q} \in F
            /\ \A A, B \in F : A \intersect B = {} /\ hasEdge(A, B) => A \union B \in F}

\* The sets of quns that joins by equality, in any order, can bring together: the least of
\* these families.
JoinTrees == {A \in SUBSET Quns : \A F \in JoinFamilies : A \in F}

\* The first pair that joins is taken, and never another one.  This does not lead astray:
\* the enumeration panics only on a query that no order of joins can answer.
GreedyFindsAPlan == pc = "panicked" /\ Len(worklist) > 1 => Quns \notin JoinTrees
=============================================================================
