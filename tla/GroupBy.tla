------------------------------ MODULE GroupBy ------------------------------
(***************************************************************************)
(* A job from the parser to the operators: tables are cataloged            *)
(* (metadata.rs), then a query block is split, if it has a GROUP BY, in an *)
(* outer block that aggregates and an inner one that computes keys and     *)
(* arguments, names and types are resolved (qst.rs), the aggregation is    *)
(* planned in one or two steps (lop.rs), and the programs of its columns   *)
(* are compiled (pop_compile.rs).                                          *)
(*                                                                         *)
(* How the quantifiers of a block are joined is the matter of Planner, and *)
(* the order of the keys of a join that of HashMatch.  A join has one      *)
(* partition here (PARALLEL_DEGREE is 1) and at most one equality.         *)
(***************************************************************************)
EXTENDS Names, Catalog

CONSTANT Jobs   \* [catalog, query]: a list of [name, options], and a query

VARIABLES
    job,
    pc,         \* "catalog", "select", "having", "bind", "inner", "outer", "plan", "compile",
                \* "done"; "rejected", "failed"
    tables,     \* the catalog
    quns,       \* quantifiers of the inner block, or of the only one
    inner,      \* its select list
    where,      \* its predicates
    select_list,\* of the outer block; the expressions after "at" are still the parser's
    pred_list,  \* of the outer block, from the HAVING clause
    at,
    preaggs,    \* [pre, post], the columns of the first aggregation and what they are above
    postaggs,
    programs    \* of the inner block and of the aggregations: columns and predicates compiled

vars == <<job, pc, tables, quns, inner, where, select_list, pred_list, at, preaggs, postaggs, programs>>

query == job.query
KeyLen == Len(query.group_by)
IsGroupBy == query.group_by # << >>

Factors(preds) == FlattenSeq([i \in DOMAIN preds |-> BooleanFactors(preds[i])])

HasColumn(e) == \E f \in ToSet(Visit(<<e>>)) : f.op = "Column"
Equalities(preds) ==
    {e \in ToSet(Factors(preds)) : e.op = "Eq" /\ \A c \in ToSet(e.children) : HasColumn(c)}

\* Bounds: at most two tables, of which the order of joins is no question, joined by one equality;
\* and no t.* in the select list of a GROUP BY, where resolve_star drops it.
IsQuery(q) ==
    /\ Len(q.from) \in 1 .. 2 /\ Cardinality(Equalities(q.where)) <= 1
    /\ q.select_list # << >>
    /\ q.group_by = << >> => q.having = << >>
    /\ q.group_by # << >> => \A e \in ToSet(q.select_list) : e.op = "Star" => e.prefix = ""

ASSUME JobsAssumption == \A j \in Jobs : IsQuery(j.query)

Init ==
    /\ job \in Jobs
    /\ pc = "catalog" /\ at = 0
    /\ tables = << >> /\ quns = << >>
    /\ inner = IF IsGroupBy THEN query.group_by ELSE query.select_list
    /\ where = query.where
    /\ select_list = query.select_list
    /\ pred_list = query.having
    /\ preaggs = << >> /\ postaggs = << >> /\ programs = << >>

-----------------------------------------------------------------------------
(* The statements of the job before the query; the first that fails ends it. *)

CatalogTable ==
    LET stmt == job.catalog[at + 1] IN
    /\ pc = "catalog" /\ at < Len(job.catalog)
    /\ IF CatalogRefuses(tables, stmt.name, stmt.options)
       THEN pc' = "rejected" /\ UNCHANGED tables
       ELSE tables' = (stmt.name :> TableDesc(stmt.options)) @@ tables /\ UNCHANGED pc
    /\ at' = at + 1
    /\ UNCHANGED <<job, quns, inner, where, select_list, pred_list, preaggs, postaggs, programs>>

CatalogDone ==
    /\ pc = "catalog" /\ at = Len(job.catalog)
    /\ pc' = IF IsGroupBy THEN "select" ELSE "bind"
    /\ at' = 0
    /\ UNCHANGED <<job, tables, quns, inner, where, select_list, pred_list, preaggs, postaggs, programs>>

-----------------------------------------------------------------------------
(* split_groupby *)

\* Place of e in the first n expressions of list, from 0; -1 if it is not there.
Find(list, n, e) ==
    LET found == {i \in 1 .. n : Isomorphic(e, list[i])}
    IN  IF found = {} THEN -1 ELSE (CHOOSE i \in found : \A j \in found : i <= j) - 1

AppendExpr(list, e) ==
    IF Find(list, Len(list), e) >= 0 THEN [cid |-> Find(list, Len(list), e), list |-> list]
    ELSE [cid |-> Len(list), list |-> Append(list, e)]

\* AVG -> SUM / COUNT
AggOf(aggtype, cid) ==
    IF aggtype = "AVG"
    THEN Expr("Div", <<Expr("SUM", <<CID(cid)>>), Expr("COUNT", <<CID(cid)>>)>>)
    ELSE Expr(aggtype, <<CID(cid)>>)

\* Variant: expressions of the whole list count as GROUP BY expressions.
GroupByExprsAll(list) == Len(list)

\* group_by_expr_count
GroupByExprs(list) == KeyLen

RECURSIVE Transform(_, _)
\* transform_groupby_expr: [ok, expr, list], list being the inner select list.
Transform(e, list) ==
    LET place == Find(list, GroupByExprs(list), e)
        appended == AppendExpr(list, e.children[1])
        under == FoldLeft(LAMBDA d, c :
                            LET t == Transform(c, d.list)
                            IN  [ok |-> d.ok /\ t.ok, children |-> Append(d.children, t.expr), list |-> t.list],
                          [ok |-> TRUE, children |-> << >>, list |-> list], e.children)
    IN
    CASE e.op \in AggFunctions -> [ok |-> TRUE, expr |-> AggOf(e.op, appended.cid), list |-> appended.list]
      [] e.op \notin AggFunctions /\ place >= 0 -> [ok |-> TRUE, expr |-> CID(place), list |-> list]
      [] e.op = "Column" /\ place < 0 -> [ok |-> FALSE, expr |-> e, list |-> list]
      [] OTHER -> [ok |-> under.ok, expr |-> [e EXCEPT !.children = under.children], list |-> under.list]

TransformSelect ==
    LET t == Transform(select_list[at + 1], inner)
    IN
    /\ pc = "select" /\ at < Len(select_list)
    /\ pc' = IF t.ok THEN pc ELSE "rejected"
    /\ select_list' = [select_list EXCEPT ![at + 1] = t.expr]
    /\ inner' = t.list
    /\ at' = at + 1
    /\ UNCHANGED <<job, tables, quns, where, pred_list, preaggs, postaggs, programs>>

SelectDone ==
    /\ pc = "select" /\ at = Len(select_list)
    /\ pc' = "having" /\ at' = 0
    /\ UNCHANGED <<job, tables, quns, where, select_list, pred_list, inner, preaggs, postaggs, programs>>

TransformHaving ==
    LET t == Transform(pred_list[at + 1], inner)
    IN
    /\ pc = "having" /\ at < Len(pred_list)
    /\ pc' = IF t.ok THEN pc ELSE "rejected"
    /\ pred_list' = [pred_list EXCEPT ![at + 1] = t.expr]
    /\ inner' = t.list
    /\ at' = at + 1
    /\ UNCHANGED <<job, tables, quns, where, select_list, preaggs, postaggs, programs>>

HavingDone ==
    /\ pc = "having" /\ at = Len(pred_list)
    /\ pc' = "bind" /\ at' = 0
    /\ UNCHANGED <<job, tables, quns, where, select_list, pred_list, inner, preaggs, postaggs, programs>>

-----------------------------------------------------------------------------
(* resolve: the inner block, then the outer one. *)

Aliases == [i \in DOMAIN query.from |-> Quantifier(query.from[i], << >>).alias]
HasDuplicates(list) == Cardinality(ToSet(list)) < Len(list)

BindTables ==
    /\ pc = "bind"
    /\ IF HasDuplicates(Aliases) \/ \E i \in DOMAIN query.from : query.from[i].table \notin DOMAIN tables
       THEN pc' = "rejected" /\ UNCHANGED quns
       ELSE /\ quns' = [i \in DOMAIN query.from |-> Quantifier(query.from[i], tables[query.from[i].table].fields)]
            /\ pc' = "inner"
    /\ UNCHANGED <<job, tables, inner, where, select_list, pred_list, at, preaggs, postaggs, programs>>

\* Outcome of two lists of which the second is resolved after the first.
Both(first, second) == IF first.outcome # "ok" THEN first.outcome ELSE second.outcome

ResolveInner ==
    LET scope == [quns |-> quns, types |-> << >>]
        list == ResolveList(ResolveStar(inner, quns), scope, FALSE)
        preds == ResolveList(where, scope, FALSE)
        outcome == Both(list, preds)
    IN
    /\ pc = "inner"
    /\ inner' = list.exprs
    /\ where' = Factors(preds.exprs)
    /\ pc' = IF outcome # "ok" THEN outcome ELSE IF IsGroupBy THEN "outer" ELSE "plan"
    /\ UNCHANGED <<job, tables, quns, select_list, pred_list, at, preaggs, postaggs, programs>>

\* The quantifier of the outer block has neither a table, whose columns a * could become, nor an
\* alias, which could be the prefix of one.
ResolveOuter ==
    LET scope == [quns |-> << >>, types |-> TypesOf(inner)]
        list == ResolveList(ResolveStar(select_list, << >>), scope, TRUE)
        preds == ResolveList(pred_list, scope, TRUE)
        hasStar == Star("") \in ToSet(select_list)
        outcome == IF hasStar THEN "failed" ELSE Both(list, preds)
    IN
    /\ pc = "outer"
    /\ select_list' = list.exprs
    /\ pred_list' = Factors(preds.exprs)
    /\ pc' = IF outcome # "ok" THEN outcome ELSE "plan"
    /\ UNCHANGED <<job, tables, quns, inner, where, at, preaggs, postaggs, programs>>

-----------------------------------------------------------------------------
(* build_pre_and_post_aggs_virt_cols *)

\* Variant: rows of the first step are counted.
PostCount(aggtype) == aggtype

PostAggType(aggtype) == IF aggtype = "COUNT" THEN "SUM" ELSE aggtype

RECURSIVE PreAndPost(_, _)
\* [outcome, expr, pre]; only quotients and casts of aggregates are taken apart, and what is wrong
\* below them is unwrapped.
PreAndPost(e, pre) ==
    LET place == Find([i \in DOMAIN pre |-> pre[i].pre], Len(pre), e)
        cid == Typed(CID(Len(pre)), e.type)
        new(post) == [outcome |-> "ok", expr |-> post, pre |-> Append(pre, [pre |-> e, post |-> post])]
        under == FoldLeft(LAMBDA d, c :
                            LET p == PreAndPost(c, d.pre)
                            IN  [ok |-> d.ok /\ p.outcome = "ok", children |-> Append(d.children, p.expr), pre |-> p.pre],
                          [ok |-> TRUE, children |-> << >>, pre |-> pre], e.children)
    IN
    CASE place >= 0 -> [outcome |-> "ok", expr |-> pre[place + 1].post, pre |-> pre]
      [] place < 0 /\ e.op = "CID" -> new(cid)
      [] place < 0 /\ e.op \in AggFunctions -> new(Typed(Expr(PostAggType(e.op), <<cid>>), e.type))
      [] place < 0 /\ e.op \in {"Div", "Cast"} ->
            [outcome |-> IF under.ok THEN "ok" ELSE "failed",
             expr |-> [e EXCEPT !.children = under.children], pre |-> under.pre]
      [] OTHER -> [outcome |-> "rejected", expr |-> e, pre |-> pre]

NPartitions == IF Len(quns) = 1 THEN tables[quns[1].table].npartitions ELSE 1

QunsIn(e) == {f.qunid : f \in {g \in ToSet(Visit(<<e>>)) : g.op = "Column"}}

\* Two tables are joined by an equality of expressions of one and of the other.
JoinPreds ==
    {e \in ToSet(where) : e.op = "Eq" /\ {QunsIn(e.children[1]), QunsIn(e.children[2])} = {{1}, {2}}}

JoinFound == Len(quns) = 1 \/ JoinPreds # {}

PlanOnce ==
    /\ pc = "plan" /\ ~(IsGroupBy /\ NPartitions > 1)
    /\ postaggs' = IF IsGroupBy THEN select_list ELSE << >>
    /\ pc' = IF JoinFound THEN "compile" ELSE "failed"
    /\ UNCHANGED <<job, tables, quns, inner, where, select_list, pred_list, at, preaggs, programs>>

\* The properties of the first aggregation are a clone of those of the scan, and its predicates
\* take the place of those of the outer block; those of the second are a clone of those of the
\* repartitioning, which has none.  An expression that cannot be taken apart is an Err, of
\* build_logical_plan and of the job, unless it is below a quotient or a cast.
PlanTwice ==
    LET keys == [i \in 1 .. KeyLen |-> LET key == Typed(CID(i - 1), inner[i].type) IN [pre |-> key, post |-> key]]
        both == FoldLeft(LAMBDA d, e :
                            IF d.outcome # "ok" THEN d
                            ELSE LET p == PreAndPost(e, d.pre)
                                 IN  [outcome |-> p.outcome, post |-> Append(d.post, p.expr), pre |-> p.pre],
                         [outcome |-> "ok", post |-> << >>, pre |-> keys], select_list)
    IN
    /\ pc = "plan" /\ IsGroupBy /\ NPartitions > 1
    /\ preaggs' = both.pre
    /\ postaggs' = both.post
    /\ pred_list' = where
    /\ pc' = IF both.outcome = "ok" THEN "compile" ELSE both.outcome
    /\ UNCHANGED <<job, tables, quns, inner, where, select_list, at, programs>>

-----------------------------------------------------------------------------
(* compile_scan and compile_aggregation: the columns, then the predicates, fill the *)
(* projection map.                                                                  *)

Program(exprs, preds, cols, child_types) ==
    LET columns == CompileExprs(exprs, [cols |-> cols, aggs |-> << >>])
        predicates == CompileExprs(preds, columns.map)
    IN  [virtcols |-> columns.codes, predicates |-> predicates.codes, aggs |-> predicates.map.aggs,
         child_types |-> child_types]

\* The columns of the quantifiers, one after the other.
InnerCols ==
    LET before(i) == FoldLeft(LAMBDA n, q : n + Len(q.fields), 0, SubSeq(quns, 1, i - 1))
        all == {<<i, c>> \in (DOMAIN quns) \X (0 .. before(Len(quns) + 1)) : c < Len(quns[i].fields)}
    IN  [col \in all |-> before(col[1]) + col[2]]

\* compute_initial_agg_projection_map, for the quantifier of the properties.
KeyCols(qunid) == [col \in {qunid} \X (0 .. KeyLen - 1) |-> col[2]]

\* 0 is the quantifier of the outer block; two aggregations have the one of the scan.
Aggregations ==
    LET pre == [i \in DOMAIN preaggs |-> preaggs[i].pre] IN
    IF preaggs = << >> THEN <<Program(postaggs, pred_list, KeyCols(0), TypesOf(inner))>>
    ELSE <<Program(pre, pred_list, KeyCols(1), TypesOf(inner)),
           Program(postaggs, << >>, KeyCols(1), TypesOf(pre))>>

\* A column of the predicates has no place in the map of the first of two aggregations.
CompileFails == preaggs # << >> /\ ~Compilable(pred_list, [cols |-> KeyCols(1), aggs |-> << >>])

CompilePrograms ==
    /\ pc = "compile"
    /\ IF CompileFails THEN pc' = "failed" /\ UNCHANGED programs
       ELSE /\ programs' = <<Program(inner, where, InnerCols, << >>)>> \o (IF IsGroupBy THEN Aggregations ELSE << >>)
            /\ pc' = "done"
    /\ UNCHANGED <<job, tables, quns, inner, where, select_list, pred_list, at, preaggs, postaggs>>

Terminated == pc \in {"done", "rejected", "failed"} /\ UNCHANGED vars

Next ==
    \/ CatalogTable \/ CatalogDone
    \/ TransformSelect \/ SelectDone \/ TransformHaving \/ HavingDone
    \/ BindTables \/ ResolveInner \/ ResolveOuter
    \/ PlanOnce \/ PlanTwice \/ CompilePrograms
    \/ Terminated

Spec == Init /\ [][Next]_vars
=============================================================================
