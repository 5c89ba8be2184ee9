--------------------------- MODULE GroupByResult ---------------------------
(***************************************************************************)
(* What the programs of GroupBy compute against what the query says, and   *)
(* what the split and the resolution must preserve.                        *)
(***************************************************************************)
EXTENDS QueryMeaning

-----------------------------------------------------------------------------
(* What the operators compute: rows, or a panic of the task. *)

\* eval_predicates wants Booleans.
Panics(program, rows) ==
    \E row \in rows :
        \/ \E code \in ToSet(program.predicates) : Eval(code, row).type # "Boolean"
        \/ \E code \in ToSet(program.virtcols) : Eval(code, row) = Panicked

Passes(program, row) == \A code \in ToSet(program.predicates) : IsTrue(Eval(code, row))
Project(program, row) == [c \in DOMAIN program.virtcols |-> Eval(program.virtcols[c], row)]
ProjectAll(program, rows) == [i \in DOMAIN rows |-> Project(program, rows[i])]

\* The columns of the build side of the join, which is the second table: what is referred to above
\* its scan; and its key once more, when that or the key of the other side is computed.
BuildColumns ==
    LET exprs == inner \o SelectSeq(where, LAMBDA e : QunsIn(e) = {1, 2})
    IN  {f \in ToSet(Visit(exprs)) : f.op = "Column" /\ f.qunid = 2}
BuildKeys ==
    LET keys == {e.children[k] : e \in JoinPreds, k \in {1, 2}}
    IN  {key \in keys : QunsIn(key) = {2} /\ \E k \in keys : k.op # "Column"}

\* The types alloc_build_arrays and hash_chunk have code for.
BuildPanics == \E e \in BuildColumns \union BuildKeys : e.type \notin {"Int64", "Utf8", "Boolean"}

\* insert files a row of the build side once for each of its columns.
BuildWidth == Cardinality({f.colid : f \in BuildColumns}) + Cardinality(BuildKeys)

\* The rows of partition p of the inner block; those of a join are all in one.
InnerInput(p) ==
    IF Len(quns) = 1 THEN PartitionOf(tables[quns[1].table], p) ELSE Repeated(FromRows, BuildWidth)
InnerRows(p) == ProjectAll(programs[1], SelectSeq(InnerInput(p), LAMBDA r : Passes(programs[1], r)))

PanicOfTask == [panics |-> TRUE, groups |-> {}]
NoPanic(groups) == [panics |-> FALSE, groups |-> groups]

\* The rows of a key, and the row of the key and its accumulators.
KeyIn(row) == SubSeq(row, 1, KeyLen)
GroupsOf(rows) == {SelectSeq(rows, LAMBDA r : KeyIn(r) = KeyIn(row)) : row \in ToSet(rows)}
ArgsOf(agg, group) == [i \in DOMAIN group |-> group[i][agg[2] + 1]]
InternalRow(program, group) ==
    [c \in 1 .. KeyLen + Cardinality(DOMAIN program.aggs) |->
        IF c <= KeyLen THEN Displayed(group[1][c])
        ELSE LET agg == CHOOSE agg \in DOMAIN program.aggs : program.aggs[agg] = c - 1
             IN  Displayed(Aggregate(agg[1], ArgsOf(agg, group)))]

\* Keys that hash_chunk, compare_key or init_mutable_array cannot take.
KeyPanics(program, group) ==
    \E i \in 1 .. KeyLen :
        \/ group[1][i].type \notin {"Int64", "Utf8"} \/ group[1][i].type # program.child_types[i]
        \/ group[1][i].type # "Utf8" /\ Len(group) > 1

\* Arguments that upsert has no code for, or whose array is of another type than declared.
ArgPanics(program, agg, group) ==
    LET type == program.child_types[agg[2] + 1] IN
    \/ agg[1] = "SUM" /\ type \notin {"Int64", "Float64"}
    \/ agg[1] \in {"MIN", "MAX"} /\ type \notin {"Int64", "Utf8"}
    \/ agg[1] # "COUNT" /\ \E x \in ToSet(ArgsOf(agg, group)) : x.type # type

\* HAVING and the projection, over the groups.
Emit(program, internals) ==
    IF Panics(program, internals) THEN PanicOfTask
    ELSE NoPanic({[key |-> KeyIn(row), row |-> Project(program, row)] :
                    row \in {r \in internals : Passes(program, r)}})

Accumulate(program, groups) ==
    IF \E group \in groups : KeyPanics(program, group) \/ \E a \in DOMAIN program.aggs : ArgPanics(program, a, group)
    THEN PanicOfTask
    ELSE Emit(program, {InternalRow(program, group) : group \in groups})

\* HashAgg over all the rows of a partition, or of all for the second step.
RunAggregation(program, rows) == Accumulate(program, GroupsOf(rows))

\* Two aggregations: each group of the first is a row of the second.
SecondStep(firsts) ==
    IF \E p \in DOMAIN firsts : firsts[p].panics THEN PanicOfTask
    ELSE RunAggregation(programs[3], FlattenSeq([p \in DOMAIN firsts |-> SetToSeq({g.row : g \in firsts[p].groups})]))

Result ==
    IF ~FilesExist \/ (Len(quns) = 2 /\ BuildPanics) \/ \E p \in 1 .. NPartitions : Panics(programs[1], ToSet(InnerInput(p))) THEN PanicOfTask
    ELSE LET inners == [p \in 1 .. NPartitions |-> InnerRows(p)] IN
         IF ~IsGroupBy THEN NoPanic(RowsByNumber(FlattenSeq(inners)))
         ELSE IF preaggs = << >> THEN RunAggregation(programs[2], inners[1])
         ELSE SecondStep([p \in DOMAIN inners |-> RunAggregation(programs[2], inners[p])])

\* Strings without the quotes that aggregations put around them.
Unquoted(x) == IF x.type = "Utf8" THEN [x EXCEPT !.val[2] = 0] ELSE x
UnquotedRow(row) == [i \in DOMAIN row |-> Unquoted(row[i])]
UnquotedGroups(groups) == {[key |-> UnquotedRow(g.key), row |-> UnquotedRow(g.row)] : g \in groups}

-----------------------------------------------------------------------------
(* Properties. *)

RECURSIVE Unresolved(_)
\* As the parser made it: without casts, types and numbers.
Unresolved(e) ==
    LET bare == [e EXCEPT !.type = "Null", !.children = [i \in DOMAIN e.children |-> Unresolved(e.children[i])]]
    IN  CASE e.op = "Cast" -> Unresolved(e.children[1])
          [] e.op = "Column" -> Column(e.prefix, e.name)
          [] OTHER -> bare

RECURSIVE Corresponds(_, _)
\* e, as written, and f, after the split, when each CID stands for its inner expression.
Corresponds(e, f) ==
    LET referred(cid) == Unresolved(inner[cid + 1])
        isArg(g) == e.children[1] = referred(g.children[1].cid) \/ (e.op = "COUNT" /\ e.children[1].op = "Star")
    IN
    CASE e.op = "AVG" ->
            /\ f.op = "Div" /\ f.children[1].op = "SUM" /\ f.children[2].op = "COUNT"
            /\ isArg(f.children[1]) /\ isArg(f.children[2])
      [] e.op \in AggFunctions \ {"AVG"} -> f.op = e.op /\ isArg(f)
      [] e.op \notin AggFunctions /\ f.op = "CID" -> f.cid < KeyLen /\ referred(f.cid) = e
      [] OTHER ->
            /\ e.op # "Column" /\ f.op = e.op /\ (IsLiteral(e) => f.value = e.value)
            /\ \A i \in DOMAIN e.children : Corresponds(e.children[i], f.children[i])

\* Numbers given out by transform_groupby_expr stay right while the inner list grows, when its
\* stars are resolved and casts are put in: "subexpressions are replaced with corresponding
\* references to inner/select qb select-list using CID#" (qst.rs:241).
ReferencesCorrespond ==
    IsGroupBy /\ pc \in {"having", "bind", "inner", "outer", "plan"} =>
        /\ \A i \in DOMAIN select_list : Corresponds(query.select_list[i], Unresolved(select_list[i]))
        /\ pc # "plan" =>
              \A i \in DOMAIN pred_list :
                  (pc = "having" /\ i > at) \/ Corresponds(query.having[i], Unresolved(pred_list[i]))

\* A job ends with an error when a table is cataloged twice or badly, a table, a column or an alias
\* is missing or ambiguous, types do not fit, a column is not grouped by, or aggregate functions are
\* where they cannot be, though the split comes before names are known.  Two kinds of legal queries
\* end so as well, and no others: those with a * for columns that are not found by its prefix and
\* their names, and, when the groups are made in two steps, those that compute with aggregates
\* otherwise than by dividing them, such as SELECT SUM(b) + 1.
RejectedIffIllegal ==
    LET isComputedInSteps == IsTwoSteps => \A e \in ToSet(query.select_list) : IsTwoStep(e) IN
    /\ pc = "rejected" => ~(IsLegal /\ StarsAreClear /\ isComputedInSteps)
    /\ pc \in {"plan", "compile", "done"} => IsLegal /\ StarsAreClear
    /\ pc \in {"compile", "done"} => isComputedInSteps

ResultFits(result) ==
    /\ IsAnswered => result.panics \/ UnquotedGroups(result.groups) = Answer
    /\ IsSupported => ~result.panics

\* The split, AVG as a quotient, casts, the second step on the results of the first, and the
\* places of columns and aggregates in the projection maps give the answer of the query as
\* written, but for the quotes around strings, and for the pairs of a join, which come Times times;
\* and what is supported runs.
AnswerIsRight ==
    quns # << >> =>
        /\ pc = "done" => ResultFits(Result)
        /\ pc = "failed" => ~IsLegal \/ ~IsSupported \/ ~IsAnswered

OutputColumn(i) == IF IsGroupBy THEN select_list[i] ELSE inner[i]
ColumnTypesAgree(i) ==
    LET e == query.select_list[i]
        column == OutputColumn(i)
    IN
    /\ (\A f \in ToSet(Visit(<<e>>)) : f.op \in ArithOps => LeftIsWider(f)) => column.type = TypeOf(e)
    /\ postaggs # << >> => postaggs[i].type = column.type

ValueTypesAgree(groups) ==
    \A i \in DOMAIN query.select_list :
        IsIntQuotient(query.select_list[i]) \/ \A g \in groups : g.row[i].type = OutputColumn(i).type

\* After resolution no expression is without a type ("Unresolved datatypes in expression graph",
\* lop.rs:139); a column has the type its expression has by the rules of SQL, in both steps of an
\* aggregation, and its values have that type unless it is a quotient of integers.
TypesAgree ==
    pc \in {"plan", "compile", "done"} =>
        /\ \A e \in ToSet(Visit(inner \o where \o (IF IsGroupBy THEN select_list \o pred_list ELSE << >>))) :
                e.type # "Null"
        /\ (\A e \in ToSet(query.select_list) : e.op # "Star") =>
                /\ \A i \in DOMAIN query.select_list : ColumnTypesAgree(i)
                /\ pc = "done" /\ IsSupported => ValueTypesAgree(Result.groups)
=============================================================================
