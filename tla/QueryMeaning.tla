---------------------------- MODULE QueryMeaning ----------------------------
(***************************************************************************)
(* What a query says, from its text and not from what GroupBy makes of it: *)
(* which queries are legal, the type of an expression, and the answer.     *)
(***************************************************************************)
EXTENDS GroupBy

-----------------------------------------------------------------------------
(* Names and types, from the text of a query. *)

\* Quantifiers of which a column may be: all without a prefix; with one the first that has it for
\* its name or alias.  In FROM t x, t the prefix t is x's, which is the rule of the code.
Named(prefix) ==
    LET matching == {i \in DOMAIN quns : prefix \in {quns[i].alias, quns[i].table}}
    IN  IF prefix = "" THEN DOMAIN quns ELSE {i \in matching : \A j \in matching : i <= j}
Denoted(e) == {i \in Named(e.prefix) : \E c \in DOMAIN quns[i].fields : quns[i].fields[c].name = e.name}
QunOf(e) == CHOOSE i \in Denoted(e) : TRUE
ColOf(e) == CHOOSE c \in DOMAIN quns[QunOf(e)].fields : quns[QunOf(e)].fields[c].name = e.name

Exprs == query.select_list \o query.where \o query.group_by \o query.having

\* The columns a * is replaced by have its prefix, and are then looked up as if they had been
\* written: T.s and R.s are not found as s.
StarsAreClear ==
    \A e \in {f \in ToSet(Visit(Exprs)) : f.op = "Star"} :
        \A i \in {j \in DOMAIN quns : e.prefix \in {"", quns[j].alias}} : \A field \in ToSet(quns[i].fields) :
            Cardinality(Denoted(Column(e.prefix, field.name))) = 1

RECURSIVE TypeOf(_)
TypeOf(e) ==
    CASE e.op = "Column" -> quns[QunOf(e)].fields[ColOf(e)].type
      [] e.op = "Literal" -> e.value.type
      [] e.op = "COUNT" -> "Int64"
      [] e.op \in {"AVG", "Div"} -> "Float64"
      [] e.op \in {"MIN", "MAX", "SUM", "Neg"} -> TypeOf(e.children[1])
      [] e.op \in RelOps \union LogOps -> "Boolean"
      [] e.op \in ArithOps \ {"Div"} ->
            IF \E c \in ToSet(e.children) : TypeOf(c) = "Float64" THEN "Float64" ELSE "Int64"

IsNumber(e) == TypeOf(e) \in {"Int64", "Float64"}

RECURSIVE IsWellTyped(_)
IsWellTyped(e) ==
    /\ \A c \in ToSet(e.children) : c.op # "Star" => IsWellTyped(c)
    /\ e.op = "Column" => Cardinality(Denoted(e)) = 1
    /\ e.op \in ArithOps \union {"Neg", "SUM", "AVG"} => \A c \in ToSet(e.children) : IsNumber(c)
    /\ e.op \in RelOps => TypeOf(e.children[1]) = TypeOf(e.children[2])

RECURSIVE UsesKeysOnly(_)
\* Outside of aggregate functions columns occur in GROUP BY expressions only, spelled as they
\* are there.
UsesKeysOnly(e) ==
    \/ e.op \in AggFunctions
    \/ e \in ToSet(query.group_by)
    \/ e.op \notin {"Column", "Star"} /\ \A c \in ToSet(e.children) : UsesKeysOnly(c)

HasAgg(e) == \E f \in ToSet(Visit(<<e>>)) : f.op \in AggFunctions

RECURSIVE NoAggInAgg(_)
NoAggInAgg(e) ==
    IF e.op \in AggFunctions THEN ~HasAgg(e.children[1]) ELSE \A c \in ToSet(e.children) : NoAggInAgg(c)

\* The values an option may have.
IsLegalOption(option, value) ==
    CASE option = "TYPE" -> value \in {"CSV", "PARQUET"}
      [] option = "HEADER" -> value \in {"YES", "NO"}
      [] option = "SEPARATOR" -> Len(value) = 1
      [] option \in {"NROWS", "AVG_ROW_SIZE", "PARTITIONS"} -> value > 0
      [] option = "COLUMNS" -> \A i \in DOMAIN value : value[i].type \in {"Utf8", "Int64"}
      [] option = "PATH" -> TRUE

\* A table has a type and a file, which is there unless its columns are given; what is in a
\* Parquet file only that file can say.
IsLegalTable(options) ==
    /\ {"TYPE", "PATH"} \subseteq DOMAIN options
    /\ \A option \in DOMAIN options : IsLegalOption(option, options[option])
    /\ "COLUMNS" \notin DOMAIN options => options.PATH \in DOMAIN Files
    /\ options.TYPE = "PARQUET" => {"HEADER", "SEPARATOR", "COLUMNS"} \intersect DOMAIN options = {}

CatalogIsLegal ==
    /\ \A stmt \in ToSet(job.catalog) : IsLegalTable(stmt.options)
    /\ \A i, j \in DOMAIN job.catalog : i # j => job.catalog[i].name # job.catalog[j].name

FromIsLegal ==
    /\ \A i \in DOMAIN query.from : \E stmt \in ToSet(job.catalog) : stmt.name = query.from[i].table
    /\ \A i, j \in DOMAIN query.from : i # j => Aliases[i] # Aliases[j]

IsLegal ==
    /\ CatalogIsLegal /\ FromIsLegal
    /\ \A e \in ToSet(query.where \o query.group_by) : ~HasAgg(e)
    /\ \A e \in ToSet(query.select_list \o query.having) :
            IF IsGroupBy THEN UsesKeysOnly(e) /\ NoAggInAgg(e) ELSE ~HasAgg(e)
    /\ quns # << >> => \A e \in ToSet(Exprs) : e.op = "Star" \/ IsWellTyped(e)

-----------------------------------------------------------------------------
(* The meaning of a query, from its text, over the rows of its FROM clause. *)

ValueAt(qun, col, row) ==
    LET before == FoldLeft(LAMBDA n, q : n + Len(q.fields), 0, SubSeq(quns, 1, qun - 1))
    IN  row[before + col]
ColumnValue(e, row) == ValueAt(QunOf(e), ColOf(e), row)

\* A number meets another type of number as the wider one.
Operate(op, x, y) ==
    IF x.type = y.type THEN Apply(op, x, y) ELSE Apply(op, CastTo("Float64", x), CastTo("Float64", y))

Sum(values) == FoldLeft(LAMBDA x, y : Apply("Add", x, y), Head(values), Tail(values))
Extreme(values, less(_, _)) == FoldLeft(LAMBDA x, y : IF less(x, y) THEN x ELSE y, Head(values), Tail(values))

Aggregate(aggtype, values) ==
    CASE aggtype = "COUNT" -> Int64(Len(values))
      [] aggtype = "SUM" -> Sum(values)
      [] aggtype = "AVG" -> Operate("Div", Sum(values), Int64(Len(values)))
      [] aggtype = "MIN" -> Extreme(values, LAMBDA x, y : Less(x, y))
      [] aggtype = "MAX" -> Extreme(values, LAMBDA x, y : Less(y, x))

RECURSIVE Meaning(_, _)
\* The value of e in a group of rows.
Meaning(e, rows) ==
    CASE e.op \in AggFunctions ->
            Aggregate(e.op, [i \in DOMAIN rows |-> IF e.children[1].op = "Star" THEN Int64(1)
                                                   ELSE Meaning(e.children[1], <<rows[i]>>)])
      [] e.op = "Column" -> ColumnValue(e, rows[1])
      [] e.op = "Literal" -> e.value
      [] e.op = "Neg" -> Negated(Meaning(e.children[1], rows))
      [] OTHER -> Operate(e.op, Meaning(e.children[1], rows), Meaning(e.children[2], rows))

Holds(preds, rows) == \A i \in DOMAIN preds : IsTrue(Meaning(preds[i], rows))

AllRows(qun) ==
    LET table == tables[qun.table]
    IN  FlattenSeq([p \in 1 .. table.npartitions |-> PartitionOf(table, p)])

\* Pairs, as rows, in the order of xs.
Cross(xs, ys) == FlattenSeq([i \in DOMAIN xs |-> [j \in DOMAIN ys |-> xs[i] \o ys[j]]])
FromRows == FoldLeft(LAMBDA rows, qun : Cross(rows, AllRows(qun)), <<<< >>>>, quns)

KeyOf(row) == [i \in 1 .. KeyLen |-> Meaning(query.group_by[i], <<row>>)]

\* A * stands for the columns of the quantifiers its prefix names.
StarValues(e, row) ==
    FlattenSeq([i \in DOMAIN quns |->
        IF i \notin Named(e.prefix) THEN << >>
        ELSE [c \in DOMAIN quns[i].fields |-> ValueAt(i, c, row)]])

Row(g) ==
    FlattenSeq([i \in DOMAIN query.select_list |->
        LET e == query.select_list[i] IN IF e.op = "Star" THEN StarValues(e, g[1]) ELSE <<Meaning(e, g)>>])

\* A bag of rows, the occurrences of each of which are numbered.
RowsByNumber(rows) ==
    {[key |-> <<Int64(Cardinality({j \in 1 .. i : rows[j] = rows[i]}))>>, row |-> rows[i]] : i \in DOMAIN rows}

AnswerOver(from) ==
    IF ~IsGroupBy THEN RowsByNumber([i \in DOMAIN from |-> Row(<<from[i]>>)])
    ELSE LET groups == {SelectSeq(from, LAMBDA r : KeyOf(r) = KeyOf(row)) : row \in ToSet(from)}
         IN  {[key |-> KeyOf(g[1]), row |-> Row(g)] : g \in {h \in groups : Holds(query.having, h)}}

QunsOf(e) == UNION {Denoted(f) : f \in {g \in ToSet(Visit(<<e>>)) : g.op = "Column"}}

\* The predicate that joins two tables.
IsJoinPred(e) == e.op = "Eq" /\ {QunsOf(e.children[1]), QunsOf(e.children[2])} = {{1}, {2}}
JoinPredOf(preds) == {e \in ToSet(Factors(preds)) : IsJoinPred(e)}

\* The columns of table qun that something other than a predicate on this table alone names.
ColumnsNeeded(qun) ==
    LET exprs == query.select_list \o query.group_by \o query.having
                 \o SelectSeq(Factors(query.where), LAMBDA e : QunsOf(e) = {1, 2})
        names(e, c) == \/ e.op = "Column" /\ Denoted(e) = {qun} /\ ColOf(e) = c
                       \/ e.op = "Star" /\ qun \in Named(e.prefix)
    IN  {c \in DOMAIN quns[qun].fields : \E e \in ToSet(Visit(exprs)) : names(e, c)}

HasComputedKey == \E e \in JoinPredOf(query.where) : \E c \in ToSet(e.children) : c.op # "Column"

\* The query does not ask for it, but a hash join returns a pair of rows once for each column it
\* has of the second table, a key that is computed included (EmittedPerColumn of HashMatch).
Times ==
    IF Len(quns) = 1 THEN 1 ELSE Cardinality(ColumnsNeeded(2)) + (IF HasComputedKey THEN 1 ELSE 0)

Repeated(rows, n) == FlattenSeq([i \in DOMAIN rows |-> [k \in 1 .. n |-> rows[i]]])

\* What the query says of its rows, each taken Times times.
Answer == AnswerOver(Repeated(SelectSeq(FromRows, LAMBDA r : Holds(query.where, <<r>>)), Times))

-----------------------------------------------------------------------------
(* Queries that run and give their answer.  What is left out here, the code accepts and then *)
(* panics over, or answers with something else.                                              *)

IsLiteral(e) == e.op = "Literal"
\* Declared to be Float64, but the quotient of two Int64 is one.
IsIntQuotient(e) ==
    \/ e.op = "AVG" /\ TypeOf(e.children[1]) = "Int64"
    \/ e.op = "Div" /\ \A c \in ToSet(e.children) : TypeOf(c) = "Int64"

\* The right operand is cast when it is the narrower one; literals and left operands never are.
LeftIsWider(e) ==
    LET lhs == e.children[1]
        rhs == e.children[2]
    IN  TypeOf(lhs) # TypeOf(rhs) => TypeOf(lhs) = "Float64" /\ ~IsLiteral(lhs) /\ ~IsLiteral(rhs)

RECURSIVE IsComputed(_)
IsComputed(e) ==
    /\ \A c \in ToSet(e.children) : c.op # "Star" => IsComputed(c) /\ ~IsIntQuotient(c)
    /\ e.op \in ArithOps => LeftIsWider(e)
    /\ e.op \in ArithOps \union RelOps \union LogOps \union AggFunctions \union {"Neg"} => ~IsLiteral(e.children[1])
    /\ e.op \in LogOps => \A c \in ToSet(e.children) : ~IsLiteral(c) /\ TypeOf(c) = "Boolean"
    /\ e.op \in {"MIN", "MAX"} => TypeOf(e.children[1]) \in {"Int64", "Utf8"}

RECURSIVE IsTwoStep(_)
\* Keys, aggregates and quotients of them can be computed from the groups of partitions.
IsTwoStep(e) ==
    \/ e \in ToSet(query.group_by) \/ e.op \in AggFunctions
    \/ e.op = "Div" /\ \A c \in ToSet(e.children) : IsTwoStep(c)

StringsCompared(preds) == \E e \in ToSet(Visit(preds)) : e.op \in RelOps /\ TypeOf(e.children[1]) = "Utf8"

\* With COLUMNS nothing has looked at the file of a table before it is scanned.
FilesExist == \A i \in DOMAIN quns : tables[quns[i].table].path \in DOMAIN Files

\* There is no product of tables, and no array for fractions on the build side of a join.
IsJoined ==
    Len(quns) = 2 =>
        /\ JoinPredOf(query.where) # {}
        /\ \A c \in ColumnsNeeded(2) : quns[2].fields[c].type # "Float64"
        /\ \A e \in JoinPredOf(query.where) : TypeOf(e.children[1]) # "Float64"

IsTwoSteps == IsGroupBy /\ NPartitions > 1

\* Groups are compared by strings only, and before HAVING strings have got quotes around them.
IsSupported ==
    /\ FilesExist /\ IsJoined
    /\ \A e \in ToSet(Exprs) : e.op # "Star" => IsComputed(e) /\ ~IsLiteral(e)
    /\ \A e \in ToSet(query.where \o query.having) : TypeOf(e) = "Boolean"
    /\ \A e \in ToSet(query.group_by) : TypeOf(e) = "Utf8"
    /\ IsTwoSteps => \A e \in ToSet(query.select_list) : IsTwoStep(e)

\* The first of two aggregations takes the predicates of the scan for those of HAVING (ColumnsFlow
\* of Planner has this); t.* is nothing when it is x.* that t has been called.
IsAnswered ==
    /\ ~StringsCompared(query.having)
    /\ IsTwoSteps => query.where = << >> /\ query.having = << >>
    /\ \A e \in ToSet(query.select_list) : e.op = "Star" =>
          e.prefix = "" \/ \E i \in Named(e.prefix) : e.prefix = quns[i].alias
=============================================================================
