----------------------------- MODULE MCPlanner -----------------------------
(***************************************************************************)
(* Queries over up to four tables of two columns.                          *)
(***************************************************************************)
EXTENDS PlanResult

Expr(cols) == [cols |-> cols, plus |-> 0]
Eqs(lcols, rcols) == [lhs |-> Expr(lcols), rhs |-> Expr(rcols)]
Eq(l, r) == Eqs({l}, {r})

\* l = r + 1
EqPlus(l, r) == [lhs |-> Expr({l}), rhs |-> [cols |-> {r}, plus |-> 1]]

\* A column equal to 0, and a comparison of constants.
IsZero(c) == Eqs({c}, {})
Constant == [lhs |-> [cols |-> {}, plus |-> 1], rhs |-> Expr({})]

Query(parts, degree, preds, select) ==
    [parts |-> parts, degree |-> degree, preds |-> preds, select |-> select,
     key_len |-> 0, aggs |-> << >>, having |-> FALSE]

GroupBy(q, key_len, aggs, having) == [q EXCEPT !.key_len = key_len, !.aggs = aggs, !.having = having]

Orders(S) == {SetToSeq(S), Reverse(SetToSeq(S))}

Join1 == {Eq(<<1, 0>>, <<2, 0>>), Eq(<<2, 1>>, <<1, 1>>), Eq(<<3, 0>>, <<2, 0>>), Eq(<<1, 1>>, <<3, 1>>),
          Eqs({<<1, 0>>, <<2, 1>>}, {<<3, 1>>}), Eq(<<2, 0>>, <<2, 1>>), IsZero(<<3, 0>>), Constant}

\* Three tables and up to four of the predicates, in one order and the other.
ThreeTables ==
    {Query(<<1, 2, 2>>, 2, preds, <<Expr({<<1, 0>>})>>) :
        preds \in UNION {Orders(S) : S \in {T \in SUBSET Join1 : Cardinality(T) \in 2 .. 4}}}

\* Keys that are no columns, on one side or on both, with others that are; a leg that is
\* already partitioned by an equivalent of such a key.
Join2 == {Eq(<<1, 0>>, <<2, 0>>), EqPlus(<<1, 1>>, <<2, 1>>), EqPlus(<<3, 0>>, <<1, 0>>),
          EqPlus(<<3, 1>>, <<2, 1>>), Eqs({<<1, 0>>, <<1, 1>>}, {<<3, 0>>, <<3, 1>>})}

CompositeKeys ==
    {Query(<<2, 1, 2>>, 2, preds, <<Expr({<<3, 1>>, <<1, 0>>}), Expr({<<2, 1>>})>>) :
        preds \in UNION {Orders(S) : S \in {T \in SUBSET Join2 : Cardinality(T) \in 2 .. 4}}}

\* Tables 1 and 2 are joined on column 0, and equal on column 1 by way of table 4, which
\* is joined last: table 3 finds them partitioned by a key that is not equivalent yet.
ByWayOfAThird ==
    {Query(<<1, 1, 2, 1>>, 2,
           <<Eq(<<1, 0>>, <<2, 0>>), Eq(<<2, 1>>, <<3, 0>>), Eq(<<1, 0>>, <<4, 0>>), Eq(<<4, 0>>, <<2, 1>>)>>,
           <<Expr({<<1, 1>>})>>)}

\* Two joins that are joined: the second one has the first one on its right, which is
\* not repartitioned for it.
Bushy ==
    {Query(<<1, 1, 1, 1>>, 2,
           <<Eq(<<1, 0>>, <<2, 0>>), Eq(<<3, 1>>, <<4, 1>>), Eqs({<<1, 0>>}, {<<3, 0>>, <<4, 0>>})>>,
           <<Expr({<<1, 1>>, <<4, 1>>})>>)}

\* GROUP BY over a table and over a join.
Columns(cols) == [i \in DOMAIN cols |-> Expr({cols[i]})]
OneColumn == Columns(<< <<1, 0>>, <<1, 1>>, <<1, 0>> >>)

Grouped ==
    {GroupBy(Query(parts, d, << >>, OneColumn), k, IF k = 1 THEN <<"SUM", "COUNT">> ELSE <<"COUNT">>, FALSE) :
        parts \in {<<1>>, <<2>>, <<3>>}, d \in 1 .. 3, k \in 1 .. 2}
    \union
    {GroupBy(Query(<<1>>, d, <<IsZero(<<1, 1>>)>>, Columns(<< <<1, 0>>, <<1, 1>> >>)), 1, <<"COUNT">>, h) :
        d \in 1 .. 2, h \in BOOLEAN}
    \union
    {GroupBy(Query(<<2, 1>>, d, <<p>>, <<Expr({<<2, 1>>, <<1, 1>>}), Expr({<<1, 0>>}), Expr({<<2, 0>>})>>),
             2, <<"SUM">>, FALSE) :
        d \in 1 .. 3, p \in {Eq(<<1, 0>>, <<2, 0>>), EqPlus(<<1, 0>>, <<2, 0>>)}}

\* A predicate on a table of one and of two partitions below a GROUP BY.
WhereQueries ==
    {GroupBy(Query(<<n>>, 2, <<IsZero(<<1, 1>>)>>, Columns(<< <<1, 0>>, <<1, 1>> >>)), 1, <<"COUNT">>, FALSE) :
        n \in 1 .. 2}

MCQueries == ThreeTables \union CompositeKeys \union ByWayOfAThird \union Bushy \union Grouped \union WhereQueries
=============================================================================
