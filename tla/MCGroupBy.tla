------------------------------ MODULE MCGroupBy ------------------------------
\* Jobs over a file of the columns s, u (strings), a, b (integers) and f, and one that shares s.
EXTENDS GroupByResult

col(name) == Column("", name)
s == col("s")
u == col("u")
a == col("a")
b == col("b")
f == col("f")
Lit(n) == Literal(Int64(n))
Bin(op, e, g) == Expr(op, <<e, g>>)
Agg(aggtype, e) == Expr(aggtype, <<e>>)
aPlusB == Bin("Add", a, b)

Field(name, type) == [name |-> name, type |-> type]
RowT(x, y, m, n, p) == <<Utf8(x), Utf8(y), Int64(m), Int64(n), Float64(p, 2)>>

\* Two groups by s, three by <<s, u>>, in one half of the rows and in both; rows of different a + b.
MCFiles ==
    [fileT |-> [fields |-> <<Field("s", "Utf8"), Field("u", "Utf8"), Field("a", "Int64"), Field("b", "Int64"),
                             Field("f", "Float64")>>,
                rows |-> <<RowT(1, 1, 1, 1, 1), RowT(1, 2, 2, 1, 3), RowT(1, 1, 2, 3, 4), RowT(2, 1, 3, 4, 5)>>],
     fileR |-> [fields |-> <<Field("s", "Utf8"), Field("k", "Int64")>>,
                rows |-> <<<<Utf8(1), Int64(2)>>, <<Utf8(2), Int64(3)>>>>]]

Catalog1(n) ==
    <<[name |-> "T", options |-> [TYPE |-> "CSV", PATH |-> "fileT", PARTITIONS |-> n]],
      [name |-> "R", options |-> [TYPE |-> "PARQUET", PATH |-> "fileR"]]>>

FromT == <<[alias |-> "", table |-> "T"]>>
JobsOf(catalogs, froms, wheres, groups, lists, havings) ==
    [catalog : catalogs,
     query : [from : froms, where : wheres, group_by : groups, select_list : lists, having : havings]]

-----------------------------------------------------------------------------
(* Groups, aggregates, types and partitions. *)

GroupBys == {<<s>>, <<s, u>>, <<a>>, <<aPlusB>>}

SelectExprs ==
    {s, a, aPlusB, Bin("Mul", aPlusB, Lit(2)), Agg("COUNT", b), Agg("SUM", b), Agg("AVG", b), Agg("AVG", f),
     Agg("MAX", aPlusB), Agg("MIN", u), Bin("Add", Agg("SUM", b), Lit(1)), Bin("Div", Agg("SUM", f), Agg("COUNT", b)),
     Bin("Sub", Agg("MAX", b), Agg("MIN", b)), Agg("SUM", Agg("SUM", b)), Bin("Add", Agg("SUM", f), Agg("SUM", b)),
     Bin("Add", Agg("SUM", b), Agg("SUM", f)), Expr("Neg", <<Agg("SUM", Expr("Neg", <<f>>))>>),
     Agg("SUM", Bin("Mul", f, b)), Agg("SUM", s), Agg("MIN", f), Bin("Add", Agg("AVG", f), Agg("AVG", b))}

SelectLists == UNION {[1 .. n -> SelectExprs] : n \in 1 .. 2}

Havings == {<< >>, <<Bin("Lt", Agg("COUNT", b), Lit(3))>>,
            <<Bin("And", Bin("Lt", Agg("AVG", f), Literal(Float64(2, 1))), Bin("Eq", a, Lit(1)))>>,
            <<Bin("Or", Bin("Eq", Agg("SUM", aPlusB), Lit(5)), Bin("Lt", Agg("MAX", b), Agg("SUM", b)))>>,
            <<Bin("Eq", s, Literal(Utf8(1)))>>}

MCWheres == {<< >>, <<Bin("Lt", b, Lit(4))>>, <<Bin("Ne", s, Literal(Utf8(2)))>>}

\* WHERE and HAVING with one column only.
Grouped ==
    JobsOf({Catalog1(1), Catalog1(2)}, {FromT}, {<< >>}, GroupBys, [1 .. 2 -> SelectExprs], {<< >>})
    \union JobsOf({Catalog1(1), Catalog1(2)}, {FromT}, MCWheres, GroupBys, [1 .. 1 -> SelectExprs], Havings)

-----------------------------------------------------------------------------
(* Names: aliases, prefixes, several tables, and what is wrong with them. *)

Froms ==
    {FromT, <<[alias |-> "x", table |-> "T"]>>,
     <<[alias |-> "", table |-> "T"], [alias |-> "", table |-> "R"]>>,
     <<[alias |-> "x", table |-> "T"], [alias |-> "y", table |-> "T"]>>,
     <<[alias |-> "x", table |-> "T"], [alias |-> "", table |-> "T"]>>,
     <<[alias |-> "x", table |-> "R"], [alias |-> "x", table |-> "T"]>>,
     <<[alias |-> "x", table |-> "T"], [alias |-> "T", table |-> "R"]>>,
     <<[alias |-> "", table |-> "T"], [alias |-> "", table |-> "Q"]>>}

NamedExprs ==
    {s, a, Column("T", "s"), Column("x", "s"), Column("y", "s"), Column("R", "s"), Column("T", "k"), col("k"),
     Column("y", "b"), Column("y", "f"), Bin("Add", Column("x", "a"), Column("y", "b")), Bin("Add", a, s), Agg("SUM", Column("x", "f"))}
Stars == {Star(""), Star("x"), Star("T")}

Wheres ==
    {<< >>, <<Bin("Eq", Column("T", "s"), Column("R", "s"))>>, <<Bin("Eq", Column("x", "s"), Column("y", "s"))>>,
     <<Bin("And", Bin("Eq", Column("x", "a"), Column("y", "b")), Bin("Lt", Column("x", "b"), Column("y", "a")))>>,
     <<Bin("And", Bin("Eq", Column("T", "s"), Column("R", "s")), Bin("Lt", Column("R", "k"), Lit(3)))>>,
     <<Bin("Eq", Bin("Add", Column("x", "a"), Lit(1)), Column("y", "a"))>>, <<Bin("Eq", Column("y", "f"), Column("x", "f"))>>,
     <<Bin("Lt", f, Lit(1))>>, <<Bin("Lt", Lit(1), a)>>, <<Bin("Lt", Agg("SUM", a), Lit(1))>>}

Ungrouped ==
    JobsOf({Catalog1(1), Catalog1(2)}, Froms, Wheres, {<< >>}, {<<e>> : e \in NamedExprs \union Stars}, {<< >>})
    \union JobsOf({Catalog1(1)}, Froms, Wheres, {<< >>}, {<<e, Column("x", "a")>> : e \in NamedExprs}, {<< >>})

GroupedByName ==
    JobsOf({Catalog1(1)}, Froms, Wheres, {<<s>>, <<Column("T", "s")>>, <<Column("x", "s")>>},
           {<<e, Agg("COUNT", v)>> : e \in NamedExprs \union {Star("")}, v \in {b, Column("x", "b"), Column("y", "b")}}, {<< >>})

-----------------------------------------------------------------------------
(* Catalogs. *)

OneOption(option, value) == (option :> value)
Options ==
    {[TYPE |-> t, PATH |-> p] @@ o : t \in {"CSV", "PARQUET", "TEXT"}, p \in {"fileT", "fileQ"},
     o \in {OneOption("HEADER", h) : h \in {"YES", "MAYBE"}} \union {OneOption("SEPARATOR", x) : x \in {"|", "||"}}
           \union {OneOption("PARTITIONS", n) : n \in 0 .. 3} \union {OneOption("NROWS", n) : n \in 0 .. 1}
           \union {OneOption("COLUMNS", <<Field("s", t)>>) : t \in {"Utf8", "Float64"}}}

Catalogs ==
    {<<[name |-> "T", options |-> o]>> : o \in Options \union {[TYPE |-> "CSV"], [PATH |-> "fileT"]}}
    \union {Catalog1(1) \o Catalog1(2), <<Catalog1(1)[2]>>, << >>}
Cataloged == JobsOf(Catalogs, {FromT}, {<< >>}, {<< >>, <<s>>}, {<<s>>}, {<< >>})

MCJobs == Grouped \union Ungrouped \union GroupedByName \union Cataloged

\* SELECT s, COUNT(*), SUM(...)
MCStarJobs ==
    JobsOf({Catalog1(1)}, {FromT}, {<< >>}, {<<s>>},
           {<<s, Agg("COUNT", Star("")), Agg("SUM", e)>> : e \in {a, b, aPlusB, f}}, {<< >>})
=============================================================================
