---------------------------- MODULE Expressions ----------------------------
(***************************************************************************)
(* Expressions and what is done with them whatever the query: comparison   *)
(* (expr.rs, graph.rs), compilation to a stack program and its evaluation  *)
(* (pcode.rs), and the places of columns and aggregates in a row (pop.rs). *)
(*                                                                         *)
(* An expression is a tree of nodes [op, children, type], with the fields  *)
(* of its kind.  Its type is "Null" until it has been resolved.            *)
(***************************************************************************)
EXTENDS Values, Sequences, FiniteSets, SequencesExt

AggFunctions == {"COUNT", "MIN", "MAX", "SUM", "AVG"}

Expr(op, children) == [op |-> op, children |-> children, type |-> "Null"]
\* A column without prefix has "" for it; the number of its quantifier is 0 until it is resolved.
Column(prefix, name) ==
    [op |-> "Column", children |-> << >>, type |-> "Null", prefix |-> prefix, name |-> name, qunid |-> 0, colid |-> 0]
CID(cid) == [op |-> "CID", children |-> << >>, type |-> "Null", cid |-> cid]
Literal(value) == [op |-> "Literal", children |-> << >>, type |-> "Null", value |-> value]
Star(prefix) == [op |-> "Star", children |-> << >>, type |-> "Null", prefix |-> prefix]

Typed(e, type) == [e EXCEPT !.type = type]

RECURSIVE Visit(_)
\* GraphIterator, in the order of its queue (from which the last is taken first).
Visit(queue) ==
    IF queue = << >> THEN << >>
    ELSE <<Last(queue)>> \o Visit(Front(queue) \o Last(queue).children)

\* Variant: a node is told by its kind.
EqualsByKind(e, f) == e.op = f.op /\ e.op # "Star"

\* Types and resolved numbers do not count; a star or a cast is different from itself.
Equals(e, f) ==
    /\ e.op = f.op /\ e.op \notin {"Star", "Cast"}
    /\ e.op = "Column" => e.prefix = f.prefix /\ e.name = f.name
    /\ e.op = "CID" => e.cid = f.cid
    /\ e.op = "Literal" => e.value = f.value

Isomorphic(e, f) ==
    LET es == Visit(<<e>>)
        fs == Visit(<<f>>)
    IN  Len(es) = Len(fs) /\ \A i \in DOMAIN es : Equals(es[i], fs[i])

RECURSIVE BooleanFactors(_)
BooleanFactors(e) ==
    IF e.op = "And" THEN BooleanFactors(e.children[1]) \o BooleanFactors(e.children[2]) ELSE <<e>>

-----------------------------------------------------------------------------
(* Compilation.  A projection map is [cols, aggs]: the place of each column          *)
(* <<qunid, colid>> and, behind them, of each aggregate <<function, cid, type>>.      *)

SetAgg(map, agg) ==
    IF agg \in DOMAIN map.aggs THEN map
    ELSE [map EXCEPT !.aggs = (agg :> Cardinality(DOMAIN map.cols) + Cardinality(DOMAIN map.aggs)) @@ @]

PInstruction(e, map) ==
    CASE e.op \in AggFunctions -> [op |-> "Column", at |-> map.aggs[<<e.op, e.children[1].cid, e.type>>]]
      [] e.op = "CID" -> [op |-> "Column", at |-> e.cid]
      [] e.op = "Column" -> [op |-> "Column", at |-> map.cols[<<e.qunid, e.colid>>]]
      [] e.op = "Literal" -> [op |-> "Literal", value |-> e.value]
      [] e.op = "Cast" -> [op |-> "Cast", to |-> e.type]
      [] OTHER -> [op |-> e.op]

\* Children before parents, except that those of an aggregate are computed below.
CompiledChildren(e) == IF e.op \in AggFunctions THEN << >> ELSE e.children

RECURSIVE Compile(_, _)
Compile(e, done) ==
    LET below == FoldLeft(LAMBDA d, c : Compile(c, d), done, CompiledChildren(e))
        map == IF e.op \in AggFunctions THEN SetAgg(below.map, <<e.op, e.children[1].cid, e.type>>) ELSE below.map
    IN  [code |-> Append(below.code, PInstruction(e, map)), map |-> map]

\* compile_exprs: a program for each expression, with the map they all have filled.
CompileExprs(exprs, map) ==
    FoldLeft(LAMBDA d, e : LET c == Compile(e, [code |-> << >>, map |-> d.map])
                           IN  [codes |-> Append(d.codes, c.code), map |-> c.map],
             [codes |-> << >>, map |-> map], exprs)

\* compile unwraps the place of a column.
Compilable(exprs, map) ==
    \A f \in ToSet(Visit(exprs)) : f.op = "Column" => <<f.qunid, f.colid>> \in DOMAIN map.cols

-----------------------------------------------------------------------------
(* Evaluation, for one row of a chunk; a datum is a literal, a scalar.               *)

\* What the stack machine has no code for (todo!): a scalar on the left, a scalar in AND or OR.
Implemented(op, lhs, rhs) == lhs.isColumn /\ (op \in LogOps => rhs.isColumn)

Operands(op) == IF op \in {"Neg", "Cast"} THEN 1 ELSE 2

\* The value of an instruction with operands; Panicked, where one of them is, as the task has.
Computed(inst, lhs, rhs) ==
    IF Panicked \in {lhs.value, rhs.value} \/ ~Implemented(inst.op, lhs, rhs) THEN Panicked
    ELSE CASE inst.op = "Neg" -> Negated(lhs.value)
           [] inst.op = "Cast" -> CastTo(inst.to, lhs.value)
           [] OTHER -> Apply(inst.op, lhs.value, rhs.value)

Exec(stack, inst, row) ==
    LET n == Operands(inst.op)
        operands == SubSeq(stack, Len(stack) - n + 1, Len(stack))
    IN
    CASE inst.op = "Column" -> Append(stack, [isColumn |-> TRUE, value |-> row[inst.at + 1]])
      [] inst.op = "Literal" -> Append(stack, [isColumn |-> FALSE, value |-> inst.value])
      [] OTHER ->
            IF Len(stack) < n THEN <<[isColumn |-> TRUE, value |-> Panicked]>>
            ELSE Append(SubSeq(stack, 1, Len(stack) - n),
                        [isColumn |-> TRUE, value |-> Computed(inst, Head(operands), Last(operands))])

\* eval takes the last value, which must be a column, and does not look at what else is left.
Eval(code, row) ==
    LET stack == FoldLeft(LAMBDA s, inst : Exec(s, inst, row), << >>, code)
    IN  IF Last(stack).isColumn /\ \A i \in DOMAIN stack : stack[i].value # Panicked
        THEN Last(stack).value ELSE Panicked
=============================================================================
