------------------------------- MODULE Names -------------------------------
(***************************************************************************)
(* Names, scopes and types: what a column of a query block refers to, the  *)
(* columns a * stands for, and the type of each expression (qst.rs,        *)
(* qgm.rs).                                                                *)
(*                                                                         *)
(* A quantifier is [alias, table, fields]; a scope is the quantifiers of a *)
(* block and the types of the columns of the block below it.  The outcome  *)
(* of a resolution is "ok", "rejected" (an Err) or "failed" (a panic).     *)
(***************************************************************************)
EXTENDS Expressions

\* Quantifier::new: a table that is given no alias has its name for one.
Quantifier(from, fields) ==
    [alias |-> IF from.alias = "" THEN from.table ELSE from.alias, table |-> from.table, fields |-> fields]

MatchesNameOrAlias(qun, prefix) == prefix \in {qun.table, qun.alias}

MinOf(S) == CHOOSE i \in S : \A j \in S : i <= j

\* With a prefix the search ends at the first quantifier that matches it.
Searched(quns, prefix) ==
    LET matching == {i \in DOMAIN quns : MatchesNameOrAlias(quns[i], prefix)}
    IN  IF prefix = "" THEN DOMAIN quns
        ELSE IF matching = {} THEN {} ELSE {MinOf(matching)}

\* get_column: places of the fields of a name; the first is taken.
FieldsNamed(qun, name) == {c \in DOMAIN qun.fields : qun.fields[c].name = name}

Outcome(outcome, e) == [outcome |-> outcome, expr |-> e]

ResolveColumn(quns, e) ==
    LET found == {i \in Searched(quns, e.prefix) : FieldsNamed(quns[i], e.name) # {}}
        qun == MinOf(found)
        col == MinOf(FieldsNamed(quns[qun], e.name))
    IN
    IF Cardinality(found) # 1 THEN Outcome("rejected", e)
    ELSE Outcome("ok", [e EXCEPT !.qunid = qun, !.colid = col - 1, !.type = quns[qun].fields[col].type])

-----------------------------------------------------------------------------
(* Types. *)

Cast(e, type) == Typed(Expr("Cast", <<e>>), type)

\* Variant: the type of the right operand is that of the expression.
HarmonizedTo(lhs, rhs) == rhs

\* The wider type is on the left, or the left operand would have to be cast, which is not done.
HarmonizedType(lhs, rhs) == lhs

\* harmonize_expr_types; both operands are numeric.
Harmonize(e) ==
    LET lhs == e.children[1]
        rhs == e.children[2]
        type == IF e.op = "Div" THEN "Float64" ELSE HarmonizedType(lhs.type, rhs.type)
    IN
    CASE lhs.type # rhs.type /\ "Literal" \in {lhs.op, rhs.op} -> Outcome("failed", e)
      [] lhs.type # rhs.type /\ "Literal" \notin {lhs.op, rhs.op} /\ Rank[lhs.type] > Rank[rhs.type] ->
            Outcome("ok", [e EXCEPT !.type = type, !.children[2] = Cast(rhs, lhs.type)])
      [] OTHER -> Outcome("ok", Typed(e, type))

\* is_numeric panics for a type that has no rank.
ResolveArith(e) ==
    IF \A i \in DOMAIN e.children : IsNumeric(e.children[i].type) THEN Harmonize(e) ELSE Outcome("failed", e)

ResolveRel(e) ==
    IF e.children[1].type = e.children[2].type THEN Outcome("ok", Typed(e, "Boolean")) ELSE Outcome("rejected", e)

ResolveNeg(e) ==
    IF IsNumeric(e.children[1].type) THEN Outcome("ok", Typed(e, e.children[1].type)) ELSE Outcome("failed", e)

ResolveAgg(e, agg_fns_allowed) ==
    LET type == e.children[1].type IN
    CASE ~agg_fns_allowed -> Outcome("rejected", e)
      [] agg_fns_allowed /\ e.op = "COUNT" -> Outcome("ok", Typed(e, "Int64"))
      [] agg_fns_allowed /\ e.op \in {"MIN", "MAX"} -> Outcome("ok", Typed(e, type))
      [] agg_fns_allowed /\ e.op = "SUM" ->
            IF IsNumeric(type) THEN Outcome("ok", Typed(e, type)) ELSE Outcome("failed", e)
      [] agg_fns_allowed /\ e.op = "AVG" -> Outcome("ok", Typed(e, "Float64"))

\* An expression whose children have been resolved.
ResolveNode(e, scope, agg_fns_allowed) ==
    CASE e.op = "Column" -> ResolveColumn(scope.quns, e)
      [] e.op = "CID" -> Outcome("ok", Typed(e, scope.types[e.cid + 1]))
      [] e.op = "Literal" -> Outcome("ok", Typed(e, e.value.type))
      [] e.op \in RelOps -> ResolveRel(e)
      [] e.op \in ArithOps -> ResolveArith(e)
      [] e.op \in LogOps -> Outcome("ok", Typed(e, "Boolean"))
      [] e.op = "Neg" -> ResolveNeg(e)
      [] e.op \in AggFunctions -> ResolveAgg(e, agg_fns_allowed)
      [] OTHER -> Outcome("failed", e)

RECURSIVE ResolveExpr(_, _, _), ResolveList(_, _, _)
\* Children first; aggregate functions are not allowed in one another.
ResolveExpr(e, scope, agg_fns_allowed) ==
    LET under == ResolveList(e.children, scope, agg_fns_allowed /\ e.op \notin AggFunctions)
    IN  IF under.outcome # "ok" THEN Outcome(under.outcome, e)
        ELSE ResolveNode([e EXCEPT !.children = under.exprs], scope, agg_fns_allowed)

\* In their order, up to the first that is not resolved.
ResolveList(list, scope, agg_fns_allowed) ==
    FoldLeft(LAMBDA d, e :
                IF d.outcome # "ok" THEN d
                ELSE LET r == ResolveExpr(e, scope, agg_fns_allowed)
                     IN  [outcome |-> r.outcome, exprs |-> Append(d.exprs, r.expr)],
             [outcome |-> "ok", exprs |-> << >>], list)

TypesOf(exprs) == [i \in DOMAIN exprs |-> exprs[i].type]

-----------------------------------------------------------------------------
(* A * in a select list becomes the columns of the quantifiers whose alias is its prefix, *)
(* or of all, in its place.                                                                *)

StarColumns(star, quns) ==
    FlattenSeq([i \in DOMAIN quns |->
        IF star.prefix \in {"", quns[i].alias}
        THEN [c \in DOMAIN quns[i].fields |-> Column(star.prefix, quns[i].fields[c].name)]
        ELSE << >>])

ResolveStar(list, quns) ==
    FlattenSeq([i \in DOMAIN list |-> IF list[i].op = "Star" THEN StarColumns(list[i], quns) ELSE <<list[i]>>])
=============================================================================
