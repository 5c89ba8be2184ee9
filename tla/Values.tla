------------------------------- MODULE Values -------------------------------
(***************************************************************************)
(* Data types and single values of a column (datum.rs), and what the       *)
(* kernels of arrow2 compute of them for pcode.rs.                         *)
(*                                                                         *)
(* A value is [type, val], val a pair whatever the type: of a number its   *)
(* numerator and denominator, of a string its rank among the strings and   *)
(* how many pairs of quotes are around it, of a Boolean <<1, 1>> for true. *)
(* NULLs and overflow are left out.                                        *)
(***************************************************************************)
EXTENDS Integers

\* get_rank; these are the types for which is_numeric does not panic.
Rank == [Int64 |-> 4, Float64 |-> 11]
IsNumeric(type) == type \in DOMAIN Rank

ArithOps == {"Add", "Sub", "Mul", "Div"}
RelOps == {"Eq", "Ne", "Lt", "Le"}
LogOps == {"And", "Or"}

Value(type, val) == [type |-> type, val |-> val]
Int64(n) == Value("Int64", <<n, 1>>)
Utf8(s) == Value("Utf8", <<s, 0>>)
Boolean(b) == Value("Boolean", IF b THEN <<1, 1>> ELSE <<0, 1>>)

\* In place of a value when its computation panics.
Panicked == Value("Panic", <<0, 0>>)

IsTrue(x) == x = Boolean(TRUE)

Abs(n) == IF n < 0 THEN -n ELSE n

RECURSIVE Gcd(_, _)
Gcd(m, n) == IF n = 0 THEN m ELSE Gcd(n, m % n)

Float64(n, d) ==
    LET g == Gcd(Abs(n), d) IN Value("Float64", <<n \div g, d \div g>>)

\* i64 division drops the fraction.
Quotient(m, n) == IF (m < 0) = (n < 0) THEN Abs(m) \div Abs(n) ELSE -(Abs(m) \div Abs(n))

IntArith(op, m, n) ==
    CASE op = "Add" -> Int64(m + n)
      [] op = "Sub" -> Int64(m - n)
      [] op = "Mul" -> Int64(m * n)
      [] op = "Div" -> Int64(Quotient(m, n))

FloatArith(op, x, y) ==
    CASE op = "Add" -> Float64(x[1] * y[2] + y[1] * x[2], x[2] * y[2])
      [] op = "Sub" -> Float64(x[1] * y[2] - y[1] * x[2], x[2] * y[2])
      [] op = "Mul" -> Float64(x[1] * y[1], x[2] * y[2])
      [] op = "Div" -> IF y[1] > 0 THEN Float64(x[1] * y[2], x[2] * y[1])
                       ELSE Float64(-(x[1] * y[2]), x[2] * Abs(y[1]))

\* A string starts with a letter, and a quote comes before letters.
Less(x, y) ==
    IF x.type = "Utf8" THEN x.val[2] > y.val[2] \/ (x.val[2] = y.val[2] /\ x.val[1] < y.val[1])
    ELSE x.val[1] * y.val[2] < y.val[1] * x.val[2]

Compare(op, x, y) ==
    CASE op = "Eq" -> x.val = y.val
      [] op = "Ne" -> x.val # y.val
      [] op = "Lt" -> Less(x, y)
      [] op = "Le" -> ~Less(y, x)

\* The kernels want operands of one type.
Apply(op, x, y) ==
    IF x.type # y.type THEN Panicked
    ELSE CASE op \in RelOps -> Boolean(Compare(op, x, y))
           [] op \in ArithOps /\ x.type = "Int64" -> IntArith(op, x.val[1], y.val[1])
           [] op \in ArithOps /\ x.type = "Float64" -> FloatArith(op, x.val, y.val)
           [] op = "And" /\ x.type = "Boolean" -> Boolean(IsTrue(x) /\ IsTrue(y))
           [] op = "Or" /\ x.type = "Boolean" -> Boolean(IsTrue(x) \/ IsTrue(y))
           [] OTHER -> Panicked

Negated(x) == IF IsNumeric(x.type) THEN [x EXCEPT !.val[1] = -@] ELSE Panicked

CastTo(type, x) == IF IsNumeric(x.type) /\ type = "Float64" THEN [x EXCEPT !.type = type] ELSE Panicked

\* Display, by which append_mutable_array turns a string into one with quotes around it.
Displayed(x) == IF x.type = "Utf8" THEN [x EXCEPT !.val[2] = @ + 1] ELSE x
=============================================================================
