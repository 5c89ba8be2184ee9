---------------------------- MODULE MCHashMatch ----------------------------
(***************************************************************************)
(* Joins of narrow rows.                                                   *)
(***************************************************************************)
EXTENDS HashMatch

Join(pw, pk, bw, bk) == [probeWidth |-> pw, probeKey |-> pk, buildWidth |-> bw, buildKey |-> bk]

\* A build side of one column.
OneColumn == {Join(2, <<2>>, 1, <<1>>), Join(1, <<1>>, 1, <<1>>)}

\* Two columns, the keys in the order of the columns on both sides.
TwoColumns == {Join(2, <<1, 2>>, 2, <<1, 2>>), Join(1, <<1>>, 2, <<2>>)}

Plain == OneColumn \union TwoColumns

\* p.1 = b.2 and p.2 = b.1.
Crossed == {Join(2, <<1, 2>>, 2, <<2, 1>>)}
=============================================================================
