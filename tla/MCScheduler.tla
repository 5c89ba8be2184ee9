---------------------------- MODULE MCScheduler ----------------------------
(***************************************************************************)
(* Small jobs for TLC.  A flow is written by the parent of each stage but  *)
(* the root and the number of partitions of each stage.                    *)
(***************************************************************************)
EXTENDS SchedulerInv

MCFlow(parents, parts) ==
    [nstages |-> Len(parts),
     parent |-> [s \in 1 .. Len(parents) |-> parents[s]],
     npartitions |-> [s \in 0 .. Len(parts) - 1 |-> parts[s + 1]]]

\* A chain of three stages (scan, pre-aggregation, final aggregation) of which
\* two have more partitions than there are threads, then a chain of two.
LinearFlows == << MCFlow(<<0, 1>>, <<2, 5, 4>>), MCFlow(<<0>>, <<3, 2>>) >>

\* Joins of two and three repartitioned inputs, every stage of one partition.
SerialFlows == << MCFlow(<<0, 0, 2>>, <<1, 1, 1, 1>>), MCFlow(<<0, 0, 0>>, <<1, 1, 1, 1>>) >>

\* A join of two repartitioned inputs with two partitions each.
BushyFlow == << MCFlow(<<0, 0>>, <<1, 2, 2>>) >>

\* A chain of two stages, those joins, then a join of two parallel inputs and a query of one
\* stage: tasks of the join are left on other threads than the last ones use, and name stages
\* the query does not have.
JoinFlows ==
    << MCFlow(<<0>>, <<2, 3>>) >> \o SerialFlows \o BushyFlow \o << MCFlow(<< >>, <<1>>) >>
=============================================================================
