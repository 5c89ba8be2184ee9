------------------------------ MODULE Dataflow ------------------------------
(***************************************************************************)
(* What running a job promises, with no thread, channel or counter in it.  *)
(* Flows run one after the other, every task runs exactly once, no task    *)
(* starts before all tasks of the stages feeding its own have finished,    *)
(* and the next flow begins only when all tasks of this one have finished. *)
(***************************************************************************)
EXTENDS StageGraph

VARIABLES
    cur,        \* the current flow, 0 before the first
    started,    \* tasks of the current flow that have started
    finished    \* tasks of the current flow that have finished

dataflowVars == <<cur, started, finished>>

DataflowInit ==
    /\ cur = 0
    /\ started = {}
    /\ finished = {}

BeginTask(t) ==
    /\ t \notin started
    /\ Inputs(t) \subseteq finished
    /\ started' = started \union {t}
    /\ UNCHANGED <<cur, finished>>

EndTask(t) ==
    /\ t \in started \ finished
    /\ finished' = finished \union {t}
    /\ UNCHANGED <<cur, started>>

BeginFlow ==
    /\ cur < Len(Flows)
    /\ FlowTasks(cur) \subseteq finished
    /\ cur' = cur + 1
    /\ started' = {}
    /\ finished' = {}

DataflowNext ==
    \/ \E t \in FlowTasks(cur) : BeginTask(t) \/ EndTask(t)
    \/ BeginFlow

DataflowSpec == DataflowInit /\ [][DataflowNext]_dataflowVars
=============================================================================
