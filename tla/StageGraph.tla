----------------------------- MODULE StageGraph -----------------------------
(***************************************************************************)
(* The flows of a job and their stages, as stage.rs keeps them: one graph  *)
(* per query, built by StageGraph::add_stage.  A stage's id is its         *)
(* position, the root is stage 0, and a stage is added after its parent    *)
(* (the stage that reads what it writes).  A task is one partition of one  *)
(* stage of one flow.                                                      *)
(***************************************************************************)
EXTENDS Integers, Sequences, FiniteSets

CONSTANT Flows  \* a sequence of stage graphs

\* nstages is stages.len(), the functions give Stage's fields of those names.
IsFlow(g) ==
    /\ g.nstages \in Nat \ {0}
    /\ g.npartitions \in [0 .. g.nstages - 1 -> Nat]
    /\ DOMAIN g.parent = 1 .. g.nstages - 1
    /\ \A s \in 1 .. g.nstages - 1 : g.parent[s] \in 0 .. s - 1

ASSUME FlowsAssumption ==
    /\ Len(Flows) \in Nat
    /\ \A f \in 1 .. Len(Flows) : IsFlow(Flows[f])

\* The stages of flow f; flow 0 stands for "none yet".
StagesOf(f) == IF f = 0 THEN {} ELSE 0 .. Flows[f].nstages - 1

\* The stages whose output stage s reads.
ChildrenOf(f, s) == {c \in StagesOf(f) \ {0} : Flows[f].parent[c] = s}

\* Stage.nchildren, as add_stage counts it.
NChildren(f, s) == Cardinality(ChildrenOf(f, s))

Task(f, s, p) == [flow |-> f, stage |-> s, part |-> p]

StageTasks(f, s) == {Task(f, s, p) : p \in 0 .. Flows[f].npartitions[s] - 1}

FlowTasks(f) == UNION {StageTasks(f, s) : s \in StagesOf(f)}

Tasks == UNION {FlowTasks(f) : f \in 1 .. Len(Flows)}

\* The tasks whose files the RepartitionRead operators of task t list and read.
Inputs(t) == UNION {StageTasks(t.flow, c) : c \in ChildrenOf(t.flow, t.stage)}

\* Where a task writes.  The path names the flow by Env.id, which all flows of
\* the job share, the stage and its parent (StageLink), and the partition.
Path(t) ==
    <<t.stage, IF t.stage = 0 THEN {} ELSE {Flows[t.flow].parent[t.stage]}, t.part>>

\* Stage graphs without a join of two repartitioned inputs: one child at most.
Linear(f) == \A s \in StagesOf(f) \ {0} : Flows[f].parent[s] = s - 1
=============================================================================
