--------------------------- MODULE SchedulerProofs ---------------------------
(***************************************************************************)
(* Theorems about Scheduler, for any number of threads and any job: its    *)
(* types, what duplicated tasks, late messages and failing threads leave   *)
(* intact in stage graphs with joins as well, that one partition per stage *)
(* (PARALLEL_DEGREE 1) makes up for them, and that linear stage graphs     *)
(* implement Dataflow.                                                     *)
(***************************************************************************)
EXTENDS SchedulerInv, DataInduction, FiniteSetTheorems, SequenceTheorems, TLAPS

\* pc tells whether there is a flow, and whether there is another one.
FlowIxOK ==
    /\ pc = "start" => flowIx < Len(Flows)
    /\ pc \in {"schedule", "recv", "display"} => flowIx > 0

TypeInv == TypeOK /\ FlowIxOK

LEMMA FlowFacts ==
    ASSUME NEW f \in 1 .. Len(Flows)
    PROVE  /\ Flows[f].nstages \in Nat \ {0}
           /\ StagesOf(f) = 0 .. Flows[f].nstages - 1
           /\ \A s \in StagesOf(f) : Flows[f].npartitions[s] \in Nat
           /\ \A s \in StagesOf(f) \ {0} : Flows[f].parent[s] \in 0 .. s - 1
BY FlowsAssumption DEF IsFlow, StagesOf

LEMMA TaskFacts ==
    ASSUME NEW f \in 0 .. Len(Flows), NEW s \in StagesOf(f),
           NEW p \in 0 .. Flows[f].npartitions[s] - 1
    PROVE  Task(f, s, p) \in Tasks
<1>1. f \in 1 .. Len(Flows)
    BY FlowsAssumption DEF StagesOf
<1> QED
    BY <1>1 DEF Tasks, FlowTasks, StageTasks

LEMMA MessageFacts ==
    /\ EndThreadMsg \in Messages
    /\ \A k \in Tasks : ScheduleTask(k) \in Messages
    /\ \A m \in Messages : m # EndThreadMsg => m.task \in Tasks /\ m = ScheduleTask(m.task)
    /\ \A k : ScheduleTask(k) # EndThreadMsg
BY DEF Messages, ScheduleTask, EndThreadMsg

LEMMA BumpFacts ==
    ASSUME NEW S, NEW f \in [S -> Nat], NEW x \in S
    PROVE  [f EXCEPT ![x] = @ + 1] \in [S -> Nat]
OBVIOUS

LEMMA InitTypeInv == Init => TypeInv
<1> SUFFICES ASSUME Init PROVE TypeInv
    OBVIOUS
<1>1. pc \in {"start", "end"} /\ FlowIxOK
    BY FlowsAssumption DEF Init, AfterFlow, FlowIxOK
<1>2. << >> \in Seq(Messages) /\ << >> \in Seq(Tasks)
    BY EmptySeq
<1>3. s2t \in [Threads -> Seq(Messages)] /\ t2s \in Seq(Tasks)
    BY <1>2 DEF Init
<1>4. flowIx \in 0 .. Len(Flows)
    BY FlowsAssumption DEF Init
<1> QED
    BY <1>1, <1>3, <1>4 DEF Init, TypeInv, TypeOK

LEMMA StartFlowTypeInv == TypeInv /\ StartFlow => TypeInv'
<1> SUFFICES ASSUME TypeInv, StartFlow PROVE TypeInv'
    OBVIOUS
<1> USE DEF TypeInv, FlowIxOK
<1>1. flowIx' \in 1 .. Len(Flows)
    BY FlowsAssumption DEF StartFlow, TypeOK
<1>2. pending' \subseteq StagesOf(flowIx')
    BY DEF StartFlow, Runnable
<1>3. out' \in [Threads -> {"unopened", "open", "lost"}]
    BY DEF StartFlow, TypeOK
<1>4. /\ nchildren_completed' \in [StagesOf(flowIx') -> Nat]
      /\ npartitions_completed' \in [StagesOf(flowIx') -> Nat]
    BY DEF StartFlow
<1> QED
    <2>1. pc' = "schedule" /\ written' = {} /\ outDir' = FALSE /\ nextPart' = 0
        BY DEF StartFlow
    <2>2. UNCHANGED <<s2t, t2s, status, running>>
        BY DEF StartFlow
    <2>3. flowIx' \in 0 .. Len(Flows) /\ flowIx' > 0
        BY <1>1, FlowsAssumption
    <2> QED
        BY <1>2, <1>3, <1>4, <2>1, <2>2, <2>3 DEF TypeOK

LEMMA SendTaskTypeInv ==
    ASSUME TypeInv, NEW s \in StagesOf(flowIx), SendTask(s)
    PROVE  TypeInv'
<1> USE DEF TypeInv, FlowIxOK
<1> DEFINE t == ThreadFor(nextPart)
<1>1. t \in Threads
    BY NThreadsAssumption DEF ThreadFor, Threads, TypeOK
<1>2. Task(flowIx, s, nextPart) \in Tasks
    <2>1. flowIx \in 1 .. Len(Flows)
        BY FlowsAssumption DEF TypeOK, StagesOf
    <2>2. nextPart \in 0 .. Flows[flowIx].npartitions[s] - 1
        BY <2>1, FlowFacts DEF SendTask, MoreParts, TypeOK
    <2> QED
        BY <2>1, <2>2, TaskFacts
<1>3. Append(s2t[t], ScheduleTask(Task(flowIx, s, nextPart))) \in Seq(Messages)
    BY <1>1, <1>2, MessageFacts DEF TypeOK
<1>4. s2t' = [s2t EXCEPT ![t] = Append(s2t[t], ScheduleTask(Task(flowIx, s, nextPart)))]
    BY DEF SendTask
<1> HIDE DEF t
<1>5. s2t' \in [Threads -> Seq(Messages)]
    BY <1>1, <1>3, <1>4 DEF TypeOK
<1>6. nextPart' \in Nat
    BY DEF SendTask, TypeOK
<1> QED
    BY <1>5, <1>6 DEF SendTask, TypeOK

LEMMA RecvTypeInv == TypeInv /\ RecvTaskCompleted => TypeInv'
<1> SUFFICES ASSUME TypeInv, RecvTaskCompleted PROVE TypeInv'
    OBVIOUS
<1> USE DEF TypeInv, FlowIxOK
<1> DEFINE s == Head(t2s).stage
<1>1. NoSuchStage(s) \/ PartitionCompleted(s) \/ StageCompleted(s)
    BY DEF RecvTaskCompleted
<1> HIDE DEF s
<1>2. t2s' \in Seq(Tasks)
    BY DEF RecvTaskCompleted, TypeOK
<1>3. /\ pc' \in {"panicked", "recv", "display", "schedule"}
      /\ npartitions_completed' \in [StagesOf(flowIx) -> Nat]
      /\ nchildren_completed' \in [StagesOf(flowIx) -> Nat]
      /\ pending' \subseteq StagesOf(flowIx)
    <2>1. CASE NoSuchStage(s)
        BY <2>1 DEF NoSuchStage, TypeOK
    <2>2. CASE PartitionCompleted(s)
        BY <2>2 DEF PartitionCompleted, RecvTaskCompleted, TypeOK
    <2>3. CASE StageCompleted(s)
        <3>1. SetStageCompleted(s) \in [StagesOf(flowIx) -> Nat]
            <4>1. CASE s > 0
                <5>1. SetStageCompleted(s) =
                        [nchildren_completed EXCEPT ![Flows[flowIx].parent[s]] = @ + 1]
                    BY <4>1 DEF SetStageCompleted
                <5>2. flowIx \in 1 .. Len(Flows) /\ s \in StagesOf(flowIx) \ {0}
                    BY <2>3, <4>1, FlowsAssumption DEF StageCompleted, TypeOK, StagesOf
                <5>3. Flows[flowIx].parent[s] \in StagesOf(flowIx)
                    BY <5>2, FlowFacts
                <5> QED
                    BY <5>1, <5>3, BumpFacts DEF TypeOK
            <4>2. CASE ~(s > 0)
                BY <4>2 DEF SetStageCompleted, TypeOK
            <4> QED
                BY <4>1, <4>2
        <3>2. pending' \subseteq StagesOf(flowIx)
            BY <2>3 DEF StageCompleted, Runnable, RecvTaskCompleted
        <3> QED
            BY <2>3, <3>1, <3>2, BumpFacts DEF StageCompleted, TypeOK
    <2> QED
        BY <1>1, <2>1, <2>2, <2>3
<1> QED
    BY <1>2, <1>3 DEF RecvTaskCompleted, TypeOK, Terminals

LEMMA WorkerTypeInv ==
    ASSUME TypeInv, NEW t \in Threads, Worker(t)
    PROVE  TypeInv'
<1> USE DEF TypeInv, FlowIxOK
<1>1. CASE TakeTask(t)
    <2>1. Head(s2t[t]) \in Messages /\ Tail(s2t[t]) \in Seq(Messages)
        BY <1>1 DEF TakeTask, Idle, TypeOK
    <2>2. Head(s2t[t]).task \in Tasks
        BY <1>1, <2>1, MessageFacts DEF TakeTask
    <2>3. outDir' \in BOOLEAN
        BY <1>1 DEF TakeTask, TypeOK
    <2> QED
        BY <1>1, <2>1, <2>2, <2>3 DEF TakeTask, TypeOK
<1>2. CASE OpenOutput(t)
    BY <1>2 DEF OpenOutput, TypeOK
<1>3. CASE FinishTask(t)
    <2>1. PICK k \in running[t] :
            /\ written' = written \union {l \in {k} : OutputIsWhole(t, l)}
            /\ t2s' = Append(t2s, k)
        BY <1>3 DEF FinishTask
    <2>2. k \in Tasks
        BY <2>1 DEF TypeOK
    <2>3. t2s' \in Seq(Tasks) /\ written' \subseteq Tasks
        BY <2>1, <2>2 DEF TypeOK
    <2> QED
        BY <1>3, <2>3 DEF FinishTask, TypeOK
<1>4. CASE FailTask(t)
    BY <1>4 DEF FailTask, TypeOK
<1>5. CASE EndThread(t)
    BY <1>5 DEF EndThread, TypeOK
<1> QED
    BY <1>1, <1>2, <1>3, <1>4, <1>5 DEF Worker

LEMMA NextTypeInv == TypeInv /\ [Next]_vars => TypeInv'
<1> SUFFICES ASSUME TypeInv, [Next]_vars PROVE TypeInv'
    OBVIOUS
<1> USE DEF TypeInv, FlowIxOK
<1>1. CASE StartFlow
    BY <1>1, StartFlowTypeInv
<1>2. ASSUME NEW s \in StagesOf(flowIx), SendTask(s) PROVE TypeInv'
    BY <1>2, SendTaskTypeInv
<1>3. ASSUME NEW s \in StagesOf(flowIx), StageScheduled(s) PROVE TypeInv'
    BY <1>3 DEF StageScheduled, TypeOK, Terminals
<1>11. ASSUME NEW s \in StagesOf(flowIx), SendFails(s) PROVE TypeInv'
    BY <1>11 DEF SendFails, TypeOK, Terminals
<1>4. CASE RecvTaskCompleted
    BY <1>4, RecvTypeInv
<1>5. CASE ChannelClosed
    BY <1>5 DEF ChannelClosed, TypeOK
<1>6. CASE Display
    BY <1>6, FlowsAssumption DEF Display, TypeOK, AfterFlow, Terminals
<1>7. CASE EndAllThreads
    <2>1. \A t \in Threads : EndBehindQueue(s2t[t]) \in Seq(Messages)
        BY MessageFacts DEF EndBehindQueue, TypeOK
    <2> QED
        BY <1>7, <2>1 DEF EndAllThreads, TypeOK, Terminals
<1>8. CASE Join
    BY <1>8 DEF Join, TypeOK, Terminals
<1>9. ASSUME NEW t \in Threads, Worker(t) PROVE TypeInv'
    BY <1>9, WorkerTypeInv
<1>10. CASE Terminated \/ UNCHANGED vars
    BY <1>10 DEF Terminated, vars, TypeOK
<1> QED
    BY <1>1, <1>2, <1>3, <1>4, <1>5, <1>6, <1>7, <1>8, <1>9, <1>10, <1>11 DEF Next, Main

\* The channels carry tasks of the job, the counters range over the stages of
\* the flow being run, and no flow beyond the last is started.
THEOREM TypeCorrect == Spec => []TypeOK
<1>1. TypeInv => TypeOK
    BY DEF TypeInv
<1> QED
    BY <1>1, InitTypeInv, NextTypeInv, PTL DEF Spec

-----------------------------------------------------------------------------
(* Stages, tasks and queues. *)

LEMMA TaskShape ==
    ASSUME NEW f, NEW s
    PROVE  /\ \A p : Task(f, s, p).flow = f /\ Task(f, s, p).stage = s /\ Task(f, s, p).part = p
           /\ \A k \in StageTasks(f, s) :
                /\ k.flow = f /\ k.stage = s
                /\ k.part \in 0 .. Flows[f].npartitions[s] - 1
                /\ k = Task(f, s, k.part)
           /\ \A p \in 0 .. Flows[f].npartitions[s] - 1 : Task(f, s, p) \in StageTasks(f, s)
BY DEF Task, StageTasks

LEMMA FlowTaskShape ==
    ASSUME NEW f, NEW k \in FlowTasks(f)
    PROVE  k.stage \in StagesOf(f) /\ k \in StageTasks(f, k.stage)
BY TaskShape DEF FlowTasks

LEMMA StageTasksInJob ==
    ASSUME NEW f \in 0 .. Len(Flows), NEW s \in StagesOf(f)
    PROVE  StageTasks(f, s) \subseteq FlowTasks(f) /\ StageTasks(f, s) \subseteq Tasks
<1>1. f \in 1 .. Len(Flows)
    BY FlowsAssumption DEF StagesOf
<1> QED
    BY <1>1 DEF Tasks, FlowTasks

LEMMA QueueFacts ==
    ASSUME TypeInv, NEW t \in Threads
    PROVE  /\ s2t[t] \in Seq(Messages) /\ Len(s2t[t]) \in Nat
           /\ \A i \in 1 .. Len(s2t[t]) : s2t[t][i] \in Messages
           /\ running[t] \subseteq Tasks
           /\ Held(t) \subseteq Tasks
<1>1. s2t[t] \in Seq(Messages) /\ running[t] \subseteq Tasks
    BY DEF TypeInv, TypeOK
<1>2. Len(s2t[t]) \in Nat /\ \A i \in 1 .. Len(s2t[t]) : s2t[t][i] \in Messages
    BY <1>1, LenProperties, ElementOfSeq
<1> QED
    BY <1>1, <1>2 DEF Held, Queued

LEMMA MessageTask ==
    \A k, l \in Tasks : ScheduleTask(k) = ScheduleTask(l) => k = l
BY DEF ScheduleTask

\* Within a flow, no two tasks write to the same path.
LEMMA NothingOverwritten ==
    ASSUME NEW a, NEW k \in StageTasks(flowIx, a), k \notin written,
           \A w \in written : w \in FlowTasks(flowIx)
    PROVE  Overwritten(k) = {}
<1> SUFFICES ASSUME NEW w \in written, Path(w) = Path(k) PROVE FALSE
    BY DEF Overwritten
<1>1. w.stage = k.stage /\ w.part = k.part
    BY DEF Path
<1>2. w = Task(flowIx, w.stage, w.part)
    BY FlowTaskShape, TaskShape
<1>3. k = Task(flowIx, k.stage, k.part)
    BY TaskShape
<1> QED
    BY <1>1, <1>2, <1>3

LEMMA HeldFrame ==
    ASSUME UNCHANGED <<s2t, running>>, NEW t \in Threads
    PROVE  Held(t)' = Held(t) /\ (HeldOnce(t) => HeldOnce(t)')
BY DEF Held, Queued, HeldOnce

-----------------------------------------------------------------------------
(* A thread that ends has nothing left to do. *)

\* EndThread closes a queue, and no queue is closed before the last flow is over.
EndIsLast ==
    \A t \in Threads : \A i \in 1 .. Len(s2t[t]) :
        s2t[t][i] = EndThreadMsg => i = Len(s2t[t]) /\ pc \in {"join"} \union Terminals

LEMMA EndSendTask ==
    ASSUME TypeOK, EndIsLast, NEW s \in StagesOf(flowIx), SendTask(s)
    PROVE  EndIsLast'
<1>1. pc = "schedule" /\ pc' = pc
    BY DEF SendTask
<1>2. \A t \in Threads : \A i \in 1 .. Len(s2t[t]) : s2t[t][i] # EndThreadMsg
    BY <1>1 DEF EndIsLast, Terminals
<1>3. PICK m : /\ m # EndThreadMsg
               /\ s2t' = [s2t EXCEPT ![ThreadFor(nextPart)] = Append(@, m)]
    BY MessageFacts DEF SendTask
<1>4. ASSUME NEW t \in Threads, NEW i \in 1 .. Len(s2t'[t])
      PROVE  s2t'[t][i] # EndThreadMsg
    <2>1. s2t[t] \in Seq(Messages)
        BY DEF TypeOK
    <2>2. s2t'[t] = s2t[t] \/ s2t'[t] = Append(s2t[t], m)
        BY <1>3 DEF TypeOK
    <2>3. CASE s2t'[t] = s2t[t]
        BY <1>2, <1>4, <2>3
    <2>4. CASE s2t'[t] = Append(s2t[t], m)
        <3>1. i = Len(s2t[t]) + 1 \/ i \in 1 .. Len(s2t[t])
            BY <1>4, <2>1, <2>4
        <3>2. CASE i = Len(s2t[t]) + 1
            BY <1>3, <2>1, <2>4, <3>2
        <3>3. CASE i \in 1 .. Len(s2t[t])
            BY <1>2, <2>1, <2>4, <3>3
        <3> QED
            BY <3>1, <3>2, <3>3
    <2> QED
        BY <2>2, <2>3, <2>4
<1> QED
    BY <1>4 DEF EndIsLast

LEMMA EndEndAllThreads == TypeOK /\ EndIsLast /\ EndAllThreads => EndIsLast'
<1> SUFFICES ASSUME TypeOK, EndIsLast, EndAllThreads PROVE EndIsLast'
    OBVIOUS
<1>1. pc = "end" /\ pc' \in {"join", "error"}
    BY DEF EndAllThreads
<1>2. \A t \in Threads : \A i \in 1 .. Len(s2t[t]) : s2t[t][i] # EndThreadMsg
    BY <1>1 DEF EndIsLast, Terminals
<1>3. ASSUME NEW t \in Threads, NEW i \in 1 .. Len(s2t'[t]), s2t'[t][i] = EndThreadMsg
      PROVE  i = Len(s2t'[t])
    <2>1. s2t[t] \in Seq(Messages)
        BY DEF TypeOK
    <2>2. s2t'[t] = s2t[t] \/ s2t'[t] = Append(s2t[t], EndThreadMsg)
        BY DEF EndAllThreads, EndBehindQueue
    <2>3. CASE s2t'[t] = s2t[t]
        BY <1>2, <1>3, <2>3
    <2>4. CASE s2t'[t] = Append(s2t[t], EndThreadMsg)
        <3>1. i = Len(s2t[t]) + 1 \/ i \in 1 .. Len(s2t[t])
            BY <1>3, <2>1, <2>4
        <3>2. CASE i \in 1 .. Len(s2t[t])
            BY <1>2, <1>3, <2>1, <2>4, <3>2
        <3> QED
            BY <2>1, <2>4, <3>1, <3>2
    <2> QED
        BY <2>2, <2>3, <2>4
<1> QED
    BY <1>1, <1>3 DEF EndIsLast, Terminals

LEMMA EndWorker ==
    ASSUME TypeOK, EndIsLast, NEW u \in Threads, Worker(u)
    PROVE  EndIsLast'
<1>1. pc' = pc
    BY DEF Worker, TakeTask, OpenOutput, FinishTask, FailTask, EndThread
<1>2. \/ s2t' = s2t
      \/ s2t[u] # << >> /\ s2t' = [s2t EXCEPT ![u] = Tail(@)]
      \/ s2t' = [s2t EXCEPT ![u] = << >>]
    BY DEF Worker, TakeTask, OpenOutput, FinishTask, FailTask, EndThread, Idle
<1>3. ASSUME NEW t \in Threads, NEW i \in 1 .. Len(s2t'[t]), s2t'[t][i] = EndThreadMsg
      PROVE  i = Len(s2t'[t]) /\ pc \in {"join"} \union Terminals
    <2>1. s2t[t] \in Seq(Messages)
        BY DEF TypeOK
    <2>2. \/ s2t'[t] = s2t[t]
          \/ s2t[t] # << >> /\ s2t'[t] = Tail(s2t[t])
          \/ s2t'[t] = << >>
        BY <1>2 DEF TypeOK
    <2>3. CASE s2t'[t] = s2t[t]
        BY <1>3, <2>3 DEF EndIsLast
    <2>4. CASE s2t[t] # << >> /\ s2t'[t] = Tail(s2t[t])
        <3>1. Len(s2t'[t]) = Len(s2t[t]) - 1
            BY <2>1, <2>4
        <3>2. i + 1 \in 1 .. Len(s2t[t]) /\ s2t[t][i + 1] = EndThreadMsg
            BY <1>3, <2>1, <2>4, <3>1
        <3>3. i + 1 = Len(s2t[t]) /\ pc \in {"join"} \union Terminals
            BY <3>2 DEF EndIsLast
        <3>4. i \in Nat /\ Len(s2t[t]) \in Nat
            BY <1>3, <2>1
        <3> QED
            BY <3>1, <3>3, <3>4
    <2>5. CASE s2t'[t] = << >>
        BY <1>3, <2>5
    <2> QED
        BY <2>2, <2>3, <2>4, <2>5
<1> QED
    BY <1>1, <1>3 DEF EndIsLast

LEMMA EndNext == TypeOK /\ EndIsLast /\ [Next]_vars => EndIsLast'
<1> SUFFICES ASSUME TypeOK, EndIsLast, [Next]_vars PROVE EndIsLast'
    OBVIOUS
<1>1. ASSUME s2t' = s2t, pc \in {"join"} \union Terminals => pc' \in {"join"} \union Terminals
      PROVE  EndIsLast'
    BY <1>1 DEF EndIsLast
<1>2. CASE StartFlow \/ RecvTaskCompleted \/ ChannelClosed \/ Display \/ Join
    <2>1. s2t' = s2t
        BY <1>2 DEF StartFlow, RecvTaskCompleted, ChannelClosed, Display, Join
    <2>2. pc \in {"start", "recv", "display"} \/ pc' \in Terminals
        BY <1>2 DEF StartFlow, RecvTaskCompleted, ChannelClosed, Display, Join, Terminals
    <2> QED
        BY <1>1, <2>1, <2>2 DEF Terminals
<1>3. ASSUME NEW s \in StagesOf(flowIx), SendTask(s) PROVE EndIsLast'
    BY <1>3, EndSendTask
<1>4. ASSUME NEW s \in StagesOf(flowIx), SendFails(s) \/ StageScheduled(s) PROVE EndIsLast'
    BY <1>1, <1>4 DEF SendFails, StageScheduled, Terminals
<1>5. CASE EndAllThreads
    BY <1>5, EndEndAllThreads
<1>6. ASSUME NEW u \in Threads, Worker(u) PROVE EndIsLast'
    BY <1>6, EndWorker
<1>7. CASE Terminated \/ UNCHANGED vars
    BY <1>1, <1>7 DEF Terminated, vars
<1> QED
    BY <1>2, <1>3, <1>4, <1>5, <1>6, <1>7 DEF Next, Main

LEMMA EndedThreadWasIdle ==
    ASSUME TypeOK, EndIsLast, [Next]_vars,
           NEW t \in Threads, status[t] = "up", status'[t] = "ended"
    PROVE  s2t[t] = <<EndThreadMsg>>
<1>1. EndThread(t)
    <2>1. status' # status
        OBVIOUS
    <2>2. PICK u \in Threads : FailTask(u) \/ EndThread(u)
        BY <2>1 DEF Next, Main, StartFlow, SendTask, SendFails, StageScheduled, RecvTaskCompleted,
                    ChannelClosed, Display, EndAllThreads, Join, Worker, TakeTask, OpenOutput,
                    FinishTask, Terminated, vars
    <2>3. status'[t] # status[t] /\ t \in DOMAIN status
        BY DEF TypeOK
    <2>4. u = t
        BY <2>2, <2>3 DEF FailTask, EndThread
    <2>5. ~FailTask(t)
        BY <2>3 DEF FailTask
    <2> QED
        BY <2>2, <2>4, <2>5
<1>2. s2t[t] \in Seq(Messages) /\ s2t[t] # << >> /\ s2t[t][1] = EndThreadMsg
    BY <1>1 DEF EndThread, Idle, TypeOK
<1>3. 1 \in 1 .. Len(s2t[t])
    BY <1>2
<1>4. Len(s2t[t]) = 1
    BY <1>2, <1>3 DEF EndIsLast
<1> QED
    BY <1>2, <1>4

\* Whatever joins, duplicates and failures do to a job: a thread that ends has executed all
\* it was given.  end_all_threads comes last and puts its message behind the queue.
THEOREM EndedThreadsAreIdle == Spec => NoTaskDropped
<1>1. Init => EndIsLast
    BY DEF Init, EndIsLast
<1>2. TypeOK /\ EndIsLast /\ [Next]_vars =>
        [\A t \in Threads : status[t] = "up" /\ status'[t] = "ended" => s2t[t] = <<EndThreadMsg>>]_vars
    BY EndedThreadWasIdle
<1> QED
    BY <1>1, <1>2, EndNext, TypeCorrect, PTL DEF Spec, NoTaskDropped

-----------------------------------------------------------------------------
(* A child is counted once. *)

\* Without a task run_flow never hears of a stage.
NoEmptyStage == \A f \in 1 .. Len(Flows) : \A s \in StagesOf(f) : Flows[f].npartitions[s] > 0

\* The children of stage s whose last message run_flow has seen.
Finished(s) ==
    {c \in ChildrenOf(flowIx, s) : npartitions_completed[c] >= Flows[flowIx].npartitions[c]}

LEMMA ChildrenFinite ==
    ASSUME NEW f \in 1 .. Len(Flows), NEW s
    PROVE  IsFiniteSet(ChildrenOf(f, s))
<1>1. 0 \in Int /\ Flows[f].nstages - 1 \in Int
    BY FlowFacts
<1>2. IsFiniteSet(0 .. Flows[f].nstages - 1)
    BY <1>1, FS_Interval
<1> QED
    BY <1>2, FlowFacts, FS_Subset DEF ChildrenOf

\* No message yet.
LEMMA NothingFinished ==
    ASSUME NoEmptyStage, NEW f \in 0 .. Len(Flows), NEW s
    PROVE  {c \in ChildrenOf(f, s) : 0 >= Flows[f].npartitions[c]} = {}
<1>1. ASSUME NEW c \in ChildrenOf(f, s) PROVE ~(0 >= Flows[f].npartitions[c])
    <2>1. f \in 1 .. Len(Flows) /\ c \in StagesOf(f)
        BY FlowsAssumption DEF ChildrenOf, StagesOf
    <2> QED
        BY <2>1, FlowFacts DEF NoEmptyStage
<1> QED
    BY <1>1

LEMMA CountsPartitionCompleted ==
    ASSUME TypeOK, ChildrenCountedOnce, NEW r, PartitionCompleted(r), flowIx' = flowIx
    PROVE  ChildrenCountedOnce'
<1>1. flowIx \in 1 .. Len(Flows) /\ r \in StagesOf(flowIx)
    BY FlowsAssumption DEF PartitionCompleted, TypeOK, StagesOf
<1>2. /\ npartitions_completed' = [npartitions_completed EXCEPT ![r] = @ + 1]
      /\ npartitions_completed'[r] # Flows[flowIx].npartitions[r]
      /\ nchildren_completed' = nchildren_completed
    BY DEF PartitionCompleted, LastPartition
<1>3. npartitions_completed[r] \in Nat /\ Flows[flowIx].npartitions[r] \in Nat
    BY <1>1, FlowFacts DEF TypeOK
<1>4. npartitions_completed'[r] = npartitions_completed[r] + 1
    BY <1>1, <1>2 DEF TypeOK
<1>5. ASSUME NEW c \in StagesOf(flowIx)
      PROVE  npartitions_completed'[c] >= Flows[flowIx].npartitions[c]
                <=> npartitions_completed[c] >= Flows[flowIx].npartitions[c]
    <2>1. CASE c = r
        BY <1>2, <1>3, <1>4, <2>1
    <2>2. CASE c # r
        BY <1>2, <2>2 DEF TypeOK
    <2> QED
        BY <2>1, <2>2
<1> QED
    BY <1>2, <1>5 DEF ChildrenCountedOnce, ChildrenOf

LEMMA CountsStageCompleted ==
    ASSUME TypeOK, ChildrenCountedOnce, NEW r, StageCompleted(r), flowIx' = flowIx
    PROVE  ChildrenCountedOnce'
<1>1. flowIx \in 1 .. Len(Flows) /\ r \in StagesOf(flowIx)
    BY FlowsAssumption DEF StageCompleted, TypeOK, StagesOf
<1>2. /\ npartitions_completed' = [npartitions_completed EXCEPT ![r] = @ + 1]
      /\ npartitions_completed'[r] = Flows[flowIx].npartitions[r]
      /\ nchildren_completed' = SetStageCompleted(r)
    BY DEF StageCompleted, LastPartition
<1>3. npartitions_completed[r] \in Nat /\ Flows[flowIx].npartitions[r] \in Nat
    BY <1>1, FlowFacts DEF TypeOK
<1>4. /\ npartitions_completed[r] < Flows[flowIx].npartitions[r]
      /\ npartitions_completed'[r] >= Flows[flowIx].npartitions[r]
    <2>1. npartitions_completed'[r] = npartitions_completed[r] + 1
        BY <1>1, <1>2 DEF TypeOK
    <2> QED
        BY <1>2, <1>3, <2>1
<1>5. \A c \in StagesOf(flowIx) \ {r} : npartitions_completed'[c] = npartitions_completed[c]
    BY <1>2 DEF TypeOK
<1>6. ASSUME NEW s \in StagesOf(flowIx)
      PROVE  nchildren_completed'[s] = Cardinality(Finished(s)')
    <2>1. nchildren_completed[s] = Cardinality(Finished(s)) /\ nchildren_completed[s] \in Nat
        BY DEF ChildrenCountedOnce, Finished, TypeOK
    <2>2. CASE r \in ChildrenOf(flowIx, s)
        <3>1. Finished(s)' = Finished(s) \union {r} /\ r \notin Finished(s)
            BY <1>3, <1>4, <1>5, <2>2 DEF Finished, ChildrenOf
        <3>2. IsFiniteSet(Finished(s))
            BY <1>1, ChildrenFinite, FS_Subset DEF Finished
        <3>3. Cardinality(Finished(s)') = Cardinality(Finished(s)) + 1
            BY <3>1, <3>2, FS_AddElement
        <3>4. r > 0 /\ Flows[flowIx].parent[r] = s
            BY <1>1, <2>2, FlowFacts DEF ChildrenOf
        <3>5. nchildren_completed'[s] = nchildren_completed[s] + 1
            BY <1>2, <3>4 DEF SetStageCompleted, TypeOK
        <3> QED
            BY <2>1, <3>3, <3>5
    <2>3. CASE r \notin ChildrenOf(flowIx, s)
        <3>1. Finished(s)' = Finished(s)
            BY <1>5, <2>3 DEF Finished, ChildrenOf
        <3>2. nchildren_completed'[s] = nchildren_completed[s]
            <4>1. CASE r > 0
                <5>1. Flows[flowIx].parent[r] # s
                    BY <1>1, <2>3, <4>1 DEF ChildrenOf
                <5> QED
                    BY <1>2, <4>1, <5>1 DEF SetStageCompleted, TypeOK
            <4>2. CASE ~(r > 0)
                BY <1>2, <4>2 DEF SetStageCompleted
            <4> QED
                BY <4>1, <4>2
        <3> QED
            BY <2>1, <3>1, <3>2
    <2> QED
        BY <2>2, <2>3
<1> QED
    BY <1>6 DEF ChildrenCountedOnce, Finished

LEMMA CountsNext == NoEmptyStage /\ TypeInv /\ ChildrenCountedOnce /\ [Next]_vars => ChildrenCountedOnce'
<1> SUFFICES ASSUME NoEmptyStage, TypeInv, ChildrenCountedOnce, [Next]_vars PROVE ChildrenCountedOnce'
    OBVIOUS
<1>1. CASE StartFlow
    <2>1. flowIx' \in 0 .. Len(Flows)
        BY <1>1, FlowsAssumption DEF StartFlow, TypeInv, TypeOK, FlowIxOK
    <2>2. \A s \in StagesOf(flowIx') : npartitions_completed'[s] = 0 /\ nchildren_completed'[s] = 0
        BY <1>1 DEF StartFlow
    <2>3. ASSUME NEW s \in StagesOf(flowIx')
          PROVE  Finished(s)' = {}
        <3>1. Finished(s)' = {c \in ChildrenOf(flowIx', s) : 0 >= Flows[flowIx'].npartitions[c]}
            BY <2>2 DEF Finished, ChildrenOf
        <3> QED
            BY <2>1, <3>1, NothingFinished
    <2> QED
        BY <2>2, <2>3, FS_EmptySet DEF ChildrenCountedOnce, Finished
<1>2. CASE RecvTaskCompleted
    <2>1. PICK r : NoSuchStage(r) \/ PartitionCompleted(r) \/ StageCompleted(r)
        BY <1>2 DEF RecvTaskCompleted
    <2>2. flowIx' = flowIx
        BY <1>2 DEF RecvTaskCompleted
    <2>3. CASE NoSuchStage(r)
        BY <2>2, <2>3 DEF NoSuchStage, ChildrenCountedOnce
    <2> QED
        BY <2>1, <2>2, <2>3, CountsPartitionCompleted, CountsStageCompleted DEF TypeInv
<1>3. CASE UNCHANGED <<flowIx, nchildren_completed, npartitions_completed>>
    BY <1>3 DEF ChildrenCountedOnce
<1>4. CASE ChannelClosed \/ Display \/ EndAllThreads \/ Join \/ Terminated \/ UNCHANGED vars
    BY <1>3, <1>4 DEF ChannelClosed, Display, EndAllThreads, Join, Terminated, vars
<1>5. ASSUME NEW s \in StagesOf(flowIx), SendTask(s) \/ SendFails(s) \/ StageScheduled(s)
      PROVE  ChildrenCountedOnce'
    BY <1>3, <1>5 DEF SendTask, SendFails, StageScheduled
<1>6. ASSUME NEW t \in Threads, Worker(t) PROVE ChildrenCountedOnce'
    BY <1>3, <1>6 DEF Worker, TakeTask, OpenOutput, FinishTask, FailTask, EndThread
<1> QED
    BY <1>1, <1>2, <1>4, <1>5, <1>6 DEF Next, Main

\* However often the tasks of a stage run and however late their messages come, its parent's
\* count goes up once for it, provided that every stage has a task.
THEOREM EachChildCountsOnce ==
    ASSUME NoEmptyStage
    PROVE  Spec => []ChildrenCountedOnce
<1>1. Init => ChildrenCountedOnce
    BY DEF Init, ChildrenCountedOnce, StagesOf
<1>2. TypeInv /\ ChildrenCountedOnce /\ [Next]_vars => ChildrenCountedOnce'
    BY CountsNext
<1> QED
    BY <1>1, <1>2, InitTypeInv, NextTypeInv, PTL DEF Spec

-----------------------------------------------------------------------------
(* Jobs whose stages have one partition each (PARALLEL_DEGREE 1), with     *)
(* joins of any number of inputs and any number of threads: tasks run      *)
(* again, and yet no task reads an incomplete input and every flow ends    *)
(* with its whole result on disk.  SchedulerInv has the invariant.         *)

-----------------------------------------------------------------------------
(* Stage graphs.  R stands for a set of stages, those that have reported. *)

\* What holds of a stage once it holds of its inputs holds of every stage.
LEMMA InputsFirst ==
    ASSUME NEW f \in 1 .. Len(Flows), NEW R,
           \A s \in StagesOf(f) : ChildrenOf(f, s) \subseteq R => s \in R
    PROVE  StagesOf(f) \subseteq R
<1> DEFINE n == Flows[f].nstages
           S == {d \in Nat : \A s \in StagesOf(f) : s >= n - d => s \in R}
<1>1. n \in Nat /\ StagesOf(f) = 0 .. n - 1
    BY FlowFacts
<1>2. 0 \in S
    BY <1>1
<1>3. ASSUME NEW d \in Nat, d \in S PROVE d + 1 \in S
    <2> SUFFICES ASSUME NEW s \in StagesOf(f), s >= n - (d + 1) PROVE s \in R
        BY <1>3
    <2>1. ASSUME NEW c \in ChildrenOf(f, s) PROVE c \in R
        <3>1. c \in StagesOf(f) /\ s < c
            BY FlowFacts DEF ChildrenOf
        <3>2. c \in Nat /\ s \in Nat
            BY <1>1, <3>1
        <3>3. c >= n - d
            BY <1>1, <3>1, <3>2
        <3> QED
            BY <1>3, <3>1, <3>3
    <2> QED
        BY <2>1
<1>4. n \in S
    <2> HIDE DEF S
    <2> QED
        BY <1>1, <1>2, <1>3, NatInd
<1> QED
    BY <1>1, <1>4

\* If with each stage its inputs are in R, and those of the root are, all but the root are.
LEMMA RootInputs ==
    ASSUME NEW f \in 1 .. Len(Flows), NEW R, ChildrenOf(f, 0) \subseteq R,
           \A s \in StagesOf(f) : s \in R => ChildrenOf(f, s) \subseteq R
    PROVE  \A s \in StagesOf(f) \ {0} : s \in R
<1> DEFINE S == {d \in Nat : \A s \in StagesOf(f) \ {0} : s <= d => s \in R}
<1>1. StagesOf(f) \subseteq Nat
    BY FlowFacts
<1>2. 0 \in S
    BY <1>1
<1>3. ASSUME NEW d \in Nat, d \in S PROVE d + 1 \in S
    <2> SUFFICES ASSUME NEW s \in StagesOf(f) \ {0}, s <= d + 1 PROVE s \in R
        BY <1>3
    <2> DEFINE p == Flows[f].parent[s]
    <2>1. p \in StagesOf(f) /\ p < s /\ s \in ChildrenOf(f, p)
        BY FlowFacts DEF ChildrenOf
    <2>2. p \in Nat /\ s \in Nat
        BY <1>1, <2>1
    <2> HIDE DEF p
    <2>3. CASE p = 0
        BY <2>1, <2>3
    <2>4. CASE p # 0
        <3>1. p <= d
            BY <2>1, <2>2
        <3> QED
            BY <1>3, <2>1, <2>4, <3>1
    <2> QED
        BY <2>3, <2>4
<1>4. \A s \in StagesOf(f) : s \in S
    <2> HIDE DEF S
    <2> QED
        BY <1>1, <1>2, <1>3, NatInd
<1> QED
    BY <1>1, <1>4

-----------------------------------------------------------------------------
(* One task per stage. *)

LEMMA SerialTasks ==
    ASSUME SerialJob, NEW f \in 1 .. Len(Flows), NEW s \in StagesOf(f)
    PROVE  StageTasks(f, s) = {Task(f, s, 0)}
<1>1. 0 .. Flows[f].npartitions[s] - 1 = {0}
    BY DEF SerialJob
<1> QED
    BY <1>1 DEF StageTasks

LEMMA SerialFlowTask ==
    ASSUME SerialJob, NEW f \in 1 .. Len(Flows), NEW k \in FlowTasks(f)
    PROVE  k.stage \in StagesOf(f) /\ k = Task(f, k.stage, 0)
BY FlowTaskShape, SerialTasks

LEMMA TheTaskFacts ==
    ASSUME TypeInv, NEW s \in StagesOf(flowIx)
    PROVE  /\ flowIx \in 1 .. Len(Flows) /\ s \in Nat
           /\ TheTask(s).stage = s
           /\ \A r : TheTask(r) = TheTask(s) => r = s
<1>1. flowIx \in 1 .. Len(Flows)
    BY FlowsAssumption DEF TypeInv, TypeOK, StagesOf
<1> QED
    BY <1>1, FlowFacts DEF TheTask, Task

LEMMA TheTaskInJob ==
    ASSUME SerialJob, NEW f \in 1 .. Len(Flows), NEW s \in StagesOf(f)
    PROVE  Task(f, s, 0) \in FlowTasks(f) /\ Task(f, s, 0) \in Tasks
BY SerialTasks DEF FlowTasks, Tasks

LEMMA SerialHasTasks == SerialJob => NoEmptyStage
BY FlowFacts DEF SerialJob, NoEmptyStage

\* With the root's inputs all stages but the root have reported.
LEMMA AllBelowReported ==
    ASSUME TypeInv, InputsKept, flowIx > 0, InputsReported(0)
    PROVE  \A s \in StagesOf(flowIx) \ {0} : Reported(s)
<1> DEFINE R == {s \in StagesOf(flowIx) : Reported(s)}
<1>1. flowIx \in 1 .. Len(Flows)
    BY FlowsAssumption DEF TypeInv, TypeOK
<1>2. ChildrenOf(flowIx, 0) \subseteq R
    BY DEF InputsReported, ChildrenOf
<1>3. \A s \in StagesOf(flowIx) : s \in R => ChildrenOf(flowIx, s) \subseteq R
    BY DEF InputsKept, InputsReported, ChildrenOf
<1> HIDE DEF R
<1>4. \A s \in StagesOf(flowIx) \ {0} : s \in R
    BY <1>1, <1>2, <1>3, RootInputs
<1> QED
    BY <1>4 DEF R

\* Scheduler::runnable returns the stages that have not reported and whose inputs all have.
LEMMA RunnableFacts ==
    ASSUME SerialJob, NEW f \in 1 .. Len(Flows), NEW s \in StagesOf(f),
           NEW nchildren, NEW nparts \in [StagesOf(f) -> Nat],
           nchildren[s] =
                Cardinality({c \in ChildrenOf(f, s) : nparts[c] >= Flows[f].npartitions[c]})
    PROVE  s \in Runnable(f, nchildren, nparts)
                <=> (\A c \in ChildrenOf(f, s) : nparts[c] > 0) /\ ~(nparts[s] > 0)
<1> DEFINE C == {c \in ChildrenOf(f, s) : nparts[c] >= Flows[f].npartitions[c]}
<1>1. \A c \in ChildrenOf(f, s) : Flows[f].npartitions[c] = 1 /\ nparts[c] \in Nat
    BY DEF ChildrenOf, SerialJob
<1>2. C = {c \in ChildrenOf(f, s) : nparts[c] > 0}
    BY <1>1
<1> HIDE DEF C
<1>3. Cardinality(C) = NChildren(f, s) <=> C = ChildrenOf(f, s)
    <2>1. IsFiniteSet(ChildrenOf(f, s)) /\ C \subseteq ChildrenOf(f, s)
        BY <1>2, ChildrenFinite
    <2> QED
        BY <2>1, FS_Subset DEF NChildren
<1> QED
    BY <1>2, <1>3 DEF Runnable, C

-----------------------------------------------------------------------------
(* Steps of the main thread. *)

\* A step that changes pc alone, and enters neither the loop of run_flow nor display.
LEMMA SerialPcStep ==
    ASSUME SerialFlow, pc' \notin {"schedule", "recv", "display"}, Over' => Over,
           UNCHANGED <<flowIx, npartitions_completed, s2t, t2s, running, out, written, outDir>>
    PROVE  SerialFlow'
<1>1. \A t \in Threads : Held(t)' = Held(t) /\ Queued(t)' = Queued(t)
    BY HeldFrame DEF Queued
<1>2. 0 \in Threads
    BY NThreadsAssumption DEF Threads
<1>3. OnThread0' /\ InputsKept'
    BY <1>1, <1>2 DEF SerialFlow, OnThread0, InputsKept, UnderWay, InChannel, Reported,
                     InputsReported, TheTask
<1>4. RootIsLast'
    BY <1>1, <1>2 DEF SerialFlow, RootIsLast, InChannel, TheTask
<1>5. SerialPc'
    BY <1>1 DEF SerialFlow, SerialPc, Quiet
<1> QED
    BY <1>3, <1>4, <1>5 DEF SerialFlow

LEMMA SerialStutter == SerialFlow /\ UNCHANGED vars => SerialFlow'
BY DEF vars, SerialFlow, OnThread0, InputsKept, RootIsLast, SerialPc, UnderWay, InChannel, TheTask,
       Held, Queued, Reported, InputsReported, Quiet, Over

LEMMA SerialStart ==
    ASSUME SerialJob, TypeInv, StartFlow, Quiet
    PROVE  flowIx' > 0 /\ SerialFlow'
<1>1. /\ flowIx' \in 1 .. Len(Flows) /\ pc' = "schedule" /\ nextPart' = 0 /\ written' = {}
      /\ t2s' = << >>
      /\ \A s \in StagesOf(flowIx') : npartitions_completed'[s] = 0 /\ nchildren_completed'[s] = 0
      /\ pending' = Runnable(flowIx', nchildren_completed', npartitions_completed')
    BY FlowsAssumption DEF StartFlow, TypeInv, TypeOK, FlowIxOK, Quiet
<1>2. \A t \in Threads : Held(t)' = {} /\ Queued(t)' = {} /\ running'[t] = {}
    BY HeldFrame DEF StartFlow, Quiet, Held
<1>3. \A s \in StagesOf(flowIx') : ~UnderWay(s)' /\ ~Reported(s)' /\ ~InChannel(TheTask(s))'
    BY <1>1, <1>2, NThreadsAssumption DEF UnderWay, InChannel, Reported, Threads
<1>4. ASSUME NEW s \in pending' PROVE InputsReported(s)'
    <2>1. s \in StagesOf(flowIx') /\ NChildren(flowIx', s) = 0
        BY <1>1, <1>4 DEF Runnable
    <2>2. ChildrenOf(flowIx', s) = {}
        <3>1. IsFiniteSet(ChildrenOf(flowIx', s))
            BY <1>1, ChildrenFinite
        <3> QED
            BY <2>1, <3>1, FS_EmptySet DEF NChildren
    <2> QED
        BY <2>2 DEF InputsReported
<1>5. 0 \in StagesOf(flowIx') /\ pending' \subseteq StagesOf(flowIx')
    BY <1>1, FlowFacts DEF Runnable
<1>6. OnThread0' /\ InputsKept'
    BY <1>1, <1>2, <1>3, NThreadsAssumption DEF OnThread0, InputsKept, Threads
<1>7. RootIsLast'
    <2>1. ~InChannel(TheTask(0))' /\ TheTask(0)' \notin running'[0] /\ Held(0)' = {}
        BY <1>2, <1>3, <1>5, NThreadsAssumption DEF Threads
    <2>2. \A i \in 1 .. Len(s2t'[0]) : s2t'[0][i] # ScheduleTask(TheTask(0)')
        <3>1. TheTask(0)' \in Tasks
            <4>1. Task(flowIx', 0, 0) \in FlowTasks(flowIx')
                BY <1>1, <1>5, SerialTasks DEF FlowTasks
            <4> QED
                BY <1>1, <4>1 DEF TheTask, Tasks
        <3> QED
            BY <2>1, <3>1 DEF Held, Queued
    <2> QED
        BY <1>1, <2>1, <2>2 DEF RootIsLast
<1>8. SerialPc'
    BY <1>1, <1>3, <1>4, <1>5 DEF SerialPc, Over
<1> QED
    BY <1>1, <1>6, <1>7, <1>8 DEF SerialFlow

LEMMA SerialSend ==
    ASSUME SerialJob, TypeInv, SerialFlow, NEW s \in StagesOf(flowIx), SendTask(s)
    PROVE  SerialFlow'
<1> DEFINE n == Len(s2t[0])
<1>1. /\ flowIx \in 1 .. Len(Flows) /\ flowIx > 0
      /\ 0 \in Threads /\ 0 \in StagesOf(flowIx) /\ StagesOf(flowIx) \subseteq Nat
    BY TheTaskFacts, FlowFacts, NThreadsAssumption DEF Threads
<1>2. nextPart = 0 /\ ThreadFor(nextPart) = 0
    <2>1. nextPart \in Nat /\ nextPart < 1
        BY <1>1 DEF SendTask, MoreParts, SerialJob, TypeInv, TypeOK
    <2> QED
        BY <2>1, NThreadsAssumption DEF ThreadFor
<1>3. /\ pc = "schedule" /\ nextPart' = 1
      /\ UNCHANGED <<pc, flowIx, npartitions_completed, pending, t2s, running, out, written, outDir>>
      /\ s2t' = [s2t EXCEPT ![0] = Append(s2t[0], ScheduleTask(TheTask(s)))]
    <2>1. s2t' = [s2t EXCEPT ![ThreadFor(nextPart)] =
                        Append(s2t[ThreadFor(nextPart)], ScheduleTask(TheTask(s)))]
        BY <1>2 DEF SendTask, TheTask
    <2>2. /\ pc = "schedule" /\ nextPart' = nextPart + 1
          /\ UNCHANGED <<pc, flowIx, npartitions_completed, pending, t2s, running, out, written,
                         outDir>>
        BY DEF SendTask
    <2> QED
        BY <1>2, <2>1, <2>2
<1>4. TheTask(s) \in FlowTasks(flowIx) /\ TheTask(s) \in Tasks
    BY <1>1, SerialTasks DEF TheTask, FlowTasks, Tasks
<1>5. /\ n \in Nat /\ Len(s2t'[0]) = n + 1
      /\ \A i \in 1 .. n : s2t'[0][i] = s2t[0][i]
      /\ s2t'[0][n + 1] = ScheduleTask(TheTask(s))
      /\ \A u \in Threads \ {0} : s2t'[u] = s2t[u]
    BY <1>1, <1>3, <1>4, QueueFacts, MessageFacts DEF TypeInv, TypeOK
<1> HIDE DEF n
<1>6. Queued(0)' \subseteq Queued(0) \union {TheTask(s)}
    <2> SUFFICES ASSUME NEW k \in Tasks, NEW i \in 1 .. n + 1, s2t'[0][i] = ScheduleTask(k),
                        k # TheTask(s)
                 PROVE  k \in Queued(0)
        BY <1>5 DEF Queued
    <2>1. i \in 1 .. n
        BY <1>4, <1>5, MessageTask
    <2> QED
        BY <1>5, <2>1 DEF Queued, n
<1>7. /\ Held(0)' \subseteq Held(0) \union {TheTask(s)}
      /\ \A t \in Threads \ {0} : Held(t)' = Held(t)
    BY <1>3, <1>5, <1>6 DEF Held, Queued
<1>8. \A r \in StagesOf(flowIx) : UnderWay(r)' => UnderWay(r) \/ r = s
    BY <1>3, <1>7, TheTaskFacts DEF UnderWay, InChannel, TheTask
<1>9. ~UnderWay(0)
    BY <1>2, <1>3 DEF SerialFlow, SerialPc
<1>10. s \in pending /\ InputsReported(s) /\ (s = 0 => pending = {0})
    <2>1. s \in pending /\ InputsReported(s) /\ \A r \in pending : ~Reported(r)
        BY <1>3 DEF SerialFlow, SerialPc, SendTask, Sending
    <2>2. ASSUME s = 0 PROVE \A r \in pending : r = 0
        BY <1>1, <2>1, <2>2, AllBelowReported DEF SerialFlow, TypeInv, TypeOK
    <2> QED
        BY <2>1, <2>2
<1>11. OnThread0'
    BY <1>3, <1>4, <1>7 DEF SerialFlow, OnThread0
<1>12. InputsKept'
    BY <1>3, <1>8, <1>10
    DEF SerialFlow, InputsKept, InChannel, Reported, InputsReported, TheTask
<1>13. RootIsLast'
    <2>1. /\ ~InChannel(TheTask(0)) /\ TheTask(0) \notin running[0]
          /\ \A i \in 1 .. n : s2t[0][i] # ScheduleTask(TheTask(0))
        <3>1. TheTask(0) \in Tasks
            BY <1>1, SerialTasks DEF TheTask, FlowTasks, Tasks
        <3> QED
            BY <1>9, <3>1 DEF UnderWay, Held, Queued, n
    <2>2. \A i \in 1 .. n + 1 : s2t'[0][i] = ScheduleTask(TheTask(0)) => i = n + 1
        BY <1>5, <2>1
    <2> QED
        BY <1>3, <1>5, <2>1, <2>2 DEF RootIsLast, InChannel, TheTask
<1>14. SerialPc'
    <2>1. \A r \in pending' : InputsReported(r)' /\ ~Reported(r)'
        BY <1>3 DEF SerialFlow, SerialPc, InputsReported, Reported
    <2>2. UnderWay(0)' => pending' = {0}
        BY <1>1, <1>3, <1>8, <1>9, <1>10
    <2> QED
        BY <1>3, <2>1, <2>2 DEF SerialFlow, SerialPc, Reported, Over
<1> QED
    BY <1>11, <1>12, <1>13, <1>14 DEF SerialFlow

LEMMA SerialScheduled ==
    ASSUME SerialJob, TypeInv, SerialFlow, NEW s \in StagesOf(flowIx), StageScheduled(s)
    PROVE  SerialFlow'
<1>1. flowIx \in 1 .. Len(Flows) /\ 0 \in Threads
    BY TheTaskFacts, NThreadsAssumption DEF Threads
<1>2. /\ UNCHANGED <<flowIx, npartitions_completed, s2t, t2s, running, out, written, outDir>>
      /\ pc = "schedule" /\ s \in pending
      /\ nextPart' = 0 /\ pending' = pending \ {s} /\ pc' \in {"recv", "schedule"}
      /\ pc' = "schedule" => pending' # {}
    BY DEF StageScheduled, Sending
<1>3. \A t \in Threads : Held(t)' = Held(t) /\ Queued(t)' = Queued(t)
    BY <1>2, HeldFrame DEF Queued
<1>4. OnThread0' /\ InputsKept'
    BY <1>1, <1>2, <1>3 DEF SerialFlow, OnThread0, InputsKept, UnderWay, InChannel, Reported,
                     InputsReported, TheTask
<1>5. RootIsLast'
    BY <1>1, <1>2, <1>3 DEF SerialFlow, RootIsLast, InChannel, TheTask
<1>6. SerialPc'
    <2>1. UnderWay(0)' => UnderWay(0)
        BY <1>1, <1>2, <1>3 DEF UnderWay, InChannel, TheTask
    <2>2. UnderWay(0)' => pending' = {}
        BY <1>2, <2>1 DEF SerialFlow, SerialPc
    <2>3. \A r \in pending' : InputsReported(r)' /\ ~Reported(r)'
        BY <1>2 DEF SerialFlow, SerialPc, InputsReported, Reported
    <2> QED
        BY <1>2, <2>2, <2>3 DEF SerialFlow, SerialPc, Reported, Over
<1> QED
    BY <1>4, <1>5, <1>6 DEF SerialFlow

\* What a message to run_flow leaves in the channel.
LEMMA SerialRecvFacts ==
    ASSUME SerialJob, TypeInv, SerialFlow, flowIx > 0, RecvTaskCompleted
    PROVE  /\ Head(t2s).stage \in StagesOf(flowIx) /\ InChannel(TheTask(Head(t2s).stage))
           /\ Head(t2s).stage = 0 => Held(0) = {} /\ t2s' = << >>
           /\ \A k : InChannel(k)' => InChannel(k)
           /\ RootIsLast'
<1> DEFINE s == Head(t2s).stage
           n == Len(t2s)
<1>1. flowIx \in 1 .. Len(Flows)
    BY FlowsAssumption DEF TypeInv, TypeOK
<1>2. /\ t2s \in Seq(Tasks) /\ t2s # << >> /\ n \in Nat /\ n >= 1 /\ t2s' = Tail(t2s)
      /\ Head(t2s) = t2s[1] /\ Len(t2s') = n - 1
      /\ \A i \in 1 .. n - 1 : t2s'[i] = t2s[i + 1]
    BY EmptySeq, HeadTailProperties DEF RecvTaskCompleted, TypeInv, TypeOK
<1>3. UNCHANGED <<flowIx, s2t, running, out, written, outDir>>
    BY DEF RecvTaskCompleted
<1>4. s \in StagesOf(flowIx) /\ t2s[1] = TheTask(s)
    <2>1. t2s[1] \in FlowTasks(flowIx)
        BY <1>2 DEF SerialFlow, OnThread0
    <2> QED
        BY <1>1, <1>2, <2>1, SerialFlowTask DEF TheTask
<1>5. InChannel(TheTask(s))
    BY <1>2, <1>4 DEF InChannel
<1> HIDE DEF s, n
<1>6. \A k : InChannel(k)' => InChannel(k)
    <2> SUFFICES ASSUME NEW k, NEW i \in 1 .. n - 1, t2s'[i] = k PROVE InChannel(k)
        BY <1>2 DEF InChannel
    <2> QED
        BY <1>2 DEF InChannel, n
<1>7. ASSUME s = 0 PROVE Held(0) = {} /\ t2s' = << >>
    <2>1. \A i \in 1 .. n : t2s[i] = TheTask(0) => i = n /\ Held(0) = {}
        BY DEF SerialFlow, RootIsLast, n
    <2>2. 1 = n /\ Held(0) = {}
        BY <1>2, <1>4, <1>7, <2>1
    <2> QED
        BY <1>2, <2>2, EmptySeq
<1>8. RootIsLast'
    <2>1. TheTask(0)' = TheTask(0) /\ Held(0)' = Held(0) /\ Queued(0)' = Queued(0)
        BY <1>3 DEF TheTask, Held, Queued
    <2>2. ASSUME NEW i \in 1 .. n - 1, t2s'[i] = TheTask(0) PROVE i = n - 1 /\ Held(0) = {}
        <3>1. \A j \in 1 .. n : t2s[j] = TheTask(0) => j = n /\ Held(0) = {}
            BY DEF SerialFlow, RootIsLast, n
        <3> QED
            BY <1>2, <2>2, <3>1
    <2> QED
        BY <1>2, <1>3, <1>6, <2>1, <2>2 DEF SerialFlow, RootIsLast
<1> QED
    BY <1>4, <1>5, <1>6, <1>7, <1>8 DEF s

\* A message of a stage that has reported already: the stage was sent again.
LEMMA SerialDuplicate ==
    ASSUME SerialJob, TypeInv, SerialFlow, flowIx > 0, RecvTaskCompleted,
           NEW s, s = Head(t2s).stage, PartitionCompleted(s)
    PROVE  SerialFlow'
<1>1. flowIx \in 1 .. Len(Flows) /\ s \in StagesOf(flowIx)
    BY FlowsAssumption DEF PartitionCompleted, TypeInv, TypeOK
<1>2. /\ UNCHANGED <<pc, flowIx, nextPart, pending, s2t, running, out, written, outDir>>
      /\ pc = "recv"
    BY DEF RecvTaskCompleted, PartitionCompleted
<1>3. Flows[flowIx].npartitions[s] = 1 /\ npartitions_completed[s] \in Nat
    BY <1>1 DEF SerialJob, TypeInv, TypeOK
<1>4. \A r \in StagesOf(flowIx) : Reported(r)' <=> Reported(r)
    BY <1>1, <1>3 DEF PartitionCompleted, LastPartition, Reported, TypeInv, TypeOK
<1>5. \A r \in StagesOf(flowIx) : InputsReported(r)' <=> InputsReported(r)
    BY <1>2, <1>4 DEF InputsReported, ChildrenOf
<1>6. \A t \in Threads : Held(t)' = Held(t)
    BY <1>2, HeldFrame
<1>7. /\ \A k : InChannel(k)' => InChannel(k)
      /\ RootIsLast'
    BY SerialRecvFacts, FlowsAssumption DEF TypeInv, TypeOK
<1>8. 0 \in Threads
    BY NThreadsAssumption DEF Threads
<1>9. OnThread0'
    <2>1. \A i \in 1 .. Len(t2s') : t2s'[i] \in FlowTasks(flowIx)
        BY <1>7 DEF SerialFlow, OnThread0, InChannel
    <2> QED
        BY <1>2, <1>6, <1>8, <2>1 DEF SerialFlow, OnThread0
<1>10. InputsKept'
    <2>1. \A r \in StagesOf(flowIx) : UnderWay(r)' => UnderWay(r)
        BY <1>2, <1>6, <1>7, <1>8 DEF UnderWay, TheTask
    <2> QED
        BY <1>2, <1>4, <1>5, <1>7, <2>1 DEF SerialFlow, InputsKept, TheTask
<1>11. SerialPc'
    <2>1. 0 \in StagesOf(flowIx)
        BY <1>1, FlowFacts
    <2> QED
        BY <1>2, <1>4, <2>1 DEF SerialFlow, SerialPc, Over
<1> QED
    BY <1>7, <1>9, <1>10, <1>11 DEF SerialFlow

\* The first message of a stage.  If it makes no stage runnable, it is the root's.
LEMMA SerialFirst ==
    ASSUME SerialJob, TypeInv, TypeInv', ChildrenCountedOnce', SerialFlow, flowIx > 0,
           RecvTaskCompleted, NEW s, s = Head(t2s).stage, StageCompleted(s)
    PROVE  SerialFlow'
<1>1. /\ flowIx \in 1 .. Len(Flows) /\ s \in StagesOf(flowIx)
      /\ 0 \in StagesOf(flowIx) /\ 0 \in Threads
    <2>1. flowIx \in 1 .. Len(Flows) /\ s \in StagesOf(flowIx)
        BY FlowsAssumption DEF StageCompleted, TypeInv, TypeOK
    <2> QED
        BY <2>1, FlowFacts, NThreadsAssumption DEF Threads
<1>2. /\ UNCHANGED <<flowIx, nextPart, s2t, running, out, written, outDir>>
      /\ pc = "recv"
      /\ pending' = Runnable(flowIx, nchildren_completed', npartitions_completed')
      /\ pc' = IF pending' = {} THEN "display" ELSE "schedule"
    BY DEF RecvTaskCompleted, StageCompleted
<1>3. Flows[flowIx].npartitions[s] = 1 /\ npartitions_completed[s] \in Nat
    BY <1>1 DEF SerialJob, TypeInv, TypeOK
<1>4. /\ ~Reported(s) /\ Reported(s)'
      /\ \A r \in StagesOf(flowIx) \ {s} : Reported(r)' <=> Reported(r)
    <2>1. /\ npartitions_completed' = [npartitions_completed EXCEPT ![s] = @ + 1]
          /\ npartitions_completed'[s] = 1
        BY <1>3 DEF StageCompleted, LastPartition
    <2>2. npartitions_completed \in [StagesOf(flowIx) -> Nat]
        BY DEF TypeInv, TypeOK
    <2> QED
        BY <1>1, <1>3, <2>1, <2>2 DEF Reported
<1>5. \A r \in StagesOf(flowIx) : InputsReported(r) => InputsReported(r)'
    BY <1>2, <1>4 DEF InputsReported, ChildrenOf
<1>6. \A t \in Threads : Held(t)' = Held(t)
    BY <1>2, HeldFrame
<1>7. /\ InChannel(TheTask(s))
      /\ s = 0 => Held(0) = {} /\ t2s' = << >>
      /\ \A k : InChannel(k)' => InChannel(k)
      /\ RootIsLast'
    BY SerialRecvFacts
<1>8. \A r \in StagesOf(flowIx) : r \in pending' <=> InputsReported(r)' /\ ~Reported(r)'
    <2>1. /\ npartitions_completed' \in [StagesOf(flowIx) -> Nat]
          /\ \A r \in StagesOf(flowIx) :
                nchildren_completed'[r] =
                    Cardinality({c \in ChildrenOf(flowIx, r) :
                                    npartitions_completed'[c] >= Flows[flowIx].npartitions[c]})
        BY <1>2 DEF TypeInv, TypeOK, ChildrenCountedOnce
    <2>2. \A r \in StagesOf(flowIx) :
            r \in pending' <=> /\ \A c \in ChildrenOf(flowIx, r) : npartitions_completed'[c] > 0
                              /\ ~(npartitions_completed'[r] > 0)
        BY <1>1, <1>2, <2>1, RunnableFacts
    <2> QED
        BY <1>2, <2>2 DEF InputsReported, Reported
<1>9. OnThread0'
    <2>1. \A i \in 1 .. Len(t2s') : t2s'[i] \in FlowTasks(flowIx)
        BY <1>7 DEF SerialFlow, OnThread0, InChannel
    <2> QED
        BY <1>1, <1>2, <1>6, <2>1 DEF SerialFlow, OnThread0
<1>10. InputsKept'
    <2>1. \A r \in StagesOf(flowIx) : UnderWay(r)' => UnderWay(r)
        BY <1>1, <1>2, <1>6, <1>7 DEF UnderWay, TheTask
    <2>2. \A r \in StagesOf(flowIx) : Reported(r)' => Reported(r) \/ InChannel(TheTask(r))
        BY <1>4, <1>7
    <2> QED
        BY <1>2, <1>5, <1>7, <2>1, <2>2 DEF SerialFlow, InputsKept, UnderWay, TheTask
\* With the root's inputs all but the root has reported: the message is the root's, and the last.
<1>11. ASSUME InputsReported(0) PROVE s = 0
    BY <1>1, <1>4, <1>11, AllBelowReported DEF SerialFlow, TypeInv, TypeOK
<1>12. InputsReported(s)
    BY <1>1, <1>7 DEF SerialFlow, InputsKept, UnderWay
<1>13. CASE pending' = {}
    <2>1. \A r \in StagesOf(flowIx) : Reported(r)'
        <3> DEFINE R == {r \in StagesOf(flowIx) : Reported(r)'}
        <3>1. \A r \in StagesOf(flowIx) : ChildrenOf(flowIx, r) \subseteq R => r \in R
            <4> SUFFICES ASSUME NEW r \in StagesOf(flowIx), ChildrenOf(flowIx, r) \subseteq R
                         PROVE  Reported(r)'
                OBVIOUS
            <4>1. \A c \in ChildrenOf(flowIx, r) : Reported(c)'
                OBVIOUS
            <4>2. InputsReported(r)'
                BY <1>2, <4>1 DEF InputsReported, ChildrenOf
            <4> QED
                BY <1>8, <1>13, <4>2
        <3> HIDE DEF R
        <3>2. StagesOf(flowIx) \subseteq R
            BY <1>1, <3>1, InputsFirst
        <3> QED
            BY <3>2 DEF R
    <2>2. s = 0
        BY <1>1, <1>2, <1>4, <2>1 DEF SerialFlow, SerialPc
    <2>3. Quiet'
        BY <1>1, <1>6, <1>7, <2>2 DEF SerialFlow, OnThread0, Quiet
    <2>4. outDir'
        BY <1>2, <1>7, <2>2 DEF SerialFlow, RootIsLast
    <2> QED
        BY <1>2, <1>7, <1>9, <1>10, <1>13, <2>1, <2>3, <2>4 DEF SerialFlow, SerialPc
<1>14. CASE pending' # {}
    <2>1. s # 0
        <3> SUFFICES ASSUME s = 0 PROVE FALSE
            OBVIOUS
        <3>1. \A r \in StagesOf(flowIx) \ {0} : Reported(r)
            BY <1>1, <1>12, AllBelowReported DEF SerialFlow, TypeInv, TypeOK
        <3>2. \A r \in StagesOf(flowIx) : Reported(r)'
            BY <1>4, <3>1
        <3> QED
            BY <1>2, <1>8, <1>14, <3>2 DEF Runnable
    <2>2. ~UnderWay(0)'
        <3>1. ~UnderWay(0)
            BY <1>1, <1>11, <2>1 DEF SerialFlow, InputsKept
        <3> QED
            BY <1>1, <1>2, <1>6, <1>7, <3>1 DEF UnderWay, TheTask
    <2>3. ~Reported(0)'
        BY <1>1, <1>2, <1>4, <2>1 DEF SerialFlow, SerialPc
    <2>4. \A r \in pending' : InputsReported(r)' /\ ~Reported(r)'
        BY <1>2, <1>8 DEF Runnable
    <2>5. SerialPc'
        BY <1>2, <1>14, <2>2, <2>3, <2>4 DEF SerialPc, Over
    <2> QED
        BY <1>7, <1>9, <1>10, <2>5 DEF SerialFlow
<1> QED
    BY <1>13, <1>14

LEMMA SerialRecv ==
    ASSUME SerialJob, TypeInv, TypeInv', ChildrenCountedOnce', SerialFlow, flowIx > 0,
           RecvTaskCompleted
    PROVE  SerialFlow'
<1>1. PICK s : s = Head(t2s).stage /\ (NoSuchStage(s) \/ PartitionCompleted(s) \/ StageCompleted(s))
    BY DEF RecvTaskCompleted
<1>2. ~NoSuchStage(s)
    BY <1>1, SerialRecvFacts DEF NoSuchStage
<1> QED
    BY <1>1, <1>2, SerialDuplicate, SerialFirst

\* A step after which no thread holds a task it did not hold, and nothing else has changed.
LEMMA SerialShrink ==
    ASSUME SerialJob, TypeInv, SerialFlow, flowIx > 0,
           UNCHANGED <<flowIx, npartitions_completed, t2s, running, out, written, outDir>>,
           \A t \in Threads : Queued(t)' \subseteq Queued(t),
           Quiet \/ s2t'[0] = << >>,
           \/ pc' \notin {"schedule", "recv", "display"} /\ (Over' => Over)
           \/ UNCHANGED <<pc, pending, nextPart>>
    PROVE  SerialFlow'
<1>1. \A t \in Threads : Held(t)' \subseteq Held(t)
    BY DEF Held
<1>2. 0 \in Threads
    BY NThreadsAssumption DEF Threads
<1>3. OnThread0'
    BY <1>1, <1>2 DEF SerialFlow, OnThread0
<1>4. InputsKept'
    <2>1. \A s : UnderWay(s)' => UnderWay(s)
        BY <1>1, <1>2 DEF UnderWay, InChannel, TheTask
    <2> QED
        BY <2>1 DEF SerialFlow, InputsKept, InChannel, Reported, InputsReported, TheTask
<1>5. RootIsLast'
    <2>1. TheTask(0) \in Tasks
        <3>1. flowIx \in 1 .. Len(Flows)
            BY FlowsAssumption DEF TypeInv, TypeOK
        <3> QED
            BY <3>1, FlowFacts, TheTaskInJob DEF TheTask
    <2>2. Quiet => TheTask(0) \notin Queued(0)'
        BY <1>1, <1>2 DEF Quiet, Held
    <2>3. \A i \in 1 .. Len(s2t'[0]) : s2t'[0][i] = ScheduleTask(TheTask(0)) => i = Len(s2t'[0])
        BY <2>1, <2>2 DEF Queued
    <2>4. Queued(0)' \subseteq Queued(0)
        BY <1>2
    <2> QED
        BY <1>1, <1>2, <2>3, <2>4 DEF SerialFlow, RootIsLast, InChannel, TheTask
<1>6. SerialPc'
    <2>1. CASE pc' \notin {"schedule", "recv", "display"} /\ (Over' => Over)
        BY <1>1, <2>1 DEF SerialFlow, SerialPc, Quiet
    <2>2. CASE UNCHANGED <<pc, pending, nextPart>>
        <3>1. UnderWay(0)' => UnderWay(0)
            BY <1>1, <1>2 DEF UnderWay, InChannel, TheTask
        <3>2. Quiet => Quiet'
            BY <1>1 DEF Quiet
        <3> QED
            BY <2>2, <3>1, <3>2 DEF SerialFlow, SerialPc, InputsReported, Reported, Over
    <2> QED
        BY <2>1, <2>2
<1> QED
    BY <1>3, <1>4, <1>5, <1>6 DEF SerialFlow

LEMMA EndKeepsQueues ==
    ASSUME TypeInv, EndAllThreads
    PROVE  \A t \in Threads : Queued(t)' \subseteq Queued(t)
<1> SUFFICES ASSUME NEW t \in Threads, NEW k \in Tasks,
                    NEW i \in 1 .. Len(s2t'[t]), s2t'[t][i] = ScheduleTask(k)
             PROVE  \E j \in 1 .. Len(s2t[t]) : s2t[t][j] = ScheduleTask(k)
    BY DEF Queued
<1>1. s2t[t] \in Seq(Messages)
    BY QueueFacts
<1>2. s2t'[t] = s2t[t] \/ s2t'[t] = Append(s2t[t], EndThreadMsg)
    BY DEF EndAllThreads, EndBehindQueue
<1>3. CASE s2t'[t] = Append(s2t[t], EndThreadMsg)
    <2>1. i = Len(s2t[t]) + 1 \/ i \in 1 .. Len(s2t[t])
        BY <1>1, <1>3
    <2>2. i # Len(s2t[t]) + 1
        BY <1>1, <1>3, MessageFacts
    <2> QED
        BY <1>1, <1>3, <2>1, <2>2
<1> QED
    BY <1>2, <1>3

LEMMA SerialEndAll ==
    ASSUME SerialJob, TypeInv, SerialFlow, flowIx > 0, EndAllThreads
    PROVE  SerialFlow'
<1>1. Quiet /\ pc' \in {"join", "error"} /\ pc = "end"
    BY DEF SerialFlow, SerialPc, Over, EndAllThreads
<1>2. \A t \in Threads : Queued(t)' \subseteq Queued(t)
    BY EndKeepsQueues
<1> QED
    BY <1>1, <1>2, SerialShrink DEF EndAllThreads, Over

-----------------------------------------------------------------------------
(* Steps of the threads. *)

\* With thread 0 its queue is gone.  What was in it nobody will report.
LEMMA SerialFail ==
    ASSUME SerialJob, TypeInv, SerialFlow, flowIx > 0, FailTask(0)
    PROVE  SerialFlow'
<1>1. /\ s2t' = [s2t EXCEPT ![0] = << >>] /\ 0 \in Threads
      /\ UNCHANGED <<pc, flowIx, npartitions_completed, pending, nextPart, t2s, running, out,
                     written, outDir>>
    BY NThreadsAssumption DEF FailTask, Threads
<1>2. s2t'[0] = << >> /\ \A t \in Threads \ {0} : s2t'[t] = s2t[t]
    BY <1>1 DEF TypeInv, TypeOK
<1>3. \A t \in Threads : Queued(t)' \subseteq Queued(t)
    BY <1>2 DEF Queued
<1> QED
    BY <1>1, <1>2, <1>3, SerialShrink

\* Only thread 0 has anything to do.
LEMMA SerialThread ==
    ASSUME SerialFlow, NEW t \in Threads, Held(t) # {}
    PROVE  /\ t = 0
           /\ \A u \in Threads \ {0} : Held(u) = {}
           /\ ~Over /\ ~Quiet
BY DEF SerialFlow, OnThread0, SerialPc, Quiet

LEMMA SerialGone ==
    ASSUME SerialJob, TypeInv, EndIsLast, SerialFlow, flowIx > 0, NEW t \in Threads, EndThread(t)
    PROVE  SerialFlow'
<1>1. /\ s2t' = [s2t EXCEPT ![t] = << >>] /\ s2t[t] # << >> /\ Head(s2t[t]) = EndThreadMsg
      /\ UNCHANGED <<pc, flowIx, npartitions_completed, t2s, running, out, written, outDir>>
    BY DEF EndThread, Idle
<1>2. 1 \in 1 .. Len(s2t[t]) /\ s2t[t][1] = EndThreadMsg
    BY <1>1, QueueFacts, EmptySeq
<1>3. pc \in {"join"} \union Terminals
    BY <1>2 DEF EndIsLast
<1>4. \A u \in Threads : Queued(u)' \subseteq Queued(u)
    BY <1>1 DEF Queued, TypeInv, TypeOK
<1>5. CASE t = 0
    BY <1>1, <1>3, <1>4, <1>5, SerialShrink DEF Terminals, Over, TypeInv, TypeOK
<1>6. CASE t # 0
    <2>1. \A u \in Threads : Held(u)' \subseteq Held(u)
        BY <1>1, <1>4 DEF Held
    <2>2. 0 \in Threads /\ s2t'[0] = s2t[0]
        BY <1>1, <1>6, NThreadsAssumption DEF Threads, TypeInv, TypeOK
    <2>3. Held(0)' = Held(0) /\ Queued(0)' = Queued(0)
        BY <1>1, <2>2 DEF Held, Queued
    <2>4. OnThread0'
        BY <1>1, <2>1, <2>2 DEF SerialFlow, OnThread0
    <2>5. InputsKept'
        BY <1>1, <2>3 DEF SerialFlow, InputsKept, UnderWay, InChannel, Reported, InputsReported,
                          TheTask
    <2>6. RootIsLast'
        BY <1>1, <2>2, <2>3 DEF SerialFlow, RootIsLast, InChannel, TheTask
    <2>7. SerialPc'
        BY <1>1, <1>3, <2>1 DEF SerialFlow, SerialPc, Quiet, Terminals, Over
    <2> QED
        BY <2>4, <2>5, <2>6, <2>7 DEF SerialFlow
<1> QED
    BY <1>5, <1>6

LEMMA SerialTake ==
    ASSUME SerialJob, TypeInv, SerialFlow, flowIx > 0, NEW t \in Threads, TakeTask(t)
    PROVE  SerialFlow'
<1> DEFINE n == Len(s2t[t])
<1>1. s2t[t] \in Seq(Messages) /\ s2t[t] # << >> /\ n \in Nat /\ running[t] = {}
    BY QueueFacts DEF TakeTask, Idle
<1>2. /\ Head(s2t[t]) = s2t[t][1]
      /\ Len(Tail(s2t[t])) = n - 1
      /\ \A i \in 1 .. n - 1 : Tail(s2t[t])[i] = s2t[t][i + 1]
      /\ n >= 1
    BY <1>1, HeadTailProperties, EmptySeq
<1>3. PICK k \in Tasks : s2t[t][1] = ScheduleTask(k) /\ Head(s2t[t]).task = k
    <2>1. Head(s2t[t]) \in Messages /\ Head(s2t[t]) # EndThreadMsg
        BY <1>1 DEF TakeTask
    <2> QED
        BY <1>2, <2>1, MessageFacts
<1>4. /\ running' = [running EXCEPT ![t] = {k}] /\ s2t' = [s2t EXCEPT ![t] = Tail(s2t[t])]
      /\ outDir' = (outDir \/ k.stage = 0)
      /\ out' = [out EXCEPT ![t] = "unopened"]
      /\ UNCHANGED <<pc, flowIx, npartitions_completed, pending, nextPart, t2s, written>>
    BY <1>3 DEF TakeTask
<1>5. k \in Queued(t) /\ k \in Held(t)
    BY <1>1, <1>2, <1>3 DEF Queued, Held
<1>6. /\ t = 0 /\ ~Over /\ ~Quiet
      /\ \A u \in Threads \ {0} : Held(u) = {}
    BY <1>5, SerialThread
<1>7. /\ running'[0] = {k} /\ out'[0] = "unopened"
      /\ Len(s2t'[0]) = n - 1
      /\ \A i \in 1 .. n - 1 : s2t'[0][i] = s2t[0][i + 1]
      /\ \A u \in Threads \ {0} : s2t'[u] = s2t[u] /\ running'[u] = running[u]
    BY <1>2, <1>4, <1>6 DEF TypeInv, TypeOK
<1>8. Queued(0)' \subseteq Queued(0) /\ (n = 1 => Queued(0)' = {})
    BY <1>1, <1>6, <1>7 DEF Queued
<1>9. /\ Held(0)' \subseteq Held(0)
      /\ \A u \in Threads \ {0} : Held(u)' = {}
    <2>1. k \in Held(0) /\ Queued(0) \subseteq Held(0)
        BY <1>5, <1>6 DEF Held
    <2>2. Held(0)' \subseteq Held(0)
        BY <1>7, <1>8, <2>1 DEF Held
    <2>3. ASSUME NEW u \in Threads \ {0} PROVE Held(u)' = Held(u)
        BY <1>7 DEF Held, Queued
    <2> QED
        BY <1>6, <2>2, <2>3
<1>10. k \in FlowTasks(flowIx) /\ flowIx \in 1 .. Len(Flows)
    BY <1>5, <1>6, FlowsAssumption DEF SerialFlow, OnThread0, TypeInv, TypeOK
<1>11. ASSUME k = TheTask(0) PROVE n = 1 /\ k.stage = 0
    <2>1. \A i \in 1 .. n : s2t[0][i] = ScheduleTask(TheTask(0)) => i = n
        BY <1>6 DEF SerialFlow, RootIsLast
    <2>2. TheTask(0).stage = 0
        BY DEF TheTask, Task
    <2>3. s2t[0][1] = ScheduleTask(TheTask(0)) /\ 1 \in 1 .. n
        BY <1>1, <1>2, <1>3, <1>6, <1>11
    <2> QED
        BY <1>11, <2>1, <2>2, <2>3
<1> HIDE DEF n
<1>12. OnThread0'
    BY <1>4, <1>7, <1>9 DEF SerialFlow, OnThread0
<1>13. InputsKept'
    <2>1. \A s : UnderWay(s)' => UnderWay(s)
        BY <1>4, <1>9 DEF UnderWay, InChannel, TheTask
    <2> QED
        BY <1>1, <1>4, <1>6, <2>1
        DEF SerialFlow, InputsKept, InChannel, Reported, InputsReported, TheTask
<1>14. RootIsLast'
    <2>1. \A i \in 1 .. n - 1 : s2t'[0][i] = ScheduleTask(TheTask(0)) => i = n - 1
        <3>1. \A i \in 1 .. n : s2t[0][i] = ScheduleTask(TheTask(0)) => i = n
            BY <1>6 DEF SerialFlow, RootIsLast, n
        <3>2. ASSUME NEW i \in 1 .. n - 1 PROVE s2t'[0][i] = s2t[0][i + 1] /\ i + 1 \in 1 .. n
            <4>1. s2t'[0][i] = s2t[0][i + 1]
                BY <1>7
            <4>2. i + 1 \in 1 .. n
                BY <1>1
            <4> QED
                BY <4>1, <4>2
        <3>3. n \in Nat
            BY <1>1
        <3> HIDE DEF n
        <3>4. ASSUME NEW i \in 1 .. n - 1, s2t'[0][i] = ScheduleTask(TheTask(0)) PROVE i = n - 1
            <4>1. i + 1 \in 1 .. n /\ s2t[0][i + 1] = ScheduleTask(TheTask(0))
                BY <3>2, <3>4
            <4>2. i + 1 = n
                BY <3>1, <4>1
            <4> QED
                BY <3>3, <4>2
        <3> QED
            BY <3>4
    <2>2. \A i \in 1 .. Len(t2s) : t2s[i] # TheTask(0)
        BY <1>5, <1>6 DEF SerialFlow, RootIsLast
    <2>3. TheTask(0)' = TheTask(0)
        BY <1>4 DEF TheTask
    <2> QED
        BY <1>4, <1>7, <1>8, <1>11, <2>1, <2>2, <2>3 DEF RootIsLast, InChannel
<1>15. SerialPc'
    <2>1. UnderWay(0)' => UnderWay(0)
        BY <1>4, <1>9 DEF UnderWay, InChannel, TheTask
    <2>2. outDir => outDir'
        BY <1>4
    <2> QED
        BY <1>4, <1>6, <2>1, <2>2 DEF SerialFlow, SerialPc, InputsReported, Reported, Over
<1> QED
    BY <1>12, <1>13, <1>14, <1>15 DEF SerialFlow

\* The task a thread executes: it is on thread 0, of the current flow, and alone.
LEMMA SerialBusy ==
    ASSUME SerialJob, TypeInv, SerialFlow, flowIx > 0,
           NEW t \in Threads, NEW k \in running[t]
    PROVE  /\ t = 0 /\ running[0] = {k} /\ out[0] # "lost"
           /\ \A u \in Threads \ {0} : Held(u) = {}
           /\ ~Over /\ ~Quiet
           /\ k.stage \in StagesOf(flowIx) /\ k = TheTask(k.stage)
           /\ \A w \in written : w \in FlowTasks(flowIx)
           /\ Overwritten(k) \subseteq {k}
<1>1. k \in Held(t)
    BY DEF Held
<1>2. /\ t = 0 /\ ~Over /\ ~Quiet
      /\ \A u \in Threads \ {0} : Held(u) = {}
    BY <1>1, SerialThread
<1>3. /\ running[0] = {k} /\ out[0] # "lost" /\ k \in FlowTasks(flowIx)
      /\ \A w \in written : w \in FlowTasks(flowIx)
    BY <1>1, <1>2 DEF SerialFlow, OnThread0
<1>4. flowIx \in 1 .. Len(Flows)
    BY FlowsAssumption DEF TypeInv, TypeOK
<1>5. k.stage \in StagesOf(flowIx) /\ k = TheTask(k.stage)
    BY <1>3, <1>4, SerialFlowTask DEF TheTask
<1>6. ASSUME NEW w \in Overwritten(k) PROVE w = k
    <2>1. w \in FlowTasks(flowIx) /\ w.stage = k.stage
        BY <1>3, <1>6 DEF Overwritten, Path
    <2>2. w = TheTask(w.stage)
        BY <1>4, <2>1, SerialFlowTask DEF TheTask
    <2> QED
        BY <1>5, <2>1, <2>2
<1> QED
    BY <1>2, <1>3, <1>5, <1>6

LEMMA SerialOpen ==
    ASSUME SerialJob, TypeInv, SerialFlow, flowIx > 0, NEW t \in Threads, OpenOutput(t)
    PROVE  SerialFlow'
<1>1. PICK k \in running[t] : written' = written \ Overwritten(k)
    BY DEF OpenOutput
<1>2. /\ out' = [out EXCEPT ![t] = "open"]
      /\ UNCHANGED <<pc, flowIx, npartitions_completed, pending, nextPart, s2t, t2s, running, outDir>>
    BY DEF OpenOutput
<1>3. /\ t = 0 /\ running[0] = {k} /\ Overwritten(k) \subseteq {k} /\ ~Over
      /\ written' \subseteq written /\ 0 \in Threads
    BY <1>1, SerialBusy
<1>4. out'[0] # "lost"
    BY <1>2, <1>3 DEF TypeInv, TypeOK
<1>5. \A u \in Threads : Held(u)' = Held(u) /\ Queued(u)' = Queued(u)
    BY <1>2, HeldFrame DEF Queued
<1>6. OnThread0'
    BY <1>2, <1>3, <1>4, <1>5 DEF SerialFlow, OnThread0
<1>7. InputsKept'
    <2>1. \A s : UnderWay(s)' <=> UnderWay(s)
        BY <1>2, <1>3, <1>5 DEF UnderWay, InChannel, TheTask
    <2>2. written \union running[0] \subseteq written' \union running'[0]
        BY <1>1, <1>2, <1>3
    <2> QED
        BY <1>2, <2>1, <2>2 DEF SerialFlow, InputsKept, InChannel, Reported, InputsReported, TheTask
<1>8. RootIsLast'
    BY <1>2, <1>3, <1>5 DEF SerialFlow, RootIsLast, InChannel, TheTask
<1>9. SerialPc'
    <2>1. UnderWay(0)' => UnderWay(0)
        BY <1>2, <1>3, <1>5 DEF UnderWay, InChannel, TheTask
    <2> QED
        BY <1>2, <1>3, <2>1 DEF SerialFlow, SerialPc, InputsReported, Reported, Over
<1> QED
    BY <1>6, <1>7, <1>8, <1>9 DEF SerialFlow

LEMMA SerialFinish ==
    ASSUME SerialJob, TypeInv, SerialFlow, flowIx > 0, NEW t \in Threads, FinishTask(t)
    PROVE  SerialFlow'
<1> DEFINE n == Len(t2s)
<1>1. PICK k \in running[t] :
            written' = written \union {l \in {k} : OutputIsWhole(t, l)} /\ t2s' = Append(t2s, k)
    BY DEF FinishTask
<1>2. /\ t = 0 /\ running[0] = {k} /\ out[0] # "lost"
      /\ \A u \in Threads \ {0} : Held(u) = {}
      /\ ~Over
      /\ k.stage \in StagesOf(flowIx) /\ k = TheTask(k.stage) /\ Overwritten(k) \subseteq {k}
      /\ 0 \in Threads
    BY <1>1, SerialBusy
<1>3. /\ running' = [running EXCEPT ![0] = {}]
      /\ UNCHANGED <<pc, flowIx, npartitions_completed, pending, nextPart, s2t, out, outDir>>
    BY <1>2 DEF FinishTask
<1>4. written' = written \union {k}
    <2>1. OutputIsWhole(0, k)
        BY <1>2 DEF OutputIsWhole, Busy, Held
    <2> QED
        BY <1>1, <1>2, <2>1
<1>5. /\ running'[0] = {}
      /\ \A u \in Threads \ {0} : running'[u] = running[u]
    BY <1>2, <1>3 DEF TypeInv, TypeOK
<1>6. /\ \A u \in Threads : Queued(u)' = Queued(u) /\ Held(u)' \subseteq Held(u)
      /\ Held(0)' = Queued(0)
    BY <1>3, <1>5 DEF Held, Queued
<1>7. /\ n \in Nat /\ Len(t2s') = n + 1 /\ t2s'[n + 1] = k
      /\ \A i \in 1 .. n : t2s'[i] = t2s[i]
    <2>1. t2s \in Seq(Tasks) /\ k \in Tasks
        BY <1>1 DEF TypeInv, TypeOK
    <2> QED
        BY <1>1, <2>1
<1> HIDE DEF n
<1>8. \A l : InChannel(l)' => InChannel(l) \/ l = k
    <2> SUFFICES ASSUME NEW l, NEW i \in 1 .. n + 1, t2s'[i] = l, l # k PROVE InChannel(l)
        BY <1>7 DEF InChannel
    <2>1. i \in 1 .. n
        BY <1>7
    <2> QED
        BY <1>7, <2>1 DEF InChannel, n
<1>9. k \in Held(0)
    BY <1>2 DEF Held
<1>10. k \in FlowTasks(flowIx)
    BY <1>9 DEF SerialFlow, OnThread0
<1>11. \A s : UnderWay(s)' => UnderWay(s)
    BY <1>2, <1>3, <1>6, <1>8, <1>9 DEF UnderWay, TheTask
<1>12. OnThread0'
    <2>1. \A i \in 1 .. Len(t2s') : t2s'[i] \in FlowTasks(flowIx)
        BY <1>8, <1>10 DEF SerialFlow, OnThread0, InChannel
    <2> QED
        BY <1>2, <1>3, <1>4, <1>5, <1>6, <1>10, <2>1 DEF SerialFlow, OnThread0
<1>13. InputsKept'
    <2>1. written' \union running'[0] = written \union running[0]
        BY <1>2, <1>4, <1>5
    <2>2. ASSUME NEW s \in StagesOf(flowIx), InChannel(TheTask(s))' \/ Reported(s)'
          PROVE  TheTask(s) \in written' \union running'[0]
        <3>1. TheTask(s)' = TheTask(s) /\ (Reported(s)' => Reported(s))
            BY <1>3 DEF TheTask, Reported
        <3>2. CASE TheTask(s) = k
            BY <1>4, <3>2
        <3>3. CASE TheTask(s) # k
            <4>1. InChannel(TheTask(s)) \/ Reported(s)
                BY <1>8, <2>2, <3>1, <3>3
            <4> QED
                BY <2>1, <4>1 DEF SerialFlow, InputsKept
        <3> QED
            BY <3>2, <3>3
    <2>3. ASSUME NEW s \in StagesOf(flowIx), UnderWay(s)' \/ Reported(s)'
          PROVE  InputsReported(s)'
        BY <1>3, <1>11, <2>3 DEF SerialFlow, InputsKept, InputsReported, Reported
    <2>4. \A s : TheTask(s)' = TheTask(s)
        BY <1>3 DEF TheTask
    <2> QED
        BY <1>3, <2>2, <2>3, <2>4 DEF InputsKept
<1>14. RootIsLast'
    <2>1. \A i \in 1 .. n : t2s[i] # TheTask(0)
        BY <1>9 DEF SerialFlow, RootIsLast, n
    <2>2. \A i \in 1 .. n + 1 : t2s'[i] = TheTask(0) => i = n + 1 /\ k = TheTask(0)
        BY <1>7, <2>1
    <2>3. ASSUME k = TheTask(0) PROVE Queued(0) = {} /\ outDir
        BY <1>2, <2>3 DEF SerialFlow, RootIsLast
    <2>4. TheTask(0)' = TheTask(0)
        BY <1>3 DEF TheTask
    <2>5. InChannel(TheTask(0))' => k = TheTask(0)
        BY <1>7, <2>2, <2>4 DEF InChannel
    <2> QED
        BY <1>3, <1>5, <1>6, <1>7, <2>2, <2>3, <2>4, <2>5 DEF SerialFlow, RootIsLast
<1>15. SerialPc'
    BY <1>2, <1>3, <1>11 DEF SerialFlow, SerialPc, InputsReported, Reported, Over
<1> QED
    BY <1>12, <1>13, <1>14, <1>15 DEF SerialFlow

-----------------------------------------------------------------------------
(* The invariant. *)

LEMMA StatusStep ==
    ASSUME TypeInv, [Next]_vars, NEW t \in Threads
    PROVE  \/ status'[t] = status[t]
           \/ status[t] = "up" /\ (FailTask(t) \/ EndThread(t))
<1>1. status' = status \/ \E u \in Threads : FailTask(u) \/ EndThread(u)
    BY DEF Next, Main, StartFlow, SendTask, SendFails, StageScheduled, RecvTaskCompleted,
           ChannelClosed, Display, EndAllThreads, Join, Worker, TakeTask, OpenOutput,
           FinishTask, Terminated, vars
<1>2. ASSUME NEW u \in Threads, FailTask(u) \/ EndThread(u)
      PROVE  /\ status[u] = "up"
             /\ \A x \in Threads \ {u} : status'[x] = status[x]
    BY <1>2 DEF FailTask, EndThread, Busy, Idle, TypeInv, TypeOK
<1> QED
    BY <1>1, <1>2

LEMMA JoinStays == pc \in {"join"} \union Terminals /\ [Next]_vars => pc' \in {"join"} \union Terminals
BY DEF Next, Main, StartFlow, SendTask, SendFails, StageScheduled, RecvTaskCompleted,
       ChannelClosed, Display, EndAllThreads, Join, Worker, TakeTask, OpenOutput,
       FinishTask, FailTask, EndThread, Terminated, vars, Terminals

LEMMA ThreadLeftBefore ==
    ASSUME TypeInv, [Next]_vars, ThreadLeft'
    PROVE  ThreadLeft
BY StatusStep DEF ThreadLeft

\* The loop of run_flow does not end for want of threads.
LEMMA ChannelOpen ==
    ASSUME TypeInv, ThreadLeft,
           \A t \in Threads : status[t] = "ended" => pc \in {"join"} \union Terminals
    PROVE  ~ChannelClosed
BY DEF ThreadLeft, ChannelClosed, Terminals, TypeInv, TypeOK

\* Before the first flow, and in a job without one.
LEMMA SerialNoFlow ==
    ASSUME SerialJob, TypeInv, EndIsLast, flowIx = 0, Quiet, written = {}, [Next]_vars
    PROVE  \/ flowIx' = 0 /\ Quiet' /\ written' = {}
           \/ flowIx' > 0 /\ SerialFlow'
<1>1. \A t \in Threads : running[t] = {} /\ Queued(t) = {}
    BY DEF Quiet, Held
<1>2. CASE StartFlow
    BY <1>2, SerialStart
<1>3. ASSUME UNCHANGED <<flowIx, written, t2s, running>>,
             \A t \in Threads : Queued(t)' \subseteq Queued(t)
      PROVE  flowIx' = 0 /\ Quiet' /\ written' = {}
    BY <1>1, <1>3 DEF Quiet, Held
<1>4. UNCHANGED s2t => \A t \in Threads : Queued(t)' \subseteq Queued(t)
    BY DEF Queued
<1>5. CASE \E s \in StagesOf(flowIx) : SendTask(s) \/ SendFails(s) \/ StageScheduled(s)
    BY <1>5 DEF StagesOf
<1>6. CASE RecvTaskCompleted
    BY <1>6 DEF RecvTaskCompleted, Quiet
<1>7. CASE ChannelClosed \/ Display \/ Join \/ Terminated \/ UNCHANGED vars
    BY <1>3, <1>4, <1>7 DEF ChannelClosed, Display, Join, Terminated, vars
<1>8. CASE EndAllThreads
    BY <1>3, <1>8, EndKeepsQueues DEF EndAllThreads
<1>9. ASSUME NEW t \in Threads, Worker(t) PROVE flowIx' = 0 /\ Quiet' /\ written' = {}
    <2>1. ~Busy(t)
        BY <1>1 DEF Busy
    <2>2. ~TakeTask(t)
        <3> SUFFICES ASSUME TakeTask(t) PROVE FALSE
            OBVIOUS
        <3>1. s2t[t] # << >> /\ Head(s2t[t]) # EndThreadMsg
            BY DEF TakeTask, Idle
        <3>2. 1 \in 1 .. Len(s2t[t]) /\ s2t[t][1] \in Messages /\ s2t[t][1] # EndThreadMsg
            BY <3>1, QueueFacts, EmptySeq
        <3>3. s2t[t][1].task \in Queued(t)
            BY <3>2, MessageFacts DEF Queued
        <3> QED
            BY <1>1, <3>3
    <2>3. EndThread(t)
        BY <1>9, <2>1, <2>2 DEF Worker, OpenOutput, FinishTask, FailTask
    <2>4. \A u \in Threads : Queued(u)' \subseteq Queued(u)
        BY <2>3 DEF EndThread, Queued, TypeInv, TypeOK
    <2> QED
        BY <1>3, <2>3, <2>4 DEF EndThread
<1> QED
    BY <1>2, <1>5, <1>6, <1>7, <1>8, <1>9 DEF Next, Main

LEMMA SerialFlowNext ==
    ASSUME SerialJob, TypeInv, TypeInv', EndIsLast, ChildrenCountedOnce',
           SerialFlow, flowIx > 0, [Next]_vars,
           \A t \in Threads : status[t] = "ended" => pc \in {"join"} \union Terminals,
           ThreadLeft
    PROVE  flowIx' > 0 /\ SerialFlow'
<1>1. CASE StartFlow
    BY <1>1, SerialStart DEF SerialFlow, SerialPc, StartFlow, Over
<1>2. ASSUME NEW s \in StagesOf(flowIx), SendTask(s) \/ SendFails(s) \/ StageScheduled(s)
      PROVE  flowIx' > 0 /\ SerialFlow'
    <2>1. CASE SendFails(s)
        BY <2>1, SerialPcStep DEF SendFails, Over
    <2> QED
        BY <1>2, <2>1, SerialSend, SerialScheduled DEF SendTask, StageScheduled
<1>3. CASE RecvTaskCompleted
    BY <1>3, SerialRecv DEF RecvTaskCompleted
<1>4. ~ChannelClosed
    BY ChannelOpen
<1>5. CASE Display
    BY <1>5, SerialPcStep DEF Display, AfterFlow, Over
<1>6. CASE EndAllThreads
    BY <1>6, SerialEndAll DEF EndAllThreads
<1>7. CASE Join
    BY <1>7, SerialPcStep DEF Join, Over
<1>8. ASSUME NEW t \in Threads, Worker(t) PROVE flowIx' > 0 /\ SerialFlow'
    <2>1. CASE FailTask(t)
        <3>1. t = 0
            BY <2>1, SerialBusy DEF FailTask, Busy
        <3>2. SerialFlow'
            BY <2>1, <3>1, SerialFail
        <3> QED
            BY <2>1, <3>2 DEF FailTask
    <2>2. flowIx' = flowIx
        BY <1>8 DEF Worker, TakeTask, OpenOutput, FinishTask, FailTask, EndThread
    <2> QED
        BY <1>8, <2>1, <2>2, SerialTake, SerialOpen, SerialFinish, SerialGone DEF Worker
<1>9. CASE Terminated \/ UNCHANGED vars
    BY <1>9, SerialStutter DEF Terminated, vars
<1> QED
    BY <1>1, <1>2, <1>3, <1>4, <1>5, <1>6, <1>7, <1>8, <1>9 DEF Next, Main

LEMMA SerialNext ==
    SerialJob /\ TypeInv /\ TypeInv' /\ EndIsLast /\ ChildrenCountedOnce' /\ SerialInv /\ [Next]_vars
        => SerialInv'
<1> SUFFICES ASSUME SerialJob, TypeInv, TypeInv', EndIsLast, ChildrenCountedOnce', SerialInv,
                    [Next]_vars
             PROVE  SerialInv'
    OBVIOUS
<1>1. ASSUME NEW t \in Threads, status'[t] = "ended" PROVE pc' \in {"join"} \union Terminals
    <2>1. CASE status[t] = "ended"
        BY <2>1, JoinStays DEF SerialInv
    <2>2. CASE EndThread(t)
        <3>1. s2t[t] # << >> /\ Head(s2t[t]) = EndThreadMsg
            BY <2>2 DEF EndThread, Idle
        <3>2. 1 \in 1 .. Len(s2t[t]) /\ s2t[t][1] = EndThreadMsg
            BY <3>1, QueueFacts, EmptySeq
        <3> QED
            BY <3>2, JoinStays DEF EndIsLast
    <2>3. ~FailTask(t)
        BY <1>1 DEF FailTask, TypeInv, TypeOK
    <2> QED
        BY <1>1, <2>1, <2>2, <2>3, StatusStep
<1>2. ASSUME ThreadLeft'
      PROVE  \/ flowIx' = 0 /\ Quiet' /\ written' = {}
             \/ flowIx' > 0 /\ SerialFlow'
    <2>1. ThreadLeft
        BY <1>2, ThreadLeftBefore
    <2> QED
        BY <2>1, SerialNoFlow, SerialFlowNext DEF SerialInv
<1> QED
    BY <1>1, <1>2 DEF SerialInv

LEMMA SerialInit == Init => SerialInv
<1> SUFFICES ASSUME Init PROVE SerialInv
    OBVIOUS
<1>1. Quiet
    BY DEF Init, Quiet, Held, Queued
<1> QED
    BY <1>1 DEF Init, SerialInv

\* On stages of one partition everything happens on thread 0, in the order in which it was
\* sent, however often it is sent, and whatever joins there are: until no thread is left.
THEOREM SerialCorrect ==
    ASSUME SerialJob
    PROVE  Spec => [](TypeInv /\ SerialInv)
<1>1. Spec => [](TypeInv /\ EndIsLast /\ ChildrenCountedOnce)
    <2>1. NoEmptyStage
        BY SerialHasTasks
    <2>2. Init => TypeInv /\ EndIsLast /\ ChildrenCountedOnce
        BY InitTypeInv DEF Init, EndIsLast, ChildrenCountedOnce, StagesOf
    <2>3. TypeInv /\ EndIsLast /\ ChildrenCountedOnce /\ [Next]_vars
            => (TypeInv /\ EndIsLast /\ ChildrenCountedOnce)'
        BY <2>1, NextTypeInv, EndNext, CountsNext DEF TypeInv
    <2> QED
        BY <2>2, <2>3, PTL DEF Spec
<1>2. Init => SerialInv
    BY SerialInit
<1>3. TypeInv /\ TypeInv' /\ EndIsLast /\ ChildrenCountedOnce' /\ SerialInv /\ [Next]_vars
        => SerialInv'
    BY SerialNext
<1> QED
    BY <1>1, <1>2, <1>3, PTL DEF Spec

LEMMA SerialReads ==
    ASSUME SerialJob, TypeInv, SerialFlow, flowIx > 0
    PROVE  ConsumerSeesCompleteInput /\ FlowComplete
<1>1. flowIx \in 1 .. Len(Flows)
    BY FlowsAssumption DEF TypeInv, TypeOK
<1>2. ASSUME NEW t \in Threads, NEW k \in running[t] PROVE Inputs(k) \subseteq written
    <2>1. running[0] = {k} /\ k.stage \in StagesOf(flowIx) /\ k = TheTask(k.stage)
        BY <1>2, SerialBusy
    <2>2. k.flow = flowIx
        BY <2>1 DEF TheTask, Task
    <2>3. InputsReported(k.stage)
        BY <2>1 DEF SerialFlow, InputsKept, UnderWay, Held
    <2>4. ASSUME NEW c \in ChildrenOf(flowIx, k.stage) PROVE StageTasks(flowIx, c) \subseteq written
        <3>1. c \in StagesOf(flowIx) /\ c # k.stage
            BY <1>1, FlowFacts DEF ChildrenOf
        <3>2. TheTask(c) # k
            BY <3>1, TheTaskFacts
        <3>3. TheTask(c) \in written
            BY <2>1, <2>3, <3>1, <3>2 DEF SerialFlow, InputsKept, InputsReported
        <3> QED
            BY <1>1, <3>1, <3>3, SerialTasks DEF TheTask
    <2> QED
        BY <2>2, <2>4 DEF Inputs
<1>3. ASSUME pc = "display" PROVE outDir /\ FlowTasks(flowIx) \subseteq written
    <2>1. outDir /\ (\A s \in StagesOf(flowIx) : Reported(s)) /\ Quiet
        BY <1>3 DEF SerialFlow, SerialPc, Over
    <2>2. running[0] = {}
        BY <2>1, NThreadsAssumption DEF Quiet, Held, Threads
    <2>3. ASSUME NEW s \in StagesOf(flowIx) PROVE StageTasks(flowIx, s) \subseteq written
        BY <1>1, <2>1, <2>2, SerialTasks DEF SerialFlow, InputsKept, TheTask
    <2> QED
        BY <2>1, <2>3 DEF FlowTasks
<1> QED
    BY <1>2, <1>3 DEF ConsumerSeesCompleteInput, FlowComplete

\* With one partition per stage, a join of any number of inputs: although stages are sent again
\* while they are at work, no task reads a file that is missing or half written, and when
\* run_flow returns the whole flow is on disk.  Unless the one thread dies.
THEOREM OneThreadSuffices ==
    ASSUME SerialJob
    PROVE  Spec => []OneThreadIsEnough
<1>1. TypeInv /\ SerialInv => OneThreadIsEnough
    <2> SUFFICES ASSUME TypeInv, SerialInv, status[0] # "panicked"
                 PROVE  ConsumerSeesCompleteInput /\ FlowComplete
        BY DEF OneThreadIsEnough
    <2>1. CASE flowIx = 0 /\ Quiet
        BY <2>1 DEF ConsumerSeesCompleteInput, FlowComplete, Quiet, Held, TypeInv, FlowIxOK
    <2>2. ThreadLeft
        BY NThreadsAssumption DEF ThreadLeft, Threads
    <2> QED
        BY <2>1, <2>2, SerialReads DEF SerialInv
<1> QED
    BY <1>1, SerialCorrect, PTL

-----------------------------------------------------------------------------
(* From here to the end: jobs of linear stage graphs, on any number of threads, with tasks
   that may fail.  As long as one thread is left the scheduler is correct (LinearInv of
   SchedulerInv is the invariant) and implements Dataflow. *)

-----------------------------------------------------------------------------
(* Stages and tasks. *)

LEMMA LinearChildren ==
    ASSUME LinearJob, NEW f \in 1 .. Len(Flows), NEW s \in StagesOf(f)
    PROVE  /\ \A c \in ChildrenOf(f, s) : c = s + 1
           /\ s + 1 \in StagesOf(f) => NChildren(f, s) = 1
           /\ s + 1 \notin StagesOf(f) => NChildren(f, s) = 0
<1>1. s \in Nat
    BY FlowFacts
<1>2. \A c \in ChildrenOf(f, s) : c \in StagesOf(f) /\ c = s + 1
    <2>1. \A c \in StagesOf(f) \ {0} : c \in Nat /\ Flows[f].parent[c] = c - 1
        BY FlowFacts DEF LinearJob, Linear
    <2> QED
        BY <1>1, <2>1 DEF ChildrenOf
<1>3. ASSUME s + 1 \in StagesOf(f) PROVE ChildrenOf(f, s) = {s + 1}
    <2>1. s + 1 \in StagesOf(f) \ {0} /\ Flows[f].parent[s + 1] = s
        BY <1>1, <1>3 DEF LinearJob, Linear
    <2> QED
        BY <1>2, <2>1 DEF ChildrenOf
<1>4. ASSUME s + 1 \notin StagesOf(f) PROVE ChildrenOf(f, s) = {}
    BY <1>2, <1>4
<1> QED
    BY <1>2, <1>3, <1>4, FS_Singleton, FS_EmptySet DEF NChildren

-----------------------------------------------------------------------------
(* Queues. *)

\* A task is sent to the back of one queue.
LEMMA SendEffect ==
    ASSUME TypeInv, NEW t \in Threads, NEW k \in Tasks,
           s2t' = [s2t EXCEPT ![t] = Append(s2t[t], ScheduleTask(k))],
           running' = running
    PROVE  /\ Held(t)' = Held(t) \union {k}
           /\ \A u \in Threads \ {t} : Held(u)' = Held(u) /\ (HeldOnce(u) => HeldOnce(u)')
           /\ k \notin Held(t) /\ HeldOnce(t) => HeldOnce(t)'
           /\ \A u \in Threads : (\E i \in 1 .. Len(s2t'[u]) : s2t'[u][i] = EndThreadMsg)
                    => (\E i \in 1 .. Len(s2t[u]) : s2t[u][i] = EndThreadMsg)
<1> DEFINE n == Len(s2t[t])
<1>1. /\ n \in Nat
      /\ s2t'[t] = Append(s2t[t], ScheduleTask(k))
      /\ \A u \in Threads \ {t} : s2t'[u] = s2t[u]
    BY QueueFacts DEF TypeInv, TypeOK
<1>2. /\ Len(s2t'[t]) = n + 1
      /\ \A i \in 1 .. n : s2t'[t][i] = s2t[t][i]
      /\ s2t'[t][n + 1] = ScheduleTask(k)
    BY <1>1, QueueFacts, MessageFacts
<1>3. Queued(t)' = Queued(t) \union {k}
    <2>1. ASSUME NEW l \in Queued(t)' PROVE l \in Queued(t) \union {k}
        <3>1. PICK i \in 1 .. n + 1 : s2t'[t][i] = ScheduleTask(l)
            BY <1>2, <2>1 DEF Queued
        <3>2. CASE i = n + 1
            BY <1>2, <2>1, <3>1, <3>2, MessageTask DEF Queued
        <3>3. CASE i # n + 1
            BY <1>1, <1>2, <2>1, <3>1, <3>3 DEF Queued
        <3> QED
            BY <3>2, <3>3
    <2>2. ASSUME NEW l \in Queued(t) PROVE l \in Queued(t)'
        BY <1>1, <1>2, <2>2 DEF Queued
    <2>3. k \in Queued(t)'
        BY <1>1, <1>2 DEF Queued
    <2> QED
        BY <2>1, <2>2, <2>3
<1>4. \A u \in Threads \ {t} : Held(u)' = Held(u) /\ (HeldOnce(u) => HeldOnce(u)')
    BY <1>1 DEF Held, Queued, HeldOnce
<1>5. ASSUME k \notin Held(t), HeldOnce(t) PROVE HeldOnce(t)'
    <2>1. \A i \in 1 .. n : s2t[t][i] # ScheduleTask(k)
        BY <1>5 DEF Held, Queued
    <2>2. ASSUME NEW i \in 1 .. n + 1, NEW j \in 1 .. n + 1, i # j,
                 s2t'[t][i] = s2t'[t][j]
          PROVE  s2t'[t][i] = EndThreadMsg
        <3>1. i \in 1 .. n /\ j \in 1 .. n
            BY <1>1, <1>2, <2>1, <2>2
        <3> QED
            BY <1>2, <1>5, <2>2, <3>1 DEF HeldOnce
    <2>3. running'[t] \intersect Queued(t)' = {}
        BY <1>3, <1>5 DEF HeldOnce, Held
    <2> QED
        BY <1>2, <1>5, <2>2, <2>3 DEF HeldOnce
<1>6. ASSUME NEW u \in Threads, NEW i \in 1 .. Len(s2t'[u]), s2t'[u][i] = EndThreadMsg
      PROVE  \E j \in 1 .. Len(s2t[u]) : s2t[u][j] = EndThreadMsg
    <2>1. CASE u = t
        <3>1. i \in 1 .. n
            BY <1>1, <1>2, <1>6, <2>1, MessageFacts
        <3> QED
            BY <1>2, <1>6, <2>1, <3>1
    <2>2. CASE u # t
        BY <1>1, <1>6, <2>2
    <2> QED
        BY <2>1, <2>2
<1> QED
    BY <1>3, <1>4, <1>5, <1>6 DEF Held

\* A worker takes the first task of its queue.
LEMMA TakeEffect ==
    ASSUME TypeInv, NEW t \in Threads, TakeTask(t), HeldOnce(t)
    PROVE  /\ \E k \in Queued(t) : running'[t] = {k}
           /\ Held(t)' \subseteq Held(t)
           /\ HeldOnce(t)'
           /\ \A i \in 1 .. Len(s2t'[t]) : s2t'[t][i] = EndThreadMsg
                    => \E j \in 1 .. Len(s2t[t]) : s2t[t][j] = EndThreadMsg
<1> DEFINE n == Len(s2t[t])
           k == Head(s2t[t]).task
<1>1. s2t[t] \in Seq(Messages) /\ s2t[t] # << >> /\ n \in Nat
    BY QueueFacts DEF TakeTask, Idle
<1>2. /\ Head(s2t[t]) = s2t[t][1]
      /\ Tail(s2t[t]) \in Seq(Messages)
      /\ Len(Tail(s2t[t])) = n - 1
      /\ \A i \in 1 .. n - 1 : Tail(s2t[t])[i] = s2t[t][i + 1]
      /\ n >= 1
    BY <1>1, HeadTailProperties, EmptySeq
<1>3. k \in Tasks /\ s2t[t][1] = ScheduleTask(k)
    BY <1>1, <1>2, MessageFacts, HeadTailProperties DEF TakeTask
<1>4. running'[t] = {k} /\ s2t'[t] = Tail(s2t[t])
    BY DEF TakeTask, TypeInv, TypeOK
<1> HIDE DEF k
<1>5. k \in Queued(t)
    BY <1>1, <1>2, <1>3 DEF Queued
<1>6. Queued(t)' \subseteq Queued(t)
    BY <1>1, <1>2, <1>4 DEF Queued
<1>7. k \notin Queued(t)'
    <2> SUFFICES ASSUME NEW i \in 1 .. n - 1, s2t[t][i + 1] = ScheduleTask(k) PROVE FALSE
        BY <1>1, <1>2, <1>4 DEF Queued
    <2> QED
        BY <1>1, <1>3, MessageFacts DEF HeldOnce
<1>8. HeldOnce(t)'
    <2>1. ASSUME NEW i \in 1 .. n - 1, NEW j \in 1 .. n - 1, i # j,
                 s2t[t][i + 1] = s2t[t][j + 1]
          PROVE  s2t[t][i + 1] = EndThreadMsg
        BY <1>1, <2>1 DEF HeldOnce
    <2> QED
        BY <1>1, <1>2, <1>4, <1>7, <2>1 DEF HeldOnce
<1>9. \A i \in 1 .. n - 1 : s2t'[t][i] = EndThreadMsg
            => \E j \in 1 .. n : s2t[t][j] = EndThreadMsg
    BY <1>1, <1>2, <1>4
<1> QED
    BY <1>1, <1>2, <1>4, <1>5, <1>6, <1>8, <1>9 DEF Held

-----------------------------------------------------------------------------
(* Partitions on disk. *)

LEMMA WrittenPartsFacts ==
    ASSUME TypeInv, NEW s \in StagesOf(flowIx)
    PROVE  /\ flowIx \in 1 .. Len(Flows)
           /\ Flows[flowIx].npartitions[s] \in Nat
           /\ IsFiniteSet(WrittenParts(s))
           /\ Cardinality(WrittenParts(s)) \in Nat
           /\ Cardinality(WrittenParts(s)) <= Flows[flowIx].npartitions[s]
           /\ Cardinality(WrittenParts(s)) = Flows[flowIx].npartitions[s]
                    => StageTasks(flowIx, s) \subseteq written
<1> DEFINE n == Flows[flowIx].npartitions[s]
<1>1. flowIx \in 1 .. Len(Flows)
    BY FlowsAssumption DEF TypeInv, TypeOK, StagesOf
<1>2. n \in Nat
    BY <1>1, FlowFacts
<1>4. WrittenParts(s) \subseteq 0 .. n - 1
    BY DEF WrittenParts
<1> HIDE DEF n
<1>3. IsFiniteSet(0 .. n - 1) /\ Cardinality(0 .. n - 1) = n
    <2>1. /\ IsFiniteSet(0 .. n - 1)
          /\ Cardinality(0 .. n - 1) = IF 0 > n - 1 THEN 0 ELSE (n - 1) - 0 + 1
        BY <1>2, FS_Interval
    <2> QED
        BY <1>2, <2>1
<1>5. /\ IsFiniteSet(WrittenParts(s))
      /\ Cardinality(WrittenParts(s)) \in Nat /\ Cardinality(WrittenParts(s)) <= n
    <2>1. IsFiniteSet(WrittenParts(s)) /\ Cardinality(WrittenParts(s)) <= n
        BY <1>3, <1>4, FS_Subset
    <2> QED
        BY <2>1, FS_CardinalityType
<1>6. ASSUME Cardinality(WrittenParts(s)) = n PROVE StageTasks(flowIx, s) \subseteq written
    <2>1. WrittenParts(s) = 0 .. n - 1
        BY <1>3, <1>4, <1>6, FS_Subset
    <2> QED
        BY <2>1 DEF WrittenParts, StageTasks, n
<1> QED
    BY <1>1, <1>2, <1>5, <1>6 DEF n

\* One more task of stage a is on disk.
LEMMA WrittenPartsGrow ==
    ASSUME TypeInv, NEW a \in StagesOf(flowIx), NEW k \in StageTasks(flowIx, a),
           k \notin written, written' = written \union {k}, flowIx' = flowIx
    PROVE  Cardinality(WrittenParts(a))' = Cardinality(WrittenParts(a)) + 1
<1>1. WrittenParts(a)' = WrittenParts(a) \union {k.part}
    <2>1. k.part \in 0 .. Flows[flowIx].npartitions[a] - 1 /\ k = Task(flowIx, a, k.part)
        BY TaskShape
    <2>2. \A p : Task(flowIx, a, p) = k => p = k.part
        BY TaskShape
    <2> QED
        BY <2>1, <2>2 DEF WrittenParts
<1>2. k.part \notin WrittenParts(a)
    BY TaskShape DEF WrittenParts
<1> QED
    BY <1>1, <1>2, WrittenPartsFacts, FS_AddElement

-----------------------------------------------------------------------------
(* Steps that touch neither the queues nor what the workers execute. *)

LEMMA HeldInStageFrame ==
    ASSUME UNCHANGED <<s2t, running, flowIx, written>>, NEW a,
           \A t \in Threads : HeldInStage(t, a)
    PROVE  \A t \in Threads : HeldInStage(t, a)'
BY HeldFrame DEF HeldInStage

LEMMA CountedFrame ==
    ASSUME UNCHANGED <<flowIx, npartitions_completed, nchildren_completed>>,
           written \subseteq written', NEW a, Counted(a)
    PROVE  Counted(a)'
BY DEF Counted, StageOver, StageUntouched

LEMMA DeliveredFrame ==
    ASSUME UNCHANGED <<flowIx, npartitions_completed, written, t2s>>, NEW a, Delivered(a)
    PROVE  Delivered(a)'
BY DEF Delivered, WrittenParts

LEMMA ActiveFrame ==
    ASSUME UNCHANGED <<flowIx, npartitions_completed, nchildren_completed, s2t, t2s,
                       running, written>>,
           pc' # "schedule", NEW a, ActiveStage(a)
    PROVE  ActiveStage(a)'
BY HeldInStageFrame, CountedFrame, DeliveredFrame DEF ActiveStage

LEMMA QuietFrame ==
    ASSUME UNCHANGED <<s2t, running, t2s>>, Quiet
    PROVE  Quiet'
BY HeldFrame DEF Quiet

\* A step that changes pc alone, and leaves the schedule phase if it was in it.
LEMMA PcStep ==
    ASSUME LinearInv, pc' \notin {"schedule", "recv"},
           Over' => Over, pc' = "display" => pc = "display",
           pc \in {"join"} \union Terminals => pc' \in {"join"} \union Terminals,
           UNCHANGED <<flowIx, nchildren_completed, npartitions_completed,
                       s2t, t2s, status, running, out, written, outDir>>
    PROVE  LinearInv'
<1>1. \A t \in Threads : HeldOnce(t)'
    BY HeldFrame DEF LinearInv
<1>2. ThreadInv'
    BY DEF LinearInv, ThreadInv
<1>3. FlowInv'
    BY ActiveFrame, QuietFrame DEF LinearInv, FlowInv
<1>4. OutDirInv'
    BY DEF LinearInv, OutDirInv
<1> QED
    BY <1>1, <1>2, <1>3, <1>4 DEF LinearInv

LEMMA StutterStep == LinearInv /\ UNCHANGED vars => LinearInv'
BY DEF vars, LinearInv, HeldOnce, Held, Queued, ThreadInv, FlowInv, Quiet, Over, ActiveStage,
       Counted, StageOver, StageUntouched, Delivered, WrittenParts, HeldInStage, SentSoFar,
       OutDirInv

SomeThreadSurvives == FaultyThreads # Threads

LEMMA SurvivorIsLeft ==
    ASSUME SomeThreadSurvives, LinearInv
    PROVE  ThreadLeft
BY FaultyAssumption DEF SomeThreadSurvives, ThreadLeft, LinearInv, ThreadInv

\* The loop of run_flow never finds all threads gone.
LEMMA NotClosed ==
    ASSUME ThreadLeft, LinearInv, TypeInv
    PROVE  ~ChannelClosed
BY ChannelOpen DEF LinearInv, ThreadInv

LEMMA StageScheduledStep ==
    ASSUME LinearInv, TypeInv, NEW s \in StagesOf(flowIx), StageScheduled(s)
    PROVE  LinearInv'
<1>1. flowIx > 0
    BY DEF StageScheduled, TypeInv, FlowIxOK
<1>2. PICK a \in StagesOf(flowIx) : ActiveStage(a)
    BY <1>1 DEF LinearInv, FlowInv
<1>3. pending' = {} /\ pc' = "recv" /\ nextPart' = 0
    BY <1>2 DEF StageScheduled, Sending, ActiveStage, SentSoFar
<1>4. ActiveStage(a)'
    BY <1>2, <1>3, ActiveFrame DEF StageScheduled
<1>5. \A t \in Threads : HeldOnce(t)'
    BY HeldFrame DEF StageScheduled, LinearInv
<1>6. ThreadInv'
    <2>1. pc \notin {"join"} \union Terminals
        BY DEF StageScheduled, Terminals
    <2> QED
        BY <2>1 DEF StageScheduled, LinearInv, ThreadInv
<1>7. FlowInv'
    BY <1>1, <1>3, <1>4 DEF StageScheduled, FlowInv, Over
<1>8. OutDirInv'
    BY <1>3 DEF StageScheduled, LinearInv, OutDirInv
<1> QED
    BY <1>3, <1>5, <1>6, <1>7, <1>8 DEF LinearInv

LEMMA SendTaskStep ==
    ASSUME LinearInv, TypeInv, NEW s \in StagesOf(flowIx), SendTask(s)
    PROVE  LinearInv'
<1>1. flowIx > 0 /\ pc = "schedule" /\ pc' = "schedule"
    BY DEF SendTask, TypeInv, FlowIxOK
<1>2. PICK a \in StagesOf(flowIx) : ActiveStage(a)
    BY <1>1 DEF LinearInv, FlowInv
<1>3. SentSoFar(a) /\ s = a
    BY <1>1, <1>2 DEF SendTask, Sending, ActiveStage, SentSoFar
<1>0. PICK t, k : t = ThreadFor(nextPart) /\ k = Task(flowIx, a, nextPart)
    OBVIOUS
<1>4. t \in Threads
    BY <1>0, NThreadsAssumption DEF ThreadFor, Threads, TypeInv, TypeOK
<1>5. nextPart \in 0 .. Flows[flowIx].npartitions[a] - 1 /\ nextPart' = nextPart + 1
    BY <1>3, WrittenPartsFacts DEF SendTask, MoreParts, TypeInv, TypeOK
<1>6. k \in StageTasks(flowIx, a) /\ k.part = nextPart /\ k.stage = a /\ k \in Tasks
    BY <1>0, <1>5, TaskShape, StageTasksInJob DEF TypeInv, TypeOK
<1>7. k \notin written /\ \A u \in Threads : k \notin Held(u)
    BY <1>3, <1>5, <1>6 DEF SentSoFar
<1>8. s2t' = [s2t EXCEPT ![t] = Append(s2t[t], ScheduleTask(k))]
    BY <1>0, <1>3 DEF SendTask
<1>9. UNCHANGED <<pc, flowIx, nchildren_completed, npartitions_completed, pending, t2s,
                  status, running, out, written, outDir>>
    BY DEF SendTask
<1>10. ThreadFor(k.part) = t
    BY <1>0, <1>6
<1>11. /\ Held(t)' = Held(t) \union {k}
       /\ \A u \in Threads \ {t} : Held(u)' = Held(u)
       /\ \A u \in Threads : HeldOnce(u)'
       /\ \A u \in Threads : (\E i \in 1 .. Len(s2t'[u]) : s2t'[u][i] = EndThreadMsg)
                    => (\E i \in 1 .. Len(s2t[u]) : s2t[u][i] = EndThreadMsg)
    <2>1. running' = running
        BY <1>9
    <2>2. /\ Held(t)' = Held(t) \union {k}
          /\ \A u \in Threads \ {t} : Held(u)' = Held(u) /\ (HeldOnce(u) => HeldOnce(u)')
          /\ k \notin Held(t) /\ HeldOnce(t) => HeldOnce(t)'
          /\ \A u \in Threads : (\E i \in 1 .. Len(s2t'[u]) : s2t'[u][i] = EndThreadMsg)
                    => (\E i \in 1 .. Len(s2t[u]) : s2t[u][i] = EndThreadMsg)
        BY <1>4, <1>6, <1>8, <2>1, SendEffect
    <2>3. HeldOnce(t)'
        BY <1>4, <1>7, <2>2 DEF LinearInv
    <2>4. \A u \in Threads \ {t} : HeldOnce(u)'
        BY <2>2 DEF LinearInv
    <2> QED
        BY <2>2, <2>3, <2>4
<1>12. \A u \in Threads : HeldInStage(u, a)'
    <2> SUFFICES ASSUME NEW u \in Threads, NEW l \in Held(u)'
                 PROVE  l \in StageTasks(flowIx, a) /\ ThreadFor(l.part) = u /\ l \notin written
        BY <1>9 DEF HeldInStage
    <2>1. CASE l \in Held(u)
        BY <1>2, <2>1 DEF ActiveStage, HeldInStage
    <2>2. CASE l \notin Held(u)
        <3>1. u = t /\ l = k
            BY <1>11, <2>2
        <3> QED
            BY <1>6, <1>7, <1>10, <3>1
    <2> QED
        BY <2>1, <2>2
<1>13. SentSoFar(a)'
    <2>1. \A u \in Threads : \A l \in Held(u) : l.part \in Nat
        BY <1>2, <1>5, TaskShape DEF ActiveStage, HeldInStage
    <2>2. \A u \in Threads : \A l \in Held(u)' : l.part < nextPart'
        <3> SUFFICES ASSUME NEW u \in Threads, NEW l \in Held(u)' PROVE l.part < nextPart'
            OBVIOUS
        <3>1. CASE l \in Held(u)
            BY <1>3, <1>5, <2>1, <3>1 DEF SentSoFar
        <3>2. CASE l \notin Held(u)
            <4>1. l = k
                BY <1>11, <3>2
            <4> QED
                BY <1>5, <1>6, <4>1
        <3> QED
            BY <3>1, <3>2
    <2>3. ASSUME NEW l \in written, l.stage = a PROVE l.part < nextPart'
        <3>1. l \in StageTasks(flowIx, a)
            BY <1>2, <2>3, FlowTaskShape DEF ActiveStage, Delivered
        <3>2. l.part \in Nat
            BY <1>5, <3>1, TaskShape
        <3> QED
            BY <1>3, <1>5, <2>3, <3>2 DEF SentSoFar
    <2> QED
        BY <1>3, <1>9, <2>2, <2>3 DEF SentSoFar
<1>14. ActiveStage(a)'
    BY <1>2, <1>9, <1>12, <1>13, CountedFrame, DeliveredFrame DEF ActiveStage
<1>15. FlowInv'
    BY <1>1, <1>9, <1>14 DEF FlowInv, Over
<1>16. ThreadInv' /\ OutDirInv'
    BY <1>1, <1>9, <1>11 DEF LinearInv, ThreadInv, OutDirInv
<1> QED
    BY <1>1, <1>11, <1>15, <1>16 DEF LinearInv

\* Before the first message: the stage without children is the one to run.
LEMMA StartFlowStep ==
    ASSUME LinearJob, LinearInv, TypeInv, StartFlow
    PROVE  LinearInv'
<1>1. Quiet
    BY DEF LinearInv, FlowInv, Over, StartFlow
<1>2. /\ flowIx' \in 1 .. Len(Flows) /\ flowIx' > 0
      /\ pc' = "schedule" /\ nextPart' = 0 /\ written' = {}
      /\ UNCHANGED <<s2t, t2s, status, running>>
    BY FlowsAssumption DEF StartFlow, TypeInv, FlowIxOK, TypeOK
<1>3. PICK f, a : f = flowIx' /\ a = Flows[f].nstages - 1
    OBVIOUS
<1>4. /\ a \in StagesOf(f) /\ a \in Nat
      /\ \A s \in StagesOf(f) : s \in Nat /\ s <= a
    BY <1>2, <1>3, FlowFacts
<1>5. \A s \in StagesOf(f) : nchildren_completed'[s] = 0 /\ npartitions_completed'[s] = 0
    BY <1>3 DEF StartFlow
<1>6. NChildren(f, a) = 0 /\ \A s \in StagesOf(f) \ {a} : NChildren(f, s) = 1
    <2>1. a + 1 \notin StagesOf(f)
        BY <1>4
    <2>2. \A s \in StagesOf(f) \ {a} : s + 1 \in StagesOf(f)
        <3>1. StagesOf(f) = 0 .. a
            BY <1>2, <1>3, FlowFacts
        <3> QED
            BY <1>4, <3>1
    <2>3. NChildren(f, a) = 0
        BY <1>2, <1>3, <1>4, <2>1, LinearChildren
    <2>4. ASSUME NEW s \in StagesOf(f) \ {a} PROVE NChildren(f, s) = 1
        BY <1>2, <1>3, <2>2, LinearChildren
    <2> QED
        BY <2>3, <2>4
<1>7. pending' = {a}
    <2>1. pending' = Runnable(f, nchildren_completed', npartitions_completed')
        BY <1>3 DEF StartFlow
    <2> QED
        <3>1. a \in pending'
            BY <1>4, <1>5, <1>6, <2>1 DEF Runnable
        <3>2. ASSUME NEW s \in pending', s # a PROVE FALSE
            <4>1. s \in StagesOf(f) \ {a} /\ nchildren_completed'[s] = NChildren(f, s)
                BY <2>1, <3>2 DEF Runnable
            <4> QED
                BY <1>5, <1>6, <4>1
        <3> QED
            BY <3>1, <3>2
<1>8. \A t \in Threads : Held(t)' = {} /\ HeldOnce(t)'
    BY <1>1, <1>2, HeldFrame DEF Quiet, LinearInv
<1>9. ActiveStage(a)'
    <2>1. Counted(a)'
        <3>1. \A s \in StagesOf(f) : ~(s > a)
            BY <1>4
        <3> QED
            BY <1>3, <1>4, <1>5, <1>6, <3>1 DEF Counted, StageUntouched
    <2>2. Delivered(a)'
        <3>1. WrittenParts(a)' = {}
            BY <1>2 DEF WrittenParts
        <3>2. Cardinality(WrittenParts(a))' = 0
            BY <3>1, FS_EmptySet
        <3>3. t2s' = << >> /\ Len(t2s') = 0
            BY <1>1, <1>2 DEF Quiet
        <3> QED
            BY <1>2, <1>4, <1>5, <3>2, <3>3 DEF Delivered
    <2>3. \A t \in Threads : HeldInStage(t, a)'
        BY <1>8 DEF HeldInStage
    <2>4. SentSoFar(a)'
        BY <1>2, <1>7, <1>8 DEF SentSoFar
    <2> QED
        BY <2>1, <2>2, <2>3, <2>4 DEF ActiveStage
<1>10. FlowInv'
    BY <1>2, <1>3, <1>4, <1>9 DEF FlowInv, Over
<1>11. \A t \in Threads : running[t] = {}
    BY <1>1 DEF Quiet, Held
<1>12. ThreadInv'
    BY <1>2, <1>11 DEF LinearInv, ThreadInv, StartFlow, Terminals
<1>13. OutDirInv'
    BY <1>2, <1>11 DEF OutDirInv
<1> QED
    BY <1>2, <1>8, <1>10, <1>12, <1>13 DEF LinearInv

\* A message counts for the active stage.
LEMMA PartitionCompletedStep ==
    ASSUME LinearInv, TypeInv, RecvTaskCompleted, PartitionCompleted(Head(t2s).stage)
    PROVE  LinearInv'
<1>1. /\ flowIx > 0 /\ pc = "recv" /\ pc' = "recv" /\ nextPart' = 0
      /\ t2s # << >> /\ t2s' = Tail(t2s)
      /\ UNCHANGED <<flowIx, s2t, status, running, out, written, outDir, nchildren_completed>>
    BY DEF RecvTaskCompleted, PartitionCompleted, TypeInv, FlowIxOK, LinearInv
<1>2. PICK a \in StagesOf(flowIx) : ActiveStage(a)
    BY <1>1 DEF LinearInv, FlowInv
<1>3. /\ Len(t2s) \in Nat \ {0} /\ Head(t2s) = t2s[1] /\ Len(t2s') = Len(t2s) - 1
      /\ \A i \in 1 .. Len(t2s') : t2s'[i] = t2s[i + 1]
    BY <1>1, HeadTailProperties, EmptySeq DEF TypeInv, TypeOK
<1>4. Head(t2s).stage = a
    BY <1>2, <1>3, TaskShape DEF ActiveStage, Delivered
<1>5. /\ npartitions_completed'[a] = npartitions_completed[a] + 1
      /\ npartitions_completed[a] \in Nat
      /\ \A s \in StagesOf(flowIx) \ {a} : npartitions_completed'[s] = npartitions_completed[s]
    BY <1>4 DEF PartitionCompleted, TypeInv, TypeOK
<1>6. \A s \in StagesOf(flowIx) : s \in Nat
    BY FlowFacts, FlowsAssumption DEF StagesOf, TypeInv, TypeOK
<1>7. Counted(a)'
    BY <1>1, <1>2, <1>5, <1>6 DEF ActiveStage, Counted, StageOver, StageUntouched
<1>8. Delivered(a)'
    <2>1. WrittenParts(a)' = WrittenParts(a)
        BY <1>1 DEF WrittenParts
    <2>2. npartitions_completed'[a] + Len(t2s') = Cardinality(WrittenParts(a)')
        BY <1>2, <1>3, <1>5, <2>1 DEF ActiveStage, Delivered
    <2>3. \A i \in 1 .. Len(t2s') : t2s'[i] \in StageTasks(flowIx, a)
        BY <1>2, <1>3 DEF ActiveStage, Delivered
    <2> QED
        BY <1>1, <1>2, <2>2, <2>3 DEF ActiveStage, Delivered
<1>9. ActiveStage(a)'
    BY <1>1, <1>2, <1>7, <1>8, HeldInStageFrame DEF ActiveStage
<1>10. FlowInv'
    BY <1>1, <1>2, <1>9 DEF FlowInv, Over
<1> QED
    BY <1>1, <1>10, HeldFrame DEF LinearInv, ThreadInv, OutDirInv

\* The last message of the active stage: all its partitions are on disk, so no
\* queue and no thread holds a task, and its parent becomes active.
LEMMA StageCompletedStep ==
    ASSUME LinearJob, LinearInv, TypeInv, RecvTaskCompleted, StageCompleted(Head(t2s).stage)
    PROVE  LinearInv'
<1>1. /\ flowIx \in 1 .. Len(Flows) /\ flowIx > 0
      /\ pc = "recv" /\ nextPart' = 0 /\ t2s # << >> /\ t2s' = Tail(t2s)
      /\ UNCHANGED <<flowIx, s2t, status, running, out, written, outDir>>
    BY DEF RecvTaskCompleted, TypeInv, TypeOK, FlowIxOK, LinearInv
<1>2. PICK a \in StagesOf(flowIx) : ActiveStage(a)
    BY <1>1 DEF LinearInv, FlowInv
<1>3. /\ Len(t2s) \in Nat \ {0} /\ Head(t2s) = t2s[1] /\ Len(t2s') = Len(t2s) - 1
      /\ t2s' \in Seq(Tasks)
    BY <1>1, HeadTailProperties, EmptySeq DEF TypeInv, TypeOK
<1>4. Head(t2s).stage = a
    BY <1>2, <1>3, TaskShape DEF ActiveStage, Delivered
<1>5. StageCompleted(a)
    BY <1>4
<1>6. /\ npartitions_completed'[a] = npartitions_completed[a] + 1
      /\ npartitions_completed'[a] = Flows[flowIx].npartitions[a]
      /\ npartitions_completed[a] \in Nat
      /\ \A s \in StagesOf(flowIx) \ {a} : npartitions_completed'[s] = npartitions_completed[s]
    BY <1>5 DEF StageCompleted, LastPartition, TypeInv, TypeOK
<1>7. \A s \in StagesOf(flowIx) : s \in Nat
    BY <1>1, FlowFacts
<1>8. Len(t2s') = 0 /\ StageTasks(flowIx, a) \subseteq written
    <2>1. npartitions_completed[a] + Len(t2s) = Cardinality(WrittenParts(a))
        BY <1>2 DEF ActiveStage, Delivered
    <2>2. Cardinality(WrittenParts(a)) <= Flows[flowIx].npartitions[a]
        BY WrittenPartsFacts
    <2>3. Cardinality(WrittenParts(a)) = Flows[flowIx].npartitions[a] /\ Len(t2s') = 0
        BY <1>3, <1>6, <2>1, <2>2, WrittenPartsFacts
    <2> QED
        BY <2>3, WrittenPartsFacts
<1>9. t2s' = << >>
    BY <1>3, <1>8, EmptySeq
<1>10. \A t \in Threads : Held(t) = {}
    BY <1>2, <1>8 DEF ActiveStage, HeldInStage
<1>11. Quiet' /\ \A t \in Threads : HeldOnce(t)'
    BY <1>1, <1>9, <1>10, HeldFrame DEF Quiet, LinearInv
<1>12. \A s \in StagesOf(flowIx) : s > a => StageOver(s)
    BY <1>2 DEF ActiveStage, Counted
<1>13. \A s \in StagesOf(flowIx) : s < a => StageUntouched(s)
    BY <1>2 DEF ActiveStage, Counted
<1>14. nchildren_completed[a] = NChildren(flowIx, a)
    BY <1>2 DEF ActiveStage, Counted
<1>15. /\ pending' = Runnable(flowIx, nchildren_completed', npartitions_completed')
       /\ nchildren_completed' = SetStageCompleted(a)
       /\ pc' = IF pending' = {} THEN "display" ELSE "schedule"
    BY <1>5 DEF StageCompleted
<1>16. \A s \in StagesOf(flowIx) : s >= a => npartitions_completed'[s] # 0
    BY <1>6, <1>7, <1>12 DEF StageOver
<1>17. ThreadInv'
    BY <1>1, <1>5 DEF StageCompleted, LinearInv, ThreadInv, Terminals
<1>18. (\E k \in written : k.stage = 0) => outDir
    BY DEF LinearInv, OutDirInv
<1>19. CASE a = 0
    <2>1. nchildren_completed' = nchildren_completed
        BY <1>15, <1>19 DEF SetStageCompleted
    <2>2. pending' = {}
        <3>1. \A s \in StagesOf(flowIx) : s >= 0
            BY <1>7
        <3> QED
            BY <1>15, <1>16, <1>19, <3>1 DEF Runnable
    <2>3. pc' = "display"
        BY <1>15, <2>2
    <2>4. FlowTasks(flowIx) \subseteq written
        <3>1. \A s \in StagesOf(flowIx) : StageTasks(flowIx, s) \subseteq written
            BY <1>7, <1>8, <1>12, <1>19 DEF StageOver
        <3> QED
            BY <3>1 DEF FlowTasks
    <2>5. outDir
        <3>1. 0 \in 0 .. Flows[flowIx].npartitions[0] - 1
            BY <1>6, <1>19
        <3>2. Task(flowIx, 0, 0) \in written /\ Task(flowIx, 0, 0).stage = 0
            BY <1>8, <1>19, <3>1, TaskShape
        <3> QED
            BY <1>18, <3>2
    <2>6. Counted(a)'
        <3>1. \A s \in StagesOf(flowIx) : ~(s < a)
            BY <1>7, <1>19
        <3>2. \A s \in StagesOf(flowIx) : s > a => StageOver(s)'
            BY <1>1, <1>6, <1>7, <1>12, <2>1 DEF StageOver
        <3> QED
            BY <1>1, <1>14, <2>1, <3>1, <3>2 DEF Counted
    <2>7. Delivered(a)'
        <3>1. WrittenParts(a)' = WrittenParts(a)
            BY <1>1 DEF WrittenParts
        <3>2. npartitions_completed'[a] + Len(t2s') = Cardinality(WrittenParts(a)')
            BY <1>2, <1>3, <1>6, <3>1 DEF ActiveStage, Delivered
        <3>3. \A k \in written : k \in FlowTasks(flowIx) /\ k.stage >= a
            BY <1>2 DEF ActiveStage, Delivered
        <3> QED
            <4>1. \A i \in 1 .. Len(t2s') : t2s'[i] \in StageTasks(flowIx, a)
                BY <1>8
            <4> QED
                BY <1>1, <3>2, <3>3, <4>1 DEF Delivered
    <2>8. ActiveStage(a)'
        BY <1>1, <1>2, <2>3, <2>6, <2>7, HeldInStageFrame DEF ActiveStage
    <2>9. FlowInv'
        BY <1>1, <1>2, <1>11, <2>3, <2>4, <2>8 DEF FlowInv
    <2>10. OutDirInv'
        BY <1>1, <2>3, <2>5 DEF OutDirInv
    <2> QED
        BY <1>11, <1>17, <2>3, <2>9, <2>10 DEF LinearInv
<1>20. CASE a # 0
    <2>1. PICK b \in StagesOf(flowIx) : b = a - 1
        <3>1. a - 1 \in StagesOf(flowIx)
            BY <1>1, <1>20, FlowFacts
        <3> QED
            BY <3>1
    <2>2. Flows[flowIx].parent[a] = b
        BY <1>1, <1>20, <2>1 DEF LinearJob, Linear
    <2>3. nchildren_completed' = [nchildren_completed EXCEPT ![b] = @ + 1]
        <3>1. a > 0
            BY <1>7, <1>20
        <3> QED
            BY <1>15, <2>2, <3>1 DEF SetStageCompleted
    <2>4. /\ nchildren_completed'[b] = 1
          /\ \A s \in StagesOf(flowIx) \ {b} : nchildren_completed'[s] = nchildren_completed[s]
        BY <1>7, <1>13, <2>1, <2>3 DEF StageUntouched, TypeInv, TypeOK
    <2>5. \A s \in StagesOf(flowIx) : s < a => NChildren(flowIx, s) = 1
        <3>1. \A s \in StagesOf(flowIx) : s < a => s + 1 \in StagesOf(flowIx)
            <4>1. StagesOf(flowIx) = 0 .. Flows[flowIx].nstages - 1
                    /\ Flows[flowIx].nstages \in Nat
                BY <1>1, FlowFacts
            <4> QED
                BY <4>1
        <3> QED
            BY <1>1, <3>1, LinearChildren
    <2>6. npartitions_completed'[b] = 0
        BY <1>6, <1>7, <1>13, <2>1 DEF StageUntouched
    <2>7. \A s \in StagesOf(flowIx) : s < b => StageUntouched(s)'
        <3> SUFFICES ASSUME NEW s \in StagesOf(flowIx), s < b PROVE StageUntouched(s)'
            OBVIOUS
        <3>1. s < a /\ s # a /\ s # b
            BY <1>7, <2>1
        <3> QED
            BY <1>6, <1>13, <2>4, <3>1 DEF StageUntouched
    <2>8. pending' = {b}
        <3>1. b \in pending'
            BY <1>7, <1>15, <2>1, <2>4, <2>5, <2>6 DEF Runnable
        <3>2. ASSUME NEW s \in pending', s # b PROVE FALSE
            <4>1. s \in StagesOf(flowIx) /\ nchildren_completed'[s] = NChildren(flowIx, s)
                    /\ npartitions_completed'[s] = 0
                BY <1>15, <3>2 DEF Runnable
            <4>2. s < b
                BY <1>7, <1>16, <2>1, <3>2, <4>1
            <4> QED
                BY <1>7, <2>1, <2>5, <2>7, <4>1, <4>2 DEF StageUntouched
        <3> QED
            BY <3>1, <3>2
    <2>9. pc' = "schedule"
        BY <1>15, <2>8
    <2>10. Counted(b)'
        <3>1. StageOver(a)'
            <4>1. a # b /\ npartitions_completed'[a] # 0
                BY <1>6, <1>7, <2>1
            <4>2. nchildren_completed'[a] = NChildren(flowIx, a)
                BY <1>14, <2>4, <4>1
            <4> QED
                BY <1>1, <1>6, <1>8, <4>1, <4>2 DEF StageOver
        <3>2. \A s \in StagesOf(flowIx) : s > a => StageOver(s)'
            BY <1>1, <1>6, <1>7, <1>12, <2>1, <2>4 DEF StageOver
        <3>3. \A s \in StagesOf(flowIx) : s > b => s = a \/ s > a
            BY <1>7, <2>1
        <3>4. nchildren_completed'[b] = NChildren(flowIx, b)
            BY <1>7, <2>1, <2>4, <2>5
        <3> QED
            BY <1>1, <2>7, <3>1, <3>2, <3>3, <3>4 DEF Counted
    <2>11. \A k \in written : k \in FlowTasks(flowIx) /\ k.stage >= a /\ k.stage # b
        <3> SUFFICES ASSUME NEW k \in written
                     PROVE  k \in FlowTasks(flowIx) /\ k.stage >= a /\ k.stage # b
            OBVIOUS
        <3>1. k \in FlowTasks(flowIx) /\ k.stage >= a
            BY <1>2 DEF ActiveStage, Delivered
        <3>2. k.stage \in Nat
            BY <1>7, <3>1, FlowTaskShape
        <3> QED
            BY <1>7, <2>1, <3>1, <3>2
    <2>12. Delivered(b)'
        <3>1. WrittenParts(b)' = {}
            BY <1>1, <2>11, TaskShape DEF WrittenParts
        <3>2. Cardinality(WrittenParts(b))' = 0
            BY <3>1, FS_EmptySet
        <3>3. \A k \in written : k.stage >= b
            <4> SUFFICES ASSUME NEW k \in written PROVE k.stage >= b
                OBVIOUS
            <4>1. k.stage \in Nat /\ k.stage >= a
                BY <1>7, <2>11, FlowTaskShape
            <4> QED
                BY <1>7, <2>1, <4>1
        <3> QED
            <4>1. \A i \in 1 .. Len(t2s') : t2s'[i] \in StageTasks(flowIx, b)
                BY <1>8
            <4>2. npartitions_completed'[b] + Len(t2s') = Cardinality(WrittenParts(b)')
                BY <1>8, <2>6, <3>2
            <4>3. \A k \in written : k \in FlowTasks(flowIx) /\ k.stage >= b
                BY <2>11, <3>3
            <4> QED
                BY <1>1, <4>1, <4>2, <4>3 DEF Delivered
    <2>13. \A t \in Threads : HeldInStage(t, b)'
        BY <1>11 DEF Quiet, HeldInStage
    <2>14. SentSoFar(b)'
        BY <1>1, <1>11, <2>8, <2>11 DEF SentSoFar, Quiet
    <2>15. FlowInv'
        BY <1>1, <2>1, <2>9, <2>10, <2>12, <2>13, <2>14 DEF FlowInv, Over, ActiveStage
    <2>16. OutDirInv'
        BY <1>1, <2>9 DEF LinearInv, OutDirInv
    <2> QED
        BY <1>11, <1>17, <2>9, <2>15, <2>16 DEF LinearInv
<1> QED
    BY <1>19, <1>20

LEMMA RecvStep ==
    ASSUME LinearJob, LinearInv, TypeInv, RecvTaskCompleted
    PROVE  LinearInv'
<1>1. flowIx > 0 /\ t2s # << >>
    BY DEF RecvTaskCompleted, TypeInv, FlowIxOK
<1>2. PICK a \in StagesOf(flowIx) : ActiveStage(a)
    BY <1>1 DEF LinearInv, FlowInv
<1>3. Head(t2s) \in StageTasks(flowIx, a)
    <2>1. Len(t2s) \in Nat \ {0} /\ Head(t2s) = t2s[1]
        BY <1>1, EmptySeq DEF TypeInv, TypeOK
    <2> QED
        BY <1>2, <2>1 DEF ActiveStage, Delivered
<1>4. Head(t2s).stage \in StagesOf(flowIx)
    BY <1>3, TaskShape
<1>5. ~NoSuchStage(Head(t2s).stage)
    BY <1>4 DEF NoSuchStage
<1> QED
    BY <1>5, PartitionCompletedStep, StageCompletedStep DEF RecvTaskCompleted

LEMMA EndAllThreadsStep ==
    ASSUME LinearInv, TypeInv, EndAllThreads
    PROVE  LinearInv'
<1>1. pc = "end" /\ Over
    BY DEF EndAllThreads, Over
<1>2. CASE pc' = "error" /\ UNCHANGED s2t
    <2>1. UNCHANGED <<flowIx, nchildren_completed, npartitions_completed, s2t, t2s, status,
                      running, out, written, outDir>>
        BY <1>2 DEF EndAllThreads
    <2> QED
        BY <1>1, <1>2, <2>1, PcStep DEF Over, Terminals
<1>3. CASE s2t' = [t \in Threads |-> EndBehindQueue(s2t[t])] /\ pc' = "join"
    <2>1. UNCHANGED <<flowIx, nchildren_completed, npartitions_completed, t2s, status,
                      running, out, written, outDir>>
        BY DEF EndAllThreads
    <2>2. \A t \in Threads : Held(t) = {}
        BY <1>1 DEF LinearInv, FlowInv, Quiet
    <2>3. ASSUME NEW t \in Threads
          PROVE  Held(t)' = {} /\ HeldOnce(t)'
        <3>1. \A i \in 1 .. Len(s2t[t]) : s2t[t][i] = EndThreadMsg
            <4> SUFFICES ASSUME NEW i \in 1 .. Len(s2t[t]), s2t[t][i] # EndThreadMsg PROVE FALSE
                OBVIOUS
            <4>1. s2t[t][i].task \in Queued(t)
                BY QueueFacts, MessageFacts DEF Queued
            <4> QED
                BY <2>2, <4>1 DEF Held
        <3>2. s2t'[t] = Append(s2t[t], EndThreadMsg) /\ s2t[t] \in Seq(Messages)
            BY <1>3, QueueFacts DEF EndBehindQueue
        <3>3. \A i \in 1 .. Len(s2t'[t]) : s2t'[t][i] = EndThreadMsg
            BY <3>1, <3>2, MessageFacts
        <3>4. Queued(t)' = {}
            BY <3>3, MessageFacts DEF Queued
        <3> QED
            BY <2>1, <2>2, <3>3, <3>4 DEF Held, HeldOnce
    <2>4. Quiet'
        BY <1>1, <2>1, <2>3 DEF LinearInv, FlowInv, Quiet
    <2>5. ASSUME NEW a \in StagesOf(flowIx), ActiveStage(a) PROVE ActiveStage(a)'
        <3>1. \A t \in Threads : HeldInStage(t, a)'
            BY <2>3 DEF HeldInStage
        <3>2. Counted(a)' /\ Delivered(a)'
            BY <2>1, <2>5, CountedFrame, DeliveredFrame DEF ActiveStage
        <3> QED
            BY <1>3, <3>1, <3>2 DEF ActiveStage
    <2>6. FlowInv'
        BY <1>1, <2>1, <2>4, <2>5 DEF LinearInv, FlowInv
    <2>7. ThreadInv' /\ OutDirInv'
        BY <1>3, <2>1 DEF LinearInv, ThreadInv, OutDirInv
    <2> QED
        BY <1>3, <2>3, <2>6, <2>7 DEF LinearInv
<1> QED
    BY <1>2, <1>3 DEF EndAllThreads

-----------------------------------------------------------------------------
(* The workers. *)

\* A thread that holds a task holds one of the active stage, in mid-flow.
LEMMA HeldIsActive ==
    ASSUME LinearInv, TypeInv, NEW t \in Threads, NEW k \in Held(t)
    PROVE  /\ flowIx > 0 /\ ~Over
           /\ \E a \in StagesOf(flowIx) : ActiveStage(a) /\ k \in StageTasks(flowIx, a)
<1>1. ~Quiet
    BY DEF Quiet
<1>2. flowIx > 0 /\ ~Over
    BY <1>1, FlowsAssumption DEF LinearInv, FlowInv, TypeInv, TypeOK
<1> QED
    BY <1>2 DEF LinearInv, FlowInv, ActiveStage, HeldInStage

\* A task is with one thread only.
LEMMA OneThread ==
    ASSUME NEW a, NEW t \in Threads, NEW u \in Threads, NEW k \in Held(t),
           HeldInStage(t, a), HeldInStage(u, a), t # u
    PROVE  k \notin Held(u)
BY DEF HeldInStage

LEMMA TakeTaskStep ==
    ASSUME LinearInv, TypeInv, NEW t \in Threads, TakeTask(t)
    PROVE  LinearInv'
<1>1. PICK k \in Queued(t) : running'[t] = {k}
    BY TakeEffect DEF LinearInv
<1>2. /\ UNCHANGED <<pc, flowIx, nchildren_completed, npartitions_completed, pending,
                      nextPart, t2s, status, written>>
      /\ \A u \in Threads \ {t} :
            s2t'[u] = s2t[u] /\ running'[u] = running[u] /\ out'[u] = out[u]
      /\ out'[t] = "unopened"
      /\ k.stage = 0 => outDir'
      /\ outDir => outDir'
    <2>1. running'[t] = {Head(s2t[t]).task}
        BY DEF TakeTask, TypeInv, TypeOK
    <2>2. Head(s2t[t]).task = k
        BY <1>1, <2>1
    <2> QED
        BY <2>2 DEF TakeTask, TypeInv, TypeOK
<1>3. \A u \in Threads : Held(u)' \subseteq Held(u) /\ HeldOnce(u)'
    <2>1. Held(t)' \subseteq Held(t) /\ HeldOnce(t)'
        BY TakeEffect DEF LinearInv
    <2>2. ASSUME NEW u \in Threads \ {t} PROVE Held(u)' = Held(u) /\ HeldOnce(u)'
        BY <1>2 DEF LinearInv, Held, Queued, HeldOnce
    <2> QED
        BY <2>1, <2>2
<1>4. flowIx > 0 /\ ~Over
    BY <1>1, HeldIsActive DEF Held
<1>5. PICK a \in StagesOf(flowIx) : ActiveStage(a)
    BY <1>4 DEF LinearInv, FlowInv
<1>6. ActiveStage(a)'
    <2>1. \A u \in Threads : HeldInStage(u, a)'
        BY <1>2, <1>3, <1>5 DEF ActiveStage, HeldInStage
    <2>2. pc' = "schedule" => SentSoFar(a)'
        BY <1>2, <1>3, <1>5 DEF ActiveStage, SentSoFar
    <2> QED
        BY <1>2, <1>5, <2>1, <2>2, CountedFrame, DeliveredFrame DEF ActiveStage
<1>7. FlowInv'
    BY <1>2, <1>4, <1>5, <1>6 DEF FlowInv, Over
<1>8. ThreadInv'
    <2>1. \A u \in Threads : (\E i \in 1 .. Len(s2t'[u]) : s2t'[u][i] = EndThreadMsg)
                => (\E i \in 1 .. Len(s2t[u]) : s2t[u][i] = EndThreadMsg)
        BY <1>2, TakeEffect DEF LinearInv
    <2> QED
        BY <1>2, <2>1 DEF LinearInv, ThreadInv
<1>9. OutDirInv'
    BY <1>1, <1>2, <1>4 DEF LinearInv, OutDirInv, Over
<1> QED
    BY <1>2, <1>3, <1>7, <1>8, <1>9 DEF LinearInv

\* Opening an output file truncates nothing that counts.
LEMMA OpenOutputEffect ==
    ASSUME LinearInv, TypeInv, NEW t \in Threads, OpenOutput(t)
    PROVE  written' = written
<1>1. PICK k \in running[t] : written' = written \ Overwritten(k)
    BY DEF OpenOutput
<1>2. k \in Held(t)
    BY <1>1 DEF Held
<1>3. PICK a \in StagesOf(flowIx) : ActiveStage(a)
    BY <1>2, HeldIsActive
<1>4. k \in StageTasks(flowIx, a) /\ k \notin written
    BY <1>2, <1>3 DEF ActiveStage, HeldInStage
<1>5. Overwritten(k) = {}
    BY <1>3, <1>4, NothingOverwritten DEF ActiveStage, Delivered
<1> QED
    BY <1>1, <1>5

LEMMA OpenOutputStep ==
    ASSUME LinearInv, TypeInv, NEW t \in Threads, OpenOutput(t)
    PROVE  LinearInv'
<1>1. /\ UNCHANGED <<pc, flowIx, nchildren_completed, npartitions_completed, pending,
                      nextPart, s2t, t2s, status, running, outDir, written>>
      /\ \A u \in Threads : out'[u] = out[u] \/ out'[u] = "open"
    BY OpenOutputEffect DEF OpenOutput, TypeInv, TypeOK
<1>2. \A u \in Threads : Held(u)' = Held(u) /\ HeldOnce(u)'
    BY <1>1, HeldFrame DEF LinearInv
<1>3. \A a \in StagesOf(flowIx) : ActiveStage(a) => ActiveStage(a)'
    <2> SUFFICES ASSUME NEW a \in StagesOf(flowIx), ActiveStage(a) PROVE ActiveStage(a)'
        OBVIOUS
    <2>1. pc' = "schedule" => SentSoFar(a)'
        BY <1>1, <1>2 DEF ActiveStage, SentSoFar
    <2> QED
        BY <1>1, <2>1, HeldInStageFrame, CountedFrame, DeliveredFrame DEF ActiveStage
<1>4. FlowInv'
    BY <1>1, <1>3, QuietFrame DEF LinearInv, FlowInv, Over
<1>5. ThreadInv' /\ OutDirInv'
    BY <1>1 DEF LinearInv, ThreadInv, OutDirInv
<1> QED
    BY <1>1, <1>2, <1>4, <1>5 DEF LinearInv

\* What a worker's end of a task changes, in terms of the active stage.
LEMMA FinishTaskEffect ==
    ASSUME LinearInv, TypeInv, NEW t \in Threads, FinishTask(t)
    PROVE  \E k \in running[t] :
                /\ running[t] = {k}
                /\ written' = written \union {k}
                /\ t2s' = Append(t2s, k)
                /\ running' = [running EXCEPT ![t] = {}]
                /\ k \notin written
<1>1. PICK k \in running[t] :
            /\ written' = written \union {l \in {k} : OutputIsWhole(t, l)}
            /\ t2s' = Append(t2s, k)
    BY DEF FinishTask
<1>2. out[t] # "lost" /\ running[t] = {k}
    BY <1>1 DEF LinearInv, ThreadInv, HeldOnce
<1>3. k \in Held(t)
    BY <1>1 DEF Held
<1>4. PICK a \in StagesOf(flowIx) : ActiveStage(a)
    BY <1>3, HeldIsActive
<1>5. k \in StageTasks(flowIx, a) /\ k \notin written
    BY <1>3, <1>4 DEF ActiveStage, HeldInStage
<1>6. Overwritten(k) = {}
    BY <1>4, <1>5, NothingOverwritten DEF ActiveStage, Delivered
<1>7. ASSUME NEW u \in Threads \ {t}, NEW l \in running[u] PROVE Path(l) # Path(k)
    <2>1. ThreadFor(l.part) = u /\ ThreadFor(k.part) = t
        BY <1>3, <1>4, <1>7 DEF ActiveStage, HeldInStage, Held
    <2> QED
        BY <2>1 DEF Path
<1>8. OutputIsWhole(t, k)
    BY <1>2, <1>6, <1>7 DEF OutputIsWhole
<1> QED
    BY <1>1, <1>2, <1>5, <1>8 DEF FinishTask

LEMMA FinishTaskStep ==
    ASSUME LinearInv, TypeInv, NEW t \in Threads, FinishTask(t)
    PROVE  LinearInv'
<1>1. PICK k \in running[t] :
            /\ running[t] = {k}
            /\ written' = written \union {k}
            /\ t2s' = Append(t2s, k)
            /\ running' = [running EXCEPT ![t] = {}]
            /\ k \notin written
    BY FinishTaskEffect
<1>2. UNCHANGED <<pc, flowIx, nchildren_completed, npartitions_completed, pending, nextPart,
                  s2t, status, out, outDir>>
    BY DEF FinishTask
<1>3. running'[t] = {} /\ \A u \in Threads \ {t} : running'[u] = running[u]
    BY <1>1 DEF TypeInv, TypeOK
<1>4. k \in Held(t)
    BY <1>1 DEF Held
<1>5. flowIx > 0 /\ ~Over
    BY <1>4, HeldIsActive
<1>6. PICK a \in StagesOf(flowIx) : ActiveStage(a) /\ k \in StageTasks(flowIx, a)
    BY <1>4, HeldIsActive
<1>7. \A u \in Threads : Held(u)' \subseteq Held(u) /\ k \notin Held(u)'
    <2>1. \A u \in Threads : Queued(u)' = Queued(u)
        BY <1>2 DEF Queued
    <2>2. Held(t)' \subseteq Held(t) /\ k \notin Held(t)'
        BY <1>1, <1>3, <2>1 DEF Held, LinearInv, HeldOnce
    <2>3. ASSUME NEW u \in Threads \ {t} PROVE Held(u)' = Held(u) /\ k \notin Held(u)
        BY <1>3, <1>4, <1>6, <2>1, OneThread DEF Held, ActiveStage
    <2> QED
        BY <2>2, <2>3
<1>8. \A u \in Threads : HeldOnce(u)'
    <2>1. \A u \in Threads : Queued(u)' = Queued(u) /\ running'[u] \subseteq running[u]
        BY <1>2, <1>3 DEF Queued
    <2> QED
        BY <1>2, <2>1 DEF LinearInv, HeldOnce
<1>9. \A u \in Threads : HeldInStage(u, a)'
    <2> SUFFICES ASSUME NEW u \in Threads, NEW l \in Held(u)'
                 PROVE  l \in StageTasks(flowIx, a) /\ ThreadFor(l.part) = u /\ l \notin written'
        BY <1>2 DEF HeldInStage
    <2>1. l \in StageTasks(flowIx, a) /\ ThreadFor(l.part) = u /\ l \notin written
        BY <1>6, <1>7 DEF ActiveStage, HeldInStage
    <2> QED
        BY <1>1, <1>7, <2>1
<1>10. Counted(a)'
    BY <1>1, <1>2, <1>6, CountedFrame DEF ActiveStage
<1>11. Delivered(a)'
    <2>1. k \in FlowTasks(flowIx) /\ k.stage = a
        BY <1>6, TaskShape, StageTasksInJob DEF TypeInv, TypeOK
    <2>2. a >= a
        BY FlowFacts, FlowsAssumption DEF TypeInv, TypeOK, StagesOf
    <2>3. \A l \in written' : l \in FlowTasks(flowIx) /\ l.stage >= a
        BY <1>1, <1>6, <2>1, <2>2 DEF ActiveStage, Delivered
    <2>4. /\ Len(t2s) \in Nat /\ Len(t2s') = Len(t2s) + 1
          /\ \A i \in 1 .. Len(t2s) : t2s'[i] = t2s[i]
          /\ t2s'[Len(t2s) + 1] = k
        BY <1>1 DEF TypeInv, TypeOK
    <2>5. \A i \in 1 .. Len(t2s') : t2s'[i] \in StageTasks(flowIx, a)
        BY <1>6, <2>4 DEF ActiveStage, Delivered
    <2>6. Cardinality(WrittenParts(a))' = Cardinality(WrittenParts(a)) + 1
        BY <1>1, <1>2, <1>6, WrittenPartsGrow
    <2>7. npartitions_completed[a] \in Nat
        BY DEF TypeInv, TypeOK
    <2>8. npartitions_completed'[a] + Len(t2s') = Cardinality(WrittenParts(a))'
        BY <1>2, <1>6, <2>4, <2>6, <2>7 DEF ActiveStage, Delivered
    <2> QED
        BY <1>2, <2>3, <2>5, <2>8 DEF Delivered
<1>12. pc' = "schedule" => SentSoFar(a)'
    <2>1. pc = "schedule" => k.part < nextPart
        BY <1>4, <1>6 DEF ActiveStage, SentSoFar
    <2> QED
        BY <1>1, <1>2, <1>6, <1>7, <2>1 DEF ActiveStage, SentSoFar
<1>13. FlowInv'
    BY <1>2, <1>5, <1>6, <1>9, <1>10, <1>11, <1>12 DEF FlowInv, ActiveStage, Over
<1>14. ThreadInv'
    BY <1>2, <1>3 DEF LinearInv, ThreadInv
<1>15. OutDirInv'
    BY <1>1, <1>2, <1>3 DEF LinearInv, OutDirInv
<1> QED
    BY <1>2, <1>8, <1>13, <1>14, <1>15 DEF LinearInv

\* A worker dies, or ends: its queue goes, what it executes stays with it.
LEMMA ThreadGoneStep ==
    ASSUME LinearInv, TypeInv, NEW t \in Threads, FailTask(t) \/ EndThread(t)
    PROVE  LinearInv'
<1>1. /\ UNCHANGED <<pc, flowIx, nchildren_completed, npartitions_completed, pending,
                      nextPart, t2s, running, out, written, outDir>>
      /\ s2t'[t] = << >> /\ \A u \in Threads \ {t} : s2t'[u] = s2t[u] /\ status'[u] = status[u]
    BY DEF FailTask, EndThread, TypeInv, TypeOK
<1>2. \/ status'[t] = "panicked" /\ t \in FaultyThreads
      \/ status'[t] = "ended" /\ pc \in {"join"} \union Terminals
    <2>1. CASE FailTask(t)
        <3>1. status' = [status EXCEPT ![t] = "panicked"] /\ t \in FaultyThreads
            BY <2>1 DEF FailTask
        <3>2. status \in [Threads -> {"up", "ended", "panicked"}]
            BY DEF TypeInv, TypeOK
        <3>3. status'[t] = "panicked"
            BY <3>1, <3>2
        <3> QED
            BY <3>1, <3>3
    <2>2. CASE EndThread(t)
        <3>1. status'[t] = "ended" /\ s2t[t] # << >> /\ Head(s2t[t]) = EndThreadMsg
            BY <2>2 DEF EndThread, Idle, TypeInv, TypeOK
        <3>2. 1 \in 1 .. Len(s2t[t]) /\ s2t[t][1] = EndThreadMsg
            BY <3>1, QueueFacts, EmptySeq
        <3> QED
            BY <3>1, <3>2 DEF LinearInv, ThreadInv
    <2> QED
        BY <2>1, <2>2
<1>3. \A u \in Threads : Held(u)' \subseteq Held(u) /\ HeldOnce(u)'
    <2>1. Queued(t)' = {}
        BY <1>1 DEF Queued
    <2>2. Held(t)' \subseteq Held(t) /\ HeldOnce(t)'
        BY <1>1, <2>1 DEF Held, LinearInv, HeldOnce
    <2>3. ASSUME NEW u \in Threads \ {t} PROVE Held(u)' = Held(u) /\ HeldOnce(u)'
        BY <1>1 DEF LinearInv, Held, Queued, HeldOnce
    <2> QED
        BY <2>2, <2>3
<1>4. \A a \in StagesOf(flowIx) : ActiveStage(a) => ActiveStage(a)'
    <2> SUFFICES ASSUME NEW a \in StagesOf(flowIx), ActiveStage(a) PROVE ActiveStage(a)'
        OBVIOUS
    <2>1. \A u \in Threads : HeldInStage(u, a)'
        BY <1>1, <1>3 DEF ActiveStage, HeldInStage
    <2>2. pc' = "schedule" => SentSoFar(a)'
        BY <1>1, <1>3 DEF ActiveStage, SentSoFar
    <2> QED
        BY <1>1, <2>1, <2>2, CountedFrame, DeliveredFrame DEF ActiveStage
<1>5. Quiet => Quiet'
    BY <1>1, <1>3 DEF Quiet
<1>6. FlowInv'
    BY <1>1, <1>4, <1>5 DEF LinearInv, FlowInv, Over
<1>7. ThreadInv'
    BY <1>1, <1>2 DEF LinearInv, ThreadInv
<1>8. OutDirInv'
    BY <1>1 DEF LinearInv, OutDirInv
<1> QED
    BY <1>1, <1>3, <1>6, <1>7, <1>8 DEF LinearInv

-----------------------------------------------------------------------------
(* The invariant. *)

LEMMA LinearInit == TypeInv /\ Init => LinearInv
<1> SUFFICES ASSUME TypeInv, Init PROVE LinearInv
    OBVIOUS
<1>1. /\ pc \in {"start", "end"} /\ flowIx = 0 /\ written = {} /\ t2s = << >>
      /\ \A t \in Threads : s2t[t] = << >> /\ running[t] = {} /\ status[t] = "up"
    BY DEF Init, AfterFlow
<1>2. \A t \in Threads : Held(t) = {} /\ HeldOnce(t)
    BY <1>1 DEF Held, Queued, HeldOnce
<1>3. FlowInv
    BY <1>1, <1>2 DEF FlowInv, Quiet, FlowTasks, StagesOf
<1>4. ThreadInv /\ OutDirInv
    BY <1>1 DEF ThreadInv, OutDirInv
<1> QED
    BY <1>1, <1>2, <1>3, <1>4 DEF LinearInv

LEMMA LinearNext ==
    ASSUME LinearJob, ThreadLeft, LinearInv, TypeInv, [Next]_vars
    PROVE  LinearInv'
<1>1. CASE StartFlow
    BY <1>1, StartFlowStep
<1>2. ASSUME NEW s \in StagesOf(flowIx), SendTask(s) PROVE LinearInv'
    BY <1>2, SendTaskStep
<1>3. ASSUME NEW s \in StagesOf(flowIx), SendFails(s) PROVE LinearInv'
    BY <1>3, PcStep DEF SendFails, Over, Terminals
<1>4. ASSUME NEW s \in StagesOf(flowIx), StageScheduled(s) PROVE LinearInv'
    BY <1>4, StageScheduledStep
<1>5. CASE RecvTaskCompleted
    BY <1>5, RecvStep
<1>6. CASE ChannelClosed
    BY <1>6, NotClosed
<1>7. CASE Display
    <2>1. pc = "display" /\ pc' \in {"start", "end", "panicked"}
        BY <1>7 DEF Display, AfterFlow
    <2> QED
        BY <1>7, <2>1, PcStep DEF Display, Over, Terminals
<1>8. CASE EndAllThreads
    BY <1>8, EndAllThreadsStep
<1>9. CASE Join
    <2>1. pc = "join" /\ pc' \in {"done", "error"}
        BY <1>9 DEF Join
    <2> QED
        BY <1>9, <2>1, PcStep DEF Join, Over, Terminals
<1>10. ASSUME NEW t \in Threads, Worker(t) PROVE LinearInv'
    BY <1>10, TakeTaskStep, OpenOutputStep, FinishTaskStep, ThreadGoneStep DEF Worker
<1>11. CASE Terminated \/ UNCHANGED vars
    BY <1>11, StutterStep DEF Terminated
<1> QED
    BY <1>1, <1>2, <1>3, <1>4, <1>5, <1>6, <1>7, <1>8, <1>9, <1>10, <1>11 DEF Next, Main

\* On linear stage graphs the invariant of SchedulerInv holds, whatever the
\* number of threads, partitions and flows.
THEOREM LinearCorrect ==
    ASSUME LinearJob, SomeThreadSurvives
    PROVE  Spec => [](TypeInv /\ LinearInv)
<1>1. Init => TypeInv /\ LinearInv
    BY InitTypeInv, LinearInit
<1>2. TypeInv /\ LinearInv /\ [Next]_vars => (TypeInv /\ LinearInv)'
    BY NextTypeInv, LinearNext, SurvivorIsLeft
<1> QED
    BY <1>1, <1>2, PTL DEF Spec

\* Should all of them die, it holds until the last one does.
LEMMA LinearWhileThreadLeft ==
    ASSUME LinearJob
    PROVE  Spec => [](TypeInv /\ (ThreadLeft => LinearInv))
<1>1. Init => TypeInv /\ LinearInv
    BY InitTypeInv, LinearInit
<1>2. TypeInv /\ (ThreadLeft => LinearInv) /\ [Next]_vars => (TypeInv /\ (ThreadLeft => LinearInv))'
    BY NextTypeInv, LinearNext, ThreadLeftBefore
<1> QED
    BY <1>1, <1>2, PTL DEF Spec

-----------------------------------------------------------------------------
(* What it is for. *)

LEMMA InputsComplete ==
    ASSUME LinearJob, TypeInv, LinearInv, NEW t \in Threads, NEW k \in Held(t)
    PROVE  Inputs(k) \subseteq written
<1>1. PICK a \in StagesOf(flowIx) : ActiveStage(a) /\ k \in StageTasks(flowIx, a)
    BY HeldIsActive
<1>2. flowIx \in 1 .. Len(Flows)
    BY <1>1, WrittenPartsFacts
<1>3. k.flow = flowIx /\ k.stage = a
    BY <1>1, TaskShape
<1>4. ASSUME NEW c \in ChildrenOf(flowIx, a) PROVE StageTasks(flowIx, c) \subseteq written
    <2>1. c \in StagesOf(flowIx) /\ c = a + 1
        BY <1>2, LinearChildren DEF ChildrenOf
    <2>2. c > a
        BY <1>2, <2>1, FlowFacts
    <2> QED
        BY <1>1, <2>1, <2>2 DEF ActiveStage, Counted, StageOver
<1> QED
    BY <1>3, <1>4 DEF Inputs

LEMMA CountsReal ==
    ASSUME TypeInv, LinearInv, \A s \in StagesOf(flowIx) : Flows[flowIx].npartitions[s] # 0
    PROVE  CompletionIsReal
<1> SUFFICES ASSUME NEW s \in StagesOf(flowIx),
                    npartitions_completed[s] >= Flows[flowIx].npartitions[s]
             PROVE  StageTasks(flowIx, s) \subseteq written
    BY DEF CompletionIsReal
<1>1. flowIx \in 1 .. Len(Flows) /\ flowIx > 0 /\ Flows[flowIx].npartitions[s] \in Nat
    BY WrittenPartsFacts
<1>2. PICK a \in StagesOf(flowIx) : ActiveStage(a)
    BY <1>1 DEF LinearInv, FlowInv
<1>3. s \in Nat /\ a \in Nat
    BY <1>1, FlowFacts
<1>4. CASE s > a
    BY <1>2, <1>4 DEF ActiveStage, Counted, StageOver
<1>5. CASE s < a
    BY <1>1, <1>2, <1>5 DEF ActiveStage, Counted, StageUntouched
<1>6. CASE s = a
    <2>1. npartitions_completed[s] + Len(t2s) = Cardinality(WrittenParts(s))
        BY <1>2, <1>6 DEF ActiveStage, Delivered
    <2>2. npartitions_completed[s] \in Nat /\ Len(t2s) \in Nat
        BY DEF TypeInv, TypeOK
    <2>3. Cardinality(WrittenParts(s)) = Flows[flowIx].npartitions[s]
        BY <1>1, <2>1, <2>2, WrittenPartsFacts
    <2> QED
        BY <2>3, WrittenPartsFacts
<1> QED
    BY <1>3, <1>4, <1>5, <1>6

\* A task never reads the files of a task that has still to write them.
THEOREM ReadsCompleteInput ==
    ASSUME LinearJob, SomeThreadSurvives
    PROVE  Spec => []ConsumerSeesCompleteInput
<1>1. TypeInv /\ LinearInv => ConsumerSeesCompleteInput
    BY InputsComplete DEF ConsumerSeesCompleteInput, Held
<1> QED
    BY <1>1, LinearCorrect, PTL

\* When run_flow takes a stage to be complete, all its partitions are on disk.
THEOREM CountsAreReal ==
    ASSUME LinearJob, SomeThreadSurvives,
           \A f \in 1 .. Len(Flows) : \A s \in StagesOf(f) : Flows[f].npartitions[s] # 0
    PROVE  Spec => []CompletionIsReal
<1>1. TypeInv /\ LinearInv => CompletionIsReal
    <2> SUFFICES ASSUME TypeInv, LinearInv PROVE CompletionIsReal
        OBVIOUS
    <2>1. \A s \in StagesOf(flowIx) : Flows[flowIx].npartitions[s] # 0
        BY WrittenPartsFacts
    <2> QED
        BY <2>1, CountsReal
<1> QED
    BY <1>1, LinearCorrect, PTL

\* When run_flow returns the whole flow is done and its result can be listed.
THEOREM FlowsComplete ==
    ASSUME LinearJob, SomeThreadSurvives
    PROVE  Spec => []FlowComplete
<1>1. LinearInv => FlowComplete
    BY DEF LinearInv, FlowInv, OutDirInv, Over, FlowComplete
<1> QED
    BY <1>1, LinearCorrect, PTL

\* Tasks may fail on every thread.  Whatever the job, linear or of one partition per stage,
\* run_flow returns from a flow that is not complete only when all threads are dead: one that
\* is left makes it wait for messages nobody will send, or the next send fail.
THEOREM IncompleteFlowsHaveNoThread ==
    ASSUME LinearJob \/ SerialJob
    PROVE  Spec => []IncompleteOnlyWithoutThreads
<1>1. ThreadLeft <=> ~\A t \in Threads : status[t] = "panicked"
    BY DEF ThreadLeft
<1>2. CASE LinearJob
    <2>1. (ThreadLeft => LinearInv) => IncompleteOnlyWithoutThreads
        BY <1>1 DEF LinearInv, FlowInv, OutDirInv, Over, IncompleteOnlyWithoutThreads
    <2> QED
        BY <1>2, <2>1, LinearWhileThreadLeft, PTL
<1>3. CASE SerialJob
    <2>1. TypeInv /\ SerialInv => IncompleteOnlyWithoutThreads
        <3> SUFFICES ASSUME TypeInv, SerialInv, ThreadLeft, pc = "display"
                     PROVE  FlowComplete
            BY <1>1 DEF IncompleteOnlyWithoutThreads, FlowComplete
        <3>1. flowIx > 0
            BY DEF TypeInv, FlowIxOK
        <3> QED
            BY <1>3, <3>1, SerialReads DEF SerialInv
    <2> QED
        BY <1>3, <2>1, SerialCorrect, PTL
<1> QED
    BY <1>2, <1>3

\* No thread, queue or message of a flow outlives it.
THEOREM NothingIsLeft ==
    ASSUME LinearJob, SomeThreadSurvives
    PROVE  Spec => []NothingLeftBehind
<1>1. TypeInv /\ LinearInv => NothingLeftBehind
    <2> SUFFICES ASSUME TypeInv, LinearInv, pc \in {"display", "start", "end"}
                 PROVE  /\ t2s = << >>
                        /\ \A t \in Threads : running[t] = {} /\ s2t[t] = << >>
        BY DEF NothingLeftBehind
    <2>1. Quiet
        BY DEF LinearInv, FlowInv, Over
    <2>2. ASSUME NEW t \in Threads, s2t[t] # << >> PROVE FALSE
        <3>1. 1 \in 1 .. Len(s2t[t]) /\ s2t[t][1] \in Messages
            BY <2>2, QueueFacts, EmptySeq
        <3>2. s2t[t][1] # EndThreadMsg
            BY <3>1 DEF LinearInv, ThreadInv, Terminals
        <3>3. s2t[t][1].task \in Queued(t)
            BY <3>1, <3>2, MessageFacts DEF Queued
        <3> QED
            BY <2>1, <3>3 DEF Quiet, Held
    <2> QED
        BY <2>1, <2>2 DEF Quiet, Held
<1> QED
    BY <1>1, LinearCorrect, PTL

-----------------------------------------------------------------------------
(* The scheduler implements Dataflow: a thread that takes a task begins    *)
(* it, one that finishes it ends it, and run_flow that goes to the next    *)
(* query begins its flow.  Everything else, the channels, the counters and *)
(* the failures, Dataflow does not see.                                    *)

\* The value of TheDataflow's `started'.
Begun == written \union UNION {running[t] : t \in Threads}

\* What the instance says of stages and tasks is what StageGraph says.
LEMMA SameTasks ==
    /\ \A f : TheDataflow!FlowTasks(f) = FlowTasks(f)
    /\ \A k : TheDataflow!Inputs(k) = Inputs(k)
BY DEF TheDataflow!FlowTasks, TheDataflow!StageTasks, TheDataflow!StagesOf, TheDataflow!Task,
       TheDataflow!Inputs, TheDataflow!ChildrenOf,
       FlowTasks, StageTasks, StagesOf, Task, Inputs, ChildrenOf

LEMMA InitRefines == Init => TheDataflow!DataflowInit
BY DEF Init, TheDataflow!DataflowInit

\* A step that leaves the tasks alone, or those of threads that hold none.
LEMMA Invisible ==
    ASSUME UNCHANGED <<flowIx, written, running>>
    PROVE  UNCHANGED TheDataflow!dataflowVars
BY DEF TheDataflow!dataflowVars

LEMMA StartRefines ==
    ASSUME TypeInv, LinearInv, StartFlow
    PROVE  TheDataflow!BeginFlow
<1>1. flowIx' = flowIx + 1 /\ written' = {} /\ running' = running /\ flowIx < Len(Flows)
    BY DEF StartFlow, TypeInv, FlowIxOK
<1>2. Quiet /\ FlowTasks(flowIx) \subseteq written
    BY DEF StartFlow, LinearInv, FlowInv, Over
<1>3. \A t \in Threads : running[t] = {}
    BY <1>2 DEF Quiet, Held
<1>4. Begun' = {}
    BY <1>1, <1>3 DEF Begun
<1> QED
    BY <1>1, <1>2, <1>4, SameTasks DEF Begun, TheDataflow!BeginFlow

\* The task a thread takes has not started, and what it reads has finished.
LEMMA TakeRefines ==
    ASSUME LinearJob, TypeInv, LinearInv, NEW t \in Threads, TakeTask(t)
    PROVE  \E k \in FlowTasks(flowIx) : TheDataflow!BeginTask(k)
<1>1. PICK k \in Queued(t) : running'[t] = {k}
    BY TakeEffect DEF LinearInv
<1>2. k \in Held(t)
    BY <1>1 DEF Held
<1>3. PICK a \in StagesOf(flowIx) : ActiveStage(a) /\ k \in StageTasks(flowIx, a)
    BY <1>2, HeldIsActive
<1>4. k \notin written
    BY <1>2, <1>3 DEF ActiveStage, HeldInStage
<1>5. \A u \in Threads : k \notin running[u]
    <2>1. k \notin running[t]
        BY <1>1 DEF LinearInv, HeldOnce
    <2>2. ASSUME NEW u \in Threads \ {t} PROVE k \notin running[u]
        BY <1>2, <1>3, OneThread DEF ActiveStage, Held
    <2> QED
        BY <2>1, <2>2
<1>6. /\ running[t] = {} /\ flowIx' = flowIx /\ written' = written
      /\ \A u \in Threads \ {t} : running'[u] = running[u]
    BY DEF TakeTask, Idle, TypeInv, TypeOK
<1>7. Begun' = Begun \union {k}
    <2>1. \A x : (\E u \in Threads : x \in running'[u])
                    <=> (\E u \in Threads : x \in running[u]) \/ x = k
        BY <1>1, <1>6
    <2> QED
        BY <1>6, <2>1 DEF Begun
<1>8. Inputs(k) \subseteq written
    BY <1>2, InputsComplete
<1>9. k \in FlowTasks(flowIx)
    BY <1>3 DEF FlowTasks
<1> QED
    BY <1>4, <1>5, <1>6, <1>7, <1>8, <1>9, SameTasks DEF Begun, TheDataflow!BeginTask

LEMMA FinishRefines ==
    ASSUME TypeInv, LinearInv, NEW t \in Threads, FinishTask(t)
    PROVE  \E k \in FlowTasks(flowIx) : TheDataflow!EndTask(k)
<1>1. PICK k \in running[t] :
            /\ running[t] = {k}
            /\ written' = written \union {k}
            /\ running' = [running EXCEPT ![t] = {}]
            /\ k \notin written
    BY FinishTaskEffect
<1>2. k \in FlowTasks(flowIx)
    BY HeldIsActive DEF Held, FlowTasks
<1>3. flowIx' = flowIx
    BY DEF FinishTask
<1>4. Begun' = Begun
    <2>1. running'[t] = {} /\ \A u \in Threads \ {t} : running'[u] = running[u]
        BY <1>1 DEF TypeInv, TypeOK
    <2> QED
        BY <1>1, <2>1 DEF Begun
<1>5. k \in Begun \ written
    BY <1>1 DEF Begun
<1> QED
    BY <1>1, <1>2, <1>3, <1>4, <1>5 DEF Begun, TheDataflow!EndTask

LEMMA NextRefines ==
    ASSUME LinearJob, TypeInv, LinearInv, [Next]_vars
    PROVE  [TheDataflow!DataflowNext]_(TheDataflow!dataflowVars)
<1>1. CASE StartFlow
    BY <1>1, StartRefines DEF TheDataflow!DataflowNext
<1>2. ASSUME NEW s \in StagesOf(flowIx), SendTask(s) \/ SendFails(s) \/ StageScheduled(s)
      PROVE  UNCHANGED TheDataflow!dataflowVars
    BY <1>2, Invisible DEF SendTask, SendFails, StageScheduled
<1>3. CASE RecvTaskCompleted \/ ChannelClosed \/ Display
    BY <1>3, Invisible DEF RecvTaskCompleted, ChannelClosed, Display
<1>4. CASE EndAllThreads \/ Join
    BY <1>4, Invisible DEF EndAllThreads, Join
<1>5. ASSUME NEW t \in Threads, TakeTask(t) \/ FinishTask(t)
      PROVE  TheDataflow!DataflowNext
    BY <1>5, TakeRefines, FinishRefines, SameTasks DEF TheDataflow!DataflowNext
<1>6. ASSUME NEW t \in Threads, OpenOutput(t) PROVE UNCHANGED TheDataflow!dataflowVars
    BY <1>6, OpenOutputEffect, Invisible DEF OpenOutput
<1>7. ASSUME NEW t \in Threads, FailTask(t) \/ EndThread(t)
      PROVE  UNCHANGED TheDataflow!dataflowVars
    BY <1>7, Invisible DEF FailTask, EndThread
<1>8. CASE Terminated \/ UNCHANGED vars
    BY <1>8, Invisible DEF Terminated, vars
<1> QED
    BY <1>1, <1>2, <1>3, <1>4, <1>5, <1>6, <1>7, <1>8 DEF Next, Main, Worker

\* On linear stage graphs, with tasks that may fail, no run of the scheduler does
\* anything a run of Dataflow does not: flows run one after the other, every
\* task runs once, after all it reads.
THEOREM ImplementsSafety ==
    ASSUME LinearJob, SomeThreadSurvives
    PROVE  Spec => DataflowSafety
<1>1. Init => TheDataflow!DataflowInit
    BY InitRefines
<1>2. TypeInv /\ LinearInv /\ [Next]_vars
        => [TheDataflow!DataflowNext]_(TheDataflow!dataflowVars)
    BY NextRefines
<1> QED
    BY <1>1, <1>2, LinearCorrect, PTL DEF Spec, DataflowSafety, TheDataflow!DataflowSpec
=============================================================================
