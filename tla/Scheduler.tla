------------------------------ MODULE Scheduler ------------------------------
(***************************************************************************)
(* The scheduler of kona: the main thread that runs the flows of a job one *)
(* after the other (main.rs run_job, scheduler.rs run_flow), the worker    *)
(* threads that execute tasks (scheduler.rs Scheduler::new, task.rs        *)
(* Task::run), the channel from the main thread to each worker and the one *)
(* channel the workers share back to it.                                   *)
(*                                                                         *)
(* What a task computes is abstracted to the fact that its output is on    *)
(* disk and complete (`written').  The rest of the state is the code's:    *)
(* two counters per stage (StageContext), the channels (unbounded FIFO     *)
(* queues), and the directory of the flow.                                 *)
(***************************************************************************)
EXTENDS StageGraph

CONSTANTS
    NThreads,       \* size of the pool (12 in main.rs)
    FaultyThreads   \* threads on which a task may fail

Threads == 0 .. NThreads - 1

ASSUME NThreadsAssumption == NThreads \in Nat \ {0}
ASSUME FaultyAssumption == FaultyThreads \subseteq Threads

VARIABLES
    pc,                     \* what the main thread does next
    flowIx,                 \* the flow run_flow runs, 0 before the first
    nchildren_completed,    \* StageContext, per stage of that flow
    npartitions_completed,  \* StageContext, per stage of that flow
    pending,                \* stages schedule_stages has still to send
    nextPart,               \* the next partition Stage::schedule sends
    s2t,                    \* s2t_channels: one queue per thread
    t2s,                    \* t2s_channel: the queue the threads share
    status,                 \* per thread: "up", "ended" or "panicked"
    running,                \* per thread: {} or {the task it executes or died in}
    out,                    \* per thread: the output file of that task
    written,                \* tasks whose output is complete on disk
    outDir                  \* whether the output directory of the flow exists

vars == <<pc, flowIx, nchildren_completed, npartitions_completed, pending, nextPart,
          s2t, t2s, status, running, out, written, outDir>>

ScheduleTask(k) == [kind |-> "ScheduleTask", task |-> k]
EndThreadMsg == [kind |-> "EndThread"]
Messages == {ScheduleTask(k) : k \in Tasks} \union {EndThreadMsg}

\* The process is over: run_job returned, returned Err, or panicked.
Terminals == {"done", "error", "panicked"}

TypeOK ==
    /\ pc \in {"start", "schedule", "recv", "display", "end", "join"} \union Terminals
    /\ flowIx \in 0 .. Len(Flows)
    /\ nchildren_completed \in [StagesOf(flowIx) -> Nat]
    /\ npartitions_completed \in [StagesOf(flowIx) -> Nat]
    /\ pending \subseteq StagesOf(flowIx)
    /\ nextPart \in Nat
    /\ s2t \in [Threads -> Seq(Messages)]
    /\ t2s \in Seq(Tasks)
    /\ status \in [Threads -> {"up", "ended", "panicked"}]
    /\ running \in [Threads -> SUBSET Tasks]
    /\ out \in [Threads -> {"unopened", "open", "lost"}]
    /\ written \subseteq Tasks
    /\ outDir \in BOOLEAN

\* The next query of the job, or the end of run_job.
AfterFlow(f) == IF f < Len(Flows) THEN "start" ELSE "end"

Init ==
    /\ pc = AfterFlow(0)
    /\ flowIx = 0
    /\ nchildren_completed = [s \in StagesOf(0) |-> 0]
    /\ npartitions_completed = [s \in StagesOf(0) |-> 0]
    /\ pending = {}
    /\ nextPart = 0
    /\ s2t = [t \in Threads |-> << >>]
    /\ t2s = << >>
    /\ status = [t \in Threads |-> "up"]
    /\ running = [t \in Threads |-> {}]
    /\ out = [t \in Threads |-> "unopened"]
    /\ written = {}
    /\ outDir = FALSE

-----------------------------------------------------------------------------
(* The main thread. *)

\* The files task k replaces when it opens its own.
Overwritten(k) == {w \in written : Path(w) = Path(k)}

\* Variant: the test on npartitions_completed is missing.
RunnableAgain(f, nchildren, nparts) ==
    {s \in StagesOf(f) : nchildren[s] = NChildren(f, s)}

\* Variant: the test on nchildren_completed is missing.
RunnableEarly(f, nchildren, nparts) == {s \in StagesOf(f) : nparts[s] = 0}

\* Scheduler::runnable: all inputs there, and nothing of the stage came back.
Runnable(f, nchildren, nparts) ==
    {s \in StagesOf(f) : nchildren[s] = NChildren(f, s) /\ nparts[s] = 0}

\* run_flow up to its loop.  remove_dir_all takes every file of the directory
\* away, also those a task of an earlier flow is still writing.
StartFlow ==
    /\ pc = "start"
    /\ flowIx' = flowIx + 1
    /\ written' = {}
    /\ outDir' = FALSE
    /\ out' = [t \in Threads |-> IF out[t] = "open" THEN "lost" ELSE out[t]]
    /\ nchildren_completed' = [s \in StagesOf(flowIx') |-> 0]
    /\ npartitions_completed' = [s \in StagesOf(flowIx') |-> 0]
    /\ pending' = Runnable(flowIx', nchildren_completed', npartitions_completed')
    /\ nextPart' = 0
    /\ pc' = "schedule"
    /\ UNCHANGED <<s2t, t2s, status, running>>

\* schedule_stages takes the runnable stages in the order of their ids.
Sending(s) == s \in pending /\ \A r \in pending : s <= r

\* Variant: the loop over partitions is one too long.
MorePartsInclusive(s) == nextPart <= Flows[flowIx].npartitions[s]

\* Stage::schedule has partitions of stage s left to send.
MoreParts(s) == nextPart < Flows[flowIx].npartitions[s]

\* The thread Stage::schedule gives a partition to.
ThreadFor(p) == p % NThreads

\* One turn of the loop of Stage::schedule.
SendTask(s) ==
    /\ pc = "schedule"
    /\ Sending(s)
    /\ MoreParts(s)
    /\ status[ThreadFor(nextPart)] = "up"
    /\ s2t' = [s2t EXCEPT ![ThreadFor(nextPart)] =
                            Append(@, ScheduleTask(Task(flowIx, s, nextPart)))]
    /\ nextPart' = nextPart + 1
    /\ UNCHANGED <<pc, flowIx, nchildren_completed, npartitions_completed, pending, t2s,
                   status, running, out, written, outDir>>

\* Sending to a thread that is gone is an error: `?' takes it out of run_job.
SendFails(s) ==
    /\ pc = "schedule"
    /\ Sending(s)
    /\ MoreParts(s)
    /\ status[ThreadFor(nextPart)] # "up"
    /\ pc' = "error"
    /\ UNCHANGED <<flowIx, nchildren_completed, npartitions_completed, pending, nextPart,
                   s2t, t2s, status, running, out, written, outDir>>

StageScheduled(s) ==
    /\ pc = "schedule"
    /\ Sending(s)
    /\ ~MoreParts(s)
    /\ pending' = pending \ {s}
    /\ nextPart' = 0
    /\ pc' = IF pending' = {} THEN "recv" ELSE "schedule"
    /\ UNCHANGED <<flowIx, nchildren_completed, npartitions_completed, s2t, t2s,
                   status, running, out, written, outDir>>

\* Variant: the guard on the stage is off by one.
SetStageCompletedOffByOne(s) ==
    IF s > 1
    THEN [nchildren_completed EXCEPT ![Flows[flowIx].parent[s]] = @ + 1]
    ELSE nchildren_completed

\* Scheduler::set_stage_completed.
SetStageCompleted(s) ==
    IF s > 0
    THEN [nchildren_completed EXCEPT ![Flows[flowIx].parent[s]] = @ + 1]
    ELSE nchildren_completed

\* Variants: the last message of a stage is taken to be the first, each one from the last
\* on, and the one behind the last.
AnyPartition(s, n) == n >= 1
LastPartitionOrMore(s, n) == n >= Flows[flowIx].npartitions[s]
LastPartitionLate(s, n) == n = Flows[flowIx].npartitions[s] + 1

\* run_flow takes the n-th message of stage s to be its last.
LastPartition(s, n) == n = Flows[flowIx].npartitions[s]

\* stage_contexts[stage_id] panics: the flow has no such stage.
NoSuchStage(s) ==
    /\ s \notin StagesOf(flowIx)
    /\ pc' = "panicked"
    /\ UNCHANGED <<npartitions_completed, nchildren_completed, pending>>

\* One more message for stage s, and not its last.
PartitionCompleted(s) ==
    /\ s \in StagesOf(flowIx)
    /\ npartitions_completed' = [npartitions_completed EXCEPT ![s] = @ + 1]
    /\ ~LastPartition(s, npartitions_completed'[s])
    /\ UNCHANGED <<pc, nchildren_completed, pending>>

\* The last message of stage s: schedule what is runnable, or leave the loop.
StageCompleted(s) ==
    /\ s \in StagesOf(flowIx)
    /\ npartitions_completed' = [npartitions_completed EXCEPT ![s] = @ + 1]
    /\ LastPartition(s, npartitions_completed'[s])
    /\ nchildren_completed' = SetStageCompleted(s)
    /\ pending' = Runnable(flowIx, nchildren_completed', npartitions_completed')
    /\ pc' = IF pending' = {} THEN "display" ELSE "schedule"

\* The loop of run_flow on TaskCompleted.  The message names a stage and a
\* partition, not a flow: Head(t2s).flow is there for the properties only.
RecvTaskCompleted ==
    /\ pc = "recv"
    /\ t2s # << >>
    /\ t2s' = Tail(t2s)
    /\ LET s == Head(t2s).stage IN
        NoSuchStage(s) \/ PartitionCompleted(s) \/ StageCompleted(s)
    /\ UNCHANGED <<flowIx, nextPart, s2t, status, running, out, written, outDir>>

\* Variant: the loop ends as soon as one thread is gone.
ChannelClosedEarly ==
    /\ pc = "recv"
    /\ t2s = << >>
    /\ \E t \in Threads : status[t] # "up"
    /\ pc' = "display"
    /\ UNCHANGED <<flowIx, nchildren_completed, npartitions_completed, pending, nextPart,
                   s2t, t2s, status, running, out, written, outDir>>

\* The loop of run_flow ends when no thread is left to send anything.
ChannelClosed ==
    /\ pc = "recv"
    /\ t2s = << >>
    /\ \A t \in Threads : status[t] # "up"
    /\ pc' = "display"
    /\ UNCHANGED <<flowIx, nchildren_completed, npartitions_completed, pending, nextPart,
                   s2t, t2s, status, running, out, written, outDir>>

\* display_output_dir unwraps the listing of the output directory.
Display ==
    /\ pc = "display"
    /\ pc' = IF outDir THEN AfterFlow(flowIx) ELSE "panicked"
    /\ UNCHANGED <<flowIx, nchildren_completed, npartitions_completed, pending, nextPart,
                   s2t, t2s, status, running, out, written, outDir>>

\* Where end_all_threads puts its message: behind the tasks still queued.
\* Variant: before them.
EndBeforeQueue(queue) == <<EndThreadMsg>> \o queue
EndBehindQueue(queue) == Append(queue, EndThreadMsg)

\* end_all_threads: every thread is told to end, or the first one that is gone
\* makes run_job return an error (what the others were sent is then of no use).
EndAllThreads ==
    /\ pc = "end"
    /\ \/ /\ \A t \in Threads : status[t] = "up"
          /\ s2t' = [t \in Threads |-> EndBehindQueue(s2t[t])]
          /\ pc' = "join"
       \/ /\ \E t \in Threads : status[t] # "up"
          /\ pc' = "error"
          /\ UNCHANGED s2t
    /\ UNCHANGED <<flowIx, nchildren_completed, npartitions_completed, pending, nextPart,
                   t2s, status, running, out, written, outDir>>

\* join takes the threads in order and stops at the first that panicked.
Join ==
    /\ pc = "join"
    /\ \/ /\ \A t \in Threads : status[t] = "ended"
          /\ pc' = "done"
       \/ /\ \E t \in Threads :
                /\ status[t] = "panicked"
                /\ \A u \in 0 .. t - 1 : status[u] = "ended"
          /\ pc' = "error"
    /\ UNCHANGED <<flowIx, nchildren_completed, npartitions_completed, pending, nextPart,
                   s2t, t2s, status, running, out, written, outDir>>

Main ==
    \/ StartFlow
    \/ \E s \in StagesOf(flowIx) : SendTask(s) \/ SendFails(s) \/ StageScheduled(s)
    \/ RecvTaskCompleted
    \/ ChannelClosed
    \/ Display
    \/ EndAllThreads
    \/ Join

-----------------------------------------------------------------------------
(* A worker thread.  The workers die with the process. *)

Idle(t) == pc \notin Terminals /\ status[t] = "up" /\ running[t] = {} /\ s2t[t] # << >>
Busy(t) == pc \notin Terminals /\ status[t] = "up" /\ running[t] # {}

\* Task::run begins; a task of stage 0 creates the output directory.
TakeTask(t) ==
    /\ Idle(t)
    /\ Head(s2t[t]) # EndThreadMsg
    /\ LET k == Head(s2t[t]).task IN
        /\ running' = [running EXCEPT ![t] = {k}]
        /\ outDir' = (outDir \/ k.stage = 0)
    /\ s2t' = [s2t EXCEPT ![t] = Tail(@)]
    /\ out' = [out EXCEPT ![t] = "unopened"]
    /\ UNCHANGED <<pc, flowIx, nchildren_completed, npartitions_completed, pending, nextPart,
                   t2s, status, written>>

\* The first row of the task's output: File::create truncates what is there.
OpenOutput(t) ==
    /\ Busy(t)
    /\ out[t] = "unopened"
    /\ out' = [out EXCEPT ![t] = "open"]
    /\ \E k \in running[t] : written' = written \ Overwritten(k)
    /\ UNCHANGED <<pc, flowIx, nchildren_completed, npartitions_completed, pending, nextPart,
                   s2t, t2s, status, running, outDir>>

\* The files at the path of task k are its own once thread t has closed them: not
\* removed meanwhile, none of another task left there (t may have had no row to
\* write), and no other thread is in the middle of writing them.
OutputIsWhole(t, k) ==
    /\ out[t] # "lost"
    /\ Overwritten(k) \subseteq {k}
    /\ \A u \in Threads \ {t} :
            Busy(u) /\ out[u] = "open" => \A l \in running[u] : Path(l) # Path(k)

\* Task::run returns Ok, with its files closed if it wrote a row at all, and
\* the worker reports it.
FinishTask(t) ==
    /\ Busy(t)
    /\ \E k \in running[t] :
        /\ written' = written \union {l \in {k} : OutputIsWhole(t, l)}
        /\ t2s' = Append(t2s, k)
    /\ running' = [running EXCEPT ![t] = {}]
    /\ UNCHANGED <<pc, flowIx, nchildren_completed, npartitions_completed, pending, nextPart,
                   s2t, status, out, outDir>>

\* Task::run fails: unwrap panics, the thread dies and its channel with it.
FailTask(t) ==
    /\ Busy(t)
    /\ t \in FaultyThreads
    /\ status' = [status EXCEPT ![t] = "panicked"]
    /\ s2t' = [s2t EXCEPT ![t] = << >>]
    /\ UNCHANGED <<pc, flowIx, nchildren_completed, npartitions_completed, pending, nextPart,
                   t2s, running, out, written, outDir>>

EndThread(t) ==
    /\ Idle(t)
    /\ Head(s2t[t]) = EndThreadMsg
    /\ status' = [status EXCEPT ![t] = "ended"]
    /\ s2t' = [s2t EXCEPT ![t] = << >>]
    /\ UNCHANGED <<pc, flowIx, nchildren_completed, npartitions_completed, pending, nextPart,
                   t2s, running, out, written, outDir>>

Worker(t) ==
    TakeTask(t) \/ OpenOutput(t) \/ FinishTask(t) \/ FailTask(t) \/ EndThread(t)

Terminated == pc \in Terminals /\ UNCHANGED vars

Next ==
    \/ Main
    \/ \E t \in Threads : Worker(t)
    \/ Terminated

\* The operating system runs every thread that can run; a task that does not
\* fail ends, for its operators read finite inputs.
Fairness ==
    /\ WF_vars(Main)
    /\ \A t \in Threads :
        /\ WF_vars(TakeTask(t))
        /\ WF_vars(FinishTask(t))
        /\ WF_vars(EndThread(t))

Spec == Init /\ [][Next]_vars
FairSpec == Spec /\ Fairness

-----------------------------------------------------------------------------
(* Properties.  Which hold for which stage graphs is what the runs show. *)

\* A task that executes reads the complete output of every task that feeds it:
\* run_flow schedules a stage only after the stages it depends on.
ConsumerSeesCompleteInput ==
    \A t \in Threads : \A k \in running[t] : Inputs(k) \subseteq written

\* run_flow counts messages, not partitions: when the count of a stage is full,
\* every partition of it must have been written all the same ("If this was the
\* last task in a stage").
CompletionIsReal ==
    \A s \in StagesOf(flowIx) :
        npartitions_completed[s] >= Flows[flowIx].npartitions[s]
            => StageTasks(flowIx, s) \subseteq written

\* When run_flow returns, every task of the flow is done and its result can be
\* listed: display_output_dir unwraps the listing.
FlowComplete ==
    pc = "display" => outDir /\ FlowTasks(flowIx) \subseteq written

\* When run_flow has returned, no thread works, or will work, for its flow and
\* no message of it is left for the next flow to count.
NothingLeftBehind ==
    pc \in {"display", "start", "end"} =>
        /\ t2s = << >>
        /\ \A t \in Threads : status[t] = "up" => running[t] = {} /\ s2t[t] = << >>

\* nchildren_completed counts each completed child once, whatever duplicates and
\* late messages do to the counts of the children.
ChildrenCountedOnce ==
    \A s \in StagesOf(flowIx) :
        nchildren_completed[s] =
            Cardinality({c \in ChildrenOf(flowIx, s) :
                            npartitions_completed[c] >= Flows[flowIx].npartitions[c]})

\* A stage completing makes run_flow schedule the stage that depends on it and
\* nothing else ("schedule any dependent stages").
OnlyDependentsScheduled ==
    [][pc = "recv" /\ pc' = "schedule" =>
           \A s \in pending' : Head(t2s).stage \in ChildrenOf(flowIx, s)]_vars

\* A thread that ends has executed all it was given: EndThread is the last
\* message of its queue.
NoTaskDropped ==
    [][\A t \in Threads : status[t] = "up" /\ status'[t] = "ended"
                              => s2t[t] = <<EndThreadMsg>>]_vars

Failed == \E t \in Threads : status[t] = "panicked"

\* The job ends unless a task fails: no flow waits for a message that nobody will send.
JobEnds == <>(pc = "done" \/ Failed)

\* Every flow so far had one stage active at a time: no stage with two inputs, or
\* (PARALLEL_DEGREE 1) all its tasks on one thread.
Orderly ==
    \A f \in 1 .. flowIx : Linear(f) \/ \A s \in StagesOf(f) : Flows[f].npartitions[s] = 1

\* Although runnable returns inputs of a join that are at work, and their tasks run again:
\* on one thread a task that reads them comes behind, and the flow ends with it.
OneThreadIsEnough ==
    Orderly /\ status[0] # "panicked" => ConsumerSeesCompleteInput /\ FlowComplete

\* run_flow returns from such a flow without its result only when no thread is left to send
\* it: a thread that died makes it wait, or a send fail, as long as another one lives.
IncompleteOnlyWithoutThreads ==
    Orderly /\ pc = "display" =>
        \/ outDir /\ FlowTasks(flowIx) \subseteq written
        \/ \A t \in Threads : status[t] = "panicked"

\* Nor is there a message too few for run_flow to end such a flow.
OrderlyFlowsEnd == pc = "schedule" /\ Orderly ~> pc = "display" \/ Failed

\* The scheduler does what Dataflow promises: a task has started when a thread
\* holds it or has written its output, and finished when its output is written.
TheDataflow == INSTANCE Dataflow WITH
    cur <- flowIx,
    started <- written \union UNION {running[t] : t \in Threads},
    finished <- written

\* Failing tasks cannot break it.
DataflowSafety == TheDataflow!DataflowSpec
=============================================================================
