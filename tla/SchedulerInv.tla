---------------------------- MODULE SchedulerInv ----------------------------
(***************************************************************************)
(* The inductive invariants of Scheduler.                                  *)
(*                                                                         *)
(* In a job whose stage graphs are linear one stage is active at a time:   *)
(* those above it are complete, those below untouched, and every task of   *)
(* the active stage the scheduler has sent is in a queue, with a thread,   *)
(* or written, and in one place only.                                      *)
(*                                                                         *)
(* In a job whose stages have one partition each, everything happens on    *)
(* thread 0, in the order in which it was sent, some of it several times.  *)
(* The root of a flow is sent once, and last.                              *)
(*                                                                         *)
(* Threads that die do not matter to either, as long as one is left.       *)
(***************************************************************************)
EXTENDS Scheduler

ThreadLeft == \E t \in Threads : status[t] # "panicked"

LinearJob == \A f \in 1 .. Len(Flows) : Linear(f)

\* The tasks in thread t's queue, and with the one it executes.
Queued(t) == {k \in Tasks : \E i \in 1 .. Len(s2t[t]) : s2t[t][i] = ScheduleTask(k)}
Held(t) == running[t] \union Queued(t)

\* No task is twice in thread t's queue, nor queued while it executes.
HeldOnce(t) ==
    /\ \A i, j \in 1 .. Len(s2t[t]) :
            i # j /\ s2t[t][i] = s2t[t][j] => s2t[t][i] = EndThreadMsg
    /\ running[t] \intersect Queued(t) = {}
    /\ \A k, l \in running[t] : k = l

\* The partitions of stage s of the current flow that are on disk.
WrittenParts(s) ==
    {p \in 0 .. Flows[flowIx].npartitions[s] - 1 : Task(flowIx, s, p) \in written}

\* Stage s is complete and counted.
StageOver(s) ==
    /\ npartitions_completed[s] = Flows[flowIx].npartitions[s]
    /\ npartitions_completed[s] # 0
    /\ nchildren_completed[s] = NChildren(flowIx, s)
    /\ StageTasks(flowIx, s) \subseteq written

StageUntouched(s) ==
    /\ npartitions_completed[s] = 0
    /\ nchildren_completed[s] = 0

\* A task of stage a that was sent and whose turn on thread t has not ended.
HeldInStage(t, a) ==
    \A k \in Held(t) :
        /\ k \in StageTasks(flowIx, a)
        /\ ThreadFor(k.part) = t
        /\ k \notin written

\* While stage a is being sent, only partitions below nextPart are out.
SentSoFar(a) ==
    /\ pending = {a}
    /\ \A t \in Threads : \A k \in Held(t) : k.part < nextPart
    /\ \A k \in written : k.stage = a => k.part < nextPart

\* The counters single out stage a.
Counted(a) ==
    /\ \A s \in StagesOf(flowIx) : s > a => StageOver(s)
    /\ \A s \in StagesOf(flowIx) : s < a => StageUntouched(s)
    /\ nchildren_completed[a] = NChildren(flowIx, a)

\* What is on disk and has not been counted is in the channel to the scheduler.
Delivered(a) ==
    /\ \A k \in written : k \in FlowTasks(flowIx) /\ k.stage >= a
    /\ \A i \in 1 .. Len(t2s) : t2s[i] \in StageTasks(flowIx, a)
    /\ npartitions_completed[a] + Len(t2s) = Cardinality(WrittenParts(a))

ActiveStage(a) ==
    /\ Counted(a)
    /\ Delivered(a)
    /\ \A t \in Threads : HeldInStage(t, a)
    /\ pc = "schedule" => SentSoFar(a)

\* Nothing is under way.
Quiet == t2s = << >> /\ \A t \in Threads : Held(t) = {}

\* Where run_job is once a flow is over.
Over == pc \in {"display", "start", "end", "join", "done"}

ThreadInv ==
    /\ \A t \in Threads : running[t] # {} => out[t] # "lost"
    /\ \A t \in Threads : status[t] = "panicked" => t \in FaultyThreads
    /\ \A t \in Threads :
            status[t] = "ended" \/ (\E i \in 1 .. Len(s2t[t]) : s2t[t][i] = EndThreadMsg)
                => pc \in {"join"} \union Terminals

FlowInv ==
    /\ flowIx = 0 => Quiet /\ written = {}
    /\ flowIx > 0 => \E a \in StagesOf(flowIx) : ActiveStage(a)
    /\ Over => Quiet /\ FlowTasks(flowIx) \subseteq written

OutDirInv ==
    /\ (\E k \in written : k.stage = 0) => outDir
    /\ \A t \in Threads : \A k \in running[t] : k.stage = 0 => outDir
    /\ pc = "display" => outDir

LinearInv ==
    /\ pc = "recv" => nextPart = 0
    /\ \A t \in Threads : HeldOnce(t)
    /\ ThreadInv
    /\ FlowInv
    /\ OutDirInv

-----------------------------------------------------------------------------
(* PARALLEL_DEGREE 1. *)

SerialJob == \A f \in 1 .. Len(Flows) : \A s \in StagesOf(f) : Flows[f].npartitions[s] = 1

\* Stage s of the current flow has reported at least once.
Reported(s) == npartitions_completed[s] > 0
InputsReported(s) == \A c \in ChildrenOf(flowIx, s) : Reported(c)

TheTask(s) == Task(flowIx, s, 0)
InChannel(k) == \E i \in 1 .. Len(t2s) : t2s[i] = k

\* Stage s was sent, and a message of it is still to come.
UnderWay(s) == TheTask(s) \in Held(0) \/ InChannel(TheTask(s))

OnThread0 ==
    /\ \A t \in Threads \ {0} : Held(t) = {}
    /\ \A k \in Held(0) \union written : k \in FlowTasks(flowIx)
    /\ \A i \in 1 .. Len(t2s) : t2s[i] \in FlowTasks(flowIx)
    /\ \A k, l \in running[0] : k = l
    /\ running[0] # {} => out[0] # "lost"

\* A stage is sent when its inputs have reported, and what was once written is missing on disk
\* only while it is written again.
InputsKept ==
    \A s \in StagesOf(flowIx) :
        /\ UnderWay(s) \/ Reported(s) => InputsReported(s)
        /\ InChannel(TheTask(s)) \/ Reported(s) => TheTask(s) \in written \union running[0]

\* Nothing is behind the root.
RootIsLast ==
    /\ \A i \in 1 .. Len(s2t[0]) : s2t[0][i] = ScheduleTask(TheTask(0)) => i = Len(s2t[0])
    /\ TheTask(0) \in running[0] => Queued(0) = {}
    /\ \A i \in 1 .. Len(t2s) : t2s[i] = TheTask(0) => i = Len(t2s) /\ Held(0) = {}
    /\ InChannel(TheTask(0)) \/ TheTask(0) \in running[0] => outDir

SerialPc ==
    /\ pc = "schedule" =>
            /\ \A s \in pending : InputsReported(s) /\ ~Reported(s)
            /\ UnderWay(0) => pending = {0} /\ nextPart > 0
    /\ pc \in {"schedule", "recv"} => ~Reported(0)
    /\ pc = "recv" => nextPart = 0
    /\ pc = "display" => outDir /\ \A s \in StagesOf(flowIx) : Reported(s)
    /\ Over => Quiet

SerialFlow == OnThread0 /\ InputsKept /\ RootIsLast /\ SerialPc

SerialInv ==
    /\ \A t \in Threads : status[t] = "ended" => pc \in {"join"} \union Terminals
    /\ ThreadLeft =>
            \/ flowIx = 0 /\ Quiet /\ written = {}
            \/ flowIx > 0 /\ SerialFlow
=============================================================================
