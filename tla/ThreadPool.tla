------------------------------ MODULE ThreadPool ------------------------------
(***************************************************************************)
(* NFThreadPoolModule: a fixed set of worker threads (NFThreadCell), each  *)
(* with a task queue of its own, and one result queue that brings the end  *)
(* functors back to the main thread.                                       *)
(*                                                                         *)
(* This module holds the pool's state and its operations as actions on     *)
(* that state alone; a module that uses the pool extends it, says what a   *)
(* task's functor does, and puts the main thread around it.                *)
(***************************************************************************)
EXTENDS Integers, Sequences

CONSTANTS
    NThreads,   \* NFPluginManager::GetAppCPUCount(), one NFThreadCell each
    Functors    \* what a TASK_PROCESS_FUNCTOR can be bound to

ASSUME NThreadsAssumption == NThreads \in Nat \ {0}
ASSUME FunctorsAssumption == "none" \notin Functors

VARIABLES
    mTaskList,   \* per worker: NFQueue of tasks, only the main thread pushes
    task,        \* per worker: the local of NFThreadCell::Execute
    mTaskResult  \* per worker: what that worker pushed and main has not popped.
                 \* NFQueue is FIFO for each producing thread and promises no
                 \* order between two producers.

poolVars == <<mTaskList, task, mTaskResult>>

Threads == 0 .. NThreads - 1

\* NFGUID() : the id that DoAsyncTask sends to worker 0.
NullGUID == 0

NFThreadTask == [nTaskID : Nat, data : Nat, xThreadFunc : Functors, xEndFunc : BOOLEAN]

\* NFThreadTask::Reset leaves a null id, no data and no functors.
ResetTask == [nTaskID |-> NullGUID, data |-> 0, xThreadFunc |-> "none", xEndFunc |-> FALSE]

Idle(t) == task[t] = ResetTask

PoolInit ==
    /\ mTaskList = [t \in Threads |-> <<>>]
    /\ task = [t \in Threads |-> ResetTask]
    /\ mTaskResult = [t \in Threads |-> <<>>]

\* A bug: the worker with the shortest queue.
ThreadOfLeastLoaded(taskID) ==
    CHOOSE t \in Threads : \A u \in Threads : Len(mTaskList[t]) <= Len(mTaskList[u])

\* The worker a task id belongs to: a null id goes to worker 0, another id
\* to the worker its nData64 selects, always the same one.
ThreadOf(taskID) == IF taskID = NullGUID THEN 0 ELSE taskID % NThreads

DoAsyncTask(tk) ==
    mTaskList' = [mTaskList EXCEPT ![ThreadOf(tk.nTaskID)] = Append(@, tk)]

\* A bug: the newest task first.
PopNewestTask(t) ==
    /\ Idle(t)
    /\ mTaskList[t] # <<>>
    /\ task' = [task EXCEPT ![t] = mTaskList[t][Len(mTaskList[t])]]
    /\ mTaskList' = [mTaskList EXCEPT ![t] = SubSeq(@, 1, Len(@) - 1)]

\* NFThreadCell::Execute, TryPop of the next task.
PopTask(t) ==
    /\ Idle(t)
    /\ mTaskList[t] # <<>>
    /\ task' = [task EXCEPT ![t] = Head(mTaskList[t])]
    /\ mTaskList' = [mTaskList EXCEPT ![t] = Tail(@)]

TaskResult(t) ==
    mTaskResult' = [mTaskResult EXCEPT ![t] = IF task[t].xEndFunc THEN Append(@, task[t]) ELSE @]

\* A bug: only a task somebody waits for is reset.
FinishTaskIfAwaited(t) ==
    /\ TaskResult(t)
    /\ task' = [task EXCEPT ![t] = IF @.xEndFunc THEN ResetTask ELSE @]

\* NFThreadCell::Execute after xThreadFunc returned: the result goes back if
\* somebody waits for it, then the task is reset.
FinishTask(t) ==
    /\ TaskResult(t)
    /\ task' = [task EXCEPT ![t] = ResetTask]

\* ExecuteTaskResult, TryPop: main takes the oldest entry of some producer.
PopTaskResult(t) ==
    /\ mTaskResult[t] # <<>>
    /\ mTaskResult' = [mTaskResult EXCEPT ![t] = Tail(@)]

NoTaskResult == \A t \in Threads : mTaskResult[t] = <<>>

PoolTypeOK ==
    /\ mTaskList \in [Threads -> Seq(NFThreadTask)]
    /\ task \in [Threads -> NFThreadTask \cup {ResetTask}]
    /\ mTaskResult \in [Threads -> Seq(NFThreadTask)]
===============================================================================
