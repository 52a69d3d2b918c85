--------------------------- MODULE ActorSystemProofs ---------------------------
(***************************************************************************)
(* Theorems about ActorSystem, for any number of workers, actors, message  *)
(* ids and jobs.                                                           *)
(*                                                                         *)
(* Pinned is what makes an actor single-threaded: every task for an actor, *)
(* waiting or running, is at the one worker its id selects, although every *)
(* frame adds a task for it whatever is still waiting.                     *)
(*                                                                         *)
(* Ordered is why the end functors of an actor run in the order of the     *)
(* calls: on its way from the actor's queue (Queue) over the hands of a    *)
(* worker and its results (Results) into the history (lastEnded), no       *)
(* message overtakes an older one of its actor. It needs that a message    *)
(* and its result stay with the worker of their actor (AtHome), which      *)
(* rests on Pinned.                                                        *)
(*                                                                         *)
(* OncePlaced says that a message SendMsgToActor has accepted is in        *)
(* exactly one place: each step that takes it from one place puts it into  *)
(* one other, and numbers that were not sent are nowhere.                  *)
(*                                                                         *)
(* The last part maps every step to a step of ActorMailbox. Of the         *)
(* invariants it needs AtHome only: one worker holds at most one message   *)
(* of an actor, and the results of an actor are all at one worker.         *)
(***************************************************************************)
EXTENDS ActorSystem, SequenceTheorems, FiniteSetTheorems, NaturalsInduction, WellFoundedInduction,
        TLAPS

Pinned ==
    \A t \in Threads :
        /\ Executing(t) => Self(t) \in Actors /\ ThreadOf(Self(t)) = t
        /\ \A n \in 1 .. Len(mTaskList[t]) :
              mTaskList[t][n].xThreadFunc = "Execute" =>
                  /\ mTaskList[t][n].nTaskID \in Actors
                  /\ ThreadOf(mTaskList[t][n].nTaskID) = t

IInv1 == TypeOK /\ Pinned

USE NThreadsAssumption, ActorsAssumption, MsgIDsAssumption, BoundsAssumption

\* A task id belongs to one of the workers.
LEMMA ThreadOfType ==
    ASSUME NEW id \in Nat
    PROVE  ThreadOf(id) \in Threads
  BY DEF ThreadOf, Threads, NullGUID

\* What DoAsyncTask does to the queues: one task more at its worker's end.
LEMMA DoAsyncTaskAppends ==
    ASSUME mTaskList \in [Threads -> Seq(NFThreadTask)],
           NEW tk \in NFThreadTask,
           DoAsyncTask(tk)
    PROVE  /\ mTaskList' \in [Threads -> Seq(NFThreadTask)]
           /\ ThreadOf(tk.nTaskID) \in Threads
           /\ mTaskList'[ThreadOf(tk.nTaskID)] = Append(mTaskList[ThreadOf(tk.nTaskID)], tk)
           /\ \A t \in Threads : t # ThreadOf(tk.nTaskID) => mTaskList'[t] = mTaskList[t]
  <1>1. ThreadOf(tk.nTaskID) \in Threads
    BY ThreadOfType DEF NFThreadTask
  <1> QED
    BY <1>1 DEF DoAsyncTask

\* No task waits or runs when the process starts.
LEMMA InitIInv1 == Init => IInv1
  <1> SUFFICES ASSUME Init PROVE IInv1
    OBVIOUS
  <1>1. TypeOK
    BY DEF Init, PoolInit, TypeOK, PoolTypeOK, NFThreadTask, ResetTask, Threads
  <1>2. Pinned
    BY DEF Init, PoolInit, Pinned, Executing, ResetTask, Threads
  <1> QED
    BY <1>1, <1>2 DEF IInv1

\* Every operation of the module, the main loop and the workers keeps the types.
LEMMA StepTypeOK == IInv1 /\ [Next]_vars => TypeOK'
  <1> SUFFICES ASSUME TypeOK, Pinned, [Next]_vars PROVE TypeOK'
    BY DEF IInv1
  <1>1. ASSUME NEW a \in Actors, NEW handled \in Handlers, RequireActor(a, handled)
        PROVE  TypeOK'
    BY <1>1 DEF TypeOK, PoolTypeOK, RequireActor, poolVars, queueVars, loopVars, history
  <1>2. ASSUME NEW a \in Actors, ReleaseActor(a)
        PROVE  TypeOK'
    BY <1>2 DEF TypeOK, PoolTypeOK, ReleaseActor, poolVars, queueVars, loopVars, history
  <1>3. ASSUME NEW a \in Actors, NEW id \in MsgIDs, SendMsgToActor(a, id)
        PROVE  TypeOK'
    <2>1. [msgID |-> id, index |-> index, to |-> a] \in NFActorMessage
      BY <1>3 DEF SendMsgToActor, TypeOK, NFActorMessage
    <2>2. index' \in 0 .. MaxMsgs
      BY <1>3 DEF SendMsgToActor, TypeOK
    <2> QED
      BY <1>3, <2>1, <2>2 DEF TypeOK, PoolTypeOK, SendMsgToActor, poolVars, actorVars, loopVars,
                              history
  <1>4. ASSUME NEW id \in JobIDs, NEW withEnd \in BOOLEAN, SubmitJob(id, withEnd)
        PROVE  TypeOK'
    <2>1. JobTask(id, jobs + 1, withEnd) \in NFThreadTask
      BY JobsAssumption DEF TypeOK, JobTask, NFThreadTask
    <2> QED
      BY <1>4, <2>1, DoAsyncTaskAppends
         DEF TypeOK, PoolTypeOK, SubmitJob, actorVars, queueVars, loopVars, history
  <1>5. ASSUME BeforeShut
        PROVE  TypeOK'
    BY <1>5 DEF TypeOK, PoolTypeOK, BeforeShut, poolVars, queueVars, history
  <1>6. ASSUME MainLoop
        PROVE  TypeOK'
    <2>1. CASE ExecuteEvent
      BY <2>1 DEF TypeOK, PoolTypeOK, ExecuteEvent, poolVars, actorVars, queueVars, history
    <2>2. CASE ExecuteEventTooEarly
      BY <2>2 DEF TypeOK, PoolTypeOK, ExecuteEventTooEarly, poolVars, actorVars, queueVars, history
    <2>3. ASSUME NEW a \in Actors, ScheduleActor(a)
          PROVE  TypeOK'
      <3>1. ActorTask(a) \in NFThreadTask
        BY JobsAssumption DEF ActorTask, NFThreadTask
      <3> QED
        BY <2>3, <3>1, DoAsyncTaskAppends
           DEF TypeOK, PoolTypeOK, ScheduleActor, actorVars, queueVars, history
    <2>4. CASE ExecuteEventDone
      BY <2>4 DEF TypeOK, PoolTypeOK, ExecuteEventDone, poolVars, actorVars, queueVars, history
    <2>5. ASSUME NEW t \in Threads, ExecuteResultEvent(t)
          PROVE  TypeOK'
      <3>1. /\ Head(mxResultQueue[t]) \in NFActorMessage
            /\ Tail(mxResultQueue[t]) \in Seq(NFActorMessage)
        BY <2>5, HeadTailProperties DEF TypeOK, ExecuteResultEvent
      <3>2. Head(mxResultQueue[t]).index \in Int
        BY <3>1 DEF NFActorMessage
      <3>3. lastEnded' \in [Actors -> Int]
        BY <2>5, <3>2 DEF TypeOK, ExecuteResultEvent
      <3> QED
        BY <2>5, <3>1, <3>3 DEF TypeOK, PoolTypeOK, ExecuteResultEvent, poolVars, actorVars, loopVars
    <2>6. CASE ExecuteResultEventDone
      BY <2>6 DEF TypeOK, PoolTypeOK, ExecuteResultEventDone, poolVars, actorVars, queueVars, history
    <2>7. ASSUME NEW t \in Threads, ExecuteTaskResult(t)
          PROVE  TypeOK'
      <3>1. Head(mTaskResult[t]) \in NFThreadTask /\ Tail(mTaskResult[t]) \in Seq(NFThreadTask)
        BY <2>7, HeadTailProperties DEF TypeOK, PoolTypeOK, ExecuteTaskResult, PopTaskResult
      <3>2. Head(mTaskResult[t]).data \in Nat
        BY <3>1 DEF NFThreadTask
      <3>3. lastJob' \in [JobIDs -> Nat]
        BY <2>7, <3>2 DEF TypeOK, ExecuteTaskResult
      <3> QED
        BY <2>7, <3>1, <3>3 DEF TypeOK, PoolTypeOK, ExecuteTaskResult, PopTaskResult, actorVars,
                                queueVars, loopVars
    <2>8. CASE ExecuteTaskResultDone
      BY <2>8 DEF TypeOK, PoolTypeOK, ExecuteTaskResultDone, poolVars, actorVars, queueVars, history
    <2> QED
      BY <1>6, <2>1, <2>2, <2>3, <2>4, <2>5, <2>6, <2>7, <2>8 DEF MainLoop
  <1>7. ASSUME NEW t \in Threads, Worker(t)
        PROVE  TypeOK'
    <2>1. CASE TakeTask(t)
      BY <2>1 DEF TypeOK, PoolTypeOK, TakeTask, PopTask, actorVars, queueVars, loopVars, history
    <2>2. CASE RunJob(t)
      <3>1. task[t] \in NFThreadTask
        BY <2>2 DEF TypeOK, PoolTypeOK, RunJob, ResetTask
      <3> QED
        BY <2>2, <3>1 DEF TypeOK, PoolTypeOK, RunJob, FinishTask, TaskResult, actorVars, queueVars, loopVars, history
    <2>3. CASE TryPopMessage(t)
      <3>1. Self(t) \in Actors
        BY <2>3 DEF TryPopMessage, Pinned
      <3>2. /\ Head(mMessageQueue[Self(t)]) \in NFActorMessage
            /\ Tail(mMessageQueue[Self(t)]) \in Seq(NFActorMessage)
        BY <2>3, <3>1, HeadTailProperties DEF TryPopMessage, TypeOK
      <3> QED
        BY <2>3, <3>1, <3>2 DEF TypeOK, PoolTypeOK, TryPopMessage, poolVars, actorVars, loopVars,
                                history
    <2>4. CASE RunHandler(t)
      BY <2>4 DEF TypeOK, PoolTypeOK, RunHandler, poolVars, actorVars, loopVars, history
    <2>5. CASE DropMessage(t)
      BY <2>5 DEF TypeOK, PoolTypeOK, DropMessage, poolVars, actorVars, loopVars
    <2>6. CASE ExecuteReturns(t)
      <3>1. task[t] \in NFThreadTask
        BY <2>6 DEF TypeOK, PoolTypeOK, ExecuteReturns, Executing, ResetTask
      <3> QED
        BY <2>6, <3>1 DEF TypeOK, PoolTypeOK, ExecuteReturns, FinishTask, TaskResult, actorVars, queueVars, loopVars,
                          history
    <2> QED
      BY <1>7, <2>1, <2>2, <2>3, <2>4, <2>5, <2>6 DEF Worker
  <1>8. CASE UNCHANGED vars
    BY <1>8 DEF TypeOK, PoolTypeOK, vars, poolVars, actorVars, queueVars, loopVars, history
  <1> QED
    BY <1>1, <1>2, <1>3, <1>4, <1>5, <1>6, <1>7, <1>8 DEF Next

\* A task that is pushed or taken for an actor is at the actor's worker.
LEMMA StepPinned == IInv1 /\ [Next]_vars => Pinned'
  <1> SUFFICES ASSUME TypeOK, Pinned, [Next]_vars PROVE Pinned'
    BY DEF IInv1
  <1> DEFINE Push == \E tk \in NFThreadTask :
                        /\ DoAsyncTask(tk)
                        /\ tk.xThreadFunc = "Execute" => tk.nTaskID \in Actors
                        /\ UNCHANGED task
  <1>1. Push => Pinned'
    <2> SUFFICES ASSUME NEW tk \in NFThreadTask, DoAsyncTask(tk), UNCHANGED task,
                        tk.xThreadFunc = "Execute" => tk.nTaskID \in Actors
                 PROVE  Pinned'
      OBVIOUS
    <2> DEFINE w == ThreadOf(tk.nTaskID)
    <2>1. /\ w \in Threads
          /\ mTaskList'[w] = Append(mTaskList[w], tk)
          /\ \A t \in Threads : t # w => mTaskList'[t] = mTaskList[t]
          /\ \A t \in Threads : mTaskList[t] \in Seq(NFThreadTask)
      BY DoAsyncTaskAppends DEF TypeOK, PoolTypeOK
    <2> SUFFICES ASSUME NEW t \in Threads, NEW n \in 1 .. Len(mTaskList'[t]),
                        mTaskList'[t][n].xThreadFunc = "Execute"
                 PROVE  /\ mTaskList'[t][n].nTaskID \in Actors
                        /\ ThreadOf(mTaskList'[t][n].nTaskID) = t
      BY DEF Pinned, Executing, Self, ThreadOf
    <2>2. CASE t # w \/ n # Len(mTaskList[t]) + 1
      <3>1. n \in 1 .. Len(mTaskList[t]) /\ mTaskList'[t][n] = mTaskList[t][n]
        <4> HIDE DEF w
        <4>1. CASE t # w
          BY <4>1, <2>1
        <4>2. CASE t = w /\ n # Len(mTaskList[t]) + 1
          BY <4>2, <2>1, AppendProperties
        <4> QED
          BY <4>1, <4>2, <2>2
      <3> QED
        BY <3>1 DEF Pinned
    <2>3. CASE t = w /\ n = Len(mTaskList[t]) + 1
      <3>1. mTaskList'[t][n] = tk
        <4> HIDE DEF w
        <4> QED
          BY <2>3, <2>1, AppendProperties
      <3> QED
        BY <3>1, <2>3
    <2> QED
      BY <2>2, <2>3
  <1>2. ASSUME NEW t \in Threads, PopTask(t)
        PROVE  Pinned'
    <2>1. /\ mTaskList[t] \in Seq(NFThreadTask) /\ mTaskList[t] # <<>>
          /\ mTaskList' = [mTaskList EXCEPT ![t] = Tail(@)]
          /\ task' = [task EXCEPT ![t] = mTaskList[t][1]]
          /\ Len(mTaskList[t]) >= 1
      BY <1>2, EmptySeq DEF PopTask, TypeOK, PoolTypeOK
    <2>2. ASSUME NEW u \in Threads, Executing(u)'
          PROVE  Self(u)' \in Actors /\ ThreadOf(Self(u)') = u
      BY <2>1, <2>2 DEF Pinned, Executing, Self, TypeOK, PoolTypeOK
    <2>3. ASSUME NEW u \in Threads, NEW n \in 1 .. Len(mTaskList'[u]),
                 mTaskList'[u][n].xThreadFunc = "Execute"
          PROVE  /\ mTaskList'[u][n].nTaskID \in Actors
                 /\ ThreadOf(mTaskList'[u][n].nTaskID) = u
      <3>1. CASE u # t
        BY <3>1, <2>1, <2>3 DEF Pinned, TypeOK, PoolTypeOK
      <3>2. CASE u = t
        <4>1. mTaskList'[t] = Tail(mTaskList[t])
          BY <2>1 DEF TypeOK, PoolTypeOK
        <4>2. n + 1 \in 1 .. Len(mTaskList[t]) /\ mTaskList'[t][n] = mTaskList[t][n + 1]
          <5>1. /\ Len(Tail(mTaskList[t])) = Len(mTaskList[t]) - 1
                /\ \A i \in 1 .. Len(Tail(mTaskList[t])) :
                      Tail(mTaskList[t])[i] = mTaskList[t][i + 1]
            BY <2>1, HeadTailProperties
          <5>2. n \in 1 .. Len(Tail(mTaskList[t])) /\ mTaskList'[t] = Tail(mTaskList[t])
            BY <4>1, <3>2
          <5>3. Len(mTaskList[t]) \in Nat
            BY <2>1, LenProperties
          <5> QED
            BY <5>1, <5>2, <5>3
        <4> QED
          BY <4>2, <3>2, <2>3 DEF Pinned
      <3> QED
        BY <3>1, <3>2
    <2> QED
      BY <2>2, <2>3 DEF Pinned, Self, ThreadOf
  <1>3. ASSUME NEW t \in Threads, FinishTask(t), UNCHANGED mTaskList
        PROVE  Pinned'
    BY <1>3 DEF FinishTask, Pinned, Executing, Self, ResetTask, TypeOK, PoolTypeOK, ThreadOf
  <1>4. ASSUME UNCHANGED <<mTaskList, task>>
        PROVE  Pinned'
    BY <1>4 DEF Pinned, Executing, Self, ThreadOf
  <1>5. ASSUME NEW id \in JobIDs, NEW withEnd \in BOOLEAN, SubmitJob(id, withEnd)
        PROVE  Pinned'
    <2>1. JobTask(id, jobs + 1, withEnd) \in NFThreadTask
      BY JobsAssumption DEF TypeOK, JobTask, NFThreadTask
    <2>2. JobTask(id, jobs + 1, withEnd).xThreadFunc # "Execute"
      BY DEF JobTask
    <2> QED
      BY <1>1, <1>5, <2>1, <2>2 DEF SubmitJob
  <1>6. ASSUME NEW a \in Actors, ScheduleActor(a)
        PROVE  Pinned'
    <2>1. ActorTask(a) \in NFThreadTask /\ ActorTask(a).nTaskID \in Actors
      BY JobsAssumption DEF ActorTask, NFThreadTask
    <2> QED
      BY <1>1, <1>6, <2>1 DEF ScheduleActor
  <1> HIDE DEF Push
  <1>7. ASSUME NEW t \in Threads, Worker(t)
        PROVE  Pinned'
    BY <1>7, <1>2, <1>3, <1>4
       DEF Worker, TakeTask, RunJob, TryPopMessage, RunHandler, DropMessage, ExecuteReturns, poolVars
  <1>8. CASE MainLoop
    BY <1>8, <1>4, <1>6
       DEF MainLoop, ExecuteEvent, ExecuteEventTooEarly, ExecuteEventDone, ExecuteResultEvent,
           ExecuteResultEventDone, ExecuteTaskResult, ExecuteTaskResultDone, poolVars
  <1>9. ASSUME \/ \E a \in Actors, handled \in Handlers : RequireActor(a, handled)
               \/ \E a \in Actors : ReleaseActor(a)
               \/ \E a \in Actors, id \in MsgIDs : SendMsgToActor(a, id)
               \/ BeforeShut
        PROVE  Pinned'
    BY <1>9, <1>4 DEF RequireActor, ReleaseActor, SendMsgToActor, BeforeShut, poolVars
  <1>10. CASE UNCHANGED vars
    BY <1>10, <1>4 DEF vars, poolVars
  <1> QED
    BY <1>5, <1>7, <1>8, <1>9, <1>10 DEF Next

\* Every variable keeps its type; in particular Self(t) is an actor whenever
\* a worker is in NFActor::Execute, so its queue exists.
THEOREM Typed == Spec => []TypeOK
  <1>1. Init => IInv1
    BY InitIInv1
  <1>2. IInv1 /\ [Next]_vars => IInv1'
    BY StepTypeOK, StepPinned DEF IInv1
  <1>3. IInv1 => TypeOK
    BY DEF IInv1
  <1> QED
    BY <1>1, <1>2, <1>3, PTL DEF Spec

\* No two threads are in NFActor::Execute of one actor, for any number of
\* workers, actors, pending tasks and releases.
THEOREM OneThread == Spec => []OneThreadPerActor
  <1>1. Init => IInv1
    BY InitIInv1
  <1>2. IInv1 /\ [Next]_vars => IInv1'
    BY StepTypeOK, StepPinned DEF IInv1
  <1>3. IInv1 => OneThreadPerActor
    BY DEF IInv1, Pinned, OneThreadPerActor
  <1> QED
    BY <1>1, <1>2, <1>3, PTL DEF Spec

-------------------------------------------------------------------------------
(* The order of the end functors. *)

Queue == mMessageQueue
Results == mxResultQueue
Holding(t) == message[t] # NoMessage

InQueue(m) == \E a \in Actors : \E i \in 1 .. Len(Queue[a]) : m = Queue[a][i]
InHands(m) == \E t \in Threads : Holding(t) /\ m = message[t]
InResults(m) == \E t \in Threads : \E n \in 1 .. Len(Results[t]) : m = Results[t][n]
InTransit(m) == InQueue(m) \/ InHands(m) \/ InResults(m)

Before(m, n) == m.to = n.to => m.index < n.index
Sent(m) == m.index < index
NotEnded(m) == lastEnded[m.to] < m.index

AtHome ==
    /\ \A a \in Actors : \A i \in 1 .. Len(Queue[a]) : Queue[a][i].to = a
    /\ \A t \in Threads : Holding(t) => ThreadOf(message[t].to) = t
    /\ \A t \in Threads : \A n \in 1 .. Len(Results[t]) : ThreadOf(Results[t][n].to) = t

QueueOrdered ==
    \A a \in Actors : \A i, j \in 1 .. Len(Queue[a]) : i < j => Before(Queue[a][i], Queue[a][j])

HandsBeforeQueue ==
    \A t \in Threads : Holding(t) => \A m : InQueue(m) => Before(message[t], m)

ResultsBeforeRest ==
    \A t \in Threads : \A n \in 1 .. Len(Results[t]) :
        /\ \A m : InQueue(m) => Before(Results[t][n], m)
        /\ Holding(t) => Before(Results[t][n], message[t])

ResultsOrdered ==
    \A t \in Threads : \A i, j \in 1 .. Len(Results[t]) :
        i < j => Before(Results[t][i], Results[t][j])

Counted ==
    /\ \A m : InTransit(m) => Sent(m) /\ NotEnded(m)
    /\ \A a \in Actors : lastEnded[a] < index

Ordered == QueueOrdered /\ HandsBeforeQueue /\ ResultsBeforeRest /\ ResultsOrdered /\ Counted

IInv2 == IInv1 /\ AtHome /\ Ordered

travelVars == <<mMessageQueue, message, mxResultQueue, index, lastEnded>>

\* The types the steps below use.
LEMMA TravelTypes ==
    ASSUME TypeOK
    PROVE  /\ index \in Int
           /\ \A a \in Actors : Queue[a] \in Seq(NFActorMessage) /\ lastEnded[a] \in Int
           /\ \A t \in Threads : Results[t] \in Seq(NFActorMessage)
           /\ \A m : InTransit(m) => m \in NFActorMessage
           /\ \A m \in NFActorMessage : m.to \in Actors /\ m.index \in Int
  <1>1. \A m \in NFActorMessage : m.to \in Actors /\ m.index \in Int
    BY DEF NFActorMessage
  <1>2. \A m : InTransit(m) => m \in NFActorMessage
    BY DEF TypeOK, InTransit, InQueue, InHands, InResults, Queue, Results, Holding
  <1> QED
    BY <1>1, <1>2 DEF TypeOK, Queue, Results

\* What Append and Tail do to a function of sequences.
LEMMA AppendTo ==
    ASSUME NEW S, NEW D, NEW f \in [D -> Seq(S)], NEW d \in D, NEW e \in S,
           NEW g, g = [f EXCEPT ![d] = Append(@, e)]
    PROVE  /\ Len(f[d]) \in Nat
           /\ \A c \in D : c # d => g[c] = f[c]
           /\ Len(g[d]) = Len(f[d]) + 1
           /\ g[d][Len(f[d]) + 1] = e
           /\ \A i \in 1 .. Len(f[d]) : g[d][i] = f[d][i]
           /\ \A i \in 1 .. Len(g[d]) : i \in 1 .. Len(f[d]) \/ i = Len(f[d]) + 1
  <1>1. g[d] = Append(f[d], e) /\ f[d] \in Seq(S)
    OBVIOUS
  <1>2. Len(f[d]) \in Nat /\ Len(g[d]) = Len(f[d]) + 1
    BY <1>1, AppendProperties, LenProperties
  <1> QED
    BY <1>1, <1>2, AppendProperties

LEMMA TailOf ==
    ASSUME NEW S, NEW D, NEW f \in [D -> Seq(S)], NEW d \in D, f[d] # <<>>,
           NEW g, g = [f EXCEPT ![d] = Tail(@)]
    PROVE  /\ 1 \in 1 .. Len(f[d]) /\ Head(f[d]) = f[d][1]
           /\ \A c \in D : c # d => g[c] = f[c]
           /\ \A i \in 1 .. Len(g[d]) :
                 i \in Int /\ i + 1 \in 1 .. Len(f[d]) /\ g[d][i] = f[d][i + 1]
  <1>1. g[d] = Tail(f[d]) /\ f[d] \in Seq(S)
    OBVIOUS
  <1>2. Len(f[d]) \in Nat /\ Len(f[d]) # 0
    BY <1>1, EmptySeq, LenProperties
  <1>3. /\ Len(g[d]) = Len(f[d]) - 1
        /\ \A i \in 1 .. Len(g[d]) : g[d][i] = f[d][i + 1]
    BY <1>1, HeadTailProperties
  <1> QED
    BY <1>1, <1>2, <1>3

LEMMA InitOrder == Init => AtHome /\ Ordered
  <1> SUFFICES ASSUME Init PROVE AtHome /\ Ordered
    OBVIOUS
  <1>1. \A a \in Actors : Len(Queue[a]) = 0
    BY DEF Init, Queue
  <1>2. \A t \in Threads : Len(Results[t]) = 0 /\ ~Holding(t)
    BY DEF Init, Results, Holding
  <1>3. \A a \in Actors : lastEnded[a] < index
    BY DEF Init
  <1>4. \A m : ~InTransit(m)
    BY <1>1, <1>2 DEF InTransit, InQueue, InHands, InResults
  <1> QED
    BY <1>1, <1>2, <1>3, <1>4
       DEF AtHome, Ordered, QueueOrdered, HandsBeforeQueue, ResultsBeforeRest, ResultsOrdered, Counted

LEMMA StillOrdered ==
    ASSUME AtHome, Ordered, UNCHANGED travelVars
    PROVE  AtHome' /\ Ordered'
  BY DEF travelVars, AtHome, Ordered, QueueOrdered, HandsBeforeQueue, ResultsBeforeRest,
         ResultsOrdered, Counted, InTransit, InQueue, InHands, InResults, Sent, NotEnded,
         Queue, Results, Holding, ThreadOf

\* The new message has an index above all others and comes last.
LEMMA SendOrdered ==
    ASSUME IInv2, NEW a \in Actors, NEW id \in MsgIDs, SendMsgToActor(a, id)
    PROVE  AtHome' /\ Ordered'
  <1> DEFINE new == [msgID |-> id, index |-> index, to |-> a]
             last == Len(Queue[a]) + 1
  <1>1. new \in NFActorMessage /\ new.to = a /\ new.index = index
    BY DEF SendMsgToActor, IInv2, IInv1, TypeOK, NFActorMessage
  <1>2. Results' = Results /\ message' = message /\ lastEnded' = lastEnded /\ index' = index + 1
    BY DEF SendMsgToActor, Results, history
  <1>3. Queue' = [Queue EXCEPT ![a] = Append(@, new)] /\ Queue \in [Actors -> Seq(NFActorMessage)]
    BY DEF SendMsgToActor, Queue, IInv2, IInv1, TypeOK
  <1> HIDE DEF new
  <1>4. /\ Len(Queue[a]) \in Nat
        /\ \A c \in Actors : c # a => Queue'[c] = Queue[c]
        /\ Queue'[a][last] = new
        /\ \A i \in 1 .. Len(Queue[a]) : Queue'[a][i] = Queue[a][i]
        /\ \A i \in 1 .. Len(Queue'[a]) : i \in 1 .. Len(Queue[a]) \/ i = last
    BY <1>1, <1>3, AppendTo
  <1>5. \A m : InQueue(m)' => InQueue(m) \/ m = new
    BY <1>4 DEF InQueue
  <1>6. \A m : InTransit(m)' => InTransit(m) \/ m = new
    BY <1>2, <1>5 DEF InTransit, InHands, InResults, Holding
  <1>7. \A m : InTransit(m) => Before(m, new)
    BY <1>1 DEF Before, IInv2, Ordered, Counted, Sent
  <1>8. AtHome'
    BY <1>1, <1>2, <1>4 DEF IInv2, AtHome, Holding, ThreadOf
  <1>9. QueueOrdered'
    <2> SUFFICES ASSUME NEW c \in Actors, NEW i \in 1 .. Len(Queue'[c]),
                        NEW j \in 1 .. Len(Queue'[c]), i < j
                 PROVE  Before(Queue'[c][i], Queue'[c][j])
      BY DEF QueueOrdered, Before
    <2>1. CASE c # a
      BY <2>1, <1>4 DEF IInv2, Ordered, QueueOrdered
    <2>2. CASE c = a /\ j # last
      BY <2>2, <1>4 DEF IInv2, Ordered, QueueOrdered
    <2>3. CASE c = a /\ j = last
      <3>1. i \in 1 .. Len(Queue[a]) /\ InTransit(Queue[a][i])
        BY <2>3, <1>4 DEF InTransit, InQueue
      <3> QED
        BY <3>1, <2>3, <1>4, <1>7
    <2> QED
      BY <2>1, <2>2, <2>3
  <1>10. HandsBeforeQueue'
    BY <1>2, <1>5, <1>7 DEF IInv2, Ordered, HandsBeforeQueue, Holding, InTransit, InHands, Before
  <1>11. ResultsBeforeRest'
    BY <1>2, <1>5, <1>7 DEF IInv2, Ordered, ResultsBeforeRest, Holding, InTransit, InResults, Before
  <1>12. ResultsOrdered'
    BY <1>2 DEF IInv2, Ordered, ResultsOrdered, Before
  <1>13. Counted'
    BY <1>1, <1>2, <1>6, TravelTypes DEF IInv2, IInv1, Ordered, Counted, Sent, NotEnded
  <1> QED
    BY <1>8, <1>9, <1>10, <1>11, <1>12, <1>13 DEF Ordered

\* The head of the queue passes into the hands of the actor's own worker,
\* whose results of that actor are all older.
LEMMA TryPopOrdered ==
    ASSUME IInv2, NEW w \in Threads, TryPopMessage(w)
    PROVE  AtHome' /\ Ordered'
  <1> DEFINE a == Self(w)
             m == Queue[a][1]
  <1>1. a \in Actors /\ ThreadOf(a) = w
    BY DEF TryPopMessage, IInv2, IInv1, Pinned
  <1>2. Results' = Results /\ index' = index /\ lastEnded' = lastEnded
    BY DEF TryPopMessage, Results, history
  <1>3. /\ Queue[a] # <<>> /\ Queue \in [Actors -> Seq(NFActorMessage)]
        /\ Queue' = [Queue EXCEPT ![a] = Tail(@)]
        /\ message' = [message EXCEPT ![w] = Head(Queue[a])]
        /\ message \in [Threads -> NFActorMessage \cup {NoMessage}]
    BY DEF TryPopMessage, Queue, IInv2, IInv1, TypeOK
  <1> HIDE DEF a
  <1>4. /\ 1 \in 1 .. Len(Queue[a]) /\ Head(Queue[a]) = m
        /\ \A c \in Actors : c # a => Queue'[c] = Queue[c]
        /\ \A i \in 1 .. Len(Queue'[a]) :
              i \in Int /\ i + 1 \in 1 .. Len(Queue[a]) /\ Queue'[a][i] = Queue[a][i + 1]
    BY <1>1, <1>3, TailOf
  <1>5. InQueue(m) /\ m.to = a
    BY <1>1, <1>4 DEF InQueue, IInv2, AtHome
  <1> HIDE DEF m
  <1>6. message'[w] = m /\ \A t \in Threads : t # w => message'[t] = message[t]
    BY <1>3, <1>4
  <1>7. \A x : InQueue(x)' => InQueue(x)
    BY <1>1, <1>4 DEF InQueue
  <1>8. \A x : InTransit(x)' => InTransit(x)
    BY <1>2, <1>5, <1>6, <1>7 DEF InTransit, InHands, InResults, Holding
  <1>9. AtHome'
    <2>1. \A c \in Actors : \A i \in 1 .. Len(Queue'[c]) : Queue'[c][i].to = c
      <3> SUFFICES ASSUME NEW c \in Actors, NEW i \in 1 .. Len(Queue'[c])
                   PROVE  Queue'[c][i].to = c
        OBVIOUS
      <3>1. CASE c # a
        BY <3>1, <1>4 DEF IInv2, AtHome
      <3>2. CASE c = a
        BY <3>2, <1>1, <1>4 DEF IInv2, AtHome
      <3> QED
        BY <3>1, <3>2
    <2>2. \A t \in Threads : Holding(t)' => ThreadOf(message'[t].to) = t
      BY <1>1, <1>5, <1>6 DEF IInv2, AtHome, Holding
    <2> QED
      BY <2>1, <2>2, <1>2 DEF IInv2, AtHome, ThreadOf
  <1>10. QueueOrdered'
    <2> SUFFICES ASSUME NEW c \in Actors, NEW i \in 1 .. Len(Queue'[c]),
                        NEW j \in 1 .. Len(Queue'[c]), i < j
                 PROVE  Before(Queue'[c][i], Queue'[c][j])
      BY DEF QueueOrdered, Before
    <2>1. CASE c # a
      BY <2>1, <1>4 DEF IInv2, Ordered, QueueOrdered
    <2>2. CASE c = a
      BY <2>2, <1>1, <1>4 DEF IInv2, Ordered, QueueOrdered
    <2> QED
      BY <2>1, <2>2
  <1>11. HandsBeforeQueue'
    <2> SUFFICES ASSUME NEW t \in Threads, Holding(t)', NEW x, InQueue(x)'
                 PROVE  Before(message'[t], x)
      BY DEF HandsBeforeQueue, Before
    <2>1. CASE t = w
      <3>c. PICK c \in Actors : \E i \in 1 .. Len(Queue'[c]) : x = Queue'[c][i]
        BY DEF InQueue
      <3>1. PICK i \in 1 .. Len(Queue'[c]) : x = Queue'[c][i]
        BY <3>c
      <3>2. CASE c # a
        <4>1. x.to # a
          BY <3>1, <3>2, <1>4 DEF IInv2, AtHome
        <4> QED
          BY <4>1, <2>1, <1>5, <1>6 DEF Before
      <3>3. CASE c = a
        <4>1. i + 1 \in 1 .. Len(Queue[a]) /\ x = Queue[a][i + 1] /\ 1 < i + 1
          BY <3>1, <3>3, <1>4
        <4> QED
          BY <4>1, <2>1, <1>1, <1>4, <1>6 DEF m, IInv2, Ordered, QueueOrdered
      <3> QED
        BY <3>2, <3>3
    <2>2. CASE t # w
      BY <2>2, <1>6, <1>7 DEF IInv2, Ordered, HandsBeforeQueue, Holding
    <2> QED
      BY <2>1, <2>2
  <1>12. ResultsBeforeRest'
    BY <1>2, <1>5, <1>6, <1>7 DEF IInv2, Ordered, ResultsBeforeRest, Holding, Before
  <1>13. ResultsOrdered'
    BY <1>2 DEF IInv2, Ordered, ResultsOrdered, Before
  <1>14. Counted'
    BY <1>2, <1>8 DEF IInv2, Ordered, Counted, Sent, NotEnded
  <1> QED
    BY <1>9, <1>10, <1>11, <1>12, <1>13, <1>14 DEF Ordered

\* What was in the worker's hands becomes the last of its results.
LEMMA RunHandlerOrdered ==
    ASSUME IInv2, NEW w \in Threads, RunHandler(w)
    PROVE  AtHome' /\ Ordered'
  <1> DEFINE m == message[w]
             last == Len(Results[w]) + 1
  <1>1. /\ Holding(w) /\ m \in NFActorMessage
        /\ ~Holding(w)'
        /\ \A t \in Threads : t # w => message'[t] = message[t]
    BY DEF RunHandler, Holding, IInv2, IInv1, TypeOK
  <1>2. Queue' = Queue /\ index' = index /\ lastEnded' = lastEnded
    BY DEF RunHandler, Queue, history
  <1>3. /\ Results' = [Results EXCEPT ![w] = Append(@, m)]
        /\ Results \in [Threads -> Seq(NFActorMessage)]
    BY DEF RunHandler, Results, IInv2, IInv1, TypeOK
  <1> HIDE DEF m
  <1>4. /\ Len(Results[w]) \in Nat
        /\ \A t \in Threads : t # w => Results'[t] = Results[t]
        /\ Results'[w][last] = m
        /\ \A i \in 1 .. Len(Results[w]) : Results'[w][i] = Results[w][i]
        /\ \A i \in 1 .. Len(Results'[w]) : i \in 1 .. Len(Results[w]) \/ i = last
    BY <1>1, <1>3, AppendTo
  <1>5. InHands(m)
    BY <1>1 DEF m, InHands
  <1>6. \A x : InTransit(x)' => InTransit(x)
    BY <1>1, <1>2, <1>4, <1>5 DEF InTransit, InQueue, InHands, InResults, Holding
  <1>7. AtHome'
    <2>1. \A t \in Threads : Holding(t)' => ThreadOf(message'[t].to) = t
      BY <1>1 DEF IInv2, AtHome, Holding
    <2>2. ThreadOf(m.to) = w
      BY <1>1 DEF m, IInv2, AtHome
    <2>3. \A t \in Threads : \A n \in 1 .. Len(Results'[t]) : ThreadOf(Results'[t][n].to) = t
      BY <2>2, <1>4 DEF IInv2, AtHome
    <2> QED
      BY <2>1, <2>3, <1>2 DEF IInv2, AtHome, ThreadOf
  <1>8. QueueOrdered'
    BY <1>2 DEF IInv2, Ordered, QueueOrdered, Before
  <1>9. HandsBeforeQueue'
    BY <1>1, <1>2 DEF IInv2, Ordered, HandsBeforeQueue, Holding, InQueue, Before
  <1>10. ResultsBeforeRest'
    <2> SUFFICES ASSUME NEW t \in Threads, NEW n \in 1 .. Len(Results'[t])
                 PROVE  /\ \A x : InQueue(x) => Before(Results'[t][n], x)
                        /\ Holding(t)' => Before(Results'[t][n], message'[t])
      BY <1>2 DEF ResultsBeforeRest, InQueue, Before
    <2>1. CASE t # w
      BY <2>1, <1>1, <1>4 DEF IInv2, Ordered, ResultsBeforeRest, Holding
    <2>2. CASE t = w /\ n # last
      BY <2>2, <1>1, <1>4 DEF IInv2, Ordered, ResultsBeforeRest
    <2>3. CASE t = w /\ n = last
      BY <2>3, <1>1, <1>4 DEF m, IInv2, Ordered, HandsBeforeQueue
    <2> QED
      BY <2>1, <2>2, <2>3
  <1>11. ResultsOrdered'
    <2> SUFFICES ASSUME NEW t \in Threads, NEW i \in 1 .. Len(Results'[t]),
                        NEW j \in 1 .. Len(Results'[t]), i < j
                 PROVE  Before(Results'[t][i], Results'[t][j])
      BY DEF ResultsOrdered, Before
    <2>1. CASE t # w
      BY <2>1, <1>4 DEF IInv2, Ordered, ResultsOrdered
    <2>2. CASE t = w /\ j # last
      BY <2>2, <1>4 DEF IInv2, Ordered, ResultsOrdered
    <2>3. CASE t = w /\ j = last
      BY <2>3, <1>1, <1>4 DEF m, IInv2, Ordered, ResultsBeforeRest
    <2> QED
      BY <2>1, <2>2, <2>3
  <1>12. Counted'
    BY <1>2, <1>6 DEF IInv2, Ordered, Counted, Sent, NotEnded
  <1> QED
    BY <1>7, <1>8, <1>9, <1>10, <1>11, <1>12 DEF Ordered

LEMMA DropOrdered ==
    ASSUME IInv2, NEW w \in Threads, DropMessage(w)
    PROVE  AtHome' /\ Ordered'
  <1>1. ~Holding(w)' /\ \A t \in Threads : t # w => message'[t] = message[t]
    BY DEF DropMessage, Holding, IInv2, IInv1, TypeOK
  <1>2. Queue' = Queue /\ Results' = Results /\ index' = index /\ lastEnded' = lastEnded
    BY DEF DropMessage, Queue, Results
  <1>3. \A x : InTransit(x)' => InTransit(x)
    BY <1>1, <1>2 DEF InTransit, InQueue, InHands, InResults, Holding
  <1>4. AtHome'
    <2>1. \A t \in Threads : Holding(t)' => ThreadOf(message'[t].to) = t
      BY <1>1 DEF IInv2, AtHome, Holding
    <2> QED
      BY <2>1, <1>2 DEF IInv2, AtHome, ThreadOf
  <1>6. QueueOrdered' /\ ResultsOrdered'
    BY <1>2 DEF IInv2, Ordered, QueueOrdered, ResultsOrdered, Before
  <1>7. HandsBeforeQueue' /\ ResultsBeforeRest'
    BY <1>1, <1>2 DEF IInv2, Ordered, HandsBeforeQueue, ResultsBeforeRest, InQueue, Before, Holding
  <1>5. Counted'
    BY <1>2, <1>3 DEF IInv2, Ordered, Counted, Sent, NotEnded
  <1> QED
    BY <1>4, <1>5, <1>6, <1>7 DEF Ordered

\* The oldest result of a worker is older than all its actor still has
\* anywhere, and younger than the last one that ended.
LEMMA ResultOrdered ==
    ASSUME IInv2, NEW w \in Threads, ExecuteResultEvent(w)
    PROVE  /\ AtHome' /\ Ordered'
           /\ \A a \in Actors : lastEnded'[a] # lastEnded[a] => lastEnded'[a] > lastEnded[a]
  <1> DEFINE m == Results[w][1]
  <1>1. Queue' = Queue /\ message' = message /\ index' = index
    BY DEF ExecuteResultEvent, Queue, actorVars
  <1>2. /\ Results[w] # <<>> /\ Results \in [Threads -> Seq(NFActorMessage)]
        /\ Results' = [Results EXCEPT ![w] = Tail(@)]
        /\ \/ lastEnded' = lastEnded
           \/ lastEnded' = [lastEnded EXCEPT ![Head(Results[w]).to] = Head(Results[w]).index]
        /\ lastEnded \in [Actors -> Int]
    BY DEF ExecuteResultEvent, Results, IInv2, IInv1, TypeOK
  <1>3. /\ 1 \in 1 .. Len(Results[w]) /\ Head(Results[w]) = m
        /\ \A t \in Threads : t # w => Results'[t] = Results[t]
        /\ \A i \in 1 .. Len(Results'[w]) :
              i \in Int /\ i + 1 \in 1 .. Len(Results[w]) /\ Results'[w][i] = Results[w][i + 1]
    BY <1>2, TailOf
  <1>4. InTransit(m) /\ m \in NFActorMessage /\ m.to \in Actors /\ m.index \in Int
    BY <1>3, TravelTypes DEF InTransit, InResults, IInv2, IInv1
  <1>5. Sent(m) /\ NotEnded(m) /\ ThreadOf(m.to) = w
    BY <1>3, <1>4 DEF IInv2, Ordered, Counted, AtHome
  <1>6. /\ \A a \in Actors : a # m.to => lastEnded'[a] = lastEnded[a]
        /\ lastEnded'[m.to] \in {lastEnded[m.to], m.index}
    BY <1>2, <1>3, <1>4
  <1>7. \A x : InTransit(x)' => InTransit(x) /\ Before(m, x)
    <2> SUFFICES ASSUME NEW x, InTransit(x)' PROVE InTransit(x) /\ Before(m, x)
      OBVIOUS
    <2>1. CASE InQueue(x)'
      <3>1. InQueue(x)
        BY <2>1, <1>1 DEF InQueue
      <3> QED
        BY <3>1, <1>3 DEF InTransit, IInv2, Ordered, ResultsBeforeRest
    <2>2. CASE InHands(x)'
      <3>1. PICK t \in Threads : Holding(t) /\ x = message[t]
        BY <2>2, <1>1 DEF InHands, Holding
      <3>2. t = w \/ x.to # m.to
        BY <3>1, <1>5 DEF IInv2, AtHome
      <3>3. Before(m, x)
        BY <3>1, <3>2, <1>3 DEF IInv2, Ordered, ResultsBeforeRest, Before
      <3> QED
        BY <3>1, <3>3 DEF InTransit, InHands
    <2>3. CASE InResults(x)'
      <3>t. PICK t \in Threads : \E n \in 1 .. Len(Results'[t]) : x = Results'[t][n]
        BY <2>3 DEF InResults
      <3>1. PICK n \in 1 .. Len(Results'[t]) : x = Results'[t][n]
        BY <3>t
      <3>2. CASE t # w
        <4>1. n \in 1 .. Len(Results[t]) /\ x = Results[t][n]
          BY <3>1, <3>2, <1>3
        <4>2. x.to # m.to
          BY <4>1, <3>2, <1>5 DEF IInv2, AtHome
        <4> QED
          BY <4>1, <4>2 DEF InTransit, InResults, Before
      <3>3. CASE t = w
        <4>1. n + 1 \in 1 .. Len(Results[w]) /\ x = Results[w][n + 1] /\ 1 < n + 1
          BY <3>1, <3>3, <1>3
        <4>2. Before(m, x)
          BY <4>1, <1>3 DEF IInv2, Ordered, ResultsOrdered
        <4> QED
          BY <4>1, <4>2 DEF InTransit, InResults
      <3> QED
        BY <3>2, <3>3
    <2> QED
      BY <2>1, <2>2, <2>3 DEF InTransit
  <1> HIDE DEF m
  <1>8. AtHome'
    <2>1. \A t \in Threads : \A n \in 1 .. Len(Results'[t]) : ThreadOf(Results'[t][n].to) = t
      BY <1>3 DEF IInv2, AtHome
    <2> QED
      BY <2>1, <1>1 DEF IInv2, AtHome, Holding, ThreadOf
  <1>9. QueueOrdered' /\ HandsBeforeQueue'
    BY <1>1 DEF IInv2, Ordered, QueueOrdered, HandsBeforeQueue, InQueue, Holding, Before
  <1>10. ResultsBeforeRest'
    <2>1. \A t \in Threads : \A n \in 1 .. Len(Results'[t]) :
              \E k \in 1 .. Len(Results[t]) : Results'[t][n] = Results[t][k]
      BY <1>3
    <2> SUFFICES ASSUME NEW t \in Threads, NEW n \in 1 .. Len(Results'[t])
                 PROVE  /\ \A x : InQueue(x) => Before(Results'[t][n], x)
                        /\ Holding(t) => Before(Results'[t][n], message[t])
      BY <1>1 DEF ResultsBeforeRest, InQueue, Holding, Before
    <2>2. PICK k \in 1 .. Len(Results[t]) : Results'[t][n] = Results[t][k]
      BY <2>1
    <2> QED
      BY <2>2 DEF IInv2, Ordered, ResultsBeforeRest
  <1>11. ResultsOrdered'
    <2> SUFFICES ASSUME NEW t \in Threads, NEW i \in 1 .. Len(Results'[t]),
                        NEW j \in 1 .. Len(Results'[t]), i < j
                 PROVE  Before(Results'[t][i], Results'[t][j])
      BY DEF ResultsOrdered, Before
    <2>1. CASE t # w
      BY <2>1, <1>3 DEF IInv2, Ordered, ResultsOrdered
    <2>2. CASE t = w
      <3>1. /\ i + 1 \in 1 .. Len(Results[w]) /\ Results'[w][i] = Results[w][i + 1]
            /\ j + 1 \in 1 .. Len(Results[w]) /\ Results'[w][j] = Results[w][j + 1]
            /\ i + 1 < j + 1
        BY <2>2, <1>3
      <3> QED
        BY <3>1, <2>2 DEF IInv2, Ordered, ResultsOrdered
    <2> QED
      BY <2>1, <2>2
  <1>12. \A x : InTransit(x)' => Sent(x)' /\ NotEnded(x)'
    <2> SUFFICES ASSUME NEW x, InTransit(x)' PROVE Sent(x)' /\ NotEnded(x)'
      OBVIOUS
    <2>1. Sent(x) /\ NotEnded(x) /\ Before(m, x) /\ x.to \in Actors
      BY <1>7, TravelTypes DEF IInv2, IInv1, Ordered, Counted
    <2> QED
      BY <2>1, <1>1, <1>6 DEF Sent, NotEnded, Before
  <1>13. Counted'
    BY <1>1, <1>4, <1>5, <1>6, <1>12 DEF IInv2, Ordered, Counted, Sent
  <1>14. \A a \in Actors : lastEnded'[a] # lastEnded[a] => lastEnded'[a] > lastEnded[a]
    BY <1>2, <1>4, <1>5, <1>6 DEF NotEnded
  <1> QED
    BY <1>8, <1>9, <1>10, <1>11, <1>13, <1>14 DEF Ordered

\* Every step keeps the order, and only a result that is taken ends a message.
LEMMA StepOrdered ==
    ASSUME IInv2, [Next]_vars
    PROVE  /\ AtHome' /\ Ordered'
           /\ \A a \in Actors : lastEnded'[a] # lastEnded[a] => lastEnded'[a] > lastEnded[a]
  <1>1. ASSUME UNCHANGED travelVars
        PROVE  /\ AtHome' /\ Ordered'
               /\ \A a \in Actors : lastEnded'[a] # lastEnded[a] => lastEnded'[a] > lastEnded[a]
    BY <1>1, StillOrdered DEF IInv2, travelVars
  <1>2. ASSUME NEW a \in Actors, NEW id \in MsgIDs, SendMsgToActor(a, id)
        PROVE  AtHome' /\ Ordered' /\ lastEnded' = lastEnded
    BY <1>2, SendOrdered DEF SendMsgToActor, history
  <1>3. ASSUME \/ \E a \in Actors, handled \in Handlers : RequireActor(a, handled)
               \/ \E a \in Actors : ReleaseActor(a)
               \/ \E id \in JobIDs, withEnd \in BOOLEAN : SubmitJob(id, withEnd)
               \/ BeforeShut
        PROVE  UNCHANGED travelVars
    BY <1>3 DEF RequireActor, ReleaseActor, SubmitJob, BeforeShut, travelVars, queueVars, history
  <1>4. ASSUME \/ ExecuteEvent \/ ExecuteEventTooEarly \/ ExecuteEventDone
               \/ \E a \in Actors : ScheduleActor(a)
               \/ ExecuteResultEventDone \/ ExecuteTaskResultDone
               \/ \E t \in Threads : ExecuteTaskResult(t)
        PROVE  UNCHANGED travelVars
    BY <1>4 DEF ExecuteEvent, ExecuteEventTooEarly, ExecuteEventDone, ScheduleActor,
                ExecuteResultEventDone, ExecuteTaskResultDone, ExecuteTaskResult,
                travelVars, queueVars, history
  <1>5. ASSUME NEW t \in Threads, ExecuteResultEvent(t)
        PROVE  /\ AtHome' /\ Ordered'
               /\ \A a \in Actors : lastEnded'[a] # lastEnded[a] => lastEnded'[a] > lastEnded[a]
    BY <1>5, ResultOrdered
  <1>6. ASSUME NEW t \in Threads, TakeTask(t) \/ RunJob(t) \/ ExecuteReturns(t)
        PROVE  UNCHANGED travelVars
    BY <1>6 DEF TakeTask, RunJob, ExecuteReturns, travelVars, queueVars, history
  <1>7. ASSUME NEW t \in Threads, TryPopMessage(t) \/ RunHandler(t) \/ DropMessage(t)
        PROVE  AtHome' /\ Ordered' /\ lastEnded' = lastEnded
    BY <1>7, TryPopOrdered, RunHandlerOrdered, DropOrdered
       DEF TryPopMessage, RunHandler, DropMessage, history
  <1>8. CASE UNCHANGED vars
    BY <1>8, <1>1 DEF vars, travelVars, queueVars, history
  <1>9. CASE MainLoop
    BY <1>9, <1>1, <1>4, <1>5 DEF MainLoop
  <1>10. ASSUME NEW t \in Threads, Worker(t)
         PROVE  /\ AtHome' /\ Ordered'
                /\ \A a \in Actors : lastEnded'[a] # lastEnded[a] => lastEnded'[a] > lastEnded[a]
    BY <1>10, <1>1, <1>6, <1>7 DEF Worker
  <1> QED
    BY <1>1, <1>2, <1>3, <1>8, <1>9, <1>10 DEF Next

\* The end functors of an actor's messages run in the order in which the
\* messages were sent and never twice: NFActor::Execute and
\* ExecuteResultEvent, whatever the number of workers and actors.
THEOREM InSendOrder == Spec => EndsInSendOrder
  <1>1. Init => IInv2
    BY InitIInv1, InitOrder DEF IInv2
  <1>2. IInv2 /\ [Next]_vars => IInv2'
    BY StepTypeOK, StepPinned, StepOrdered DEF IInv2, IInv1
  <1>3. IInv2 /\ [Next]_vars =>
            [\A a \in Actors : lastEnded'[a] # lastEnded[a] => lastEnded'[a] > lastEnded[a]]_vars
    BY StepOrdered
  <1> QED
    BY <1>1, <1>2, <1>3, PTL DEF Spec, EndsInSendOrder

-------------------------------------------------------------------------------
(* The places of a message. *)

\* A message with index i is in the sequence of d, at place p.
FoundIn(seqs, D, kind, i, p) ==
    \E d \in D : \E n \in 1 .. Len(seqs[d]) : seqs[d][n].index = i /\ p = <<kind, d, n>>

InQueueAt(i, p) == FoundIn(Queue, Actors, "mailbox", i, p)
InResultsAt(i, p) == FoundIn(Results, Threads, "result", i, p)
InHandsAt(i, p) == \E t \in Threads : Holding(t) /\ message[t].index = i /\ p = <<"handling", t>>
DroppedAt(i, p) == \E m \in dropped : m.index = i /\ p = <<"dropped", m>>
DeliveredAt(i, p) == \E m \in delivered : m.index = i /\ p = <<"delivered", m>>

\* Message i is at p.
At(i, p) ==
    InQueueAt(i, p) \/ InResultsAt(i, p) \/ InHandsAt(i, p) \/ DroppedAt(i, p) \/ DeliveredAt(i, p)

Once(i) == \E p : \A q : At(i, q) <=> q = p

OncePlaced ==
    \A i \in Nat : IF i < index THEN Once(i) ELSE \A p : ~At(i, p)

IInv4 == IInv1 /\ OncePlaced

placeVars == <<mMessageQueue, message, mxResultQueue, index, dropped, delivered>>

-------------------------------------------------------------------------------
(* Sequences of messages. *)

\* What a place is called when the head of the sequence of d has left.
Up(kind, d, p) == IF p[1] = kind /\ p[2] = d THEN <<kind, d, p[3] - 1>> ELSE p

Added(f, d, e) == [f EXCEPT ![d] = Append(@, e)]
HeadTaken(f, d) == [f EXCEPT ![d] = Tail(@)]

LEMMA AppendFound ==
    ASSUME NEW S, NEW D, NEW f \in [D -> Seq(S)], NEW d \in D, NEW e \in S, NEW kind, NEW i, NEW p
    PROVE  FoundIn(Added(f, d, e), D, kind, i, p) <=>
                FoundIn(f, D, kind, i, p) \/ (i = e.index /\ p = <<kind, d, Len(f[d]) + 1>>)
<1> DEFINE g == Added(f, d, e)
           last == Len(f[d]) + 1
<1>0. g = [f EXCEPT ![d] = Append(@, e)]
    BY DEF Added
<1> HIDE DEF g
<1>1. /\ Len(f[d]) \in Nat
      /\ \A c \in D : c # d => g[c] = f[c]
      /\ Len(g[d]) = last /\ g[d][last] = e
      /\ \A n \in 1 .. Len(f[d]) : g[d][n] = f[d][n]
      /\ \A n \in 1 .. Len(g[d]) : n \in 1 .. Len(f[d]) \/ n = last
    BY <1>0, AppendTo
<1>2. last \in 1 .. Len(g[d]) /\ \A n \in 1 .. Len(f[d]) : n \in 1 .. Len(g[d])
    BY <1>1
<1> HIDE DEF last
<1>3. ASSUME FoundIn(g, D, kind, i, p)
      PROVE  FoundIn(f, D, kind, i, p) \/ (i = e.index /\ p = <<kind, d, last>>)
    BY <1>1, <1>3 DEF FoundIn
<1>4. ASSUME FoundIn(f, D, kind, i, p)
      PROVE  FoundIn(g, D, kind, i, p)
    BY <1>1, <1>2, <1>4 DEF FoundIn
<1>5. ASSUME i = e.index, p = <<kind, d, last>>
      PROVE  FoundIn(g, D, kind, i, p)
    BY <1>1, <1>2, <1>5 DEF FoundIn
<1> QED BY <1>3, <1>4, <1>5 DEF g, last

LEMMA TailFound ==
    ASSUME NEW S, NEW D, NEW f \in [D -> Seq(S)], NEW d \in D, f[d] # <<>>,
           NEW kind, NEW i, NEW p
    PROVE  FoundIn(HeadTaken(f, d), D, kind, i, p) <=>
                \E q : FoundIn(f, D, kind, i, q) /\ q # <<kind, d, 1>> /\ p = Up(kind, d, q)
<1> DEFINE g == HeadTaken(f, d)
<1>0. g = [f EXCEPT ![d] = Tail(@)]
    BY DEF HeadTaken
<1> HIDE DEF g
<1>1. /\ \A c \in D : c # d => g[c] = f[c]
      /\ \A n \in 1 .. Len(g[d]) :
            n \in Int /\ n + 1 \in 1 .. Len(f[d]) /\ g[d][n] = f[d][n + 1]
    BY <1>0, TailOf
<1>2. \A n \in 1 .. Len(f[d]) : n # 1 => n - 1 \in 1 .. Len(g[d])
    <2>1. g[d] = Tail(f[d]) /\ f[d] \in Seq(S)
        BY <1>0
    <2>2. Len(g[d]) = Len(f[d]) - 1 /\ Len(f[d]) \in Nat
        BY <2>1, HeadTailProperties, LenProperties
    <2> QED BY <2>2
<1>3. ASSUME FoundIn(g, D, kind, i, p)
      PROVE  \E q : FoundIn(f, D, kind, i, q) /\ q # <<kind, d, 1>> /\ p = Up(kind, d, q)
    <2>c. PICK c \in D : \E n \in 1 .. Len(g[c]) : g[c][n].index = i /\ p = <<kind, c, n>>
        BY <1>3 DEF FoundIn
    <2>1. PICK n \in 1 .. Len(g[c]) : g[c][n].index = i /\ p = <<kind, c, n>>
        BY <2>c
    <2>2. CASE c = d
        <3> DEFINE q == <<kind, d, n + 1>>
        <3>1. n \in Int /\ n + 1 \in 1 .. Len(f[d]) /\ f[d][n + 1].index = i /\ n # 0
            BY <2>1, <2>2, <1>1
        <3>2. q # <<kind, d, 1>> /\ FoundIn(f, D, kind, i, q)
            BY <3>1 DEF FoundIn
        <3>3. Up(kind, d, q) = p
            BY <3>1, <2>1, <2>2 DEF Up
        <3> QED BY <3>2, <3>3
    <2>3. CASE c # d
        <3>1. p # <<kind, d, 1>> /\ FoundIn(f, D, kind, i, p)
            BY <2>1, <2>3, <1>1 DEF FoundIn
        <3>2. Up(kind, d, p) = p
            BY <2>1, <2>3 DEF Up
        <3> QED BY <3>1, <3>2
    <2> QED BY <2>2, <2>3
<1>4. ASSUME NEW q, FoundIn(f, D, kind, i, q), q # <<kind, d, 1>>, p = Up(kind, d, q)
      PROVE  FoundIn(g, D, kind, i, p)
    <2>c. PICK c \in D : \E n \in 1 .. Len(f[c]) : f[c][n].index = i /\ q = <<kind, c, n>>
        BY <1>4 DEF FoundIn
    <2>1. PICK n \in 1 .. Len(f[c]) : f[c][n].index = i /\ q = <<kind, c, n>>
        BY <2>c
    <2>2. CASE c = d
        <3>1. n # 1
            BY <1>4, <2>1, <2>2
        <3>2. n - 1 \in 1 .. Len(g[d]) /\ g[d][n - 1] = f[d][n]
            <4>1. n - 1 \in 1 .. Len(g[d])
                BY <2>1, <2>2, <3>1, <1>2
            <4>2. g[d][n - 1] = f[d][n - 1 + 1] /\ n - 1 + 1 = n
                BY <4>1, <1>1
            <4> QED BY <4>1, <4>2
        <3>3. q[1] = kind /\ q[2] = d /\ q[3] = n
            BY <2>1, <2>2
        <3>4. p = <<kind, d, n - 1>> /\ g[d][n - 1].index = i
            BY <1>4, <2>1, <2>2, <3>2, <3>3 DEF Up
        <3> QED BY <3>2, <3>4 DEF FoundIn
    <2>3. CASE c # d
        <3>1. q[1] = kind /\ q[2] = c
            BY <2>1
        <3>2. p = <<kind, c, n>> /\ n \in 1 .. Len(g[c]) /\ g[c][n].index = i
            BY <1>1, <1>4, <2>1, <2>3, <3>1 DEF Up
        <3> QED BY <3>2 DEF FoundIn
    <2> QED BY <2>2, <2>3
<1> QED BY <1>3, <1>4 DEF g

\* A place that is not of this kind keeps its name.
LEMMA OthersStay ==
    ASSUME NEW kind, NEW d, NEW i, NEW p,
           \/ kind # "mailbox" /\ InQueueAt(i, p)
           \/ kind # "result" /\ InResultsAt(i, p)
           \/ kind # "handling" /\ InHandsAt(i, p)
           \/ kind # "dropped" /\ DroppedAt(i, p)
           \/ kind # "delivered" /\ DeliveredAt(i, p)
    PROVE  Up(kind, d, p) = p
<1>1. p[1] # kind
    BY DEF InQueueAt, InResultsAt, InHandsAt, DroppedAt, DeliveredAt, FoundIn
<1> QED BY <1>1 DEF Up

-------------------------------------------------------------------------------
\* Places of a message that is at one place.
LEMMA PlacesOfOnce ==
    ASSUME TypeOK, NEW i, NEW p, \A q : At(i, q) <=> q = p
    PROVE  Places(i) = {p}
<1>1. /\ \A a \in Actors : DOMAIN Queue[a] = 1 .. Len(Queue[a])
      /\ \A t \in Threads : DOMAIN Results[t] = 1 .. Len(Results[t])
    BY DEF TypeOK, Queue, Results
<1>2. \A q : q \in PlacesIn(Queue, "mailbox", Actors, i) <=> InQueueAt(i, q)
    BY <1>1 DEF InQueueAt, FoundIn, PlacesIn
<1>3. \A q : q \in PlacesIn(Results, "result", Threads, i) <=> InResultsAt(i, q)
    BY <1>1 DEF InResultsAt, FoundIn, PlacesIn
<1>4. \A q : q \in {<<"handling", t>> : t \in {t \in Threads : Holding(t) /\ message[t].index = i}}
            <=> InHandsAt(i, q)
    BY DEF InHandsAt
<1>5. \A q : q \in {<<"dropped", m>> : m \in {m \in dropped : m.index = i}} <=> DroppedAt(i, q)
    BY DEF DroppedAt
<1>6. \A q : q \in {<<"delivered", m>> : m \in {m \in delivered : m.index = i}} <=> DeliveredAt(i, q)
    BY DEF DeliveredAt
<1>7. \A q : q \in Places(i) <=>
            \/ q \in PlacesIn(Queue, "mailbox", Actors, i)
            \/ q \in PlacesIn(Results, "result", Threads, i)
            \/ q \in {<<"handling", t>> : t \in {t \in Threads : Holding(t) /\ message[t].index = i}}
            \/ q \in {<<"dropped", m>> : m \in {m \in dropped : m.index = i}}
            \/ q \in {<<"delivered", m>> : m \in {m \in delivered : m.index = i}}
    BY Zenon DEF Places, Queue, Results, Holding
<1>8. \A q : q \in Places(i) <=> At(i, q)
    BY <1>2, <1>3, <1>4, <1>5, <1>6, <1>7 DEF At
<1> QED BY <1>8

LEMMA OncePlacedCounts == IInv4 => NothingLostOrDoubled
<1> SUFFICES ASSUME IInv4, NEW i \in 0 .. index - 1 PROVE Cardinality(Places(i)) = 1
    BY DEF NothingLostOrDoubled
<1>1. TypeOK /\ Once(i)
    BY DEF IInv4, IInv1, TypeOK, OncePlaced
<1>2. PICK p : \A q : At(i, q) <=> q = p
    BY <1>1 DEF Once
<1>3. Places(i) = {p}
    BY <1>1, <1>2, PlacesOfOnce
<1> QED BY <1>3, FS_Singleton

LEMMA InitPlaces == Init => OncePlaced
<1> SUFFICES ASSUME Init PROVE OncePlaced
    OBVIOUS
<1>1. index = 0 /\ dropped = {} /\ delivered = {}
    BY DEF Init
<1>2. \A a \in Actors : Len(Queue[a]) = 0
    BY DEF Init, Queue
<1>3. \A t \in Threads : Len(Results[t]) = 0 /\ ~Holding(t)
    BY DEF Init, Results, Holding
<1>4. \A i, p : ~At(i, p)
    BY <1>1, <1>2, <1>3 DEF At, InQueueAt, InResultsAt, FoundIn, InHandsAt, DroppedAt, DeliveredAt
<1> QED BY <1>1, <1>4 DEF OncePlaced

LEMMA StillPlaced ==
    ASSUME OncePlaced, UNCHANGED placeVars
    PROVE  OncePlaced'
<1>1. \A i, p : At(i, p)' <=> At(i, p)
    BY DEF placeVars, At, InQueueAt, InResultsAt, FoundIn, InHandsAt, DroppedAt, DeliveredAt, Queue,
        Results, Holding
<1>2. index' = index
    BY DEF placeVars
<1> QED BY <1>1, <1>2 DEF OncePlaced, Once

\* The new message is in its actor's queue; all others stay where they are.
LEMMA SendPlaces ==
    ASSUME IInv4, NEW a \in Actors, NEW id \in MsgIDs, SendMsgToActor(a, id)
    PROVE  OncePlaced'
<1>a. PICK new, last :
        new = [msgID |-> id, index |-> index, to |-> a] /\ last = Len(Queue[a]) + 1
    OBVIOUS
<1>1. new \in NFActorMessage /\ new.index = index /\ index \in Nat
    BY <1>a DEF SendMsgToActor, IInv4, IInv1, TypeOK, NFActorMessage
<1>2. /\ Results' = Results /\ message' = message /\ index' = index + 1
      /\ dropped' = dropped /\ delivered' = delivered
    BY DEF SendMsgToActor, Results, history
<1>3. Queue' = [Queue EXCEPT ![a] = Append(@, new)] /\ Queue \in [Actors -> Seq(NFActorMessage)]
    BY <1>a DEF SendMsgToActor, Queue, IInv4, IInv1, TypeOK
<1>5. \A i, p : InQueueAt(i, p)' <=> InQueueAt(i, p) \/ (i = index /\ p = <<"mailbox", a, last>>)
    <2> SUFFICES ASSUME NEW i, NEW p
                 PROVE  InQueueAt(i, p)' <=>
                            InQueueAt(i, p) \/ (i = index /\ p = <<"mailbox", a, last>>)
        OBVIOUS
    <2>1. InQueueAt(i, p)' <=> FoundIn(Added(Queue, a, new), Actors, "mailbox", i, p)
        BY <1>3 DEF InQueueAt, FoundIn, Added
    <2>2. FoundIn(Added(Queue, a, new), Actors, "mailbox", i, p) <=>
            FoundIn(Queue, Actors, "mailbox", i, p)
                \/ (i = new.index /\ p = <<"mailbox", a, last>>)
        <3>1. /\ Queue \in [Actors -> Seq(NFActorMessage)] /\ a \in Actors
              /\ new \in NFActorMessage
            BY <1>1, <1>3
        <3> QED BY <1>a, <3>1, AppendFound
    <2>3. InQueueAt(i, p) <=> FoundIn(Queue, Actors, "mailbox", i, p)
        BY DEF InQueueAt
    <2> QED BY <2>1, <2>2, <2>3, <1>1
<1>6. \A i, p : At(i, p)' <=> At(i, p) \/ (i = index /\ p = <<"mailbox", a, last>>)
    BY <1>2, <1>5 DEF At, InResultsAt, InHandsAt, DroppedAt, DeliveredAt, Holding
<1>7. ASSUME NEW i \in Nat, i < index'
      PROVE  Once(i)'
    <2>1. CASE i = index
        <3>1. \A p : ~At(i, p)
            BY <2>1, <1>1 DEF IInv4, OncePlaced
        <3>2. \A q : At(i, q)' <=> q = <<"mailbox", a, last>>
            BY <2>1, <3>1, <1>6
        <3> QED BY <3>2 DEF Once
    <2>2. CASE i # index
        <3>1. Once(i)
            BY <2>2, <1>7, <1>1, <1>2 DEF IInv4, OncePlaced
        <3> QED BY <2>2, <3>1, <1>6 DEF Once
    <2> QED BY <2>1, <2>2
<1>8. ASSUME NEW i \in Nat, ~(i < index'), NEW p
      PROVE  ~At(i, p)'
    <2>1. i # index /\ ~(i < index)
        BY <1>8, <1>1, <1>2
    <2> QED BY <2>1, <1>6 DEF IInv4, OncePlaced
<1> QED BY <1>7, <1>8 DEF OncePlaced

\* What a step does to the places of message i.
OnlyAt(i, p) == \A q : At(i, q) => q = p
MovesTo(i, p) == \A q : At(i, q)' <=> q = p
MovesUp(i, kind, d) == \A p : At(i, p)' <=> \E q : At(i, q) /\ p = Up(kind, d, q)

\* One message moves; each other one stays at its place, which may be called otherwise.
LEMMA MoveKeepsPlaces ==
    ASSUME IInv4, index' = index, NEW j \in Nat, NEW from, At(j, from), NEW to,
           OnlyAt(j, from) => MovesTo(j, to),
           NEW kind, NEW d, \A i \in Nat \ {j} : MovesUp(i, kind, d)
    PROVE  OncePlaced'
<1>1. j < index /\ Once(j)
    BY DEF IInv4, OncePlaced
<1>2. OnlyAt(j, from)
    BY <1>1 DEF Once, OnlyAt
<1>3. Once(j)'
    BY <1>2 DEF Once, MovesTo
<1>4. ASSUME NEW i \in Nat \ {j}, Once(i)
      PROVE  Once(i)'
    <2>1. PICK p : \A q : At(i, q) <=> q = p
        BY <1>4 DEF Once
    <2>2. \A q : At(i, q)' <=> q = Up(kind, d, p)
        BY <2>1 DEF MovesUp
    <2> QED BY <2>2 DEF Once
<1>5. ASSUME NEW i \in Nat \ {j}, \A q : ~At(i, q)
      PROVE  \A q : ~At(i, q)'
    BY <1>5 DEF MovesUp
<1> QED BY <1>1, <1>3, <1>4, <1>5 DEF IInv4, OncePlaced

LEMMA LeaveKeepsPlaces ==
    ASSUME IInv4, index' = index, NEW j \in Nat, NEW from, At(j, from), NEW to,
           \A q : At(j, q)' <=> (At(j, q) /\ q # from) \/ q = to,
           \A i \in Nat \ {j} : \A p : At(i, p)' <=> At(i, p)
    PROVE  OncePlaced'
<1>1. j < index /\ Once(j)
    BY DEF IInv4, OncePlaced
<1>2. \A q : At(j, q)' <=> q = to
    BY <1>1 DEF Once
<1>3. Once(j)'
    BY <1>2 DEF Once
<1>4. \A i \in Nat \ {j} : Once(i) => Once(i)'
    BY DEF Once
<1> QED BY <1>1, <1>3, <1>4 DEF IInv4, OncePlaced

\* The head of an actor's queue passes into the hands of a worker.
LEMMA TryPopPlaces ==
    ASSUME IInv4, NEW w \in Threads, TryPopMessage(w)
    PROVE  OncePlaced'
<1>a. PICK a, m : a = Self(w) /\ m = Queue[a][1]
    OBVIOUS
<1> DEFINE from == <<"mailbox", a, 1>>
           to == <<"handling", w>>
<1>1. /\ a \in Actors /\ ~Holding(w) /\ Queue[a] # <<>>
      /\ message' = [message EXCEPT ![w] = Head(Queue[a])]
      /\ Queue' = [Queue EXCEPT ![a] = Tail(@)]
      /\ Queue \in [Actors -> Seq(NFActorMessage)]
      /\ message \in [Threads -> NFActorMessage \cup {NoMessage}]
    BY <1>a DEF TryPopMessage, Queue, Holding, IInv4, IInv1, TypeOK, Pinned
<1>2. Results' = Results /\ index' = index /\ dropped' = dropped /\ delivered' = delivered
    BY DEF TryPopMessage, Results, history
<1>3. 1 \in 1 .. Len(Queue[a]) /\ Head(Queue[a]) = m /\ Queue[a] \in Seq(NFActorMessage)
    BY <1>a, <1>1, TailOf
<1>4. m \in NFActorMessage
    BY <1>a, <1>3
<1>5. m # NoMessage /\ m.index \in Nat
    BY <1>4 DEF NFActorMessage, NoMessage
<1>6. At(m.index, from)
    BY <1>a, <1>1, <1>3 DEF At, InQueueAt, FoundIn
<1>7. \A i : InQueueAt(i, from) => i = m.index
    BY <1>a, <1>1 DEF InQueueAt, FoundIn
<1>8. \A i, p : InQueueAt(i, p)' <=> \E q : InQueueAt(i, q) /\ q # from /\ p = Up("mailbox", a, q)
    <2> SUFFICES ASSUME NEW i, NEW p
                 PROVE  InQueueAt(i, p)' <=>
                            \E q : InQueueAt(i, q) /\ q # from /\ p = Up("mailbox", a, q)
        OBVIOUS
    <2>1. InQueueAt(i, p)' <=> FoundIn(HeadTaken(Queue, a), Actors, "mailbox", i, p)
        BY <1>1 DEF InQueueAt, FoundIn, HeadTaken
    <2>2. FoundIn(HeadTaken(Queue, a), Actors, "mailbox", i, p) <=>
            \E q : /\ FoundIn(Queue, Actors, "mailbox", i, q)
                   /\ q # <<"mailbox", a, 1>>
                   /\ p = Up("mailbox", a, q)
        <3>1. Queue \in [Actors -> Seq(NFActorMessage)] /\ a \in Actors /\ Queue[a] # <<>>
            BY <1>1
        <3> HIDE DEF from, to
        <3> QED BY ONLY <3>1, TailFound
    <2>3. \A q : InQueueAt(i, q) <=> FoundIn(Queue, Actors, "mailbox", i, q)
        BY DEF InQueueAt
    <2> QED BY <2>1, <2>2, <2>3
<1> HIDE DEF from, to
<1>9. \A i, p : InHandsAt(i, p)' <=> InHandsAt(i, p) \/ (i = m.index /\ p = to)
    <2>1. message'[w] = m /\ Holding(w)' /\ \A t \in Threads : t # w => message'[t] = message[t]
        BY <1>1, <1>3, <1>5 DEF Holding
    <2> QED BY <1>1, <2>1 DEF InHandsAt, Holding, to
<1>10. \A i, p : /\ InResultsAt(i, p)' <=> InResultsAt(i, p)
                 /\ DroppedAt(i, p)' <=> DroppedAt(i, p)
                 /\ DeliveredAt(i, p)' <=> DeliveredAt(i, p)
    BY <1>2 DEF InResultsAt, DroppedAt, DeliveredAt
<1>11. ASSUME NEW i \in Nat \ {m.index}
       PROVE  MovesUp(i, "mailbox", a)
    <2>1. \A q : InResultsAt(i, q) \/ InHandsAt(i, q) \/ DroppedAt(i, q) \/ DeliveredAt(i, q) =>
            Up("mailbox", a, q) = q
        BY OthersStay
    <2> QED BY <2>1, <1>7, <1>8, <1>9, <1>10, <1>11 DEF At, MovesUp
<1>12. OnlyAt(m.index, from) => MovesTo(m.index, to)
    <2>1. from # to /\ \A q : q = from => InQueueAt(m.index, q)
        BY <1>a, <1>1, <1>3 DEF from, to, InQueueAt, FoundIn
    <2>2. \A i : /\ ~InResultsAt(i, from) /\ ~InHandsAt(i, from)
                 /\ ~DroppedAt(i, from) /\ ~DeliveredAt(i, from)
        BY DEF from, InResultsAt, FoundIn, InHandsAt, DroppedAt, DeliveredAt
    <2> QED BY <2>1, <2>2, <1>8, <1>9, <1>10 DEF At, OnlyAt, MovesTo
<1>13. index' = index
    BY <1>2
<1> QED BY <1>5, <1>6, <1>11, <1>12, <1>13, MoveKeepsPlaces

\* A handler has run: the message it had is the last of its worker's results.
LEMMA RunHandlerPlaces ==
    ASSUME IInv4, NEW w \in Threads, RunHandler(w)
    PROVE  OncePlaced'
<1>a. PICK m, to : m = message[w] /\ to = <<"result", w, Len(Results[w]) + 1>>
    OBVIOUS
<1> DEFINE from == <<"handling", w>>
<1>1. /\ Holding(w) /\ m \in NFActorMessage /\ ~Holding(w)'
      /\ \A t \in Threads : t # w => message'[t] = message[t]
      /\ Results' = [Results EXCEPT ![w] = Append(@, m)]
      /\ Results \in [Threads -> Seq(NFActorMessage)]
    BY <1>a DEF RunHandler, Holding, Results, IInv4, IInv1, TypeOK
<1>2. Queue' = Queue /\ index' = index /\ dropped' = dropped /\ delivered' = delivered
    BY DEF RunHandler, Queue, history
<1>3. m.index \in Nat
    BY <1>1 DEF NFActorMessage
<1>4. At(m.index, from)
    BY <1>a, <1>1 DEF At, InHandsAt
<1>5. \A i, p : InHandsAt(i, p)' <=> InHandsAt(i, p) /\ p # from
    BY <1>1 DEF InHandsAt, Holding
<1>6. \A i : InHandsAt(i, from) => i = m.index
    BY <1>a DEF InHandsAt
<1>7. \A i, p : InResultsAt(i, p)' <=> InResultsAt(i, p) \/ (i = m.index /\ p = to)
    <2> SUFFICES ASSUME NEW i, NEW p
                 PROVE  InResultsAt(i, p)' <=> InResultsAt(i, p) \/ (i = m.index /\ p = to)
        OBVIOUS
    <2>1. InResultsAt(i, p)' <=> FoundIn(Added(Results, w, m), Threads, "result", i, p)
        BY <1>1 DEF InResultsAt, FoundIn, Added
    <2>2. FoundIn(Added(Results, w, m), Threads, "result", i, p) <=>
            FoundIn(Results, Threads, "result", i, p) \/ (i = m.index /\ p = to)
        BY <1>a, <1>1, AppendFound
    <2>3. InResultsAt(i, p) <=> FoundIn(Results, Threads, "result", i, p)
        BY DEF InResultsAt
    <2> QED BY <2>1, <2>2, <2>3
<1>8. \A i, p : /\ InQueueAt(i, p)' <=> InQueueAt(i, p)
                /\ DroppedAt(i, p)' <=> DroppedAt(i, p)
                /\ DeliveredAt(i, p)' <=> DeliveredAt(i, p)
    BY <1>2 DEF InQueueAt, DroppedAt, DeliveredAt
<1>9. \A i \in Nat \ {m.index} : \A p : At(i, p)' <=> At(i, p)
    BY <1>5, <1>6, <1>7, <1>8 DEF At
<1>10. \A q : At(m.index, q)' <=> (At(m.index, q) /\ q # from) \/ q = to
    <2>1. \A i : /\ ~InQueueAt(i, from) /\ ~InResultsAt(i, from)
                 /\ ~DroppedAt(i, from) /\ ~DeliveredAt(i, from)
        BY DEF InQueueAt, InResultsAt, FoundIn, DroppedAt, DeliveredAt
    <2> HIDE DEF from
    <2> QED BY <2>1, <1>5, <1>7, <1>8 DEF At
<1> HIDE DEF from
<1> QED BY <1>2, <1>3, <1>4, <1>9, <1>10, LeaveKeepsPlaces

LEMMA DropPlaces ==
    ASSUME IInv4, NEW w \in Threads, DropMessage(w)
    PROVE  OncePlaced'
<1>a. PICK m : m = message[w]
    OBVIOUS
<1> DEFINE from == <<"handling", w>>
           to == <<"dropped", m>>
<1>1. /\ Holding(w) /\ m \in NFActorMessage /\ ~Holding(w)'
      /\ \A t \in Threads : t # w => message'[t] = message[t]
      /\ dropped' = dropped \cup {m}
    BY <1>a DEF DropMessage, Holding, IInv4, IInv1, TypeOK
<1>2. Queue' = Queue /\ Results' = Results /\ index' = index /\ delivered' = delivered
    BY DEF DropMessage, Queue, Results
<1>3. m.index \in Nat
    BY <1>1 DEF NFActorMessage
<1>4. At(m.index, from)
    BY <1>a, <1>1 DEF At, InHandsAt
<1>5. \A i, p : InHandsAt(i, p)' <=> InHandsAt(i, p) /\ p # from
    BY <1>1 DEF InHandsAt, Holding
<1>6. \A i : InHandsAt(i, from) => i = m.index
    BY <1>a DEF InHandsAt
<1>7. \A i, p : DroppedAt(i, p)' <=> DroppedAt(i, p) \/ (i = m.index /\ p = to)
    BY <1>1 DEF DroppedAt
<1> HIDE DEF to
<1>8. \A i, p : /\ InQueueAt(i, p)' <=> InQueueAt(i, p)
                /\ InResultsAt(i, p)' <=> InResultsAt(i, p)
                /\ DeliveredAt(i, p)' <=> DeliveredAt(i, p)
    BY <1>2 DEF InQueueAt, InResultsAt, DeliveredAt
<1>9. \A i \in Nat \ {m.index} : \A p : At(i, p)' <=> At(i, p)
    BY <1>5, <1>6, <1>7, <1>8 DEF At
<1>10. \A q : At(m.index, q)' <=> (At(m.index, q) /\ q # from) \/ q = to
    <2>1. \A i : /\ ~InQueueAt(i, from) /\ ~InResultsAt(i, from)
                 /\ ~DroppedAt(i, from) /\ ~DeliveredAt(i, from)
        BY DEF InQueueAt, InResultsAt, FoundIn, DroppedAt, DeliveredAt
    <2> HIDE DEF from
    <2> QED BY <2>1, <1>5, <1>7, <1>8 DEF At
<1> HIDE DEF from
<1> QED BY <1>2, <1>3, <1>4, <1>9, <1>10, LeaveKeepsPlaces

\* The oldest result of a worker has been taken by the main thread.
LEMMA ResultPlaces ==
    ASSUME IInv4, NEW w \in Threads, ExecuteResultEvent(w)
    PROVE  OncePlaced'
<1>a. PICK m : m = Results[w][1]
    OBVIOUS
<1> DEFINE from == <<"result", w, 1>>
           to == <<"delivered", m>>
<1>1. /\ Results[w] # <<>> /\ Results' = [Results EXCEPT ![w] = Tail(@)]
      /\ Results \in [Threads -> Seq(NFActorMessage)]
      /\ delivered' = delivered \cup {Head(Results[w])}
    BY DEF ExecuteResultEvent, Results, IInv4, IInv1, TypeOK
<1>2. Queue' = Queue /\ message' = message /\ index' = index /\ dropped' = dropped
    BY DEF ExecuteResultEvent, Queue
<1>3. 1 \in 1 .. Len(Results[w]) /\ Head(Results[w]) = m /\ Results[w] \in Seq(NFActorMessage)
    BY <1>a, <1>1, TailOf
<1>4. m \in NFActorMessage
    BY <1>a, <1>3
<1>5. m.index \in Nat
    BY <1>4 DEF NFActorMessage
<1>6. At(m.index, from)
    BY <1>a, <1>3 DEF At, InResultsAt, FoundIn
<1>7. \A i : InResultsAt(i, from) => i = m.index
    BY <1>a DEF InResultsAt, FoundIn
<1>8. \A i, p : InResultsAt(i, p)' <=> \E q : InResultsAt(i, q) /\ q # from /\ p = Up("result", w, q)
    <2> SUFFICES ASSUME NEW i, NEW p
                 PROVE  InResultsAt(i, p)' <=>
                            \E q : InResultsAt(i, q) /\ q # from /\ p = Up("result", w, q)
        OBVIOUS
    <2>1. InResultsAt(i, p)' <=> FoundIn(HeadTaken(Results, w), Threads, "result", i, p)
        BY <1>1 DEF InResultsAt, FoundIn, HeadTaken
    <2>2. FoundIn(HeadTaken(Results, w), Threads, "result", i, p) <=>
            \E q : FoundIn(Results, Threads, "result", i, q) /\ q # from /\ p = Up("result", w, q)
        BY <1>1, TailFound
    <2>3. \A q : InResultsAt(i, q) <=> FoundIn(Results, Threads, "result", i, q)
        BY DEF InResultsAt
    <2> QED BY <2>1, <2>2, <2>3
<1>9. \A i, p : DeliveredAt(i, p)' <=> DeliveredAt(i, p) \/ (i = m.index /\ p = to)
    BY <1>1, <1>3 DEF DeliveredAt
<1> HIDE DEF from, to
<1>10. \A i, p : /\ InQueueAt(i, p)' <=> InQueueAt(i, p)
                 /\ InHandsAt(i, p)' <=> InHandsAt(i, p)
                 /\ DroppedAt(i, p)' <=> DroppedAt(i, p)
    BY <1>2 DEF InQueueAt, InHandsAt, DroppedAt, Holding
<1>11. ASSUME NEW i \in Nat \ {m.index}
       PROVE  MovesUp(i, "result", w)
    <2>1. \A q : InQueueAt(i, q) \/ InHandsAt(i, q) \/ DroppedAt(i, q) \/ DeliveredAt(i, q) =>
            Up("result", w, q) = q
        BY OthersStay
    <2> QED BY <2>1, <1>7, <1>8, <1>9, <1>10, <1>11 DEF At, MovesUp
<1>12. OnlyAt(m.index, from) => MovesTo(m.index, to)
    <2>1. from # to /\ \A q : q = from => InResultsAt(m.index, q)
        BY <1>a, <1>3 DEF from, to, InResultsAt, FoundIn
    <2>2. \A i : /\ ~InQueueAt(i, from) /\ ~InHandsAt(i, from)
                 /\ ~DroppedAt(i, from) /\ ~DeliveredAt(i, from)
        BY DEF from, InQueueAt, FoundIn, InHandsAt, DroppedAt, DeliveredAt
    <2> QED BY <2>1, <2>2, <1>8, <1>9, <1>10 DEF At, OnlyAt, MovesTo
<1>13. index' = index
    BY <1>2
<1> QED BY <1>5, <1>6, <1>11, <1>12, <1>13, MoveKeepsPlaces

LEMMA StepPlaces ==
    ASSUME IInv4, [Next]_vars
    PROVE  OncePlaced'
<1>1. ASSUME UNCHANGED placeVars PROVE OncePlaced'
    BY <1>1, StillPlaced DEF IInv4
<1>2. ASSUME \/ \E a \in Actors, handled \in Handlers : RequireActor(a, handled)
             \/ \E a \in Actors : ReleaseActor(a)
             \/ \E id \in JobIDs, withEnd \in BOOLEAN : SubmitJob(id, withEnd)
             \/ BeforeShut
      PROVE  UNCHANGED placeVars
    BY <1>2 DEF RequireActor, ReleaseActor, SubmitJob, BeforeShut, placeVars, queueVars, history
<1>3. ASSUME \/ ExecuteEvent \/ ExecuteEventTooEarly \/ ExecuteEventDone
             \/ \E a \in Actors : ScheduleActor(a)
             \/ ExecuteResultEventDone \/ ExecuteTaskResultDone
             \/ \E t \in Threads : ExecuteTaskResult(t)
      PROVE  UNCHANGED placeVars
    BY <1>3 DEF ExecuteEvent, ExecuteEventTooEarly, ExecuteEventDone, ScheduleActor,
                ExecuteResultEventDone, ExecuteTaskResultDone, ExecuteTaskResult,
                placeVars, queueVars, history
<1>4. ASSUME NEW t \in Threads, TakeTask(t) \/ RunJob(t) \/ ExecuteReturns(t)
      PROVE  UNCHANGED placeVars
    BY <1>4 DEF TakeTask, RunJob, ExecuteReturns, placeVars, queueVars, history
<1>5. CASE MainLoop
    BY <1>1, <1>3, <1>5, ResultPlaces DEF MainLoop
<1>6. ASSUME NEW t \in Threads, Worker(t)
      PROVE  OncePlaced'
    BY <1>1, <1>4, <1>6, TryPopPlaces, RunHandlerPlaces, DropPlaces DEF Worker
<1>7. CASE UNCHANGED vars
    BY <1>1, <1>7 DEF vars, placeVars, queueVars, history
<1> QED BY <1>1, <1>2, <1>5, <1>6, <1>7, SendPlaces DEF Next

\* A message that SendMsgToActor accepted is in one place: it waits, is handled, was
\* dropped for want of a handler, or its result waits or was delivered. Nothing between
\* NFActor's queue, the workers and ExecuteResultEvent loses or doubles it.
THEOREM OncePlace == Spec => []NothingLostOrDoubled
<1>1. Init => IInv4
    BY InitIInv1, InitPlaces DEF IInv4
<1>2. IInv4 /\ [Next]_vars => IInv4'
    BY StepTypeOK, StepPinned, StepPlaces DEF IInv4, IInv1
<1>3. IInv4 => NothingLostOrDoubled
    BY OncePlacedCounts
<1> QED BY <1>1, <1>2, <1>3, PTL DEF Spec

-------------------------------------------------------------------------------
(* Jobs. A worker takes its tasks in the order in which they came          *)
(* (JobsOrdered), and all jobs of one task id go to one worker             *)
(* (JobsAtHome). Both are needed: the result queue promises no order       *)
(* between two producers.                                                  *)

USE FunctorsAssumption, JobsAssumption

InList(x, t) == \E n \in 1 .. Len(mTaskList[t]) : x = mTaskList[t][n]
InEnds(x, t) == \E n \in 1 .. Len(mTaskResult[t]) : x = mTaskResult[t][n]
AtWorker(x, t) == InList(x, t) \/ x = task[t] \/ InEnds(x, t)

\* Only tasks with an end functor come back.
Older(x, y) == x.xEndFunc /\ y.xEndFunc => x.data < y.data
Pending(x) == x.xEndFunc => x.data <= jobs /\ lastJob[x.nTaskID] < x.data

JobsAtHome ==
    \A t \in Threads : \A x :
        AtWorker(x, t) /\ x.xEndFunc => x.nTaskID \in JobIDs /\ ThreadOf(x.nTaskID) = t

ListOrdered ==
    \A t \in Threads : \A i, j \in 1 .. Len(mTaskList[t]) :
        i < j => Older(mTaskList[t][i], mTaskList[t][j])

TaskBeforeList == \A t \in Threads : \A x : InList(x, t) => Older(task[t], x)

EndsBeforeRest ==
    \A t \in Threads : \A x : InEnds(x, t) =>
        Older(x, task[t]) /\ \A y : InList(y, t) => Older(x, y)

EndsOrdered ==
    \A t \in Threads : \A i, j \in 1 .. Len(mTaskResult[t]) :
        i < j => Older(mTaskResult[t][i], mTaskResult[t][j])

JobsCounted ==
    /\ \A t \in Threads : \A x : AtWorker(x, t) => Pending(x)
    /\ \A id \in JobIDs : lastJob[id] <= jobs

JobsOrdered == ListOrdered /\ TaskBeforeList /\ EndsBeforeRest /\ EndsOrdered /\ JobsCounted

IInv3 == IInv1 /\ JobsAtHome /\ JobsOrdered

jobVars == <<mTaskList, task, mTaskResult, jobs, lastJob>>

\* The types the steps below use.
LEMMA JobTypes ==
    ASSUME TypeOK
    PROVE  /\ jobs \in Int
           /\ mTaskList \in [Threads -> Seq(NFThreadTask)]
           /\ mTaskResult \in [Threads -> Seq(NFThreadTask)]
           /\ \A id \in JobIDs : lastJob[id] \in Int
           /\ \A t \in Threads : \A x : AtWorker(x, t) => x.data \in Int /\ x.xEndFunc \in BOOLEAN
<1>1. \A x \in NFThreadTask : x.data \in Int /\ x.xEndFunc \in BOOLEAN
    BY DEF NFThreadTask
<1>3. ResetTask.data \in Int /\ ResetTask.xEndFunc \in BOOLEAN
    BY DEF ResetTask
<1>2. \A t \in Threads : \A x : AtWorker(x, t) => x \in NFThreadTask \cup {ResetTask}
    BY DEF TypeOK, PoolTypeOK, AtWorker, InList, InEnds
<1> QED BY <1>1, <1>2, <1>3 DEF TypeOK, PoolTypeOK

LEMMA InitJobs == Init => JobsAtHome /\ JobsOrdered
<1> SUFFICES ASSUME Init PROVE JobsAtHome /\ JobsOrdered
    OBVIOUS
<1>1. \A t \in Threads : Len(mTaskList[t]) = 0 /\ Len(mTaskResult[t]) = 0 /\ task[t] = ResetTask
    BY DEF Init, PoolInit
<1>2. \A t \in Threads : \A x : AtWorker(x, t) => ~x.xEndFunc
    BY <1>1 DEF AtWorker, InList, InEnds, ResetTask
<1>3. \A id \in JobIDs : lastJob[id] <= jobs
    BY DEF Init
<1> QED BY <1>1, <1>2, <1>3 DEF JobsAtHome, JobsOrdered, ListOrdered, TaskBeforeList,
        EndsBeforeRest, EndsOrdered, JobsCounted, Pending, InList, InEnds

\* The newest task comes last at its worker; if it is awaited its number is above all
\* others.
LEMMA PushKeepsJobs ==
    ASSUME IInv3, NEW tk \in NFThreadTask, DoAsyncTask(tk),
           UNCHANGED <<task, mTaskResult, lastJob>>, jobs' \in Int, jobs <= jobs',
           tk.xEndFunc => tk.nTaskID \in JobIDs /\ tk.data = jobs + 1 /\ jobs' = jobs + 1
    PROVE  JobsAtHome' /\ JobsOrdered'
<1> DEFINE w == ThreadOf(tk.nTaskID)
           last == Len(mTaskList[w]) + 1
<1>1. TypeOK
    BY DEF IInv3, IInv1
<1>2. /\ w \in Threads
      /\ mTaskList' = [mTaskList EXCEPT ![w] = Append(@, tk)]
      /\ tk.data \in Int /\ tk.xEndFunc \in BOOLEAN
    BY ThreadOfType DEF NFThreadTask, DoAsyncTask
<1>3. /\ Len(mTaskList[w]) \in Nat
      /\ \A t \in Threads : t # w => mTaskList'[t] = mTaskList[t]
      /\ mTaskList'[w][last] = tk
      /\ \A i \in 1 .. Len(mTaskList[w]) : mTaskList'[w][i] = mTaskList[w][i]
      /\ \A i \in 1 .. Len(mTaskList'[w]) : i \in 1 .. Len(mTaskList[w]) \/ i = last
    <2> HIDE DEF w
    <2> QED BY <1>1, <1>2, JobTypes, AppendTo
<1>4. \A t \in Threads : \A x : InList(x, t)' => InList(x, t) \/ (t = w /\ x = tk)
    <2> HIDE DEF w
    <2> QED BY <1>3 DEF InList
<1>5. \A t \in Threads : \A x : InEnds(x, t)' <=> InEnds(x, t)
    BY DEF InEnds
<1>6. \A t \in Threads : \A x : AtWorker(x, t)' => AtWorker(x, t) \/ (t = w /\ x = tk)
    BY <1>4, <1>5 DEF AtWorker
<1>7. \A t \in Threads : \A x : AtWorker(x, t) => Older(x, tk)
    BY <1>1, JobTypes DEF IInv3, JobsOrdered, JobsCounted, Pending, Older
<1>8. JobsAtHome'
    BY <1>6 DEF IInv3, JobsAtHome, ThreadOf
<1> HIDE DEF w
<1>9. ListOrdered'
    <2> SUFFICES ASSUME NEW t \in Threads, NEW i \in 1 .. Len(mTaskList'[t]),
                        NEW j \in 1 .. Len(mTaskList'[t]), i < j
                 PROVE  Older(mTaskList'[t][i], mTaskList'[t][j])
        BY DEF ListOrdered, Older
    <2>1. CASE t # w
        BY <2>1, <1>3 DEF IInv3, JobsOrdered, ListOrdered
    <2>2. CASE t = w /\ j # last
        <3>1. i \in 1 .. Len(mTaskList[w]) /\ j \in 1 .. Len(mTaskList[w])
            BY <2>2, <1>3
        <3> QED BY <3>1, <2>2, <1>2, <1>3 DEF IInv3, JobsOrdered, ListOrdered
    <2>3. CASE t = w /\ j = last
        <3>1. i \in 1 .. Len(mTaskList[w]) /\ AtWorker(mTaskList[w][i], w)
            BY <2>3, <1>3 DEF AtWorker, InList
        <3> QED BY <3>1, <2>3, <1>2, <1>3, <1>7
    <2> QED BY <2>1, <2>2, <2>3
<1>10. TaskBeforeList'
    BY <1>4, <1>7 DEF IInv3, JobsOrdered, TaskBeforeList, AtWorker, Older
<1>11. EndsBeforeRest'
    BY <1>4, <1>5, <1>7 DEF IInv3, JobsOrdered, EndsBeforeRest, AtWorker, Older
<1>12. EndsOrdered'
    BY DEF IInv3, JobsOrdered, EndsOrdered, Older
<1>13. JobsCounted'
    <2>1. \A id \in JobIDs : lastJob'[id] \in Int /\ lastJob'[id] <= jobs /\ jobs \in Int
        BY <1>1, JobTypes DEF IInv3, JobsOrdered, JobsCounted
    <2>2. Pending(tk)'
        <3>1. ASSUME tk.xEndFunc PROVE tk.data <= jobs' /\ lastJob'[tk.nTaskID] < tk.data
            <4>1. tk.nTaskID \in JobIDs /\ tk.data = jobs + 1 /\ jobs' = jobs + 1
                BY <3>1
            <4>2. /\ lastJob'[tk.nTaskID] \in Int /\ lastJob'[tk.nTaskID] <= jobs
                  /\ jobs \in Int
                BY <2>1, <4>1
            <4> QED BY <4>1, <4>2
        <3> QED BY <3>1 DEF Pending
    <2>3. ASSUME NEW t \in Threads, NEW x, AtWorker(x, t)
          PROVE  Pending(x)'
        <3>1. Pending(x) /\ x.data \in Int
            BY <1>1, <2>3, JobTypes DEF IInv3, JobsOrdered, JobsCounted
        <3> QED BY <3>1, <1>1, JobTypes DEF Pending
    <2>4. \A id \in JobIDs : lastJob'[id] <= jobs'
        BY <2>1
    <2> QED BY <1>6, <2>2, <2>3, <2>4 DEF JobsCounted
<1> QED BY <1>8, <1>9, <1>10, <1>11, <1>12, <1>13 DEF JobsOrdered

\* The oldest task of a worker that has none becomes its task.
LEMMA TakeKeepsJobs ==
    ASSUME IInv3, NEW w \in Threads, PopTask(w), UNCHANGED <<mTaskResult, jobs, lastJob>>
    PROVE  JobsAtHome' /\ JobsOrdered'
<1> DEFINE tk == mTaskList[w][1]
<1>1. TypeOK
    BY DEF IInv3, IInv1
<1>2. /\ mTaskList[w] # <<>> /\ mTaskList' = [mTaskList EXCEPT ![w] = Tail(@)]
      /\ task' = [task EXCEPT ![w] = Head(mTaskList[w])]
    BY DEF PopTask
<1>3. /\ 1 \in 1 .. Len(mTaskList[w]) /\ Head(mTaskList[w]) = tk
      /\ \A t \in Threads : t # w => mTaskList'[t] = mTaskList[t]
      /\ \A i \in 1 .. Len(mTaskList'[w]) :
            i \in Int /\ i + 1 \in 1 .. Len(mTaskList[w])
            /\ mTaskList'[w][i] = mTaskList[w][i + 1]
    BY <1>1, <1>2, JobTypes, TailOf
<1>4. task'[w] = tk /\ \A t \in Threads : t # w => task'[t] = task[t]
    BY <1>1, <1>2, <1>3 DEF TypeOK, PoolTypeOK
<1>5. InList(tk, w)
    BY <1>3 DEF InList
<1>6. \A x : InList(x, w)' => InList(x, w) /\ Older(tk, x)
    <2> SUFFICES ASSUME NEW x, InList(x, w)' PROVE InList(x, w) /\ Older(tk, x)
        OBVIOUS
    <2>1. PICK n \in 1 .. Len(mTaskList'[w]) : x = mTaskList'[w][n]
        BY DEF InList
    <2>2. n + 1 \in 1 .. Len(mTaskList[w]) /\ x = mTaskList[w][n + 1] /\ 1 < n + 1
        BY <2>1, <1>3
    <2> QED BY <2>2, <1>3 DEF InList, IInv3, JobsOrdered, ListOrdered
<1> HIDE DEF tk
<1>7. \A t \in Threads : \A x : InList(x, t)' => InList(x, t)
    BY <1>3, <1>6 DEF InList
<1>8. \A t \in Threads : \A x : InEnds(x, t)' <=> InEnds(x, t)
    BY DEF InEnds
<1>9. \A t \in Threads : \A x : AtWorker(x, t)' => AtWorker(x, t)
    BY <1>4, <1>5, <1>7, <1>8 DEF AtWorker
<1>10. JobsAtHome'
    BY <1>9 DEF IInv3, JobsAtHome, ThreadOf
<1>11. ListOrdered'
    <2> SUFFICES ASSUME NEW t \in Threads, NEW i \in 1 .. Len(mTaskList'[t]),
                        NEW j \in 1 .. Len(mTaskList'[t]), i < j
                 PROVE  Older(mTaskList'[t][i], mTaskList'[t][j])
        BY DEF ListOrdered, Older
    <2>1. CASE t # w
        BY <2>1, <1>3 DEF IInv3, JobsOrdered, ListOrdered
    <2>2. CASE t = w
        <3>1. /\ i + 1 \in 1 .. Len(mTaskList[w]) /\ mTaskList'[w][i] = mTaskList[w][i + 1]
              /\ j + 1 \in 1 .. Len(mTaskList[w]) /\ mTaskList'[w][j] = mTaskList[w][j + 1]
              /\ i + 1 < j + 1
            BY <2>2, <1>3
        <3> QED BY <3>1, <2>2 DEF IInv3, JobsOrdered, ListOrdered
    <2> QED BY <2>1, <2>2
<1>12. TaskBeforeList'
    <2> SUFFICES ASSUME NEW t \in Threads, NEW x, InList(x, t)' PROVE Older(task'[t], x)
        BY DEF TaskBeforeList, Older
    <2>1. CASE t = w
        BY <2>1, <1>4, <1>6
    <2>2. CASE t # w
        BY <2>2, <1>4, <1>7 DEF IInv3, JobsOrdered, TaskBeforeList
    <2> QED BY <2>1, <2>2
<1>13. EndsBeforeRest'
    <2> SUFFICES ASSUME NEW t \in Threads, NEW x, InEnds(x, t)
                 PROVE  Older(x, task'[t]) /\ \A y : InList(y, t)' => Older(x, y)
        BY <1>8 DEF EndsBeforeRest, Older
    <2>1. \A y : InList(y, t)' => Older(x, y)
        BY <1>7 DEF IInv3, JobsOrdered, EndsBeforeRest
    <2>2. Older(x, task'[t])
        BY <1>4, <1>5 DEF IInv3, JobsOrdered, EndsBeforeRest
    <2> QED BY <2>1, <2>2
<1>14. EndsOrdered'
    BY DEF IInv3, JobsOrdered, EndsOrdered, Older
<1>15. JobsCounted'
    BY <1>9 DEF IInv3, JobsOrdered, JobsCounted, Pending
<1> QED BY <1>10, <1>11, <1>12, <1>13, <1>14, <1>15 DEF JobsOrdered

\* What was a worker's task becomes the last of its results, if it is awaited.
LEMMA FinishKeepsJobs ==
    ASSUME IInv3, NEW w \in Threads, FinishTask(w), task[w] \in NFThreadTask,
           UNCHANGED <<mTaskList, jobs, lastJob>>
    PROVE  JobsAtHome' /\ JobsOrdered'
<1> DEFINE tk == task[w]
           last == Len(mTaskResult[w]) + 1
<1>1. TypeOK
    BY DEF IInv3, IInv1
<1>2. ~task'[w].xEndFunc /\ \A t \in Threads : t # w => task'[t] = task[t]
    BY <1>1 DEF FinishTask, TypeOK, PoolTypeOK, ResetTask
<1>3. \/ mTaskResult' = mTaskResult
      \/ mTaskResult' = [mTaskResult EXCEPT ![w] = Append(@, tk)]
    BY <1>1 DEF FinishTask, TaskResult, TypeOK, PoolTypeOK
<1> HIDE DEF tk
<1>4. /\ Len(mTaskResult[w]) \in Nat
      /\ \A t \in Threads : t # w => mTaskResult'[t] = mTaskResult[t]
      /\ \A i \in 1 .. Len(mTaskResult[w]) : mTaskResult'[w][i] = mTaskResult[w][i]
      /\ \A i \in 1 .. Len(mTaskResult'[w]) :
            \/ i \in 1 .. Len(mTaskResult[w])
            \/ i = last /\ mTaskResult'[w][i] = tk
    <2>1. CASE mTaskResult' = mTaskResult
        BY <1>1, <2>1, JobTypes
    <2>2. CASE mTaskResult' = [mTaskResult EXCEPT ![w] = Append(@, tk)]
        <3>1. tk \in NFThreadTask
            BY DEF tk
        <3> QED BY <1>1, <2>2, <3>1, JobTypes, AppendTo
    <2> QED BY <1>3, <2>1, <2>2
<1>5. \A t \in Threads : \A x : InList(x, t)' <=> InList(x, t)
    BY DEF InList
<1>6. \A t \in Threads : \A x : InEnds(x, t)' => InEnds(x, t) \/ (t = w /\ x = tk)
    BY <1>4 DEF InEnds
<1>7. \A t \in Threads : \A x : AtWorker(x, t)' /\ x.xEndFunc => AtWorker(x, t)
    BY <1>2, <1>5, <1>6 DEF AtWorker, tk
<1>8. JobsAtHome'
    BY <1>7 DEF IInv3, JobsAtHome, ThreadOf
<1>9. ListOrdered'
    BY DEF IInv3, JobsOrdered, ListOrdered, Older
<1>10. TaskBeforeList'
    BY <1>2, <1>5 DEF IInv3, JobsOrdered, TaskBeforeList, Older
<1>11. EndsBeforeRest'
    <2> SUFFICES ASSUME NEW t \in Threads, NEW x, InEnds(x, t)'
                 PROVE  Older(x, task'[t]) /\ \A y : InList(y, t) => Older(x, y)
        BY <1>5 DEF EndsBeforeRest, Older
    <2>1. CASE InEnds(x, t)
        BY <2>1, <1>2 DEF IInv3, JobsOrdered, EndsBeforeRest, Older
    <2>2. CASE t = w /\ x = tk
        BY <2>2, <1>2 DEF tk, IInv3, JobsOrdered, TaskBeforeList, Older
    <2> QED BY <1>6, <2>1, <2>2
<1>12. EndsOrdered'
    <2> SUFFICES ASSUME NEW t \in Threads, NEW i \in 1 .. Len(mTaskResult'[t]),
                        NEW j \in 1 .. Len(mTaskResult'[t]), i < j
                 PROVE  Older(mTaskResult'[t][i], mTaskResult'[t][j])
        BY DEF EndsOrdered, Older
    <2>1. CASE t # w
        BY <2>1, <1>4 DEF IInv3, JobsOrdered, EndsOrdered
    <2>2. CASE t = w /\ j \in 1 .. Len(mTaskResult[w])
        BY <2>2, <1>4 DEF IInv3, JobsOrdered, EndsOrdered
    <2>3. CASE t = w /\ j = last /\ mTaskResult'[w][j] = tk
        <3>1. i \in 1 .. Len(mTaskResult[w]) /\ InEnds(mTaskResult[w][i], w)
            BY <2>3, <1>4 DEF InEnds
        <3> QED BY <3>1, <2>3, <1>4 DEF tk, IInv3, JobsOrdered, EndsBeforeRest
    <2> QED BY <1>4, <2>1, <2>2, <2>3
<1>13. JobsCounted'
    BY <1>7 DEF IInv3, JobsOrdered, JobsCounted, Pending
<1> QED BY <1>8, <1>9, <1>10, <1>11, <1>12, <1>13 DEF JobsOrdered

\* The oldest result of a worker is older than all else of its task id, which is at the
\* same worker, and younger than the last job that ended.
LEMMA ResultKeepsJobs ==
    ASSUME IInv3, NEW w \in Threads, ExecuteTaskResult(w)
    PROVE  /\ JobsAtHome' /\ JobsOrdered'
           /\ \A id \in JobIDs : lastJob'[id] # lastJob[id] => lastJob'[id] > lastJob[id]
<1> DEFINE tk == mTaskResult[w][1]
<1>1. TypeOK
    BY DEF IInv3, IInv1
<1>2. /\ mTaskResult[w] # <<>> /\ mTaskResult' = [mTaskResult EXCEPT ![w] = Tail(@)]
      /\ lastJob' = IF Head(mTaskResult[w]).xEndFunc
                    THEN [lastJob EXCEPT ![Head(mTaskResult[w]).nTaskID] = Head(mTaskResult[w]).data]
                    ELSE lastJob
      /\ UNCHANGED <<mTaskList, task, jobs>>
    BY DEF ExecuteTaskResult, PopTaskResult
<1>3. /\ 1 \in 1 .. Len(mTaskResult[w]) /\ Head(mTaskResult[w]) = tk
      /\ \A t \in Threads : t # w => mTaskResult'[t] = mTaskResult[t]
      /\ \A i \in 1 .. Len(mTaskResult'[w]) :
            i \in Int /\ i + 1 \in 1 .. Len(mTaskResult[w])
            /\ mTaskResult'[w][i] = mTaskResult[w][i + 1]
    BY <1>1, <1>2, JobTypes, TailOf
<1>4. InEnds(tk, w) /\ AtWorker(tk, w)
    BY <1>3 DEF InEnds, AtWorker
<1>5. \A t \in Threads : \A x : InList(x, t)' <=> InList(x, t)
    BY <1>2 DEF InList
<1>6. \A x : InEnds(x, w)' => InEnds(x, w) /\ Older(tk, x)
    <2> SUFFICES ASSUME NEW x, InEnds(x, w)' PROVE InEnds(x, w) /\ Older(tk, x)
        OBVIOUS
    <2>1. PICK n \in 1 .. Len(mTaskResult'[w]) : x = mTaskResult'[w][n]
        BY DEF InEnds
    <2>2. n + 1 \in 1 .. Len(mTaskResult[w]) /\ x = mTaskResult[w][n + 1] /\ 1 < n + 1
        BY <2>1, <1>3
    <2> QED BY <2>2, <1>3 DEF InEnds, IInv3, JobsOrdered, EndsOrdered
<1> HIDE DEF tk
<1>7. \A t \in Threads : \A x : InEnds(x, t)' => InEnds(x, t)
    BY <1>3, <1>6 DEF InEnds
<1>8. \A t \in Threads : \A x : AtWorker(x, t)' => AtWorker(x, t)
    BY <1>2, <1>5, <1>7 DEF AtWorker
<1>9. \A x : AtWorker(x, w)' => Older(tk, x)
    BY <1>2, <1>4, <1>5, <1>6 DEF AtWorker, IInv3, JobsOrdered, EndsBeforeRest
<1>10. tk.xEndFunc => tk.nTaskID \in JobIDs /\ ThreadOf(tk.nTaskID) = w
    BY <1>4 DEF IInv3, JobsAtHome
<1>11. tk.xEndFunc => /\ lastJob'[tk.nTaskID] = tk.data
                      /\ lastJob[tk.nTaskID] < tk.data /\ tk.data <= jobs
    BY <1>1, <1>2, <1>3, <1>4, <1>10 DEF TypeOK, IInv3, JobsOrdered, JobsCounted, Pending
<1>12. \A id \in JobIDs : ~tk.xEndFunc \/ id # tk.nTaskID => lastJob'[id] = lastJob[id]
    BY <1>1, <1>2, <1>3 DEF TypeOK
<1>13. JobsAtHome'
    BY <1>8 DEF IInv3, JobsAtHome, ThreadOf
<1>14. ListOrdered' /\ TaskBeforeList'
    BY <1>2, <1>5 DEF IInv3, JobsOrdered, ListOrdered, TaskBeforeList, Older
<1>15. EndsBeforeRest'
    BY <1>2, <1>5, <1>7 DEF IInv3, JobsOrdered, EndsBeforeRest, Older
<1>16. EndsOrdered'
    <2> SUFFICES ASSUME NEW t \in Threads, NEW i \in 1 .. Len(mTaskResult'[t]),
                        NEW j \in 1 .. Len(mTaskResult'[t]), i < j
                 PROVE  Older(mTaskResult'[t][i], mTaskResult'[t][j])
        BY DEF EndsOrdered, Older
    <2>1. CASE t # w
        BY <2>1, <1>3 DEF IInv3, JobsOrdered, EndsOrdered
    <2>2. CASE t = w
        <3>1. /\ i + 1 \in 1 .. Len(mTaskResult[w]) /\ mTaskResult'[w][i] = mTaskResult[w][i + 1]
              /\ j + 1 \in 1 .. Len(mTaskResult[w]) /\ mTaskResult'[w][j] = mTaskResult[w][j + 1]
              /\ i + 1 < j + 1
            BY <2>2, <1>3
        <3> QED BY <3>1, <2>2 DEF IInv3, JobsOrdered, EndsOrdered
    <2> QED BY <2>1, <2>2
<1>17. ASSUME NEW t \in Threads, NEW x, AtWorker(x, t)', x.xEndFunc
       PROVE  x.data <= jobs /\ lastJob'[x.nTaskID] < x.data
    <2>1. /\ x.data <= jobs /\ lastJob[x.nTaskID] < x.data
          /\ x.nTaskID \in JobIDs /\ ThreadOf(x.nTaskID) = t
        BY <1>8, <1>17 DEF IInv3, JobsAtHome, JobsOrdered, JobsCounted, Pending
    <2>2. CASE tk.xEndFunc /\ x.nTaskID = tk.nTaskID
        <3>1. t = w
            BY <2>1, <2>2, <1>10
        <3> QED BY <2>1, <2>2, <3>1, <1>9, <1>11, <1>17 DEF Older
    <2>3. CASE ~(tk.xEndFunc /\ x.nTaskID = tk.nTaskID)
        BY <2>1, <2>3, <1>12
    <2> QED BY <2>2, <2>3
<1>18. \A id \in JobIDs : lastJob'[id] <= jobs'
    BY <1>2, <1>11, <1>12 DEF IInv3, JobsOrdered, JobsCounted
<1>19. JobsCounted'
    BY <1>2, <1>17, <1>18 DEF JobsCounted, Pending
<1>20. \A id \in JobIDs : lastJob'[id] # lastJob[id] => lastJob'[id] > lastJob[id]
    <2>1. tk.data \in Int /\ \A id \in JobIDs : lastJob[id] \in Int
        BY <1>1, <1>4, JobTypes
    <2> QED BY <1>10, <1>11, <1>12, <2>1
<1> QED BY <1>13, <1>14, <1>15, <1>16, <1>19, <1>20 DEF JobsOrdered

LEMMA StillJobsOrdered ==
    ASSUME JobsAtHome, JobsOrdered, UNCHANGED jobVars
    PROVE  JobsAtHome' /\ JobsOrdered'
BY DEF jobVars, JobsAtHome, JobsOrdered, ListOrdered, TaskBeforeList, EndsBeforeRest, EndsOrdered,
       JobsCounted, Pending, Older, AtWorker, InList, InEnds, ThreadOf

\* Every step keeps the order, and only a result that is taken ends a job.
LEMMA StepJobs ==
    ASSUME IInv3, [Next]_vars
    PROVE  /\ JobsAtHome' /\ JobsOrdered'
           /\ \A id \in JobIDs : lastJob'[id] # lastJob[id] => lastJob'[id] > lastJob[id]
<1> DEFINE Goal == /\ JobsAtHome' /\ JobsOrdered'
                   /\ \A id \in JobIDs : lastJob'[id] # lastJob[id] => lastJob'[id] > lastJob[id]
<1>1. ASSUME UNCHANGED jobVars PROVE Goal
    BY <1>1, StillJobsOrdered DEF IInv3, jobVars
<1>2. ASSUME \/ \E a \in Actors, handled \in Handlers : RequireActor(a, handled)
             \/ \E a \in Actors : ReleaseActor(a)
             \/ \E a \in Actors, id \in MsgIDs : SendMsgToActor(a, id)
             \/ BeforeShut
      PROVE  UNCHANGED jobVars
    BY <1>2 DEF RequireActor, ReleaseActor, SendMsgToActor, BeforeShut, jobVars, poolVars, history
<1>3. ASSUME NEW id \in JobIDs, NEW withEnd \in BOOLEAN, SubmitJob(id, withEnd)
      PROVE  Goal
    <2>1. jobs \in Nat
        BY DEF IInv3, IInv1, TypeOK
    <2>2. JobTask(id, jobs + 1, withEnd) \in NFThreadTask
        BY <2>1 DEF JobTask, NFThreadTask
    <2>3. DoAsyncTask(JobTask(id, jobs + 1, withEnd)) /\ jobs' = jobs + 1
          /\ UNCHANGED <<task, mTaskResult, lastJob>>
        BY <1>3 DEF SubmitJob, history
    <2>4. JobTask(id, jobs + 1, withEnd).nTaskID = id /\ JobTask(id, jobs + 1, withEnd).data = jobs + 1
        BY DEF JobTask
    <2> QED BY <2>1, <2>2, <2>3, <2>4, PushKeepsJobs
<1>4. ASSUME NEW a \in Actors, ScheduleActor(a)
      PROVE  Goal
    <2>1. jobs \in Nat
        BY DEF IInv3, IInv1, TypeOK
    <2>2. ActorTask(a) \in NFThreadTask /\ ~ActorTask(a).xEndFunc
        BY DEF ActorTask, NFThreadTask
    <2>3. DoAsyncTask(ActorTask(a)) /\ UNCHANGED <<task, mTaskResult, jobs, lastJob>>
        BY <1>4 DEF ScheduleActor, history
    <2> QED BY <2>1, <2>2, <2>3, PushKeepsJobs
<1>5. ASSUME \/ ExecuteEvent \/ ExecuteEventTooEarly \/ ExecuteEventDone
             \/ \E t \in Threads : ExecuteResultEvent(t)
             \/ ExecuteResultEventDone \/ ExecuteTaskResultDone
      PROVE  UNCHANGED jobVars
    BY <1>5 DEF ExecuteEvent, ExecuteEventTooEarly, ExecuteEventDone, ExecuteResultEvent,
                ExecuteResultEventDone, ExecuteTaskResultDone, jobVars, poolVars, history
<1>6. CASE MainLoop
    BY <1>1, <1>4, <1>5, <1>6, ResultKeepsJobs DEF MainLoop
<1>7. ASSUME NEW t \in Threads, TryPopMessage(t) \/ RunHandler(t) \/ DropMessage(t)
      PROVE  UNCHANGED jobVars
    BY <1>7 DEF TryPopMessage, RunHandler, DropMessage, jobVars, poolVars, history
<1>8. ASSUME NEW t \in Threads, TakeTask(t)
      PROVE  Goal
    BY <1>8, TakeKeepsJobs DEF TakeTask, history
<1>9. ASSUME NEW t \in Threads, RunJob(t) \/ ExecuteReturns(t)
      PROVE  Goal
    <2>1. FinishTask(t) /\ UNCHANGED <<mTaskList, jobs, lastJob>>
        BY <1>9 DEF RunJob, ExecuteReturns, history
    <2>2. task[t] \in NFThreadTask
        BY <1>9 DEF RunJob, ExecuteReturns, Executing, ResetTask, IInv3, IInv1, TypeOK, PoolTypeOK
    <2> QED BY <2>1, <2>2, FinishKeepsJobs
<1>10. ASSUME NEW t \in Threads, Worker(t)
       PROVE  Goal
    BY <1>1, <1>7, <1>8, <1>9, <1>10 DEF Worker
<1>11. CASE UNCHANGED vars
    BY <1>1, <1>11 DEF vars, jobVars, poolVars, history
<1> QED BY <1>1, <1>2, <1>3, <1>6, <1>10, <1>11 DEF Next

\* The end functors of the jobs with one task id run in the order in which DoAsyncTask
\* got them, whatever the number of workers and whatever actors share them; the
\* kernel's creation of objects over a worker is written to rely on it.
THEOREM JobsInOrder == Spec => JobsEndInOrder
<1>1. Init => IInv3
    BY InitIInv1, InitJobs DEF IInv3
<1>2. IInv3 /\ [Next]_vars => IInv3'
    BY StepTypeOK, StepPinned, StepJobs DEF IInv3, IInv1
<1>3. IInv3 /\ [Next]_vars =>
        [\A id \in JobIDs : lastJob'[id] # lastJob[id] => lastJob'[id] > lastJob[id]]_vars
    BY StepJobs
<1> QED BY <1>1, <1>2, <1>3, PTL DEF Spec, JobsEndInOrder

-------------------------------------------------------------------------------
(* The actor system implements the mailbox. ResultsOf is defined by        *)
(* recursion over a sequence, so its laws are shown by induction over the  *)
(* length, with the minimum of a well-founded relation.                    *)

\* Induction, for a set of numbers.
LEMMA AllNumbers ==
    ASSUME NEW D \in SUBSET Nat, 0 \in D, \A n \in D : n + 1 \in D
    PROVE  \A n \in Nat : n \in D
  <1> SUFFICES ASSUME \E n \in Nat : n \notin D PROVE FALSE
    OBVIOUS
  <1>1. PICK rest : rest = Nat \ D
    OBVIOUS
  <1>2. rest \subseteq Nat /\ rest # {}
    BY <1>1
  <1>3. \A m, n \in Nat : <<m, n>> \in OpToRel(<, Nat) <=> m < n
    BY DEF OpToRel
  <1>4. \E n \in rest : \A m \in rest : ~(<<m, n>> \in OpToRel(<, Nat))
    BY <1>2, NatLessThanWellFounded, WFMin
  <1>5. PICK n \in rest : \A m \in rest : ~(m < n)
    BY <1>2, <1>3, <1>4
  <1>6. n \in Nat /\ n # 0 /\ n \notin D
    BY <1>1
  <1>7. n - 1 \in Nat /\ n - 1 < n /\ (n - 1) + 1 = n
    BY <1>6
  <1>8. n - 1 \in D
    BY <1>1, <1>5, <1>7
  <1> QED BY <1>6, <1>7, <1>8

\* f has the messages of a among the first ones of q, for each number up to n.
Selects(f, a, q, n) ==
    /\ f[0] = <<>>
    /\ \A k \in 1 .. n : /\ q[k].to = a => f[k] = Append(f[k - 1], q[k])
                         /\ q[k].to # a => f[k] = f[k - 1]

\* There is such an f, and only one.
LEMMA SelectionExists ==
    ASSUME NEW a, NEW q \in Seq(NFActorMessage)
    PROVE  \E f \in [0 .. Len(q) -> Seq(NFActorMessage)] : Selects(f, a, q, Len(q))
  <1> DEFINE D == {n \in Nat : n <= Len(q) =>
                       \E f \in [0 .. n -> Seq(NFActorMessage)] : Selects(f, a, q, n)}
  <1>0. Len(q) \in Nat
    BY LenProperties
  <1>1. 0 \in D
    <2>1. [k \in 0 .. 0 |-> <<>>] \in [0 .. 0 -> Seq(NFActorMessage)]
      OBVIOUS
    <2>2. Selects([k \in 0 .. 0 |-> <<>>], a, q, 0)
      BY DEF Selects
    <2> QED BY <2>1, <2>2
  <1>2. ASSUME NEW n \in D PROVE n + 1 \in D
    <2> SUFFICES ASSUME n + 1 <= Len(q)
                 PROVE  \E f \in [0 .. n + 1 -> Seq(NFActorMessage)] : Selects(f, a, q, n + 1)
      OBVIOUS
    <2>1. n \in Nat /\ n <= Len(q)
      BY <1>0
    <2>2. PICK f \in [0 .. n -> Seq(NFActorMessage)] : Selects(f, a, q, n)
      BY <2>1
    <2>3. PICK m : m = q[n + 1]
      OBVIOUS
    <2>4. m \in NFActorMessage
      BY <1>0, <2>1, <2>3, ElementOfSeq
    <2>5. PICK s \in Seq(NFActorMessage) : /\ m.to = a => s = Append(f[n], m)
                                           /\ m.to # a => s = f[n]
      <3>1. f[n] \in Seq(NFActorMessage) /\ Append(f[n], m) \in Seq(NFActorMessage)
        BY <2>1, <2>4, AppendProperties
      <3> QED BY <3>1
    <2>6. PICK g \in [0 .. n + 1 -> Seq(NFActorMessage)] :
              g[n + 1] = s /\ \A k \in 0 .. n : g[k] = f[k]
      <3> DEFINE h == [k \in 0 .. n + 1 |-> IF k = n + 1 THEN s ELSE f[k]]
      <3>1. h \in [0 .. n + 1 -> Seq(NFActorMessage)]
        BY <2>1
      <3>2. h[n + 1] = s /\ \A k \in 0 .. n : h[k] = f[k]
        BY <2>1
      <3> QED BY <3>1, <3>2
    <2>7. g[0] = <<>>
      BY <2>1, <2>2, <2>6 DEF Selects
    <2>8. ASSUME NEW k \in 1 .. n + 1
          PROVE  /\ q[k].to = a => g[k] = Append(g[k - 1], q[k])
                 /\ q[k].to # a => g[k] = g[k - 1]
      <3>1. CASE k = n + 1
        <4>1. k - 1 = n /\ g[k - 1] = f[n]
          BY <2>1, <2>6, <3>1
        <4> QED BY <2>3, <2>5, <2>6, <3>1, <4>1
      <3>2. CASE k # n + 1
        <4>1. k \in 1 .. n /\ k \in 0 .. n /\ k - 1 \in 0 .. n
          BY <2>1, <3>2
        <4> QED BY <2>2, <2>6, <4>1 DEF Selects
      <3> QED BY <3>1, <3>2
    <2> QED BY <2>7, <2>8 DEF Selects
  <1>3. D \in SUBSET Nat /\ \A n \in D : n + 1 \in D
    BY <1>2
  <1>4. Len(q) \in D
    <2> HIDE DEF D
    <2> QED BY <1>0, <1>1, <1>3, AllNumbers
  <1> QED BY <1>0, <1>4

LEMMA SelectionUnique ==
    ASSUME NEW a, NEW q, NEW n \in Nat, NEW f, NEW g,
           Selects(f, a, q, n), Selects(g, a, q, n)
    PROVE  \A k \in 0 .. n : f[k] = g[k]
  <1> DEFINE D == {k \in Nat : k <= n => f[k] = g[k]}
  <1>1. 0 \in D
    BY DEF Selects
  <1>2. ASSUME NEW k \in D PROVE k + 1 \in D
    <2> SUFFICES ASSUME k + 1 <= n PROVE f[k + 1] = g[k + 1]
      OBVIOUS
    <2>1. k + 1 \in 1 .. n /\ (k + 1) - 1 = k /\ f[k] = g[k]
      OBVIOUS
    <2> QED BY <2>1 DEF Selects
  <1>3. D \in SUBSET Nat /\ \A k \in D : k + 1 \in D
    BY <1>2
  <1>4. \A k \in Nat : k \in D
    <2> HIDE DEF D
    <2> QED BY <1>1, <1>3, AllNumbers
  <1> QED BY <1>4

\* ResultsOf is its last value.
LEMMA ResultsOfSelects ==
    ASSUME NEW a, NEW q \in Seq(NFActorMessage)
    PROVE  \E f \in [0 .. Len(q) -> Seq(NFActorMessage)] :
               Selects(f, a, q, Len(q)) /\ ResultsOf(a, q) = f[Len(q)]
  <1>1. Len(q) \in Nat
    BY LenProperties
  <1>2. PICK f \in [0 .. Len(q) -> Seq(NFActorMessage)] : Selects(f, a, q, Len(q))
    BY SelectionExists
  <1> DEFINE Is(g) == g = [n \in 0 .. Len(q) |->
                              IF n = 0 THEN <<>>
                              ELSE IF q[n].to = a THEN Append(g[n - 1], q[n])
                              ELSE g[n - 1]]
  <1>3. Is(f)
    <2>1. ASSUME NEW n \in 0 .. Len(q)
          PROVE  f[n] = IF n = 0 THEN <<>>
                        ELSE IF q[n].to = a THEN Append(f[n - 1], q[n])
                        ELSE f[n - 1]
      <3>1. CASE n = 0
        BY <1>2, <3>1 DEF Selects
      <3>2. CASE n # 0
        <4>1. n \in 1 .. Len(q)
          BY <1>1, <3>2
        <4> QED BY <1>2, <3>2, <4>1 DEF Selects
      <3> QED BY <3>1, <3>2
    <2> QED BY <2>1
  <1>4. PICK g : g = CHOOSE h : Is(h)
    OBVIOUS
  <1>5. ResultsOf(a, q) = g[Len(q)]
    BY <1>4 DEF ResultsOf
  <1>6. Is(g)
    BY <1>3, <1>4
  <1>7. Selects(g, a, q, Len(q))
    <2>1. \A n \in 0 .. Len(q) : g[n] = IF n = 0 THEN <<>>
                                        ELSE IF q[n].to = a THEN Append(g[n - 1], q[n])
                                        ELSE g[n - 1]
      <3> DEFINE body(h, n) == IF n = 0 THEN <<>>
                               ELSE IF q[n].to = a THEN Append(h[n - 1], q[n])
                               ELSE h[n - 1]
      <3>1. g = [n \in 0 .. Len(q) |-> body(g, n)]
        BY <1>6
      <3> HIDE DEF body
      <3>2. \A n \in 0 .. Len(q) : g[n] = body(g, n)
        BY <3>1
      <3> QED BY <3>2 DEF body
    <2>2. g[0] = <<>>
      BY <1>1, <2>1
    <2>3. ASSUME NEW k \in 1 .. Len(q)
          PROVE  g[k] = IF q[k].to = a THEN Append(g[k - 1], q[k]) ELSE g[k - 1]
      BY <1>1, <2>1
    <2> QED BY <2>2, <2>3 DEF Selects
  <1>8. g[Len(q)] = f[Len(q)]
    BY <1>1, <1>2, <1>7, SelectionUnique
  <1> QED BY <1>2, <1>5, <1>8

\* The results of an actor are messages.
LEMMA ResultsOfType ==
    ASSUME NEW a, NEW q \in Seq(NFActorMessage)
    PROVE  ResultsOf(a, q) \in Seq(NFActorMessage)
  <1>1. Len(q) \in Nat
    BY LenProperties
  <1> QED BY <1>1, ResultsOfSelects

LEMMA ResultsOfEmpty ==
    ASSUME NEW a
    PROVE  ResultsOf(a, <<>>) = <<>>
  <1>1. <<>> \in Seq(NFActorMessage) /\ Len(<<>>) = 0
    BY EmptySeq
  <1>2. PICK f : Selects(f, a, <<>>, 0) /\ ResultsOf(a, <<>>) = f[0]
    BY <1>1, ResultsOfSelects
  <1> QED BY <1>2 DEF Selects

\* A result that is added is added to those of its actor.
LEMMA ResultsOfAppend ==
    ASSUME NEW a, NEW q \in Seq(NFActorMessage), NEW m \in NFActorMessage
    PROVE  /\ m.to = a => ResultsOf(a, Append(q, m)) = Append(ResultsOf(a, q), m)
           /\ m.to # a => ResultsOf(a, Append(q, m)) = ResultsOf(a, q)
  <1>1. PICK r : r = Append(q, m)
    OBVIOUS
  <1>2. PICK n \in Nat : n = Len(q)
    BY LenProperties
  <1>3. /\ r \in Seq(NFActorMessage) /\ Len(r) = n + 1 /\ r[n + 1] = m
        /\ \A k \in 1 .. n : r[k] = q[k]
    BY <1>1, <1>2, AppendProperties
  <1>4. PICK f : Selects(f, a, q, n) /\ ResultsOf(a, q) = f[n]
    BY <1>2, ResultsOfSelects
  <1>5. PICK g : Selects(g, a, r, n + 1) /\ ResultsOf(a, r) = g[n + 1]
    BY <1>3, ResultsOfSelects
  <1>6. Selects(g, a, q, n)
    <2>1. \A k \in 1 .. n : k \in 1 .. n + 1
      OBVIOUS
    <2> QED BY <1>3, <1>5, <2>1 DEF Selects
  <1>7. g[n] = f[n]
    BY <1>4, <1>6, SelectionUnique
  <1>8. n + 1 \in 1 .. n + 1 /\ (n + 1) - 1 = n
    OBVIOUS
  <1>9. /\ m.to = a => g[n + 1] = Append(g[n], m)
        /\ m.to # a => g[n + 1] = g[n]
    BY <1>3, <1>5, <1>8 DEF Selects
  <1> QED BY <1>1, <1>4, <1>5, <1>7, <1>9

\* The head of the results is the first of its own actor's, and no other's.
HeadOf(a, q) ==
    /\ Head(q).to = a => /\ ResultsOf(a, q) # <<>>
                         /\ Head(ResultsOf(a, q)) = Head(q)
                         /\ Tail(ResultsOf(a, q)) = ResultsOf(a, Tail(q))
    /\ Head(q).to # a => ResultsOf(a, q) = ResultsOf(a, Tail(q))

LEMMA HeadOfOne ==
    ASSUME NEW a, NEW m \in NFActorMessage
    PROVE  HeadOf(a, Append(<<>>, m))
  <1>1. <<>> \in Seq(NFActorMessage)
    BY EmptySeq
  <1>2. Head(Append(<<>>, m)) = m /\ Tail(Append(<<>>, m)) = <<>> /\ Append(<<>>, m) # <<>>
    BY <1>1, HeadTailAppend, AppendProperties
  <1>3. ResultsOf(a, <<>>) = <<>>
    BY ResultsOfEmpty
  <1>4. PICK e \in Seq(NFActorMessage) : e = <<>>
    BY <1>1
  <1>5. /\ m.to = a => ResultsOf(a, Append(e, m)) = Append(e, m)
        /\ m.to # a => ResultsOf(a, Append(e, m)) = e
    BY ONLY e \in Seq(NFActorMessage), m \in NFActorMessage, <1>3, <1>4, ResultsOfAppend
  <1> QED BY <1>2, <1>3, <1>4, <1>5 DEF HeadOf

LEMMA HeadOfMore ==
    ASSUME NEW a, NEW q \in Seq(NFActorMessage), q # <<>>, NEW m \in NFActorMessage,
           HeadOf(a, q)
    PROVE  HeadOf(a, Append(q, m))
  <1>1. PICK r : r = Append(q, m)
    OBVIOUS
  <1>2. PICK s \in Seq(NFActorMessage) : s = Tail(q)
    BY HeadTailProperties
  <1>3. Head(r) = Head(q) /\ Tail(r) = Append(s, m)
    BY <1>1, <1>2, HeadTailAppend
  <1>4. PICK x \in Seq(NFActorMessage) : x = ResultsOf(a, q)
    BY ResultsOfType
  <1>5. PICK y \in Seq(NFActorMessage) : y = ResultsOf(a, s)
    BY ResultsOfType
  <1>6. /\ Head(q).to = a => x # <<>> /\ Head(x) = Head(q) /\ Tail(x) = y
        /\ Head(q).to # a => x = y
    BY <1>2, <1>4, <1>5 DEF HeadOf
  <1>7. CASE m.to = a
    <2>1. /\ ResultsOf(a, Append(q, m)) = Append(ResultsOf(a, q), m)
          /\ ResultsOf(a, Append(s, m)) = Append(ResultsOf(a, s), m)
      BY <1>7, ResultsOfAppend
    <2>2. ResultsOf(a, r) = Append(x, m) /\ ResultsOf(a, Tail(r)) = Append(y, m)
      BY <1>1, <1>3, <1>4, <1>5, <2>1
    <2>3. Head(q).to = a => /\ Append(x, m) # <<>>
                            /\ Head(Append(x, m)) = Head(q)
                            /\ Tail(Append(x, m)) = Append(y, m)
      BY <1>6, HeadTailAppend, AppendProperties
    <2> QED BY <1>1, <1>3, <1>6, <2>2, <2>3 DEF HeadOf
  <1>8. CASE m.to # a
    <2>1. /\ ResultsOf(a, Append(q, m)) = ResultsOf(a, q)
          /\ ResultsOf(a, Append(s, m)) = ResultsOf(a, s)
      BY <1>8, ResultsOfAppend
    <2>2. ResultsOf(a, r) = x /\ ResultsOf(a, Tail(r)) = y
      BY <1>1, <1>3, <1>4, <1>5, <2>1
    <2> QED BY <1>1, <1>3, <1>6, <2>2 DEF HeadOf
  <1> QED BY <1>7, <1>8

\* By induction over the length: a result more at the end leaves the head alone.
LEMMA ResultsOfTail ==
    ASSUME NEW a, NEW q \in Seq(NFActorMessage), q # <<>>
    PROVE  HeadOf(a, q)
  <1> DEFINE D == {n \in Nat : \A s \in Seq(NFActorMessage) : Len(s) = n + 1 => HeadOf(a, s)}
  <1>1. 0 \in D
    <2> SUFFICES ASSUME NEW s \in Seq(NFActorMessage), Len(s) = 1 PROVE HeadOf(a, s)
      OBVIOUS
    <2>1. s # <<>>
      BY ONLY Len(s) = 1, EmptySeq
    <2>2. PICK r \in Seq(NFActorMessage), m \in NFActorMessage : s = Append(r, m)
      BY ONLY s \in Seq(NFActorMessage), <2>1, SequenceEmptyOrAppend
    <2>3. PICK k \in Nat : k = Len(r)
      BY LenProperties
    <2>4. Len(r) = 0
      <3>1. Len(s) = Len(r) + 1
        BY <2>2, AppendProperties
      <3>2. k + 1 = 1
        BY <2>3, <3>1
      <3>3. k = 0
        BY <3>2
      <3> QED BY <2>3, <3>3
    <2>5. r = <<>>
      BY <2>4, EmptySeq
    <2> QED BY <2>2, <2>5, HeadOfOne
  <1>2. ASSUME NEW n \in D PROVE n + 1 \in D
    <2> SUFFICES ASSUME NEW s \in Seq(NFActorMessage), Len(s) = n + 2 PROVE HeadOf(a, s)
      OBVIOUS
    <2>1. s # <<>>
      <3>1. n \in Nat /\ Len(s) # 0
        OBVIOUS
      <3> QED BY ONLY <3>1, EmptySeq
    <2>2. PICK r \in Seq(NFActorMessage), m \in NFActorMessage : s = Append(r, m)
      BY ONLY s \in Seq(NFActorMessage), <2>1, SequenceEmptyOrAppend
    <2>3. Len(r) \in Nat /\ Len(s) = Len(r) + 1
      BY <2>2, AppendProperties, LenProperties
    <2>4. Len(r) = n + 1 /\ r # <<>>
      BY <2>3, EmptySeq
    <2>5. HeadOf(a, r)
      BY <2>4
    <2> QED BY <2>2, <2>4, <2>5, HeadOfMore
  <1>3. D \in SUBSET Nat /\ \A n \in D : n + 1 \in D
    BY <1>2
  <1>4. \A n \in Nat : n \in D
    <2> HIDE DEF D
    <2> QED BY <1>1, <1>3, AllNumbers
  <1>5. Len(q) \in Nat \ {0}
    BY EmptySeq
  <1>6. Len(q) - 1 \in D /\ Len(q) = (Len(q) - 1) + 1
    BY <1>4, <1>5
  <1> QED BY <1>6

LEMMA ThreadOfActor == \A a \in Actors : ThreadOf(a) \in Threads
  <1>1. \A a \in Actors : a \in Nat
    BY ActorsAssumption
  <1> QED BY <1>1, ThreadOfType

\* What a worker holds of an actor, for any contents f of the workers' hands.
HandOf(f, a) ==
    LET at == {t \in Threads : f[t] # NoMessage /\ f[t].to = a}
    IN IF at = {} THEN <<>> ELSE <<f[CHOOSE t \in at : TRUE]>>

HandsAtHome(f) == \A t \in Threads : f[t] # NoMessage => ThreadOf(f[t].to) = t

\* A worker holds one message, and only the worker of an actor holds its messages.
LEMMA HandHolds ==
    ASSUME NEW f, HandsAtHome(f), NEW t \in Threads, f[t] # NoMessage
    PROVE  HandOf(f, f[t].to) = <<f[t]>>
  <1>1. PICK at : at = {u \in Threads : f[u] # NoMessage /\ f[u].to = f[t].to}
    OBVIOUS
  <1>2. \A u \in at : u = t
    BY <1>1 DEF HandsAtHome
  <1>3. t \in at
    BY <1>1
  <1>4. PICK c : c = CHOOSE u \in at : TRUE
    OBVIOUS
  <1>5. c = t
    BY <1>2, <1>3, <1>4
  <1> QED BY <1>1, <1>3, <1>4, <1>5 DEF HandOf

LEMMA HandEmpty ==
    ASSUME NEW f, NEW a, \A t \in Threads : f[t] # NoMessage => f[t].to # a
    PROVE  HandOf(f, a) = <<>>
  <1>1. {u \in Threads : f[u] # NoMessage /\ f[u].to = a} = {}
    OBVIOUS
  <1> QED BY <1>1 DEF HandOf

\* What one worker does is of no concern to the actors of another message.
LEMMA HandSame ==
    ASSUME NEW f, NEW g, NEW a, NEW t \in Threads,
           \A u \in Threads : u # t => g[u] = f[u],
           f[t] # NoMessage => f[t].to # a,
           g[t] # NoMessage => g[t].to # a
    PROVE  HandOf(g, a) = HandOf(f, a)
  <1>1. PICK at : at = {u \in Threads : f[u] # NoMessage /\ f[u].to = a}
    OBVIOUS
  <1>2. at = {u \in Threads : g[u] # NoMessage /\ g[u].to = a}
    BY <1>1
  <1>3. CASE at = {}
    BY <1>1, <1>2, <1>3 DEF HandOf
  <1>4. CASE at # {}
    <2>1. PICK c : c = CHOOSE u \in at : TRUE
      OBVIOUS
    <2>2. c \in at
      BY <1>4, <2>1
    <2>3. g[c] = f[c]
      BY <1>1, <2>2
    <2>4. HandOf(f, a) = <<f[c]>>
      BY <1>1, <1>4, <2>1 DEF HandOf
    <2>5. HandOf(g, a) = <<g[c]>>
      BY <1>2, <1>4, <2>1 DEF HandOf
    <2> QED BY <2>3, <2>4, <2>5
  <1> QED BY <1>3, <1>4

LEMMA HandType ==
    ASSUME NEW f \in [Threads -> NFActorMessage \cup {NoMessage}], HandsAtHome(f), NEW a
    PROVE  HandOf(f, a) \in Seq(NFActorMessage)
  <1>1. CASE \E t \in Threads : f[t] # NoMessage /\ f[t].to = a
    <2>1. PICK t \in Threads : f[t] # NoMessage /\ f[t].to = a
      BY <1>1
    <2>2. f[t] \in NFActorMessage
      BY <2>1
    <2>3. <<f[t]>> \in Seq(NFActorMessage)
      BY <2>2
    <2> QED BY <2>1, <2>3, HandHolds
  <1>2. CASE \A t \in Threads : f[t] # NoMessage => f[t].to # a
    <2>1. HandOf(f, a) = <<>>
      BY <1>2, HandEmpty
    <2> QED BY <2>1, EmptySeq
  <1> QED BY <1>1, <1>2

LEMMA NoMessageIsNone == \A m \in NFActorMessage : m # NoMessage
  <1>1. \A m \in NFActorMessage : m.msgID # "none"
    BY MsgIDsAssumption DEF NFActorMessage
  <1>2. NoMessage.msgID = "none"
    BY DEF NoMessage
  <1> QED BY <1>1, <1>2

\* The mapping, under names of its own.
Inbox == [a \in Actors |-> HandOf(message, a) \o mMessageQueue[a]]
Outbox == [a \in Actors |-> ResultsOf(a, mxResultQueue[ThreadOf(a)])]

LEMMA MailboxInit == Init => Mailbox!Init
  <1> SUFFICES ASSUME Init PROVE Mailbox!Init
    OBVIOUS
  <1>1. \A a \in Actors : ThreadOf(a) \in Threads
    BY ThreadOfActor
  <1>2. ASSUME NEW a \in Actors PROVE InHand(a) \o mMessageQueue[a] = <<>>
    <2>1. HandOf(message, a) = <<>>
      BY HandEmpty DEF Init
    <2>2. InHand(a) = <<>>
      BY <2>1 DEF InHand, HandOf
    <2>3. mMessageQueue[a] = <<>>
      BY DEF Init
    <2> QED BY <2>2, <2>3
  <1>3. ASSUME NEW a \in Actors PROVE ResultsOf(a, mxResultQueue[ThreadOf(a)]) = <<>>
    <2>1. mxResultQueue[ThreadOf(a)] = <<>>
      BY <1>1 DEF Init
    <2> QED BY <2>1, ResultsOfEmpty
  <1> QED BY <1>2, <1>3 DEF Mailbox!Init, Init

\* The mailbox's steps, of the mapped state.
Accepts(a, m) ==
    /\ Inbox' = [Inbox EXCEPT ![a] = Append(@, m)]
    /\ Outbox' = Outbox /\ delivered' = delivered
Processes(a) ==
    /\ Inbox[a] # <<>>
    /\ Inbox' = [Inbox EXCEPT ![a] = Tail(@)]
    /\ Outbox' = [Outbox EXCEPT ![a] = Append(@, Head(Inbox[a]))]
    /\ delivered' = delivered
Ignores(a) ==
    /\ Inbox[a] # <<>>
    /\ Inbox' = [Inbox EXCEPT ![a] = Tail(@)]
    /\ Outbox' = Outbox /\ delivered' = delivered
Delivers(a) ==
    /\ Outbox[a] # <<>>
    /\ Outbox' = [Outbox EXCEPT ![a] = Tail(@)]
    /\ delivered' = delivered \cup {Head(Outbox[a])}
    /\ Inbox' = Inbox
Stays == Inbox' = Inbox /\ Outbox' = Outbox /\ delivered' = delivered

\* They are its steps.
LEMMA MappedSteps ==
    ASSUME \/ Stays
           \/ \E a \in Actors : \/ \E m \in NFActorMessage : Accepts(a, m)
                                \/ Processes(a) \/ Ignores(a) \/ Delivers(a)
    PROVE  [Mailbox!Next]_(Mailbox!mailboxVars)
  <1>1. Inbox = [a \in Actors |-> InHand(a) \o mMessageQueue[a]]
    BY DEF Inbox, InHand, HandOf
  <1>2. Inbox' = [a \in Actors |-> InHand(a) \o mMessageQueue[a]]'
    BY DEF Inbox, InHand, HandOf
  <1>3. Outbox = [a \in Actors |-> ResultsOf(a, mxResultQueue[ThreadOf(a)])]
    BY DEF Outbox
  <1>4. Outbox' = [a \in Actors |-> ResultsOf(a, mxResultQueue[ThreadOf(a)])]'
    BY DEF Outbox
  <1>5. CASE Stays
    BY <1>1, <1>2, <1>3, <1>4, <1>5 DEF Stays, Mailbox!mailboxVars
  <1>6. ASSUME NEW a \in Actors, NEW m \in NFActorMessage, Accepts(a, m)
        PROVE  Mailbox!Accept(a, m)
    BY <1>1, <1>2, <1>3, <1>4, <1>6 DEF Accepts, Mailbox!Accept
  <1>7. ASSUME NEW a \in Actors, Processes(a) PROVE Mailbox!Process(a)
    BY <1>1, <1>2, <1>3, <1>4, <1>7 DEF Processes, Mailbox!Process
  <1>8. ASSUME NEW a \in Actors, Ignores(a) PROVE Mailbox!Ignore(a)
    BY <1>1, <1>2, <1>3, <1>4, <1>8 DEF Ignores, Mailbox!Ignore
  <1>9. ASSUME NEW a \in Actors, Delivers(a) PROVE Mailbox!Deliver(a)
    BY <1>1, <1>2, <1>3, <1>4, <1>9 DEF Delivers, Mailbox!Deliver
  <1> QED BY <1>5, <1>6, <1>7, <1>8, <1>9 DEF Mailbox!Next

\* What the steps below use of the invariant.
LEMMA MailboxFacts ==
    ASSUME IInv2
    PROVE  /\ HandsAtHome(message)
           /\ message \in [Threads -> NFActorMessage \cup {NoMessage}]
           /\ mMessageQueue \in [Actors -> Seq(NFActorMessage)]
           /\ mxResultQueue \in [Threads -> Seq(NFActorMessage)]
           /\ \A a \in Actors : HandOf(message, a) \in Seq(NFActorMessage)
  <1>1. /\ message \in [Threads -> NFActorMessage \cup {NoMessage}]
        /\ mMessageQueue \in [Actors -> Seq(NFActorMessage)]
        /\ mxResultQueue \in [Threads -> Seq(NFActorMessage)]
    BY DEF IInv2, IInv1, TypeOK
  <1>2. HandsAtHome(message)
    BY DEF IInv2, AtHome, HandsAtHome, Holding
  <1> QED BY <1>1, <1>2, HandType

\* A message goes behind what the actor has accepted before.
LEMMA SendAccepts ==
    ASSUME IInv2, NEW a \in Actors, NEW id \in MsgIDs, SendMsgToActor(a, id)
    PROVE  \E m \in NFActorMessage : Accepts(a, m)
  <1>1. PICK m : m = [msgID |-> id, index |-> index, to |-> a]
    OBVIOUS
  <1>2. m \in NFActorMessage
    BY <1>1, BoundsAssumption DEF SendMsgToActor, IInv2, IInv1, TypeOK, NFActorMessage
  <1>3. /\ mMessageQueue' = [mMessageQueue EXCEPT ![a] = Append(@, m)]
        /\ message' = message /\ mxResultQueue' = mxResultQueue /\ delivered' = delivered
    BY <1>1 DEF SendMsgToActor, history
  <1>4. PICK h \in Seq(NFActorMessage) : h = HandOf(message, a)
    BY MailboxFacts
  <1>5. PICK q \in Seq(NFActorMessage) : q = mMessageQueue[a]
    BY MailboxFacts
  <1>6. h \o Append(q, m) = Append(h \o q, m)
    <2>1. Append(q, m) = q \o <<m>> /\ Append(h \o q, m) = (h \o q) \o <<m>>
      BY <1>2, AppendIsConcat, ConcatProperties
    <2>2. <<m>> \in Seq(NFActorMessage)
      BY <1>2
    <2> QED BY <2>1, <2>2, ConcatAssociative
  <1>7. /\ mMessageQueue'[a] = Append(q, m)
        /\ \A c \in Actors : c # a => mMessageQueue'[c] = mMessageQueue[c]
    BY <1>3, <1>5, MailboxFacts
  <1>8. Inbox[a] = h \o q /\ Inbox'[a] = h \o Append(q, m)
    BY <1>3, <1>4, <1>5, <1>7 DEF Inbox
  <1>9. \A c \in Actors : c # a => Inbox'[c] = Inbox[c]
    BY <1>3, <1>7 DEF Inbox
  <1>10. Inbox' = [Inbox EXCEPT ![a] = Append(@, m)]
    <2>1. Inbox = [c \in Actors |-> Inbox[c]] /\ Inbox' = [c \in Actors |-> Inbox'[c]]
      BY DEF Inbox
    <2> HIDE DEF Inbox
    <2> QED BY <1>6, <1>8, <1>9, <2>1
  <1>11. Outbox' = Outbox
    BY <1>3 DEF Outbox
  <1> QED BY <1>2, <1>3, <1>10, <1>11 DEF Accepts

\* From the queue into the hands of the worker: still accepted, not yet processed.
LEMMA TryPopStays ==
    ASSUME IInv2, NEW t \in Threads, TryPopMessage(t)
    PROVE  Stays
  <1>1. PICK a : a = Self(t)
    OBVIOUS
  <1>2. a \in Actors /\ ThreadOf(a) = t
    BY <1>1 DEF TryPopMessage, IInv2, IInv1, Pinned
  <1>3. PICK q \in Seq(NFActorMessage) : q = mMessageQueue[a]
    BY <1>2, MailboxFacts
  <1>4. PICK h : h = Head(q)
    OBVIOUS
  <1>5. /\ q # <<>> /\ message[t] = NoMessage
        /\ message' = [message EXCEPT ![t] = h]
        /\ mMessageQueue' = [mMessageQueue EXCEPT ![a] = Tail(@)]
        /\ mxResultQueue' = mxResultQueue /\ delivered' = delivered
    BY <1>1, <1>3, <1>4 DEF TryPopMessage, history
  <1>6. /\ h \in NFActorMessage /\ Tail(q) \in Seq(NFActorMessage)
        /\ q = <<h>> \o Tail(q)
    BY <1>4, <1>5, HeadTailProperties
  <1>7. h.to = a
    <2>1. Len(q) \in Nat \ {0}
      BY <1>5, EmptySeq
    <2>2. 1 \in 1 .. Len(q) /\ h = q[1]
      BY <1>4, <2>1
    <2> QED BY <1>2, <1>3, <2>2 DEF IInv2, AtHome, Queue
  <1>8. h # NoMessage
    BY <1>6, NoMessageIsNone
  <1>9. message'[t] = h /\ \A u \in Threads : u # t => message'[u] = message[u]
    BY <1>5, MailboxFacts
  <1>10. HandOf(message, a) = <<>>
    <2>1. ASSUME NEW u \in Threads, message[u] # NoMessage, message[u].to = a PROVE FALSE
      <3>1. u = t
        BY <1>2, <2>1, MailboxFacts DEF HandsAtHome
      <3> QED BY <1>5, <2>1, <3>1
    <2> QED BY <2>1, HandEmpty
  <1>11. HandOf(message', a) = <<h>>
    <2>1. HandsAtHome(message')
      BY <1>2, <1>7, <1>9, MailboxFacts DEF HandsAtHome
    <2>2. HandOf(message', message'[t].to) = <<message'[t]>>
      BY <1>8, <1>9, <2>1, HandHolds
    <2> QED BY <1>7, <1>9, <2>2
  <1>12. ASSUME NEW c \in Actors, c # a PROVE HandOf(message', c) = HandOf(message, c)
    <2>1. /\ \A u \in Threads : u # t => message'[u] = message[u]
          /\ message[t] # NoMessage => message[t].to # c
          /\ message'[t] # NoMessage => message'[t].to # c
      BY <1>5, <1>7, <1>9, <1>12
    <2> QED BY ONLY t \in Threads, <2>1, HandSame
  <1>13. /\ mMessageQueue'[a] = Tail(q)
         /\ \A c \in Actors : c # a => mMessageQueue'[c] = mMessageQueue[c]
    BY <1>2, <1>3, <1>5, MailboxFacts
  <1>14. <<>> \o q = q
    BY ConcatEmptySeq
  <1>15. \A c \in Actors :
            HandOf(message', c) \o mMessageQueue'[c] = HandOf(message, c) \o mMessageQueue[c]
    <2>1. HandOf(message', a) \o mMessageQueue'[a] = HandOf(message, a) \o mMessageQueue[a]
      BY <1>3, <1>6, <1>10, <1>11, <1>13, <1>14
    <2> QED BY <1>12, <1>13, <2>1
  <1>16. Inbox' = Inbox
    BY <1>15 DEF Inbox
  <1>17. Outbox' = Outbox
    BY <1>5 DEF Outbox
  <1> QED BY <1>5, <1>16, <1>17 DEF Stays

\* What leaves the hands of t leaves the inbox of its actor.
LEMMA HandLeaves ==
    ASSUME IInv2, NEW t \in Threads, message[t] # NoMessage,
           message' = [message EXCEPT ![t] = NoMessage], mMessageQueue' = mMessageQueue
    PROVE  /\ message[t] \in NFActorMessage /\ message[t].to \in Actors
           /\ ThreadOf(message[t].to) = t
           /\ Inbox[message[t].to] # <<>>
           /\ Head(Inbox[message[t].to]) = message[t]
           /\ Inbox' = [Inbox EXCEPT ![message[t].to] = Tail(@)]
  <1>1. PICK m : m = message[t]
    OBVIOUS
  <1>2. PICK a : a = m.to
    OBVIOUS
  <1>3. m \in NFActorMessage /\ a \in Actors /\ ThreadOf(a) = t
    BY <1>1, <1>2, MailboxFacts DEF HandsAtHome, NFActorMessage
  <1>4. PICK q \in Seq(NFActorMessage) : q = mMessageQueue[a]
    BY <1>3, MailboxFacts
  <1>5. HandOf(message, a) = <<m>>
    BY <1>1, <1>2, MailboxFacts, HandHolds
  <1>6. message'[t] = NoMessage /\ \A u \in Threads : u # t => message'[u] = message[u]
    BY MailboxFacts
  <1>7. HandOf(message', a) = <<>>
    <2>1. ASSUME NEW u \in Threads, message'[u] # NoMessage, message'[u].to = a PROVE FALSE
      <3>1. u # t /\ message[u] # NoMessage /\ message[u].to = a
        BY <1>6, <2>1
      <3>2. u = t
        BY <1>3, <3>1, MailboxFacts DEF HandsAtHome
      <3> QED BY <3>1, <3>2
    <2> QED BY <2>1, HandEmpty
  <1>8. ASSUME NEW c \in Actors, c # a PROVE HandOf(message', c) = HandOf(message, c)
    <2>1. /\ \A u \in Threads : u # t => message'[u] = message[u]
          /\ message[t] # NoMessage => message[t].to # c
          /\ message'[t] # NoMessage => message'[t].to # c
      BY <1>1, <1>2, <1>6, <1>8
    <2> QED BY ONLY t \in Threads, <2>1, HandSame
  <1>9. Inbox[a] = <<m>> \o q /\ Inbox'[a] = <<>> \o q
    BY <1>3, <1>4, <1>5, <1>7 DEF Inbox
  <1>10. /\ <<m>> \o q # <<>> /\ Head(<<m>> \o q) = m /\ Tail(<<m>> \o q) = q
         /\ <<>> \o q = q
    BY <1>3, ConcatEmptySeq
  <1>11. \A c \in Actors : c # a => Inbox'[c] = Inbox[c]
    BY <1>8 DEF Inbox
  <1>12. Inbox' = [Inbox EXCEPT ![a] = Tail(@)]
    <2>1. Inbox = [c \in Actors |-> Inbox[c]] /\ Inbox' = [c \in Actors |-> Inbox'[c]]
      BY DEF Inbox
    <2> HIDE DEF Inbox
    <2> QED BY <1>9, <1>10, <1>11, <2>1
  <1> QED BY <1>1, <1>2, <1>3, <1>9, <1>10, <1>12

\* The handler's result goes behind those of its actor, all of them at one worker.
LEMMA RunHandlerProcesses ==
    ASSUME IInv2, NEW t \in Threads, RunHandler(t)
    PROVE  \E a \in Actors : Processes(a)
  <1>1. PICK m : m = message[t]
    OBVIOUS
  <1>2. PICK a : a = m.to
    OBVIOUS
  <1>3. /\ message[t] # NoMessage
        /\ message' = [message EXCEPT ![t] = NoMessage] /\ mMessageQueue' = mMessageQueue
        /\ mxResultQueue' = [mxResultQueue EXCEPT ![t] = Append(@, m)]
        /\ delivered' = delivered
    BY <1>1 DEF RunHandler, history
  <1>4. /\ m \in NFActorMessage /\ a \in Actors /\ ThreadOf(a) = t
        /\ Inbox[a] # <<>> /\ Head(Inbox[a]) = m
        /\ Inbox' = [Inbox EXCEPT ![a] = Tail(@)]
    BY <1>1, <1>2, <1>3, HandLeaves
  <1>5. PICK q \in Seq(NFActorMessage) : q = mxResultQueue[t]
    BY MailboxFacts
  <1>6. /\ mxResultQueue'[t] = Append(q, m)
        /\ \A u \in Threads : u # t => mxResultQueue'[u] = mxResultQueue[u]
    BY <1>3, <1>5, MailboxFacts
  <1>7. Outbox'[a] = Append(Outbox[a], m)
    <2>1. ResultsOf(a, Append(q, m)) = Append(ResultsOf(a, q), m)
      BY <1>2, <1>4, ResultsOfAppend
    <2>2. ThreadOf(a)' = t
      BY <1>4 DEF ThreadOf
    <2> QED BY <1>4, <1>5, <1>6, <2>1, <2>2 DEF Outbox
  <1>8. ASSUME NEW c \in Actors, c # a PROVE Outbox'[c] = Outbox[c]
    <2>1. PICK u \in Threads : u = ThreadOf(c)
      BY ThreadOfActor
    <2>2. Outbox[c] = ResultsOf(c, mxResultQueue[u]) /\ Outbox'[c] = ResultsOf(c, mxResultQueue'[u])
      BY <2>1 DEF Outbox, ThreadOf
    <2>3. ResultsOf(c, Append(q, m)) = ResultsOf(c, q)
      BY <1>2, <1>4, <1>8, ResultsOfAppend
    <2> QED BY <1>5, <1>6, <2>2, <2>3
  <1>9. Outbox' = [Outbox EXCEPT ![a] = Append(@, m)]
    <2>1. Outbox = [c \in Actors |-> Outbox[c]] /\ Outbox' = [c \in Actors |-> Outbox'[c]]
      BY DEF Outbox
    <2> HIDE DEF Outbox
    <2> QED BY <1>7, <1>8, <2>1
  <1> QED BY <1>3, <1>4, <1>9 DEF Processes

LEMMA DropIgnores ==
    ASSUME IInv2, NEW t \in Threads, DropMessage(t)
    PROVE  \E a \in Actors : Ignores(a)
  <1>1. /\ message[t] # NoMessage
        /\ message' = [message EXCEPT ![t] = NoMessage] /\ mMessageQueue' = mMessageQueue
        /\ mxResultQueue' = mxResultQueue /\ delivered' = delivered
    BY DEF DropMessage
  <1>2. /\ message[t].to \in Actors /\ Inbox[message[t].to] # <<>>
        /\ Inbox' = [Inbox EXCEPT ![message[t].to] = Tail(@)]
    BY <1>1, HandLeaves
  <1>3. Outbox' = Outbox
    BY <1>1 DEF Outbox
  <1> QED BY <1>1, <1>2, <1>3 DEF Ignores

\* The oldest result of a worker is the oldest of its actor.
LEMMA ResultDelivers ==
    ASSUME IInv2, NEW t \in Threads, ExecuteResultEvent(t)
    PROVE  \E a \in Actors : Delivers(a)
  <1>1. PICK q \in Seq(NFActorMessage) : q = mxResultQueue[t]
    BY MailboxFacts
  <1>2. PICK m : m = Head(q)
    OBVIOUS
  <1>3. PICK a : a = m.to
    OBVIOUS
  <1>4. /\ q # <<>>
        /\ mxResultQueue' = [mxResultQueue EXCEPT ![t] = Tail(@)]
        /\ delivered' = delivered \cup {m}
        /\ message' = message /\ mMessageQueue' = mMessageQueue
    BY <1>1, <1>2 DEF ExecuteResultEvent
  <1>5. m \in NFActorMessage /\ a \in Actors
    <2>1. m \in NFActorMessage
      BY <1>2, <1>4, HeadTailProperties
    <2> QED BY <1>3, <2>1 DEF NFActorMessage
  <1>6. ThreadOf(a) = t
    <2>1. Len(q) \in Nat \ {0}
      BY <1>4, EmptySeq
    <2>2. 1 \in 1 .. Len(q) /\ m = q[1]
      BY <1>2, <2>1
    <2> QED BY <1>1, <1>3, <2>2 DEF IInv2, AtHome, Results
  <1>7. /\ mxResultQueue'[t] = Tail(q)
        /\ \A u \in Threads : u # t => mxResultQueue'[u] = mxResultQueue[u]
    BY <1>1, <1>4, MailboxFacts
  <1>8. Outbox[a] = ResultsOf(a, q) /\ Outbox'[a] = ResultsOf(a, Tail(q))
    <2>1. ThreadOf(a)' = t
      BY <1>6 DEF ThreadOf
    <2> QED BY <1>1, <1>5, <1>6, <1>7, <2>1 DEF Outbox
  <1>9. Outbox[a] # <<>> /\ Head(Outbox[a]) = m /\ Tail(Outbox[a]) = Outbox'[a]
    <2>1. HeadOf(a, q)
      BY <1>4, ResultsOfTail
    <2> QED BY <1>2, <1>3, <1>8, <2>1 DEF HeadOf
  <1>10. ASSUME NEW c \in Actors, c # a PROVE Outbox'[c] = Outbox[c]
    <2>1. PICK u \in Threads : u = ThreadOf(c)
      BY ThreadOfActor
    <2>2. Outbox[c] = ResultsOf(c, mxResultQueue[u]) /\ Outbox'[c] = ResultsOf(c, mxResultQueue'[u])
      BY <2>1 DEF Outbox, ThreadOf
    <2>3. HeadOf(c, q)
      BY <1>4, ResultsOfTail
    <2>4. ResultsOf(c, q) = ResultsOf(c, Tail(q))
      BY <1>2, <1>3, <1>10, <2>3 DEF HeadOf
    <2> QED BY <1>1, <1>7, <2>2, <2>4
  <1>11. Outbox' = [Outbox EXCEPT ![a] = Tail(@)]
    <2>1. Outbox = [c \in Actors |-> Outbox[c]] /\ Outbox' = [c \in Actors |-> Outbox'[c]]
      BY DEF Outbox
    <2> HIDE DEF Outbox
    <2> QED BY <1>9, <1>10, <2>1
  <1>12. Inbox' = Inbox
    BY <1>4 DEF Inbox
  <1> QED BY <1>4, <1>5, <1>9, <1>11, <1>12 DEF Delivers

LEMMA OthersStayPut ==
    ASSUME UNCHANGED <<mMessageQueue, message, mxResultQueue, delivered>>
    PROVE  Stays
  <1>1. Inbox' = Inbox
    BY DEF Inbox
  <1>2. Outbox' = Outbox
    BY DEF Outbox
  <1> QED BY <1>1, <1>2 DEF Stays

\* Every step is a step of the mailbox or changes nothing it shows.
LEMMA StepMailbox ==
    ASSUME IInv2, [Next]_vars
    PROVE  [Mailbox!Next]_(Mailbox!mailboxVars)
  <1> DEFINE Mapped == \/ Stays
                       \/ \E a \in Actors : \/ \E m \in NFActorMessage : Accepts(a, m)
                                            \/ Processes(a) \/ Ignores(a) \/ Delivers(a)
             still == <<mMessageQueue, message, mxResultQueue, delivered>>
  <1>0. ASSUME UNCHANGED still PROVE Mapped
    BY <1>0, OthersStayPut
  <1>1. ASSUME NEW a \in Actors, NEW id \in MsgIDs, SendMsgToActor(a, id) PROVE Mapped
    BY <1>1, SendAccepts
  <1>2. ASSUME NEW t \in Threads, TryPopMessage(t) PROVE Mapped
    BY <1>2, TryPopStays
  <1>3. ASSUME NEW t \in Threads, RunHandler(t) PROVE Mapped
    BY <1>3, RunHandlerProcesses
  <1>4. ASSUME NEW t \in Threads, DropMessage(t) PROVE Mapped
    BY <1>4, DropIgnores
  <1>5. ASSUME NEW t \in Threads, ExecuteResultEvent(t) PROVE Mapped
    BY <1>5, ResultDelivers
  <1>6. ASSUME \/ \E a \in Actors, handled \in Handlers : RequireActor(a, handled)
               \/ \E a \in Actors : ReleaseActor(a)
               \/ \E id \in JobIDs, withEnd \in BOOLEAN : SubmitJob(id, withEnd)
               \/ BeforeShut
        PROVE  UNCHANGED still
    BY <1>6 DEF RequireActor, ReleaseActor, SubmitJob, BeforeShut, queueVars, history
  <1>7. ASSUME \/ ExecuteEvent \/ ExecuteEventTooEarly \/ ExecuteEventDone
               \/ \E a \in Actors : ScheduleActor(a)
               \/ ExecuteResultEventDone \/ ExecuteTaskResultDone
               \/ \E t \in Threads : ExecuteTaskResult(t)
        PROVE  UNCHANGED still
    BY <1>7 DEF ExecuteEvent, ExecuteEventTooEarly, ExecuteEventDone, ScheduleActor,
                ExecuteResultEventDone, ExecuteTaskResultDone, ExecuteTaskResult,
                queueVars, history
  <1>8. ASSUME NEW t \in Threads, TakeTask(t) \/ RunJob(t) \/ ExecuteReturns(t)
        PROVE  UNCHANGED still
    BY <1>8 DEF TakeTask, RunJob, ExecuteReturns, queueVars, history
  <1>9. CASE UNCHANGED vars
    <2>1. UNCHANGED still
      BY <1>9 DEF vars, queueVars, history
    <2>2. Mapped
      BY <1>0, <2>1
    <2> QED BY <2>2, MappedSteps
  <1> HIDE DEF Mapped, still
  <1>10. ASSUME MainLoop PROVE Mapped
    BY <1>10, <1>0, <1>5, <1>7 DEF MainLoop
  <1>11. ASSUME NEW t \in Threads, Worker(t) PROVE Mapped
    BY <1>11, <1>0, <1>2, <1>3, <1>4, <1>8 DEF Worker
  <1>12. CASE Next
    <2>1. Mapped
      BY <1>12, <1>0, <1>1, <1>6, <1>10, <1>11 DEF Next
    <2> USE DEF Mapped
    <2> QED BY <2>1, MappedSteps
  <1> QED BY <1>9, <1>12

\* Seen from its callers an actor is a sequential server: NFActorModule with
\* NFThreadPoolModule under it implements ActorMailbox, step by step.
THEOREM Implements == Spec => ImplementsMailbox
  <1>1. Init => IInv2
    BY InitIInv1, InitOrder DEF IInv2
  <1>2. IInv2 /\ [Next]_vars => IInv2'
    BY StepTypeOK, StepPinned, StepOrdered DEF IInv2, IInv1
  <1>3. Init => Mailbox!Init
    BY MailboxInit
  <1>4. IInv2 /\ [Next]_vars => [Mailbox!Next]_(Mailbox!mailboxVars)
    BY StepMailbox
  <1> QED
    BY <1>1, <1>2, <1>3, <1>4, PTL DEF Spec, ImplementsMailbox, Mailbox!Spec
===============================================================================
