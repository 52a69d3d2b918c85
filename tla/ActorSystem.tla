----------------------------- MODULE ActorSystem ------------------------------
(***************************************************************************)
(* NFActorModule and NFActor on top of the thread pool. The main thread    *)
(* creates and releases actors, posts messages and, once per frame, gives  *)
(* every actor a task that drains its queue on the worker its id selects;  *)
(* handlers run there, and results and end functors come back to the main  *)
(* thread. Other modules (the kernel's object creation) put their own jobs *)
(* into the same workers.                                                  *)
(***************************************************************************)
EXTENDS ThreadPool, FiniteSets

CONSTANTS
    Actors,    \* the nData64 of the ids NFKernelModule::CreateGUID hands out
    MsgIDs,    \* NFActorMessage::msgID
    Handlers,  \* the sets of message ids that the components' Inits register
    EndIDs,    \* those for which AddEndFunc registered an end functor
    JobIDs,    \* the task ids other modules pass to DoAsyncTask
    MaxMsgs,   \* bound: messages sent
    MaxJobs,   \* bound: jobs submitted
    MaxTasks   \* bound: tasks waiting at a worker when a frame adds its own

ASSUME ActorsAssumption == Actors \subseteq Nat \ {NullGUID}
ASSUME MsgIDsAssumption == 
    "none" \notin MsgIDs /\ EndIDs \subseteq MsgIDs /\ Handlers \subseteq SUBSET MsgIDs
ASSUME JobsAssumption == JobIDs \subseteq Nat /\ {"Execute", "Job"} \subseteq Functors
ASSUME BoundsAssumption == MaxMsgs \in Nat /\ MaxJobs \in Nat /\ MaxTasks \in Nat

VARIABLES
    mxActorMap,        \* ids of the actors the module holds
    guids,             \* ids handed out so far: CreateGUID never repeats one
    mxProcessFunctor,  \* per actor: the message ids its component handles
    mMessageQueue,     \* per actor: its NFQueue of messages
    message,           \* per worker: the local of NFActor::Execute
    mxResultQueue,     \* per worker: what it pushed, FIFO for each producer
    index,             \* the static counter of SendMsgToActor
    mainPc,            \* where the main loop is
    itActor,           \* the actors ExecuteEvent's loop has still to visit
    jobs,              \* number of jobs submitted
    dropped,           \* history: messages that had no handler
    delivered,         \* history: messages whose result ExecuteResultEvent took
    lastEnded,         \* history, per actor: index of the last end functor run
    lastJob            \* history, per task id: the last job whose end functor ran

actorVars == <<mxActorMap, guids, mxProcessFunctor>>
queueVars == <<mMessageQueue, message, mxResultQueue>>
loopVars == <<mainPc, itActor>>
history == <<dropped, delivered, lastEnded, lastJob>>
vars == <<poolVars, actorVars, queueVars, loopVars, index, jobs, history>>

NFActorMessage == [msgID : MsgIDs, index : 0 .. MaxMsgs - 1, to : Actors]
NoMessage == [msgID |-> "none", index |-> 0, to |-> NullGUID]

\* The task ExecuteEvent makes: its functor keeps the actor alive and calls
\* NFActor::Execute; there is no end functor.
ActorTask(a) == [nTaskID |-> a, data |-> 0, xThreadFunc |-> "Execute", xEndFunc |-> FALSE]
JobTask(id, n, withEnd) == [nTaskID |-> id, data |-> n, xThreadFunc |-> "Job", xEndFunc |-> withEnd]

Executing(t) == task[t].xThreadFunc = "Execute"
Self(t) == task[t].nTaskID

Init ==
    /\ PoolInit
    /\ mxActorMap = {} /\ guids = {}
    /\ mxProcessFunctor = [a \in Actors |-> {}]
    /\ mMessageQueue = [a \in Actors |-> <<>>]
    /\ message = [t \in Threads |-> NoMessage]
    /\ mxResultQueue = [t \in Threads |-> <<>>]
    /\ index = 0 /\ jobs = 0
    /\ mainPc = "modules" /\ itActor = {}
    /\ dropped = {} /\ delivered = {}
    /\ lastEnded = [a \in Actors |-> -1]
    /\ lastJob = [id \in JobIDs |-> 0]

-------------------------------------------------------------------------------
(* Calls into the module: from other modules' Execute, and from end functors. *)

CallsMayCome == mainPc \in {"modules", "ExecuteResultEvent", "ExecuteTaskResult"}

\* RequireActor, and the AddComponent its caller makes before the frame goes
\* on: the component's Init registers the handlers of the actor.
RequireActor(a, handled) ==
    /\ CallsMayCome
    /\ a \notin guids
    /\ guids' = guids \cup {a}
    /\ mxActorMap' = mxActorMap \cup {a}
    /\ mxProcessFunctor' = [mxProcessFunctor EXCEPT ![a] = handled]
    /\ UNCHANGED <<poolVars, queueVars, loopVars, index, jobs, history>>

\* A bug: what the actor has not read yet goes with it.
ReleaseActorAndQueue(a) ==
    /\ CallsMayCome
    /\ a \in mxActorMap
    /\ mxActorMap' = mxActorMap \ {a}
    /\ mMessageQueue' = [mMessageQueue EXCEPT ![a] = <<>>]
    /\ UNCHANGED <<poolVars, guids, mxProcessFunctor, message, mxResultQueue, loopVars, index, jobs,
                   history>>

\* Only the map forgets the actor: tasks that hold it still run.
ReleaseActor(a) ==
    /\ CallsMayCome
    /\ a \in mxActorMap
    /\ mxActorMap' = mxActorMap \ {a}
    /\ UNCHANGED <<poolVars, guids, mxProcessFunctor, queueVars, loopVars, index, jobs, history>>

SendMsgToActor(a, id) ==
    /\ CallsMayCome
    /\ index < MaxMsgs
    /\ a \in mxActorMap
    /\ mMessageQueue' = [mMessageQueue EXCEPT
                            ![a] = Append(@, [msgID |-> id, index |-> index, to |-> a])]
    /\ index' = index + 1
    /\ UNCHANGED <<poolVars, actorVars, message, mxResultQueue, loopVars, jobs, history>>

\* DoAsyncTask from another module.
SubmitJob(id, withEnd) ==
    /\ CallsMayCome
    /\ jobs < MaxJobs
    /\ jobs' = jobs + 1
    /\ DoAsyncTask(JobTask(id, jobs + 1, withEnd))
    /\ UNCHANGED <<task, mTaskResult, actorVars, queueVars, loopVars, index, history>>

\* The process stops: the map is cleared, the workers are never joined.
BeforeShut ==
    /\ mainPc = "modules"
    /\ mainPc' = "shut"
    /\ mxActorMap' = {}
    /\ UNCHANGED <<poolVars, guids, mxProcessFunctor, queueVars, itActor, index, jobs, history>>

-------------------------------------------------------------------------------
(* One turn of the main loop: ExecuteEvent, ExecuteResultEvent, and the    *)
(* pool's ExecuteTaskResult.                                               *)

\* A bug: the round goes over a list of its own that ReleaseActor leaves alone.
ExecuteEventOwnList ==
    /\ mainPc = "modules"
    /\ \A t \in Threads : Len(mTaskList[t]) < MaxTasks
    /\ mainPc' = "ExecuteEvent"
    /\ itActor' = guids
    /\ UNCHANGED <<poolVars, actorVars, queueVars, index, jobs, history>>

\* Ten milliseconds have passed since the last round of tasks.
ExecuteEvent ==
    /\ mainPc = "modules"
    /\ \A t \in Threads : Len(mTaskList[t]) < MaxTasks
    /\ mainPc' = "ExecuteEvent"
    /\ itActor' = mxActorMap
    /\ UNCHANGED <<poolVars, actorVars, queueVars, index, jobs, history>>

\* They have not: return false.
ExecuteEventTooEarly ==
    /\ mainPc = "modules"
    /\ mainPc' = "ExecuteResultEvent"
    /\ UNCHANGED <<poolVars, actorVars, queueVars, itActor, index, jobs, history>>

\* A bug: one actor a round, always the first.
ScheduleFirstActor(a) ==
    /\ mainPc = "ExecuteEvent"
    /\ a \in itActor /\ \A b \in itActor : a <= b
    /\ DoAsyncTask(ActorTask(a))
    /\ itActor' = {}
    /\ UNCHANGED <<task, mTaskResult, actorVars, queueVars, mainPc, index, jobs, history>>

\* The loop body, in the order of the ids.
ScheduleActor(a) ==
    /\ mainPc = "ExecuteEvent"
    /\ a \in itActor /\ \A b \in itActor : a <= b
    /\ DoAsyncTask(ActorTask(a))
    /\ itActor' = itActor \ {a}
    /\ UNCHANGED <<task, mTaskResult, actorVars, queueVars, mainPc, index, jobs, history>>

ExecuteEventDone ==
    /\ mainPc = "ExecuteEvent"
    /\ itActor = {}
    /\ mainPc' = "ExecuteResultEvent"
    /\ UNCHANGED <<poolVars, actorVars, queueVars, itActor, index, jobs, history>>

\* try_dequeue of the next result; its end functor runs if there is one.
ExecuteResultEvent(t) ==
    /\ mainPc = "ExecuteResultEvent"
    /\ mxResultQueue[t] # <<>>
    /\ mxResultQueue' = [mxResultQueue EXCEPT ![t] = Tail(@)]
    /\ LET m == Head(mxResultQueue[t]) IN
        /\ delivered' = delivered \cup {m}
        /\ lastEnded' = IF m.msgID \in EndIDs
                        THEN [lastEnded EXCEPT ![m.to] = m.index]
                        ELSE lastEnded
    /\ UNCHANGED <<poolVars, actorVars, mMessageQueue, message, loopVars, index, jobs,
                   dropped, lastJob>>

ExecuteResultEventDone ==
    /\ mainPc = "ExecuteResultEvent"
    /\ \A t \in Threads : mxResultQueue[t] = <<>>
    /\ mainPc' = "ExecuteTaskResult"
    /\ UNCHANGED <<poolVars, actorVars, queueVars, itActor, index, jobs, history>>

ExecuteTaskResult(t) ==
    /\ mainPc = "ExecuteTaskResult"
    /\ PopTaskResult(t)
    /\ LET tk == Head(mTaskResult[t]) IN
        lastJob' = IF tk.xEndFunc THEN [lastJob EXCEPT ![tk.nTaskID] = tk.data] ELSE lastJob
    /\ UNCHANGED <<mTaskList, task, actorVars, queueVars, loopVars, index, jobs,
                   dropped, delivered, lastEnded>>

ExecuteTaskResultDone ==
    /\ mainPc = "ExecuteTaskResult"
    /\ NoTaskResult
    /\ mainPc' = "modules"
    /\ UNCHANGED <<poolVars, actorVars, queueVars, itActor, index, jobs, history>>

MainLoop ==
    \/ ExecuteEvent
    \/ ExecuteEventTooEarly
    \/ \E a \in Actors : ScheduleActor(a)
    \/ ExecuteEventDone
    \/ \E t \in Threads : ExecuteResultEvent(t)
    \/ ExecuteResultEventDone
    \/ \E t \in Threads : ExecuteTaskResult(t)
    \/ ExecuteTaskResultDone

-------------------------------------------------------------------------------
(* The workers. *)

TakeTask(t) ==
    /\ PopTask(t)
    /\ UNCHANGED <<mTaskResult, actorVars, queueVars, loopVars, index, jobs, history>>

\* Another module's functor; its result, if wanted, goes to the main thread.
RunJob(t) ==
    /\ task[t].xThreadFunc = "Job"
    /\ FinishTask(t)
    /\ UNCHANGED <<mTaskList, actorVars, queueVars, loopVars, index, jobs, history>>

\* A bug: the newest message first.
TryPopNewestMessage(t) ==
    /\ Executing(t)
    /\ message[t] = NoMessage
    /\ LET q == mMessageQueue[Self(t)] IN
        /\ q # <<>>
        /\ message' = [message EXCEPT ![t] = q[Len(q)]]
        /\ mMessageQueue' = [mMessageQueue EXCEPT ![Self(t)] = SubSeq(q, 1, Len(q) - 1)]
    /\ UNCHANGED <<poolVars, actorVars, mxResultQueue, loopVars, index, jobs, history>>

\* NFActor::Execute, the condition of its loop.
TryPopMessage(t) ==
    /\ Executing(t)
    /\ message[t] = NoMessage
    /\ mMessageQueue[Self(t)] # <<>>
    /\ message' = [message EXCEPT ![t] = Head(mMessageQueue[Self(t)])]
    /\ mMessageQueue' = [mMessageQueue EXCEPT ![Self(t)] = Tail(@)]
    /\ UNCHANGED <<poolVars, actorVars, mxResultQueue, loopVars, index, jobs, history>>

\* The handler ran (for however long); its result goes to the main thread.
RunHandler(t) ==
    /\ message[t] # NoMessage
    /\ message[t].msgID \in mxProcessFunctor[Self(t)]
    /\ mxResultQueue' = [mxResultQueue EXCEPT ![t] = Append(@, message[t])]
    /\ message' = [message EXCEPT ![t] = NoMessage]
    /\ UNCHANGED <<poolVars, actorVars, mMessageQueue, loopVars, index, jobs, history>>

\* No handler: nothing is told to anybody.
DropMessage(t) ==
    /\ message[t] # NoMessage
    /\ message[t].msgID \notin mxProcessFunctor[Self(t)]
    /\ message' = [message EXCEPT ![t] = NoMessage]
    /\ dropped' = dropped \cup {message[t]}
    /\ UNCHANGED <<poolVars, actorVars, mMessageQueue, mxResultQueue, loopVars, index, jobs,
                   delivered, lastEnded, lastJob>>

\* TryPop found nothing: the task is done.
ExecuteReturns(t) ==
    /\ Executing(t)
    /\ message[t] = NoMessage
    /\ mMessageQueue[Self(t)] = <<>>
    /\ FinishTask(t)
    /\ UNCHANGED <<mTaskList, actorVars, queueVars, loopVars, index, jobs, history>>

Worker(t) ==
    \/ TakeTask(t)
    \/ RunJob(t)
    \/ TryPopMessage(t)
    \/ RunHandler(t)
    \/ DropMessage(t)
    \/ ExecuteReturns(t)

Next ==
    \/ \E a \in Actors, handled \in Handlers : RequireActor(a, handled)
    \/ \E a \in Actors : ReleaseActor(a)
    \/ \E a \in Actors, id \in MsgIDs : SendMsgToActor(a, id)
    \/ \E id \in JobIDs, withEnd \in BOOLEAN : SubmitJob(id, withEnd)
    \/ BeforeShut
    \/ MainLoop
    \/ \E t \in Threads : Worker(t)

Spec == Init /\ [][Next]_vars

\* The main loop turns for ever and a worker's loop does too; time passes, so
\* ten milliseconds are over again and again. Handlers return.
FairSpec ==
    /\ Spec
    /\ WF_vars(MainLoop)
    /\ SF_vars(ExecuteEvent)
    /\ \A t \in Threads : WF_vars(Worker(t))

-------------------------------------------------------------------------------
(* Properties *)

TypeOK ==
    /\ PoolTypeOK
    /\ guids \subseteq Actors
    /\ mxActorMap \subseteq guids
    /\ mxProcessFunctor \in [Actors -> SUBSET MsgIDs]
    /\ mMessageQueue \in [Actors -> Seq(NFActorMessage)]
    /\ message \in [Threads -> NFActorMessage \cup {NoMessage}]
    /\ mxResultQueue \in [Threads -> Seq(NFActorMessage)]
    /\ index \in 0 .. MaxMsgs
    /\ jobs \in Nat
    /\ mainPc \in {"modules", "ExecuteEvent", "ExecuteResultEvent", "ExecuteTaskResult", "shut"}
    /\ itActor \subseteq Actors
    /\ dropped \subseteq NFActorMessage
    /\ delivered \subseteq NFActorMessage
    /\ lastEnded \in [Actors -> Int]
    /\ lastJob \in [JobIDs -> Nat]

\* NFActor::Execute asks for it: no two threads run the same actor, although
\* every frame queues another task for it while older ones wait or run.
OneThreadPerActor ==
    \A t, u \in Threads :
        Executing(t) /\ Executing(u) /\ Self(t) = Self(u) => t = u

\* The end functors of an actor's messages run in the order in which the
\* messages were sent, and none runs twice, whatever the workers do meanwhile.
EndsInSendOrder ==
    [][\A a \in Actors : lastEnded'[a] # lastEnded[a] => lastEnded'[a] > lastEnded[a]]_vars

\* The places of message i in the sequences of D.
PlacesIn(seqs, kind, D, i) ==
    UNION {{<<kind, d, n>> : n \in {k \in DOMAIN seqs[d] : seqs[d][k].index = i}} : d \in D}

\* Where message i is: in a queue, in a worker's hands, dropped or delivered.
Places(i) ==
    PlacesIn(mMessageQueue, "mailbox", Actors, i)
    \cup PlacesIn(mxResultQueue, "result", Threads, i)
    \cup {<<"handling", t>> : t \in {t \in Threads : message[t] # NoMessage /\ message[t].index = i}}
    \cup {<<"dropped", m>> : m \in {m \in dropped : m.index = i}}
    \cup {<<"delivered", m>> : m \in {m \in delivered : m.index = i}}

\* A message SendMsgToActor accepted is never lost between the queues and
\* never handled twice: it is in exactly one place.
NothingLostOrDoubled == \A i \in 0 .. index - 1 : Cardinality(Places(i)) = 1

\* The end functors of the jobs with one task id run in the order in which
\* they were submitted (the object pipeline chains its stages on it).
JobsEndInOrder ==
    [][\A id \in JobIDs : lastJob'[id] # lastJob[id] => lastJob'[id] > lastJob[id]]_vars

\* The actor system seen as sequential servers: what a worker has in its
\* hands is still at the head of the inbox.
InHand(a) ==
    LET at == {t \in Threads : message[t] # NoMessage /\ message[t].to = a}
    IN IF at = {} THEN <<>> ELSE <<message[CHOOSE t \in at : TRUE]>>

\* Those of the results q that are a's, in their order.
ResultsOf(a, q) ==
    LET upTo[n \in 0 .. Len(q)] ==
            IF n = 0 THEN <<>>
            ELSE IF q[n].to = a THEN Append(upTo[n - 1], q[n])
            ELSE upTo[n - 1]
    IN upTo[Len(q)]

Mailbox == INSTANCE ActorMailbox WITH
    Messages <- NFActorMessage,
    inbox <- [a \in Actors |-> InHand(a) \o mMessageQueue[a]],
    outbox <- [a \in Actors |-> ResultsOf(a, mxResultQueue[ThreadOf(a)])],
    delivered <- delivered

ImplementsMailbox == Mailbox!Spec

-------------------------------------------------------------------------------
(* Liveness *)

Settled(i) == \E m \in dropped \cup delivered : m.index = i

Stranded(i) ==
    \E a \in Actors \ mxActorMap : \E n \in 1 .. Len(mMessageQueue[a]) : mMessageQueue[a][n].index = i

\* A message is dropped for want of a handler or its result reaches main,
\* unless its actor was released first or the process stopped.
MessagesSettle ==
    \A i \in 0 .. MaxMsgs - 1 :
        i < index ~> Settled(i) \/ Stranded(i) \/ mainPc = "shut"

Referenced(a) ==
    \E t \in Threads :
        \/ Executing(t) /\ Self(t) = a
        \/ \E n \in 1 .. Len(mTaskList[t]) :
              mTaskList[t][n].xThreadFunc = "Execute" /\ mTaskList[t][n].nTaskID = a

\* After ReleaseActor the tasks that still hold the actor run out, and no
\* later frame makes new ones: the actor is then destroyed.
ReleasedActorGoesQuiet ==
    \A a \in Actors : a \in guids \ mxActorMap ~> [](~Referenced(a))

JobAt(q, n) == \E k \in 1 .. Len(q) : q[k].data = n

\* A job is run, and its end functor too, whatever actors share its worker.
JobsEnd ==
    \A n \in 1 .. MaxJobs :
        n <= jobs ~>
            \/ mainPc = "shut"
            \/ \A t \in Threads :
                task[t].data # n /\ ~JobAt(mTaskList[t], n) /\ ~JobAt(mTaskResult[t], n)
===============================================================================
