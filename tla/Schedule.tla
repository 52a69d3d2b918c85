------------------------------- MODULE Schedule -------------------------------
(***************************************************************************)
(* NFScheduleModule: named timers of objects. Execute, once per frame of   *)
(* the main loop, fires what is due, and a callback may add and remove     *)
(* timers while the loop that called it stands in the middle of the list.  *)
(* A timer is an element of a map and a tick in an ordered list; removing  *)
(* the one leaves the other behind.                                        *)
(*                                                                         *)
(* Times are relative to the present, so that the clock needs no bound: a  *)
(* trigger time d lies d milliseconds ahead, and ones further back than    *)
(* MaxLag look alike.                                                      *)
(***************************************************************************)
EXTENDS Integers, Sequences, SequencesExt, FiniteSets

CONSTANTS
    Objects,    \* NFGUIDs
    Names,      \* schedule names
    Intervals,  \* the times AddSchedule is called with
    Counts,     \* the counts it is called with
    MaxTicks,   \* bound: ticks outstanding when one more is added
    MaxLag      \* bound: how long one Execute may take

ASSUME IntervalsAssumption == Intervals \subseteq Nat
ASSUME CountsAssumption == Counts \subseteq Int
ASSUME LagAssumption == MaxTicks \in Nat /\ MaxLag \in Nat \ {0}

VARIABLES
    mObjectScheduleMap,  \* per timer: its NFScheduleElement, or NoElement
    mScheduleMap,        \* the multiset of ticks, earliest first
    pc,                  \* where Execute is
    lag,                 \* how long ago Execute read the clock into nowTime
    scheduleElement,     \* the element whose callback runs
    elements,            \* the ticks Execute will put back
    readded,             \* history: timers added while an older tick was left
    asked,               \* history, per timer: the count it was last added with
    fired                \* history, per timer with a count: how often it has fired

scheduleVars == <<mObjectScheduleMap, mScheduleMap>>
executeVars == <<pc, lag, scheduleElement, elements>>
history == <<readded, asked, fired>>
vars == <<scheduleVars, executeVars, history>>

Timers == Objects \X Names
Times == -MaxLag .. (CHOOSE m \in Intervals : \A i \in Intervals : i <= m)

RemainCounts == Counts \cup UNION {0 .. c : c \in Counts}

TickElement == [timer : Timers, triggerTime : Times]
NFScheduleElement ==
    [timer : Timers, interval : Intervals, triggerTime : Times, remain : RemainCounts]
NoElement == [interval |-> 0, triggerTime |-> 0, remain |-> 0]

Exists(k) == mObjectScheduleMap[k] # NoElement
TickOf(e) == [timer |-> e.timer, triggerTime |-> e.triggerTime]

\* The present moves on by one.
Sooner(x) == IF x.triggerTime > -MaxLag THEN [x EXCEPT !.triggerTime = @ - 1] ELSE x

\* multiset::insert: behind the ticks of the same time.
InsertTick(ticks, x) ==
    LET before == {i \in DOMAIN ticks : ticks[i].triggerTime <= x.triggerTime}
    IN InsertAt(ticks, Cardinality(before) + 1, x)

\* Execute's last loop: each tick of back is inserted, in their order.
PutBack(ticks, back) ==
    LET upTo[n \in 0 .. Len(back)] == IF n = 0 THEN ticks ELSE InsertTick(upTo[n - 1], back[n])
    IN upTo[Len(back)]

Init ==
    /\ mObjectScheduleMap = [k \in Timers |-> NoElement]
    /\ mScheduleMap = <<>>
    /\ pc = "idle" /\ lag = 0
    /\ scheduleElement = NoElement
    /\ elements = <<>>
    /\ readded = {}
    /\ asked = [k \in Timers |-> 0]
    /\ fired = [k \in Timers |-> 0]

\* How many ticks a timer has, or will get back when its callback returns.
TicksOf(k) ==
    LET ticks == (IF pc = "callback" THEN Tail(mScheduleMap) ELSE mScheduleMap) \o elements
    IN Cardinality({i \in DOMAIN ticks : ticks[i].timer = k})
       + IF pc = "callback" /\ scheduleElement.timer = k /\ scheduleElement.remain # 0
         THEN 1 ELSE 0

-------------------------------------------------------------------------------
(* Calls: from other modules' Execute, and from a callback. *)

CallsMayCome == pc \in {"idle", "callback"}

\* A bug: the schedule is added whether or not it exists.
AddScheduleAnyway(k, time, count) ==
    /\ CallsMayCome
    /\ Len(mScheduleMap) + Len(elements) < MaxTicks
    /\ LET e == [timer |-> k, interval |-> time, triggerTime |-> time, remain |-> count] IN
        /\ mObjectScheduleMap' = [mObjectScheduleMap EXCEPT ![k] = e]
        /\ mScheduleMap' = InsertTick(mScheduleMap, TickOf(e))
    /\ readded' = IF ~Exists(k) /\ TicksOf(k) > 0 THEN readded \cup {k} ELSE readded
    /\ asked' = [asked EXCEPT ![k] = count]
    /\ fired' = [fired EXCEPT ![k] = 0]
    /\ UNCHANGED executeVars

\* Nothing happens if the timer exists, whatever its interval and count are.
AddSchedule(k, time, count) ==
    /\ CallsMayCome
    /\ Len(mScheduleMap) + Len(elements) < MaxTicks
    /\ ~Exists(k)
    /\ LET e == [timer |-> k, interval |-> time, triggerTime |-> time, remain |-> count] IN
        /\ mObjectScheduleMap' = [mObjectScheduleMap EXCEPT ![k] = e]
        /\ mScheduleMap' = InsertTick(mScheduleMap, TickOf(e))
    /\ readded' = IF TicksOf(k) > 0 THEN readded \cup {k} ELSE readded
    /\ asked' = [asked EXCEPT ![k] = count]
    /\ fired' = [fired EXCEPT ![k] = 0]
    /\ UNCHANGED executeVars

\* Only the element goes; its tick stays in mScheduleMap.
RemoveSchedule(k) ==
    /\ CallsMayCome
    /\ Exists(k)
    /\ mObjectScheduleMap' = [mObjectScheduleMap EXCEPT ![k] = NoElement]
    /\ UNCHANGED <<mScheduleMap, executeVars, history>>

\* RemoveSchedule(self), also when the object or the scene group is destroyed.
RemoveAllSchedules(self) ==
    /\ CallsMayCome
    /\ mObjectScheduleMap' =
        [k \in Timers |-> IF k[1] = self THEN NoElement ELSE mObjectScheduleMap[k]]
    /\ UNCHANGED <<mScheduleMap, executeVars, history>>

-------------------------------------------------------------------------------
(* Execute. *)

Execute ==
    /\ pc = "idle"
    /\ pc' = "ticks"
    /\ UNCHANGED <<scheduleVars, lag, scheduleElement, elements, history>>

Due == mScheduleMap # <<>> /\ Head(mScheduleMap).triggerTime <= -lag

\* One heartbeat less to come, and the next an interval after nowTime.
DoHeartBeatEvent(e) ==
    [e EXCEPT !.remain = IF @ > 0 THEN @ - 1 ELSE @, !.triggerTime = e.interval - lag]

\* A bug: the last heartbeat leaves the element in the map.
FireTickAndKeep ==
    /\ pc = "ticks" /\ Due
    /\ LET k == Head(mScheduleMap).timer
           e == mObjectScheduleMap[k]
       IN /\ Exists(k)
          /\ scheduleElement' = DoHeartBeatEvent(e)
          /\ mObjectScheduleMap' = [mObjectScheduleMap EXCEPT ![k] = DoHeartBeatEvent(e)]
          /\ fired' = IF e.remain > 0 THEN [fired EXCEPT ![k] = @ + 1] ELSE fired
    /\ pc' = "callback"
    /\ UNCHANGED <<mScheduleMap, lag, elements, readded, asked>>

\* The head is due and its timer exists: the last heartbeat takes it out of the
\* map, and then the callback is called.
FireTick ==
    /\ pc = "ticks" /\ Due
    /\ LET k == Head(mScheduleMap).timer
           e == mObjectScheduleMap[k]
       IN /\ Exists(k)
          /\ scheduleElement' = DoHeartBeatEvent(e)
          /\ mObjectScheduleMap' = [mObjectScheduleMap EXCEPT
                ![k] = IF e.remain = 1 THEN NoElement ELSE DoHeartBeatEvent(e)]
          /\ fired' = IF e.remain > 0 THEN [fired EXCEPT ![k] = @ + 1] ELSE fired
    /\ pc' = "callback"
    /\ UNCHANGED <<mScheduleMap, lag, elements, readded, asked>>

\* A bug: only a timer with a count gets another tick.
CallbackReturnsCounted ==
    /\ pc = "callback"
    /\ pc' = "ticks"
    /\ elements' = IF scheduleElement.remain > 0
                   THEN Append(elements, TickOf(scheduleElement)) ELSE elements
    /\ scheduleElement' = NoElement
    /\ mScheduleMap' = Tail(mScheduleMap)
    /\ UNCHANGED <<mObjectScheduleMap, lag, history>>

\* A bug: the next tick goes into the list the loop still walks.
CallbackReturnsAtOnce ==
    /\ pc = "callback"
    /\ pc' = "ticks"
    /\ mScheduleMap' = IF scheduleElement.remain # 0
                       THEN InsertTick(Tail(mScheduleMap), TickOf(scheduleElement))
                       ELSE Tail(mScheduleMap)
    /\ scheduleElement' = NoElement
    /\ UNCHANGED <<mObjectScheduleMap, lag, elements, history>>

\* Another tick, unless that was the last heartbeat; the fired one is erased.
CallbackReturns ==
    /\ pc = "callback"
    /\ pc' = "ticks"
    /\ elements' = IF scheduleElement.remain # 0
                   THEN Append(elements, TickOf(scheduleElement)) ELSE elements
    /\ scheduleElement' = NoElement
    /\ mScheduleMap' = Tail(mScheduleMap)
    /\ UNCHANGED <<mObjectScheduleMap, lag, history>>

\* The tick of a timer that was removed.
EraseStaleTick ==
    /\ pc = "ticks" /\ Due
    /\ ~Exists(Head(mScheduleMap).timer)
    /\ mScheduleMap' = Tail(mScheduleMap)
    /\ UNCHANGED <<mObjectScheduleMap, executeVars, history>>

\* A bug: elements is put back in front, not at its time.
ExecuteReturnsUnsorted ==
    /\ pc = "ticks" /\ ~Due
    /\ pc' = "idle" /\ lag' = 0
    /\ mScheduleMap' = mScheduleMap \o elements
    /\ elements' = <<>>
    /\ UNCHANGED <<mObjectScheduleMap, scheduleElement, history>>

\* The head is not due: the ticks of what fired go back.
ExecuteReturns ==
    /\ pc = "ticks" /\ ~Due
    /\ pc' = "idle" /\ lag' = 0
    /\ mScheduleMap' = PutBack(mScheduleMap, elements)
    /\ elements' = <<>>
    /\ UNCHANGED <<mObjectScheduleMap, scheduleElement, history>>

\* The clock, which callbacks read too.
TimePasses ==
    /\ pc = "idle" \/ lag < MaxLag
    /\ lag' = IF pc = "idle" THEN 0 ELSE lag + 1
    /\ mObjectScheduleMap' = [k \in Timers |->
            IF Exists(k) THEN Sooner(mObjectScheduleMap[k]) ELSE NoElement]
    /\ mScheduleMap' = [i \in DOMAIN mScheduleMap |-> Sooner(mScheduleMap[i])]
    /\ elements' = [i \in DOMAIN elements |-> Sooner(elements[i])]
    /\ scheduleElement' = IF pc = "callback" THEN Sooner(scheduleElement) ELSE NoElement
    /\ UNCHANGED <<pc, history>>

MainLoop ==
    \/ Execute
    \/ FireTick
    \/ CallbackReturns
    \/ EraseStaleTick
    \/ ExecuteReturns

Calls ==
    \/ \E k \in Timers, time \in Intervals, count \in Counts : AddSchedule(k, time, count)
    \/ \E k \in Timers : RemoveSchedule(k)
    \/ \E self \in Objects : RemoveAllSchedules(self)

Next == Calls \/ MainLoop \/ TimePasses

Spec == Init /\ [][Next]_vars

\* The main loop turns for ever, callbacks return, and the clock runs.
FairSpec == Spec /\ WF_vars(MainLoop) /\ WF_vars(TimePasses)

-------------------------------------------------------------------------------
(* Properties *)

TypeOK ==
    /\ mObjectScheduleMap \in [Timers -> NFScheduleElement \cup {NoElement}]
    /\ \A k \in Timers : Exists(k) => mObjectScheduleMap[k].timer = k
    /\ mScheduleMap \in Seq(TickElement)
    /\ elements \in Seq(TickElement)
    /\ pc \in {"idle", "ticks", "callback"}
    /\ lag \in 0 .. MaxLag
    /\ scheduleElement \in NFScheduleElement \cup {NoElement}
    /\ pc = "callback" <=> scheduleElement # NoElement
    /\ readded \subseteq Timers
    /\ asked \in [Timers -> Int]
    /\ fired \in [Timers -> Nat]

\* A callback is running for this very timer.
Firing(k) == pc = "callback" /\ Head(mScheduleMap).timer = k

Armed(k) == Exists(k) /\ mObjectScheduleMap[k].remain # 0

\* An armed timer always has a tick that will come due no later than the timer
\* itself: no order of adds, removes and callbacks leaves it in the map, where
\* it blocks every later AddSchedule, without firing.
ArmedTimerHasTick ==
    \A k \in Timers : Armed(k) =>
        \/ Firing(k)
        \/ \E x \in ToSet(mScheduleMap) \cup ToSet(elements) :
              x.timer = k /\ x.triggerTime <= mObjectScheduleMap[k].triggerTime

\* A timer has one tick, unless it was added again while the tick of a removed
\* timer of its name was left: each such tick fires it once more per interval.
OneTickUnlessReadded == \A k \in Timers \ readded : TicksOf(k) <= 1

\* The list stays ordered while the loop erases its head and callbacks insert:
\* Execute, which stops at the first tick that is not due, leaves none behind.
NoDueTickLeft ==
    [][pc = "ticks" /\ pc' = "idle" =>
        \A x \in ToSet(mScheduleMap) : x.triggerTime > -lag]_vars

\* A timer that was not added again over a tick left behind never fires before
\* its interval is over.
NeverEarly ==
    [][\A k \in Timers \ readded :
        ~Firing(k) /\ Firing(k)' => mObjectScheduleMap[k].triggerTime <= -lag]_vars

\* A timer added with a positive count is in the map exactly as long as it has
\* heartbeats to come, and fires that often, also if it has several ticks.
CountedExactly ==
    \A k \in Timers : Exists(k) /\ asked[k] > 0 =>
        /\ mObjectScheduleMap[k].remain > 0
        /\ fired[k] + mObjectScheduleMap[k].remain = asked[k]

\* An armed timer fires again, or is removed.
ArmedTimerFires == \A k \in Timers : []<>(~Armed(k) \/ Firing(k))

\* Execute returns, although callbacks add timers that are due at once.
ExecuteEnds == []<>(pc = "idle")
===============================================================================
