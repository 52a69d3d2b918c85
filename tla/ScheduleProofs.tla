---------------------------- MODULE ScheduleProofs ----------------------------
(***************************************************************************)
(* What is proved of NFScheduleModule, for any timers, intervals, counts   *)
(* and bounds.  Counts of timers are exact: only the map of elements       *)
(* decides when a timer is over, so nothing need be known of the list of   *)
(* ticks, and a timer that has several ticks by mistake does not fire more *)
(* often for that.  The rest is about that list: an armed timer has a tick *)
(* no later than itself, or the running callback owes it one; it has only  *)
(* one unless it was added again over a tick that RemoveSchedule left; and *)
(* the list is in order, so Execute may stop at the first that is not due. *)
(***************************************************************************)
EXTENDS Schedule, SequenceTheorems, FiniteSetTheorems, NaturalsInduction,
        WellFoundedInduction, TLAPS

\* What TypeOK says of the elements and the counters, with times of any size.
Element == [timer : Timers, interval : Int, triggerTime : Int, remain : Int]

CountersTyped ==
    /\ mObjectScheduleMap \in [Timers -> Element \cup {NoElement}]
    /\ asked \in [Timers -> Int]
    /\ fired \in [Timers -> Int]
    /\ lag \in Int

\* A timer that exists is an Element, and so keeps its other fields when one changes.
LEMMA ExistingIsElement ==
    ASSUME CountersTyped, NEW k \in Timers, Exists(k)
    PROVE  mObjectScheduleMap[k] \in Element
BY DEF CountersTyped, Exists

\* A heartbeat takes one from a positive count.
LEMMA HeartBeat ==
    ASSUME NEW e \in Element, lag \in Int
    PROVE  /\ DoHeartBeatEvent(e) \in Element
           /\ DoHeartBeatEvent(e).remain = IF e.remain > 0 THEN e.remain - 1 ELSE e.remain
<1> DEFINE left == IF e.remain > 0 THEN e.remain - 1 ELSE e.remain
           next == e.interval - lag
<1>2. left \in Int /\ next \in Int
    BY DEF Element
<1>3. DoHeartBeatEvent(e) = [e EXCEPT !.remain = left, !.triggerTime = next]
    BY DEF DoHeartBeatEvent
<1> HIDE DEF left, next
<1>5. DoHeartBeatEvent(e) \in Element /\ DoHeartBeatEvent(e).remain = left
    BY <1>2, <1>3 DEF Element
<1> QED BY <1>5 DEF left

\* The clock does not touch a count.
LEMMA SoonerKeeps ==
    ASSUME NEW e \in Element
    PROVE  Sooner(e) \in Element /\ Sooner(e).remain = e.remain
BY LagAssumption DEF Sooner, Element

IInv == CountersTyped /\ CountedExactly

LEMMA Start == Init => IInv
<1> SUFFICES ASSUME Init PROVE IInv
    OBVIOUS
<1>1. CountersTyped
    BY DEF Init, CountersTyped
<1>2. CountedExactly
    BY DEF Init, CountedExactly, Exists
<1> QED BY <1>1, <1>2 DEF IInv

\* A new timer has all of its heartbeats to come.
LEMMA AddKeeps ==
    ASSUME IInv, NEW k \in Timers, NEW time \in Intervals, NEW count \in Counts,
           AddSchedule(k, time, count)
    PROVE  IInv'
<1> DEFINE e == [timer |-> k, interval |-> time, triggerTime |-> time, remain |-> count]
<1>1. e \in Element /\ e.remain = count
    BY IntervalsAssumption, CountsAssumption DEF Element
<1>2. /\ mObjectScheduleMap' = [mObjectScheduleMap EXCEPT ![k] = e]
      /\ asked' = [asked EXCEPT ![k] = count]
      /\ fired' = [fired EXCEPT ![k] = 0]
      /\ lag' = lag
    BY DEF AddSchedule, executeVars
<1> HIDE DEF e
<1>3. CountersTyped'
    BY <1>1, <1>2, CountsAssumption DEF IInv, CountersTyped
<1>4. ASSUME NEW j \in Timers, Exists(j)', asked'[j] > 0
      PROVE  /\ mObjectScheduleMap'[j].remain > 0
             /\ fired'[j] + mObjectScheduleMap'[j].remain = asked'[j]
    <2>1. CASE j = k
        BY <1>1, <1>2, <1>4, <2>1, CountsAssumption DEF IInv, CountersTyped
    <2>2. CASE j # k
        BY <1>2, <1>4, <2>2 DEF IInv, CountersTyped, CountedExactly, Exists
    <2> QED BY <2>1, <2>2
<1> QED BY <1>3, <1>4 DEF IInv, CountedExactly

\* Removing takes elements out and changes nothing else.
LEMMA RemoveKeeps ==
    ASSUME IInv,
           \/ \E k \in Timers : RemoveSchedule(k)
           \/ \E self \in Objects : RemoveAllSchedules(self)
    PROVE  IInv'
<1>1. /\ \A j \in Timers : mObjectScheduleMap'[j] \in {mObjectScheduleMap[j], NoElement}
      /\ mObjectScheduleMap' \in [Timers -> Element \cup {NoElement}]
      /\ UNCHANGED <<lag, asked, fired>>
    BY DEF IInv, CountersTyped, RemoveSchedule, RemoveAllSchedules, executeVars, history
<1>2. CountersTyped'
    BY <1>1 DEF IInv, CountersTyped
<1>3. CountedExactly'
    BY <1>1 DEF IInv, CountedExactly, Exists
<1> QED BY <1>2, <1>3 DEF IInv

\* A heartbeat that is counted is one less to come, and the last one takes the timer
\* out of the map.
LEMMA FireKeeps ==
    ASSUME IInv, FireTick
    PROVE  IInv'
<1> DEFINE k == Head(mScheduleMap).timer
           e == mObjectScheduleMap[k]
<1>1. /\ Exists(k)
      /\ mObjectScheduleMap' = [mObjectScheduleMap EXCEPT
                ![k] = IF e.remain = 1 THEN NoElement ELSE DoHeartBeatEvent(e)]
      /\ fired' = IF e.remain > 0 THEN [fired EXCEPT ![k] = @ + 1] ELSE fired
      /\ lag' = lag /\ asked' = asked
    BY DEF FireTick
<1> HIDE DEF k
<1>2. CASE k \notin Timers
    <2>1. /\ mObjectScheduleMap' = mObjectScheduleMap
          /\ fired' = fired
        BY <1>1, <1>2 DEF IInv, CountersTyped
    <2> QED BY <1>1, <2>1 DEF IInv, CountersTyped, CountedExactly, Exists
<1>3. CASE k \in Timers
    <2>1. e \in Element
        BY <1>1, <1>3, ExistingIsElement DEF IInv
    <2>2. /\ DoHeartBeatEvent(e) \in Element
          /\ DoHeartBeatEvent(e).remain = IF e.remain > 0 THEN e.remain - 1 ELSE e.remain
        BY <2>1, HeartBeat DEF IInv, CountersTyped
    <2>3. e.remain \in Int
        BY <2>1 DEF Element
    <2> HIDE DEF e
    <2>4. CountersTyped'
        BY <1>1, <1>3, <2>2 DEF IInv, CountersTyped
    <2>5. ASSUME NEW j \in Timers, Exists(j)', asked'[j] > 0
          PROVE  /\ mObjectScheduleMap'[j].remain > 0
                 /\ fired'[j] + mObjectScheduleMap'[j].remain = asked'[j]
        <3>1. CASE j = k
            <4>1. e.remain > 0 /\ fired[k] + e.remain = asked[k]
                BY <1>1, <1>3, <2>5, <3>1 DEF IInv, CountedExactly, e
            <4>2. e.remain # 1
                BY <1>1, <2>5, <3>1 DEF IInv, CountersTyped, Exists
            <4>3. mObjectScheduleMap'[j] = DoHeartBeatEvent(e)
                BY <1>1, <1>3, <3>1, <4>2 DEF IInv, CountersTyped
            <4>4. fired'[j] = fired[k] + 1
                BY <1>1, <1>3, <3>1, <4>1 DEF IInv, CountersTyped
            <4>5. fired[k] \in Int /\ asked[k] \in Int
                BY <1>3 DEF IInv, CountersTyped
            <4> QED BY <1>1, <2>2, <2>3, <3>1, <4>1, <4>2, <4>3, <4>4, <4>5
        <3>2. CASE j # k
            BY <1>1, <2>5, <3>2 DEF IInv, CountersTyped, CountedExactly, Exists
        <3> QED BY <3>1, <3>2
    <2> QED BY <2>4, <2>5 DEF IInv, CountedExactly
<1> QED BY <1>2, <1>3

LEMMA ClockKeeps ==
    ASSUME IInv, TimePasses
    PROVE  IInv'
<1>1. /\ mObjectScheduleMap' = [k \in Timers |->
            IF Exists(k) THEN Sooner(mObjectScheduleMap[k]) ELSE NoElement]
      /\ lag' \in Int
      /\ asked' = asked /\ fired' = fired
    BY DEF TimePasses, history, IInv, CountersTyped
<1>2. \A k \in Timers : Exists(k) =>
        /\ Sooner(mObjectScheduleMap[k]) \in Element
        /\ Sooner(mObjectScheduleMap[k]).remain = mObjectScheduleMap[k].remain
    BY ExistingIsElement, SoonerKeeps DEF IInv
<1>3. CountersTyped'
    BY <1>1, <1>2 DEF IInv, CountersTyped
<1>4. CountedExactly'
    BY <1>1, <1>2 DEF IInv, CountedExactly, Exists
<1> QED BY <1>3, <1>4 DEF IInv

\* Everything else leaves the map of elements and the counters alone.
LEMMA StepKeeps ==
    ASSUME IInv, [Next]_vars
    PROVE  IInv'
<1>1. CASE \E k \in Timers, time \in Intervals, count \in Counts : AddSchedule(k, time, count)
    BY <1>1, AddKeeps
<1>2. CASE \/ \E k \in Timers : RemoveSchedule(k)
           \/ \E self \in Objects : RemoveAllSchedules(self)
    BY <1>2, RemoveKeeps
<1>3. CASE FireTick
    BY <1>3, FireKeeps
<1>4. CASE TimePasses
    BY <1>4, ClockKeeps
<1>5. CASE Execute \/ CallbackReturns \/ EraseStaleTick \/ ExecuteReturns \/ UNCHANGED vars
    <2>1. /\ UNCHANGED <<mObjectScheduleMap, asked, fired>>
          /\ lag' \in Int
        BY <1>5 DEF Execute, CallbackReturns, EraseStaleTick, ExecuteReturns, vars,
                    scheduleVars, executeVars, history, IInv, CountersTyped
    <2> QED BY <2>1 DEF IInv, CountersTyped, CountedExactly, Exists
<1> QED BY <1>1, <1>2, <1>3, <1>4, <1>5 DEF Next, Calls, MainLoop

\* A timer added with a positive count fires exactly that often, through everything
\* the callbacks of NFScheduleModule::Execute may add and remove.
THEOREM CountsExact == Spec => []CountedExactly
<1>1. Init => IInv
    BY Start
<1>2. IInv /\ [Next]_vars => IInv'
    BY StepKeeps
<1>3. IInv => CountedExactly
    BY DEF IInv
<1> QED BY <1>1, <1>2, <1>3, PTL DEF Spec

-------------------------------------------------------------------------------
(* Lists of ticks: where InsertTick and PutBack put a tick, and what is kept. *)

\* Induction, for a set of numbers.
LEMMA AllNumbers ==
    ASSUME NEW D \in SUBSET Nat, 0 \in D, \A n \in D : n + 1 \in D
    PROVE  \A n \in Nat : n \in D
<1> SUFFICES ASSUME \E n \in Nat : n \notin D PROVE FALSE
    OBVIOUS
<1>1. PICK rest : rest = Nat \ D
    OBVIOUS
<1>2. rest \subseteq Nat /\ rest # {}
    BY <1>1
<1>3. \A m, n \in Nat : <<m, n>> \in OpToRel(<, Nat) <=> m < n
    BY DEF OpToRel
<1>4. \E n \in rest : \A m \in rest : ~(<<m, n>> \in OpToRel(<, Nat))
    BY <1>2, NatLessThanWellFounded, WFMin
<1>5. PICK n \in rest : \A m \in rest : ~(m < n)
    BY <1>2, <1>3, <1>4
<1>6. n \in Nat /\ n # 0 /\ n \notin D
    BY <1>1
<1>7. n - 1 \in Nat /\ n - 1 < n /\ (n - 1) + 1 = n
    BY <1>6
<1>8. n - 1 \in D
    BY <1>1, <1>5, <1>7
<1> QED BY <1>6, <1>7, <1>8

\* What TypeOK says of a tick, with times of any size.
Tick == [timer : Timers, triggerTime : Int]

\* r is s with x at place p.
PutAt(s, x, p, r) ==
    /\ p \in 1 .. Len(s) + 1
    /\ Len(r) = Len(s) + 1
    /\ r[p] = x
    /\ \A i \in 1 .. Len(s) : /\ i < p => r[i] = s[i]
                              /\ i >= p => r[i + 1] = s[i]

\* A set of places, counted.
LEMMA PlacesCounted ==
    ASSUME NEW n \in Nat, NEW P \in SUBSET (1 .. n)
    PROVE  /\ IsFiniteSet(P)
           /\ Cardinality(P) \in Nat
           /\ Cardinality(P) <= n
           /\ P # {} <=> Cardinality(P) > 0
           /\ Cardinality(P) <= 1 <=> \A i, j \in P : i = j
<1>1. IsFiniteSet(1 .. n) /\ Cardinality(1 .. n) = n
    BY FS_Interval
<1>2. IsFiniteSet(P) /\ Cardinality(P) <= n
    BY <1>1, FS_Subset
<1>3. Cardinality(P) \in Nat
    BY <1>2, FS_CardinalityType
<1>4. Cardinality(P) = 0 <=> P = {}
    BY <1>2, FS_EmptySet
<1>5. (\E i : P = {i}) <=> Cardinality(P) = 1
    BY <1>2, FS_Singleton
<1>6. Cardinality(P) <= 1 <=> \A i, j \in P : i = j
    <2>1. ASSUME Cardinality(P) <= 1 PROVE \A i, j \in P : i = j
        <3>1. Cardinality(P) = 0 \/ Cardinality(P) = 1
            BY <1>3, <2>1
        <3> QED BY <1>4, <1>5, <3>1
    <2>2. ASSUME \A i, j \in P : i = j PROVE Cardinality(P) <= 1
        <3>1. CASE P = {}
            BY <1>4, <3>1
        <3>2. CASE P # {}
            <4>1. PICK i : i \in P
                BY <3>2
            <4>2. P = {i}
                BY <2>2, <4>1
            <4> QED BY <1>5, <4>2
        <3> QED BY <3>1, <3>2
    <2> QED BY <2>1, <2>2
<1>7. PICK c \in Nat : c = Cardinality(P)
    BY <1>3
<1>8. P # {} <=> Cardinality(P) > 0
    <2>1. c > 0 <=> c # 0
        OBVIOUS
    <2> QED BY <1>4, <1>7, <2>1
<1> QED BY <1>2, <1>3, <1>6, <1>8

\* InsertAt of the community modules.
LEMMA InsertAtPuts ==
    ASSUME NEW s \in Seq(Tick), NEW x \in Tick, NEW p \in 1 .. Len(s) + 1
    PROVE  InsertAt(s, p, x) \in Seq(Tick) /\ PutAt(s, x, p, InsertAt(s, p, x))
<1>1. PICK n \in Nat : n = Len(s)
    BY LenProperties
<1>2. \A i \in 1 .. n : s[i] \in Tick
    BY <1>1, ElementOfSeq
<1>3. p \in Int /\ 1 <= p /\ p <= n + 1
    BY <1>1
<1>4. PICK l \in Nat : l + 1 = p /\ l = p - 1 /\ l <= n
    BY <1>3
<1>5. PICK u \in Seq(Tick) : /\ u = SubSeq(s, 1, l) /\ Len(u) = l
                             /\ \A i \in 1 .. l : u[i] = s[i]
    <2>1. \A i \in 1 .. l : s[i] \in Tick
        BY <1>2, <1>4
    <2>2. PICK u : u = SubSeq(s, 1, l)
        OBVIOUS
    <2>3. /\ u \in Seq(Tick)
          /\ Len(u) = IF 1 <= l THEN l - 1 + 1 ELSE 0
          /\ \A i \in 1 .. l - 1 + 1 : u[i] = s[1 + i - 1]
        BY <2>1, <2>2, SubSeqProperties
    <2>4. (IF 1 <= l THEN l - 1 + 1 ELSE 0) = l
        OBVIOUS
    <2>5. \A i \in 1 .. l : i \in 1 .. l - 1 + 1 /\ 1 + i - 1 = i
        OBVIOUS
    <2>6. \A i \in 1 .. l : u[i] = s[i]
        BY <2>3, <2>5
    <2> QED BY <2>2, <2>3, <2>4, <2>6
<1>6. PICK v \in Seq(Tick) : /\ v = SubSeq(s, p, n) /\ Len(v) = n - l
                             /\ \A i \in 1 .. n - l : v[i] = s[l + i]
    <2>1. \A i \in p .. n : s[i] \in Tick
        BY <1>2, <1>3
    <2>2. PICK v : v = SubSeq(s, p, n)
        OBVIOUS
    <2>3. /\ v \in Seq(Tick)
          /\ Len(v) = IF p <= n THEN n - p + 1 ELSE 0
          /\ \A i \in 1 .. n - p + 1 : v[i] = s[p + i - 1]
        BY <1>3, <2>1, <2>2, SubSeqProperties
    <2>4. (IF p <= n THEN n - p + 1 ELSE 0) = n - l
        BY <1>4
    <2>5. \A i \in 1 .. n - l : i \in 1 .. n - p + 1 /\ p + i - 1 = l + i
        BY <1>3, <1>4
    <2>6. \A i \in 1 .. n - l : v[i] = s[l + i]
        BY <2>3, <2>5
    <2> QED BY <2>2, <2>3, <2>4, <2>6
<1>7. PICK w \in Seq(Tick) : /\ w = u \o <<x>> /\ Len(w) = p
                             /\ \A i \in 1 .. l : w[i] = s[i]
                             /\ w[p] = x
    <2>1. PICK w : w = Append(u, x)
        OBVIOUS
    <2>2. w = u \o <<x>>
        BY <2>1, AppendIsConcat
    <2>3. /\ w \in Seq(Tick) /\ Len(w) = Len(u) + 1 /\ w[Len(u) + 1] = x
          /\ \A i \in 1 .. Len(u) : w[i] = u[i]
        BY <2>1, AppendProperties
    <2>4. /\ Len(w) = l + 1 /\ w[l + 1] = x
          /\ \A i \in 1 .. l : w[i] = s[i]
        BY <1>5, <2>3
    <2> QED BY <1>4, <2>2, <2>3, <2>4
<1>8. PICK r \in Seq(Tick) : /\ r = w \o v /\ Len(r) = n + 1
                             /\ \A i \in 1 .. p : r[i] = w[i]
                             /\ \A i \in p .. n : r[i + 1] = s[i]
    <2>1. PICK r : r = w \o v
        OBVIOUS
    <2>2. /\ r \in Seq(Tick) /\ Len(r) = Len(w) + Len(v)
          /\ \A i \in 1 .. Len(w) + Len(v) : r[i] = IF i <= Len(w) THEN w[i] ELSE v[i - Len(w)]
        BY <2>1, ConcatProperties
    <2>3. Len(w) = p /\ Len(v) = n - l /\ Len(w) + Len(v) = n + 1
        <3>1. p + (n - l) = n + 1
            BY <1>4
        <3> QED BY <1>6, <1>7, <3>1
    <2>4. \A i \in 1 .. n + 1 : r[i] = IF i <= p THEN w[i] ELSE v[i - p]
        BY <2>2, <2>3
    <2>5. \A i \in 1 .. p : i \in 1 .. n + 1 /\ i <= p
        BY <1>3
    <2>6. \A i \in 1 .. p : r[i] = w[i]
        BY <2>4, <2>5
    <2>7. ASSUME NEW i \in p .. n PROVE r[i + 1] = s[i]
        <3>1. /\ i + 1 \in 1 .. n + 1 /\ ~(i + 1 <= p) /\ (i + 1) - p \in 1 .. n - l
              /\ l + ((i + 1) - p) = i
            BY <1>3, <1>4
        <3>2. r[i + 1] = v[(i + 1) - p]
            BY <2>4, <3>1
        <3>3. v[(i + 1) - p] = s[l + ((i + 1) - p)]
            BY <1>6, <3>1
        <3> QED BY <3>1, <3>2, <3>3
    <2> QED BY <2>1, <2>2, <2>3, <2>6, <2>7
<1>9. InsertAt(s, p, x) = r
    BY <1>1, <1>4, <1>5, <1>6, <1>7, <1>8 DEF InsertAt
<1>10. r[p] = x
    BY <1>3, <1>7, <1>8
<1>11. ASSUME NEW i \in 1 .. n
       PROVE  (i < p => r[i] = s[i]) /\ (i >= p => r[i + 1] = s[i])
    <2>1. CASE i < p
        <3>1. i \in 1 .. p /\ i \in 1 .. l /\ ~(i >= p)
            BY <1>3, <1>4, <2>1
        <3> QED BY <1>7, <1>8, <3>1
    <2>2. CASE ~(i < p)
        <3>1. i \in p .. n
            BY <1>3, <2>2
        <3> QED BY <1>8, <2>2, <3>1
    <2> QED BY <2>1, <2>2
<1> QED BY <1>1, <1>3, <1>8, <1>9, <1>10, <1>11 DEF PutAt

\* What is asked of a list of ticks: has it this tick, one of this timer, at most one of
\* this timer, and is it in the order of the times.
In(x, s) == \E i \in 1 .. Len(s) : x = s[i]
Has(k, s) == \E i \in 1 .. Len(s) : s[i].timer = k
OneOf(k, s) == \A i, j \in 1 .. Len(s) : s[i].timer = k /\ s[j].timer = k => i = j
Sorted(s) == \A i, j \in 1 .. Len(s) : i < j => s[i].triggerTime <= s[j].triggerTime

\* Where the ticks of r come from.
LEMMA PutAtSplits ==
    ASSUME NEW s \in Seq(Tick), NEW x, NEW p, NEW r, PutAt(s, x, p, r)
    PROVE  /\ Len(s) \in Nat
           /\ \A j \in 1 .. Len(r) : \/ j = p
                                     \/ j < p /\ j \in 1 .. Len(s) /\ r[j] = s[j]
                                     \/ j > p /\ j - 1 \in 1 .. Len(s) /\ r[j] = s[j - 1]
<1>1. PICK n \in Nat : n = Len(s)
    BY LenProperties
<1>2. p \in 1 .. n + 1 /\ Len(r) = n + 1
    BY <1>1 DEF PutAt
<1>3. ASSUME NEW j \in 1 .. n + 1
      PROVE  \/ j = p
             \/ j < p /\ j \in 1 .. n /\ r[j] = s[j]
             \/ j > p /\ j - 1 \in 1 .. n /\ r[j] = s[j - 1]
    <2>1. CASE j < p
        <3>1. j \in 1 .. n
            BY <1>2, <2>1
        <3> QED BY <1>1, <2>1, <3>1 DEF PutAt
    <2>2. CASE j > p
        <3>1. j - 1 \in 1 .. n /\ j - 1 >= p /\ (j - 1) + 1 = j
            BY <1>2, <2>2
        <3> QED BY <1>1, <2>2, <3>1 DEF PutAt
    <2> QED BY <1>2, <2>1, <2>2
<1> QED BY <1>1, <1>2, <1>3

\* And where those of s and x are in it.
LEMMA PutAtKeeps ==
    ASSUME NEW s \in Seq(Tick), NEW x, NEW p, NEW r, PutAt(s, x, p, r)
    PROVE  /\ \A y : In(y, r) <=> In(y, s) \/ y = x
           /\ \A k : Has(k, r) <=> Has(k, s) \/ x.timer = k
           /\ \A k : OneOf(k, s) /\ (x.timer = k => ~Has(k, s)) => OneOf(k, r)
<1>1. PICK n \in Nat : n = Len(s)
    BY LenProperties
<1>2. p \in 1 .. n + 1 /\ Len(r) = n + 1 /\ r[p] = x
    BY <1>1 DEF PutAt
<1>3. \A i \in 1 .. n : \E j \in 1 .. n + 1 : r[j] = s[i]
    <2> SUFFICES ASSUME NEW i \in 1 .. n PROVE \E j \in 1 .. n + 1 : r[j] = s[i]
        OBVIOUS
    <2>1. i \in 1 .. n + 1 /\ i + 1 \in 1 .. n + 1 /\ (i < p \/ i >= p)
        BY <1>2
    <2> QED BY <1>1, <2>1 DEF PutAt
<1>4. \A j \in 1 .. n + 1 : \/ j = p
                            \/ j < p /\ j \in 1 .. n /\ r[j] = s[j]
                            \/ j > p /\ j - 1 \in 1 .. n /\ r[j] = s[j - 1]
    BY <1>1, <1>2, PutAtSplits
<1>5. \A j \in 1 .. n + 1 : r[j] = x \/ \E i \in 1 .. n : r[j] = s[i]
    BY <1>2, <1>4
<1>6. \A y : In(y, r) <=> In(y, s) \/ y = x
    BY <1>1, <1>2, <1>3, <1>5 DEF In
<1>7. \A k : Has(k, r) <=> Has(k, s) \/ x.timer = k
    BY <1>1, <1>2, <1>3, <1>5 DEF Has
<1>8. ASSUME NEW k, OneOf(k, s), x.timer = k => ~Has(k, s) PROVE OneOf(k, r)
    <2> SUFFICES ASSUME NEW i \in 1 .. n + 1, NEW j \in 1 .. n + 1,
                        r[i].timer = k, r[j].timer = k
                 PROVE  i = j
        BY <1>2 DEF OneOf
    <2>1. \A a, b \in 1 .. n : s[a].timer = k /\ s[b].timer = k => a = b
        BY <1>1, <1>8 DEF OneOf
    <2>2. x.timer = k => \A a \in 1 .. n : s[a].timer # k
        BY <1>1, <1>8 DEF Has
    <2>3. CASE i = p
        BY <1>2, <1>4, <2>2, <2>3
    <2>4. CASE j = p
        BY <1>2, <1>4, <2>2, <2>4
    <2>5. CASE i # p /\ j # p
        <3>1. PICK a \in 1 .. n : r[i] = s[a] /\ ((i < p /\ a = i) \/ (i > p /\ a = i - 1))
            BY <1>4, <2>5
        <3>2. PICK b \in 1 .. n : r[j] = s[b] /\ ((j < p /\ b = j) \/ (j > p /\ b = j - 1))
            BY <1>4, <2>5
        <3>3. a = b
            BY <2>1, <3>1, <3>2
        <3> QED BY <1>2, <3>1, <3>2, <3>3
    <2> QED BY <2>3, <2>4, <2>5
<1> QED BY <1>6, <1>7, <1>8

\* The ticks that are not later than x are the first ones of a sorted list.
LEMMA BeforeIsPrefix ==
    ASSUME NEW n \in Nat, NEW B \in SUBSET (1 .. n),
           \A i \in B : \A j \in 1 .. n : j < i => j \in B
    PROVE  B = 1 .. Cardinality(B)
<1>1. ASSUME NEW m \in 0 .. n, B = 1 .. m PROVE B = 1 .. Cardinality(B)
    <2>1. Cardinality(1 .. m) = m
        <3>1. Cardinality(1 .. m) = IF 1 > m THEN 0 ELSE m - 1 + 1
            BY FS_Interval
        <3> QED BY <3>1
    <2> QED BY <1>1, <2>1
<1>2. CASE \E k \in 0 .. n - 1 : 1 .. k \subseteq B /\ k + 1 \notin B
    <2>1. PICK k \in 0 .. n - 1 : 1 .. k \subseteq B /\ k + 1 \notin B
        BY <1>2
    <2>2. k \in 0 .. n /\ k + 1 \in 1 .. n
        OBVIOUS
    <2>3. ASSUME NEW i \in B PROVE i \in 1 .. k
        <3>1. ~(k + 1 < i) /\ i # k + 1
            BY <2>1, <2>2
        <3> QED BY <3>1
    <2>4. B = 1 .. k
        BY <2>1, <2>3
    <2> QED BY <1>1, <2>2, <2>4
<1>3. CASE \A k \in 0 .. n - 1 : 1 .. k \subseteq B => k + 1 \in B
    <2> DEFINE D == {k \in Nat : k <= n => 1 .. k \subseteq B}
    <2>1. 0 \in D
        OBVIOUS
    <2>2. ASSUME NEW k \in D PROVE k + 1 \in D
        <3> SUFFICES ASSUME k + 1 <= n, NEW i \in 1 .. k + 1 PROVE i \in B
            OBVIOUS
        <3>1. k \in 0 .. n - 1 /\ 1 .. k \subseteq B
            OBVIOUS
        <3>2. k + 1 \in B
            BY <1>3, <3>1
        <3>3. i \in 1 .. k \/ i = k + 1
            OBVIOUS
        <3> QED BY <3>1, <3>2, <3>3
    <2>3. D \in SUBSET Nat /\ \A k \in D : k + 1 \in D
        BY <2>2
    <2>4. n \in D
        <3> HIDE DEF D
        <3> QED BY <2>1, <2>3, AllNumbers
    <2>5. 1 .. n \subseteq B /\ n \in 0 .. n
        BY <2>4
    <2>6. B = 1 .. n
        BY <2>5
    <2> QED BY <1>1, <2>5, <2>6
<1> QED BY <1>2, <1>3

\* InsertTick puts x behind everything that is not later, and keeps the order.
LEMMA InsertTickPuts ==
    ASSUME NEW s \in Seq(Tick), NEW x \in Tick
    PROVE  /\ InsertTick(s, x) \in Seq(Tick)
           /\ Sorted(s) => Sorted(InsertTick(s, x))
           /\ \E p : /\ PutAt(s, x, p, InsertTick(s, x))
                     /\ s # <<>> /\ Head(s).triggerTime <= x.triggerTime => p > 1
<1>1. PICK n \in Nat : n = Len(s) /\ DOMAIN s = 1 .. n
    BY LenProperties
<1>2. PICK B \in SUBSET (1 .. n) : B = {i \in 1 .. n : s[i].triggerTime <= x.triggerTime}
    OBVIOUS
<1>3. PICK c \in Nat : c = Cardinality(B) /\ c <= n /\ (B # {} <=> c > 0)
    BY PlacesCounted
<1>4. PICK p \in 1 .. n + 1 : p = c + 1
    BY <1>3
<1>5. PICK r : r = InsertAt(s, p, x)
    OBVIOUS
<1>6. r = InsertTick(s, x)
    BY <1>1, <1>2, <1>3, <1>4, <1>5 DEF InsertTick
<1>7. r \in Seq(Tick) /\ PutAt(s, x, p, r)
    BY <1>1, <1>5, InsertAtPuts
<1>8. s # <<>> /\ Head(s).triggerTime <= x.triggerTime => p > 1
    <2> SUFFICES ASSUME s # <<>>, Head(s).triggerTime <= x.triggerTime PROVE p > 1
        OBVIOUS
    <2>1. n # 0
        BY <1>1, EmptySeq
    <2>2. Head(s) = s[1] /\ 1 \in 1 .. n
        BY <2>1
    <2>3. 1 \in B
        BY <1>2, <2>2
    <2> QED BY <1>3, <1>4, <2>3
<1>9. ASSUME Sorted(s) PROVE Sorted(r)
    <2>1. \A i \in 1 .. n : s[i].triggerTime \in Int
        <3>1. \A i \in 1 .. n : s[i] \in Tick
            BY <1>1, ElementOfSeq
        <3> QED BY <3>1 DEF Tick
    <2>2. x.triggerTime \in Int
        BY DEF Tick
    <2>3. \A i, j \in 1 .. n : i < j => s[i].triggerTime <= s[j].triggerTime
        BY <1>1, <1>9 DEF Sorted
    <2>4. \A i \in B : \A j \in 1 .. n : j < i => j \in B
        BY <1>2, <2>1, <2>2, <2>3
    <2>5. B = 1 .. c
        BY <1>3, <2>4, BeforeIsPrefix
    <2>6. \A i \in 1 .. n : i < p <=> s[i].triggerTime <= x.triggerTime
        <3>1. \A i \in 1 .. n : i \in 1 .. c <=> i < p
            BY <1>4
        <3>2. \A i \in 1 .. n : i \in B <=> i < p
            BY <2>5, <3>1
        <3> QED BY <1>2, <3>2
    <2>7. Len(r) = n + 1 /\ r[p] = x
        BY <1>1, <1>7 DEF PutAt
    <2>8. \A j \in 1 .. n + 1 : \/ j = p
                                \/ j < p /\ j \in 1 .. n /\ r[j] = s[j]
                                \/ j > p /\ j - 1 \in 1 .. n /\ r[j] = s[j - 1]
        BY <1>1, <1>7, <2>7, PutAtSplits
    <2> SUFFICES ASSUME NEW i \in 1 .. n + 1, NEW j \in 1 .. n + 1, i < j
                 PROVE  r[i].triggerTime <= r[j].triggerTime
        BY <2>7 DEF Sorted
    <2>9. CASE j < p
        BY <2>3, <2>8, <2>9
    <2>10. CASE j = p
        <3>1. i \in 1 .. n /\ i < p /\ r[i] = s[i]
            BY <2>8, <2>10
        <3> QED BY <2>6, <2>7, <2>10, <3>1
    <2>11. CASE j > p
        <3>1. PICK b \in 1 .. n : b = j - 1 /\ r[j] = s[b] /\ b >= p
            BY <2>8, <2>11
        <3>2. CASE i = p
            <4>1. ~(s[b].triggerTime <= x.triggerTime)
                BY <2>6, <3>1
            <4>2. x.triggerTime <= s[b].triggerTime
                BY <2>1, <2>2, <4>1
            <4> QED BY <2>7, <3>1, <3>2, <4>2
        <3>3. CASE i # p
            <4>1. PICK a \in 1 .. n : r[i] = s[a] /\ a < b
                BY <2>8, <3>1, <3>3
            <4> QED BY <2>3, <3>1, <4>1
        <3> QED BY <3>2, <3>3
    <2> QED BY <2>9, <2>10, <2>11
<1> QED BY <1>6, <1>7, <1>8, <1>9

\* f has the list after each of the first n ticks of b went into it.
PutsBack(f, s, b, n) ==
    /\ f[0] = s
    /\ \A k \in 1 .. n : f[k] = InsertTick(f[k - 1], b[k])

\* PutBack goes through such a run of lists.
LEMMA PutsBackExists ==
    ASSUME NEW s \in Seq(Tick), NEW b \in Seq(Tick)
    PROVE  \E f \in [0 .. Len(b) -> Seq(Tick)] : PutsBack(f, s, b, Len(b))
<1>1. PICK l \in Nat : l = Len(b)
    BY LenProperties
<1>2. \A k \in 1 .. l : b[k] \in Tick
    BY <1>1, ElementOfSeq
<1> DEFINE D == {n \in Nat : n <= l => \E f \in [0 .. n -> Seq(Tick)] : PutsBack(f, s, b, n)}
<1>3. 0 \in D
    <2>1. [k \in 0 .. 0 |-> s] \in [0 .. 0 -> Seq(Tick)]
        OBVIOUS
    <2>2. PutsBack([k \in 0 .. 0 |-> s], s, b, 0)
        BY DEF PutsBack
    <2> QED BY <2>1, <2>2
<1>4. ASSUME NEW n \in D PROVE n + 1 \in D
    <2> SUFFICES ASSUME n + 1 <= l
                 PROVE  \E f \in [0 .. n + 1 -> Seq(Tick)] : PutsBack(f, s, b, n + 1)
        OBVIOUS
    <2>1. n \in Nat /\ n <= l /\ n + 1 \in 1 .. l
        OBVIOUS
    <2>2. PICK f \in [0 .. n -> Seq(Tick)] : PutsBack(f, s, b, n)
        BY <2>1
    <2>3. PICK r \in Seq(Tick) : r = InsertTick(f[n], b[n + 1])
        <3>1. f[n] \in Seq(Tick) /\ b[n + 1] \in Tick
            BY <1>2, <2>1
        <3> QED BY <3>1, InsertTickPuts
    <2>4. PICK g \in [0 .. n + 1 -> Seq(Tick)] :
              g[n + 1] = r /\ \A k \in 0 .. n : g[k] = f[k]
        <3> DEFINE h == [k \in 0 .. n + 1 |-> IF k = n + 1 THEN r ELSE f[k]]
        <3>1. h \in [0 .. n + 1 -> Seq(Tick)]
            BY <2>1
        <3>2. h[n + 1] = r /\ \A k \in 0 .. n : h[k] = f[k]
            BY <2>1
        <3> QED BY <3>1, <3>2
    <2>5. g[0] = s
        BY <2>1, <2>2, <2>4 DEF PutsBack
    <2>6. ASSUME NEW k \in 1 .. n + 1 PROVE g[k] = InsertTick(g[k - 1], b[k])
        <3>1. CASE k = n + 1
            <4>1. k - 1 = n /\ n \in 0 .. n
                BY <2>1, <3>1
            <4> QED BY <2>3, <2>4, <3>1, <4>1
        <3>2. CASE k # n + 1
            <4>1. k \in 1 .. n /\ k \in 0 .. n /\ k - 1 \in 0 .. n
                BY <2>1, <3>2
            <4> QED BY <2>2, <2>4, <4>1 DEF PutsBack
        <3> QED BY <3>1, <3>2
    <2> QED BY <2>5, <2>6 DEF PutsBack
<1>5. D \in SUBSET Nat /\ \A n \in D : n + 1 \in D
    BY <1>4
<1>6. l \in D
    <2> HIDE DEF D
    <2> QED BY <1>3, <1>5, AllNumbers
<1> QED BY <1>1, <1>6

\* PutBack is the last of them.
LEMMA PutBackIs ==
    ASSUME NEW s \in Seq(Tick), NEW b \in Seq(Tick)
    PROVE  \E g : PutsBack(g, s, b, Len(b)) /\ PutBack(s, b) = g[Len(b)]
<1>1. PICK l \in Nat : l = Len(b)
    BY LenProperties
<1>2. PICK f \in [0 .. l -> Seq(Tick)] : PutsBack(f, s, b, l)
    BY <1>1, PutsBackExists
<1> DEFINE body(g, n) == IF n = 0 THEN s ELSE InsertTick(g[n - 1], b[n])
           Is(g) == g = [n \in 0 .. l |-> body(g, n)]
<1>3. Is(f)
    <2>1. ASSUME NEW n \in 0 .. l PROVE f[n] = body(f, n)
        <3>1. CASE n = 0
            BY <1>2, <3>1 DEF PutsBack
        <3>2. CASE n # 0
            <4>1. n \in 1 .. l
                BY <1>1, <3>2
            <4> QED BY <1>2, <3>2, <4>1 DEF PutsBack
        <3> QED BY <3>1, <3>2
    <2> HIDE DEF body
    <2> QED BY <2>1
<1>4. PICK g : g = CHOOSE h : Is(h)
    OBVIOUS
<1>5. PutBack(s, b) = g[l]
    BY <1>1, <1>4 DEF PutBack
<1>6. Is(g)
    BY <1>3, <1>4
<1>7. PutsBack(g, s, b, l)
    <2>1. \A n \in 0 .. l : g[n] = body(g, n)
        <3> HIDE DEF body
        <3> QED BY <1>6
    <2>2. g[0] = s
        BY <1>1, <2>1
    <2>3. ASSUME NEW k \in 1 .. l PROVE g[k] = InsertTick(g[k - 1], b[k])
        BY <1>1, <2>1
    <2> QED BY <2>2, <2>3 DEF PutsBack
<1> QED BY <1>1, <1>5, <1>7

\* What PutBack has: the ticks of both lists, in their order, no timer twice that was there once.
LEMMA PutBackKeeps ==
    ASSUME NEW s \in Seq(Tick), NEW b \in Seq(Tick), NEW r, r = PutBack(s, b)
    PROVE  /\ r \in Seq(Tick)
           /\ Sorted(s) => Sorted(r)
           /\ \A y : In(y, r) <=> In(y, s) \/ In(y, b)
           /\ \A k : Has(k, r) <=> Has(k, s) \/ Has(k, b)
           /\ \A k : OneOf(k, s) /\ OneOf(k, b) /\ ~(Has(k, s) /\ Has(k, b)) => OneOf(k, r)
<1>1. PICK l \in Nat : l = Len(b)
    BY LenProperties
<1>2. \A k \in 1 .. l : b[k] \in Tick
    BY <1>1, ElementOfSeq
<1>3. PICK g : PutsBack(g, s, b, l) /\ r = g[l]
    BY <1>1, PutBackIs
<1> DEFINE OK(n) ==
        /\ g[n] \in Seq(Tick)
        /\ Sorted(s) => Sorted(g[n])
        /\ \A y : In(y, g[n]) <=> In(y, s) \/ \E i \in 1 .. n : y = b[i]
        /\ \A k : Has(k, g[n]) <=> Has(k, s) \/ \E i \in 1 .. n : b[i].timer = k
        /\ \A k : OneOf(k, s) /\ OneOf(k, b) /\ ~(Has(k, s) /\ Has(k, b)) => OneOf(k, g[n])
           D == {n \in Nat : n <= l => OK(n)}
<1>4. OK(0)
    <2>1. g[0] = s
        BY <1>3 DEF PutsBack
    <2>2. 1 .. 0 = {}
        OBVIOUS
    <2> QED BY <2>1, <2>2
<1>5. ASSUME NEW n \in Nat, n + 1 <= l, OK(n) PROVE OK(n + 1)
    <2>1. n + 1 \in 1 .. l /\ (n + 1) - 1 = n /\ \A i \in 1 .. n : i \in 1 .. l
        BY <1>5
    <2>2. PICK t \in Seq(Tick) : t = g[n]
        BY <1>5
    <2>3. PICK x \in Tick : x = b[n + 1]
        BY <1>2, <2>1
    <2>4. PICK u : u = InsertTick(t, x)
        OBVIOUS
    <2>5. g[n + 1] = u
        BY <1>3, <2>1, <2>2, <2>3, <2>4 DEF PutsBack
    <2>6. u \in Seq(Tick) /\ (Sorted(t) => Sorted(u)) /\ \E p : PutAt(t, x, p, u)
        BY <2>4, InsertTickPuts
    <2>7. /\ \A y : In(y, u) <=> In(y, t) \/ y = x
          /\ \A k : Has(k, u) <=> Has(k, t) \/ x.timer = k
          /\ \A k : OneOf(k, t) /\ (x.timer = k => ~Has(k, t)) => OneOf(k, u)
        BY <2>6, PutAtKeeps
    <2>8. \A i \in 1 .. n + 1 : i \in 1 .. n \/ i = n + 1
        BY <1>5
    <2>9. \A i \in 1 .. n : i \in 1 .. n + 1 /\ i # n + 1
        BY <1>5
    <2>10. n + 1 \in 1 .. n + 1
        BY <1>5
    <2>11. \A y : In(y, u) <=> In(y, s) \/ \E i \in 1 .. n + 1 : y = b[i]
        BY <1>5, <2>2, <2>3, <2>7, <2>8, <2>9, <2>10
    <2>12. \A k : Has(k, u) <=> Has(k, s) \/ \E i \in 1 .. n + 1 : b[i].timer = k
        BY <1>5, <2>2, <2>3, <2>7, <2>8, <2>9, <2>10
    <2>13. ASSUME NEW k, OneOf(k, s), OneOf(k, b), ~(Has(k, s) /\ Has(k, b)) PROVE OneOf(k, u)
        <3>1. OneOf(k, t)
            BY <1>5, <2>2, <2>13
        <3>2. ASSUME x.timer = k, Has(k, t) PROVE FALSE
            <4>1. Has(k, b)
                BY <1>1, <2>1, <2>3, <3>2 DEF Has
            <4>2. PICK i \in 1 .. n : b[i].timer = k
                BY <1>5, <2>2, <2>13, <3>2, <4>1
            <4>3. i = n + 1
                BY <1>1, <2>1, <2>3, <2>13, <3>2, <4>2 DEF OneOf
            <4> QED BY <2>9, <4>3
        <3> QED BY <2>7, <3>1, <3>2
    <2>14. Sorted(s) => Sorted(u)
        BY <1>5, <2>2, <2>6
    <2> QED BY <2>5, <2>6, <2>11, <2>12, <2>13, <2>14
<1>6. OK(l)
    <2> HIDE DEF OK
    <2>1. 0 \in D /\ D \in SUBSET Nat
        BY <1>4
    <2>2. ASSUME NEW n \in D PROVE n + 1 \in D
        BY <1>1, <1>5
    <2>3. l \in D
        <3> HIDE DEF D
        <3> QED BY <1>1, <2>1, <2>2, AllNumbers
    <2> QED BY <2>3
<1>7. \A y : In(y, r) <=> In(y, s) \/ In(y, b)
    <2>1. \A y : In(y, g[l]) <=> In(y, s) \/ \E i \in 1 .. l : y = b[i]
        BY <1>6
    <2>2. \A y : In(y, b) <=> \E i \in 1 .. l : y = b[i]
        BY <1>1 DEF In
    <2> QED BY <1>3, <2>1, <2>2
<1>8. \A k : Has(k, r) <=> Has(k, s) \/ Has(k, b)
    <2>1. \A k : Has(k, g[l]) <=> Has(k, s) \/ \E i \in 1 .. l : b[i].timer = k
        BY <1>6
    <2>2. \A k : Has(k, b) <=> \E i \in 1 .. l : b[i].timer = k
        BY <1>1 DEF Has
    <2> QED BY <1>3, <2>1, <2>2
<1> QED BY <1>3, <1>6, <1>7, <1>8

\* The places of two lists, one behind the other.
LEMMA ConcatHas ==
    ASSUME NEW s \in Seq(Tick), NEW b \in Seq(Tick), NEW k
    PROVE  /\ s \o b \in Seq(Tick)
           /\ Has(k, s \o b) <=> Has(k, s) \/ Has(k, b)
           /\ OneOf(k, s \o b) <=> OneOf(k, s) /\ OneOf(k, b) /\ ~(Has(k, s) /\ Has(k, b))
<1>1. PICK n \in Nat : n = Len(s)
    BY LenProperties
<1>2. PICK l \in Nat : l = Len(b)
    BY LenProperties
<1>3. PICK r \in Seq(Tick) : /\ r = s \o b /\ Len(r) = n + l
                             /\ \A i \in 1 .. n + l : r[i] = IF i <= n THEN s[i] ELSE b[i - n]
    <2>1. PICK r : r = s \o b
        OBVIOUS
    <2>2. /\ r \in Seq(Tick) /\ Len(r) = Len(s) + Len(b)
          /\ \A i \in 1 .. Len(s) + Len(b) : r[i] = IF i <= Len(s) THEN s[i] ELSE b[i - Len(s)]
        BY <2>1, ConcatProperties
    <2> QED BY <1>1, <1>2, <2>1, <2>2
<1>4. \A i \in 1 .. n : i \in 1 .. n + l /\ r[i] = s[i]
    <2>1. \A i \in 1 .. n : i \in 1 .. n + l /\ i <= n
        OBVIOUS
    <2> QED BY <1>3, <2>1
<1>5. \A j \in 1 .. l : n + j \in 1 .. n + l /\ r[n + j] = b[j]
    <2>1. \A j \in 1 .. l : n + j \in 1 .. n + l /\ ~(n + j <= n) /\ (n + j) - n = j
        OBVIOUS
    <2> QED BY <1>3, <2>1
<1>6. \A i \in 1 .. n + l : i \in 1 .. n \/ \E j \in 1 .. l : i = n + j
    <2> SUFFICES ASSUME NEW i \in 1 .. n + l, i \notin 1 .. n PROVE \E j \in 1 .. l : i = n + j
        OBVIOUS
    <2>1. i - n \in 1 .. l /\ i = n + (i - n)
        OBVIOUS
    <2> QED BY <2>1
<1>7. Has(k, r) <=> Has(k, s) \/ Has(k, b)
    <2>1. Has(k, s) => Has(k, r)
        BY <1>1, <1>3, <1>4 DEF Has
    <2>2. Has(k, b) => Has(k, r)
        BY <1>2, <1>3, <1>5 DEF Has
    <2>3. ASSUME Has(k, r) PROVE Has(k, s) \/ Has(k, b)
        <3>1. PICK i \in 1 .. n + l : r[i].timer = k
            BY <1>3, <2>3 DEF Has
        <3>2. CASE i \in 1 .. n
            BY <1>1, <1>4, <3>1, <3>2 DEF Has
        <3>3. CASE \E j \in 1 .. l : i = n + j
            BY <1>2, <1>5, <3>1, <3>3 DEF Has
        <3> QED BY <1>6, <3>2, <3>3
    <2> QED BY <2>1, <2>2, <2>3
<1>8. ASSUME OneOf(k, r) PROVE OneOf(k, s) /\ OneOf(k, b) /\ ~(Has(k, s) /\ Has(k, b))
    <2>1. \A i, j \in 1 .. n + l : r[i].timer = k /\ r[j].timer = k => i = j
        BY <1>3, <1>8 DEF OneOf
    <2>2. OneOf(k, s)
        BY <1>1, <1>4, <2>1 DEF OneOf
    <2>3. OneOf(k, b)
        <3> SUFFICES ASSUME NEW i \in 1 .. l, NEW j \in 1 .. l, b[i].timer = k, b[j].timer = k
                     PROVE  i = j
            BY <1>2 DEF OneOf
        <3>1. n + i = n + j
            BY <1>5, <2>1
        <3> QED BY <3>1
    <2>4. ASSUME Has(k, s), Has(k, b) PROVE FALSE
        <3>1. PICK i \in 1 .. n : s[i].timer = k
            BY <1>1, <2>4 DEF Has
        <3>2. PICK j \in 1 .. l : b[j].timer = k
            BY <1>2, <2>4 DEF Has
        <3>3. i = n + j
            BY <1>4, <1>5, <2>1, <3>1, <3>2
        <3> QED BY <3>3
    <2> QED BY <2>2, <2>3, <2>4
<1>9. ASSUME OneOf(k, s), OneOf(k, b), ~(Has(k, s) /\ Has(k, b)) PROVE OneOf(k, r)
    <2> SUFFICES ASSUME NEW i \in 1 .. n + l, NEW j \in 1 .. n + l,
                        r[i].timer = k, r[j].timer = k
                 PROVE  i = j
        BY <1>3 DEF OneOf
    <2>1. CASE i \in 1 .. n /\ j \in 1 .. n
        BY <1>1, <1>4, <1>9, <2>1 DEF OneOf
    <2>2. CASE (\E a \in 1 .. l : i = n + a) /\ (\E a \in 1 .. l : j = n + a)
        <3>1. PICK a \in 1 .. l, c \in 1 .. l : i = n + a /\ j = n + c
            BY <2>2
        <3>2. b[a].timer = k /\ b[c].timer = k
            BY <1>5, <3>1
        <3>3. a = c
            BY <1>2, <1>9, <3>2 DEF OneOf
        <3> QED BY <3>1, <3>3
    <2>3. CASE i \in 1 .. n /\ (\E a \in 1 .. l : j = n + a)
        BY <1>1, <1>2, <1>4, <1>5, <1>9, <2>3 DEF Has
    <2>4. CASE j \in 1 .. n /\ (\E a \in 1 .. l : i = n + a)
        BY <1>1, <1>2, <1>4, <1>5, <1>9, <2>4 DEF Has
    <2> QED BY <1>6, <2>1, <2>2, <2>3, <2>4
<1> QED BY <1>3, <1>7, <1>8, <1>9

\* How often a timer is in a list, as a number.
LEMMA CountIn ==
    ASSUME NEW s \in Seq(Tick), NEW k
    PROVE  LET n == Cardinality({i \in DOMAIN s : s[i].timer = k})
           IN n \in Nat /\ (n > 0 <=> Has(k, s)) /\ (n <= 1 <=> OneOf(k, s))
<1>1. PICK n \in Nat : n = Len(s) /\ DOMAIN s = 1 .. n
    BY LenProperties
<1>2. PICK P \in SUBSET (1 .. n) : P = {i \in 1 .. n : s[i].timer = k}
    OBVIOUS
<1>3. /\ Cardinality(P) \in Nat
      /\ P # {} <=> Cardinality(P) > 0
      /\ Cardinality(P) <= 1 <=> \A i, j \in P : i = j
    BY PlacesCounted
<1>4. P # {} <=> Has(k, s)
    BY <1>1, <1>2 DEF Has
<1>5. (\A i, j \in P : i = j) <=> OneOf(k, s)
    BY <1>1, <1>2 DEF OneOf
<1> QED BY <1>1, <1>2, <1>3, <1>4, <1>5

\* The head of a list and the rest.
LEMMA HeadAndTail ==
    ASSUME NEW s \in Seq(Tick), s # <<>>
    PROVE  /\ Head(s) \in Tick /\ Tail(s) \in Seq(Tick)
           /\ \A y : In(y, s) <=> y = Head(s) \/ In(y, Tail(s))
           /\ \A k : Has(k, s) <=> Head(s).timer = k \/ Has(k, Tail(s))
           /\ \A k : OneOf(k, s) => /\ OneOf(k, Tail(s))
                                    /\ Head(s).timer = k => ~Has(k, Tail(s))
           /\ Sorted(s) => /\ Sorted(Tail(s))
                           /\ \A y : In(y, s) => Head(s).triggerTime <= y.triggerTime
<1>1. PICK n \in Nat : n + 1 = Len(s)
    <2>1. Len(s) \in Nat \ {0}
        BY EmptySeq
    <2>2. Len(s) - 1 \in Nat /\ (Len(s) - 1) + 1 = Len(s)
        BY <2>1
    <2> QED BY <2>2
<1>2. PICK h \in Tick : h = Head(s) /\ h = s[1]
    BY <1>1, HeadTailProperties
<1>3. PICK t \in Seq(Tick) : t = Tail(s) /\ Len(t) = n /\ \A i \in 1 .. n : t[i] = s[i + 1]
    <2>1. PICK t : t = Tail(s)
        OBVIOUS
    <2>2. t \in Seq(Tick) /\ Len(t) = Len(s) - 1 /\ \A i \in 1 .. Len(t) : t[i] = s[i + 1]
        BY <2>1, HeadTailProperties
    <2>3. Len(s) - 1 = n
        BY <1>1
    <2> QED BY <2>1, <2>2, <2>3
<1>4. 1 \in 1 .. n + 1 /\ \A i \in 1 .. n : i + 1 \in 1 .. n + 1 /\ i + 1 # 1
    OBVIOUS
<1>5. ASSUME NEW i \in 1 .. n + 1 PROVE i = 1 \/ \E j \in 1 .. n : i = j + 1
    <2>1. i = 1 \/ (i - 1 \in 1 .. n /\ i = (i - 1) + 1)
        OBVIOUS
    <2> QED BY <2>1
<1>6. \A y : In(y, s) <=> y = h \/ In(y, t)
    BY <1>1, <1>2, <1>3, <1>4, <1>5 DEF In
<1>7. \A k : Has(k, s) <=> h.timer = k \/ Has(k, t)
    BY <1>1, <1>2, <1>3, <1>4, <1>5 DEF Has
<1>8. ASSUME NEW k, OneOf(k, s) PROVE OneOf(k, t) /\ (h.timer = k => ~Has(k, t))
    <2>1. \A i, j \in 1 .. n + 1 : s[i].timer = k /\ s[j].timer = k => i = j
        BY <1>1, <1>8 DEF OneOf
    <2>2. ASSUME NEW i \in 1 .. n, NEW j \in 1 .. n, t[i].timer = k, t[j].timer = k PROVE i = j
        <3>1. i + 1 = j + 1
            BY <1>3, <1>4, <2>1, <2>2
        <3> QED BY <3>1
    <2>3. OneOf(k, t)
        BY <1>3, <2>2 DEF OneOf
    <2>4. ASSUME h.timer = k, Has(k, t) PROVE FALSE
        <3>1. PICK i \in 1 .. n : t[i].timer = k
            BY <1>3, <2>4 DEF Has
        <3> QED BY <1>2, <1>3, <1>4, <2>1, <2>4, <3>1
    <2> QED BY <2>3, <2>4
<1>9. ASSUME Sorted(s) PROVE Sorted(t) /\ \A y : In(y, s) => h.triggerTime <= y.triggerTime
    <2>1. \A i, j \in 1 .. n + 1 : i < j => s[i].triggerTime <= s[j].triggerTime
        BY <1>1, <1>9 DEF Sorted
    <2>2. \A i, j \in 1 .. n : i < j => i + 1 < j + 1
        OBVIOUS
    <2>3. Sorted(t)
        BY <1>3, <1>4, <2>1, <2>2 DEF Sorted
    <2>4. ASSUME NEW i \in 1 .. n + 1 PROVE h.triggerTime <= s[i].triggerTime
        <3>1. CASE i = 1
            BY <1>2, <3>1 DEF Tick
        <3>2. CASE i # 1
            BY <1>2, <1>4, <2>1, <3>2
        <3> QED BY <3>1, <3>2
    <2> QED BY <1>1, <2>3, <2>4 DEF In
<1> QED BY <1>2, <1>3, <1>6, <1>7, <1>8, <1>9

\* What goes behind the head leaves it there, and goes into the rest.
LEMMA PutBehindHead ==
    ASSUME NEW s \in Seq(Tick), s # <<>>, NEW x, NEW p, p > 1,
           NEW r \in Seq(Tick), PutAt(s, x, p, r)
    PROVE  /\ r # <<>> /\ Head(r) = Head(s)
           /\ PutAt(Tail(s), x, p - 1, Tail(r))
<1>1. PICK n \in Nat : n + 1 = Len(s)
    <2>1. Len(s) \in Nat \ {0}
        BY EmptySeq
    <2>2. Len(s) - 1 \in Nat /\ (Len(s) - 1) + 1 = Len(s)
        BY <2>1
    <2> QED BY <2>2
<1>2. /\ p \in 1 .. n + 2 /\ Len(r) = n + 2 /\ r[p] = x
      /\ \A i \in 1 .. n + 1 : (i < p => r[i] = s[i]) /\ (i >= p => r[i + 1] = s[i])
    <2>1. Len(s) + 1 = n + 2
        BY <1>1
    <2> QED BY <1>1, <2>1 DEF PutAt
<1>3. r # <<>>
    BY <1>2, EmptySeq
<1>4. Head(s) = s[1] /\ Head(r) = r[1]
    BY <1>1, <1>2
<1>5. r[1] = s[1]
    BY <1>2
<1>6. PICK t : t = Tail(s) /\ Len(t) = n /\ \A i \in 1 .. n : t[i] = s[i + 1]
    <2>1. PICK t : t = Tail(s)
        OBVIOUS
    <2>2. Len(t) = Len(s) - 1 /\ \A i \in 1 .. Len(t) : t[i] = s[i + 1]
        BY <2>1, HeadTailProperties
    <2>3. Len(s) - 1 = n
        BY <1>1
    <2> QED BY <2>1, <2>2, <2>3
<1>7. PICK u : u = Tail(r) /\ Len(u) = n + 1 /\ \A i \in 1 .. n + 1 : u[i] = r[i + 1]
    <2>1. PICK u : u = Tail(r)
        OBVIOUS
    <2>2. Len(u) = Len(r) - 1 /\ \A i \in 1 .. Len(u) : u[i] = r[i + 1]
        BY <1>3, <2>1, HeadTailProperties
    <2>3. Len(r) - 1 = n + 1
        BY <1>2
    <2> QED BY <2>1, <2>2, <2>3
<1>8. PICK q \in 1 .. n + 1 : q = p - 1 /\ q + 1 = p
    BY <1>2
<1>9. u[q] = x
    BY <1>2, <1>7, <1>8
<1>10. ASSUME NEW i \in 1 .. n PROVE (i < q => u[i] = t[i]) /\ (i >= q => u[i + 1] = t[i])
    <2>1. /\ i \in 1 .. n + 1 /\ i + 1 \in 1 .. n + 1
          /\ (i < q => i + 1 < p) /\ (i >= q => i + 1 >= p)
        BY <1>8
    <2>2. u[i] = r[i + 1] /\ u[i + 1] = r[(i + 1) + 1] /\ t[i] = s[i + 1]
        BY <1>6, <1>7, <2>1
    <2>3. /\ i + 1 < p => r[i + 1] = s[i + 1]
          /\ i + 1 >= p => r[(i + 1) + 1] = s[i + 1]
        BY <1>2, <2>1
    <2> QED BY <2>1, <2>2, <2>3
<1> QED BY <1>3, <1>4, <1>5, <1>6, <1>7, <1>8, <1>9, <1>10 DEF PutAt

\* Append puts behind everything.
LEMMA AppendPuts ==
    ASSUME NEW s \in Seq(Tick), NEW x \in Tick
    PROVE  Append(s, x) \in Seq(Tick) /\ PutAt(s, x, Len(s) + 1, Append(s, x))
<1>1. PICK n \in Nat : n = Len(s)
    BY LenProperties
<1>2. PICK r : r = Append(s, x)
    OBVIOUS
<1>3. /\ r \in Seq(Tick) /\ Len(r) = n + 1 /\ r[n + 1] = x
      /\ \A i \in 1 .. n : r[i] = s[i]
    BY <1>1, <1>2, AppendProperties
<1>4. \A i \in 1 .. n : ~(i >= n + 1)
    OBVIOUS
<1>5. n + 1 \in 1 .. n + 1
    OBVIOUS
<1> QED BY <1>1, <1>2, <1>3, <1>4, <1>5 DEF PutAt

\* The list before the first AddSchedule.
LEMMA NothingInEmpty ==
    /\ \A y : ~In(y, <<>>)
    /\ \A k : ~Has(k, <<>>) /\ OneOf(k, <<>>)
    /\ Sorted(<<>>)
<1>1. Len(<<>>) = 0 /\ 1 .. 0 = {}
    BY EmptySeq
<1> QED BY <1>1 DEF In, Has, OneOf, Sorted

\* The present moves on for all ticks alike.
LEMMA SoonerMoves ==
    ASSUME NEW x \in Tick \cup Element
    PROVE  /\ x \in Tick => Sooner(x) \in Tick
           /\ x \in Element => Sooner(x) \in Element
           /\ Sooner(x).timer = x.timer
           /\ x \in Element => Sooner(x).remain = x.remain
           /\ Sooner(x).triggerTime = IF x.triggerTime > -MaxLag THEN x.triggerTime - 1
                                      ELSE x.triggerTime
<1>1. x.triggerTime \in Int /\ MaxLag \in Nat
    BY LagAssumption DEF Tick, Element
<1>2. PICK d \in Int : d = IF x.triggerTime > -MaxLag THEN x.triggerTime - 1 ELSE x.triggerTime
    BY <1>1
<1>3. CASE x \in Tick
    <2>1. Sooner(x) = [x EXCEPT !.triggerTime = d]
        BY <1>2, <1>3 DEF Sooner, Tick
    <2>2. /\ [x EXCEPT !.triggerTime = d] \in Tick
          /\ [x EXCEPT !.triggerTime = d].timer = x.timer
          /\ [x EXCEPT !.triggerTime = d].triggerTime = d
        BY <1>3 DEF Tick
    <2>3. x \notin Element \/ x.remain = Sooner(x).remain
        BY <2>1, <1>3 DEF Tick, Element
    <2>4. x \in Element => Sooner(x) \in Element
        BY <2>1, <1>3 DEF Element
    <2> QED BY <1>2, <2>1, <2>2, <2>3, <2>4
<1>4. CASE x \in Element
    <2>1. Sooner(x) = [x EXCEPT !.triggerTime = d]
        BY <1>2, <1>4 DEF Sooner, Element
    <2>2. /\ [x EXCEPT !.triggerTime = d] \in Element
          /\ [x EXCEPT !.triggerTime = d].timer = x.timer
          /\ [x EXCEPT !.triggerTime = d].remain = x.remain
          /\ [x EXCEPT !.triggerTime = d].triggerTime = d
        BY <1>4 DEF Element
    <2>3. x \in Tick => Sooner(x) \in Tick
        BY <2>1, <1>4 DEF Tick
    <2> QED BY <1>2, <2>1, <2>2, <2>3
<1> QED BY <1>3, <1>4

\* r is s, one millisecond later.
Aged(s, r) == Len(r) = Len(s) /\ \A i \in 1 .. Len(s) : r[i] = Sooner(s[i])

\* Ageing keeps the timers, the order and who is due.
LEMMA AgedKeeps ==
    ASSUME NEW s \in Seq(Tick), NEW r \in Seq(Tick), Aged(s, r)
    PROVE  /\ \A y : In(y, r) <=> \E x : In(x, s) /\ y = Sooner(x)
           /\ \A k : Has(k, r) <=> Has(k, s)
           /\ \A k : OneOf(k, s) => OneOf(k, r)
           /\ Sorted(s) => Sorted(r)
<1>1. PICK n \in Nat : n = Len(s) /\ n = Len(r)
    BY LenProperties DEF Aged
<1>2. \A i \in 1 .. n : s[i] \in Tick
    BY <1>1, ElementOfSeq
<1>3. \A i \in 1 .. n : r[i] = Sooner(s[i])
    BY <1>1 DEF Aged
<1>4. \A i \in 1 .. n : /\ r[i].timer = s[i].timer
                        /\ r[i].triggerTime = IF s[i].triggerTime > -MaxLag
                                              THEN s[i].triggerTime - 1 ELSE s[i].triggerTime
    BY <1>2, <1>3, SoonerMoves
<1>5. \A y : In(y, r) <=> \E x : In(x, s) /\ y = Sooner(x)
    BY <1>1, <1>3 DEF In
<1>6. \A k : Has(k, r) <=> Has(k, s)
    BY <1>1, <1>4 DEF Has
<1>7. \A k : OneOf(k, s) => OneOf(k, r)
    BY <1>1, <1>4 DEF OneOf
<1>8. ASSUME Sorted(s), NEW i \in 1 .. n, NEW j \in 1 .. n, i < j
      PROVE  r[i].triggerTime <= r[j].triggerTime
    <2>1. s[i].triggerTime <= s[j].triggerTime
        BY <1>1, <1>8 DEF Sorted
    <2>2. s[i].triggerTime \in Int /\ s[j].triggerTime \in Int
        BY <1>2 DEF Tick
    <2> QED BY <1>4, <2>1, <2>2, LagAssumption
<1>9. Sorted(s) => Sorted(r)
    BY <1>1, <1>8 DEF Sorted
<1> QED BY <1>5, <1>6, <1>7, <1>9

\* What TimePasses does to a list is ageing.
LEMMA AllSoonerAges ==
    ASSUME NEW s \in Seq(Tick), NEW r, r = [i \in DOMAIN s |-> Sooner(s[i])]
    PROVE  r \in Seq(Tick) /\ Aged(s, r)
<1>1. PICK n \in Nat : n = Len(s) /\ DOMAIN s = 1 .. n
    BY LenProperties
<1>2. \A i \in 1 .. n : s[i] \in Tick
    BY <1>1, ElementOfSeq
<1>3. \A i \in 1 .. n : Sooner(s[i]) \in Tick
    BY <1>2, SoonerMoves
<1>4. r = [i \in 1 .. n |-> Sooner(s[i])]
    BY <1>1
<1>5. r \in [1 .. n -> Tick]
    BY <1>3, <1>4
<1>6. r \in Seq(Tick) /\ Len(r) = n
    BY <1>5, IsASeq
<1> QED BY <1>1, <1>4, <1>6 DEF Aged

\* The rest ages as the list does.
LEMMA TailAges ==
    ASSUME NEW s \in Seq(Tick), s # <<>>, NEW r \in Seq(Tick), Aged(s, r)
    PROVE  /\ r # <<>> /\ Head(r) = Sooner(Head(s))
           /\ Aged(Tail(s), Tail(r))
<1>1. PICK n \in Nat : n + 1 = Len(s) /\ n + 1 = Len(r)
    <2>1. Len(s) \in Nat \ {0}
        BY EmptySeq
    <2>2. Len(s) - 1 \in Nat /\ (Len(s) - 1) + 1 = Len(s)
        BY <2>1
    <2> QED BY <2>2 DEF Aged
<1>2. r # <<>>
    BY <1>1, EmptySeq
<1>3. \A i \in 1 .. n + 1 : r[i] = Sooner(s[i])
    BY <1>1 DEF Aged
<1>4. Head(s) = s[1] /\ Head(r) = r[1]
    BY <1>1
<1>5. PICK t : t = Tail(s) /\ Len(t) = n /\ \A i \in 1 .. n : t[i] = s[i + 1]
    <2>1. PICK t : t = Tail(s)
        OBVIOUS
    <2>2. Len(t) = Len(s) - 1 /\ \A i \in 1 .. Len(t) : t[i] = s[i + 1]
        BY <2>1, HeadTailProperties
    <2>3. Len(s) - 1 = n
        BY <1>1
    <2> QED BY <2>1, <2>2, <2>3
<1>6. PICK u : u = Tail(r) /\ Len(u) = n /\ \A i \in 1 .. n : u[i] = r[i + 1]
    <2>1. PICK u : u = Tail(r)
        OBVIOUS
    <2>2. Len(u) = Len(r) - 1 /\ \A i \in 1 .. Len(u) : u[i] = r[i + 1]
        BY <1>2, <2>1, HeadTailProperties
    <2>3. Len(r) - 1 = n
        BY <1>1
    <2> QED BY <2>1, <2>2, <2>3
<1>7. \A i \in 1 .. n : i + 1 \in 1 .. n + 1
    OBVIOUS
<1>8. 1 \in 1 .. n + 1
    OBVIOUS
<1> QED BY <1>2, <1>3, <1>4, <1>5, <1>6, <1>7, <1>8 DEF Aged

-------------------------------------------------------------------------------
(* The list of ticks and the elements together. *)

\* The ticks of the list that have not fired, and what the running callback will add.
Left == IF pc = "callback" THEN Tail(mScheduleMap) ELSE mScheduleMap
Waiting(x) == In(x, Left) \/ In(x, elements)
HasTick(k) == Has(k, Left) \/ Has(k, elements)
Owed(k) == pc = "callback" /\ scheduleElement.timer = k /\ scheduleElement.remain # 0

\* The types, that an element is stored under its own timer, and that the head of the list is
\* the tick whose callback runs.
ListsTyped ==
    /\ mScheduleMap \in Seq(Tick) /\ elements \in Seq(Tick)
    /\ pc \in {"idle", "ticks", "callback"}
    /\ lag \in 0 .. MaxLag
    /\ \A k \in Timers : Exists(k) => mObjectScheduleMap[k].timer = k
    /\ pc = "callback" => /\ mScheduleMap # <<>>
                          /\ scheduleElement \in Element
                          /\ Head(mScheduleMap).timer = scheduleElement.timer
                          /\ Head(mScheduleMap).triggerTime <= -lag

\* The multiset is in the order of the times.
InOrder == Sorted(mScheduleMap)

\* A timer has one tick left or is owed one.
Single(k) ==
    /\ OneOf(k, Left) /\ OneOf(k, elements)
    /\ ~(Has(k, Left) /\ Has(k, elements))
    /\ Owed(k) => ~HasTick(k)

\* So it is unless the timer was added again over a tick RemoveSchedule left.
SingleUnlessReadded == \A k \in Timers \ readded : Single(k)

\* An armed timer has a tick left or is owed one, no later than itself.
Backed ==
    \A k \in Timers : Armed(k) =>
        \/ \E x : Waiting(x) /\ x.timer = k /\ x.triggerTime <= mObjectScheduleMap[k].triggerTime
        \/ Owed(k) /\ scheduleElement.triggerTime <= mObjectScheduleMap[k].triggerTime

\* Unless it was added again, none of them is earlier than itself.
NotEarly ==
    \A k \in Timers \ readded : Exists(k) =>
        /\ \A x : Waiting(x) /\ x.timer = k => mObjectScheduleMap[k].triggerTime <= x.triggerTime
        /\ Owed(k) => mObjectScheduleMap[k].triggerTime <= scheduleElement.triggerTime

\* The inductive invariant of the list.
SInv == IInv /\ ListsTyped /\ InOrder /\ SingleUnlessReadded /\ Backed /\ NotEarly

\* Left is a list of ticks.
LEMMA LeftTyped ==
    ASSUME ListsTyped
    PROVE  Left \in Seq(Tick)
BY HeadAndTail DEF ListsTyped, Left

\* TicksOf counts these.
LEMMA TicksCounted ==
    ASSUME ListsTyped, NEW k
    PROVE  /\ TicksOf(k) > 0 <=> HasTick(k) \/ Owed(k)
           /\ TicksOf(k) <= 1 <=> Single(k)
<1>1. PICK s \in Seq(Tick) : s = Left
    BY LeftTyped
<1>2. PICK b \in Seq(Tick) : b = elements
    BY DEF ListsTyped
<1>3. PICK r \in Seq(Tick) : r = s \o b
    BY ConcatHas
<1>4. /\ Has(k, r) <=> Has(k, s) \/ Has(k, b)
      /\ OneOf(k, r) <=> OneOf(k, s) /\ OneOf(k, b) /\ ~(Has(k, s) /\ Has(k, b))
    BY <1>3, ConcatHas
<1>5. PICK n \in Nat : /\ n = Cardinality({i \in DOMAIN r : r[i].timer = k})
                       /\ n > 0 <=> Has(k, r)
                       /\ n <= 1 <=> OneOf(k, r)
    BY CountIn
<1>6. TicksOf(k) = n + IF Owed(k) THEN 1 ELSE 0
    BY <1>1, <1>2, <1>3, <1>5 DEF TicksOf, Left, Owed
<1>7. CASE Owed(k)
    <2>1. TicksOf(k) = n + 1
        BY <1>6, <1>7
    <2>2. n + 1 > 0 /\ (n + 1 <= 1 <=> ~(n > 0))
        OBVIOUS
    <2>3. ~Has(k, r) => OneOf(k, r)
        BY DEF Has, OneOf
    <2> QED BY <1>1, <1>2, <1>4, <1>5, <1>7, <2>1, <2>2, <2>3 DEF Single, HasTick
<1>8. CASE ~Owed(k)
    <2>1. TicksOf(k) = n
        BY <1>6, <1>8
    <2> QED BY <1>1, <1>2, <1>4, <1>5, <1>8, <2>1 DEF Single, HasTick
<1> QED BY <1>7, <1>8

\* Nothing is scheduled at the start.
LEMMA StartLists == Init => SInv
<1> SUFFICES ASSUME Init PROVE SInv
    OBVIOUS
<1>1. IInv
    BY Start
<1>2. /\ Left = <<>> /\ mScheduleMap = <<>> /\ elements = <<>> /\ pc = "idle" /\ lag = 0
      /\ \A k \in Timers : ~Exists(k)
    BY DEF Init, Left, Exists
<1>3. ListsTyped
    BY <1>2, EmptySeq, LagAssumption DEF ListsTyped
<1>4. InOrder
    BY <1>2, NothingInEmpty DEF InOrder
<1>5. SingleUnlessReadded
    BY <1>2, NothingInEmpty DEF SingleUnlessReadded, Single, Owed
<1>6. Backed /\ NotEarly
    BY <1>2 DEF Backed, NotEarly, Armed
<1> QED BY <1>1, <1>3, <1>4, <1>5, <1>6 DEF SInv

\* The new tick goes behind the head that is firing.
LEMMA AddKeepsLists ==
    ASSUME SInv, NEW k \in Timers, NEW time \in Intervals, NEW count \in Counts,
           AddSchedule(k, time, count)
    PROVE  SInv'
<1>1. PICK e \in Element :
          e = [timer |-> k, interval |-> time, triggerTime |-> time, remain |-> count]
    <2>1. [timer |-> k, interval |-> time, triggerTime |-> time, remain |-> count] \in Element
        BY IntervalsAssumption, CountsAssumption DEF Element
    <2> QED BY <2>1
<1>2. PICK t \in Tick : t = TickOf(e) /\ t.timer = k /\ t.triggerTime = time
    <2>1. TickOf(e) = [timer |-> k, triggerTime |-> time]
        BY <1>1 DEF TickOf
    <2>2. [timer |-> k, triggerTime |-> time] \in Tick
        BY IntervalsAssumption DEF Tick
    <2> QED BY <2>1, <2>2
<1>3. e.timer = k /\ e.triggerTime = time
    BY <1>1
<1>4. /\ ~Exists(k)
      /\ mObjectScheduleMap' = [mObjectScheduleMap EXCEPT ![k] = e]
      /\ mScheduleMap' = InsertTick(mScheduleMap, t)
      /\ readded' = IF TicksOf(k) > 0 THEN readded \cup {k} ELSE readded
      /\ pc' = pc /\ lag' = lag /\ scheduleElement' = scheduleElement /\ elements' = elements
    BY <1>1, <1>2 DEF AddSchedule, executeVars
<1>5. /\ mObjectScheduleMap'[k] = e
      /\ \A j \in Timers : j # k => mObjectScheduleMap'[j] = mObjectScheduleMap[j]
    BY <1>4 DEF SInv, IInv, CountersTyped
<1>6. IInv'
    BY AddKeeps DEF SInv
<1>7. PICK s \in Seq(Tick) : s = mScheduleMap
    BY DEF SInv, ListsTyped
<1>8. PICK r \in Seq(Tick) : r = mScheduleMap'
    BY <1>4, <1>7, InsertTickPuts
<1>9. PICK p : /\ PutAt(s, t, p, r)
               /\ s # <<>> /\ Head(s).triggerTime <= t.triggerTime => p > 1
    BY <1>4, <1>7, <1>8, InsertTickPuts
<1>10. Sorted(r)
    BY <1>4, <1>7, <1>8, InsertTickPuts DEF SInv, InOrder
<1>11. pc = "callback" => s # <<>> /\ Head(s).triggerTime <= t.triggerTime
    <2> SUFFICES ASSUME pc = "callback" PROVE s # <<>> /\ Head(s).triggerTime <= t.triggerTime
        OBVIOUS
    <2>1. s # <<>> /\ Head(s).triggerTime <= -lag /\ lag \in Nat
        BY <1>7, LagAssumption DEF SInv, ListsTyped
    <2>2. Head(s).triggerTime \in Int
        BY <2>1, HeadAndTail DEF Tick
    <2>3. t.triggerTime \in Nat
        BY <1>2, IntervalsAssumption
    <2> QED BY <2>1, <2>2, <2>3
<1>12. pc = "callback" => r # <<>> /\ Head(r) = Head(s) /\ PutAt(Tail(s), t, p - 1, Tail(r))
    BY <1>9, <1>11, PutBehindHead
<1>13. ListsTyped'
    <2>1. ASSUME NEW j \in Timers, Exists(j)' PROVE mObjectScheduleMap'[j].timer = j
        <3>1. CASE j = k
            BY <1>3, <1>5, <3>1
        <3>2. CASE j # k
            BY <1>5, <2>1, <3>2 DEF SInv, ListsTyped, Exists
        <3> QED BY <3>1, <3>2
    <2> QED BY <1>4, <1>7, <1>8, <1>12, <2>1 DEF SInv, ListsTyped
<1>14. InOrder'
    BY <1>8, <1>10 DEF InOrder
<1>15. PICK l \in Seq(Tick) : l = Left
    BY LeftTyped DEF SInv
<1>16. PICK l2 : l2 = Left'
    OBVIOUS
<1>17. \E q : PutAt(l, t, q, l2)
    <2>1. CASE pc = "callback"
        BY <1>4, <1>7, <1>8, <1>12, <1>15, <1>16, <2>1 DEF Left
    <2>2. CASE pc # "callback"
        BY <1>4, <1>7, <1>8, <1>9, <1>15, <1>16, <2>2 DEF Left
    <2> QED BY <2>1, <2>2
<1>18. /\ \A y : In(y, l2) <=> In(y, l) \/ y = t
       /\ \A j : Has(j, l2) <=> Has(j, l) \/ t.timer = j
       /\ \A j : OneOf(j, l) /\ (t.timer = j => ~Has(j, l)) => OneOf(j, l2)
    BY <1>17, PutAtKeeps
<1>19. \A y : Waiting(y)' <=> Waiting(y) \/ y = t
    BY <1>4, <1>15, <1>16, <1>18 DEF Waiting
<1>20. \A j : Owed(j)' <=> Owed(j)
    BY <1>4 DEF Owed
<1>21. k \notin readded' => ~HasTick(k) /\ ~Owed(k)
    BY <1>4, TicksCounted DEF SInv
<1>22. \A j : j \notin readded' => j \notin readded
    BY <1>4
<1>23. ASSUME NEW j \in Timers, j \notin readded' PROVE Single(j)'
    <2>1. Single(j)
        BY <1>22, <1>23 DEF SInv, SingleUnlessReadded
    <2>2. j = k => ~Has(j, l) /\ ~Has(j, elements) /\ ~Owed(j)
        BY <1>15, <1>21, <1>23 DEF HasTick
    <2>3. OneOf(j, l2)
        BY <1>2, <1>15, <1>18, <2>1, <2>2 DEF Single
    <2>4. OneOf(j, elements)' /\ ~(Has(j, l2) /\ Has(j, elements'))
        BY <1>2, <1>4, <1>15, <1>18, <2>1, <2>2 DEF Single
    <2>5. Owed(j)' => ~Has(j, l2) /\ ~Has(j, elements')
        BY <1>2, <1>4, <1>15, <1>18, <1>20, <2>1, <2>2 DEF Single, HasTick
    <2> QED BY <1>4, <1>16, <2>3, <2>4, <2>5 DEF Single, HasTick
<1>24. ASSUME NEW j \in Timers, Armed(j)'
       PROVE  \/ \E x : /\ Waiting(x)' /\ x.timer = j
                     /\ x.triggerTime <= mObjectScheduleMap'[j].triggerTime
              \/ Owed(j)' /\ scheduleElement'.triggerTime <= mObjectScheduleMap'[j].triggerTime
    <2>1. CASE j = k
        <3>1. t.triggerTime <= mObjectScheduleMap'[j].triggerTime
            BY <1>2, <1>3, <1>5, <2>1, IntervalsAssumption
        <3> QED BY <1>2, <1>19, <2>1, <3>1
    <2>2. CASE j # k
        <3>1. Armed(j) /\ mObjectScheduleMap'[j] = mObjectScheduleMap[j]
            BY <1>5, <1>24, <2>2 DEF Armed, Exists
        <3> QED BY <1>4, <1>19, <1>20, <3>1 DEF SInv, Backed
    <2> QED BY <2>1, <2>2
<1>25. ASSUME NEW j \in Timers, j \notin readded', Exists(j)'
       PROVE  /\ \A x : Waiting(x)' /\ x.timer = j =>
                     mObjectScheduleMap'[j].triggerTime <= x.triggerTime
              /\ Owed(j)' => mObjectScheduleMap'[j].triggerTime <= scheduleElement'.triggerTime
    <2>1. CASE j = k
        <3>1. \A x : Waiting(x) => x.timer # k
            BY <1>21, <1>25, <2>1 DEF HasTick, Waiting, In, Has
        <3>2. mObjectScheduleMap'[j].triggerTime <= t.triggerTime
            BY <1>2, <1>3, <1>5, <2>1, IntervalsAssumption
        <3>3. ~Owed(j)'
            BY <1>20, <1>21, <1>25, <2>1
        <3> QED BY <1>19, <2>1, <3>1, <3>2, <3>3
    <2>2. CASE j # k
        <3>1. /\ Exists(j) /\ j \notin readded
              /\ mObjectScheduleMap'[j] = mObjectScheduleMap[j]
            BY <1>5, <1>22, <1>25, <2>2 DEF Exists
        <3>2. \A x : Waiting(x)' /\ x.timer = j => Waiting(x)
            BY <1>2, <1>19, <2>2
        <3> QED BY <1>4, <1>20, <3>1, <3>2 DEF SInv, NotEarly
    <2> QED BY <2>1, <2>2
<1> QED BY <1>6, <1>13, <1>14, <1>23, <1>24, <1>25
    DEF SInv, SingleUnlessReadded, Backed, NotEarly

\* A timer that goes leaves its ticks behind.
LEMMA RemoveKeepsLists ==
    ASSUME SInv,
           \/ \E k \in Timers : RemoveSchedule(k)
           \/ \E self \in Objects : RemoveAllSchedules(self)
    PROVE  SInv'
<1>1. /\ \A j \in Timers : mObjectScheduleMap'[j] \in {mObjectScheduleMap[j], NoElement}
      /\ UNCHANGED <<mScheduleMap, pc, lag, scheduleElement, elements, readded>>
    BY DEF SInv, IInv, CountersTyped, RemoveSchedule, RemoveAllSchedules, executeVars, history
<1>2. IInv'
    BY RemoveKeeps DEF SInv
<1>3. \A j \in Timers : Exists(j)' => Exists(j) /\ mObjectScheduleMap'[j] = mObjectScheduleMap[j]
    BY <1>1 DEF Exists
<1>4. Left' = Left
    BY <1>1 DEF Left
<1>5. /\ \A y : Waiting(y)' <=> Waiting(y)
      /\ \A j : (HasTick(j)' <=> HasTick(j)) /\ (Owed(j)' <=> Owed(j)) /\ (Single(j)' <=> Single(j))
    BY <1>1, <1>4 DEF Waiting, HasTick, Owed, Single
<1>6. ListsTyped'
    BY <1>1, <1>3 DEF SInv, ListsTyped
<1>7. InOrder' /\ SingleUnlessReadded'
    BY <1>1, <1>5 DEF SInv, InOrder, SingleUnlessReadded
<1>8. Backed'
    BY <1>1, <1>3, <1>5 DEF SInv, Backed, Armed
<1>9. NotEarly'
    BY <1>1, <1>3, <1>5 DEF SInv, NotEarly
<1> QED BY <1>2, <1>6, <1>7, <1>8, <1>9 DEF SInv

\* Execute only begins.
LEMMA ExecuteKeepsLists ==
    ASSUME SInv, Execute
    PROVE  SInv'
<1>1. /\ pc = "idle" /\ pc' = "ticks"
      /\ UNCHANGED <<mObjectScheduleMap, mScheduleMap, lag, elements, readded>>
    BY DEF Execute, scheduleVars, history
<1>2. IInv'
    BY StepKeeps DEF SInv, Next, MainLoop
<1>3. Left' = Left
    BY <1>1 DEF Left
<1>4. \A j : ~Owed(j) /\ ~Owed(j)'
    BY <1>1 DEF Owed
<1>5. /\ \A y : Waiting(y)' <=> Waiting(y)
      /\ \A j : Single(j)' <=> Single(j)
    BY <1>1, <1>3, <1>4 DEF Waiting, Single
<1>6. ListsTyped' /\ InOrder'
    BY <1>1 DEF SInv, ListsTyped, InOrder, Exists
<1>7. SingleUnlessReadded'
    BY <1>1, <1>5 DEF SInv, SingleUnlessReadded
<1>8. Backed'
    BY <1>1, <1>4, <1>5 DEF SInv, Backed, Armed, Exists
<1>9. NotEarly'
    BY <1>1, <1>4, <1>5 DEF SInv, NotEarly, Exists
<1> QED BY <1>2, <1>6, <1>7, <1>8, <1>9 DEF SInv

\* The head fires: from a tick that waits it becomes one that is owed.
LEMMA FireKeepsLists ==
    ASSUME SInv, FireTick
    PROVE  /\ SInv'
           /\ \A k \in Timers \ readded :
                 k = Head(mScheduleMap).timer => mObjectScheduleMap[k].triggerTime <= -lag
<1>1. PICK s \in Seq(Tick) : s = mScheduleMap
    BY DEF SInv, ListsTyped
<1>2. s # <<>> /\ Head(s).triggerTime <= -lag
    BY <1>1 DEF FireTick, Due
<1>3. PICK h \in Tick : h = Head(s)
    BY <1>2, HeadAndTail
<1>4. PICK k \in Timers : k = h.timer
    BY DEF Tick
<1>5. PICK e : e = mObjectScheduleMap[k]
    OBVIOUS
<1>6. /\ pc = "ticks" /\ pc' = "callback" /\ Exists(k)
      /\ scheduleElement' = DoHeartBeatEvent(e)
      /\ mObjectScheduleMap' = [mObjectScheduleMap EXCEPT
                ![k] = IF e.remain = 1 THEN NoElement ELSE DoHeartBeatEvent(e)]
      /\ UNCHANGED <<mScheduleMap, lag, elements, readded>>
    BY <1>1, <1>3, <1>4, <1>5 DEF FireTick
<1>7. IInv'
    BY FireKeeps DEF SInv
<1>8. e \in Element /\ e.timer = k
    BY <1>5, <1>6, ExistingIsElement DEF SInv, IInv, ListsTyped
<1>9. PICK d \in Element : d = DoHeartBeatEvent(e)
    BY <1>8, HeartBeat DEF SInv, IInv, CountersTyped
<1>10. d.timer = k /\ d.remain = IF e.remain > 0 THEN e.remain - 1 ELSE e.remain
    <2>1. d.timer = e.timer
        <3>1. d = [e EXCEPT !.remain = IF @ > 0 THEN @ - 1 ELSE @,
                            !.triggerTime = e.interval - lag]
            BY <1>9 DEF DoHeartBeatEvent
        <3> QED BY <1>8, <3>1 DEF Element
    <2> QED BY <1>8, <1>9, <2>1, HeartBeat DEF SInv, IInv, CountersTyped
<1>11. /\ \A j \in Timers : j # k => mObjectScheduleMap'[j] = mObjectScheduleMap[j]
       /\ mObjectScheduleMap'[k] = IF e.remain = 1 THEN NoElement ELSE d
    BY <1>6, <1>9 DEF SInv, IInv, CountersTyped
<1>12. PICK t \in Seq(Tick) : t = Tail(s)
    BY <1>2, HeadAndTail
<1>13. Left = s /\ Left' = t
    BY <1>1, <1>6, <1>12 DEF Left
<1>14. /\ \A y : In(y, s) <=> y = h \/ In(y, t)
       /\ \A j : Has(j, s) <=> k = j \/ Has(j, t)
       /\ \A j : OneOf(j, s) => OneOf(j, t) /\ (k = j => ~Has(j, t))
    BY <1>2, <1>3, <1>4, <1>12, HeadAndTail
<1>15. \A j : ~Owed(j) /\ (Owed(j)' => j = k)
    BY <1>6, <1>9, <1>10 DEF Owed
<1>16. /\ \A y : Waiting(y) <=> y = h \/ Waiting(y)'
       /\ \A j : HasTick(j)' => HasTick(j)
    BY <1>6, <1>13, <1>14 DEF Waiting, HasTick
<1>17. k \notin readded => ~HasTick(k)'
    BY <1>6, <1>13, <1>14 DEF SInv, SingleUnlessReadded, Single, HasTick
<1>18. \A j : Single(j) => OneOf(j, t) /\ OneOf(j, elements') /\ ~(Has(j, t) /\ Has(j, elements'))
    BY <1>6, <1>13, <1>14 DEF Single
<1>19. ListsTyped'
    <2>1. ASSUME NEW j \in Timers, Exists(j)' PROVE mObjectScheduleMap'[j].timer = j
        <3>1. CASE j = k
            BY <1>10, <1>11, <2>1, <3>1 DEF Exists
        <3>2. CASE j # k
            BY <1>11, <2>1, <3>2 DEF SInv, ListsTyped, Exists
        <3> QED BY <3>1, <3>2
    <2> QED BY <1>1, <1>2, <1>3, <1>4, <1>6, <1>9, <1>10, <2>1 DEF SInv, ListsTyped
<1>20. InOrder'
    BY <1>6 DEF SInv, InOrder
<1>21. ASSUME NEW j \in Timers \ readded' PROVE Single(j)'
    <2>1. Single(j)
        BY <1>6 DEF SInv, SingleUnlessReadded
    <2>2. Owed(j)' => ~HasTick(j)'
        BY <1>6, <1>15, <1>17
    <2> QED BY <1>13, <1>18, <2>1, <2>2 DEF Single
<1>22. ASSUME NEW j \in Timers, Armed(j)'
       PROVE  \/ \E x : /\ Waiting(x)' /\ x.timer = j
                     /\ x.triggerTime <= mObjectScheduleMap'[j].triggerTime
              \/ Owed(j)' /\ scheduleElement'.triggerTime <= mObjectScheduleMap'[j].triggerTime
    <2>1. CASE j = k
        <3>1. mObjectScheduleMap'[j] = d /\ d.remain # 0
            BY <1>11, <1>22, <2>1 DEF Armed, Exists
        <3>2. d.triggerTime <= d.triggerTime
            BY DEF Element
        <3>3. Owed(j)'
            BY <1>6, <1>9, <1>10, <2>1, <3>1 DEF Owed
        <3> QED BY <1>6, <1>9, <3>1, <3>2, <3>3
    <2>2. CASE j # k
        <3>1. Armed(j) /\ mObjectScheduleMap'[j] = mObjectScheduleMap[j]
            BY <1>11, <1>22, <2>2 DEF Armed, Exists
        <3>2. PICK x : /\ Waiting(x) /\ x.timer = j
                          /\ x.triggerTime <= mObjectScheduleMap[j].triggerTime
            BY <1>15, <3>1 DEF SInv, Backed
        <3>3. Waiting(x)'
            BY <1>4, <1>16, <2>2, <3>2
        <3> QED BY <3>1, <3>2, <3>3
    <2> QED BY <2>1, <2>2
<1>23. ASSUME NEW j \in Timers \ readded', Exists(j)'
       PROVE  /\ \A x : Waiting(x)' /\ x.timer = j =>
                     mObjectScheduleMap'[j].triggerTime <= x.triggerTime
              /\ Owed(j)' => mObjectScheduleMap'[j].triggerTime <= scheduleElement'.triggerTime
    <2>1. CASE j = k
        <3>1. \A x : Waiting(x)' => x.timer # k
            BY <1>6, <1>17, <2>1 DEF HasTick, Waiting, In, Has
        <3>2. mObjectScheduleMap'[j] = d
            BY <1>11, <1>23, <2>1 DEF Exists
        <3>3. d.triggerTime <= d.triggerTime
            BY DEF Element
        <3> QED BY <1>6, <1>9, <2>1, <3>1, <3>2, <3>3
    <2>2. CASE j # k
        <3>1. Exists(j) /\ j \notin readded /\ mObjectScheduleMap'[j] = mObjectScheduleMap[j]
            BY <1>6, <1>11, <1>23, <2>2 DEF Exists
        <3> QED BY <1>15, <1>16, <2>2, <3>1 DEF SInv, NotEarly
    <2> QED BY <2>1, <2>2
<1>24. ASSUME k \notin readded PROVE mObjectScheduleMap[k].triggerTime <= -lag
    <2>1. mObjectScheduleMap[k].triggerTime <= h.triggerTime
        BY <1>4, <1>6, <1>16, <1>24 DEF SInv, NotEarly
    <2>2. /\ h.triggerTime \in Int /\ mObjectScheduleMap[k].triggerTime \in Int
          /\ lag \in Int /\ h.triggerTime <= -lag
        BY <1>2, <1>3, <1>5, <1>8, LagAssumption DEF Tick, Element, SInv, ListsTyped
    <2> QED BY <2>1, <2>2
<1>25. SInv'
    BY <1>7, <1>19, <1>20, <1>21, <1>22, <1>23 DEF SInv, SingleUnlessReadded, Backed, NotEarly
<1> QED BY <1>1, <1>3, <1>4, <1>24, <1>25

\* What was owed is a tick again.
LEMMA ReturnKeepsLists ==
    ASSUME SInv, CallbackReturns
    PROVE  SInv'
<1>1. PICK s \in Seq(Tick) : s = mScheduleMap /\ s # <<>>
    BY DEF SInv, ListsTyped, CallbackReturns
<1>2. PICK l \in Seq(Tick) : l = Tail(s) /\ l = Left
    BY <1>1, HeadAndTail DEF CallbackReturns, Left
<1>3. PICK b \in Seq(Tick) : b = elements
    BY DEF SInv, ListsTyped
<1>4. PICK e \in Element : e = scheduleElement
    BY DEF SInv, ListsTyped, CallbackReturns
<1>5. PICK t \in Tick : t = TickOf(e) /\ t.timer = e.timer /\ t.triggerTime = e.triggerTime
    <2>1. TickOf(e) \in Tick
        BY DEF TickOf, Tick, Element
    <2> QED BY <2>1 DEF TickOf
<1>6. /\ pc = "callback" /\ pc' = "ticks" /\ mScheduleMap' = l
      /\ elements' = IF e.remain # 0 THEN Append(b, t) ELSE b
      /\ UNCHANGED <<mObjectScheduleMap, lag, readded>>
    BY <1>1, <1>2, <1>3, <1>4, <1>5 DEF CallbackReturns, history
<1>7. IInv'
    BY StepKeeps DEF SInv, Next, MainLoop
<1>8. Left' = l
    BY <1>6 DEF Left
<1>9. \A k : (Owed(k) <=> e.timer = k /\ e.remain # 0) /\ ~Owed(k)'
    BY <1>4, <1>6 DEF Owed
<1>10. PICK b2 \in Seq(Tick) :
          /\ b2 = elements'
          /\ \A y : In(y, b2) <=> In(y, b) \/ (e.remain # 0 /\ y = t)
          /\ \A k : Has(k, b2) <=> Has(k, b) \/ Owed(k)
          /\ \A k : OneOf(k, b) /\ (Owed(k) => ~Has(k, b)) => OneOf(k, b2)
    <2>1. CASE e.remain = 0
        BY <1>6, <1>9, <2>1
    <2>2. CASE e.remain # 0
        <3>1. PICK b2 \in Seq(Tick) : b2 = Append(b, t) /\ PutAt(b, t, Len(b) + 1, b2)
            BY AppendPuts
        <3>2. /\ \A y : In(y, b2) <=> In(y, b) \/ y = t
              /\ \A k : Has(k, b2) <=> Has(k, b) \/ t.timer = k
              /\ \A k : OneOf(k, b) /\ (t.timer = k => ~Has(k, b)) => OneOf(k, b2)
            BY <3>1, PutAtKeeps
        <3>3. b2 = elements' /\ \A k : Owed(k) <=> t.timer = k
            BY <1>5, <1>6, <1>9, <2>2, <3>1
        <3> QED BY <2>2, <3>2, <3>3
    <2> QED BY <2>1, <2>2
<1>11. \A y : Waiting(y)' <=> Waiting(y) \/ (e.remain # 0 /\ y = t)
    BY <1>2, <1>3, <1>8, <1>10 DEF Waiting
<1>12. ListsTyped'
    BY <1>6, <1>10 DEF SInv, ListsTyped, Exists
<1>13. InOrder'
    BY <1>1, <1>2, <1>6, HeadAndTail DEF SInv, InOrder
<1>14. ASSUME NEW k \in Timers \ readded' PROVE Single(k)'
    <2>1. Single(k)
        BY <1>6 DEF SInv, SingleUnlessReadded
    <2>2. /\ OneOf(k, l) /\ OneOf(k, b) /\ ~(Has(k, l) /\ Has(k, b))
          /\ Owed(k) => ~Has(k, l) /\ ~Has(k, b)
        BY <1>2, <1>3, <2>1 DEF Single, HasTick
    <2>3. OneOf(k, b2) /\ ~(Has(k, l) /\ Has(k, b2))
        BY <1>10, <2>2
    <2> QED BY <1>8, <1>9, <1>10, <2>2, <2>3 DEF Single
<1>15. ASSUME NEW k \in Timers, Armed(k)'
       PROVE  \E x : /\ Waiting(x)' /\ x.timer = k
                     /\ x.triggerTime <= mObjectScheduleMap'[k].triggerTime
    <2>1. Armed(k)
        BY <1>6, <1>15 DEF Armed, Exists
    <2>2. CASE \E x : /\ Waiting(x) /\ x.timer = k
                      /\ x.triggerTime <= mObjectScheduleMap[k].triggerTime
        BY <1>6, <1>11, <2>2
    <2>3. CASE Owed(k) /\ scheduleElement.triggerTime <= mObjectScheduleMap[k].triggerTime
        <3>1. Waiting(t)' /\ t.timer = k
            BY <1>5, <1>9, <1>11, <2>3
        <3> QED BY <1>4, <1>5, <1>6, <2>3, <3>1
    <2> QED BY <2>1, <2>2, <2>3 DEF SInv, Backed
<1>16. ASSUME NEW k \in Timers \ readded', Exists(k)', NEW x, Waiting(x)', x.timer = k
       PROVE  mObjectScheduleMap'[k].triggerTime <= x.triggerTime
    <2>1. Exists(k) /\ k \notin readded
        BY <1>6, <1>16 DEF Exists
    <2>2. CASE Waiting(x)
        BY <1>6, <1>16, <2>1, <2>2 DEF SInv, NotEarly
    <2>3. CASE e.remain # 0 /\ x = t
        <3>1. Owed(k)
            BY <1>5, <1>9, <1>16, <2>3
        <3> QED BY <1>4, <1>5, <1>6, <2>1, <2>3, <3>1 DEF SInv, NotEarly
    <2> QED BY <1>11, <1>16, <2>2, <2>3
<1>17. SingleUnlessReadded'
    BY <1>14 DEF SingleUnlessReadded
<1>18. Backed'
    BY <1>15 DEF Backed
<1>19. NotEarly'
    BY <1>9, <1>16 DEF NotEarly
<1> QED BY <1>7, <1>12, <1>13, <1>17, <1>18, <1>19 DEF SInv

\* The tick of a timer that is gone is nobody's.
LEMMA EraseKeepsLists ==
    ASSUME SInv, EraseStaleTick
    PROVE  SInv'
<1>1. PICK s \in Seq(Tick) : s = mScheduleMap /\ s # <<>>
    BY DEF SInv, ListsTyped, EraseStaleTick, Due
<1>2. PICK h \in Tick : h = Head(s)
    BY <1>1, HeadAndTail
<1>3. PICK t \in Seq(Tick) : t = Tail(s)
    BY <1>1, HeadAndTail
<1>4. /\ pc = "ticks" /\ pc' = "ticks" /\ ~Exists(h.timer) /\ mScheduleMap' = t
      /\ UNCHANGED <<mObjectScheduleMap, lag, elements, readded, scheduleElement>>
    BY <1>1, <1>2, <1>3 DEF EraseStaleTick, executeVars, history
<1>5. IInv'
    BY StepKeeps DEF SInv, Next, MainLoop
<1>6. Left = s /\ Left' = t
    BY <1>1, <1>4 DEF Left
<1>7. \A k : ~Owed(k) /\ ~Owed(k)'
    BY <1>4 DEF Owed
<1>8. /\ \A y : In(y, s) <=> y = h \/ In(y, t)
      /\ \A k : Has(k, s) <=> h.timer = k \/ Has(k, t)
      /\ \A k : OneOf(k, s) => OneOf(k, t)
      /\ Sorted(s) => Sorted(t)
    BY <1>1, <1>2, <1>3, HeadAndTail
<1>9. \A y : Waiting(y) <=> y = h \/ Waiting(y)'
    BY <1>4, <1>6, <1>8 DEF Waiting
<1>10. ListsTyped' /\ InOrder'
    BY <1>1, <1>4, <1>8 DEF SInv, ListsTyped, InOrder, Exists
<1>11. SingleUnlessReadded'
    BY <1>4, <1>6, <1>7, <1>8 DEF SInv, SingleUnlessReadded, Single
<1>12. ASSUME NEW k \in Timers, Armed(k)'
       PROVE  \E x : /\ Waiting(x)' /\ x.timer = k
                     /\ x.triggerTime <= mObjectScheduleMap'[k].triggerTime
    <2>1. Armed(k) /\ Exists(k)
        BY <1>4, <1>12 DEF Armed, Exists
    <2>2. PICK x : /\ Waiting(x) /\ x.timer = k
                   /\ x.triggerTime <= mObjectScheduleMap[k].triggerTime
        BY <1>7, <2>1 DEF SInv, Backed
    <2>3. x # h
        BY <1>4, <2>1, <2>2
    <2> QED BY <1>4, <1>9, <2>2, <2>3
<1>13. Backed'
    BY <1>12 DEF Backed
<1>14. NotEarly'
    BY <1>4, <1>7, <1>9 DEF SInv, NotEarly, Exists
<1> QED BY <1>5, <1>10, <1>11, <1>13, <1>14 DEF SInv

\* What was put aside goes back, each tick to its place.
LEMMA ReturnsKeepsLists ==
    ASSUME SInv, ExecuteReturns
    PROVE  /\ SInv'
           /\ \A x : In(x, mScheduleMap) => x.triggerTime > -lag
<1>1. PICK s \in Seq(Tick) : s = mScheduleMap
    BY DEF SInv, ListsTyped
<1>2. PICK b \in Seq(Tick) : b = elements
    BY DEF SInv, ListsTyped
<1>3. PICK r : r = PutBack(s, b)
    OBVIOUS
<1>4. /\ pc = "ticks" /\ pc' = "idle" /\ lag' = 0 /\ mScheduleMap' = r /\ elements' = <<>>
      /\ UNCHANGED <<mObjectScheduleMap, readded>>
      /\ s # <<>> => ~(Head(s).triggerTime <= -lag)
    BY <1>1, <1>2, <1>3 DEF ExecuteReturns, Due, history
<1>5. IInv'
    BY StepKeeps DEF SInv, Next, MainLoop
<1>6. Left = s /\ Left' = r
    BY <1>1, <1>4 DEF Left
<1>7. \A k : ~Owed(k) /\ ~Owed(k)'
    BY <1>4 DEF Owed
<1>8. /\ r \in Seq(Tick)
      /\ Sorted(s) => Sorted(r)
      /\ \A y : In(y, r) <=> In(y, s) \/ In(y, b)
      /\ \A k : OneOf(k, s) /\ OneOf(k, b) /\ ~(Has(k, s) /\ Has(k, b)) => OneOf(k, r)
    BY <1>3, PutBackKeeps
<1>9. \A y : Waiting(y)' <=> Waiting(y)
    BY <1>2, <1>4, <1>6, <1>8, NothingInEmpty DEF Waiting
<1>10. ListsTyped'
    BY <1>4, <1>8, EmptySeq, LagAssumption DEF SInv, ListsTyped, Exists
<1>11. InOrder'
    BY <1>1, <1>4, <1>8 DEF SInv, InOrder
<1>12. ASSUME NEW k \in Timers \ readded' PROVE Single(k)'
    <2>1. OneOf(k, s) /\ OneOf(k, b) /\ ~(Has(k, s) /\ Has(k, b))
        BY <1>2, <1>4, <1>6 DEF SInv, SingleUnlessReadded, Single
    <2>2. OneOf(k, r)
        BY <1>8, <2>1
    <2> QED BY <1>4, <1>6, <1>7, <2>2, NothingInEmpty DEF Single
<1>13. SingleUnlessReadded'
    BY <1>12 DEF SingleUnlessReadded
<1>14. Backed'
    BY <1>4, <1>7, <1>9 DEF SInv, Backed, Armed, Exists
<1>15. NotEarly'
    BY <1>4, <1>7, <1>9 DEF SInv, NotEarly, Exists
<1>16. ASSUME NEW x, In(x, s) PROVE x.triggerTime > -lag
    <2>1. s # <<>>
        BY <1>16, NothingInEmpty
    <2>2. Head(s) \in Tick /\ Head(s).triggerTime <= x.triggerTime
        BY <1>1, <1>16, <2>1, HeadAndTail DEF SInv, InOrder
    <2>3. x \in Tick
        BY <1>16, ElementOfSeq DEF In
    <2>4. x.triggerTime \in Int /\ Head(s).triggerTime \in Int /\ lag \in Int
        BY <2>2, <2>3, LagAssumption DEF Tick, SInv, ListsTyped
    <2> QED BY <1>4, <2>1, <2>2, <2>4
<1> QED BY <1>1, <1>5, <1>10, <1>11, <1>13, <1>14, <1>15, <1>16 DEF SInv

\* Everything comes nearer together.
LEMMA ClockKeepsLists ==
    ASSUME SInv, TimePasses
    PROVE  SInv'
<1>1. PICK s \in Seq(Tick) : s = mScheduleMap
    BY DEF SInv, ListsTyped
<1>2. PICK b \in Seq(Tick) : b = elements
    BY DEF SInv, ListsTyped
<1>3. /\ pc' = pc /\ readded' = readded
      /\ lag' = IF pc = "idle" THEN 0 ELSE lag + 1
      /\ pc # "idle" => lag < MaxLag
      /\ mObjectScheduleMap' = [k \in Timers |->
            IF Exists(k) THEN Sooner(mObjectScheduleMap[k]) ELSE NoElement]
      /\ mScheduleMap' = [i \in DOMAIN s |-> Sooner(s[i])]
      /\ elements' = [i \in DOMAIN b |-> Sooner(b[i])]
      /\ scheduleElement' = IF pc = "callback" THEN Sooner(scheduleElement) ELSE NoElement
    BY <1>1, <1>2 DEF TimePasses, history
<1>4. PICK s2 \in Seq(Tick) : s2 = mScheduleMap' /\ Aged(s, s2)
    BY <1>3, AllSoonerAges
<1>5. PICK b2 \in Seq(Tick) : b2 = elements' /\ Aged(b, b2)
    BY <1>3, AllSoonerAges
<1>6. IInv'
    BY ClockKeeps DEF SInv
<1>7. ASSUME NEW k \in Timers, Exists(k)'
      PROVE  /\ Exists(k) /\ mObjectScheduleMap[k] \in Element
             /\ mObjectScheduleMap'[k] = Sooner(mObjectScheduleMap[k])
    <2>1. Exists(k) /\ mObjectScheduleMap'[k] = Sooner(mObjectScheduleMap[k])
        BY <1>3, <1>7 DEF Exists
    <2> QED BY <2>1, ExistingIsElement DEF SInv, IInv
<1>8. ASSUME pc = "callback"
      PROVE  /\ s # <<>> /\ s2 # <<>>
             /\ Head(s2) = Sooner(Head(s)) /\ Head(s) \in Tick
             /\ Aged(Tail(s), Tail(s2))
             /\ scheduleElement \in Element /\ scheduleElement' = Sooner(scheduleElement)
    <2>1. s # <<>> /\ scheduleElement \in Element
        BY <1>1, <1>8 DEF SInv, ListsTyped
    <2> QED BY <1>3, <1>4, <1>8, <2>1, TailAges, HeadAndTail
<1>9. PICK l \in Seq(Tick) : l = Left
    BY LeftTyped DEF SInv
<1>10. PICK l2 \in Seq(Tick) : l2 = Left' /\ Aged(l, l2)
    <2>1. CASE pc = "callback"
        <3>1. l = Tail(s) /\ Left' = Tail(s2)
            BY <1>1, <1>3, <1>4, <1>9, <2>1 DEF Left
        <3>2. Tail(s2) \in Seq(Tick) /\ Aged(Tail(s), Tail(s2))
            BY <1>8, <2>1, HeadAndTail
        <3> QED BY <3>1, <3>2
    <2>2. CASE pc # "callback"
        <3>1. l = s /\ Left' = s2
            BY <1>1, <1>3, <1>4, <1>9, <2>2 DEF Left
        <3> QED BY <1>4, <3>1
    <2> QED BY <2>1, <2>2
<1>11. /\ \A y : In(y, l2) <=> \E x : In(x, l) /\ y = Sooner(x)
       /\ \A k : (Has(k, l2) <=> Has(k, l)) /\ (OneOf(k, l) => OneOf(k, l2))
    BY <1>10, AgedKeeps
<1>12. /\ \A y : In(y, b2) <=> \E x : In(x, b) /\ y = Sooner(x)
       /\ \A k : (Has(k, b2) <=> Has(k, b)) /\ (OneOf(k, b) => OneOf(k, b2))
    BY <1>5, AgedKeeps
<1>13. \A y : Waiting(y)' <=> \E x : Waiting(x) /\ y = Sooner(x)
    BY <1>2, <1>5, <1>9, <1>10, <1>11, <1>12 DEF Waiting
<1>14. \A x : Waiting(x) => x \in Tick
    BY <1>2, <1>9, ElementOfSeq DEF Waiting, In
<1>15. \A k : Owed(k)' <=> Owed(k)
    BY <1>3, <1>8, SoonerMoves DEF Owed
<1>16. ASSUME NEW x \in Tick \cup Element, NEW y \in Tick \cup Element,
              x.triggerTime <= y.triggerTime
       PROVE  Sooner(x).triggerTime <= Sooner(y).triggerTime
    <2>1. x.triggerTime \in Int /\ y.triggerTime \in Int /\ MaxLag \in Nat
        BY LagAssumption DEF Tick, Element
    <2>2. /\ Sooner(x).triggerTime = IF x.triggerTime > -MaxLag THEN x.triggerTime - 1
                                     ELSE x.triggerTime
          /\ Sooner(y).triggerTime = IF y.triggerTime > -MaxLag THEN y.triggerTime - 1
                                     ELSE y.triggerTime
        BY SoonerMoves
    <2> QED BY <1>16, <2>1, <2>2
<1>17. ListsTyped'
    <2>1. \A k \in Timers : Exists(k)' => mObjectScheduleMap'[k].timer = k
        BY <1>7, SoonerMoves DEF SInv, ListsTyped
    <2>2. lag' \in 0 .. MaxLag
        BY <1>3, LagAssumption DEF SInv, ListsTyped
    <2>3. ASSUME pc = "callback"
          PROVE  /\ scheduleElement' \in Element
                 /\ Head(s2).timer = scheduleElement'.timer
                 /\ Head(s2).triggerTime <= -lag'
        <3>1. Head(s).timer = scheduleElement.timer /\ Head(s).triggerTime <= -lag
            BY <1>1, <2>3 DEF SInv, ListsTyped
        <3>2. scheduleElement' \in Element /\ Head(s2).timer = scheduleElement'.timer
            BY <1>8, <2>3, <3>1, SoonerMoves
        <3>3. /\ Head(s).triggerTime \in Int /\ MaxLag \in Nat /\ lag \in 0 .. MaxLag
              /\ lag < MaxLag /\ lag' = lag + 1
            BY <1>3, <1>8, <2>3, LagAssumption DEF Tick, SInv, ListsTyped
        <3>4. Head(s2).triggerTime = IF Head(s).triggerTime > -MaxLag
                                     THEN Head(s).triggerTime - 1 ELSE Head(s).triggerTime
            BY <1>8, <2>3, SoonerMoves
        <3> QED BY <3>1, <3>2, <3>3, <3>4
    <2> QED BY <1>3, <1>4, <1>5, <1>8, <2>1, <2>2, <2>3 DEF SInv, ListsTyped
<1>18. InOrder'
    BY <1>1, <1>4, AgedKeeps DEF SInv, InOrder
<1>19. ASSUME NEW k \in Timers \ readded' PROVE Single(k)'
    <2>1. Single(k)
        BY <1>3 DEF SInv, SingleUnlessReadded
    <2> QED BY <1>2, <1>5, <1>9, <1>10, <1>11, <1>12, <1>15, <2>1 DEF Single, HasTick
<1>20. ASSUME NEW k \in Timers, Armed(k)'
       PROVE  \/ \E x : /\ Waiting(x)' /\ x.timer = k
                        /\ x.triggerTime <= mObjectScheduleMap'[k].triggerTime
              \/ Owed(k)' /\ scheduleElement'.triggerTime <= mObjectScheduleMap'[k].triggerTime
    <2>1. PICK e \in Element : e = mObjectScheduleMap[k] /\ mObjectScheduleMap'[k] = Sooner(e)
        BY <1>7, <1>20 DEF Armed
    <2>2. Armed(k)
        BY <1>7, <1>20, <2>1, SoonerMoves DEF Armed
    <2>3. CASE \E x : Waiting(x) /\ x.timer = k /\ x.triggerTime <= e.triggerTime
        <3>1. PICK x : Waiting(x) /\ x.timer = k /\ x.triggerTime <= e.triggerTime
            BY <2>3
        <3>2. PICK y : y = Sooner(x)
            OBVIOUS
        <3>3. x \in Tick
            BY <1>14, <3>1
        <3>4. Waiting(y)'
            BY <1>13, <3>1, <3>2
        <3>5. y.timer = k
            BY <3>1, <3>2, <3>3, SoonerMoves
        <3>6. y.triggerTime <= Sooner(e).triggerTime
            BY <1>16, <3>1, <3>2, <3>3
        <3> QED BY <2>1, <3>4, <3>5, <3>6
    <2>4. CASE Owed(k) /\ scheduleElement.triggerTime <= e.triggerTime
        <3>1. scheduleElement \in Element /\ scheduleElement' = Sooner(scheduleElement)
            BY <1>8, <2>4 DEF Owed
        <3>2. Sooner(scheduleElement).triggerTime <= Sooner(e).triggerTime
            BY <1>16, <2>4, <3>1
        <3> QED BY <1>15, <2>1, <2>4, <3>1, <3>2
    <2> QED BY <2>1, <2>2, <2>3, <2>4 DEF SInv, Backed
<1>21. ASSUME NEW k \in Timers \ readded', Exists(k)'
       PROVE  /\ \A y : Waiting(y)' /\ y.timer = k =>
                            mObjectScheduleMap'[k].triggerTime <= y.triggerTime
              /\ Owed(k)' => mObjectScheduleMap'[k].triggerTime <= scheduleElement'.triggerTime
    <2>1. PICK e \in Element : e = mObjectScheduleMap[k] /\ mObjectScheduleMap'[k] = Sooner(e)
        BY <1>7, <1>21
    <2>2. /\ \A x : Waiting(x) /\ x.timer = k => e.triggerTime <= x.triggerTime
          /\ Owed(k) => e.triggerTime <= scheduleElement.triggerTime
        BY <1>3, <1>7, <1>21, <2>1 DEF SInv, NotEarly
    <2>3. ASSUME NEW y, Waiting(y)', y.timer = k PROVE Sooner(e).triggerTime <= y.triggerTime
        <3>1. PICK x : Waiting(x) /\ y = Sooner(x)
            BY <1>13, <2>3
        <3>2. x \in Tick
            BY <1>14, <3>1
        <3>3. x.timer = k
            BY <2>3, <3>1, <3>2, SoonerMoves
        <3> QED BY <1>16, <2>2, <3>1, <3>2, <3>3
    <2>4. ASSUME Owed(k)' PROVE Sooner(e).triggerTime <= scheduleElement'.triggerTime
        <3>1. scheduleElement \in Element /\ scheduleElement' = Sooner(scheduleElement)
            BY <1>8, <1>15, <2>4 DEF Owed
        <3> QED BY <1>15, <1>16, <2>2, <2>4, <3>1
    <2> QED BY <2>1, <2>3, <2>4
<1>22. SingleUnlessReadded'
    BY <1>19 DEF SingleUnlessReadded
<1>23. Backed'
    BY <1>20 DEF Backed
<1>24. NotEarly'
    BY <1>21 DEF NotEarly
<1> QED BY <1>6, <1>17, <1>18, <1>22, <1>23, <1>24 DEF SInv

\* Every step keeps the invariant of the list.
LEMMA StepKeepsLists ==
    ASSUME SInv, [Next]_vars
    PROVE  SInv'
<1>1. CASE UNCHANGED vars
    <2>1. UNCHANGED <<mObjectScheduleMap, mScheduleMap, pc, lag, scheduleElement, elements,
                      readded>>
        BY <1>1 DEF vars, scheduleVars, executeVars, history
    <2>2. IInv'
        BY StepKeeps DEF SInv
    <2>3. Left' = Left
        BY <2>1 DEF Left
    <2>4. \A k : /\ (Single(k)' <=> Single(k)) /\ (Owed(k)' <=> Owed(k))
                 /\ (Waiting(k)' <=> Waiting(k))
        BY <2>1, <2>3 DEF Single, Owed, Waiting, HasTick
    <2>5. ListsTyped' /\ InOrder' /\ SingleUnlessReadded'
        BY <2>1, <2>4 DEF SInv, ListsTyped, InOrder, SingleUnlessReadded, Exists
    <2>6. Backed'
        BY <2>1, <2>4 DEF SInv, Backed, Armed, Exists
    <2>7. NotEarly'
        BY <2>1, <2>4 DEF SInv, NotEarly, Exists
    <2> QED BY <2>2, <2>5, <2>6, <2>7 DEF SInv
<1>2. CASE Calls
    BY <1>2, AddKeepsLists, RemoveKeepsLists DEF Calls
<1>3. CASE MainLoop
    BY <1>3, ExecuteKeepsLists, FireKeepsLists, ReturnKeepsLists, EraseKeepsLists,
       ReturnsKeepsLists DEF MainLoop
<1>4. CASE TimePasses
    BY <1>4, ClockKeepsLists
<1> QED BY <1>1, <1>2, <1>3, <1>4 DEF Next

\* An armed timer has a tick, so NFScheduleModule::Execute will come to it: RemoveSchedule
\* leaves ticks behind, and no later add, callback or insertion takes one away.
THEOREM ArmedHasTick == Spec => []ArmedTimerHasTick
<1>1. SInv => ArmedTimerHasTick
    <2> SUFFICES ASSUME SInv, NEW k \in Timers, Armed(k), ~Firing(k)
                 PROVE  \E x \in ToSet(mScheduleMap) \cup ToSet(elements) :
                            x.timer = k /\ x.triggerTime <= mObjectScheduleMap[k].triggerTime
        BY DEF ArmedTimerHasTick
    <2>1. ~Owed(k)
        BY DEF Owed, Firing, SInv, ListsTyped
    <2>2. PICK x : /\ Waiting(x) /\ x.timer = k
                   /\ x.triggerTime <= mObjectScheduleMap[k].triggerTime
        BY <2>1 DEF SInv, Backed
    <2>3. In(x, mScheduleMap) \/ In(x, elements)
        BY <2>2, HeadAndTail DEF Waiting, Left, SInv, ListsTyped
    <2>4. \A s \in Seq(Tick) : In(x, s) => x \in ToSet(s)
        BY LenProperties DEF In, ToSet
    <2> QED BY <2>2, <2>3, <2>4 DEF SInv, ListsTyped
<1> QED BY <1>1, StartLists, StepKeepsLists, PTL DEF Spec

\* A timer fires once per interval unless it was added again over a tick that
\* RemoveSchedule left behind.
THEOREM OneTick == Spec => []OneTickUnlessReadded
<1>1. SInv => OneTickUnlessReadded
    BY TicksCounted DEF OneTickUnlessReadded, SInv, SingleUnlessReadded
<1> QED BY <1>1, StartLists, StepKeepsLists, PTL DEF Spec

\* Execute stops at the first tick that is not due, and no other is.
THEOREM NoneDueIsLeft == Spec => NoDueTickLeft
<1>1. ASSUME SInv, [Next]_vars, pc = "ticks", pc' = "idle"
      PROVE  \A x \in ToSet(mScheduleMap) : x.triggerTime > -lag
    <2>1. ExecuteReturns
        BY <1>1 DEF Next, Calls, MainLoop, AddSchedule, RemoveSchedule, RemoveAllSchedules,
                    Execute, FireTick, CallbackReturns, EraseStaleTick, TimePasses, vars,
                    executeVars
    <2>2. \A x \in ToSet(mScheduleMap) : In(x, mScheduleMap)
        BY <1>1, LenProperties DEF In, ToSet, SInv, ListsTyped
    <2> QED BY <1>1, <2>1, <2>2, ReturnsKeepsLists
<1>2. SInv /\ [Next]_vars =>
          [pc = "ticks" /\ pc' = "idle" => \A x \in ToSet(mScheduleMap) : x.triggerTime > -lag]_vars
    BY <1>1
<1> QED BY <1>2, StartLists, StepKeepsLists, PTL DEF Spec, NoDueTickLeft

\* No timer fires before its interval is over, unless it was added again over a tick
\* that was left behind.
THEOREM NoneIsEarly == Spec => NeverEarly
<1>1. ASSUME SInv, [Next]_vars, NEW k \in Timers \ readded, ~Firing(k), Firing(k)'
      PROVE  mObjectScheduleMap[k].triggerTime <= -lag
    <2>1. CASE FireTick
        <3>1. k = Head(mScheduleMap).timer
            BY <1>1, <2>1 DEF Firing, FireTick
        <3> QED BY <1>1, <2>1, <3>1, FireKeepsLists
    <2>2. CASE \E j \in Timers, time \in Intervals, count \in Counts : AddSchedule(j, time, count)
        <3>1. pc' = pc
            BY <2>2 DEF AddSchedule, executeVars
        <3>2. pc = "callback" /\ mScheduleMap # <<>>
            BY <1>1, <3>1 DEF Firing, SInv, ListsTyped
        <3>3. Head(mScheduleMap).timer = scheduleElement.timer
            BY <1>1, <3>2 DEF SInv, ListsTyped
        <3>4. SInv' /\ scheduleElement' = scheduleElement
            BY <1>1, <2>2, AddKeepsLists DEF AddSchedule, executeVars
        <3>5. Head(mScheduleMap').timer = scheduleElement.timer
            BY <3>1, <3>2, <3>4 DEF SInv, ListsTyped
        <3> QED BY <1>1, <3>2, <3>3, <3>5 DEF Firing
    <2>3. CASE TimePasses
        <3>1. pc' = pc
            BY <2>3 DEF TimePasses
        <3>2. pc = "callback" /\ scheduleElement \in Element
            BY <1>1, <3>1 DEF Firing, SInv, ListsTyped
        <3>3. SInv' /\ scheduleElement' = Sooner(scheduleElement)
            BY <1>1, <2>3, <3>2, ClockKeepsLists DEF TimePasses
        <3>4. Head(mScheduleMap).timer = scheduleElement.timer
            BY <1>1, <3>2 DEF SInv, ListsTyped
        <3>5. Head(mScheduleMap').timer = scheduleElement.timer
            BY <3>1, <3>2, <3>3, SoonerMoves DEF SInv, ListsTyped
        <3> QED BY <1>1, <3>2, <3>4, <3>5 DEF Firing
    <2>4. ASSUME \/ \E j \in Timers : RemoveSchedule(j)
                 \/ \E self \in Objects : RemoveAllSchedules(self)
                 \/ UNCHANGED vars
          PROVE  FALSE
        <3>1. pc' = pc /\ mScheduleMap' = mScheduleMap
            BY <2>4 DEF RemoveSchedule, RemoveAllSchedules, executeVars, vars, scheduleVars
        <3> QED BY <1>1, <3>1 DEF Firing
    <2>5. CASE Execute \/ CallbackReturns \/ EraseStaleTick \/ ExecuteReturns
        BY <1>1, <2>5 DEF Firing, Execute, CallbackReturns, EraseStaleTick, ExecuteReturns,
                          executeVars
    <2> QED BY <1>1, <2>1, <2>2, <2>3, <2>4, <2>5 DEF Next, Calls, MainLoop
<1>2. SInv /\ [Next]_vars =>
          [\A k \in Timers \ readded :
              ~Firing(k) /\ Firing(k)' => mObjectScheduleMap[k].triggerTime <= -lag]_vars
    BY <1>1
<1> QED BY <1>2, StartLists, StepKeepsLists, PTL DEF Spec, NeverEarly
===============================================================================
