------------------------------ MODULE EventModule ------------------------------
(***************************************************************************)
(* NFEventModule: callbacks that are called one after the other when an    *)
(* event is raised. A callback may raise events, add callbacks and remove  *)
(* an event's callbacks itself. The list that is walked, an NFList, holds  *)
(* the only cursor there is, so that all walks over it share one.          *)
(***************************************************************************)
EXTENDS Naturals, Sequences

CONSTANTS
    ModuleEvents,   \* events raised by their id alone
    ObjectEvents,   \* events of an object, for which the common callbacks come first
    Callbacks,
    Lists,          \* bound: the NFLists that can be in use at once
    MaxList,        \* bound: callbacks in a list
    MaxDepth        \* bound: events raised inside one another

ASSUME EventsAssumption == ModuleEvents \cap ObjectEvents = {}
ASSUME BoundsAssumption == MaxList \in Nat \ {0} /\ MaxDepth \in Nat \ {0}

Events == ModuleEvents \cup ObjectEvents
Common == "common"              \* the key of mCommonEventInfoMapEx here
NoList == "none"
End == 0                        \* mCurIter at the end, where it stays

VARIABLES
    mtObjConfigList,    \* per list: its callbacks
    mCurIter,           \* per list: where the cursor is
    eventInfoMap,       \* per event, and for the common callbacks: its list
    exists,             \* does the kernel still have the object?
    stack               \* the walks under way, the innermost last

vars == <<mtObjConfigList, mCurIter, eventInfoMap, exists, stack>>

Walk == [event : Events, list : Lists, common : BOOLEAN,
         calls : Seq(Callbacks), raisedInside : BOOLEAN]

TypeOK ==
    /\ mtObjConfigList \in [Lists -> Seq(Callbacks)]
    /\ mCurIter \in [Lists -> 0 .. MaxList]
    /\ eventInfoMap \in [Events \cup {Common} -> Lists \cup {NoList}]
    /\ exists \in BOOLEAN
    /\ stack \in Seq(Walk)

Init ==
    /\ mtObjConfigList = [l \in Lists |-> <<>>]
    /\ mCurIter = [l \in Lists |-> End]
    /\ eventInfoMap = [e \in Events \cup {Common} |-> NoList]
    /\ exists = TRUE
    /\ stack = <<>>

Top == stack[Len(stack)]

\* A list that is neither in the map nor walked: its memory can be used again.
Unused == {l \in Lists : /\ \A e \in DOMAIN eventInfoMap : eventInfoMap[e] # l
                         /\ \A i \in DOMAIN stack : stack[i].list # l}

-------------------------------------------------------------------------------
(* Walking a list. *)

\* First: the cursor goes to the front and the first callback is called, in a
\* walk on top of the walks below, of which those over the same list lose it.
Start(cursors, below, e, l, common) ==
    /\ mCurIter' = [cursors EXCEPT ![l] = 1]
    /\ stack' = Append([i \in DOMAIN below |->
                            [below[i] EXCEPT !.raisedInside = @ \/ below[i].list = l]],
                       [event |-> e, list |-> l, common |-> common,
                        calls |-> <<mtObjConfigList[l][1]>>, raisedInside |-> FALSE])

\* Is the event's own list walked? An object's only if the object is there.
OwnList(e) == eventInfoMap[e] # NoList /\ (e \in ObjectEvents => exists)

\* DoEvent: the common callbacks of an object's event, then the event's own.
DoEvent(e) ==
    /\ Len(stack) < MaxDepth
    /\ \/ /\ e \in ObjectEvents
          /\ eventInfoMap[Common] # NoList
          /\ Start(mCurIter, stack, e, eventInfoMap[Common], TRUE)
       \/ /\ e \in ObjectEvents => eventInfoMap[Common] = NoList
          /\ OwnList(e)
          /\ Start(mCurIter, stack, e, eventInfoMap[e], FALSE)
    /\ UNCHANGED <<mtObjConfigList, eventInfoMap, exists>>

\* A bug: a cursor at the end is moved on, and a std::list goes round.
NextOrFirst(l) ==
    IF mCurIter[l] = Len(mtObjConfigList[l]) THEN End ELSE mCurIter[l] + 1

\* NFList::Next: where the cursor goes.
NextOf(l) ==
    IF mCurIter[l] = End \/ mCurIter[l] = Len(mtObjConfigList[l])
    THEN End ELSE mCurIter[l] + 1

\* The callback called last returns, and the next one is called.
CallbackReturns ==
    LET l == Top.list IN
    /\ stack # <<>>
    /\ NextOf(l) # End
    /\ mCurIter' = [mCurIter EXCEPT ![l] = NextOf(l)]
    /\ stack' = [stack EXCEPT ![Len(stack)].calls = Append(@, mtObjConfigList[l][NextOf(l)])]
    /\ UNCHANGED <<mtObjConfigList, eventInfoMap, exists>>

\* The callback called last returns and there is no next one: the walk ends. After
\* the common callbacks the event's own list is looked up.
LastCallbackReturns ==
    LET below == SubSeq(stack, 1, Len(stack) - 1)
        cursors == [mCurIter EXCEPT ![Top.list] = End] IN
    /\ stack # <<>>
    /\ NextOf(Top.list) = End
    /\ \/ /\ Top.common /\ OwnList(Top.event)
          /\ Start(cursors, below, Top.event, eventInfoMap[Top.event], FALSE)
       \/ /\ ~(Top.common /\ OwnList(Top.event))
          /\ mCurIter' = cursors
          /\ stack' = below
    /\ UNCHANGED <<mtObjConfigList, eventInfoMap, exists>>

-------------------------------------------------------------------------------
(* What callbacks, and everybody else, may do. *)

\* AddEventCallBack and AddCommonEventCallBack: NFList::Add appends.
AddEventCallBack(e, cb) ==
    LET l == eventInfoMap[e] IN
    /\ e \in ObjectEvents => exists
    /\ \/ /\ l # NoList
          /\ Len(mtObjConfigList[l]) < MaxList
          /\ mtObjConfigList' = [mtObjConfigList EXCEPT ![l] = Append(@, cb)]
          /\ UNCHANGED eventInfoMap
       \/ /\ l = NoList
          /\ \E new \in Unused :
                /\ mtObjConfigList' = [mtObjConfigList EXCEPT ![new] = <<cb>>]
                /\ eventInfoMap' = [eventInfoMap EXCEPT ![e] = new]
    /\ UNCHANGED <<mCurIter, exists, stack>>

\* RemoveEventCallBack: the list of the event (or of an object, which has one event
\* here, all of its lists) is taken out of the map; who walks it has it still.
RemoveEventCallBack(e) ==
    /\ eventInfoMap[e] # NoList
    /\ eventInfoMap' = [eventInfoMap EXCEPT ![e] = NoList]
    /\ UNCHANGED <<mtObjConfigList, mCurIter, exists, stack>>

\* NFKernelModule::DestroyObject, which callbacks may call: the kernel has the object
\* no more, and its lists are taken out of the map.
DestroyObject ==
    /\ exists
    /\ exists' = FALSE
    /\ eventInfoMap' = [e \in DOMAIN eventInfoMap |->
                            IF e \in ObjectEvents THEN NoList ELSE eventInfoMap[e]]
    /\ UNCHANGED <<mtObjConfigList, mCurIter, stack>>

Next ==
    \/ \E e \in Events : DoEvent(e) \/ RemoveEventCallBack(e)
    \/ \E e \in Events \cup {Common}, cb \in Callbacks : AddEventCallBack(e, cb)
    \/ CallbackReturns
    \/ LastCallbackReturns
    \/ DestroyObject

Spec == Init /\ [][Next]_vars

-------------------------------------------------------------------------------
(* Properties. *)

\* A step that ends the innermost walk.
WalkEnds ==
    /\ stack # <<>>
    /\ Len(stack') >= Len(stack) => stack'[Len(stack)].list # Top.list

\* Whatever callbacks do, an event that was raised calls the callbacks in the order
\* in which they were added, each of them once, those that are added meanwhile too,
\* and also when they are removed meanwhile. Only when the same event is raised
\* inside it, or an object's event inside a common callback, may it leave out the
\* rest, the one raised inside having walked the same list.
CallsInOrder ==
    [][WalkEnds =>
        LET list == mtObjConfigList[Top.list]
            n == Len(Top.calls) IN
        /\ n <= Len(list) /\ Top.calls = SubSeq(list, 1, n)
        /\ n < Len(list) => Top.raisedInside]_vars
===============================================================================
