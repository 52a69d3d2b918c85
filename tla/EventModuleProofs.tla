--------------------------- MODULE EventModuleProofs ---------------------------
(***************************************************************************)
(* Walks call their callbacks in order, for any events, callbacks, lists   *)
(* and bounds. The walks share a list's cursor, but it always belongs to   *)
(* the innermost of them: a walk that nothing interrupted finds it where   *)
(* it left it, and one that was interrupted finds it at the end.           *)
(***************************************************************************)
EXTENDS EventModule, TLAPS

Typed ==
    /\ mtObjConfigList \in [Lists -> Seq(Callbacks)]
    /\ mCurIter \in [Lists -> Nat]
    /\ eventInfoMap \in [Events \cup {Common} -> Lists \cup {NoList}]
    /\ stack \in Seq(Walk)

\* What was called is the beginning of the list, and was not empty.
Began(list, calls) ==
    /\ Len(calls) >= 1 /\ Len(calls) <= Len(list)
    /\ \A k \in 1 .. Len(calls) : calls[k] = list[k]

Innermost(walks, i) ==
    \A j \in 1 .. Len(walks) : j > i => walks[j].list # walks[i].list

\* The cursor of a list as its innermost walk left it.
CursorOf(w) == IF w.raisedInside THEN End ELSE Len(w.calls)

WalksBegan(lists, walks) ==
    \A i \in 1 .. Len(walks) : Began(lists[walks[i].list], walks[i].calls)

CursorsFit(cursors, walks) ==
    \A i \in 1 .. Len(walks) :
        Innermost(walks, i) => cursors[walks[i].list] = CursorOf(walks[i])

\* A walk with another one over its list above it knows of that.
OuterKnow(walks) ==
    \A i, j \in 1 .. Len(walks) :
        i < j /\ walks[i].list = walks[j].list => walks[i].raisedInside

WalksFit(lists, cursors, walks) ==
    /\ WalksBegan(lists, walks)
    /\ CursorsFit(cursors, walks)
    /\ OuterKnow(walks)

\* A list that can be found has a callback.
ListsFilled ==
    \A e \in Events \cup {Common} :
        eventInfoMap[e] # NoList => Len(mtObjConfigList[eventInfoMap[e]]) > 0

IInv == Typed /\ ListsFilled /\ WalksFit(mtObjConfigList, mCurIter, stack)

-------------------------------------------------------------------------------
(* A walk starts. *)

\* A walk as Start leaves it, when l is what the new walk goes over: all but the mark
\* is kept.
Marked(w, l) == [w EXCEPT !.raisedInside = @ \/ w.list = l]

LEMMA MarkedWalk ==
    ASSUME NEW w \in Walk, NEW l
    PROVE  /\ Marked(w, l) \in Walk
           /\ Marked(w, l).list = w.list /\ Marked(w, l).calls = w.calls
           /\ Marked(w, l).raisedInside <=> (w.raisedInside \/ w.list = l)
<1> DEFINE b == w.raisedInside \/ w.list = l
<1>1. b \in BOOLEAN /\ (b <=> (w.raisedInside \/ w.list = l))
    OBVIOUS
<1>2. Marked(w, l) = [w EXCEPT !.raisedInside = b]
    BY DEF Marked
<1> HIDE DEF b
<1>3. /\ [w EXCEPT !.raisedInside = b] \in Walk
      /\ [w EXCEPT !.raisedInside = b].list = w.list
      /\ [w EXCEPT !.raisedInside = b].calls = w.calls
      /\ [w EXCEPT !.raisedInside = b].raisedInside = b
    BY <1>1 DEF Walk
<1> QED BY <1>1, <1>2, <1>3

AllMarked(below, l) == [i \in DOMAIN below |-> Marked(below[i], l)]

NewWalk(lists, e, l, common) ==
    [event |-> e, list |-> l, common |-> common, calls |-> <<lists[l][1]>>, raisedInside |-> FALSE]

LEMMA AllMarkedWalks ==
    ASSUME NEW below \in Seq(Walk), NEW l
    PROVE  /\ AllMarked(below, l) \in Seq(Walk)
           /\ Len(AllMarked(below, l)) = Len(below)
           /\ \A i \in 1 .. Len(below) : AllMarked(below, l)[i] = Marked(below[i], l)
<1> DEFINE n == Len(below)
           marked == AllMarked(below, l)
<1>1. n \in Nat /\ DOMAIN below = 1 .. n /\ \A i \in 1 .. n : below[i] \in Walk
    OBVIOUS
<1>2. marked = [i \in 1 .. n |-> Marked(below[i], l)]
    BY <1>1 DEF AllMarked
<1>3. \A i \in 1 .. n : Marked(below[i], l) \in Walk
    BY <1>1, MarkedWalk
<1> HIDE DEF marked, n
<1>4. marked \in Seq(Walk) /\ Len(marked) = n
    BY <1>1, <1>2, <1>3
<1> QED BY <1>2, <1>4 DEF marked, n

LEMMA NewWalkIsWalk ==
    ASSUME NEW lists \in [Lists -> Seq(Callbacks)],
           NEW e \in Events, NEW l \in Lists, NEW common \in BOOLEAN, Len(lists[l]) > 0
    PROVE  LET top == NewWalk(lists, e, l, common) IN
           /\ top \in Walk /\ top.list = l /\ CursorOf(top) = 1
           /\ Began(lists[l], top.calls)
<1>1. lists[l] \in Seq(Callbacks) /\ lists[l][1] \in Callbacks /\ Len(lists[l]) >= 1
    OBVIOUS
<1> DEFINE calls == <<lists[l][1]>>
<1>2. calls \in Seq(Callbacks) /\ Len(calls) = 1 /\ calls[1] = lists[l][1]
    BY <1>1
<1> HIDE DEF calls
<1>3. NewWalk(lists, e, l, common) =
        [event |-> e, list |-> l, common |-> common, calls |-> calls, raisedInside |-> FALSE]
    BY DEF NewWalk, calls
<1>4. Began(lists[l], calls)
    BY <1>1, <1>2 DEF Began
<1>5. /\ NewWalk(lists, e, l, common) \in Walk
      /\ NewWalk(lists, e, l, common).list = l
      /\ NewWalk(lists, e, l, common).calls = calls
      /\ ~NewWalk(lists, e, l, common).raisedInside
    BY <1>2, <1>3 DEF Walk
<1> QED BY <1>2, <1>4, <1>5 DEF CursorOf

\* Start, for any lists, cursors and walks below: the new walk has the cursor, and
\* those below over the same list have lost it.
LEMMA StartFits ==
    ASSUME NEW lists \in [Lists -> Seq(Callbacks)],
           NEW cursors \in [Lists -> Nat],
           NEW below \in Seq(Walk),
           WalksFit(lists, cursors, below),
           NEW e \in Events, NEW l \in Lists, NEW common \in BOOLEAN,
           Len(lists[l]) > 0
    PROVE  /\ [cursors EXCEPT ![l] = 1] \in [Lists -> Nat]
           /\ Append(AllMarked(below, l), NewWalk(lists, e, l, common)) \in Seq(Walk)
           /\ WalksFit(lists, [cursors EXCEPT ![l] = 1],
                       Append(AllMarked(below, l), NewWalk(lists, e, l, common)))
<1> DEFINE n == Len(below)
           marked == AllMarked(below, l)
           top == NewWalk(lists, e, l, common)
           after == [cursors EXCEPT ![l] = 1]
           walks == Append(marked, top)
<1>1. n \in Nat /\ \A i \in 1 .. n : below[i] \in Walk /\ below[i].list \in Lists
    <2>1. n \in Nat /\ \A i \in 1 .. n : below[i] \in Walk
        OBVIOUS
    <2> QED BY <2>1 DEF Walk
<1>2. /\ marked \in Seq(Walk) /\ Len(marked) = n
      /\ \A i \in 1 .. n : marked[i] = Marked(below[i], l)
    BY AllMarkedWalks
<1>3. \A i \in 1 .. n :
        /\ marked[i].list = below[i].list /\ marked[i].calls = below[i].calls
    BY <1>1, <1>2, MarkedWalk
<1>4. \A i \in 1 .. n :
        marked[i].raisedInside <=> (below[i].raisedInside \/ below[i].list = l)
    BY <1>1, <1>2, MarkedWalk
<1>5. top \in Walk /\ top.list = l /\ CursorOf(top) = 1 /\ Began(lists[l], top.calls)
    BY NewWalkIsWalk
<1>7. after \in [Lists -> Nat] /\ after[l] = 1 /\ \A x \in Lists : x # l => after[x] = cursors[x]
    OBVIOUS
<1> HIDE DEF n, marked, top, after
<1>6. /\ walks \in Seq(Walk) /\ Len(walks) = n + 1
      /\ walks[n + 1] = top
      /\ \A i \in 1 .. n : walks[i] = marked[i]
    BY <1>1, <1>2, <1>5
<1> HIDE DEF walks
<1>10. WalksBegan(lists, walks)
    <2> SUFFICES ASSUME NEW i \in 1 .. n + 1 PROVE Began(lists[walks[i].list], walks[i].calls)
        BY <1>6 DEF WalksBegan
    <2>1. CASE i = n + 1
        BY <2>1, <1>5, <1>6
    <2>2. CASE i \in 1 .. n
        BY <2>2, <1>3, <1>6 DEF WalksFit, WalksBegan, n
    <2> QED BY <2>1, <2>2, <1>1
<1>11. CursorsFit(after, walks)
    <2> SUFFICES ASSUME NEW i \in 1 .. n + 1, Innermost(walks, i)
                 PROVE  after[walks[i].list] = CursorOf(walks[i])
        BY <1>6 DEF CursorsFit
    <2>1. CASE i = n + 1
        BY <2>1, <1>5, <1>6, <1>7
    <2>2. CASE i \in 1 .. n
        <3>1. n + 1 \in 1 .. n + 1 /\ n + 1 > i
            BY <2>2, <1>1
        <3>2. below[i].list # l
            BY <2>2, <3>1, <1>3, <1>5, <1>6 DEF Innermost
        <3>3. Innermost(below, i)
            BY <2>2, <1>1, <1>3, <1>6 DEF Innermost, n
        <3>4. cursors[below[i].list] = CursorOf(below[i])
            BY <2>2, <3>3 DEF WalksFit, CursorsFit, n
        <3>5. marked[i].raisedInside <=> below[i].raisedInside
            BY <2>2, <3>2, <1>4
        <3>6. CursorOf(walks[i]) = CursorOf(below[i])
            BY <2>2, <3>5, <1>3, <1>6 DEF CursorOf
        <3>7. walks[i].list = below[i].list /\ below[i].list \in Lists
            BY <2>2, <1>1, <1>3, <1>6
        <3> QED BY <3>2, <3>4, <3>6, <3>7, <1>7
    <2> QED BY <2>1, <2>2, <1>1
<1>12. OuterKnow(walks)
    <2> SUFFICES ASSUME NEW i \in 1 .. n + 1, NEW j \in 1 .. n + 1, i < j,
                        walks[i].list = walks[j].list
                 PROVE  walks[i].raisedInside
        BY <1>6 DEF OuterKnow
    <2>0. i \in 1 .. n /\ (j \in 1 .. n \/ j = n + 1)
        BY <1>1
    <2>1. CASE j = n + 1
        BY <2>0, <2>1, <1>3, <1>4, <1>5, <1>6
    <2>2. CASE j \in 1 .. n
        <3>1. below[i].list = below[j].list
            BY <2>0, <2>2, <1>3, <1>6
        <3>2. below[i].raisedInside
            BY <2>0, <2>2, <3>1 DEF WalksFit, OuterKnow, n
        <3> QED BY <2>0, <3>2, <1>4, <1>6
    <2> QED BY <2>0, <2>1, <2>2
<1> QED BY <1>6, <1>7, <1>10, <1>11, <1>12 DEF WalksFit, walks, after, marked, top

-------------------------------------------------------------------------------
(* A walk ends. *)

\* The walks that are left find the cursor of the list at the end.
LEMMA EndFits ==
    ASSUME NEW lists \in [Lists -> Seq(Callbacks)],
           NEW cursors \in [Lists -> Nat],
           NEW walks \in Seq(Walk), walks # <<>>,
           WalksFit(lists, cursors, walks)
    PROVE  /\ [cursors EXCEPT ![walks[Len(walks)].list] = End] \in [Lists -> Nat]
           /\ SubSeq(walks, 1, Len(walks) - 1) \in Seq(Walk)
           /\ WalksFit(lists, [cursors EXCEPT ![walks[Len(walks)].list] = End],
                       SubSeq(walks, 1, Len(walks) - 1))
<1> DEFINE below == SubSeq(walks, 1, Len(walks) - 1)
           after == [cursors EXCEPT ![walks[Len(walks)].list] = End]
           n == Len(walks)
           l == walks[n].list
<1>1. n \in Nat /\ n >= 1 /\ \A i \in 1 .. n : walks[i] \in Walk
    OBVIOUS
<1>2. /\ below \in Seq(Walk) /\ Len(below) = n - 1
      /\ \A i \in 1 .. n - 1 : below[i] = walks[i]
    <2>1. below = SubSeq(walks, 1, n - 1) /\ walks \in Seq(Walk) /\ n = Len(walks)
        OBVIOUS
    <2> HIDE DEF n, below
    <2>2. below = [i \in 1 .. n - 1 |-> walks[i]]
        BY <1>1, <2>1
    <2> QED BY <1>1, <2>2
<1>3. \A i \in 1 .. n : walks[i].list \in Lists
    BY <1>1 DEF Walk
<1>4. /\ after \in [Lists -> Nat] /\ after[l] = End
      /\ \A x \in Lists : x # l => after[x] = cursors[x]
    BY <1>1, <1>3 DEF End
<1> HIDE DEF n, l, below, after
<1>5. WalksBegan(lists, below)
    <2> SUFFICES ASSUME NEW i \in 1 .. n - 1
                 PROVE  Began(lists[walks[i].list], walks[i].calls)
        BY <1>2 DEF WalksBegan
    <2>1. i \in 1 .. n
        BY <1>1
    <2> QED BY <2>1 DEF WalksFit, WalksBegan, n
<1>6. OuterKnow(below)
    BY <1>1, <1>2 DEF WalksFit, OuterKnow, n
<1>7. CursorsFit(after, below)
    <2> SUFFICES ASSUME NEW i \in 1 .. n - 1, Innermost(below, i)
                 PROVE  after[below[i].list] = CursorOf(below[i])
        BY <1>2 DEF CursorsFit
    <2>0. i \in 1 .. n /\ i < n /\ n \in 1 .. n
        BY <1>1
    <2>1. CASE walks[i].list = l
        <3>1. walks[i].raisedInside
            BY <2>0, <2>1 DEF WalksFit, OuterKnow, n, l
        <3> QED BY <2>1, <3>1, <1>2, <1>4 DEF CursorOf
    <2>2. CASE walks[i].list # l
        <3>1. \A j \in 1 .. n - 1 : j > i => walks[j].list # walks[i].list
            BY <2>0, <1>2 DEF Innermost
        <3>2. \A j \in 1 .. n : j \in 1 .. n - 1 \/ j = n
            BY <1>1
        <3>3. \A j \in 1 .. n : j > i => walks[j].list # walks[i].list
            BY <2>2, <3>1, <3>2 DEF l
        <3>4. Innermost(walks, i)
            BY <3>3 DEF Innermost, n
        <3>5. cursors[walks[i].list] = CursorOf(walks[i])
            BY <2>0, <3>4 DEF WalksFit, CursorsFit, n
        <3> QED BY <2>0, <2>2, <3>5, <1>2, <1>3, <1>4
    <2> QED BY <2>1, <2>2
<1> QED BY <1>2, <1>4, <1>5, <1>6, <1>7 DEF WalksFit, below, after

-------------------------------------------------------------------------------
(* The actions. *)

LEMMA Begin == Init => IInv
<1> SUFFICES ASSUME Init PROVE IInv
    OBVIOUS
<1>1. Typed
    BY DEF Init, Typed, End
<1>2. stack = <<>> /\ Len(stack) = 0
    BY DEF Init
<1>3. WalksFit(mtObjConfigList, mCurIter, stack)
    BY <1>2 DEF WalksFit, WalksBegan, CursorsFit, OuterKnow
<1> QED BY <1>1, <1>3 DEF IInv, Init, ListsFilled

\* The list of an event that has one.
LEMMA FoundList ==
    ASSUME IInv, NEW e \in Events \cup {Common}, eventInfoMap[e] # NoList
    PROVE  eventInfoMap[e] \in Lists /\ Len(mtObjConfigList[eventInfoMap[e]]) > 0
BY DEF IInv, Typed, ListsFilled

LEMMA DoEventKeeps ==
    ASSUME IInv, NEW e \in Events, DoEvent(e)
    PROVE  IInv'
<1>1. PICK x \in Events \cup {Common}, common \in BOOLEAN :
        eventInfoMap[x] # NoList /\ Start(mCurIter, stack, e, eventInfoMap[x], common)
    BY DEF DoEvent, OwnList
<1> DEFINE l == eventInfoMap[x]
           after == [mCurIter EXCEPT ![l] = 1]
           walks == Append(AllMarked(stack, l), NewWalk(mtObjConfigList, e, l, common))
<1>2. l \in Lists /\ Len(mtObjConfigList[l]) > 0
    BY <1>1, FoundList
<1>3. /\ mCurIter' = after /\ stack' = walks
      /\ UNCHANGED <<mtObjConfigList, eventInfoMap>>
    BY <1>1 DEF Start, DoEvent, AllMarked, Marked, NewWalk
<1> HIDE DEF l
<1>4. /\ after \in [Lists -> Nat] /\ walks \in Seq(Walk)
      /\ WalksFit(mtObjConfigList, after, walks)
    BY <1>2, StartFits DEF IInv, Typed
<1> QED BY <1>3, <1>4 DEF IInv, Typed, ListsFilled

LEMMA WalkedLists ==
    ASSUME IInv
    PROVE  /\ DOMAIN stack = 1 .. Len(stack)
           /\ \A i \in 1 .. Len(stack) : stack[i].list \in Lists
<1>1. stack \in Seq(Walk)
    BY DEF IInv, Typed
<1>2. \A i \in 1 .. Len(stack) : stack[i] \in Walk
    BY <1>1
<1> QED BY <1>1, <1>2 DEF Walk

\* A walk whose cursor is not at the end was not interrupted.
LEMMA TopCursor ==
    ASSUME IInv, stack # <<>>
    PROVE  /\ Len(stack) \in Nat /\ Len(stack) >= 1
           /\ Top \in Walk /\ Top.list \in Lists /\ Top.calls \in Seq(Callbacks)
           /\ Began(mtObjConfigList[Top.list], Top.calls)
           /\ mCurIter[Top.list] = CursorOf(Top)
           /\ mtObjConfigList[Top.list] \in Seq(Callbacks)
<1>1. Len(stack) \in Nat /\ Len(stack) >= 1 /\ Top \in Walk
    BY DEF IInv, Typed, Top
<1>2. Top.list \in Lists /\ Top.calls \in Seq(Callbacks)
    BY <1>1 DEF Walk
<1>3. Len(stack) \in 1 .. Len(stack) /\ Innermost(stack, Len(stack))
    BY <1>1 DEF Innermost
<1>4. Began(mtObjConfigList[Top.list], Top.calls) /\ mCurIter[Top.list] = CursorOf(Top)
    BY <1>3 DEF IInv, WalksFit, WalksBegan, CursorsFit, Top
<1> QED BY <1>1, <1>2, <1>4 DEF IInv, Typed

LEMMA CallbackReturnsKeeps ==
    ASSUME IInv, CallbackReturns
    PROVE  IInv'
<1> DEFINE n == Len(stack)
           l == Top.list
           list == mtObjConfigList[l]
           c == Len(Top.calls)
<1>1. /\ stack # <<>> /\ NextOf(l) # End
      /\ mCurIter' = [mCurIter EXCEPT ![l] = NextOf(l)]
      /\ stack' = [stack EXCEPT ![n].calls = Append(@, list[NextOf(l)])]
      /\ UNCHANGED <<mtObjConfigList, eventInfoMap>>
    BY DEF CallbackReturns
<1>2. /\ n \in Nat /\ n >= 1 /\ Top \in Walk /\ l \in Lists /\ Top.calls \in Seq(Callbacks)
      /\ Began(list, Top.calls) /\ mCurIter[l] = CursorOf(Top) /\ list \in Seq(Callbacks)
    BY <1>1, TopCursor
<1>3. ~Top.raisedInside /\ mCurIter[l] = c
    BY <1>1, <1>2 DEF NextOf, CursorOf
<1>4. c \in Nat /\ c < Len(list) /\ NextOf(l) = c + 1
    BY <1>1, <1>2, <1>3 DEF NextOf, Began
<1>5. list[c + 1] \in Callbacks
    BY <1>2, <1>4
<1> DEFINE calls == Append(Top.calls, list[c + 1])
           walk == [Top EXCEPT !.calls = calls]
<1>6. /\ calls \in Seq(Callbacks) /\ Len(calls) = c + 1
      /\ calls[c + 1] = list[c + 1] /\ \A k \in 1 .. c : calls[k] = Top.calls[k]
    BY <1>2, <1>4, <1>5
<1>7. Began(list, calls)
    BY <1>2, <1>4, <1>6 DEF Began
<1> HIDE DEF calls
<1>8. /\ walk \in Walk /\ walk.list = l /\ walk.calls = calls
      /\ walk.raisedInside = Top.raisedInside
    BY <1>2, <1>6 DEF Walk
<1>9. /\ stack' \in Seq(Walk) /\ Len(stack') = n /\ stack'[n] = walk
      /\ \A i \in 1 .. n : i # n => stack'[i] = stack[i]
    <2>1. stack \in Seq(Walk) /\ n = Len(stack) /\ Top = stack[n]
        BY DEF IInv, Typed, Top
    <2>2. stack' = [stack EXCEPT ![n] = walk]
        BY <1>1, <1>4, <2>1 DEF calls
    <2> HIDE DEF walk, n
    <2> QED BY <1>2, <1>8, <2>1, <2>2
<1>10. /\ mCurIter' \in [Lists -> Nat] /\ mCurIter'[l] = c + 1
       /\ \A x \in Lists : x # l => mCurIter'[x] = mCurIter[x]
    BY <1>1, <1>2, <1>4 DEF IInv, Typed
<1>11. \A i \in 1 .. n : stack'[i].list = stack[i].list /\ stack'[i].raisedInside = stack[i].raisedInside
    BY <1>2, <1>8, <1>9 DEF Top
<1>12. \A i \in 1 .. n : stack[i].list \in Lists
    BY WalkedLists
<1> HIDE DEF walk, list, c, l, n
<1>13. WalksBegan(mtObjConfigList, stack')
    BY <1>2, <1>7, <1>8, <1>9 DEF IInv, WalksFit, WalksBegan, list, n
<1>14. CursorsFit(mCurIter', stack')
    <2> SUFFICES ASSUME NEW i \in 1 .. n, Innermost(stack', i)
                 PROVE  mCurIter'[stack'[i].list] = CursorOf(stack'[i])
        BY <1>9 DEF CursorsFit
    <2>1. CASE i = n
        BY <2>1, <1>3, <1>6, <1>8, <1>9, <1>10 DEF CursorOf
    <2>2. CASE i # n
        <3>1. n \in 1 .. n /\ n > i /\ stack[n].list = l
            BY <1>2, <2>2 DEF l, Top, n
        <3>2. stack[i].list # l /\ Innermost(stack, i)
            BY <1>9, <1>11, <3>1 DEF Innermost, n
        <3>3. mCurIter[stack[i].list] = CursorOf(stack[i])
            BY <3>2 DEF IInv, WalksFit, CursorsFit, n
        <3> QED BY <2>2, <3>2, <3>3, <1>9, <1>10, <1>12
    <2> QED BY <2>1, <2>2
<1>15. OuterKnow(stack')
    BY <1>9, <1>11 DEF IInv, WalksFit, OuterKnow, n
<1> QED BY <1>1, <1>9, <1>10, <1>13, <1>14, <1>15 DEF IInv, Typed, ListsFilled, WalksFit

LEMMA LastCallbackReturnsKeeps ==
    ASSUME IInv, LastCallbackReturns
    PROVE  IInv'
<1> DEFINE below == SubSeq(stack, 1, Len(stack) - 1)
           cursors == [mCurIter EXCEPT ![Top.list] = End]
<1>1. stack # <<>> /\ UNCHANGED <<mtObjConfigList, eventInfoMap>>
    BY DEF LastCallbackReturns
<1>2. /\ cursors \in [Lists -> Nat] /\ below \in Seq(Walk)
      /\ WalksFit(mtObjConfigList, cursors, below)
    <2>1. /\ mtObjConfigList \in [Lists -> Seq(Callbacks)] /\ mCurIter \in [Lists -> Nat]
          /\ stack \in Seq(Walk) /\ WalksFit(mtObjConfigList, mCurIter, stack)
        BY DEF IInv, Typed
    <2> QED BY <1>1, <2>1, EndFits DEF Top
<1>3. Top.event \in Events
    BY <1>1, TopCursor DEF Walk
<1>4. CASE Top.common /\ OwnList(Top.event)
    <2> DEFINE e == Top.event
               l == eventInfoMap[e]
               after == [cursors EXCEPT ![l] = 1]
               walks == Append(AllMarked(below, l), NewWalk(mtObjConfigList, e, l, FALSE))
    <2>1. mCurIter' = after /\ stack' = walks
        BY <1>4 DEF LastCallbackReturns, Start, AllMarked, Marked, NewWalk
    <2>2. l \in Lists /\ Len(mtObjConfigList[l]) > 0
        BY <1>3, <1>4, FoundList DEF OwnList
    <2> HIDE DEF below, cursors, e, l
    <2>3. /\ after \in [Lists -> Nat] /\ walks \in Seq(Walk)
          /\ WalksFit(mtObjConfigList, after, walks)
        BY <1>2, <1>3, <2>2, StartFits DEF IInv, Typed, e
    <2> QED BY <1>1, <2>1, <2>3 DEF IInv, Typed, ListsFilled
<1>5. CASE ~(Top.common /\ OwnList(Top.event))
    <2>1. mCurIter' = cursors /\ stack' = below
        BY <1>5 DEF LastCallbackReturns
    <2> QED BY <1>1, <1>2, <2>1 DEF IInv, Typed, ListsFilled
<1> QED BY <1>4, <1>5

\* A callback goes behind those that are there, or into a list nobody walks.
LEMMA AddKeeps ==
    ASSUME IInv, NEW e \in Events \cup {Common}, NEW cb \in Callbacks, AddEventCallBack(e, cb)
    PROVE  IInv'
<1>1. UNCHANGED <<mCurIter, stack>>
    BY DEF AddEventCallBack
<1>2. /\ mtObjConfigList' \in [Lists -> Seq(Callbacks)]
      /\ eventInfoMap' \in [Events \cup {Common} -> Lists \cup {NoList}]
      /\ ListsFilled'
      /\ \A i \in DOMAIN stack :
            /\ Len(mtObjConfigList[stack[i].list]) <= Len(mtObjConfigList'[stack[i].list])
            /\ \A k \in 1 .. Len(mtObjConfigList[stack[i].list]) :
                  mtObjConfigList'[stack[i].list][k] = mtObjConfigList[stack[i].list][k]
    <2>1. \A x \in Lists : mtObjConfigList[x] \in Seq(Callbacks)
        BY DEF IInv, Typed
    <2>2. \A i \in DOMAIN stack : stack[i].list \in Lists
        BY WalkedLists
    <2>3. CASE eventInfoMap[e] # NoList
        <3> DEFINE l == eventInfoMap[e]
        <3>1. l \in Lists
            BY <2>3 DEF IInv, Typed
        <3>2. mtObjConfigList' = [mtObjConfigList EXCEPT ![l] = Append(@, cb)]
              /\ eventInfoMap' = eventInfoMap
            BY <2>3 DEF AddEventCallBack
        <3> HIDE DEF l
        <3>3. \A x \in Lists :
                /\ mtObjConfigList'[x] \in Seq(Callbacks)
                /\ Len(mtObjConfigList[x]) <= Len(mtObjConfigList'[x])
                /\ \A k \in 1 .. Len(mtObjConfigList[x]) :
                        mtObjConfigList'[x][k] = mtObjConfigList[x][k]
            <4> SUFFICES ASSUME NEW x \in Lists
                         PROVE  /\ mtObjConfigList'[x] \in Seq(Callbacks)
                                /\ Len(mtObjConfigList[x]) <= Len(mtObjConfigList'[x])
                                /\ \A k \in 1 .. Len(mtObjConfigList[x]) :
                                        mtObjConfigList'[x][k] = mtObjConfigList[x][k]
                OBVIOUS
            <4>1. CASE x = l
                <5>1. mtObjConfigList'[x] = Append(mtObjConfigList[x], cb)
                    BY <3>2, <4>1 DEF IInv, Typed
                <5> QED BY <5>1, <2>1
            <4>2. CASE x # l
                <5>1. mtObjConfigList'[x] = mtObjConfigList[x]
                    BY <3>2, <4>2 DEF IInv, Typed
                <5> QED BY <5>1, <2>1
            <4> QED BY <4>1, <4>2
        <3>4. mtObjConfigList' \in [Lists -> Seq(Callbacks)]
            BY <3>2, <3>3 DEF IInv, Typed
        <3>5. ListsFilled'
            BY <2>1, <3>2, <3>3 DEF IInv, Typed, ListsFilled
        <3> QED BY <2>2, <3>2, <3>3, <3>4, <3>5 DEF IInv, Typed
    <2>4. CASE eventInfoMap[e] = NoList
        <3>1. PICK new \in Unused :
                /\ mtObjConfigList' = [mtObjConfigList EXCEPT ![new] = <<cb>>]
                /\ eventInfoMap' = [eventInfoMap EXCEPT ![e] = new]
            BY <2>4 DEF AddEventCallBack
        <3>2. new \in Lists /\ \A i \in DOMAIN stack : stack[i].list # new
            BY DEF Unused
        <3>3. <<cb>> \in Seq(Callbacks) /\ Len(<<cb>>) > 0
            OBVIOUS
        <3>4. /\ mtObjConfigList' \in [Lists -> Seq(Callbacks)]
              /\ mtObjConfigList'[new] = <<cb>>
              /\ \A x \in Lists : x # new => mtObjConfigList'[x] = mtObjConfigList[x]
            BY <3>1, <3>2, <3>3 DEF IInv, Typed
        <3>5. /\ eventInfoMap' \in [Events \cup {Common} -> Lists \cup {NoList}]
              /\ eventInfoMap'[e] = new
              /\ \A x \in Events \cup {Common} : x # e => eventInfoMap'[x] = eventInfoMap[x]
            BY <3>1, <3>2 DEF IInv, Typed
        <3>6. ListsFilled'
            BY <3>3, <3>4, <3>5 DEF IInv, Typed, ListsFilled
        <3>7. \A i \in DOMAIN stack : mtObjConfigList'[stack[i].list] = mtObjConfigList[stack[i].list]
            BY <2>2, <3>2, <3>4
        <3>8. \A i \in DOMAIN stack : Len(mtObjConfigList[stack[i].list]) \in Nat
            BY <2>1, <2>2
        <3> QED BY <3>4, <3>5, <3>6, <3>7, <3>8
    <2> QED BY <2>3, <2>4
<1>3. WalksBegan(mtObjConfigList', stack)
    <2> SUFFICES ASSUME NEW i \in 1 .. Len(stack)
                 PROVE  Began(mtObjConfigList'[stack[i].list], stack[i].calls)
        BY DEF WalksBegan
    <2>1. i \in DOMAIN stack /\ stack[i] \in Walk
        BY DEF IInv, Typed
    <2>2. /\ stack[i].calls \in Seq(Callbacks)
          /\ mtObjConfigList[stack[i].list] \in Seq(Callbacks)
          /\ mtObjConfigList'[stack[i].list] \in Seq(Callbacks)
        BY <1>2, <2>1 DEF IInv, Typed, Walk
    <2>3. Began(mtObjConfigList[stack[i].list], stack[i].calls)
        BY DEF IInv, WalksFit, WalksBegan
    <2> QED BY <1>2, <2>1, <2>2, <2>3 DEF Began
<1> QED BY <1>1, <1>2, <1>3 DEF IInv, Typed, WalksFit

LEMMA StepKeeps ==
    ASSUME IInv, [Next]_vars
    PROVE  IInv'
<1>1. CASE \E e \in Events : DoEvent(e)
    BY <1>1, DoEventKeeps
<1>2. CASE \E e \in Events : RemoveEventCallBack(e)
    <2>1. PICK e \in Events : RemoveEventCallBack(e)
        BY <1>2
    <2>2. /\ eventInfoMap' \in [Events \cup {Common} -> Lists \cup {NoList}]
          /\ UNCHANGED <<mtObjConfigList, mCurIter, stack>>
          /\ \A x \in Events \cup {Common} : eventInfoMap'[x] \in {eventInfoMap[x], NoList}
        BY <2>1 DEF RemoveEventCallBack, IInv, Typed
    <2> QED BY <2>2 DEF IInv, Typed, ListsFilled
<1>3. CASE \E e \in Events \cup {Common}, cb \in Callbacks : AddEventCallBack(e, cb)
    BY <1>3, AddKeeps
<1>4. CASE CallbackReturns
    BY <1>4, CallbackReturnsKeeps
<1>5. CASE LastCallbackReturns
    BY <1>5, LastCallbackReturnsKeeps
<1>6. CASE DestroyObject
    <2>1. /\ eventInfoMap' \in [Events \cup {Common} -> Lists \cup {NoList}]
          /\ UNCHANGED <<mtObjConfigList, mCurIter, stack>>
          /\ \A x \in Events \cup {Common} : eventInfoMap'[x] \in {eventInfoMap[x], NoList}
        BY <1>6 DEF DestroyObject, IInv, Typed
    <2> QED BY <2>1 DEF IInv, Typed, ListsFilled
<1>7. CASE UNCHANGED vars
    BY <1>7 DEF vars, IInv, Typed, ListsFilled
<1> QED BY <1>1, <1>2, <1>3, <1>4, <1>5, <1>6, <1>7 DEF Next

-------------------------------------------------------------------------------
(* The walk that ends. *)

\* Only LastCallbackReturns ends a walk: all else leaves it on the stack.
LEMMA OnlyTheLastEnds ==
    ASSUME IInv, [Next]_vars, WalkEnds
    PROVE  LastCallbackReturns
<1>1. stack # <<>> /\ Len(stack) \in Nat /\ Len(stack) >= 1
    BY TopCursor DEF WalkEnds
<1>2. CASE \E e \in Events : DoEvent(e)
    <2>1. PICK e \in Events : DoEvent(e)
        BY <1>2
    <2>2. PICK l, c : Start(mCurIter, stack, e, l, c)
        BY <2>1 DEF DoEvent
    <2>3. stack' = Append(AllMarked(stack, l), NewWalk(mtObjConfigList, e, l, c))
        BY <2>2 DEF Start, AllMarked, Marked, NewWalk
    <2>4. stack \in Seq(Walk) /\ Top = stack[Len(stack)] /\ Top \in Walk
        BY <1>1, TopCursor DEF IInv, Typed, Top
    <2>5. /\ AllMarked(stack, l) \in Seq(Walk) /\ Len(AllMarked(stack, l)) = Len(stack)
          /\ AllMarked(stack, l)[Len(stack)] = Marked(Top, l)
        BY <1>1, <2>4, AllMarkedWalks
    <2>6. Marked(Top, l).list = Top.list
        BY <2>4, MarkedWalk
    <2>7. Len(stack') = Len(stack) + 1 /\ stack'[Len(stack)] = Marked(Top, l)
        BY <1>1, <2>3, <2>5
    <2> QED BY <1>1, <2>6, <2>7 DEF WalkEnds
<1>3. CASE CallbackReturns
    <2>1. stack' = [stack EXCEPT ![Len(stack)].calls =
                        Append(@, mtObjConfigList[Top.list][NextOf(Top.list)])]
        BY <1>3 DEF CallbackReturns
    <2>2. stack[Len(stack)] \in Walk /\ stack \in Seq(Walk)
        BY <1>1 DEF IInv, Typed
    <2>3. Len(stack') = Len(stack) /\ stack'[Len(stack)].list = Top.list
        BY <1>1, <2>1, <2>2 DEF Top, Walk
    <2> QED BY <1>1, <2>3 DEF WalkEnds
<1>4. CASE UNCHANGED stack
    BY <1>1, <1>4 DEF WalkEnds, Top
<1>5. CASE LastCallbackReturns
    BY <1>5
<1> QED BY <1>2, <1>3, <1>4, <1>5 DEF Next, vars, RemoveEventCallBack, AddEventCallBack, DestroyObject

\* What CallsInOrder says of a step.
OrderedStep ==
    WalkEnds =>
        LET list == mtObjConfigList[Top.list]
            n == Len(Top.calls) IN
        /\ n <= Len(list) /\ Top.calls = SubSeq(list, 1, n)
        /\ n < Len(list) => Top.raisedInside

LEMMA StepOrdered ==
    ASSUME IInv, [Next]_vars
    PROVE  OrderedStep
<1> SUFFICES ASSUME WalkEnds
             PROVE  /\ Len(Top.calls) <= Len(mtObjConfigList[Top.list])
                    /\ Top.calls = SubSeq(mtObjConfigList[Top.list], 1, Len(Top.calls))
                    /\ Len(Top.calls) < Len(mtObjConfigList[Top.list]) => Top.raisedInside
    BY DEF OrderedStep
<1>1. LastCallbackReturns
    BY OnlyTheLastEnds
<1>2. stack # <<>> /\ NextOf(Top.list) = End
    BY <1>1 DEF LastCallbackReturns
<1> DEFINE list == mtObjConfigList[Top.list]
           calls == Top.calls
<1>3. /\ list \in Seq(Callbacks) /\ calls \in Seq(Callbacks)
      /\ Began(list, calls) /\ mCurIter[Top.list] = CursorOf(Top)
    BY <1>2, TopCursor
<1>4. Len(calls) \in Nat /\ Len(list) \in Nat
    BY <1>3
<1>5. Len(calls) < Len(list) => Top.raisedInside
    BY <1>2, <1>3, <1>4 DEF NextOf, CursorOf, End, Began
<1> HIDE DEF list, calls
<1>6. calls = SubSeq(list, 1, Len(calls))
    BY <1>3, <1>4 DEF Began
<1> QED BY <1>3, <1>5, <1>6 DEF Began, list, calls

\* An event calls its callbacks in the order in which they were added, each once, and
\* leaves callbacks out only for a walk over the same list that was raised inside it
\* (NFEventModule::DoEvent with the cursor of NFList).
THEOREM InOrder == Spec => CallsInOrder
<1>1. Init => IInv
    BY Begin
<1>2. IInv /\ [Next]_vars => IInv'
    BY StepKeeps
<1>3. IInv /\ [Next]_vars => OrderedStep
    BY StepOrdered
<1>4. Spec => [][OrderedStep]_vars
    BY <1>1, <1>2, <1>3, PTL DEF Spec
<1> QED BY <1>4 DEF CallsInOrder, OrderedStep
===============================================================================
