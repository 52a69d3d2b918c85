---------------------------- MODULE NetClientProofs ----------------------------
(***************************************************************************)
(* Proofs about ConsistentHash and NetClient, for any servers, any hashes  *)
(* and any virtual nodes, colliding ones included.                         *)
(*                                                                         *)
(* Every virtual node on the circle is of a listed server, and a listed    *)
(* server has those of its nodes that are nobody else's (NodesOfListed).   *)
(* That, with a socket that is closed or not there whenever the link's     *)
(* state says so (SocketsFit), gives what is promised of the choice of a   *)
(* server for a key. The walk of a frame goes on because the iterator,     *)
(* while a link is executed, is at that link or at the end (WalkFits).     *)
(***************************************************************************)
EXTENDS NetClient, WellFoundedInduction, TLAPS

\* The circle has nodes of listed servers only, each at one of its own hashes, and
\* all those that no other server could have.
NodesOfListed ==
    /\ \A h \in Slots : mxNodes[h] # Nobody =>
            mxNodes[h] \in mObjectList /\ h \in Points[mxNodes[h]]
    /\ \A s \in mObjectList : \A h \in OwnPoints(s) : mxNodes[h] = s

\* A link that is not connected or connecting has no socket, or a closed one.
SocketsFit ==
    \A s \in Servers : eState[s] \in {"none", "DISCONNECT", "RECONNECT"} =>
        mxNetModule[s] \in {"null", "closed"}

\* Handlers and callbacks leave the iterator at the link they are called for, or at
\* the end.
WalkFits ==
    pc = "inside" => executing \in Servers /\ mObjectCurIter \in {executing, End}

Inv == TypeOK /\ SocketsFit /\ ListedServersWork /\ NodesOfListed /\ WalkFits

-------------------------------------------------------------------------------
(* The circle. *)

\* A set of numbers that is not empty has a lowest one.
LEMMA LowestExists ==
    ASSUME NEW hashes \in SUBSET Nat, hashes # {}
    PROVE  /\ LowestOf(hashes) \in hashes
           /\ \A g \in hashes : LowestOf(hashes) <= g
<1> DEFINE R == {ss \in Nat \X Nat : ss[1] < ss[2]}
<1>1. hashes \subseteq Nat
  OBVIOUS
<1>2. \A g, h \in Nat : <<g, h>> \in R <=> g < h
  OBVIOUS
<1>3. IsWellFoundedOn(R, Nat)
  BY NatLessThanWellFounded DEF OpToRel
<1> HIDE DEF R
<1>4. PICK h \in hashes : \A g \in hashes : ~(<<g, h>> \in R)
  BY <1>1, <1>3, WFMin
<1>5. \E x \in hashes : \A g \in hashes : x <= g
  <2>1. ASSUME NEW g \in hashes PROVE h <= g
    <3>1. g \in Nat /\ h \in Nat
      BY <1>1
    <3>2. ~(g < h)
      BY <1>2, <1>4, <3>1
    <3> QED
      BY <3>1, <3>2
  <2> QED
    BY <1>4, <2>1
<1> QED
  BY <1>5 DEF LowestOf

\* So has a set of servers.
LEMMA LowestServer ==
    ASSUME NEW set \in SUBSET Servers, set # {}
    PROVE  LowestOf(set) \in Servers
<1>1. set \in SUBSET Nat
  BY ServersAssumption
<1> QED
  BY <1>1, LowestExists

\* The slot that is chosen for a key when the given ones are held.
SlotAmong(held, k) ==
    LET onwards == {h \in held : k <= h}
    IN LowestOf(IF onwards = {} THEN held ELSE onwards)

\* It is the lowest from the key onwards, or of all if there is none.
LEMMA Choice ==
    ASSUME NEW held \in SUBSET Slots, held # {}, NEW k \in Slots
    PROVE  /\ SlotAmong(held, k) \in held
           /\ \A h \in held : k <= h => k <= SlotAmong(held, k) /\ SlotAmong(held, k) <= h
           /\ ~(k <= SlotAmong(held, k)) => \A h \in held : SlotAmong(held, k) <= h
<1> DEFINE onwards == {h \in held : k <= h}
           a == SlotAmong(held, k)
<1>1. held \in SUBSET Nat /\ onwards \in SUBSET Nat
  BY SlotsAssumption
<1>2. CASE onwards = {}
  <2>1. a = LowestOf(held)
    BY <1>2 DEF SlotAmong
  <2> QED
    BY <1>1, <1>2, <2>1, LowestExists
<1>3. CASE onwards # {}
  <2>1. a = LowestOf(onwards)
    BY <1>3 DEF SlotAmong
  <2>2. a \in onwards /\ \A h \in onwards : a <= h
    BY <1>1, <1>3, <2>1, LowestExists
  <2> QED
    BY <2>2
<1> QED
  BY <1>2, <1>3

\* So the slot of a key is held.
LEMMA SlotIsHeld == ASSUME Held # {}, NEW k \in Slots PROVE SuitSlot(k) \in Held
<1>1. SuitSlot(k) = SlotAmong(Held, k)
  BY DEF SuitSlot, SlotAmong
<1>2. Held \in SUBSET Slots
  BY DEF Held
<1>3. SlotAmong(Held, k) \in Held
  BY <1>2, Choice
<1> QED
  BY <1>1, <1>3

\* Between two circles, the slot of a key goes only to a hash that was not held, or
\* away from one that is not held any more.
LEMMA SlotStays ==
    ASSUME Held # {}, Held' # {}, NEW k \in Slots,
           SuitSlot(k) \in Held', SuitSlot(k)' \in Held
    PROVE  SuitSlot(k)' = SuitSlot(k)
<1> DEFINE a == SlotAmong(Held, k)
           b == SlotAmong(Held', k)
<1>0. SuitSlot(k) = a /\ SuitSlot(k)' = b
  BY DEF SuitSlot, SlotAmong
<1>01. Held \in SUBSET Slots /\ Held' \in SUBSET Slots
  BY DEF Held
<1>1. /\ a \in Held
      /\ \A h \in Held : k <= h => k <= a /\ a <= h
      /\ ~(k <= a) => \A h \in Held : a <= h
  BY <1>01, Choice
<1>2. /\ b \in Held'
      /\ \A h \in Held' : k <= h => k <= b /\ b <= h
      /\ ~(k <= b) => \A h \in Held' : b <= h
  BY <1>01, Choice
<1> HIDE DEF a, b
<1>3. k \in Nat /\ Held \subseteq Nat
  BY SlotsAssumption DEF Held
<1>4. a \in Nat /\ b \in Nat
  BY <1>0, <1>1, <1>3
<1>5. a \in Held' /\ b \in Held
  BY <1>0
<1>6. a <= b /\ b <= a
  BY <1>1, <1>2, <1>3, <1>4, <1>5
<1>7. a = b
  BY <1>4, <1>6
<1> QED
  BY <1>0, <1>7

\* AddElement and RemoveElement, of a server that is in the map or is not, keep the
\* nodes on the circle those of the listed servers.
LEMMA AddKeepsNodes ==
    ASSUME HashTypeOK, NodesOfListed, NEW s \in Servers, AddElement(s)
    PROVE  HashTypeOK' /\ NodesOfListed'
<1>1. CASE s \in mObjectList
  BY <1>1 DEF AddElement, HashTypeOK, NodesOfListed, OwnPoints
<1>2. CASE s \notin mObjectList
  <2>1. /\ mObjectList' = mObjectList \cup {s}
        /\ mxNodes' = [h \in Slots |-> IF h \in Points[s] /\ mxNodes[h] = Nobody
                                       THEN s ELSE mxNodes[h]]
    BY <1>2 DEF AddElement, Insert
  <2>2. HashTypeOK'
    BY <2>1 DEF HashTypeOK
  <2>3. s # Nobody
    BY ServersAssumption DEF Nobody
  <2>4. \A h \in Slots : mxNodes'[h] # Nobody =>
            mxNodes'[h] \in mObjectList' /\ h \in Points[mxNodes'[h]]
    BY <2>1 DEF NodesOfListed
  <2>5. ASSUME NEW h \in OwnPoints(s) PROVE mxNodes'[h] = s
    <3>1. h \in Points[s] /\ h \in Slots
      BY PointsAssumption DEF OwnPoints
    <3>2. mxNodes[h] = Nobody
      <4>1. SUFFICES ASSUME mxNodes[h] # Nobody PROVE FALSE
        OBVIOUS
      <4>2. mxNodes[h] \in Servers \ {s} /\ h \in Points[mxNodes[h]]
        BY <1>2, <3>1, <4>1 DEF NodesOfListed, HashTypeOK
      <4> QED
        BY <4>2 DEF OwnPoints
    <3> QED
      BY <2>1, <3>1, <3>2
  <2>6. \A t \in mObjectList : \A h \in OwnPoints(t) : mxNodes'[h] = t
    <3>1. \A t \in mObjectList : t \in Servers /\ t # Nobody
      BY ServersAssumption DEF HashTypeOK, Nobody
    <3>2. \A t \in mObjectList : \A h \in OwnPoints(t) : h \in Slots /\ mxNodes[h] = t
      BY <3>1, PointsAssumption DEF OwnPoints, NodesOfListed
    <3> QED
      BY <2>1, <3>1, <3>2
  <2>7. NodesOfListed'
    BY <2>1, <2>4, <2>5, <2>6 DEF NodesOfListed, OwnPoints
  <2> QED
    BY <2>2, <2>7
<1> QED
  BY <1>1, <1>2

\* The other way round.
LEMMA RemoveKeepsNodes ==
    ASSUME HashTypeOK, NodesOfListed, NEW s \in Servers, RemoveElement(s)
    PROVE  HashTypeOK' /\ NodesOfListed'
<1>1. CASE s \notin mObjectList
  BY <1>1 DEF RemoveElement, HashTypeOK, NodesOfListed, OwnPoints
<1>2. CASE s \in mObjectList
  <2>1. /\ mObjectList' = mObjectList \ {s}
        /\ mxNodes' = [h \in Slots |-> IF h \in Points[s] THEN Nobody ELSE mxNodes[h]]
    BY <1>2 DEF RemoveElement, Erase
  <2>2. HashTypeOK'
    BY <2>1 DEF HashTypeOK
  <2>3. ASSUME NEW h \in Slots, mxNodes'[h] # Nobody
        PROVE  mxNodes'[h] \in mObjectList' /\ h \in Points[mxNodes'[h]]
    <3>1. h \notin Points[s] /\ mxNodes'[h] = mxNodes[h]
      BY <2>1, <2>3
    <3> QED
      BY <2>1, <2>3, <3>1 DEF NodesOfListed
  <2>4. ASSUME NEW t \in mObjectList', NEW h \in OwnPoints(t) PROVE mxNodes'[h] = t
    <3>1. t \in mObjectList /\ t # s /\ t \in Servers
      BY <2>1 DEF HashTypeOK
    <3>2. h \in Slots /\ h \notin Points[s] /\ mxNodes[h] = t
      BY <3>1, PointsAssumption DEF OwnPoints, NodesOfListed
    <3> QED
      BY <2>1, <3>2
  <2>5. NodesOfListed'
    BY <2>3, <2>4 DEF NodesOfListed, OwnPoints
  <2> QED
    BY <2>2, <2>5
<1> QED
  BY <1>1, <1>2

-------------------------------------------------------------------------------
(* The links. *)

\* The steps of the loop that touch neither a socket nor the circle.
QuietStep ==
    /\ UNCHANGED <<hashVars, mxNetModule, eState>>
    /\ waited' \subseteq Servers
    /\ mxTempNetList' \subseteq Servers
    /\ mObjectCurIter' \in Servers \cup {End}
    /\ pc' \in {"idle", "visit", "inside", "add"}
    /\ executing' \in Servers \cup {End}
    /\ WalkFits'

\* They keep everything.
LEMMA QuietKeeps == ASSUME Inv, QuietStep PROVE Inv'
BY DEF QuietStep, Inv, TypeOK, HashTypeOK, SocketsFit, ListedServersWork,
   NodesOfListed, OwnPoints, hashVars

\* Where the iterator goes next is a link, or the end.
LEMMA NextLinkType ==
    ASSUME NextLink
    PROVE  /\ mObjectCurIter' \in Servers \cup {End}
           /\ pc' \in {"add", "visit"}
           /\ executing' = End
           /\ WalkFits'
<1>1. ASSUME NEW s PROVE After(s) \in Servers \cup {End}
  <2> DEFINE later == {t \in mxServerMap : t > s}
  <2>1. After(s) = IF later = {} THEN End ELSE LowestOf(later)
    BY DEF After
  <2>2. later \subseteq Servers
    BY DEF mxServerMap
  <2>3. CASE later = {}
    BY <2>1, <2>3
  <2>4. CASE later # {}
    BY <2>1, <2>2, <2>4, LowestServer
  <2> QED
    BY <2>3, <2>4
<1> QED
  BY <1>1 DEF NextLink, WalkFits

\* What comes after a link has a higher id.
LEMMA AfterIsHigher ==
    ASSUME NEW s \in Servers
    PROVE  After(s) = End \/ After(s) > s
<1> DEFINE later == {t \in mxServerMap : t > s}
<1>1. After(s) = IF later = {} THEN End ELSE LowestOf(later)
  BY DEF After
<1>2. later \in SUBSET Nat
  BY ServersAssumption DEF mxServerMap
<1>3. CASE later = {}
  BY <1>1, <1>3
<1>4. CASE later # {}
  <2>1. LowestOf(later) \in later
    BY <1>2, <1>4, LowestExists
  <2> QED
    BY <1>1, <1>4, <2>1
<1> QED
  BY <1>3, <1>4

\* Every step keeps the invariant.
LEMMA InvStep == Inv /\ [Next]_vars => Inv'
<1> SUFFICES ASSUME Inv, [Next]_vars PROVE Inv'
  OBVIOUS
<1>0. /\ TypeOK /\ HashTypeOK /\ SocketsFit /\ ListedServersWork
      /\ NodesOfListed /\ WalkFits
  BY DEF Inv, TypeOK
<1>1. CASE ProcessExecute
  <2>1. mObjectCurIter' \in Servers \cup {End}
    BY <1>0, <1>1, LowestServer DEF ProcessExecute, mxServerMap, TypeOK
  <2> QED
    BY <1>0, <1>1, <2>1, QuietKeeps DEF ProcessExecute, QuietStep, linkVars, TypeOK, WalkFits
<1>2. ASSUME NEW s \in Servers, DropSocket(s) PROVE Inv'
  <2>1. /\ eState[s] = "DISCONNECT"
        /\ mxNetModule' = [mxNetModule EXCEPT ![s] = "null"]
        /\ eState' = [eState EXCEPT ![s] = "RECONNECT"]
        /\ UNCHANGED <<mObjectList, mxNodes, waited, mxTempNetList>>
    BY <1>2 DEF DropSocket, hashVars
  <2>2. TypeOK'
    BY <1>0, <1>2, <2>1, NextLinkType DEF TypeOK, HashTypeOK, DropSocket,
       ConnectDataState, SocketState
  <2>3. SocketsFit' /\ ListedServersWork'
    BY <1>0, <2>1 DEF SocketsFit, ListedServersWork, TypeOK
  <2>4. NodesOfListed' /\ WalkFits'
    BY <1>0, <1>2, <2>1, NextLinkType DEF DropSocket, NodesOfListed, OwnPoints
  <2> QED
    BY <2>2, <2>3, <2>4 DEF Inv
<1>3. ASSUME NEW s \in Servers, WaitToReconnect(s) \/ ExecuteReturns(s) PROVE Inv'
  BY <1>0, <1>3, NextLinkType, QuietKeeps
     DEF WaitToReconnect, ExecuteReturns, QuietStep, linkVars, TypeOK
<1>4. ASSUME NEW s \in Servers, Reconnect(s) PROVE Inv'
  <2>1. PICK socket \in NewSocket : mxNetModule' = [mxNetModule EXCEPT ![s] = socket]
    BY <1>4 DEF Reconnect
  <2>2. /\ eState[s] = "RECONNECT"
        /\ eState' = [eState EXCEPT ![s] = "CONNECTING"]
        /\ UNCHANGED <<mObjectList, mxNodes, waited, mxTempNetList>>
    BY <1>4 DEF Reconnect, hashVars
  <2>3. TypeOK'
    BY <1>0, <1>4, <2>1, <2>2, NextLinkType DEF TypeOK, HashTypeOK, Reconnect,
       ConnectDataState, SocketState, NewSocket
  <2>4. SocketsFit' /\ ListedServersWork'
    BY <1>0, <2>1, <2>2 DEF SocketsFit, ListedServersWork, TypeOK, NewSocket
  <2>5. NodesOfListed' /\ WalkFits'
    BY <1>0, <1>4, <2>2, NextLinkType DEF Reconnect, NodesOfListed, OwnPoints
  <2> QED
    BY <2>3, <2>4, <2>5 DEF Inv
<1>5. ASSUME NEW s \in Servers, ExecuteLink(s) PROVE Inv'
  BY <1>0, <1>5, QuietKeeps DEF ExecuteLink, QuietStep, linkVars, TypeOK, WalkFits
<1>6. ASSUME NEW s \in Servers, OnConnected(s) PROVE Inv'
  <2>1. /\ mxNetModule' = [mxNetModule EXCEPT ![s] = "open"]
        /\ eState' = [eState EXCEPT ![s] = "NORMAL"]
        /\ AddElement(s)
        /\ mObjectCurIter' = s /\ pc = "inside" /\ executing = s
        /\ UNCHANGED <<waited, pc, executing, mxTempNetList>>
    BY <1>6 DEF OnConnected, SocketOpens, GetServerNetInfo
  <2>2. HashTypeOK' /\ NodesOfListed'
    BY <1>0, <2>1, AddKeepsNodes
  <2>3. TypeOK'
    BY <1>0, <2>1, <2>2 DEF TypeOK, ConnectDataState, SocketState
  <2>4. mObjectList' = mObjectList \cup {s}
    BY <2>1 DEF AddElement
  <2>5. SocketsFit' /\ ListedServersWork' /\ WalkFits'
    BY <1>0, <2>1, <2>4 DEF SocketsFit, ListedServersWork, WalkFits, TypeOK
  <2> QED
    BY <2>2, <2>3, <2>5 DEF Inv
<1>7. ASSUME NEW s \in Servers, OnDisConnected(s) PROVE Inv'
  <2>1. /\ mxNetModule' = [mxNetModule EXCEPT ![s] = "closed"]
        /\ eState' = [eState EXCEPT ![s] = "DISCONNECT"]
        /\ RemoveElement(s)
        /\ waited' = waited \ {s}
        /\ mObjectCurIter' = s /\ pc = "inside" /\ executing = s
        /\ UNCHANGED <<pc, executing, mxTempNetList>>
    BY <1>7 DEF OnDisConnected, SocketCloses, GetServerNetInfo
  <2>2. HashTypeOK' /\ NodesOfListed'
    BY <1>0, <2>1, RemoveKeepsNodes
  <2>3. TypeOK'
    BY <1>0, <2>1, <2>2 DEF TypeOK, ConnectDataState, SocketState
  <2>4. mObjectList' = mObjectList \ {s}
    BY <2>1 DEF RemoveElement
  <2>5. SocketsFit' /\ ListedServersWork' /\ WalkFits'
    BY <1>0, <2>1, <2>4 DEF SocketsFit, ListedServersWork, WalkFits, TypeOK
  <2> QED
    BY <2>2, <2>3, <2>5 DEF Inv
<1>8. CASE ProcessAddNetConnect
  <2>1. PICK sockets \in [mxTempNetList \ mxServerMap -> NewSocket] :
          mxNetModule' = [s \in Servers |-> IF s \in DOMAIN sockets THEN sockets[s] ELSE mxNetModule[s]]
    BY <1>8 DEF ProcessAddNetConnect
  <2>2. /\ eState' = [s \in Servers |->
                    IF s \in mxTempNetList /\ eState[s] = "none" THEN "CONNECTING" ELSE eState[s]]
        /\ mxTempNetList' = {}
        /\ pc' = "idle"
        /\ UNCHANGED <<mObjectList, mxNodes, waited, mObjectCurIter, executing>>
    BY <1>8 DEF ProcessAddNetConnect, hashVars
  <2>3. \A s \in Servers : IF s \in mxTempNetList /\ eState[s] = "none"
                           THEN mxNetModule'[s] \in {"opening", "dead"} /\ eState'[s] = "CONNECTING"
                           ELSE mxNetModule'[s] = mxNetModule[s] /\ eState'[s] = eState[s]
    BY <1>0, <2>1, <2>2 DEF TypeOK, mxServerMap, NewSocket
  <2>4. TypeOK'
    BY <1>0, <2>1, <2>2, <2>3 DEF TypeOK, HashTypeOK, ConnectDataState, SocketState
  <2>5. SocketsFit' /\ ListedServersWork'
    BY <1>0, <2>2, <2>3 DEF SocketsFit, ListedServersWork
  <2>6. NodesOfListed' /\ WalkFits'
    BY <1>0, <2>2 DEF NodesOfListed, OwnPoints, WalkFits
  <2> QED
    BY <2>4, <2>5, <2>6 DEF Inv
<1>9. CASE SendToAllServer
  BY <1>0, <1>9, QuietKeeps DEF SendToAllServer, QuietStep, linkVars, TypeOK, WalkFits
<1>10. ASSUME NEW s \in Servers, AddServer(s) PROVE Inv'
  BY <1>0, <1>10, QuietKeeps DEF AddServer, QuietStep, linkVars, loopVars, TypeOK, WalkFits
<1>11. ASSUME NEW s \in Servers, TimePasses(s) PROVE Inv'
  BY <1>0, <1>11, QuietKeeps DEF TimePasses, QuietStep, loopVars, TypeOK, WalkFits
<1>12. CASE UNCHANGED vars
  BY <1>0, <1>12, QuietKeeps DEF vars, QuietStep, linkVars, loopVars, TypeOK, WalkFits
<1>13. ASSUME NEW s \in Servers, WaitToReconnect(s) PROVE Inv'
  BY <1>3, <1>13
<1>14. ASSUME NEW s \in Servers, ExecuteReturns(s) PROVE Inv'
  BY <1>3, <1>14
<1>15. CASE Execute
  BY <1>1, <1>2, <1>4, <1>5, <1>8, <1>13, <1>14, <1>15 DEF Execute
<1> QED
  BY <1>6, <1>7, <1>9, <1>10, <1>11, <1>12, <1>15 DEF Next

-------------------------------------------------------------------------------
(* The choice of a server. *)

\* As soon as there is a node, a key has the server of the node in its slot.
LEMMA ElementIs ==
    ASSUME Inv, NEW k \in Slots
    PROVE  /\ Held # {} => /\ SuitSlot(k) \in Held
                           /\ ElementBySuit(k) = mxNodes[SuitSlot(k)]
                           /\ ElementBySuit(k) \in mObjectList
           /\ Held = {} => ElementBySuit(k) = Nobody
<1>1. CASE Held = {}
  BY <1>1 DEF ElementBySuit
<1>2. CASE Held # {}
  <2>1. SuitSlot(k) \in Held
    BY <1>2, SlotIsHeld
  <2>2. mxNodes[SuitSlot(k)] \in mObjectList
    BY <2>1 DEF Held, Inv, NodesOfListed
  <2> QED
    BY <1>2, <2>1, <2>2 DEF ElementBySuit
<1> QED
  BY <1>1, <1>2

\* And after a step.
LEMMA ElementIsThen ==
    ASSUME Inv', NEW k \in Slots
    PROVE  /\ Held' # {} => /\ SuitSlot(k)' \in Held'
                            /\ ElementBySuit(k)' = mxNodes'[SuitSlot(k)']
           /\ Held' = {} => ElementBySuit(k)' = Nobody
<1>1. CASE Held' = {}
  BY <1>1 DEF ElementBySuit
<1>2. CASE Held' # {}
  <2>0. SuitSlot(k)' = SlotAmong(Held', k) /\ Held' \in SUBSET Slots
    BY DEF SuitSlot, SlotAmong, Held
  <2>1. SlotAmong(Held', k) \in Held'
    BY <1>2, <2>0, Choice
  <2>2. mxNodes'[SuitSlot(k)'] \in mObjectList'
    BY <2>0, <2>1 DEF Held, Inv, NodesOfListed
  <2> QED
    BY <1>2, <2>0, <2>1, <2>2 DEF ElementBySuit
<1> QED
  BY <1>1, <1>2

\* Whom a key is sent to is there.
LEMMA InvFindsALink == Inv => SuitFindsALink
<1> SUFFICES ASSUME Inv, NEW s \in Servers, mxNetModule[s] = "open", OwnPoints(s) # {},
                    NEW k \in Slots
             PROVE  ElementBySuit(k) \in Servers /\ mxNetModule[ElementBySuit(k)] = "open"
  BY DEF SuitFindsALink
<1>1. s \in mObjectList /\ s # Nobody
  BY ServersAssumption DEF Inv, ListedServersWork, Nobody
<1>2. PICK h \in OwnPoints(s) : TRUE
  OBVIOUS
<1>3. h \in Slots /\ mxNodes[h] = s
  BY <1>1, <1>2, PointsAssumption DEF OwnPoints, Inv, NodesOfListed
<1>4. Held # {}
  BY <1>1, <1>3 DEF Held
<1>5. ElementBySuit(k) \in mObjectList
  BY <1>4, ElementIs
<1> QED
  BY <1>5 DEF Inv, TypeOK, HashTypeOK, ListedServersWork

\* A key that changes between two servers that are both listed before and after has
\* a new server, or lost the slot it had.
KeyStays(k) ==
    LET from == ElementBySuit(k)
        to == ElementBySuit(k)' IN
    (from # to /\ from \in mObjectList /\ from \in mObjectList')
        => \/ to \in mObjectList' \ mObjectList
           \/ \E s \in mObjectList \ mObjectList' : SuitSlot(k) \in Points[s]

\* So it is for every change of the circle.
LEMMA CircleStep ==
    ASSUME Inv, Inv', NEW k \in Slots,
           \/ UNCHANGED hashVars
           \/ \E s \in Servers : AddElement(s) \/ RemoveElement(s)
    PROVE  KeyStays(k)
<1> DEFINE from == ElementBySuit(k)
           to == ElementBySuit(k)'
<1> SUFFICES ASSUME from # to, from \in mObjectList, from \in mObjectList'
             PROVE  \/ to \in mObjectList' \ mObjectList
                    \/ \E s \in mObjectList \ mObjectList' : SuitSlot(k) \in Points[s]
  BY DEF KeyStays
<1>0. /\ mxNodes \in [Slots -> Servers \cup {Nobody}]
      /\ mObjectList \subseteq Servers
      /\ Nobody \notin Servers
  BY ServersAssumption DEF Inv, TypeOK, HashTypeOK, Nobody
<1>1. /\ Held # {} /\ SuitSlot(k) \in Held
      /\ from = mxNodes[SuitSlot(k)] /\ from \in Servers
  BY <1>0, ElementIs
<1>2. SuitSlot(k) \in Slots
  BY <1>1 DEF Held
<1>3. Held' # {} => SuitSlot(k)' \in Held' /\ to = mxNodes'[SuitSlot(k)']
  BY ElementIsThen
<1>4. \A h \in Slots : h \in Held <=> mxNodes[h] # Nobody
  BY DEF Held
<1>5. \A h : h \in Held' <=> h \in Slots /\ mxNodes'[h] # Nobody
  BY DEF Held
<1> HIDE DEF from, to
<1>6. CASE mxNodes' = mxNodes
  <2>1. SuitSlot(k) \in Held' /\ SuitSlot(k)' \in Held
    BY <1>1, <1>2, <1>3, <1>4, <1>5, <1>6
  <2>2. SuitSlot(k)' = SuitSlot(k)
    BY <1>1, <2>1, SlotStays
  <2> QED
    BY <1>1, <1>3, <1>6, <2>1, <2>2
<1>7. ASSUME NEW s \in Servers, AddElement(s), s \notin mObjectList
      PROVE  to \in mObjectList' \ mObjectList
  <2>1. /\ mObjectList' = mObjectList \cup {s}
        /\ mxNodes' = [h \in Slots |-> IF h \in Points[s] /\ mxNodes[h] = Nobody
                                       THEN s ELSE mxNodes[h]]
    BY <1>7 DEF AddElement, Insert
  <2>2. SuitSlot(k) \in Held' /\ mxNodes'[SuitSlot(k)] = from
    BY <1>0, <1>1, <1>2, <1>5, <2>1
  <2>3. SuitSlot(k)' \in Held' /\ to = mxNodes'[SuitSlot(k)']
    BY <1>3, <2>2
  <2>4. SuitSlot(k)' \notin Held
    <3>1. SUFFICES ASSUME SuitSlot(k)' \in Held PROVE FALSE
      OBVIOUS
    <3>2. SuitSlot(k)' = SuitSlot(k)
      BY <1>1, <2>2, <3>1, SlotStays
    <3> QED
      BY <2>2, <2>3, <3>2
  <2>5. to = s
    BY <1>4, <1>5, <2>1, <2>3, <2>4
  <2> QED
    BY <1>7, <2>1, <2>5
<1>8. ASSUME NEW s \in Servers, RemoveElement(s), s \in mObjectList
      PROVE  s \in mObjectList \ mObjectList' /\ SuitSlot(k) \in Points[s]
  <2>1. /\ mObjectList' = mObjectList \ {s}
        /\ mxNodes' = [h \in Slots |-> IF h \in Points[s] THEN Nobody ELSE mxNodes[h]]
    BY <1>8 DEF RemoveElement, Erase
  <2>2. SUFFICES ASSUME SuitSlot(k) \notin Points[s] PROVE FALSE
    BY <1>8, <2>1
  <2>3. SuitSlot(k) \in Held' /\ mxNodes'[SuitSlot(k)] = from
    BY <1>0, <1>1, <1>2, <1>5, <2>1, <2>2
  <2>4. SuitSlot(k)' \in Held' /\ to = mxNodes'[SuitSlot(k)']
    BY <1>3, <2>3
  <2>5. SuitSlot(k)' \in Held
    BY <1>4, <1>5, <2>1, <2>4
  <2>6. SuitSlot(k)' = SuitSlot(k)
    BY <1>1, <2>3, <2>5, SlotStays
  <2> QED
    BY <2>3, <2>4, <2>6
<1>9. ASSUME NEW s \in Servers, AddElement(s) \/ RemoveElement(s)
      PROVE  \/ mxNodes' = mxNodes
             \/ AddElement(s) /\ s \notin mObjectList
             \/ RemoveElement(s) /\ s \in mObjectList
  BY <1>9 DEF AddElement, RemoveElement
<1> QED
  BY <1>6, <1>7, <1>8, <1>9 DEF hashVars

\* Only connecting and losing a connection change the circle.
LEMMA KeysStep == ASSUME Inv, Inv', [Next]_vars PROVE \A k \in Slots : KeyStays(k)
<1>1. \/ UNCHANGED hashVars
      \/ \E s \in Servers : AddElement(s) \/ RemoveElement(s)
  <2>1. CASE Execute
    BY <2>1 DEF Execute, ProcessExecute, DropSocket, WaitToReconnect, Reconnect, ExecuteLink,
       ExecuteReturns, ProcessAddNetConnect
  <2>2. CASE SendToAllServer
    BY <2>2 DEF SendToAllServer
  <2>3. ASSUME NEW s \in Servers,
               AddServer(s) \/ OnConnected(s) \/ OnDisConnected(s) \/ TimePasses(s)
        PROVE  UNCHANGED hashVars \/ AddElement(s) \/ RemoveElement(s)
    BY <2>3 DEF AddServer, OnConnected, OnDisConnected, TimePasses
  <2>4. CASE UNCHANGED vars
    BY <2>4 DEF vars
  <2> QED
    BY <2>1, <2>2, <2>3, <2>4 DEF Next
<1> QED
  BY <1>1, CircleStep

-------------------------------------------------------------------------------
(* The theorems. *)

\* At the start there is nothing.
LEMMA InitInv == Init => Inv
BY DEF Init, HashInit, Inv, TypeOK, HashTypeOK, SocketsFit, ListedServersWork,
   NodesOfListed, WalkFits, ConnectDataState, SocketState

\* The invariant and its parts hold always.
LEMMA Invariance == Spec => []Inv
BY InitInv, InvStep, PTL DEF Spec

\* The links, their sockets, the loop over them and the circle of servers have the
\* types they should have.
THEOREM TypesCorrect == Spec => []TypeOK
<1>1. Inv => TypeOK
  BY DEF Inv
<1> QED
  BY <1>1, Invariance, PTL

\* The servers listed for sending are those whose socket works, for any number of
\* them (OnConnected, OnDisConnected against conn_eventcb).
THEOREM ListedWork == Spec => []ListedServersWork
<1>1. Inv => ListedServersWork
  BY DEF Inv
<1> QED
  BY <1>1, Invariance, PTL

\* Sending by hash finds a server whose socket works for every key, whatever hashes
\* the virtual nodes have, as long as one such server has a node of its own.
THEOREM SuitFinds == Spec => []SuitFindsALink
BY InvFindsALink, Invariance, PTL

\* The key of a server that stays listed leaves it only for a server that comes, or
\* when one goes that had a node with the same hash.
THEOREM KeysKept == Spec => KeysStay
<1>1. Inv /\ Inv' /\ [Next]_vars =>
        [\A k \in Slots :
            LET from == ElementBySuit(k)
                to == ElementBySuit(k)' IN
            (from # to /\ from \in mObjectList /\ from \in mObjectList')
                => \/ to \in mObjectList' \ mObjectList
                   \/ \E s \in mObjectList \ mObjectList' : SuitSlot(k) \in Points[s]]_vars
  BY KeysStep DEF KeyStays
<1> QED
  BY <1>1, Invariance, PTL DEF Spec, KeysStay

\* A frame serves no link twice, for any number of them, whatever happens to the
\* iterator while one of them is executed (ProcessExecute against
\* SendToAllServerByPB and GetServerNetInfo).
THEOREM ServedOnce == Spec => LinksServedOnce
<1>1. Inv /\ [Next]_vars =>
        [Execute /\ pc # "idle" /\ pc' = "visit" => mObjectCurIter' > Served]_vars
  <2> SUFFICES ASSUME Inv, Execute, pc # "idle", pc' = "visit"
               PROVE  mObjectCurIter' > Served
    OBVIOUS
  <2>1. PICK s \in Servers : DropSocket(s) \/ WaitToReconnect(s) \/ Reconnect(s) \/ ExecuteReturns(s)
    BY DEF Execute, ProcessExecute, ExecuteLink, ProcessAddNetConnect
  <2>2. NextLink /\ Served = s /\ mObjectCurIter \in {s, End}
    BY <2>1 DEF DropSocket, WaitToReconnect, Reconnect, ExecuteReturns, Served, Inv, WalkFits
  <2>3. mObjectCurIter # End /\ mObjectCurIter' = After(mObjectCurIter) /\ mObjectCurIter' # End
    BY <2>2 DEF NextLink
  <2> QED
    BY <2>2, <2>3, AfterIsHigher
<1> QED
  BY <1>1, Invariance, PTL DEF Spec, LinksServedOnce
===============================================================================
