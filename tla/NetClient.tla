------------------------------- MODULE NetClient -------------------------------
(***************************************************************************)
(* NFNetClientModule: the links of one process to the servers of one type. *)
(* Each link is a ConnectData with a socket of its own (NFNet, a libevent  *)
(* client). The module executes the links one after the other, once per    *)
(* frame; what libevent reports while one is executed changes its state,   *)
(* and the circle of servers among which messages without a fixed receiver *)
(* are shared out.                                                         *)
(*                                                                         *)
(* The loop over the links keeps its place in the map's only iterator.     *)
(* Sending to all servers from a handler runs through the same map, and so *)
(* does looking for the server of a socket that reports something.         *)
(***************************************************************************)
EXTENDS ConsistentHash

VARIABLES
    eState,          \* per server: the ConnectData's state, or "none"
    mxNetModule,     \* per server: what its socket does
    waited,          \* servers not lost within the last ten seconds
    mxTempNetList,   \* servers queued by AddServer
    mObjectCurIter,  \* the iterator of mxServerMap: a server, or End
    pc,              \* where Execute is
    executing        \* the link that is being executed

linkVars == <<eState, mxNetModule, waited>>
loopVars == <<mObjectCurIter, pc, executing>>
vars == <<hashVars, linkVars, loopVars, mxTempNetList>>

ConnectDataState == {"none", "CONNECTING", "NORMAL", "DISCONNECT", "RECONNECT"}

\* A socket that failed inside Initialization is "dead": it has no NetObject
\* and libevent will never report anything of it.
SocketState == {"null", "dead", "opening", "open", "closed"}
NewSocket == {"opening", "dead"}

End == 0

TypeOK ==
    /\ HashTypeOK
    /\ eState \in [Servers -> ConnectDataState]
    /\ mxNetModule \in [Servers -> SocketState]
    /\ waited \subseteq Servers
    /\ mxTempNetList \subseteq Servers
    /\ mObjectCurIter \in Servers \cup {End}
    /\ pc \in {"idle", "visit", "inside", "add"}
    /\ executing \in Servers \cup {End}

Init ==
    /\ HashInit
    /\ eState = [s \in Servers |-> "none"]
    /\ mxNetModule = [s \in Servers |-> "null"]
    /\ waited = Servers
    /\ mxTempNetList = {}
    /\ mObjectCurIter = End
    /\ pc = "idle"
    /\ executing = End

mxServerMap == {s \in Servers : eState[s] # "none"}

\* NFMapEx::Next, from the element s.
After(s) ==
    LET later == {t \in mxServerMap : t > s}
    IN IF later = {} THEN End ELSE LowestOf(later)

-------------------------------------------------------------------------------
(* Calls of other modules, between frames or from a handler. *)

\* A server that another server or the configuration names. For one that has a
\* link only the work load is noted, which nothing here depends on.
AddServer(s) ==
    /\ pc \in {"idle", "inside"}
    /\ s \notin mxServerMap \cup mxTempNetList
    /\ mxTempNetList' = mxTempNetList \cup {s}
    /\ UNCHANGED <<hashVars, linkVars, loopVars>>

\* A bug: sending stops at the first server.
SendToFirstServer ==
    /\ pc = "inside"
    /\ mxNetModule[executing] = "open"
    /\ mObjectCurIter' = LowestOf(mxServerMap)
    /\ UNCHANGED <<hashVars, linkVars, pc, executing, mxTempNetList>>

\* A handler sends to all servers: the iterator is left at the end.
SendToAllServer ==
    /\ pc = "inside"
    /\ mxNetModule[executing] = "open"
    /\ mObjectCurIter' = End
    /\ UNCHANGED <<hashVars, linkVars, pc, executing, mxTempNetList>>

-------------------------------------------------------------------------------
(* ProcessExecute: one step per link, more while libevent reports something. *)

ProcessExecute ==
    /\ pc = "idle"
    /\ mObjectCurIter' = IF mxServerMap = {} THEN mObjectCurIter ELSE LowestOf(mxServerMap)
    /\ pc' = IF mxServerMap = {} THEN "add" ELSE "visit"
    /\ UNCHANGED <<hashVars, linkVars, executing, mxTempNetList>>

\* The link that was visited is done with; on to where the iterator stands.
NextLink ==
    LET next == IF mObjectCurIter = End THEN End ELSE After(mObjectCurIter) IN
    /\ mObjectCurIter' = next
    /\ pc' = IF next = End THEN "add" ELSE "visit"
    /\ executing' = End

\* A lost connection is let go of in the next frame.
DropSocket(s) ==
    /\ pc = "visit" /\ mObjectCurIter = s
    /\ eState[s] = "DISCONNECT"
    /\ mxNetModule' = [mxNetModule EXCEPT ![s] = "null"]
    /\ eState' = [eState EXCEPT ![s] = "RECONNECT"]
    /\ NextLink
    /\ UNCHANGED <<hashVars, waited, mxTempNetList>>

WaitToReconnect(s) ==
    /\ pc = "visit" /\ mObjectCurIter = s
    /\ eState[s] = "RECONNECT"
    /\ s \notin waited
    /\ NextLink
    /\ UNCHANGED <<hashVars, linkVars, mxTempNetList>>

\* A bug: the link waits to be told that it is connected without a socket.
ReconnectLater(s) ==
    /\ pc = "visit" /\ mObjectCurIter = s
    /\ eState[s] = "RECONNECT"
    /\ s \in waited
    /\ eState' = [eState EXCEPT ![s] = "CONNECTING"]
    /\ NextLink
    /\ UNCHANGED <<hashVars, mxNetModule, waited, mxTempNetList>>

\* After ten seconds a new socket is made, which may fail at once.
Reconnect(s) ==
    /\ pc = "visit" /\ mObjectCurIter = s
    /\ eState[s] = "RECONNECT"
    /\ s \in waited
    /\ eState' = [eState EXCEPT ![s] = "CONNECTING"]
    /\ \E socket \in NewSocket : mxNetModule' = [mxNetModule EXCEPT ![s] = socket]
    /\ NextLink
    /\ UNCHANGED <<hashVars, waited, mxTempNetList>>

\* The link's socket is executed; KeepState, which comes next, only touches the
\* time of the last action.
ExecuteLink(s) ==
    /\ pc = "visit" /\ mObjectCurIter = s
    /\ eState[s] \in {"CONNECTING", "NORMAL"}
    /\ pc' = "inside"
    /\ executing' = s
    /\ UNCHANGED <<hashVars, linkVars, mObjectCurIter, mxTempNetList>>

\* conn_eventcb: what libevent reports of the link's socket, while it is executed.
\* The socket counts as working, or not any more, before the callbacks run.
SocketOpens(s) ==
    /\ pc = "inside" /\ executing = s
    /\ mxNetModule[s] = "opening"
    /\ mxNetModule' = [mxNetModule EXCEPT ![s] = "open"]

SocketCloses(s) ==
    /\ pc = "inside" /\ executing = s
    /\ mxNetModule[s] \in {"opening", "open"}
    /\ mxNetModule' = [mxNetModule EXCEPT ![s] = "closed"]

\* The walk through the map for the entry with the socket that reports stops there.
GetServerNetInfo(s) ==
    /\ mObjectCurIter' = s
    /\ UNCHANGED <<pc, executing>>

\* The connection stands. Callbacks of other modules, which register over it, come
\* after this one and look for the entry in the same way.
OnConnected(s) ==
    /\ SocketOpens(s)
    /\ GetServerNetInfo(s)
    /\ eState' = [eState EXCEPT ![s] = "NORMAL"]
    /\ AddElement(s)
    /\ UNCHANGED <<waited, mxTempNetList>>

\* A bug: the server stays among those that messages are shared out to.
OnDisConnectedAndListed(s) ==
    /\ SocketCloses(s)
    /\ GetServerNetInfo(s)
    /\ eState' = [eState EXCEPT ![s] = "DISCONNECT"]
    /\ waited' = waited \ {s}
    /\ UNCHANGED <<hashVars, mxTempNetList>>

\* It could not be made, or it broke.
OnDisConnected(s) ==
    /\ SocketCloses(s)
    /\ GetServerNetInfo(s)
    /\ eState' = [eState EXCEPT ![s] = "DISCONNECT"]
    /\ waited' = waited \ {s}
    /\ RemoveElement(s)
    /\ UNCHANGED mxTempNetList

ExecuteReturns(s) ==
    /\ pc = "inside" /\ executing = s
    /\ NextLink
    /\ UNCHANGED <<hashVars, linkVars, mxTempNetList>>

\* An entry that exists keeps its address and its socket.
ProcessAddNetConnect ==
    /\ pc = "add"
    /\ \E sockets \in [mxTempNetList \ mxServerMap -> NewSocket] :
        mxNetModule' =
            [s \in Servers |-> IF s \in DOMAIN sockets THEN sockets[s] ELSE mxNetModule[s]]
    /\ eState' = [s \in Servers |->
                    IF s \in mxTempNetList /\ eState[s] = "none" THEN "CONNECTING" ELSE eState[s]]
    /\ mxTempNetList' = {}
    /\ pc' = "idle"
    /\ UNCHANGED <<hashVars, waited, mObjectCurIter, executing>>

\* Ten seconds have passed since the connection was lost.
TimePasses(s) ==
    /\ s \notin waited
    /\ waited' = waited \cup {s}
    /\ UNCHANGED <<hashVars, eState, mxNetModule, loopVars, mxTempNetList>>

-------------------------------------------------------------------------------
Execute ==
    \/ ProcessExecute
    \/ \E s \in Servers :
        \/ DropSocket(s) \/ WaitToReconnect(s) \/ Reconnect(s)
        \/ ExecuteLink(s) \/ ExecuteReturns(s)
    \/ ProcessAddNetConnect

Next ==
    \/ Execute
    \/ SendToAllServer
    \/ \E s \in Servers :
        \/ AddServer(s) \/ OnConnected(s) \/ OnDisConnected(s) \/ TimePasses(s)

Spec == Init /\ [][Next]_vars

\* The loop turns and the clock runs. A connection attempt that is looked at
\* again and again succeeds in the end, and a link is not for ever behind one
\* whose handlers send to all in every frame.
Fairness ==
    /\ WF_vars(Execute)
    /\ \A s \in Servers :
        /\ WF_vars(TimePasses(s))
        /\ SF_vars(OnConnected(s))
        /\ SF_vars(ExecuteReturns(s) /\ mObjectCurIter = s)

FairSpec == Spec /\ Fairness

-------------------------------------------------------------------------------
(* What other modules rely on. *)

\* The servers that messages are shared out to are those whose socket works:
\* nothing is sent to a connection that is gone or not yet there, and no
\* server that is connected is left out (OnConnected, OnDisConnected against
\* conn_eventcb).
ListedServersWork == \A s \in Servers : s \in mObjectList <=> mxNetModule[s] = "open"

\* SendBySuit finds a working connection for every key as long as one server
\* is connected that has a virtual node of its own. Hashes that collide cannot
\* send a message to a server that is gone.
SuitFindsALink ==
    (\E s \in Servers : mxNetModule[s] = "open" /\ OwnPoints(s) # {})
        => \A k \in Slots : /\ ElementBySuit(k) \in Servers
                            /\ mxNetModule[ElementBySuit(k)] = "open"

\* The link the walk of a frame is at.
Served == IF pc = "inside" THEN executing ELSE mObjectCurIter

\* A frame serves no link twice, and so it ends: whatever handlers and callbacks do
\* inside the walk with the only iterator there is (SendToAllServerByPB and
\* GetServerNetInfo start it anew), ProcessExecute goes on behind the link it has
\* served, or not at all.
LinksServedOnce ==
    [][Execute /\ pc # "idle" /\ pc' = "visit" => mObjectCurIter' > Served]_vars

\* A key stays with its server while that is listed, unless a server comes that
\* takes the key, or one goes that had a virtual node with the same hash.
KeysStay ==
    [][\A k \in Slots :
        LET from == ElementBySuit(k)
            to == ElementBySuit(k)' IN
        (from # to /\ from \in mObjectList /\ from \in mObjectList')
            => \/ to \in mObjectList' \ mObjectList
               \/ \E s \in mObjectList \ mObjectList' : SuitSlot(k) \in Points[s]]_vars

\* A link that is lost comes back, however long the reconnecting takes, unless
\* an attempt failed inside Initialization: nothing looks at such a link again.
LostLinkComesBack ==
    \A s \in Servers : eState[s] = "DISCONNECT" ~> mxNetModule[s] \in {"open", "dead"}
===============================================================================
