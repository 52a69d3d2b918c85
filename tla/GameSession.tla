------------------------------ MODULE GameSession -----------------------------
(***************************************************************************)
(* A role's session: a client's connection at a proxy (the gate), the      *)
(* player object at the game server, and the role's data behind the DB     *)
(* servers. The gate keeps a NetObject per connection; the game server     *)
(* keeps gate info per role and its object; data is loaded when a client   *)
(* enters and saved when the object is destroyed and from time to time.    *)
(* Gates, game and DB servers talk over TCP connections: messages arrive   *)
(* in order or the connection breaks and those under way are lost. There   *)
(* is one game server, and it creates objects on its main thread.          *)
(***************************************************************************)
EXTENDS Integers, Sequences, SequencesExt

CONSTANTS
    Clients,    \* connections of clients, by their GUID: OnClientConnected makes a new one
    Roles,      \* role ids
    Gates,      \* server ids of the proxies
    DBs,        \* server ids of the DB servers
    DBOfRole,   \* the DB server the hash of a role id selects
    MaxData,    \* bound: how often a role's data changes
    MaxEnters,  \* bound: REQ_ENTER_GAMEs sent
    MaxLinks,   \* bound: connections of gates to the game server, over time
    MaxFaults   \* bound: failed loads and lost connections to a DB server

ASSUME DBOfRoleAssumption == DBOfRole \in [Roles -> DBs]
ASSUME SessionBounds ==
    MaxData \in Nat /\ MaxEnters \in Nat /\ MaxLinks \in Nat /\ MaxFaults \in Nat
ASSUME GuidsAssumption == "none" \notin Roles /\ "none" \notin Clients /\ "none" \notin Gates

VARIABLES
    netObject,      \* gate: the NetObject of each connection
    link,           \* the socket of a gate's connection to the game server, 0 if down
    closedSockets,  \* game: broken connections it has not noticed
    toGame, toGate, \* per gate: messages under way
    mProxyMap,      \* game, per gate: nFD of its GateServerInfo, 0 if there is none
    xRoleInfo,      \* game, per gate: the roles in its GateServerInfo
    mRoleBaseData,  \* game, per role: its GateBaseInfo
    object,         \* game, per role: the data in its object
    toDB, fromDB,   \* per DB server: messages under way
    redis,          \* per role: the stored data
    enters, links, faults,  \* how much of the bounds is used up
    latest,         \* history, per role: the newest data there ever was
    asked,          \* history, per connection: the roles it asked to enter with
    contested,      \* history: roles asked for while another session was unfinished
    doubleLoaded,   \* history: roles with two loads under way at once
    overtaken,      \* history: roles loaded from one DB server while another had a save
    abandoned,      \* history: roles whose client left before it knew it was in
    lost            \* history: roles a broken connection or a failed load touched

gateVars == <<netObject, link>>
netVars == <<closedSockets, toGame, toGate>>
gameVars == <<mProxyMap, xRoleInfo, mRoleBaseData, object>>
dbVars == <<toDB, fromDB, redis>>
bounds == <<enters, links, faults>>
history == <<latest, asked, contested, doubleLoaded, overtaken, abandoned, lost>>
vars == <<gateVars, netVars, gameVars, dbVars, bounds, history>>

NULL == "none"
NoObject == -1
Data == 0 .. MaxData
NoBase == [gateID |-> NULL, xClientID |-> NULL, eStatus |-> NULL]

Message(type, c, r) == [type |-> type, client |-> c, role |-> r]

Connected(c) == netObject[c].state \in {"connected", "verified"}
Loading(r) ==
    \E d \in DBs :
        \/ \E n \in 1 .. Len(toDB[d]) : toDB[d][n].type = "LOAD" /\ toDB[d][n].role = r
        \/ \E n \in 1 .. Len(fromDB[d]) : fromDB[d][n].role = r
Saving(r, d) == \E n \in 1 .. Len(toDB[d]) : toDB[d][n].type = "SAVE" /\ toDB[d][n].role = r
Underway(r) ==
    \E g \in Gates : \E m \in ToSet(toGame[g]) \cup ToSet(toGate[g]) : m.role = r

Init ==
    /\ netObject = [c \in Clients |->
            [state |-> "none", gate |-> NULL, selected |-> FALSE, userID |-> NULL]]
    /\ link = [g \in Gates |-> 0]
    /\ closedSockets = {}
    /\ toGame = [g \in Gates |-> <<>>] /\ toGate = [g \in Gates |-> <<>>]
    /\ mProxyMap = [g \in Gates |-> 0]
    /\ xRoleInfo = [g \in Gates |-> {}]
    /\ mRoleBaseData = [r \in Roles |-> NoBase]
    /\ object = [r \in Roles |-> NoObject]
    /\ toDB = [d \in DBs |-> <<>>] /\ fromDB = [d \in DBs |-> <<>>]
    /\ redis = [r \in Roles |-> 0]
    /\ enters = 0 /\ links = 0 /\ faults = 0
    /\ latest = [r \in Roles |-> 0]
    /\ asked = [c \in Clients |-> {}]
    /\ contested = {} /\ doubleLoaded = {} /\ overtaken = {} /\ abandoned = {} /\ lost = {}

-------------------------------------------------------------------------------
(* The proxy, for its clients. *)

OnClientConnected(c, g) ==
    /\ netObject[c].state = "none"
    /\ netObject' = [netObject EXCEPT ![c].state = "connected", ![c].gate = g]
    /\ UNCHANGED <<link, netVars, gameVars, dbVars, bounds, history>>

\* VerifySecurityKey accepts every key.
OnConnectKeyProcess(c) ==
    /\ netObject[c].state = "connected"
    /\ netObject' = [netObject EXCEPT ![c].state = "verified"]
    /\ UNCHANGED <<link, netVars, gameVars, dbVars, bounds, history>>

\* The game server must be connected; otherwise the client is told it failed.
OnSelectServerProcess(c) ==
    /\ Connected(c) /\ ~netObject[c].selected
    /\ link[netObject[c].gate] # 0
    /\ netObject' = [netObject EXCEPT ![c].selected = TRUE]
    /\ UNCHANGED <<link, netVars, gameVars, dbVars, bounds, history>>

\* Something of an earlier session of the role is still to come.
Unfinished(c, r) ==
    \/ \E b \in Clients \ {c} : Connected(b) /\ r \in asked[b]
    \/ r \notin asked[c] /\ (Underway(r) \/ Loading(r))

OnReqEnterGameServer(c, r) ==
    LET g == netObject[c].gate IN
    /\ enters < MaxEnters
    /\ netObject[c].state = "verified" /\ netObject[c].selected
    /\ link[g] # 0
    /\ toGame' = [toGame EXCEPT ![g] = Append(@, Message("REQ_ENTER_GAME", c, r))]
    /\ enters' = enters + 1
    /\ asked' = [asked EXCEPT ![c] = @ \cup {r}]
    /\ contested' = IF Unfinished(c, r) THEN contested \cup {r} ELSE contested
    /\ UNCHANGED <<gateVars, closedSockets, toGate, gameVars, dbVars, links, faults,
                   latest, doubleLoaded, overtaken, abandoned, lost>>

\* A bug: no leave for the game server.
OnClientDisconnectQuietly(c) ==
    /\ Connected(c)
    /\ netObject' = [netObject EXCEPT ![c].state = "closed"]
    /\ abandoned' = abandoned \cup (asked[c] \ {netObject[c].userID})
    /\ UNCHANGED <<link, netVars, gameVars, dbVars, bounds,
                   latest, asked, contested, doubleLoaded, overtaken, lost>>

\* The game server hears of it only if the client has entered.
OnClientDisconnect(c) ==
    LET g == netObject[c].gate
        r == netObject[c].userID
        leaves == netObject[c].selected /\ r # NULL
    IN /\ Connected(c)
       /\ netObject' = [netObject EXCEPT ![c].state = "closed"]
       /\ toGame' = IF leaves /\ link[g] # 0
                    THEN [toGame EXCEPT ![g] = Append(@, Message("REQ_LEAVE_GAME", c, r))]
                    ELSE toGame
       /\ lost' = IF leaves /\ link[g] = 0 THEN lost \cup {r} ELSE lost
       /\ abandoned' = abandoned \cup (asked[c] \ {r})
       /\ UNCHANGED <<link, closedSockets, toGate, gameVars, dbVars, bounds,
                      latest, asked, contested, doubleLoaded, overtaken>>

\* A bug: every connection of the gate takes the message for its own.
EnterGameSuccessEventForAll(g) ==
    /\ toGate[g] # <<>>
    /\ netObject' = [c \in Clients |->
            IF Connected(c) /\ netObject[c].gate = g
            THEN [netObject[c] EXCEPT !.userID = Head(toGate[g]).role] ELSE netObject[c]]
    /\ toGate' = [toGate EXCEPT ![g] = Tail(@)]
    /\ UNCHANGED <<link, closedSockets, toGame, gameVars, dbVars, bounds, history>>

\* OnAckEnterGame: the connection, if it is still there, now is the player's.
EnterGameSuccessEvent(g) ==
    /\ toGate[g] # <<>>
    /\ LET m == Head(toGate[g]) IN
        netObject' = IF Connected(m.client)
                     THEN [netObject EXCEPT ![m.client].userID = m.role]
                     ELSE netObject
    /\ toGate' = [toGate EXCEPT ![g] = Tail(@)]
    /\ UNCHANGED <<link, closedSockets, toGame, gameVars, dbVars, bounds, history>>

-------------------------------------------------------------------------------
(* The connection of a gate to the game server. *)

\* Connected, or connected again: the gate registers first of all.
Register(g) ==
    /\ link[g] = 0
    /\ links < MaxLinks
    /\ links' = links + 1
    /\ link' = [link EXCEPT ![g] = links + 1]
    /\ toGame' = [toGame EXCEPT ![g] = <<Message("PTWG_PROXY_REGISTERED", NULL, NULL)>>]
    /\ UNCHANGED <<netObject, closedSockets, toGate, gameVars, dbVars, enters, faults, history>>

RolesIn(q) == {m.role : m \in ToSet(q)} \ {NULL}

LinkBreaks(g) ==
    /\ link[g] # 0
    /\ links < MaxLinks
    /\ link' = [link EXCEPT ![g] = 0]
    /\ closedSockets' = closedSockets \cup {link[g]}
    /\ lost' = lost \cup RolesIn(toGame[g] \o toGate[g])
    /\ toGame' = [toGame EXCEPT ![g] = <<>>]
    /\ toGate' = [toGate EXCEPT ![g] = <<>>]
    /\ UNCHANGED <<netObject, gameVars, dbVars, bounds,
                   latest, asked, contested, doubleLoaded, overtaken, abandoned>>

\* The game server's OnClientDisconnect, maybe after the gate is back on
\* another socket: the GateServerInfo of this socket goes, the players stay.
OnGateDisconnect(s) ==
    /\ s \in closedSockets
    /\ closedSockets' = closedSockets \ {s}
    /\ mProxyMap' = [g \in Gates |-> IF mProxyMap[g] = s THEN 0 ELSE mProxyMap[g]]
    /\ xRoleInfo' = [g \in Gates |-> IF mProxyMap[g] = s THEN {} ELSE xRoleInfo[g]]
    /\ UNCHANGED <<gateVars, toGame, toGate, mRoleBaseData, object, dbVars, bounds, history>>

-------------------------------------------------------------------------------
(* The game server. *)

\* Reads the next message of a gate, whose type must be this.
Receive(g, type) ==
    /\ toGame[g] # <<>>
    /\ Head(toGame[g]).type = type
    /\ toGame' = [toGame EXCEPT ![g] = Tail(@)]

OnProxyServerRegisteredProcess(g) ==
    /\ Receive(g, "PTWG_PROXY_REGISTERED")
    /\ mProxyMap' = [mProxyMap EXCEPT ![g] = link[g]]
    /\ UNCHANGED <<gateVars, closedSockets, toGate, xRoleInfo, mRoleBaseData, object,
                   dbVars, bounds, history>>

\* A bug: it comes when the object is already gone.
SaveDataTooLate(q, r) == q

\* A bug: an object that is not there is saved too.
SaveDataUnguarded(q, r) ==
    [q EXCEPT ![DBOfRole[r]] = Append(@, [type |-> "SAVE", role |-> r, data |-> object[r]])]

\* DestroyObject calls SaveData before the object goes.
SaveData(q, r) ==
    IF object[r] = NoObject THEN q
    ELSE [q EXCEPT ![DBOfRole[r]] = Append(@, [type |-> "SAVE", role |-> r, data |-> object[r]])]

\* A bug: only the base data is taken away.
RemovePlayerGateInfoOnly(r) == xRoleInfo

\* The lists of the gates without the role, the gate info of which goes too.
RemovePlayerGateInfo(r) ==
    [g \in Gates |-> IF g = mRoleBaseData[r].gateID THEN xRoleInfo[g] \ {r} ELSE xRoleInfo[g]]

\* A bug: the object stays.
OnClientLeaveGameProcessKeepingObject(g) ==
    /\ Receive(g, "REQ_LEAVE_GAME")
    /\ xRoleInfo' = RemovePlayerGateInfo(Head(toGame[g]).role)
    /\ mRoleBaseData' = [mRoleBaseData EXCEPT ![Head(toGame[g]).role] = NoBase]
    /\ UNCHANGED <<gateVars, closedSockets, toGate, mProxyMap, object, dbVars, bounds, history>>

\* Whoever the leave is from: the role's object and its gate info go.
OnClientLeaveGameProcess(g) ==
    /\ Receive(g, "REQ_LEAVE_GAME")
    /\ LET r == Head(toGame[g]).role IN
        /\ toDB' = SaveData(toDB, r)
        /\ object' = [object EXCEPT ![r] = NoObject]
        /\ xRoleInfo' = RemovePlayerGateInfo(r)
        /\ mRoleBaseData' = [mRoleBaseData EXCEPT ![r] = NoBase]
    /\ UNCHANGED <<gateVars, closedSockets, toGate, mProxyMap, fromDB, redis, bounds, history>>

\* An existing object of the role goes first. While eStatus says that a load
\* is under way that is all.
OnClientEnterGameWhileLoading(g) ==
    /\ Receive(g, "REQ_ENTER_GAME")
    /\ LET r == Head(toGame[g]).role IN
        /\ mRoleBaseData[r].eStatus = "E_LOADING"
        /\ toDB' = SaveData(toDB, r)
        /\ object' = [object EXCEPT ![r] = NoObject]
    /\ UNCHANGED <<gateVars, closedSockets, toGate, mProxyMap, xRoleInfo, mRoleBaseData,
                   fromDB, redis, bounds, history>>

\* Otherwise the gate info is replaced and the data asked for. The constructor
\* of GateBaseInfo leaves eStatus as it finds the memory; the gate is known by
\* the socket (it registers first of all), and d is the DB server the socket's
\* number selects. AddPlayerGateInfo refuses a role the gate still lists.
OnClientEnterGameProcess(g, d, garbage) ==
    /\ Receive(g, "REQ_ENTER_GAME")
    /\ mProxyMap[g] = link[g]
    /\ LET m == Head(toGame[g])
           r == m.role
           saved == SaveData(toDB, r)
       IN /\ mRoleBaseData[r].eStatus # "E_LOADING"
          /\ r \notin RemovePlayerGateInfo(r)[g]
          /\ object' = [object EXCEPT ![r] = NoObject]
          /\ mRoleBaseData' = [mRoleBaseData EXCEPT
                ![r] = [gateID |-> g, xClientID |-> m.client, eStatus |-> garbage]]
          /\ xRoleInfo' = [RemovePlayerGateInfo(r) EXCEPT ![g] = @ \cup {r}]
          /\ toDB' = [saved EXCEPT ![d] = Append(@, [type |-> "LOAD", role |-> r, data |-> 0])]
          /\ overtaken' = IF \E e \in DBs \ {d} :
                                Saving(r, e) \/ (object[r] # NoObject /\ e = DBOfRole[r])
                          THEN overtaken \cup {r} ELSE overtaken
          /\ doubleLoaded' = IF Loading(r) THEN doubleLoaded \cup {r} ELSE doubleLoaded
    /\ UNCHANGED <<gateVars, closedSockets, toGate, mProxyMap, fromDB, redis, bounds,
                   latest, asked, contested, abandoned, lost>>

\* A bug: the load is never marked as done.
StillLoading(base) == base

Loaded(base) == IF base.eStatus = "E_LOADING" THEN [base EXCEPT !.eStatus = "E_LOADED"] ELSE base

\* ACK_LOAD_ROLE_DATA. Without gate info the client is gone. With it, an old
\* object is destroyed and a new one made of the data, which tells the gate
\* (OnObjectClassEvent) that the player is in.
OnDBLoadRoleDataProcess(d) ==
    /\ fromDB[d] # <<>>
    /\ fromDB' = [fromDB EXCEPT ![d] = Tail(@)]
    /\ LET r == Head(fromDB[d]).role
           base == mRoleBaseData[r]
           g == base.gateID
       IN /\ toDB' = SaveData(toDB, r)
          /\ IF base = NoBase
             THEN /\ object' = [object EXCEPT ![r] = NoObject]
                  /\ UNCHANGED <<mRoleBaseData, toGate, lost>>
             ELSE /\ object' = [object EXCEPT ![r] = Head(fromDB[d]).data]
                  /\ mRoleBaseData' = [mRoleBaseData EXCEPT ![r] = Loaded(base)]
                  /\ IF mProxyMap[g] # 0 /\ mProxyMap[g] = link[g]
                     THEN /\ toGate' = [toGate EXCEPT
                                ![g] = Append(@, Message("ACK_ENTER_GAME", base.xClientID, r))]
                          /\ UNCHANGED lost
                     ELSE lost' = lost \cup {r} /\ UNCHANGED toGate
    /\ UNCHANGED <<gateVars, closedSockets, toGame, mProxyMap, xRoleInfo, redis, bounds,
                   latest, asked, contested, doubleLoaded, overtaken, abandoned>>

\* The timer; at most one of its saves under way is enough.
SaveDataOnTime(r) ==
    /\ object[r] # NoObject
    /\ ~Saving(r, DBOfRole[r])
    /\ toDB' = SaveData(toDB, r)
    /\ UNCHANGED <<gateVars, netVars, gameVars, fromDB, redis, bounds, history>>

\* Whatever happens in the game to the role's properties and records.
SetProperty(r) ==
    /\ object[r] # NoObject
    /\ latest[r] < MaxData
    /\ object' = [object EXCEPT ![r] = latest[r] + 1]
    /\ latest' = [latest EXCEPT ![r] = latest[r] + 1]
    /\ UNCHANGED <<gateVars, netVars, mProxyMap, xRoleInfo, mRoleBaseData, dbVars, bounds,
                   asked, contested, doubleLoaded, overtaken, abandoned, lost>>

-------------------------------------------------------------------------------
(* The DB servers. *)

OnSaveRoleDataProcess(d) ==
    /\ toDB[d] # <<>>
    /\ Head(toDB[d]).type = "SAVE"
    /\ redis' = [redis EXCEPT ![Head(toDB[d]).role] = Head(toDB[d]).data]
    /\ toDB' = [toDB EXCEPT ![d] = Tail(@)]
    /\ UNCHANGED <<gateVars, netVars, gameVars, fromDB, bounds, history>>

\* The answer comes whether LoadPlayerData succeeds or not.
OnLoadRoleDataProcess(d, succeeds) ==
    /\ toDB[d] # <<>>
    /\ Head(toDB[d]).type = "LOAD"
    /\ LET r == Head(toDB[d]).role IN
        /\ fromDB' = [fromDB EXCEPT
                ![d] = Append(@, [role |-> r, data |-> IF succeeds THEN redis[r] ELSE 0])]
        /\ IF succeeds THEN UNCHANGED <<faults, lost>>
           ELSE faults < MaxFaults /\ faults' = faults + 1 /\ lost' = lost \cup {r}
    /\ toDB' = [toDB EXCEPT ![d] = Tail(@)]
    /\ UNCHANGED <<gateVars, netVars, gameVars, redis, enters, links,
                   latest, asked, contested, doubleLoaded, overtaken, abandoned>>

DBLinkBreaks(d) ==
    /\ faults < MaxFaults
    /\ faults' = faults + 1
    /\ lost' = lost \cup RolesIn(toDB[d]) \cup RolesIn(fromDB[d])
    /\ toDB' = [toDB EXCEPT ![d] = <<>>]
    /\ fromDB' = [fromDB EXCEPT ![d] = <<>>]
    /\ UNCHANGED <<gateVars, netVars, gameVars, redis, enters, links,
                   latest, asked, contested, doubleLoaded, overtaken, abandoned>>

-------------------------------------------------------------------------------

ClientSide ==
    \/ \E c \in Clients, g \in Gates : OnClientConnected(c, g)
    \/ \E c \in Clients : OnConnectKeyProcess(c)
    \/ \E c \in Clients : OnSelectServerProcess(c)
    \/ \E c \in Clients, r \in Roles : OnReqEnterGameServer(c, r)
    \/ \E c \in Clients : OnClientDisconnect(c)

GateReads(g) == EnterGameSuccessEvent(g)

GameReads(g) ==
    \/ OnProxyServerRegisteredProcess(g)
    \/ OnClientLeaveGameProcess(g)
    \/ OnClientEnterGameWhileLoading(g)
    \/ \E d \in DBs, garbage \in {"E_LOADING", "other"} : OnClientEnterGameProcess(g, d, garbage)

GameReadsDB(d) == OnDBLoadRoleDataProcess(d)

DBReads(d) ==
    \/ OnSaveRoleDataProcess(d)
    \/ \E succeeds \in BOOLEAN : OnLoadRoleDataProcess(d, succeeds)

Handlers ==
    \/ \E g \in Gates : GateReads(g) \/ GameReads(g)
    \/ \E d \in DBs : GameReadsDB(d) \/ DBReads(d)

Environment ==
    \/ \E g \in Gates : Register(g)
    \/ \E g \in Gates : LinkBreaks(g)
    \/ \E s \in closedSockets : OnGateDisconnect(s)
    \/ \E r \in Roles : SaveDataOnTime(r)
    \/ \E r \in Roles : SetProperty(r)
    \/ \E d \in DBs : DBLinkBreaks(d)

Next == ClientSide \/ Handlers \/ Environment

Spec == Init /\ [][Next]_vars

\* Every server reads what arrives.
FairSpec ==
    /\ Spec
    /\ \A g \in Gates : WF_vars(GateReads(g)) /\ WF_vars(GameReads(g))
    /\ \A d \in DBs : WF_vars(GameReadsDB(d)) /\ WF_vars(DBReads(d))

-------------------------------------------------------------------------------
(* Properties *)

TypeOK ==
    /\ netObject \in [Clients -> [state : {"none", "connected", "verified", "closed"},
                                  gate : Gates \cup {NULL}, selected : BOOLEAN,
                                  userID : Roles \cup {NULL}]]
    /\ \A c \in Clients : netObject[c].gate = NULL <=> netObject[c].state = "none"
    /\ link \in [Gates -> 0 .. MaxLinks]
    /\ closedSockets \subseteq 1 .. MaxLinks
    /\ toGame \in [Gates -> Seq(
            [type : {"REQ_ENTER_GAME", "REQ_LEAVE_GAME"}, client : Clients, role : Roles]
            \cup {Message("PTWG_PROXY_REGISTERED", NULL, NULL)})]
    /\ toGate \in [Gates -> Seq([type : {"ACK_ENTER_GAME"}, client : Clients, role : Roles])]
    /\ mProxyMap \in [Gates -> 0 .. MaxLinks]
    /\ xRoleInfo \in [Gates -> SUBSET Roles]
    /\ mRoleBaseData \in [Roles ->
            [gateID : Gates, xClientID : Clients, eStatus : {"E_LOADING", "E_LOADED", "other"}]
            \cup {NoBase}]
    /\ object \in [Roles -> Data \cup {NoObject}]
    /\ toDB \in [DBs -> Seq([type : {"LOAD", "SAVE"}, role : Roles, data : Data])]
    /\ fromDB \in [DBs -> Seq([role : Roles, data : Data])]
    /\ redis \in [Roles -> Data]
    /\ enters \in 0 .. MaxEnters /\ links \in 0 .. MaxLinks /\ faults \in 0 .. MaxFaults
    /\ latest \in [Roles -> Data]
    /\ asked \in [Clients -> SUBSET Roles]
    /\ UNION {contested, doubleLoaded, overtaken, abandoned, lost} \subseteq Roles

\* A player in the game always has gate info: whatever enters, leaves and
\* loads cross, no object is left that messages cannot reach.
PlayersHaveGateInfo == \A r \in Roles : object[r] # NoObject => mRoleBaseData[r] # NoBase

\* A gate lists only roles that are bound to it, so that AddPlayerGateInfo
\* never refuses a role: nobody is locked out after gates come and go.
GateListsItsRoles ==
    \A g \in Gates : \A r \in xRoleInfo[g] : mProxyMap[g] # 0 /\ mRoleBaseData[r].gateID = g

\* No progress is lost: a role is always played with its newest data, unless
\* two loads of it were under way at once, its load overtook its save on the
\* way to another DB server, or a connection or a load failed it.
NoRollback ==
    \A r \in Roles \ (doubleLoaded \cup overtaken \cup lost) :
        object[r] # NoObject => object[r] = latest[r]

Settled(r) == ~Underway(r) /\ ~Loading(r)

\* No player stays in the game when its client is gone, unless the client left
\* before it knew it was in, or a connection broke.
NoGhostPlayers ==
    \A r \in Roles \ (abandoned \cup lost) :
        Settled(r) /\ object[r] # NoObject => Connected(mRoleBaseData[r].xClientID)

\* A client that entered with a role plays it, unless somebody else asked for
\* the role meanwhile or a connection broke.
EnteredClientsPlay ==
    \A r \in Roles \ (contested \cup lost), c \in Clients :
        Settled(r) /\ Connected(c) /\ netObject[c].userID = r =>
            object[r] # NoObject /\ mRoleBaseData[r].xClientID = c

\* A leave ends the session of its own client, not one that another client has
\* begun, unless both asked for the role at the same time.
LeavesEndTheirOwnSession ==
    \A g \in Gates : \A m \in ToSet(toGame[g]) :
        m.type = "REQ_LEAVE_GAME" /\ m.role \notin contested =>
            mRoleBaseData[m.role].xClientID \in {NULL, m.client}

\* What a comment in OnDBLoadRoleDataProcess asks for: a player already in the
\* game when its data arrives is bound to the client, and not set back.
ReloadKeepsThePlayer ==
    [][\A r \in Roles :
        object[r] # NoObject /\ object'[r] # NoObject => object'[r] >= object[r]]_vars

\* A client that asks to enter is let in, unless it goes away, somebody else
\* asks for the same role or a connection breaks.
EnterAnswered ==
    \A c \in Clients, r \in Roles :
        r \in asked[c] ~>
            netObject[c].userID = r \/ ~Connected(c) \/ r \in contested \cup lost
===============================================================================
