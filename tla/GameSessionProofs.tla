--------------------------- MODULE GameSessionProofs ---------------------------
(***************************************************************************)
(* Proofs about GameSession, for any clients, roles, gates and DB servers  *)
(* and any bounds: types, that the three places in which the game server   *)
(* keeps a player's session (the object, its gate info, the list of its    *)
(* gate) agree, and then what is promised of players.                      *)
(***************************************************************************)
EXTENDS GameSession, TLAPS

ToGameMessage ==
    [type : {"REQ_ENTER_GAME", "REQ_LEAVE_GAME"}, client : Clients, role : Roles]
        \cup {Message("PTWG_PROXY_REGISTERED", NULL, NULL)}
ToGateMessage == [type : {"ACK_ENTER_GAME"}, client : Clients, role : Roles]
ToDBMessage == [type : {"LOAD", "SAVE"}, role : Roles, data : Data]
FromDBMessage == [role : Roles, data : Data]
Base ==
    [gateID : Gates, xClientID : Clients, eStatus : {"E_LOADING", "E_LOADED", "other"}]
        \cup {NoBase}

NetObject ==
    [state : {"none", "connected", "verified", "closed"}, gate : Gates \cup {NULL},
     selected : BOOLEAN, userID : Roles \cup {NULL}]

\* TypeOK, by who changes the variables.
NetObjectTypes ==
    /\ netObject \in [Clients -> NetObject]
    /\ \A c \in Clients : netObject[c].gate = NULL <=> netObject[c].state = "none"
LinkTypes == link \in [Gates -> 0 .. MaxLinks] /\ closedSockets \subseteq 1 .. MaxLinks
ToGameTypes == toGame \in [Gates -> Seq(ToGameMessage)]
ToGateTypes == toGate \in [Gates -> Seq(ToGateMessage)]
ListTypes == mProxyMap \in [Gates -> 0 .. MaxLinks] /\ xRoleInfo \in [Gates -> SUBSET Roles]
PlayerTypes == mRoleBaseData \in [Roles -> Base] /\ object \in [Roles -> Data \cup {NoObject}]
DBTypes ==
    /\ toDB \in [DBs -> Seq(ToDBMessage)]
    /\ fromDB \in [DBs -> Seq(FromDBMessage)]
    /\ redis \in [Roles -> Data]
BoundTypes == enters \in 0 .. MaxEnters /\ links \in 0 .. MaxLinks /\ faults \in 0 .. MaxFaults
HistoryTypes ==
    /\ latest \in [Roles -> Data]
    /\ asked \in [Clients -> SUBSET Roles]
    /\ UNION {contested, doubleLoaded, overtaken, abandoned, lost} \subseteq Roles

Typed ==
    /\ NetObjectTypes /\ LinkTypes /\ ToGameTypes /\ ToGateTypes /\ ListTypes
    /\ PlayerTypes /\ DBTypes /\ BoundTypes /\ HistoryTypes

LEMMA TypedIsTypeOK == Typed => TypeOK
BY DEF Typed, TypeOK, NetObjectTypes, LinkTypes, ToGameTypes, ToGateTypes, ListTypes,
       PlayerTypes, DBTypes, BoundTypes, HistoryTypes, ToGameMessage, ToGateMessage,
       ToDBMessage, FromDBMessage, Base, NetObject

LEMMA StartTyped == Init => Typed
<1> SUFFICES ASSUME Init PROVE Typed
    OBVIOUS
<1>1. NetObjectTypes /\ LinkTypes /\ ListTypes /\ PlayerTypes
    BY DBOfRoleAssumption, SessionBounds, GuidsAssumption
       DEF Init, NetObjectTypes, LinkTypes, ListTypes, PlayerTypes, Base, Data, NetObject
<1>2. ToGameTypes /\ ToGateTypes /\ DBTypes
    BY DBOfRoleAssumption, SessionBounds, GuidsAssumption
       DEF Init, ToGameTypes, ToGateTypes, DBTypes, Data
<1>3. BoundTypes /\ HistoryTypes
    BY DBOfRoleAssumption, SessionBounds, GuidsAssumption
       DEF Init, BoundTypes, HistoryTypes, Data
<1> QED BY <1>1, <1>2, <1>3 DEF Typed

\* What is added to the messages on their way.
LEMMA AppendTyped ==
    ASSUME NEW S, NEW I, NEW q \in [I -> Seq(S)], NEW i \in I, NEW m \in S
    PROVE  [q EXCEPT ![i] = Append(@, m)] \in [I -> Seq(S)]
OBVIOUS

\* The first message, and what is left when it was read.
LEMMA ReadTyped ==
    ASSUME NEW S, NEW I, NEW q \in [I -> Seq(S)], NEW i \in I, q[i] # <<>>
    PROVE  Head(q[i]) \in S /\ [q EXCEPT ![i] = Tail(@)] \in [I -> Seq(S)]
<1>1. q[i] \in Seq(S) /\ Head(q[i]) \in S /\ Tail(q[i]) \in Seq(S)
    OBVIOUS
<1> QED BY <1>1

LEMMA SaveDataTyped ==
    ASSUME NEW q \in [DBs -> Seq(ToDBMessage)], NEW r \in Roles, PlayerTypes
    PROVE  SaveData(q, r) \in [DBs -> Seq(ToDBMessage)]
<1>1. CASE object[r] = NoObject
    BY <1>1 DEF SaveData
<1>2. CASE object[r] # NoObject
    <2> DEFINE m == [type |-> "SAVE", role |-> r, data |-> object[r]]
    <2>1. m \in ToDBMessage /\ DBOfRole[r] \in DBs
        BY <1>2, DBOfRoleAssumption, SessionBounds, GuidsAssumption
           DEF PlayerTypes, ToDBMessage
    <2>2. SaveData(q, r) = [q EXCEPT ![DBOfRole[r]] = Append(@, m)]
        BY <1>2 DEF SaveData
    <2> HIDE DEF m
    <2> QED BY <2>1, <2>2, AppendTyped
<1> QED BY <1>1, <1>2

\* Who is listed once a role's gate info is taken away.
LEMMA RemovePlayerGateInfoLists ==
    ASSUME ListTypes, NEW r \in Roles
    PROVE  /\ RemovePlayerGateInfo(r) \in [Gates -> SUBSET Roles]
           /\ \A g \in Gates : \A x \in RemovePlayerGateInfo(r)[g] :
                x \in xRoleInfo[g] /\ (x = r => g # mRoleBaseData[r].gateID)
BY DEF ListTypes, RemovePlayerGateInfo

\* What a gate's request is about.
LEMMA RequestTyped ==
    ASSUME ToGameTypes, NEW g \in Gates, NEW type \in {"REQ_ENTER_GAME", "REQ_LEAVE_GAME"},
           Receive(g, type)
    PROVE  /\ Head(toGame[g]).role \in Roles /\ Head(toGame[g]).client \in Clients
           /\ ToGameTypes'
<1>1. Head(toGame[g]) \in ToGameMessage /\ ToGameTypes'
    BY ReadTyped DEF Receive, ToGameTypes
<1>2. Head(toGame[g]).type = type
    BY DEF Receive
<1> QED BY <1>1, <1>2 DEF ToGameMessage, Message

\* A message more in the queue d, and its first one less.
With(q, d, m) == [q EXCEPT ![d] = Append(@, m)]
Without(q, d) == [q EXCEPT ![d] = Tail(@)]

-------------------------------------------------------------------------------
(* The invariant. *)

\* Only a gate that is connected has something on its way to the game server.
SendersAreLinked == \A g \in Gates : toGame[g] # <<>> => link[g] # 0

\* What the game server keeps of players agrees.
PlayersAgree == PlayersHaveGateInfo /\ GateListsItsRoles

IInv == Typed /\ PlayersAgree /\ SendersAreLinked

LEMMA Start == Init => IInv
<1> SUFFICES ASSUME Init PROVE IInv
    OBVIOUS
<1>1. PlayersAgree /\ SendersAreLinked
    BY DEF Init, PlayersAgree, PlayersHaveGateInfo, GateListsItsRoles, SendersAreLinked
<1> QED BY <1>1, StartTyped DEF IInv

LEMMA PlayersStay ==
    ASSUME PlayersAgree, UNCHANGED gameVars
    PROVE  PlayersAgree'
BY DEF PlayersAgree, PlayersHaveGateInfo, GateListsItsRoles, gameVars

LEMMA PlayersTyped ==
    ASSUME ListTypes, PlayerTypes, UNCHANGED gameVars
    PROVE  ListTypes' /\ PlayerTypes'
BY DEF ListTypes, PlayerTypes, gameVars

-------------------------------------------------------------------------------
(* The proxy, for its clients. *)

\* What a connection's NetObject may become.
LEMMA NetObjectTyped ==
    ASSUME NetObjectTypes, NEW c \in Clients, NEW x \in NetObject,
           netObject' = [netObject EXCEPT ![c] = x],
           x.gate = NULL <=> x.state = "none"
    PROVE  NetObjectTypes'
BY DEF NetObjectTypes

LEMMA NetObjectKeeps ==
    ASSUME IInv, NEW c \in Clients,
           \/ \E g \in Gates : OnClientConnected(c, g)
           \/ OnConnectKeyProcess(c) \/ OnSelectServerProcess(c)
    PROVE  IInv'
<1>1. NetObjectTypes'
    <2> DEFINE x == netObject[c]
    <2>0. NetObjectTypes /\ x \in NetObject /\ (x.gate = NULL <=> x.state = "none")
        BY DEF IInv, Typed, NetObjectTypes
    <2>1. CASE \E g \in Gates : OnClientConnected(c, g)
        <3>1. PICK g \in Gates : OnClientConnected(c, g)
            BY <2>1
        <3> DEFINE y == [x EXCEPT !.state = "connected", !.gate = g]
        <3>2. netObject' = [netObject EXCEPT ![c] = y]
            BY <2>0, <3>1 DEF OnClientConnected, NetObjectTypes
        <3>3. y \in NetObject /\ y.gate # NULL /\ y.state # "none"
            BY <2>0, DBOfRoleAssumption, SessionBounds, GuidsAssumption
               DEF NetObject, NULL
        <3> HIDE DEF y
        <3> QED BY <2>0, <3>2, <3>3, NetObjectTyped
    <2>2. CASE OnConnectKeyProcess(c)
        <3> DEFINE y == [x EXCEPT !.state = "verified"]
        <3>1. netObject' = [netObject EXCEPT ![c] = y] /\ x.state = "connected"
            BY <2>2 DEF OnConnectKeyProcess
        <3>2. y \in NetObject /\ y.gate # NULL /\ y.state # "none"
            BY <2>0, <3>1 DEF NetObject
        <3> HIDE DEF y
        <3> QED BY <2>0, <3>1, <3>2, NetObjectTyped
    <2>3. CASE OnSelectServerProcess(c)
        <3> DEFINE y == [x EXCEPT !.selected = TRUE]
        <3>1. netObject' = [netObject EXCEPT ![c] = y]
            BY <2>3 DEF OnSelectServerProcess
        <3>2. y \in NetObject /\ (y.gate = NULL <=> y.state = "none")
            BY <2>0 DEF NetObject
        <3> HIDE DEF y
        <3> QED BY <2>0, <3>1, <3>2, NetObjectTyped
    <2> QED BY <2>1, <2>2, <2>3
<1>2. UNCHANGED <<link, netVars, gameVars, dbVars, bounds, history>>
    BY DEF OnClientConnected, OnConnectKeyProcess, OnSelectServerProcess
<1>3. /\ LinkTypes' /\ ToGameTypes' /\ ToGateTypes' /\ DBTypes' /\ BoundTypes' /\ HistoryTypes'
      /\ SendersAreLinked'
    BY <1>2 DEF IInv, Typed, netVars, dbVars, bounds, history,
        LinkTypes, ToGameTypes, ToGateTypes, DBTypes, BoundTypes, HistoryTypes, SendersAreLinked
<1>4. ListTypes' /\ PlayerTypes' /\ PlayersAgree'
    BY <1>2, PlayersTyped, PlayersStay DEF IInv, Typed
<1>5. Typed'
    BY <1>1, <1>3, <1>4 DEF Typed
<1> QED BY <1>3, <1>4, <1>5 DEF IInv

LEMMA ConnectedTyped ==
    ASSUME IInv, NEW c \in Clients, Connected(c)
    PROVE  netObject[c].gate \in Gates /\ netObject[c].gate # NULL
<1>1. /\ netObject[c] \in NetObject
      /\ netObject[c].gate = NULL <=> netObject[c].state = "none"
    BY DEF IInv, Typed, NetObjectTypes
<1>2. netObject[c].state # "none"
    BY DEF Connected
<1> QED BY <1>1, <1>2 DEF NetObject

LEMMA RequestKeeps ==
    ASSUME IInv, NEW c \in Clients, NEW r \in Roles, OnReqEnterGameServer(c, r)
    PROVE  IInv'
<1> DEFINE g == netObject[c].gate
           m == Message("REQ_ENTER_GAME", c, r)
<1>1. /\ enters < MaxEnters /\ enters' = enters + 1
      /\ link[g] # 0 /\ toGame' = [toGame EXCEPT ![g] = Append(@, m)]
      /\ asked' = [asked EXCEPT ![c] = @ \cup {r}]
      /\ contested' \in {contested, contested \cup {r}}
      /\ Connected(c)
      /\ UNCHANGED <<gateVars, closedSockets, toGate, gameVars, dbVars, links, faults,
                     latest, doubleLoaded, overtaken, abandoned, lost>>
    BY DEF OnReqEnterGameServer, Connected
<1>2. g \in Gates /\ m \in ToGameMessage
    BY <1>1, ConnectedTyped DEF Message, ToGameMessage
<1> HIDE DEF g, m
<1>3. ToGameTypes /\ ToGameTypes'
    BY <1>1, <1>2, AppendTyped DEF IInv, Typed, ToGameTypes
<1>4. BoundTypes' /\ HistoryTypes'
    BY <1>1, DBOfRoleAssumption, SessionBounds, GuidsAssumption
       DEF IInv, Typed, BoundTypes, HistoryTypes
<1>5. NetObjectTypes' /\ LinkTypes' /\ ToGateTypes' /\ DBTypes'
    BY <1>1 DEF IInv, Typed, gateVars, dbVars, NetObjectTypes, LinkTypes, ToGateTypes, DBTypes
<1>6. ListTypes' /\ PlayerTypes' /\ PlayersAgree'
    BY <1>1, PlayersTyped, PlayersStay DEF IInv, Typed
<1>7. SendersAreLinked'
    BY <1>1, <1>2, <1>3 DEF IInv, SendersAreLinked, ToGameTypes, gateVars
<1>8. Typed'
    BY <1>3, <1>4, <1>5, <1>6 DEF Typed
<1> QED BY <1>6, <1>7, <1>8 DEF IInv

LEMMA DisconnectKeeps ==
    ASSUME IInv, NEW c \in Clients, OnClientDisconnect(c)
    PROVE  IInv'
<1> DEFINE g == netObject[c].gate
           r == netObject[c].userID
           m == Message("REQ_LEAVE_GAME", c, r)
<1>1. /\ Connected(c) /\ netObject' = [netObject EXCEPT ![c].state = "closed"]
      /\ \/ toGame' = toGame
         \/ r # NULL /\ link[g] # 0 /\ toGame' = [toGame EXCEPT ![g] = Append(@, m)]
      /\ lost' = lost \/ (r # NULL /\ lost' = lost \cup {r})
      /\ abandoned' = abandoned \cup (asked[c] \ {r})
      /\ UNCHANGED <<link, closedSockets, toGate, gameVars, dbVars, bounds,
                     latest, asked, contested, doubleLoaded, overtaken>>
    BY DEF OnClientDisconnect
<1>2. g \in Gates /\ g # NULL
    BY <1>1, ConnectedTyped
<1>3. r \in Roles \cup {NULL} /\ (r # NULL => m \in ToGameMessage)
    <2>1. netObject[c] \in NetObject
        BY DEF IInv, Typed, NetObjectTypes
    <2> QED BY <2>1 DEF NetObject, Message, ToGameMessage
<1> HIDE DEF g, m
<1>4. NetObjectTypes'
    <2> DEFINE x == netObject[c]
               y == [x EXCEPT !.state = "closed"]
    <2>1. NetObjectTypes /\ x \in NetObject
        BY DEF IInv, Typed, NetObjectTypes
    <2>2. netObject' = [netObject EXCEPT ![c] = y]
        BY <1>1
    <2>3. y \in NetObject /\ y.gate # NULL /\ y.state # "none"
        BY <1>2, <2>1 DEF NetObject, g
    <2> HIDE DEF y
    <2> QED BY <2>1, <2>2, <2>3, NetObjectTyped
<1>5. ToGameTypes /\ ToGameTypes'
    <2>1. toGame \in [Gates -> Seq(ToGameMessage)]
        BY DEF IInv, Typed, ToGameTypes
    <2>2. CASE toGame' = toGame
        BY <2>1, <2>2 DEF ToGameTypes
    <2>3. CASE r # NULL /\ toGame' = [toGame EXCEPT ![g] = Append(@, m)]
        BY <2>1, <2>3, <1>2, <1>3, AppendTyped DEF ToGameTypes
    <2> QED BY <1>1, <2>2, <2>3
<1>6. HistoryTypes'
    BY <1>1, <1>3 DEF IInv, Typed, HistoryTypes
<1>7. LinkTypes' /\ ToGateTypes' /\ DBTypes' /\ BoundTypes'
    BY <1>1 DEF IInv, Typed, dbVars, bounds, LinkTypes, ToGateTypes, DBTypes, BoundTypes
<1>8. ListTypes' /\ PlayerTypes' /\ PlayersAgree'
    BY <1>1, PlayersTyped, PlayersStay DEF IInv, Typed
<1>9. SendersAreLinked'
    BY <1>1, <1>2, <1>5 DEF IInv, SendersAreLinked, ToGameTypes
<1>10. Typed'
    BY <1>4, <1>5, <1>6, <1>7, <1>8 DEF Typed
<1> QED BY <1>8, <1>9, <1>10 DEF IInv

LEMMA AckKeeps ==
    ASSUME IInv, NEW g \in Gates, EnterGameSuccessEvent(g)
    PROVE  IInv'
<1> DEFINE m == Head(toGate[g])
<1>1. /\ toGate[g] # <<>> /\ toGate' = [toGate EXCEPT ![g] = Tail(@)]
      /\ netObject' \in {netObject, [netObject EXCEPT ![m.client].userID = m.role]}
      /\ UNCHANGED <<link, closedSockets, toGame, gameVars, dbVars, bounds, history>>
    BY DEF EnterGameSuccessEvent
<1>2. m \in ToGateMessage /\ ToGateTypes'
    BY <1>1, ReadTyped DEF IInv, Typed, ToGateTypes
<1> HIDE DEF m
<1>3. m.client \in Clients /\ m.role \in Roles
    BY <1>2 DEF ToGateMessage
<1>4. NetObjectTypes'
    <2> DEFINE x == netObject[m.client]
               y == [x EXCEPT !.userID = m.role]
    <2>1. NetObjectTypes /\ x \in NetObject /\ (x.gate = NULL <=> x.state = "none")
        BY <1>3 DEF IInv, Typed, NetObjectTypes
    <2>2. CASE netObject' = netObject
        BY <2>1, <2>2 DEF NetObjectTypes
    <2>3. CASE netObject' = [netObject EXCEPT ![m.client] = y]
        <3>1. y \in NetObject /\ (y.gate = NULL <=> y.state = "none")
            BY <1>3, <2>1 DEF NetObject
        <3> HIDE DEF y
        <3> QED BY <1>3, <2>1, <2>3, <3>1, NetObjectTyped
    <2> QED BY <1>1, <2>2, <2>3
<1>5. /\ LinkTypes' /\ ToGameTypes' /\ DBTypes' /\ BoundTypes' /\ HistoryTypes'
      /\ SendersAreLinked'
    BY <1>1 DEF IInv, Typed, dbVars, bounds, history, LinkTypes, ToGameTypes, DBTypes,
        BoundTypes, HistoryTypes, SendersAreLinked
<1>6. ListTypes' /\ PlayerTypes' /\ PlayersAgree'
    BY <1>1, PlayersTyped, PlayersStay DEF IInv, Typed
<1>7. Typed'
    BY <1>2, <1>4, <1>5, <1>6 DEF Typed
<1> QED BY <1>5, <1>6, <1>7 DEF IInv

-------------------------------------------------------------------------------
(* The connection of a gate. *)

LEMMA RegisterKeeps ==
    ASSUME IInv, NEW g \in Gates, Register(g)
    PROVE  IInv'
<1>1. /\ links < MaxLinks /\ links' = links + 1 /\ link' = [link EXCEPT ![g] = links + 1]
      /\ toGame' = [toGame EXCEPT ![g] = <<Message("PTWG_PROXY_REGISTERED", NULL, NULL)>>]
      /\ UNCHANGED <<netObject, closedSockets, toGate, gameVars, dbVars, enters, faults, history>>
    BY DEF Register
<1>2. LinkTypes' /\ BoundTypes' /\ LinkTypes /\ BoundTypes
    BY <1>1, DBOfRoleAssumption, SessionBounds, GuidsAssumption
       DEF IInv, Typed, LinkTypes, BoundTypes
<1>3. ToGameTypes /\ ToGameTypes'
    <2>1. <<Message("PTWG_PROXY_REGISTERED", NULL, NULL)>> \in Seq(ToGameMessage)
        BY DEF ToGameMessage
    <2> QED BY <1>1, <2>1 DEF IInv, Typed, ToGameTypes
<1>4. NetObjectTypes' /\ ToGateTypes' /\ DBTypes' /\ HistoryTypes'
    BY <1>1 DEF IInv, Typed, dbVars, history, NetObjectTypes, ToGateTypes, DBTypes, HistoryTypes
<1>5. ListTypes' /\ PlayerTypes' /\ PlayersAgree'
    BY <1>1, PlayersTyped, PlayersStay DEF IInv, Typed
<1>6. SendersAreLinked'
    BY <1>1, <1>2, <1>3 DEF IInv, SendersAreLinked, LinkTypes, ToGameTypes, BoundTypes
<1>7. Typed'
    BY <1>2, <1>3, <1>4, <1>5 DEF Typed
<1> QED BY <1>5, <1>6, <1>7 DEF IInv

\* The roles of what is on its way.
LEMMA RolesInTyped ==
    /\ \A q \in Seq(ToGameMessage \cup ToGateMessage) : RolesIn(q) \subseteq Roles
    /\ \A q \in Seq(ToDBMessage) : RolesIn(q) \subseteq Roles
    /\ \A q \in Seq(FromDBMessage) : RolesIn(q) \subseteq Roles
<1>1. \A S : \A q \in Seq(S) : \A m \in ToSet(q) : m \in S
    BY DEF ToSet
<1>2. \A m \in ToGameMessage \cup ToGateMessage \cup ToDBMessage \cup FromDBMessage :
        m.role \in Roles \cup {NULL}
    BY DEF ToGameMessage, ToGateMessage, ToDBMessage, FromDBMessage, Message
<1> QED BY <1>1, <1>2 DEF RolesIn

LEMMA LinkBreaksKeeps ==
    ASSUME IInv, NEW g \in Gates, LinkBreaks(g)
    PROVE  IInv'
<1>1. /\ link[g] # 0 /\ link' = [link EXCEPT ![g] = 0]
      /\ closedSockets' = closedSockets \cup {link[g]}
      /\ lost' = lost \cup RolesIn(toGame[g] \o toGate[g])
      /\ toGame' = [toGame EXCEPT ![g] = <<>>] /\ toGate' = [toGate EXCEPT ![g] = <<>>]
      /\ UNCHANGED <<netObject, gameVars, dbVars, bounds,
                     latest, asked, contested, doubleLoaded, overtaken, abandoned>>
    BY DEF LinkBreaks
<1>2. LinkTypes /\ LinkTypes'
    <2>1. LinkTypes /\ link[g] \in 1 .. MaxLinks
        BY <1>1 DEF IInv, Typed, LinkTypes
    <2>2. link' \in [Gates -> 0 .. MaxLinks]
        BY <1>1, <2>1, DBOfRoleAssumption, SessionBounds, GuidsAssumption
           DEF LinkTypes
    <2>3. closedSockets' \subseteq 1 .. MaxLinks
        BY <1>1, <2>1 DEF LinkTypes
    <2> QED BY <2>1, <2>2, <2>3 DEF LinkTypes
<1>3. ToGameTypes /\ ToGateTypes /\ ToGameTypes' /\ ToGateTypes'
    BY <1>1 DEF IInv, Typed, ToGameTypes, ToGateTypes
<1>4. RolesIn(toGame[g] \o toGate[g]) \subseteq Roles
    <2>1. toGame[g] \in Seq(ToGameMessage \cup ToGateMessage)
          /\ toGate[g] \in Seq(ToGameMessage \cup ToGateMessage)
        BY <1>3 DEF ToGameTypes, ToGateTypes
    <2>2. toGame[g] \o toGate[g] \in Seq(ToGameMessage \cup ToGateMessage)
        BY <2>1
    <2> QED BY <2>2, RolesInTyped
<1>5. HistoryTypes'
    BY <1>1, <1>4 DEF IInv, Typed, HistoryTypes
<1>6. NetObjectTypes' /\ DBTypes' /\ BoundTypes'
    BY <1>1 DEF IInv, Typed, dbVars, bounds, NetObjectTypes, DBTypes, BoundTypes
<1>7. ListTypes' /\ PlayerTypes' /\ PlayersAgree'
    BY <1>1, PlayersTyped, PlayersStay DEF IInv, Typed
<1>8. SendersAreLinked'
    BY <1>1, <1>2, <1>3 DEF IInv, SendersAreLinked, LinkTypes, ToGameTypes
<1>9. Typed'
    BY <1>2, <1>3, <1>5, <1>6, <1>7 DEF Typed
<1> QED BY <1>7, <1>8, <1>9 DEF IInv

\* The lists of gates that are not there any more go with them.
LEMMA GateDisconnectKeeps ==
    ASSUME IInv, NEW s \in closedSockets, OnGateDisconnect(s)
    PROVE  IInv'
<1>1. /\ closedSockets' = closedSockets \ {s}
      /\ mProxyMap' = [g \in Gates |-> IF mProxyMap[g] = s THEN 0 ELSE mProxyMap[g]]
      /\ xRoleInfo' = [g \in Gates |-> IF mProxyMap[g] = s THEN {} ELSE xRoleInfo[g]]
      /\ UNCHANGED <<gateVars, toGame, toGate, mRoleBaseData, object, dbVars, bounds, history>>
    BY DEF OnGateDisconnect
<1>2. LinkTypes' /\ ListTypes' /\ ListTypes
    BY <1>1, DBOfRoleAssumption, SessionBounds, GuidsAssumption
       DEF IInv, Typed, LinkTypes, ListTypes, gateVars
<1>3. PlayersAgree'
    BY <1>1 DEF IInv, PlayersAgree, PlayersHaveGateInfo, GateListsItsRoles
<1>4. /\ NetObjectTypes' /\ ToGameTypes' /\ ToGateTypes' /\ PlayerTypes' /\ DBTypes'
      /\ BoundTypes' /\ HistoryTypes' /\ SendersAreLinked'
    BY <1>1 DEF IInv, Typed, gateVars, dbVars, bounds, history, NetObjectTypes, ToGameTypes,
        ToGateTypes, PlayerTypes, DBTypes, BoundTypes, HistoryTypes, SendersAreLinked
<1>5. Typed'
    BY <1>2, <1>4 DEF Typed
<1> QED BY <1>3, <1>4, <1>5 DEF IInv

-------------------------------------------------------------------------------
(* The game server. *)

\* What reading a gate's message leaves as it is.
LEMMA ReceiveKeeps ==
    ASSUME IInv, NEW g \in Gates, NEW type, Receive(g, type),
           UNCHANGED <<gateVars, closedSockets>>
    PROVE  NetObjectTypes' /\ LinkTypes' /\ ToGameTypes' /\ SendersAreLinked'
<1>1. /\ toGame[g] # <<>> /\ toGame' = [toGame EXCEPT ![g] = Tail(@)]
      /\ ToGameTypes /\ SendersAreLinked
    BY DEF Receive, IInv, Typed
<1>2. ToGameTypes'
    BY <1>1, ReadTyped DEF ToGameTypes
<1>3. SendersAreLinked'
    BY <1>1 DEF SendersAreLinked, ToGameTypes, gateVars
<1>4. NetObjectTypes' /\ LinkTypes'
    BY DEF IInv, Typed, NetObjectTypes, LinkTypes, gateVars
<1> QED BY <1>2, <1>3, <1>4

LEMMA RegisteredKeeps ==
    ASSUME IInv, NEW g \in Gates, OnProxyServerRegisteredProcess(g)
    PROVE  IInv'
<1>1. /\ Receive(g, "PTWG_PROXY_REGISTERED")
      /\ mProxyMap' = [mProxyMap EXCEPT ![g] = link[g]]
      /\ UNCHANGED <<gateVars, closedSockets, toGate, xRoleInfo, mRoleBaseData, object,
                     dbVars, bounds, history>>
    BY DEF OnProxyServerRegisteredProcess
<1>2. NetObjectTypes' /\ LinkTypes' /\ ToGameTypes' /\ SendersAreLinked'
    BY <1>1, ReceiveKeeps
<1>3. link[g] # 0 /\ link[g] \in 0 .. MaxLinks
    BY <1>1 DEF IInv, Typed, SendersAreLinked, Receive, LinkTypes
<1>4. ListTypes /\ ListTypes'
    BY <1>1, <1>3 DEF IInv, Typed, ListTypes
<1>5. PlayersAgree'
    BY <1>1, <1>3, <1>4 DEF IInv, PlayersAgree, PlayersHaveGateInfo, GateListsItsRoles, ListTypes
<1>6. ToGateTypes' /\ PlayerTypes' /\ DBTypes' /\ BoundTypes' /\ HistoryTypes'
    BY <1>1 DEF IInv, Typed, dbVars, bounds, history, ToGateTypes, PlayerTypes, DBTypes,
        BoundTypes, HistoryTypes
<1>7. Typed'
    BY <1>2, <1>4, <1>6 DEF Typed
<1> QED BY <1>2, <1>5, <1>7 DEF IInv

\* The object is saved and goes, and its gate info goes with it.
LEMMA LeaveKeeps ==
    ASSUME IInv, NEW g \in Gates, OnClientLeaveGameProcess(g)
    PROVE  IInv'
<1> DEFINE r == Head(toGame[g]).role
<1>1. /\ Receive(g, "REQ_LEAVE_GAME")
      /\ toDB' = SaveData(toDB, r)
      /\ object' = [object EXCEPT ![r] = NoObject]
      /\ xRoleInfo' = RemovePlayerGateInfo(r)
      /\ mRoleBaseData' = [mRoleBaseData EXCEPT ![r] = NoBase]
      /\ UNCHANGED <<gateVars, closedSockets, toGate, mProxyMap, fromDB, redis, bounds, history>>
    BY DEF OnClientLeaveGameProcess
<1>2. NetObjectTypes' /\ LinkTypes' /\ ToGameTypes' /\ SendersAreLinked'
    BY <1>1, ReceiveKeeps
<1>3. r \in Roles
    BY <1>1, RequestTyped DEF IInv, Typed
<1> HIDE DEF r
<1>4. PlayerTypes /\ PlayerTypes'
    BY <1>1, <1>3 DEF IInv, Typed, PlayerTypes, Base
<1>5. DBTypes'
    BY <1>1, <1>3, <1>4, SaveDataTyped DEF IInv, Typed, DBTypes
<1>6. ListTypes /\ ListTypes'
    BY <1>1, <1>3, RemovePlayerGateInfoLists DEF IInv, Typed, ListTypes
<1>7. \A h \in Gates : \A x \in xRoleInfo'[h] :
        x \in xRoleInfo[h] /\ (x = r => h # mRoleBaseData[r].gateID)
    BY <1>1, <1>3, <1>6, RemovePlayerGateInfoLists
<1>8. PlayersAgree'
    BY <1>1, <1>3, <1>4, <1>6, <1>7 DEF IInv, PlayersAgree, PlayersHaveGateInfo,
        GateListsItsRoles, PlayerTypes, ListTypes
<1>9. ToGateTypes' /\ BoundTypes' /\ HistoryTypes'
    BY <1>1 DEF IInv, Typed, bounds, history, ToGateTypes, BoundTypes, HistoryTypes
<1>10. Typed'
    BY <1>2, <1>4, <1>5, <1>6, <1>9 DEF Typed
<1> QED BY <1>2, <1>8, <1>10 DEF IInv

LEMMA EnterWhileLoadingKeeps ==
    ASSUME IInv, NEW g \in Gates, OnClientEnterGameWhileLoading(g)
    PROVE  IInv'
<1> DEFINE r == Head(toGame[g]).role
<1>1. /\ Receive(g, "REQ_ENTER_GAME")
      /\ toDB' = SaveData(toDB, r)
      /\ object' = [object EXCEPT ![r] = NoObject]
      /\ UNCHANGED <<gateVars, closedSockets, toGate, mProxyMap, xRoleInfo, mRoleBaseData,
                     fromDB, redis, bounds, history>>
    BY DEF OnClientEnterGameWhileLoading
<1>2. NetObjectTypes' /\ LinkTypes' /\ ToGameTypes' /\ SendersAreLinked'
    BY <1>1, ReceiveKeeps
<1>3. r \in Roles
    BY <1>1, RequestTyped DEF IInv, Typed
<1> HIDE DEF r
<1>4. PlayerTypes /\ PlayerTypes'
    BY <1>1, <1>3 DEF IInv, Typed, PlayerTypes
<1>5. DBTypes'
    BY <1>1, <1>3, <1>4, SaveDataTyped DEF IInv, Typed, DBTypes
<1>6. PlayersAgree'
    BY <1>1, <1>3, <1>4 DEF IInv, PlayersAgree, PlayersHaveGateInfo, GateListsItsRoles, PlayerTypes
<1>7. ListTypes' /\ ToGateTypes' /\ BoundTypes' /\ HistoryTypes'
    BY <1>1 DEF IInv, Typed, bounds, history, ListTypes, ToGateTypes, BoundTypes, HistoryTypes
<1>8. Typed'
    BY <1>2, <1>4, <1>5, <1>7 DEF Typed
<1> QED BY <1>2, <1>6, <1>8 DEF IInv

\* The gate info is replaced and the new gate lists the role: no other does, since
\* it was taken off the list of the gate it was bound to.
LEMMA EnterKeeps ==
    ASSUME IInv, NEW g \in Gates, NEW d \in DBs, NEW garbage \in {"E_LOADING", "other"},
           OnClientEnterGameProcess(g, d, garbage)
    PROVE  IInv'
<1> DEFINE m == Head(toGame[g])
           r == m.role
           base == [gateID |-> g, xClientID |-> m.client, eStatus |-> garbage]
           load == [type |-> "LOAD", role |-> r, data |-> 0]
<1>1. /\ Receive(g, "REQ_ENTER_GAME") /\ mProxyMap[g] = link[g]
      /\ object' = [object EXCEPT ![r] = NoObject]
      /\ mRoleBaseData' = [mRoleBaseData EXCEPT ![r] = base]
      /\ xRoleInfo' = [RemovePlayerGateInfo(r) EXCEPT ![g] = @ \cup {r}]
      /\ toDB' = [SaveData(toDB, r) EXCEPT ![d] = Append(@, load)]
      /\ overtaken' \in {overtaken, overtaken \cup {r}}
      /\ doubleLoaded' \in {doubleLoaded, doubleLoaded \cup {r}}
      /\ UNCHANGED <<gateVars, closedSockets, toGate, mProxyMap, fromDB, redis, bounds,
                     latest, asked, contested, abandoned, lost>>
    BY DEF OnClientEnterGameProcess
<1>2. NetObjectTypes' /\ LinkTypes' /\ ToGameTypes' /\ SendersAreLinked'
    BY <1>1, ReceiveKeeps
<1>3. r \in Roles /\ m.client \in Clients
    BY <1>1, RequestTyped DEF IInv, Typed
<1>4. base \in Base /\ base # NoBase /\ base.gateID = g /\ load \in ToDBMessage
    BY <1>3, DBOfRoleAssumption, SessionBounds, GuidsAssumption
       DEF Base, NoBase, ToDBMessage, Data, NULL
<1> HIDE DEF m, r, base, load
<1>5. PlayerTypes /\ PlayerTypes'
    BY <1>1, <1>3, <1>4 DEF IInv, Typed, PlayerTypes
<1>6. DBTypes'
    <2>1. SaveData(toDB, r) \in [DBs -> Seq(ToDBMessage)]
        BY <1>3, <1>5, SaveDataTyped DEF IInv, Typed, DBTypes
    <2>2. toDB' \in [DBs -> Seq(ToDBMessage)]
        BY <1>1, <1>4, <2>1, AppendTyped
    <2> QED BY <1>1, <2>2 DEF IInv, Typed, DBTypes
<1>7. ListTypes /\ ListTypes'
    BY <1>1, <1>3, RemovePlayerGateInfoLists DEF IInv, Typed, ListTypes
<1>8. \A h \in Gates : \A x \in xRoleInfo'[h] :
        IF x = r THEN h = g ELSE x \in xRoleInfo[h]
    <2> SUFFICES ASSUME NEW h \in Gates, NEW x \in xRoleInfo'[h]
                 PROVE  IF x = r THEN h = g ELSE x \in xRoleInfo[h]
        OBVIOUS
    <2>1. CASE h = g
        BY <1>1, <1>3, <1>7, <2>1, RemovePlayerGateInfoLists
    <2>2. CASE h # g
        <3>1. x \in RemovePlayerGateInfo(r)[h]
            BY <1>1, <1>3, <1>7, <2>2, RemovePlayerGateInfoLists
        <3>2. x \in xRoleInfo[h] /\ (x = r => h # mRoleBaseData[r].gateID)
            BY <1>3, <1>7, <3>1, RemovePlayerGateInfoLists
        <3> QED BY <1>3, <3>2 DEF IInv, PlayersAgree, GateListsItsRoles
    <2> QED BY <2>1, <2>2
<1>9. mProxyMap[g] # 0
    BY <1>1 DEF IInv, SendersAreLinked, Receive
<1>10. PlayersAgree'
    <2>1. PlayersHaveGateInfo'
        BY <1>1, <1>3, <1>4, <1>5 DEF IInv, PlayersAgree, PlayersHaveGateInfo, PlayerTypes
    <2>2. GateListsItsRoles'
        <3> SUFFICES ASSUME NEW h \in Gates, NEW x \in xRoleInfo'[h]
                     PROVE  mProxyMap'[h] # 0 /\ mRoleBaseData'[x].gateID = h
            BY DEF GateListsItsRoles
        <3>1. x \in Roles /\ mProxyMap' = mProxyMap
            BY <1>1, <1>7 DEF ListTypes
        <3>2. CASE x = r
            BY <1>1, <1>3, <1>4, <1>5, <1>8, <1>9, <3>1, <3>2 DEF PlayerTypes
        <3>3. CASE x # r
            <4>1. x \in xRoleInfo[h] /\ mRoleBaseData'[x] = mRoleBaseData[x]
                BY <1>1, <1>5, <1>8, <3>1, <3>3 DEF PlayerTypes
            <4> QED BY <3>1, <4>1 DEF IInv, PlayersAgree, GateListsItsRoles
        <3> QED BY <3>2, <3>3
    <2> QED BY <2>1, <2>2 DEF PlayersAgree
<1>11. HistoryTypes'
    BY <1>1, <1>3 DEF IInv, Typed, HistoryTypes
<1>12. ToGateTypes' /\ BoundTypes'
    BY <1>1 DEF IInv, Typed, bounds, ToGateTypes, BoundTypes
<1>13. Typed'
    BY <1>2, <1>5, <1>6, <1>7, <1>11, <1>12 DEF Typed
<1> QED BY <1>2, <1>10, <1>13 DEF IInv

LEMMA LoadedTyped ==
    ASSUME NEW base \in Base, base # NoBase
    PROVE  /\ Loaded(base) \in Base /\ Loaded(base) # NoBase
           /\ Loaded(base).gateID = base.gateID
<1>1. CASE base.eStatus = "E_LOADING"
    <2>1. Loaded(base) = [base EXCEPT !.eStatus = "E_LOADED"]
        BY <1>1 DEF Loaded
    <2>2. /\ base.gateID \in Gates /\ Loaded(base) \in Base
          /\ Loaded(base).gateID = base.gateID
        BY <2>1 DEF Base
    <2> QED BY <2>2, DBOfRoleAssumption, SessionBounds, GuidsAssumption
               DEF NoBase, NULL
<1>2. CASE base.eStatus # "E_LOADING"
    BY <1>2 DEF Loaded
<1> QED BY <1>1, <1>2

\* The answer of a load: without gate info there is no object any more, with it
\* there is a new one.
LEMMA LoadRoleDataKeeps ==
    ASSUME IInv, NEW d \in DBs, OnDBLoadRoleDataProcess(d)
    PROVE  IInv'
<1> DEFINE r == Head(fromDB[d]).role
           data == Head(fromDB[d]).data
           base == mRoleBaseData[r]
           m == Message("ACK_ENTER_GAME", base.xClientID, r)
<1>1. /\ fromDB[d] # <<>> /\ fromDB' = [fromDB EXCEPT ![d] = Tail(@)]
      /\ toDB' = SaveData(toDB, r)
      /\ \/ /\ base = NoBase /\ object' = [object EXCEPT ![r] = NoObject]
            /\ UNCHANGED <<mRoleBaseData, toGate>>
         \/ /\ base # NoBase /\ object' = [object EXCEPT ![r] = data]
            /\ mRoleBaseData' = [mRoleBaseData EXCEPT ![r] = Loaded(base)]
            /\ toGate' \in {toGate, [toGate EXCEPT ![base.gateID] = Append(@, m)]}
      /\ lost' \in {lost, lost \cup {r}}
      /\ UNCHANGED <<gateVars, closedSockets, toGame, mProxyMap, xRoleInfo, redis, bounds,
                     latest, asked, contested, doubleLoaded, overtaken, abandoned>>
    BY DEF OnDBLoadRoleDataProcess
<1>2. Head(fromDB[d]) \in FromDBMessage /\ fromDB' \in [DBs -> Seq(FromDBMessage)]
    BY <1>1, ReadTyped DEF IInv, Typed, DBTypes
<1>3. r \in Roles /\ data \in Data
    BY <1>2 DEF FromDBMessage
<1>4. base \in Base /\ PlayerTypes
    BY <1>3 DEF IInv, Typed, PlayerTypes
<1>5. base # NoBase => /\ base.gateID \in Gates /\ m \in ToGateMessage
                       /\ Loaded(base) \in Base /\ Loaded(base) # NoBase
                       /\ Loaded(base).gateID = base.gateID
    <2>1. base # NoBase => base.gateID \in Gates /\ base.xClientID \in Clients
        BY <1>4 DEF Base
    <2> QED BY <1>3, <1>4, <2>1, LoadedTyped DEF Message, ToGateMessage
<1> HIDE DEF r, data, m
<1>6. PlayerTypes'
    BY <1>1, <1>3, <1>4, <1>5 DEF PlayerTypes
<1>7. DBTypes'
    BY <1>1, <1>2, <1>3, <1>4, SaveDataTyped DEF IInv, Typed, DBTypes
<1>8. ToGateTypes'
    <2>1. toGate \in [Gates -> Seq(ToGateMessage)]
        BY DEF IInv, Typed, ToGateTypes
    <2>2. CASE toGate' = toGate
        BY <2>1, <2>2 DEF ToGateTypes
    <2>3. CASE base # NoBase /\ toGate' = [toGate EXCEPT ![base.gateID] = Append(@, m)]
        BY <2>1, <2>3, <1>5, AppendTyped DEF ToGateTypes
    <2> QED BY <1>1, <2>2, <2>3
<1>9. PlayersAgree'
    <2>1. PlayersHaveGateInfo'
        BY <1>1, <1>3, <1>4, <1>5, <1>6 DEF IInv, PlayersAgree, PlayersHaveGateInfo, PlayerTypes
    <2>2. \A x \in Roles : mRoleBaseData'[x].gateID = mRoleBaseData[x].gateID
        BY <1>1, <1>3, <1>4, <1>5, <1>6 DEF PlayerTypes
    <2>3. GateListsItsRoles'
        BY <1>1, <2>2 DEF IInv, Typed, ListTypes, PlayersAgree, GateListsItsRoles
    <2> QED BY <2>1, <2>3 DEF PlayersAgree
<1>10. HistoryTypes'
    BY <1>1, <1>3 DEF IInv, Typed, HistoryTypes
<1>11. /\ NetObjectTypes' /\ LinkTypes' /\ ToGameTypes' /\ ListTypes' /\ BoundTypes'
       /\ SendersAreLinked'
    BY <1>1 DEF IInv, Typed, gateVars, bounds, NetObjectTypes, LinkTypes, ToGameTypes, ListTypes,
        BoundTypes, SendersAreLinked
<1>12. Typed'
    BY <1>6, <1>7, <1>8, <1>10, <1>11 DEF Typed
<1> QED BY <1>9, <1>11, <1>12 DEF IInv

LEMMA SaveOnTimeKeeps ==
    ASSUME IInv, NEW r \in Roles, SaveDataOnTime(r)
    PROVE  IInv'
<1>1. /\ toDB' = SaveData(toDB, r)
      /\ UNCHANGED <<gateVars, netVars, gameVars, fromDB, redis, bounds, history>>
    BY DEF SaveDataOnTime
<1>2. DBTypes'
    BY <1>1, SaveDataTyped DEF IInv, Typed, DBTypes
<1>3. /\ NetObjectTypes' /\ LinkTypes' /\ ToGameTypes' /\ ToGateTypes' /\ BoundTypes'
      /\ HistoryTypes' /\ SendersAreLinked'
    BY <1>1 DEF IInv, Typed, gateVars, netVars, bounds, history, NetObjectTypes, LinkTypes,
        ToGameTypes, ToGateTypes, BoundTypes, HistoryTypes, SendersAreLinked
<1>4. ListTypes' /\ PlayerTypes' /\ PlayersAgree'
    BY <1>1, PlayersTyped, PlayersStay DEF IInv, Typed
<1>5. Typed'
    BY <1>2, <1>3, <1>4 DEF Typed
<1> QED BY <1>3, <1>4, <1>5 DEF IInv

LEMMA SetPropertyKeeps ==
    ASSUME IInv, NEW r \in Roles, SetProperty(r)
    PROVE  IInv'
<1>1. /\ object[r] # NoObject /\ latest[r] < MaxData
      /\ object' = [object EXCEPT ![r] = latest[r] + 1]
      /\ latest' = [latest EXCEPT ![r] = latest[r] + 1]
      /\ UNCHANGED <<gateVars, netVars, mProxyMap, xRoleInfo, mRoleBaseData, dbVars, bounds,
                     asked, contested, doubleLoaded, overtaken, abandoned, lost>>
    BY DEF SetProperty
<1>2. PlayerTypes /\ HistoryTypes /\ latest[r] + 1 \in Data
    BY <1>1, DBOfRoleAssumption, SessionBounds, GuidsAssumption
       DEF IInv, Typed, HistoryTypes, Data
<1>3. PlayerTypes' /\ HistoryTypes'
    BY <1>1, <1>2 DEF PlayerTypes, HistoryTypes
<1>4. PlayersAgree'
    BY <1>1, <1>2 DEF IInv, PlayersAgree, PlayersHaveGateInfo, GateListsItsRoles, PlayerTypes
<1>5. /\ NetObjectTypes' /\ LinkTypes' /\ ToGameTypes' /\ ToGateTypes' /\ ListTypes'
      /\ DBTypes' /\ BoundTypes' /\ SendersAreLinked'
    BY <1>1 DEF IInv, Typed, gateVars, netVars, dbVars, bounds, NetObjectTypes, LinkTypes,
        ToGameTypes, ToGateTypes, ListTypes, DBTypes, BoundTypes, SendersAreLinked
<1>6. Typed'
    BY <1>3, <1>5 DEF Typed
<1> QED BY <1>4, <1>5, <1>6 DEF IInv

-------------------------------------------------------------------------------
(* The DB servers. *)

\* They touch neither gates nor players.
LEMMA OnlyDBKeeps ==
    ASSUME IInv, UNCHANGED <<gateVars, netVars, gameVars, enters, links>>,
           DBTypes', HistoryTypes', faults' \in 0 .. MaxFaults
    PROVE  IInv'
<1>1. /\ NetObjectTypes' /\ LinkTypes' /\ ToGameTypes' /\ ToGateTypes' /\ BoundTypes'
      /\ SendersAreLinked'
    BY DEF IInv, Typed, gateVars, netVars, NetObjectTypes, LinkTypes, ToGameTypes, ToGateTypes,
        BoundTypes, SendersAreLinked
<1>2. ListTypes' /\ PlayerTypes' /\ PlayersAgree'
    BY PlayersTyped, PlayersStay DEF IInv, Typed
<1>3. Typed'
    BY <1>1, <1>2 DEF Typed
<1> QED BY <1>1, <1>2, <1>3 DEF IInv

LEMMA SaveRoleDataKeeps ==
    ASSUME IInv, NEW d \in DBs, OnSaveRoleDataProcess(d)
    PROVE  IInv'
<1> DEFINE m == Head(toDB[d])
<1>1. /\ toDB[d] # <<>> /\ toDB' = [toDB EXCEPT ![d] = Tail(@)]
      /\ redis' = [redis EXCEPT ![m.role] = m.data]
      /\ UNCHANGED <<gateVars, netVars, gameVars, fromDB, bounds, history>>
    BY DEF OnSaveRoleDataProcess
<1>2. m \in ToDBMessage /\ toDB' \in [DBs -> Seq(ToDBMessage)]
    BY <1>1, ReadTyped DEF IInv, Typed, DBTypes
<1> HIDE DEF m
<1>3. DBTypes'
    BY <1>1, <1>2 DEF IInv, Typed, DBTypes, ToDBMessage
<1>4. HistoryTypes' /\ faults' \in 0 .. MaxFaults /\ UNCHANGED <<enters, links>>
    BY <1>1 DEF IInv, Typed, bounds, history, BoundTypes, HistoryTypes
<1> QED BY <1>1, <1>3, <1>4, OnlyDBKeeps

LEMMA LoadFromRedisKeeps ==
    ASSUME IInv, NEW d \in DBs, NEW succeeds \in BOOLEAN, OnLoadRoleDataProcess(d, succeeds)
    PROVE  IInv'
<1> DEFINE r == Head(toDB[d]).role
           m == [role |-> r, data |-> IF succeeds THEN redis[r] ELSE 0]
<1>1. /\ toDB[d] # <<>> /\ toDB' = [toDB EXCEPT ![d] = Tail(@)]
      /\ fromDB' = [fromDB EXCEPT ![d] = Append(@, m)]
      /\ \/ UNCHANGED <<faults, lost>>
         \/ faults < MaxFaults /\ faults' = faults + 1 /\ lost' = lost \cup {r}
      /\ UNCHANGED <<gateVars, netVars, gameVars, redis, enters, links,
                     latest, asked, contested, doubleLoaded, overtaken, abandoned>>
    BY DEF OnLoadRoleDataProcess
<1>2. Head(toDB[d]) \in ToDBMessage /\ toDB' \in [DBs -> Seq(ToDBMessage)]
    BY <1>1, ReadTyped DEF IInv, Typed, DBTypes
<1>3. r \in Roles
    BY <1>2 DEF ToDBMessage
<1>4. m \in FromDBMessage
    BY <1>3, DBOfRoleAssumption, SessionBounds, GuidsAssumption
       DEF IInv, Typed, DBTypes, FromDBMessage, Data
<1> HIDE DEF r, m
<1>5. DBTypes'
    BY <1>1, <1>2, <1>4, AppendTyped DEF IInv, Typed, DBTypes
<1>6. HistoryTypes' /\ faults' \in 0 .. MaxFaults
    BY <1>1, <1>3, DBOfRoleAssumption, SessionBounds, GuidsAssumption
       DEF IInv, Typed, HistoryTypes, BoundTypes
<1> QED BY <1>1, <1>5, <1>6, OnlyDBKeeps

LEMMA DBLinkBreaksKeeps ==
    ASSUME IInv, NEW d \in DBs, DBLinkBreaks(d)
    PROVE  IInv'
<1>1. /\ faults < MaxFaults /\ faults' = faults + 1
      /\ lost' = lost \cup RolesIn(toDB[d]) \cup RolesIn(fromDB[d])
      /\ toDB' = [toDB EXCEPT ![d] = <<>>] /\ fromDB' = [fromDB EXCEPT ![d] = <<>>]
      /\ UNCHANGED <<gateVars, netVars, gameVars, redis, enters, links,
                     latest, asked, contested, doubleLoaded, overtaken, abandoned>>
    BY DEF DBLinkBreaks
<1>2. toDB[d] \in Seq(ToDBMessage) /\ fromDB[d] \in Seq(FromDBMessage)
    BY DEF IInv, Typed, DBTypes
<1>3. RolesIn(toDB[d]) \subseteq Roles /\ RolesIn(fromDB[d]) \subseteq Roles
    BY <1>2, RolesInTyped
<1>4. DBTypes'
    BY <1>1 DEF IInv, Typed, DBTypes
<1>5. HistoryTypes' /\ faults' \in 0 .. MaxFaults
    BY <1>1, <1>3, DBOfRoleAssumption, SessionBounds, GuidsAssumption
       DEF IInv, Typed, HistoryTypes, BoundTypes
<1> QED BY <1>1, <1>4, <1>5, OnlyDBKeeps

-------------------------------------------------------------------------------
LEMMA StepKeeps ==
    ASSUME IInv, [Next]_vars
    PROVE  IInv'
<1>1. CASE ClientSide
    BY <1>1, NetObjectKeeps, RequestKeeps, DisconnectKeeps DEF ClientSide
<1>2. CASE \E g \in Gates : GateReads(g) \/ GameReads(g)
    BY <1>2, AckKeeps, RegisteredKeeps, LeaveKeeps, EnterWhileLoadingKeeps, EnterKeeps
        DEF GateReads, GameReads
<1>3. CASE \E d \in DBs : GameReadsDB(d) \/ DBReads(d)
    BY <1>3, LoadRoleDataKeeps, SaveRoleDataKeeps, LoadFromRedisKeeps DEF GameReadsDB, DBReads
<1>4. CASE Environment
    BY <1>4, RegisterKeeps, LinkBreaksKeeps, GateDisconnectKeeps, SaveOnTimeKeeps,
        SetPropertyKeeps, DBLinkBreaksKeeps DEF Environment
<1>5. CASE UNCHANGED vars
    <2>1. /\ UNCHANGED <<gateVars, netVars, gameVars, enters, links>>
          /\ UNCHANGED <<dbVars, history, faults>>
        BY <1>5 DEF vars, bounds
    <2>2. DBTypes' /\ HistoryTypes' /\ faults' \in 0 .. MaxFaults
        BY <2>1 DEF IInv, Typed, dbVars, history, DBTypes, HistoryTypes, BoundTypes
    <2> QED BY <2>1, <2>2, OnlyDBKeeps
<1> QED BY <1>1, <1>2, <1>3, <1>4, <1>5 DEF Next, Handlers

LEMMA IInvHolds == Spec => []IInv
<1>1. Init => IInv
    BY Start
<1>2. IInv /\ [Next]_vars => IInv'
    BY StepKeeps
<1> QED BY <1>1, <1>2, PTL DEF Spec

\* The tables of the proxy, the game server and the DB servers and all that is on its
\* way between them have their types.
THEOREM TypesCorrect == Spec => []TypeOK
<1>1. IInv => TypeOK
    BY TypedIsTypeOK DEF IInv
<1> QED BY <1>1, IInvHolds, PTL

\* A player in the game has gate info, whatever crosses (OnClientEnterGameProcess,
\* OnDBLoadRoleDataProcess and OnClientLeaveGameProcess against each other).
THEOREM PlayersBound == Spec => []PlayersHaveGateInfo
<1>1. IInv => PlayersHaveGateInfo
    BY DEF IInv, PlayersAgree
<1> QED BY <1>1, IInvHolds, PTL

\* A gate lists only roles bound to it, whatever gates come, go and come back
\* (AddPlayerGateInfo and RemovePlayerGateInfo against OnClientDisconnect and
\* OnProxyServerRegisteredProcess).
THEOREM ListsRight == Spec => []GateListsItsRoles
<1>1. IInv => GateListsItsRoles
    BY DEF IInv, PlayersAgree
<1> QED BY <1>1, IInvHolds, PTL

-------------------------------------------------------------------------------
(***************************************************************************)
(* What GameSession promises of players, for any clients, roles, gates and *)
(* DB servers and any bounds: no progress of a role is lost (NoRollback),  *)
(* and clients and players agree (NoGhostPlayers, EnteredClientsPlay and   *)
(* LeavesEndTheirOwnSession).                                              *)
(*                                                                         *)
(* Safe is the reason for the first. While there is no object, what the    *)
(* store will hold once the saves under way have arrived is the newest     *)
(* data (the last save carries it, or there is none); at most one load is  *)
(* under way, it is behind every save at their DB server, and what answers *)
(* it is the newest data. While there is an object, no load is under way   *)
(* that could replace it by something older.                               *)
(*                                                                         *)
(* SessionsOrdered is the reason for the others. Behind every request of a *)
(* client that is gone, and for every player whose client is gone, a leave *)
(* is on its way (Followed): a gate's requests and leaves keep their       *)
(* order. Of a role nobody contested one client at most has anything to do *)
(* with it (OneClaims), so no leave, answer or request of another one can  *)
(* touch its session. A role with gate info has an object or will get one  *)
(* when its load is answered (PlayedOrLoading).                            *)
(***************************************************************************)
-------------------------------------------------------------------------------
(* The data of roles. *)

\* Messages about role r under way to the DB server d, and from it, at place n.
SaveIn(q, r, d, n) == n \in 1 .. Len(q[d]) /\ q[d][n].type = "SAVE" /\ q[d][n].role = r
LoadIn(q, r, d, n) == n \in 1 .. Len(q[d]) /\ q[d][n].type = "LOAD" /\ q[d][n].role = r
AnswerIn(a, r, d, n) == n \in 1 .. Len(a[d]) /\ a[d][n].role = r

NoLoads(q, a, r) == \A d \in DBs, n \in Nat : ~LoadIn(q, r, d, n) /\ ~AnswerIn(a, r, d, n)
NoSaves(q, r) == \A d \in DBs, n \in Nat : ~SaveIn(q, r, d, n)

\* What of the role's data will be stored once all saves are done is the newest.
NewestIsStored(q, r, stored, newest) ==
    /\ NoSaves(q, r) => stored = newest
    /\ \A d \in DBs, n \in Nat : SaveIn(q, r, d, n) =>
        q[d][n].data = newest \/ \E k \in Nat : k > n /\ SaveIn(q, r, d, k)

\* All saves go to one DB server.
SavesAtHome(q, r) == \A d \in DBs, n \in Nat : SaveIn(q, r, d, n) => d = DBOfRole[r]

\* A load comes behind all saves, at their DB server; none is sent after it.
LoadsSeeSaves(q, r) ==
    \A d, e \in DBs, n, k \in Nat : LoadIn(q, r, d, n) /\ SaveIn(q, r, e, k) => e = d /\ k < n

AnswersAreNewest(q, a, r, newest) ==
    \A d \in DBs, n \in Nat : AnswerIn(a, r, d, n) => a[d][n].data = newest /\ NoSaves(q, r)

\* At most one load is under way, asked for or answered.
OneLoad(q, a, r) ==
    \A d, e \in DBs, n, k \in Nat :
        /\ LoadIn(q, r, d, n) /\ LoadIn(q, r, e, k) => d = e /\ n = k
        /\ AnswerIn(a, r, d, n) /\ AnswerIn(a, r, e, k) => d = e /\ n = k
        /\ ~(LoadIn(q, r, d, n) /\ AnswerIn(a, r, e, k))

\* The data of role r is safe: in the object, or on its way to the store and back.
Safe(r, q, a, stored, obj, newest) ==
    /\ obj # NoObject => obj = newest /\ NoLoads(q, a, r)
    /\ obj = NoObject => NewestIsStored(q, r, stored, newest)
    /\ SavesAtHome(q, r) /\ LoadsSeeSaves(q, r) /\ AnswersAreNewest(q, a, r, newest)
    /\ OneLoad(q, a, r)

Failed == doubleLoaded \cup overtaken \cup lost

DataSafe == \A r \in Roles \ Failed : Safe(r, toDB, fromDB, redis[r], object[r], latest[r])

\* What is in a queue when something was added to it, and when its first was taken.
LEMMA AddedAt ==
    ASSUME NEW S, NEW q \in [DBs -> Seq(S)], NEW d \in DBs, NEW m \in S
    PROVE  \A e \in DBs : \A n \in Nat :
            /\ n \in 1 .. Len([q EXCEPT ![d] = Append(@, m)][e]) <=>
                n \in 1 .. Len(q[e]) \/ (e = d /\ n = Len(q[d]) + 1)
            /\ n \in 1 .. Len(q[e]) => [q EXCEPT ![d] = Append(@, m)][e][n] = q[e][n]
            /\ e = d /\ n = Len(q[d]) + 1 => [q EXCEPT ![d] = Append(@, m)][e][n] = m
<1> SUFFICES ASSUME NEW e \in DBs
             PROVE  \A n \in Nat :
                /\ n \in 1 .. Len([q EXCEPT ![d] = Append(@, m)][e]) <=>
                    n \in 1 .. Len(q[e]) \/ (e = d /\ n = Len(q[d]) + 1)
                /\ n \in 1 .. Len(q[e]) => [q EXCEPT ![d] = Append(@, m)][e][n] = q[e][n]
                /\ e = d /\ n = Len(q[d]) + 1 => [q EXCEPT ![d] = Append(@, m)][e][n] = m
    OBVIOUS
<1>1. CASE e # d
    BY <1>1
<1>2. CASE e = d
    <2>1. [q EXCEPT ![d] = Append(@, m)][e] = Append(q[d], m) /\ q[d] \in Seq(S)
        BY <1>2
    <2>2. Len(Append(q[d], m)) = Len(q[d]) + 1 /\ Len(q[d]) \in Nat
        BY <2>1
    <2>3. \A n \in 1 .. Len(q[d]) : Append(q[d], m)[n] = q[d][n]
        BY <2>1
    <2>4. Append(q[d], m)[Len(q[d]) + 1] = m
        BY <2>1
    <2> QED BY <1>2, <2>1, <2>2, <2>3, <2>4
<1> QED BY <1>1, <1>2

LEMMA TakenAt ==
    ASSUME NEW S, NEW q \in [DBs -> Seq(S)], NEW d \in DBs, q[d] # <<>>
    PROVE  /\ \A e \in DBs : \A n \in Nat :
                /\ n \in 1 .. Len([q EXCEPT ![d] = Tail(@)][e]) <=>
                    IF e = d THEN n # 0 /\ n + 1 \in 1 .. Len(q[e]) ELSE n \in 1 .. Len(q[e])
                /\ n \in 1 .. Len([q EXCEPT ![d] = Tail(@)][e]) =>
                    [q EXCEPT ![d] = Tail(@)][e][n] = q[e][IF e = d THEN n + 1 ELSE n]
           /\ 1 \in 1 .. Len(q[d]) /\ q[d][1] = Head(q[d])
<1>1. 1 \in 1 .. Len(q[d]) /\ q[d][1] = Head(q[d])
    <2>1. q[d] \in Seq(S)
        OBVIOUS
    <2> QED BY <2>1
<1>2. ASSUME NEW e \in DBs
      PROVE  \A n \in Nat :
                /\ n \in 1 .. Len([q EXCEPT ![d] = Tail(@)][e]) <=>
                    IF e = d THEN n # 0 /\ n + 1 \in 1 .. Len(q[e]) ELSE n \in 1 .. Len(q[e])
                /\ n \in 1 .. Len([q EXCEPT ![d] = Tail(@)][e]) =>
                    [q EXCEPT ![d] = Tail(@)][e][n] = q[e][IF e = d THEN n + 1 ELSE n]
    <2>1. CASE e # d
        BY <2>1
    <2>2. CASE e = d
        <3>1. [q EXCEPT ![d] = Tail(@)][e] = Tail(q[d]) /\ q[d] \in Seq(S)
            BY <2>2
        <3>2. Len(Tail(q[d])) = Len(q[d]) - 1 /\ Len(q[d]) \in Nat \ {0}
            BY <3>1
        <3>3. \A n \in 1 .. Len(q[d]) - 1 : Tail(q[d])[n] = q[d][n + 1]
            BY <3>1
        <3> QED BY <2>2, <3>1, <3>2, <3>3
    <2> QED BY <2>1, <2>2
<1> QED BY <1>1, <1>2

\* A message m is added to what is under way to d.
LEMMA Adding ==
    ASSUME NEW q \in [DBs -> Seq(ToDBMessage)], NEW d \in DBs, NEW m \in ToDBMessage,
           NEW r \in Roles
    PROVE  /\ \A e \in DBs, n \in Nat :
                /\ SaveIn(With(q, d, m), r, e, n) <=>
                    \/ SaveIn(q, r, e, n)
                    \/ m.type = "SAVE" /\ m.role = r /\ e = d /\ n = Len(q[d]) + 1
                /\ LoadIn(With(q, d, m), r, e, n) <=>
                    \/ LoadIn(q, r, e, n)
                    \/ m.type = "LOAD" /\ m.role = r /\ e = d /\ n = Len(q[d]) + 1
                /\ SaveIn(q, r, e, n) => With(q, d, m)[e][n] = q[e][n]
                /\ SaveIn(q, r, d, n) \/ LoadIn(q, r, d, n) => n < Len(q[d]) + 1
           /\ With(q, d, m)[d][Len(q[d]) + 1] = m
           /\ Len(q[d]) + 1 \in Nat
<1>0. q[d] \in Seq(ToDBMessage) /\ Len(q[d]) \in Nat
    OBVIOUS
<1>1. \A e \in DBs : \A n \in Nat :
            /\ n \in 1 .. Len(With(q, d, m)[e]) <=>
                n \in 1 .. Len(q[e]) \/ (e = d /\ n = Len(q[d]) + 1)
            /\ n \in 1 .. Len(q[e]) => With(q, d, m)[e][n] = q[e][n]
            /\ e = d /\ n = Len(q[d]) + 1 => With(q, d, m)[e][n] = m
    BY AddedAt DEF With
<1> DEFINE g == With(q, d, m)
<1> HIDE DEF g
<1>2. ASSUME NEW e \in DBs, NEW n \in Nat
      PROVE  /\ n \in 1 .. Len(g[e]) <=> n \in 1 .. Len(q[e]) \/ (e = d /\ n = Len(q[d]) + 1)
             /\ n \in 1 .. Len(q[e]) => g[e][n] = q[e][n]
             /\ e = d /\ n = Len(q[d]) + 1 => g[e][n] = m
             /\ n \in 1 .. Len(q[d]) => n < Len(q[d]) + 1
    BY <1>0, <1>1 DEF g, With
<1>3. ASSUME NEW e \in DBs, NEW n \in Nat
      PROVE  /\ SaveIn(g, r, e, n) <=>
                    \/ SaveIn(q, r, e, n)
                    \/ m.type = "SAVE" /\ m.role = r /\ e = d /\ n = Len(q[d]) + 1
             /\ LoadIn(g, r, e, n) <=>
                    \/ LoadIn(q, r, e, n)
                    \/ m.type = "LOAD" /\ m.role = r /\ e = d /\ n = Len(q[d]) + 1
             /\ SaveIn(q, r, e, n) => g[e][n] = q[e][n]
             /\ SaveIn(q, r, d, n) \/ LoadIn(q, r, d, n) => n < Len(q[d]) + 1
    BY <1>2 DEF SaveIn, LoadIn
<1>4. g[d][Len(q[d]) + 1] = m /\ Len(q[d]) + 1 \in Nat
    BY <1>0, <1>2
<1> QED BY <1>3, <1>4 DEF g

\* Nothing of another role matters.
LEMMA OtherAdded ==
    ASSUME NEW q \in [DBs -> Seq(ToDBMessage)], NEW d \in DBs, NEW m \in ToDBMessage,
           NEW r \in Roles, NEW a, NEW stored, NEW obj, NEW newest,
           m.role # r, Safe(r, q, a, stored, obj, newest)
    PROVE  Safe(r, With(q, d, m), a, stored, obj, newest)
<1> DEFINE g == With(q, d, m)
<1>1. \A e \in DBs, n \in Nat :
            /\ SaveIn(g, r, e, n) <=> SaveIn(q, r, e, n)
            /\ LoadIn(g, r, e, n) <=> LoadIn(q, r, e, n)
            /\ SaveIn(q, r, e, n) => g[e][n] = q[e][n]
    BY Adding
<1> HIDE DEF g
<1>2. NoSaves(g, r) <=> NoSaves(q, r)
    BY <1>1 DEF NoSaves
<1>3. NoLoads(q, a, r) => NoLoads(g, a, r)
    BY <1>1 DEF NoLoads
<1>4. NewestIsStored(q, r, stored, newest) => NewestIsStored(g, r, stored, newest)
    BY <1>1, <1>2 DEF NewestIsStored
<1>5. SavesAtHome(g, r) /\ LoadsSeeSaves(g, r) /\ AnswersAreNewest(g, a, r, newest)
    BY <1>1, <1>2 DEF Safe, SavesAtHome, LoadsSeeSaves, AnswersAreNewest
<1>6. OneLoad(g, a, r)
    BY <1>1 DEF Safe, OneLoad
<1> QED BY <1>3, <1>4, <1>5, <1>6 DEF Safe, g

\* The role's object is saved. It may go then.
LEMMA SaveAdded ==
    ASSUME NEW q \in [DBs -> Seq(ToDBMessage)], NEW m \in ToDBMessage,
           NEW r \in Roles, NEW a, NEW stored, NEW obj, NEW newest,
           m.type = "SAVE", m.role = r, m.data = obj, obj # NoObject,
           Safe(r, q, a, stored, obj, newest), NEW left \in {obj, NoObject}
    PROVE  Safe(r, With(q, DBOfRole[r], m), a, stored, left, newest)
<1> DEFINE d == DBOfRole[r]
           end == Len(q[d]) + 1
           g == With(q, d, m)
<1>0. d \in DBs
    BY DBOfRoleAssumption
<1>1. /\ \A e \in DBs, n \in Nat :
            /\ SaveIn(g, r, e, n) <=> SaveIn(q, r, e, n) \/ (e = d /\ n = end)
            /\ LoadIn(g, r, e, n) <=> LoadIn(q, r, e, n)
            /\ SaveIn(q, r, d, n) => n < end
      /\ g[d][end] = m /\ end \in Nat
    BY <1>0, Adding
<1> HIDE DEF g, end, d
<1>2. NoLoads(q, a, r) /\ obj = newest
    BY DEF Safe
<1>3. NoLoads(g, a, r)
    BY <1>1, <1>2 DEF NoLoads
<1>4. SavesAtHome(g, r)
    BY <1>1 DEF Safe, SavesAtHome, d
<1>5. NewestIsStored(g, r, stored, newest)
    <2>1. SaveIn(g, r, d, end)
        BY <1>0, <1>1
    <2>2. ~NoSaves(g, r)
        BY <1>0, <1>1, <2>1 DEF NoSaves
    <2>3. ASSUME NEW e \in DBs, NEW n \in Nat, SaveIn(g, r, e, n)
          PROVE  g[e][n].data = newest \/ \E k \in Nat : k > n /\ SaveIn(g, r, e, k)
        <3>1. e = d
            BY <1>4, <2>3 DEF SavesAtHome, d
        <3>2. n = end \/ n < end
            BY <1>0, <1>1, <2>3, <3>1
        <3> QED BY <1>1, <1>2, <2>1, <3>1, <3>2
    <2> QED BY <2>2, <2>3 DEF NewestIsStored
<1>6. LoadsSeeSaves(g, r) /\ AnswersAreNewest(g, a, r, newest) /\ OneLoad(g, a, r)
    BY <1>3 DEF NoLoads, LoadsSeeSaves, AnswersAreNewest, OneLoad
<1> QED BY <1>2, <1>3, <1>4, <1>5, <1>6 DEF Safe, d, g

\* A load is asked for when there is no object: it comes behind the saves.
LEMMA LoadAdded ==
    ASSUME NEW q \in [DBs -> Seq(ToDBMessage)], NEW d \in DBs, NEW m \in ToDBMessage,
           NEW r \in Roles, NEW a, NEW stored, NEW newest,
           m.type = "LOAD", m.role = r, NoLoads(q, a, r),
           \A e \in DBs \ {d}, n \in Nat : ~SaveIn(q, r, e, n),
           Safe(r, q, a, stored, NoObject, newest)
    PROVE  Safe(r, With(q, d, m), a, stored, NoObject, newest)
<1> DEFINE end == Len(q[d]) + 1
           g == With(q, d, m)
<1>1. /\ \A e \in DBs, n \in Nat :
            /\ SaveIn(g, r, e, n) <=> SaveIn(q, r, e, n)
            /\ LoadIn(g, r, e, n) <=> LoadIn(q, r, e, n) \/ (e = d /\ n = end)
            /\ SaveIn(q, r, e, n) => g[e][n] = q[e][n]
            /\ SaveIn(q, r, d, n) => n < end
      /\ end \in Nat
    BY Adding
<1> HIDE DEF g, end
<1>2. NoSaves(g, r) <=> NoSaves(q, r)
    BY <1>1 DEF NoSaves
<1>3. NewestIsStored(g, r, stored, newest) /\ SavesAtHome(g, r)
    BY <1>1, <1>2 DEF Safe, NewestIsStored, SavesAtHome
<1>4. LoadsSeeSaves(g, r)
    BY <1>1 DEF NoLoads, LoadsSeeSaves
<1>5. AnswersAreNewest(g, a, r, newest) /\ OneLoad(g, a, r)
    BY <1>1 DEF NoLoads, AnswersAreNewest, OneLoad
<1> QED BY <1>3, <1>4, <1>5 DEF Safe, g

\* Where in the queue the n-th message is now that was there before d's first went.
Before(d, e, n) == IF e = d THEN n + 1 ELSE n

LEMMA Taking ==
    ASSUME NEW q \in [DBs -> Seq(ToDBMessage)], NEW d \in DBs, q[d] # <<>>, NEW r \in Roles
    PROVE  /\ \A e \in DBs, n \in Nat :
                /\ Before(d, e, n) \in Nat
                /\ SaveIn(Without(q, d), r, e, n) <=> n # 0 /\ SaveIn(q, r, e, Before(d, e, n))
                /\ LoadIn(Without(q, d), r, e, n) <=> n # 0 /\ LoadIn(q, r, e, Before(d, e, n))
                /\ SaveIn(Without(q, d), r, e, n) =>
                    Without(q, d)[e][n] = q[e][Before(d, e, n)]
           /\ \A e \in DBs, n \in Nat :
                SaveIn(q, r, e, n) /\ ~(e = d /\ n = 1) => \E k \in Nat :
                    k # 0 /\ n = Before(d, e, k) /\ SaveIn(Without(q, d), r, e, k)
           /\ SaveIn(q, r, d, 1) <=> q[d][1].type = "SAVE" /\ q[d][1].role = r
           /\ LoadIn(q, r, d, 1) <=> q[d][1].type = "LOAD" /\ q[d][1].role = r
<1> DEFINE g == Without(q, d)
<1>1. /\ \A e \in DBs : \A n \in Nat :
            /\ n \in 1 .. Len(g[e]) <=>
                IF e = d THEN n # 0 /\ n + 1 \in 1 .. Len(q[e]) ELSE n \in 1 .. Len(q[e])
            /\ n \in 1 .. Len(g[e]) => g[e][n] = q[e][IF e = d THEN n + 1 ELSE n]
      /\ 1 \in 1 .. Len(q[d])
    BY TakenAt DEF Without
<1> HIDE DEF g
<1>2. ASSUME NEW e \in DBs, NEW n \in Nat
      PROVE  /\ Before(d, e, n) \in Nat
             /\ SaveIn(g, r, e, n) <=> n # 0 /\ SaveIn(q, r, e, Before(d, e, n))
             /\ LoadIn(g, r, e, n) <=> n # 0 /\ LoadIn(q, r, e, Before(d, e, n))
             /\ SaveIn(g, r, e, n) => g[e][n] = q[e][Before(d, e, n)]
    <2>1. /\ Before(d, e, n) \in Nat
          /\ n \in 1 .. Len(g[e]) <=> n # 0 /\ Before(d, e, n) \in 1 .. Len(q[e])
          /\ n \in 1 .. Len(g[e]) => g[e][n] = q[e][Before(d, e, n)]
        <3>1. CASE e = d
            BY <1>1, <3>1 DEF Before
        <3>2. CASE e # d
            BY <1>1, <3>2 DEF Before
        <3> QED BY <3>1, <3>2
    <2> HIDE <1>1
    <2> QED BY <2>1 DEF SaveIn, LoadIn
<1>3. ASSUME NEW e \in DBs, NEW n \in Nat, SaveIn(q, r, e, n), ~(e = d /\ n = 1)
      PROVE  \E k \in Nat : k # 0 /\ n = Before(d, e, k) /\ SaveIn(g, r, e, k)
    <2>1. n \in 1 .. Len(q[e])
        BY <1>3 DEF SaveIn
    <2>2. CASE e = d
        <3>1. n - 1 \in Nat /\ n - 1 # 0 /\ n = Before(d, e, n - 1)
            BY <1>3, <2>1, <2>2 DEF Before
        <3> QED BY <1>2, <1>3, <3>1
    <2>3. CASE e # d
        <3>1. n = Before(d, e, n) /\ n # 0
            BY <2>1, <2>3 DEF Before
        <3> QED BY <1>2, <1>3, <3>1
    <2> QED BY <2>2, <2>3
<1>4. /\ SaveIn(q, r, d, 1) <=> q[d][1].type = "SAVE" /\ q[d][1].role = r
      /\ LoadIn(q, r, d, 1) <=> q[d][1].type = "LOAD" /\ q[d][1].role = r
    BY <1>1 DEF SaveIn, LoadIn
<1> QED BY <1>2, <1>3, <1>4 DEF g

\* The order of what stays is kept.
LEMMA BeforeOrder ==
    ASSUME NEW d, NEW e, NEW n \in Nat, NEW k \in Nat
    PROVE  /\ Before(d, e, k) < Before(d, e, n) <=> k < n
           /\ Before(d, e, k) = Before(d, e, n) <=> k = n
BY DEF Before

\* A DB server reads a message: a save is stored, and what is about other roles
\* does not matter. (A load is answered by what is stored: LoadTaken.)
LEMMA SaveTaken ==
    ASSUME NEW q \in [DBs -> Seq(ToDBMessage)], NEW d \in DBs, q[d] # <<>>, NEW r \in Roles,
           NEW a, NEW stored, NEW obj, NEW newest, NEW storedNext,
           ~LoadIn(q, r, d, 1),
           IF SaveIn(q, r, d, 1) THEN storedNext = q[d][1].data ELSE storedNext = stored,
           Safe(r, q, a, stored, obj, newest)
    PROVE  Safe(r, Without(q, d), a, storedNext, obj, newest)
<1> DEFINE g == Without(q, d)
<1>1. /\ \A e \in DBs, n \in Nat :
            /\ Before(d, e, n) \in Nat
            /\ SaveIn(g, r, e, n) <=> n # 0 /\ SaveIn(q, r, e, Before(d, e, n))
            /\ LoadIn(g, r, e, n) <=> n # 0 /\ LoadIn(q, r, e, Before(d, e, n))
            /\ SaveIn(g, r, e, n) => g[e][n] = q[e][Before(d, e, n)]
      /\ \A e \in DBs, n \in Nat :
            SaveIn(q, r, e, n) /\ ~(e = d /\ n = 1) => \E k \in Nat :
                k # 0 /\ n = Before(d, e, k) /\ SaveIn(g, r, e, k)
    BY Taking
<1> HIDE DEF g
<1>2. NoSaves(q, r) => NoSaves(g, r)
    BY <1>1 DEF NoSaves
<1>3. NoLoads(q, a, r) => NoLoads(g, a, r)
    BY <1>1 DEF NoLoads
<1>4. SavesAtHome(g, r)
    BY <1>1 DEF Safe, SavesAtHome
<1>5. ASSUME NewestIsStored(q, r, stored, newest)
      PROVE  NewestIsStored(g, r, storedNext, newest)
    <2>1. ASSUME NoSaves(g, r) PROVE storedNext = newest
        <3>1. CASE SaveIn(q, r, d, 1)
            <4>1. \A n \in Nat : SaveIn(q, r, d, n) => n = 1
                BY <1>1, <2>1 DEF NoSaves
            <4> QED BY <1>5, <3>1, <4>1 DEF NewestIsStored
        <3>2. CASE ~SaveIn(q, r, d, 1)
            <4>1. NoSaves(q, r)
                BY <1>1, <2>1, <3>2 DEF NoSaves
            <4> QED BY <1>5, <3>2, <4>1 DEF NewestIsStored
        <3> QED BY <3>1, <3>2
    <2>2. ASSUME NEW e \in DBs, NEW n \in Nat, SaveIn(g, r, e, n)
          PROVE  g[e][n].data = newest \/ \E k \in Nat : k > n /\ SaveIn(g, r, e, k)
        <3>1. CASE q[e][Before(d, e, n)].data = newest
            BY <1>1, <2>2, <3>1
        <3>2. CASE \E k \in Nat : k > Before(d, e, n) /\ SaveIn(q, r, e, k)
            <4>1. PICK k \in Nat : k > Before(d, e, n) /\ SaveIn(q, r, e, k)
                BY <3>2
            <4>2. ~(e = d /\ k = 1)
                BY <2>2, <4>1 DEF Before
            <4>3. PICK l \in Nat : k = Before(d, e, l) /\ SaveIn(g, r, e, l)
                BY <1>1, <4>1, <4>2
            <4>4. l > n
                BY <4>1, <4>3 DEF Before
            <4> QED BY <4>3, <4>4
        <3> QED BY <1>1, <1>5, <2>2, <3>1, <3>2 DEF NewestIsStored
    <2> QED BY <2>1, <2>2 DEF NewestIsStored
<1>6. LoadsSeeSaves(g, r)
    <2> SUFFICES ASSUME NEW c \in DBs, NEW e \in DBs, NEW n \in Nat, NEW k \in Nat,
                        LoadIn(g, r, c, n), SaveIn(g, r, e, k)
                 PROVE  e = c /\ k < n
        BY DEF LoadsSeeSaves
    <2>1. e = c /\ Before(d, e, k) < Before(d, c, n)
        BY <1>1 DEF Safe, LoadsSeeSaves
    <2> QED BY <2>1, BeforeOrder
<1>7. AnswersAreNewest(g, a, r, newest)
    BY <1>2 DEF Safe, AnswersAreNewest
<1>8. OneLoad(g, a, r)
    <2> SUFFICES ASSUME NEW c \in DBs, NEW e \in DBs, NEW n \in Nat, NEW k \in Nat
                 PROVE  /\ LoadIn(g, r, c, n) /\ LoadIn(g, r, e, k) => c = e /\ n = k
                        /\ AnswerIn(a, r, c, n) /\ AnswerIn(a, r, e, k) => c = e /\ n = k
                        /\ ~(LoadIn(g, r, c, n) /\ AnswerIn(a, r, e, k))
        BY DEF OneLoad
    <2>1. /\ \A x, y \in Nat : LoadIn(q, r, c, x) /\ LoadIn(q, r, e, y) => c = e /\ x = y
          /\ \A x, y \in Nat : ~(LoadIn(q, r, c, x) /\ AnswerIn(a, r, e, y))
          /\ AnswerIn(a, r, c, n) /\ AnswerIn(a, r, e, k) => c = e /\ n = k
        BY DEF Safe, OneLoad
    <2>2. ASSUME LoadIn(g, r, c, n), LoadIn(g, r, e, k) PROVE c = e /\ n = k
        <3>1. LoadIn(q, r, c, Before(d, c, n)) /\ LoadIn(q, r, e, Before(d, e, k))
            BY <1>1, <2>2
        <3>2. c = e /\ Before(d, c, n) = Before(d, e, k)
            BY <1>1, <2>1, <3>1
        <3> QED BY <3>2 DEF Before
    <2> QED BY <1>1, <2>1, <2>2
<1> QED BY <1>3, <1>4, <1>5, <1>6, <1>7, <1>8 DEF Safe, g

\* Answers: one more, one less.
LEMMA Answering ==
    ASSUME NEW a \in [DBs -> Seq(FromDBMessage)], NEW d \in DBs, NEW m \in FromDBMessage,
           NEW r \in Roles
    PROVE  /\ \A e \in DBs, n \in Nat :
                /\ AnswerIn(With(a, d, m), r, e, n) <=>
                    AnswerIn(a, r, e, n) \/ (m.role = r /\ e = d /\ n = Len(a[d]) + 1)
                /\ AnswerIn(a, r, e, n) => With(a, d, m)[e][n] = a[e][n]
           /\ With(a, d, m)[d][Len(a[d]) + 1] = m
<1> DEFINE g == With(a, d, m)
<1>1. \A e \in DBs : \A n \in Nat :
            /\ n \in 1 .. Len(g[e]) <=> n \in 1 .. Len(a[e]) \/ (e = d /\ n = Len(a[d]) + 1)
            /\ n \in 1 .. Len(a[e]) => g[e][n] = a[e][n]
            /\ e = d /\ n = Len(a[d]) + 1 => g[e][n] = m
    BY AddedAt DEF With
<1>2. Len(a[d]) + 1 \in Nat
    <2>1. a[d] \in Seq(FromDBMessage)
        OBVIOUS
    <2> QED BY <2>1
<1> HIDE DEF g
<1>3. ASSUME NEW e \in DBs, NEW n \in Nat
      PROVE  /\ AnswerIn(g, r, e, n) <=>
                    AnswerIn(a, r, e, n) \/ (m.role = r /\ e = d /\ n = Len(a[d]) + 1)
             /\ AnswerIn(a, r, e, n) => g[e][n] = a[e][n]
    BY <1>1 DEF AnswerIn
<1> QED BY <1>1, <1>2, <1>3 DEF g

LEMMA AnswerTaking ==
    ASSUME NEW a \in [DBs -> Seq(FromDBMessage)], NEW d \in DBs, a[d] # <<>>, NEW r \in Roles
    PROVE  /\ \A e \in DBs, n \in Nat :
                /\ Before(d, e, n) \in Nat
                /\ AnswerIn(Without(a, d), r, e, n) =>
                    AnswerIn(a, r, e, Before(d, e, n)) /\ ~(e = d /\ Before(d, e, n) = 1)
                /\ AnswerIn(Without(a, d), r, e, n) =>
                    Without(a, d)[e][n] = a[e][Before(d, e, n)]
           /\ AnswerIn(a, r, d, 1) <=> Head(a[d]).role = r
           /\ a[d][1] = Head(a[d])
<1> DEFINE g == Without(a, d)
<1>1. /\ \A e \in DBs : \A n \in Nat :
            /\ n \in 1 .. Len(g[e]) <=>
                IF e = d THEN n # 0 /\ n + 1 \in 1 .. Len(a[e]) ELSE n \in 1 .. Len(a[e])
            /\ n \in 1 .. Len(g[e]) => g[e][n] = a[e][IF e = d THEN n + 1 ELSE n]
      /\ 1 \in 1 .. Len(a[d]) /\ a[d][1] = Head(a[d])
    BY TakenAt DEF Without
<1> HIDE DEF g
<1>2. ASSUME NEW e \in DBs, NEW n \in Nat
      PROVE  /\ Before(d, e, n) \in Nat
             /\ AnswerIn(g, r, e, n) =>
                    AnswerIn(a, r, e, Before(d, e, n)) /\ ~(e = d /\ Before(d, e, n) = 1)
             /\ AnswerIn(g, r, e, n) => g[e][n] = a[e][Before(d, e, n)]
    <2>1. /\ Before(d, e, n) \in Nat
          /\ n \in 1 .. Len(g[e]) <=> n # 0 /\ Before(d, e, n) \in 1 .. Len(a[e])
          /\ n \in 1 .. Len(g[e]) => g[e][n] = a[e][Before(d, e, n)]
          /\ n # 0 => ~(e = d /\ Before(d, e, n) = 1)
        <3>1. CASE e = d
            BY <1>1, <3>1 DEF Before
        <3>2. CASE e # d
            BY <1>1, <3>2 DEF Before
        <3> QED BY <3>1, <3>2
    <2> HIDE <1>1
    <2> QED BY <2>1 DEF AnswerIn
<1>3. AnswerIn(a, r, d, 1) <=> Head(a[d]).role = r
    BY <1>1 DEF AnswerIn
<1> QED BY <1>1, <1>2, <1>3 DEF g

\* A load of the role is answered by what is stored: all saves are done.
LEMMA LoadTaken ==
    ASSUME NEW q \in [DBs -> Seq(ToDBMessage)], NEW a \in [DBs -> Seq(FromDBMessage)],
           NEW d \in DBs, q[d] # <<>>, NEW r \in Roles, NEW m \in FromDBMessage,
           NEW stored, NEW obj, NEW newest,
           LoadIn(q, r, d, 1), m.role = r, m.data = stored,
           Safe(r, q, a, stored, obj, newest)
    PROVE  Safe(r, Without(q, d), With(a, d, m), stored, obj, newest)
<1> DEFINE g == Without(q, d)
           b == With(a, d, m)
           end == Len(a[d]) + 1
<1>1. \A e \in DBs, n \in Nat :
            /\ Before(d, e, n) \in Nat
            /\ SaveIn(g, r, e, n) <=> n # 0 /\ SaveIn(q, r, e, Before(d, e, n))
            /\ LoadIn(g, r, e, n) <=> n # 0 /\ LoadIn(q, r, e, Before(d, e, n))
    <2>1. q \in [DBs -> Seq(ToDBMessage)] /\ d \in DBs /\ q[d] # <<>> /\ r \in Roles
        OBVIOUS
    <2> QED BY ONLY <2>1, Taking
<1>2. /\ \A e \in DBs, n \in Nat :
            /\ AnswerIn(b, r, e, n) <=> AnswerIn(a, r, e, n) \/ (e = d /\ n = end)
            /\ AnswerIn(a, r, e, n) => b[e][n] = a[e][n]
      /\ b[d][end] = m
    BY Answering
<1> HIDE DEF g, b, end
<1>3. obj = NoObject
    BY DEF Safe, NoLoads
<1>4. NoSaves(q, r)
    <2> SUFFICES ASSUME NEW e \in DBs, NEW n \in Nat, SaveIn(q, r, e, n) PROVE FALSE
        BY DEF NoSaves
    <2>1. n < 1
        BY DEF Safe, LoadsSeeSaves
    <2> QED BY <2>1 DEF SaveIn
<1>5. NoSaves(g, r)
    BY <1>1, <1>4 DEF NoSaves
<1>6. stored = newest
    BY <1>3, <1>4 DEF Safe, NewestIsStored
<1>7. \A e \in DBs, n \in Nat : ~LoadIn(g, r, e, n) /\ ~AnswerIn(a, r, e, n)
    <2>1. \A e \in DBs, n \in Nat :
            (LoadIn(q, r, e, n) => d = e /\ 1 = n) /\ ~AnswerIn(a, r, e, n)
        BY DEF Safe, OneLoad
    <2>2. ASSUME NEW e \in DBs, NEW n \in Nat, LoadIn(g, r, e, n) PROVE FALSE
        <3>1. n # 0 /\ d = e /\ Before(d, e, n) = 1
            BY <1>1, <2>1, <2>2
        <3> QED BY <3>1 DEF Before
    <2> QED BY <2>1, <2>2
<1>8. NewestIsStored(g, r, stored, newest) /\ SavesAtHome(g, r) /\ LoadsSeeSaves(g, r)
    BY <1>5, <1>6 DEF NoSaves, NewestIsStored, SavesAtHome, LoadsSeeSaves
<1>9. AnswersAreNewest(g, b, r, newest)
    BY <1>2, <1>5, <1>6, <1>7 DEF AnswersAreNewest
<1>10. OneLoad(g, b, r)
    BY <1>2, <1>7 DEF OneLoad
<1> QED BY <1>3, <1>8, <1>9, <1>10 DEF Safe, g, b

\* Answers about other roles do not matter.
LEMMA OtherAnswered ==
    ASSUME NEW a \in [DBs -> Seq(FromDBMessage)], NEW d \in DBs, NEW m \in FromDBMessage,
           NEW r \in Roles, NEW q, NEW stored, NEW obj, NEW newest,
           m.role # r, Safe(r, q, a, stored, obj, newest)
    PROVE  Safe(r, q, With(a, d, m), stored, obj, newest)
<1> DEFINE b == With(a, d, m)
<1>1. \A e \in DBs, n \in Nat :
            /\ AnswerIn(b, r, e, n) <=> AnswerIn(a, r, e, n)
            /\ AnswerIn(a, r, e, n) => b[e][n] = a[e][n]
    BY Answering
<1> HIDE DEF b
<1>2. NoLoads(q, a, r) => NoLoads(q, b, r)
    BY <1>1 DEF NoLoads
<1>3. AnswersAreNewest(q, b, r, newest)
    BY <1>1 DEF Safe, AnswersAreNewest
<1>4. OneLoad(q, b, r)
    BY <1>1 DEF Safe, OneLoad
<1> QED BY <1>2, <1>3, <1>4 DEF Safe, b

\* The first answer is read. If it is about the role nothing is under way then.
LEMMA AnswerTaken ==
    ASSUME NEW a \in [DBs -> Seq(FromDBMessage)], NEW d \in DBs, a[d] # <<>>,
           NEW r \in Roles, NEW q, NEW stored, NEW obj, NEW newest,
           Safe(r, q, a, stored, obj, newest)
    PROVE  /\ Safe(r, q, Without(a, d), stored, obj, newest)
           /\ Head(a[d]).role = r => /\ obj = NoObject /\ NoSaves(q, r)
                                     /\ Head(a[d]).data = newest
                                     /\ NoLoads(q, Without(a, d), r)
<1> DEFINE b == Without(a, d)
<1>1. /\ \A e \in DBs, n \in Nat :
            /\ Before(d, e, n) \in Nat
            /\ AnswerIn(b, r, e, n) =>
                AnswerIn(a, r, e, Before(d, e, n)) /\ ~(e = d /\ Before(d, e, n) = 1)
            /\ AnswerIn(b, r, e, n) => b[e][n] = a[e][Before(d, e, n)]
      /\ AnswerIn(a, r, d, 1) <=> Head(a[d]).role = r
      /\ a[d][1] = Head(a[d])
    BY AnswerTaking
<1> HIDE DEF b
<1>2. NoLoads(q, a, r) => NoLoads(q, b, r)
    BY <1>1 DEF NoLoads
<1>3. AnswersAreNewest(q, b, r, newest)
    <2> SUFFICES ASSUME NEW e \in DBs, NEW n \in Nat, AnswerIn(b, r, e, n)
                 PROVE  b[e][n].data = newest /\ NoSaves(q, r)
        BY DEF AnswersAreNewest
    <2>1. AnswerIn(a, r, e, Before(d, e, n)) /\ b[e][n] = a[e][Before(d, e, n)]
        BY <1>1
    <2>2. \A x \in Nat : AnswerIn(a, r, e, x) => a[e][x].data = newest /\ NoSaves(q, r)
        BY DEF Safe, AnswersAreNewest
    <2> QED BY <1>1, <2>1, <2>2
<1>4. OneLoad(q, b, r)
    <2> SUFFICES ASSUME NEW c \in DBs, NEW e \in DBs, NEW n \in Nat, NEW k \in Nat
                 PROVE  /\ LoadIn(q, r, c, n) /\ LoadIn(q, r, e, k) => c = e /\ n = k
                        /\ AnswerIn(b, r, c, n) /\ AnswerIn(b, r, e, k) => c = e /\ n = k
                        /\ ~(LoadIn(q, r, c, n) /\ AnswerIn(b, r, e, k))
        BY DEF OneLoad
    <2>1. /\ \A x, y \in Nat : AnswerIn(a, r, c, x) /\ AnswerIn(a, r, e, y) => c = e /\ x = y
          /\ \A x, y \in Nat : ~(LoadIn(q, r, c, x) /\ AnswerIn(a, r, e, y))
          /\ LoadIn(q, r, c, n) /\ LoadIn(q, r, e, k) => c = e /\ n = k
        BY DEF Safe, OneLoad
    <2>2. ASSUME AnswerIn(b, r, c, n), AnswerIn(b, r, e, k) PROVE c = e /\ n = k
        <3>1. AnswerIn(a, r, c, Before(d, c, n)) /\ AnswerIn(a, r, e, Before(d, e, k))
            BY <1>1, <2>2
        <3>2. c = e /\ Before(d, c, n) = Before(d, e, k)
            BY <1>1, <2>1, <3>1
        <3> QED BY <3>2 DEF Before
    <2> QED BY <1>1, <2>1, <2>2
<1>5. ASSUME Head(a[d]).role = r
      PROVE  /\ obj = NoObject /\ NoSaves(q, r)
             /\ Head(a[d]).data = newest
             /\ NoLoads(q, b, r)
    <2>1. AnswerIn(a, r, d, 1)
        BY <1>1, <1>5
    <2>2. obj = NoObject /\ NoSaves(q, r) /\ Head(a[d]).data = newest
        BY <1>1, <2>1 DEF Safe, NoLoads, AnswersAreNewest
    <2>3. /\ \A e \in DBs, n \in Nat : ~LoadIn(q, r, e, n)
          /\ \A e \in DBs, n \in Nat : AnswerIn(a, r, e, n) => e = d /\ n = 1
        BY <2>1 DEF Safe, OneLoad
    <2>4. NoLoads(q, b, r)
        BY <1>1, <2>3 DEF NoLoads
    <2> QED BY <2>2, <2>4
<1> QED BY <1>2, <1>3, <1>4, <1>5 DEF Safe, b

-------------------------------------------------------------------------------
(* The steps of GameSession, for the data of one role. *)

\* SaveData sends what is in the object of x, if there is one.
LEMMA SaveDataSends ==
    ASSUME IInv, NEW x \in Roles
    PROVE  /\ object[x] = NoObject => SaveData(toDB, x) = toDB
           /\ object[x] # NoObject => \E m \in ToDBMessage :
                /\ m.type = "SAVE" /\ m.role = x /\ m.data = object[x]
                /\ SaveData(toDB, x) = With(toDB, DBOfRole[x], m)
<1> DEFINE m == [type |-> "SAVE", role |-> x, data |-> object[x]]
<1>1. object[x] # NoObject => m \in ToDBMessage
    BY DEF IInv, Typed, PlayerTypes, ToDBMessage
<1>2. m.type = "SAVE" /\ m.role = x /\ m.data = object[x]
    OBVIOUS
<1>3. object[x] # NoObject => SaveData(toDB, x) = With(toDB, DBOfRole[x], m)
    BY DEF SaveData, With
<1>4. object[x] = NoObject => SaveData(toDB, x) = toDB
    BY DEF SaveData
<1> HIDE DEF m
<1> QED BY <1>1, <1>2, <1>3, <1>4

\* SaveData keeps the data safe, and the object may go then.
LEMMA SaveDataSafe ==
    ASSUME IInv, NEW x \in Roles, NEW r \in Roles, NEW a,
           Safe(r, toDB, a, redis[r], object[r], latest[r])
    PROVE  /\ Safe(r, SaveData(toDB, x), a, redis[r], object[r], latest[r])
           /\ x = r => Safe(r, SaveData(toDB, x), a, redis[r], NoObject, latest[r])
           /\ NoLoads(toDB, a, r) => NoLoads(SaveData(toDB, x), a, r)
           /\ \A e \in DBs, n \in Nat : SaveIn(SaveData(toDB, x), r, e, n) =>
                \/ SaveIn(toDB, r, e, n)
                \/ x = r /\ object[r] # NoObject /\ e = DBOfRole[r]
<1>1. toDB \in [DBs -> Seq(ToDBMessage)] /\ DBOfRole[x] \in DBs
    BY DBOfRoleAssumption DEF IInv, Typed, DBTypes
<1>2. CASE object[x] = NoObject
    <2>1. SaveData(toDB, x) = toDB
        BY <1>2, SaveDataSends
    <2> QED BY <1>2, <2>1
<1>3. CASE object[x] # NoObject
    <2>1. PICK m \in ToDBMessage :
            /\ m.type = "SAVE" /\ m.role = x /\ m.data = object[x]
            /\ SaveData(toDB, x) = With(toDB, DBOfRole[x], m)
        BY <1>3, SaveDataSends
    <2>2. /\ Safe(r, With(toDB, DBOfRole[x], m), a, redis[r], object[r], latest[r])
          /\ x = r => Safe(r, With(toDB, DBOfRole[x], m), a, redis[r], NoObject, latest[r])
        <3>1. CASE x = r
            <4>1. m.role = r /\ m.data = object[r] /\ object[r] # NoObject
                BY <1>3, <2>1, <3>1
            <4> QED BY <1>1, <2>1, <3>1, <4>1, SaveAdded
        <3>2. CASE x # r
            BY <1>1, <2>1, <3>2, OtherAdded
        <3> QED BY <3>1, <3>2
    <2>3. \A e \in DBs, n \in Nat :
            /\ SaveIn(With(toDB, DBOfRole[x], m), r, e, n) <=>
                \/ SaveIn(toDB, r, e, n)
                \/ /\ m.type = "SAVE" /\ m.role = r
                   /\ e = DBOfRole[x] /\ n = Len(toDB[DBOfRole[x]]) + 1
            /\ LoadIn(With(toDB, DBOfRole[x], m), r, e, n) <=>
                \/ LoadIn(toDB, r, e, n)
                \/ /\ m.type = "LOAD" /\ m.role = r
                   /\ e = DBOfRole[x] /\ n = Len(toDB[DBOfRole[x]]) + 1
        BY <1>1, Adding
    <2>4. NoLoads(toDB, a, r) => NoLoads(SaveData(toDB, x), a, r)
        BY <2>1, <2>3 DEF NoLoads
    <2> QED BY <1>3, <2>1, <2>2, <2>3, <2>4
<1> QED BY <1>2, <1>3

\* Loading and Saving, in the terms used here.
LEMMA UnderWayToDB ==
    ASSUME IInv, NEW r \in Roles
    PROVE  /\ NoLoads(toDB, fromDB, r) <=> ~Loading(r)
           /\ \A e \in DBs, n \in Nat : SaveIn(toDB, r, e, n) => Saving(r, e)
<1>1. \A e \in DBs : 1 .. Len(toDB[e]) \subseteq Nat /\ 1 .. Len(fromDB[e]) \subseteq Nat
    OBVIOUS
<1>2. NoLoads(toDB, fromDB, r) <=> ~Loading(r)
    BY <1>1 DEF NoLoads, Loading, LoadIn, AnswerIn
<1>3. \A e \in DBs, n \in Nat : SaveIn(toDB, r, e, n) => Saving(r, e)
    BY DEF Saving, SaveIn
<1> QED BY <1>2, <1>3

LEMMA DataStays ==
    ASSUME IInv, DataSafe, Failed \subseteq Failed', UNCHANGED <<dbVars, object, latest>>
    PROVE  DataSafe'
<1> SUFFICES ASSUME NEW r \in Roles \ Failed'
             PROVE  Safe(r, toDB', fromDB', redis'[r], object'[r], latest'[r])
    BY DEF DataSafe
<1>1. Safe(r, toDB, fromDB, redis[r], object[r], latest[r])
    BY DEF DataSafe
<1> QED BY <1>1 DEF dbVars

\* What OnClientLeaveGameProcess and OnClientEnterGameWhileLoading do to the data:
\* the object is saved and goes.
LEMMA DestroySafe ==
    ASSUME IInv, DataSafe, NEW x \in Roles, toDB' = SaveData(toDB, x),
           object' = [object EXCEPT ![x] = NoObject],
           UNCHANGED <<fromDB, redis, latest>>, Failed' = Failed
    PROVE  DataSafe'
<1> SUFFICES ASSUME NEW r \in Roles \ Failed'
             PROVE  Safe(r, toDB', fromDB', redis'[r], object'[r], latest'[r])
    BY DEF DataSafe
<1>1. Safe(r, toDB, fromDB, redis[r], object[r], latest[r])
    BY DEF DataSafe
<1>2. object'[r] = IF r = x THEN NoObject ELSE object[r]
    BY DEF IInv, Typed, PlayerTypes
<1>3. /\ Safe(r, SaveData(toDB, x), fromDB, redis[r], object[r], latest[r])
      /\ x = r => Safe(r, SaveData(toDB, x), fromDB, redis[r], NoObject, latest[r])
    BY <1>1, SaveDataSafe
<1> QED BY <1>2, <1>3

\* The role enters: saved, then loaded. What failed it is recorded.
LEMMA EnterSafe ==
    ASSUME IInv, DataSafe, NEW g \in Gates, NEW d \in DBs, NEW garbage,
           OnClientEnterGameProcess(g, d, garbage)
    PROVE  DataSafe'
<1> DEFINE x == Head(toGame[g]).role
           m == [type |-> "LOAD", role |-> x, data |-> 0]
<1>1. /\ Receive(g, "REQ_ENTER_GAME")
      /\ object' = [object EXCEPT ![x] = NoObject]
      /\ toDB' = With(SaveData(toDB, x), d, m)
      /\ overtaken' = IF \E e \in DBs \ {d} :
                            Saving(x, e) \/ (object[x] # NoObject /\ e = DBOfRole[x])
                      THEN overtaken \cup {x} ELSE overtaken
      /\ doubleLoaded' = IF Loading(x) THEN doubleLoaded \cup {x} ELSE doubleLoaded
      /\ UNCHANGED <<fromDB, redis, latest, lost>>
    BY DEF OnClientEnterGameProcess, With
<1>2. x \in Roles
    BY <1>1, RequestTyped DEF IInv, Typed
<1>3. m \in ToDBMessage /\ m.role = x /\ m.type = "LOAD"
    BY <1>2, SessionBounds DEF ToDBMessage, Data
<1>4. SaveData(toDB, x) \in [DBs -> Seq(ToDBMessage)]
    BY <1>2, SaveDataTyped DEF IInv, Typed, DBTypes
<1> HIDE DEF x, m
<1> SUFFICES ASSUME NEW r \in Roles \ Failed'
             PROVE  Safe(r, toDB', fromDB', redis'[r], object'[r], latest'[r])
    BY DEF DataSafe
<1>5. r \notin Failed
    BY <1>1 DEF Failed
<1>6. Safe(r, toDB, fromDB, redis[r], object[r], latest[r])
    BY <1>5 DEF DataSafe
<1>7. object'[r] = IF r = x THEN NoObject ELSE object[r]
    BY <1>1, <1>2 DEF IInv, Typed, PlayerTypes
<1>8. /\ Safe(r, SaveData(toDB, x), fromDB, redis[r], object'[r], latest[r])
      /\ NoLoads(toDB, fromDB, r) => NoLoads(SaveData(toDB, x), fromDB, r)
      /\ \A e \in DBs, n \in Nat : SaveIn(SaveData(toDB, x), r, e, n) =>
            \/ SaveIn(toDB, r, e, n)
            \/ x = r /\ object[r] # NoObject /\ e = DBOfRole[r]
    BY <1>2, <1>6, <1>7, SaveDataSafe
<1>9. CASE r = x
    <2>1. ~Loading(r) /\ \A e \in DBs \ {d} :
                ~Saving(r, e) /\ ~(object[r] # NoObject /\ e = DBOfRole[r])
        BY <1>1, <1>9 DEF Failed
    <2>2. NoLoads(SaveData(toDB, x), fromDB, r)
        BY <1>8, <2>1, UnderWayToDB
    <2>3. \A e \in DBs \ {d}, n \in Nat : ~SaveIn(SaveData(toDB, x), r, e, n)
        BY <1>8, <2>1, UnderWayToDB
    <2>4. Safe(r, SaveData(toDB, x), fromDB, redis[r], NoObject, latest[r])
        BY <1>7, <1>8, <1>9
    <2>5. Safe(r, With(SaveData(toDB, x), d, m), fromDB, redis[r], NoObject, latest[r])
        BY <1>3, <1>4, <1>9, <2>2, <2>3, <2>4, LoadAdded
    <2> QED BY <1>1, <1>7, <1>9, <2>5
<1>10. CASE r # x
    <2>1. Safe(r, With(SaveData(toDB, x), d, m), fromDB, redis[r], object'[r], latest[r])
        BY <1>3, <1>4, <1>8, <1>10, OtherAdded
    <2> QED BY <1>1, <2>1
<1> QED BY <1>9, <1>10

\* An object that is there is the newest, and nothing else of it is to come.
LEMMA NewObjectSafe ==
    ASSUME NEW r, NEW q, NEW a, NEW stored, NEW obj, NEW newest, NEW obj2, NEW newest2,
           Safe(r, q, a, stored, obj, newest), NoLoads(q, a, r),
           obj2 # NoObject, obj2 = newest2
    PROVE  Safe(r, q, a, stored, obj2, newest2)
<1>1. LoadsSeeSaves(q, r) /\ AnswersAreNewest(q, a, r, newest2) /\ OneLoad(q, a, r)
    BY DEF NoLoads, LoadsSeeSaves, AnswersAreNewest, OneLoad
<1> QED BY <1>1 DEF Safe

\* The answer of a load.
LEMMA LoadedSafe ==
    ASSUME IInv, DataSafe, NEW d \in DBs, OnDBLoadRoleDataProcess(d)
    PROVE  DataSafe'
<1> DEFINE x == Head(fromDB[d]).role
           data == Head(fromDB[d]).data
<1>1. /\ fromDB[d] # <<>> /\ fromDB' = Without(fromDB, d)
      /\ toDB' = SaveData(toDB, x)
      /\ \E new \in {NoObject, data} : object' = [object EXCEPT ![x] = new]
      /\ lost \subseteq lost'
      /\ UNCHANGED <<redis, latest, doubleLoaded, overtaken>>
    BY DEF OnDBLoadRoleDataProcess, Without
<1>2. fromDB \in [DBs -> Seq(FromDBMessage)]
    BY DEF IInv, Typed, DBTypes
<1>3. x \in Roles /\ data \in Data
    <2>1. Head(fromDB[d]) \in FromDBMessage
        BY <1>1, <1>2, ReadTyped
    <2> QED BY <2>1 DEF FromDBMessage
<1> HIDE DEF x, data
<1>4. PICK new \in {NoObject, data} : object' = [object EXCEPT ![x] = new]
    BY <1>1
<1> SUFFICES ASSUME NEW r \in Roles \ Failed'
             PROVE  Safe(r, toDB', fromDB', redis'[r], object'[r], latest'[r])
    BY DEF DataSafe
<1>5. Safe(r, toDB, fromDB, redis[r], object[r], latest[r])
    BY <1>1 DEF DataSafe, Failed
<1>6. object'[r] = IF r = x THEN new ELSE object[r]
    BY <1>3, <1>4 DEF IInv, Typed, PlayerTypes
<1>7. /\ Safe(r, toDB, Without(fromDB, d), redis[r], object[r], latest[r])
      /\ Head(fromDB[d]).role = r =>
            /\ object[r] = NoObject /\ NoSaves(toDB, r)
            /\ Head(fromDB[d]).data = latest[r]
            /\ NoLoads(toDB, Without(fromDB, d), r)
    BY <1>1, <1>2, <1>5, AnswerTaken
<1>8. CASE r = x
    <2>1. /\ object[r] = NoObject /\ data = latest[r]
          /\ NoLoads(toDB, Without(fromDB, d), r)
        BY <1>7, <1>8 DEF x, data
    <2>2. toDB' = toDB
        BY <1>1, <1>3, <1>8, <2>1, SaveDataSends
    <2>3. CASE new = NoObject
        BY <1>1, <1>6, <1>7, <1>8, <2>1, <2>2, <2>3
    <2>4. CASE new = data
        <3>1. data # NoObject
            BY <1>3, SessionBounds DEF Data, NoObject
        <3>2. Safe(r, toDB, Without(fromDB, d), redis[r], data, latest[r])
            BY <1>7, <2>1, <3>1, NewObjectSafe
        <3> QED BY <1>1, <1>6, <1>8, <2>2, <2>4, <3>2
    <2> QED BY <2>3, <2>4
<1>9. CASE r # x
    <2>1. Safe(r, SaveData(toDB, x), Without(fromDB, d), redis[r], object[r], latest[r])
        BY <1>3, <1>7, SaveDataSafe
    <2> QED BY <1>1, <1>6, <1>9, <2>1
<1> QED BY <1>8, <1>9

LEMMA SaveOnTimeSafe ==
    ASSUME IInv, DataSafe, NEW x \in Roles, SaveDataOnTime(x)
    PROVE  DataSafe'
<1>1. toDB' = SaveData(toDB, x) /\ UNCHANGED <<object, fromDB, redis, latest>> /\ Failed' = Failed
    BY DEF SaveDataOnTime, gameVars, history, Failed
<1> SUFFICES ASSUME NEW r \in Roles \ Failed'
             PROVE  Safe(r, toDB', fromDB', redis'[r], object'[r], latest'[r])
    BY DEF DataSafe
<1>2. Safe(r, toDB, fromDB, redis[r], object[r], latest[r])
    BY <1>1 DEF DataSafe
<1>3. Safe(r, SaveData(toDB, x), fromDB, redis[r], object[r], latest[r])
    BY <1>2, SaveDataSafe
<1> QED BY <1>1, <1>3

LEMMA SetPropertySafe ==
    ASSUME IInv, DataSafe, NEW x \in Roles, SetProperty(x)
    PROVE  DataSafe'
<1>1. /\ object[x] # NoObject /\ latest[x] < MaxData
      /\ object' = [object EXCEPT ![x] = latest[x] + 1]
      /\ latest' = [latest EXCEPT ![x] = latest[x] + 1]
      /\ UNCHANGED <<toDB, fromDB, redis>> /\ Failed' = Failed
    BY DEF SetProperty, dbVars, Failed
<1>2. /\ object' = [r \in Roles |-> IF r = x THEN latest[x] + 1 ELSE object[r]]
      /\ latest' = [r \in Roles |-> IF r = x THEN latest[x] + 1 ELSE latest[r]]
      /\ latest[x] + 1 # NoObject
    <2>1. object \in [Roles -> Data \cup {NoObject}] /\ latest \in [Roles -> Data]
        BY DEF IInv, Typed, PlayerTypes, HistoryTypes
    <2>2. latest[x] \in Nat
        BY <2>1, SessionBounds DEF Data
    <2>3. latest[x] + 1 # NoObject
        BY ONLY <2>2 DEF NoObject
    <2>4. object' = [r \in Roles |-> IF r = x THEN latest[x] + 1 ELSE object[r]]
        BY <1>1, <2>1, Zenon
    <2>5. latest' = [r \in Roles |-> IF r = x THEN latest[x] + 1 ELSE latest[r]]
        BY <1>1, <2>1, Zenon
    <2> QED BY <2>3, <2>4, <2>5
<1> SUFFICES ASSUME NEW r \in Roles \ Failed'
             PROVE  Safe(r, toDB', fromDB', redis'[r], object'[r], latest'[r])
    BY DEF DataSafe
<1>3. Safe(r, toDB, fromDB, redis[r], object[r], latest[r])
    BY <1>1 DEF DataSafe
<1>4. CASE r = x
    <2>1. NoLoads(toDB, fromDB, r)
        BY <1>1, <1>3, <1>4 DEF Safe
    <2>2. Safe(r, toDB, fromDB, redis[r], latest[x] + 1, latest[x] + 1)
        BY <1>2, <1>3, <2>1, NewObjectSafe
    <2> QED BY <1>1, <1>2, <1>4, <2>2
<1>5. CASE r # x
    BY <1>1, <1>2, <1>3, <1>5
<1> QED BY <1>4, <1>5

LEMMA StoredSafe ==
    ASSUME IInv, DataSafe, NEW d \in DBs, OnSaveRoleDataProcess(d)
    PROVE  DataSafe'
<1> DEFINE m == Head(toDB[d])
<1>1. /\ toDB[d] # <<>> /\ toDB' = Without(toDB, d) /\ m.type = "SAVE"
      /\ redis' = [redis EXCEPT ![m.role] = m.data]
      /\ UNCHANGED <<fromDB, object, latest>> /\ Failed' = Failed
    BY DEF OnSaveRoleDataProcess, Without, gameVars, history, Failed
<1>2. toDB \in [DBs -> Seq(ToDBMessage)] /\ redis \in [Roles -> Data]
    BY DEF IInv, Typed, DBTypes
<1>3. m.role \in Roles /\ toDB[d][1] = m
    <2>1. m \in ToDBMessage /\ toDB[d][1] = m
        BY <1>1, <1>2, ReadTyped, TakenAt
    <2> QED BY <2>1 DEF ToDBMessage
<1> HIDE DEF m
<1> SUFFICES ASSUME NEW r \in Roles \ Failed'
             PROVE  Safe(r, toDB', fromDB', redis'[r], object'[r], latest'[r])
    BY DEF DataSafe
<1>4. Safe(r, toDB, fromDB, redis[r], object[r], latest[r])
    BY <1>1 DEF DataSafe
<1>5. /\ SaveIn(toDB, r, d, 1) <=> m.type = "SAVE" /\ m.role = r
      /\ LoadIn(toDB, r, d, 1) <=> m.type = "LOAD" /\ m.role = r
    BY <1>1, <1>2, <1>3, Taking
<1>6. /\ ~LoadIn(toDB, r, d, 1)
      /\ IF SaveIn(toDB, r, d, 1) THEN redis'[r] = toDB[d][1].data ELSE redis'[r] = redis[r]
    BY <1>1, <1>2, <1>3, <1>5
<1>7. Safe(r, Without(toDB, d), fromDB, redis'[r], object[r], latest[r])
    BY <1>1, <1>2, <1>4, <1>6, SaveTaken
<1> QED BY <1>1, <1>7

LEMMA AskedSafe ==
    ASSUME IInv, DataSafe, NEW d \in DBs, NEW succeeds \in BOOLEAN,
           OnLoadRoleDataProcess(d, succeeds)
    PROVE  DataSafe'
<1> DEFINE h == Head(toDB[d])
           m == [role |-> h.role, data |-> IF succeeds THEN redis[h.role] ELSE 0]
<1>1. /\ toDB[d] # <<>> /\ toDB' = Without(toDB, d) /\ h.type = "LOAD"
      /\ fromDB' = With(fromDB, d, m)
      /\ IF succeeds THEN lost' = lost ELSE lost' = lost \cup {h.role}
      /\ UNCHANGED <<redis, object, latest, doubleLoaded, overtaken>>
    BY DEF OnLoadRoleDataProcess, Without, With, gameVars
<1>2. /\ toDB \in [DBs -> Seq(ToDBMessage)] /\ fromDB \in [DBs -> Seq(FromDBMessage)]
      /\ redis \in [Roles -> Data]
    BY DEF IInv, Typed, DBTypes
<1>3. h.role \in Roles /\ toDB[d][1] = h
    <2>1. h \in ToDBMessage /\ toDB[d][1] = h
        BY <1>1, <1>2, ReadTyped, TakenAt
    <2> QED BY <2>1 DEF ToDBMessage
<1>4. m \in FromDBMessage /\ m.role = h.role /\ (succeeds => m.data = redis[h.role])
    BY <1>2, <1>3, SessionBounds DEF FromDBMessage, Data
<1> HIDE DEF h, m
<1> SUFFICES ASSUME NEW r \in Roles \ Failed'
             PROVE  Safe(r, toDB', fromDB', redis'[r], object'[r], latest'[r])
    BY DEF DataSafe
<1>5. Safe(r, toDB, fromDB, redis[r], object[r], latest[r])
    BY <1>1 DEF DataSafe, Failed
<1>6. /\ SaveIn(toDB, r, d, 1) <=> h.type = "SAVE" /\ h.role = r
      /\ LoadIn(toDB, r, d, 1) <=> h.type = "LOAD" /\ h.role = r
    <2>1. toDB \in [DBs -> Seq(ToDBMessage)] /\ d \in DBs /\ toDB[d] # <<>> /\ r \in Roles
        BY <1>1, <1>2
    <2>2. /\ SaveIn(toDB, r, d, 1) <=> toDB[d][1].type = "SAVE" /\ toDB[d][1].role = r
          /\ LoadIn(toDB, r, d, 1) <=> toDB[d][1].type = "LOAD" /\ toDB[d][1].role = r
        BY ONLY <2>1, Taking
    <2> QED BY <1>3, <2>2
<1>7. CASE r = h.role
    <2>1. LoadIn(toDB, r, d, 1) /\ m.role = r /\ m.data = redis[r]
        BY <1>1, <1>4, <1>6, <1>7 DEF Failed
    <2>2. Safe(r, Without(toDB, d), With(fromDB, d, m), redis[r], object[r], latest[r])
        BY <1>1, <1>2, <1>4, <1>5, <2>1, LoadTaken
    <2> QED BY <1>1, <2>2
<1>8. CASE r # h.role
    <2>1. Safe(r, Without(toDB, d), fromDB, redis[r], object[r], latest[r])
        BY <1>1, <1>2, <1>5, <1>6, <1>8, SaveTaken
    <2>2. Safe(r, Without(toDB, d), With(fromDB, d, m), redis[r], object[r], latest[r])
        BY <1>2, <1>4, <1>8, <2>1, OtherAnswered
    <2> QED BY <1>1, <2>2
<1> QED BY <1>7, <1>8

\* A role of which nothing was lost had nothing there.
LEMMA DBBreaksSafe ==
    ASSUME IInv, DataSafe, NEW d \in DBs, DBLinkBreaks(d)
    PROVE  DataSafe'
<1>1. /\ lost' = lost \cup RolesIn(toDB[d]) \cup RolesIn(fromDB[d])
      /\ toDB' = [toDB EXCEPT ![d] = <<>>] /\ fromDB' = [fromDB EXCEPT ![d] = <<>>]
      /\ UNCHANGED <<redis, object, latest, doubleLoaded, overtaken>>
    BY DEF DBLinkBreaks, gameVars
<1> SUFFICES ASSUME NEW r \in Roles \ Failed'
             PROVE  Safe(r, toDB', fromDB', redis'[r], object'[r], latest'[r])
    BY DEF DataSafe
<1>2. Safe(r, toDB, fromDB, redis[r], object[r], latest[r])
    BY <1>1 DEF DataSafe, Failed
<1>3. r \notin RolesIn(toDB[d]) /\ r \notin RolesIn(fromDB[d]) /\ r # NULL
    BY <1>1, GuidsAssumption DEF Failed, NULL
<1>4. \A n \in 1 .. Len(toDB[d]) : toDB[d][n].role # r
    <2>1. \A n \in 1 .. Len(toDB[d]) : toDB[d][n] \in ToSet(toDB[d])
        BY DEF IInv, Typed, DBTypes, ToSet
    <2> QED BY <1>3, <2>1 DEF RolesIn
<1>5. \A n \in 1 .. Len(fromDB[d]) : fromDB[d][n].role # r
    <2>1. \A n \in 1 .. Len(fromDB[d]) : fromDB[d][n] \in ToSet(fromDB[d])
        BY DEF IInv, Typed, DBTypes, ToSet
    <2> QED BY <1>3, <2>1 DEF RolesIn
<1>6. \A e \in DBs : /\ toDB'[e] = IF e = d THEN <<>> ELSE toDB[e]
                     /\ fromDB'[e] = IF e = d THEN <<>> ELSE fromDB[e]
    BY <1>1 DEF IInv, Typed, DBTypes
<1> DEFINE q == toDB'
           a == fromDB'
<1>7. \A e \in DBs, n \in Nat :
            /\ SaveIn(q, r, e, n) <=> SaveIn(toDB, r, e, n)
            /\ LoadIn(q, r, e, n) <=> LoadIn(toDB, r, e, n)
            /\ AnswerIn(a, r, e, n) <=> AnswerIn(fromDB, r, e, n)
            /\ SaveIn(q, r, e, n) => q[e][n] = toDB[e][n]
            /\ AnswerIn(a, r, e, n) => a[e][n] = fromDB[e][n]
    BY <1>4, <1>5, <1>6 DEF SaveIn, LoadIn, AnswerIn
<1> HIDE DEF q, a
<1>8. /\ NoSaves(q, r) <=> NoSaves(toDB, r)
      /\ NoLoads(toDB, fromDB, r) => NoLoads(q, a, r)
    BY <1>7 DEF NoSaves, NoLoads
<1>9. NewestIsStored(toDB, r, redis[r], latest[r]) => NewestIsStored(q, r, redis[r], latest[r])
    BY <1>7, <1>8 DEF NewestIsStored
<1>10. SavesAtHome(q, r) /\ LoadsSeeSaves(q, r) /\ AnswersAreNewest(q, a, r, latest[r])
    BY <1>2, <1>7, <1>8 DEF Safe, SavesAtHome, LoadsSeeSaves, AnswersAreNewest
<1>11. OneLoad(q, a, r)
    BY <1>2, <1>7 DEF Safe, OneLoad
<1>12. Safe(r, q, a, redis[r], object[r], latest[r])
    BY <1>2, <1>8, <1>9, <1>10, <1>11 DEF Safe
<1> QED BY <1>1, <1>12 DEF q, a

LEMMA DataStep ==
    ASSUME IInv, DataSafe, [Next]_vars
    PROVE  DataSafe'
<1>1. CASE ClientSide
    <2>1. UNCHANGED <<dbVars, object, latest>> /\ Failed \subseteq Failed'
        BY <1>1 DEF ClientSide, OnClientConnected, OnConnectKeyProcess, OnSelectServerProcess,
            OnReqEnterGameServer, OnClientDisconnect, gameVars, history, Failed
    <2> QED BY <2>1, DataStays
<1>2. ASSUME NEW g \in Gates, GateReads(g) \/ GameReads(g) PROVE DataSafe'
    <2>1. CASE GateReads(g) \/ OnProxyServerRegisteredProcess(g)
        <3>1. UNCHANGED <<dbVars, object, latest>> /\ Failed \subseteq Failed'
            BY <2>1 DEF GateReads, EnterGameSuccessEvent, OnProxyServerRegisteredProcess,
                gameVars, history, Failed
        <3> QED BY <3>1, DataStays
    <2>2. CASE OnClientLeaveGameProcess(g) \/ OnClientEnterGameWhileLoading(g)
        <3> DEFINE x == Head(toGame[g]).role
        <3>1. /\ \E type \in {"REQ_ENTER_GAME", "REQ_LEAVE_GAME"} : Receive(g, type)
              /\ toDB' = SaveData(toDB, x) /\ object' = [object EXCEPT ![x] = NoObject]
              /\ UNCHANGED <<fromDB, redis, latest>> /\ Failed' = Failed
            BY <2>2 DEF OnClientLeaveGameProcess, OnClientEnterGameWhileLoading, history, Failed
        <3>2. x \in Roles
            BY <3>1, RequestTyped DEF IInv, Typed
        <3> HIDE DEF x
        <3> QED BY <3>1, <3>2, DestroySafe
    <2>3. CASE \E d \in DBs, garbage \in {"E_LOADING", "other"} :
                    OnClientEnterGameProcess(g, d, garbage)
        BY <2>3, EnterSafe
    <2> QED BY <1>2, <2>1, <2>2, <2>3 DEF GameReads
<1>3. CASE \E d \in DBs : GameReadsDB(d) \/ DBReads(d)
    BY <1>3, LoadedSafe, StoredSafe, AskedSafe DEF GameReadsDB, DBReads
<1>4. CASE Environment
    <2>1. CASE \/ \E g \in Gates : Register(g) \/ LinkBreaks(g)
               \/ \E s \in closedSockets : OnGateDisconnect(s)
        <3>1. UNCHANGED <<dbVars, object, latest>> /\ Failed \subseteq Failed'
            BY <2>1 DEF Register, LinkBreaks, OnGateDisconnect, gameVars, history, Failed
        <3> QED BY <3>1, DataStays
    <2> QED BY <1>4, <2>1, SaveOnTimeSafe, SetPropertySafe, DBBreaksSafe DEF Environment
<1>5. CASE UNCHANGED vars
    <2>1. UNCHANGED <<dbVars, object, latest>> /\ Failed \subseteq Failed'
        BY <1>5 DEF vars, gameVars, history, Failed
    <2> QED BY <2>1, DataStays
<1> QED BY <1>1, <1>2, <1>3, <1>4, <1>5 DEF Next, Handlers

LEMMA DataStart == Init => DataSafe
<1> SUFFICES ASSUME Init, NEW r \in Roles
             PROVE  Safe(r, toDB, fromDB, redis[r], object[r], latest[r])
    BY DEF DataSafe
<1>1. object[r] = NoObject /\ redis[r] = latest[r]
    BY DEF Init
<1>2. \A d \in DBs, n \in Nat :
        ~SaveIn(toDB, r, d, n) /\ ~LoadIn(toDB, r, d, n) /\ ~AnswerIn(fromDB, r, d, n)
    BY DEF Init, SaveIn, LoadIn, AnswerIn
<1> QED BY <1>1, <1>2 DEF Safe, NewestIsStored, NoSaves, SavesAtHome, LoadsSeeSaves,
        AnswersAreNewest, OneLoad

\* A role is played with its newest data, whatever saves, loads, timers, leaves and
\* entries cross between game server, DB servers and store; unless two loads were
\* under way at once, a load overtook a save on the way to another DB server, or a
\* connection or a load failed (SaveData, OnDBLoadRoleDataProcess and
\* OnClientEnterGameProcess against OnSaveRoleDataProcess and OnLoadRoleDataProcess).
THEOREM NewestPlayed == Spec => []NoRollback
<1>1. Init => IInv /\ DataSafe
    BY Start, DataStart
<1>2. (IInv /\ DataSafe) /\ [Next]_vars => (IInv /\ DataSafe)'
    BY StepKeeps, DataStep
<1>3. IInv /\ DataSafe => NoRollback
    BY DEF DataSafe, Safe, NoRollback, Failed
<1> QED BY <1>1, <1>2, <1>3, PTL DEF Spec

-------------------------------------------------------------------------------
(* Clients and players. *)

\* A message of the set P is among those under way.
In(s, P) == \E n \in 1 .. Len(s) : s[n] \in P

LEMMA AddedIn ==
    ASSUME NEW S, NEW s \in Seq(S), NEW m \in S, NEW P
    PROVE  In(Append(s, m), P) <=> In(s, P) \/ m \in P
<1> DEFINE t == Append(s, m)
<1>1. /\ Len(s) \in Nat /\ Len(t) = Len(s) + 1 /\ t[Len(s) + 1] = m
      /\ \A n \in 1 .. Len(s) : t[n] = s[n]
    OBVIOUS
<1> HIDE DEF t
<1>2. In(t, P) <=> In(s, P) \/ m \in P
    BY <1>1 DEF In
<1> QED BY <1>2 DEF t

LEMMA TakenIn ==
    ASSUME NEW S, NEW s \in Seq(S), s # <<>>, NEW P
    PROVE  In(s, P) <=> In(Tail(s), P) \/ Head(s) \in P
<1> DEFINE t == Tail(s)
<1>1. /\ Len(t) = Len(s) - 1 /\ Len(s) \in Nat \ {0} /\ Head(s) = s[1]
      /\ \A n \in 1 .. Len(t) : n + 1 \in 1 .. Len(s) /\ t[n] = s[n + 1]
    OBVIOUS
<1> HIDE DEF t
<1>2. In(t, P) => In(s, P)
    BY <1>1 DEF In
<1>3. In(s, P) => In(t, P) \/ Head(s) \in P
    <2>1. ASSUME NEW n \in 1 .. Len(s), s[n] \in P, n # 1
          PROVE  In(t, P)
        <3>1. n - 1 \in 1 .. Len(t) /\ t[n - 1] = s[n]
            BY <1>1, <2>1
        <3> QED BY <2>1, <3>1 DEF In
    <2> QED BY <1>1, <2>1 DEF In
<1>4. Head(s) \in P => In(s, P)
    BY <1>1 DEF In
<1> QED BY <1>2, <1>3, <1>4 DEF t

-------------------------------------------------------------------------------
(* Messages between gates and the game server. *)

Enter(c, r) == Message("REQ_ENTER_GAME", c, r)
Leave(c, r) == Message("REQ_LEAVE_GAME", c, r)
Ack(c, r) == Message("ACK_ENTER_GAME", c, r)
Registered == Message("PTWG_PROXY_REGISTERED", NULL, NULL)

Asks(g, c, r) == In(toGame[g], {Enter(c, r)})
Leaves(g, c, r) == In(toGame[g], {Leave(c, r)})
Acks(g, c, r) == In(toGate[g], {Ack(c, r)})

\* Behind every request to enter comes a leave of the role.
LeftIn(s, c, r) ==
    \A n \in 1 .. Len(s) : s[n] = Enter(c, r) =>
        \E k \in 1 .. Len(s) : k > n /\ \E b \in Clients : s[k] = Leave(b, r)
Left(g, c, r) == LeftIn(toGame[g], c, r)

LEMMA Messages ==
    /\ \A c, b \in Clients, r, x \in Roles :
        /\ Enter(c, r) = Enter(b, x) <=> c = b /\ r = x
        /\ Leave(c, r) = Leave(b, x) <=> c = b /\ r = x
        /\ Ack(c, r) = Ack(b, x) <=> c = b /\ r = x
        /\ Enter(c, r) # Leave(b, x)
        /\ Enter(c, r) # Registered /\ Leave(c, r) # Registered
        /\ Enter(c, r) \in ToGameMessage /\ Leave(c, r) \in ToGameMessage
        /\ Ack(c, r) \in ToGateMessage
    /\ \A m \in ToGameMessage :
        /\ m.type = "REQ_ENTER_GAME" =>
            m.client \in Clients /\ m.role \in Roles /\ m = Enter(m.client, m.role)
        /\ m.type = "REQ_LEAVE_GAME" =>
            m.client \in Clients /\ m.role \in Roles /\ m = Leave(m.client, m.role)
        /\ m.type = "PTWG_PROXY_REGISTERED" => m = Registered
    /\ \A m \in ToGateMessage :
        m.client \in Clients /\ m.role \in Roles /\ m = Ack(m.client, m.role)
    /\ Registered \in ToGameMessage
BY DEF Enter, Leave, Ack, Registered, Message, ToGameMessage, ToGateMessage

\* A gate sends m.
LEMMA GateSends ==
    ASSUME IInv, NEW g \in Gates, NEW m \in ToGameMessage, toGame' = With(toGame, g, m)
    PROVE  \A h \in Gates, c \in Clients, r \in Roles :
            /\ Asks(h, c, r)' <=> Asks(h, c, r) \/ (h = g /\ m = Enter(c, r))
            /\ Leaves(h, c, r)' <=> Leaves(h, c, r) \/ (h = g /\ m = Leave(c, r))
            /\ Left(h, c, r) /\ (h = g => m # Enter(c, r)) => Left(h, c, r)'
            /\ h = g /\ (\E b \in Clients : m = Leave(b, r)) => Left(h, c, r)'
<1>1. toGame \in [Gates -> Seq(ToGameMessage)]
    BY DEF IInv, Typed, ToGameTypes
<1> SUFFICES ASSUME NEW h \in Gates, NEW c \in Clients, NEW r \in Roles
             PROVE  /\ Asks(h, c, r)' <=> Asks(h, c, r) \/ (h = g /\ m = Enter(c, r))
                    /\ Leaves(h, c, r)' <=> Leaves(h, c, r) \/ (h = g /\ m = Leave(c, r))
                    /\ Left(h, c, r) /\ (h = g => m # Enter(c, r)) => Left(h, c, r)'
                    /\ h = g /\ (\E b \in Clients : m = Leave(b, r)) => Left(h, c, r)'
    OBVIOUS
<1>a. ASSUME NEW P
      PROVE  In(toGame'[h], P) <=> In(toGame[h], P) \/ (h = g /\ m \in P)
    <2>1. CASE h # g
        BY <1>1, <2>1 DEF With
    <2>2. CASE h = g
        <3>1. toGame'[h] = Append(toGame[g], m) /\ toGame[h] \in Seq(ToGameMessage)
            BY <1>1, <2>2 DEF With
        <3> QED BY <2>2, <3>1, AddedIn
    <2> QED BY <2>1, <2>2
<1>2. Asks(h, c, r)' <=> Asks(h, c, r) \/ (h = g /\ m = Enter(c, r))
    BY <1>a DEF Asks
<1>3. Leaves(h, c, r)' <=> Leaves(h, c, r) \/ (h = g /\ m = Leave(c, r))
    BY <1>a DEF Leaves
<1>4. CASE h # g
    <2>1. toGame'[h] = toGame[h]
        BY <1>1, <1>4 DEF With
    <2> QED BY <1>2, <1>3, <1>4, <2>1 DEF Left
<1>5. CASE h = g
    <2> DEFINE s == toGame[g]
               t == toGame'[g]
    <2>1. t = Append(s, m) /\ s \in Seq(ToGameMessage)
        BY <1>1 DEF With
    <2>2. /\ Len(s) \in Nat /\ Len(t) = Len(s) + 1 /\ t[Len(s) + 1] = m
          /\ \A n \in 1 .. Len(s) : t[n] = s[n]
        BY <2>1
    <2> HIDE DEF s, t
    <2>3. LeftIn(s, c, r) /\ m # Enter(c, r) => LeftIn(t, c, r)
        BY <2>2 DEF LeftIn
    <2>4. ASSUME NEW b \in Clients, m = Leave(b, r)
          PROVE  LeftIn(t, c, r)
        <3>1. m # Enter(c, r)
            BY <2>4, Messages
        <3> QED BY <2>2, <2>4, <3>1 DEF LeftIn
    <2> QED BY <1>2, <1>3, <1>5, <2>3, <2>4 DEF Left, s, t
<1> QED BY <1>4, <1>5

\* The game server reads m.
LEMMA GameTakes ==
    ASSUME IInv, NEW g \in Gates, toGame[g] # <<>>, toGame' = Without(toGame, g),
           NEW m, m = Head(toGame[g])
    PROVE  /\ m \in ToGameMessage
           /\ \A h \in Gates, c \in Clients, r \in Roles :
            /\ Asks(h, c, r) <=> Asks(h, c, r)' \/ (h = g /\ m = Enter(c, r))
            /\ Leaves(h, c, r) <=> Leaves(h, c, r)' \/ (h = g /\ m = Leave(c, r))
            /\ Left(h, c, r) => Left(h, c, r)'
            /\ Left(h, c, r) /\ h = g /\ m = Enter(c, r) =>
                \E b \in Clients : Leaves(h, b, r)'
<1>1. toGame \in [Gates -> Seq(ToGameMessage)]
    BY DEF IInv, Typed, ToGameTypes
<1>2. m \in ToGameMessage
    BY <1>1, ReadTyped
<1> SUFFICES ASSUME NEW h \in Gates, NEW c \in Clients, NEW r \in Roles
             PROVE  /\ Asks(h, c, r) <=> Asks(h, c, r)' \/ (h = g /\ m = Enter(c, r))
                    /\ Leaves(h, c, r) <=> Leaves(h, c, r)' \/ (h = g /\ m = Leave(c, r))
                    /\ Left(h, c, r) => Left(h, c, r)'
                    /\ Left(h, c, r) /\ h = g /\ m = Enter(c, r) =>
                        \E b \in Clients : Leaves(h, b, r)'
    BY <1>2
<1>a. ASSUME NEW P
      PROVE  In(toGame[h], P) <=> In(toGame'[h], P) \/ (h = g /\ m \in P)
    <2>1. CASE h # g
        BY <1>1, <2>1 DEF Without
    <2>2. CASE h = g
        <3>1. toGame'[h] = Tail(toGame[g]) /\ toGame[h] \in Seq(ToGameMessage)
            BY <1>1, <2>2 DEF Without
        <3> QED BY <2>2, <3>1, TakenIn
    <2> QED BY <2>1, <2>2
<1>3. Asks(h, c, r) <=> Asks(h, c, r)' \/ (h = g /\ m = Enter(c, r))
    BY <1>a DEF Asks
<1>4. Leaves(h, c, r) <=> Leaves(h, c, r)' \/ (h = g /\ m = Leave(c, r))
    BY <1>a DEF Leaves
<1>5. CASE h # g
    <2>1. toGame'[h] = toGame[h]
        BY <1>1, <1>5 DEF Without
    <2> QED BY <1>3, <1>4, <1>5, <2>1 DEF Left
<1>6. CASE h = g
    <2> DEFINE s == toGame[g]
               t == toGame'[g]
    <2>1. t = Tail(s) /\ s \in Seq(ToGameMessage) /\ s # <<>> /\ m = Head(s)
        BY <1>1 DEF Without
    <2>2. /\ Len(s) \in Nat \ {0} /\ Len(t) = Len(s) - 1 /\ m = s[1]
          /\ \A n \in 1 .. Len(t) : n + 1 \in 1 .. Len(s) /\ t[n] = s[n + 1]
          /\ \A k \in 1 .. Len(s) : k > 1 => k - 1 \in 1 .. Len(t) /\ t[k - 1] = s[k]
        BY <2>1
    <2> HIDE DEF s, t
    <2>3. ASSUME LeftIn(s, c, r)
          PROVE  LeftIn(t, c, r)
        <3> SUFFICES ASSUME NEW n \in 1 .. Len(t), t[n] = Enter(c, r)
                     PROVE  \E k \in 1 .. Len(t) : k > n /\ \E b \in Clients : t[k] = Leave(b, r)
            BY DEF LeftIn
        <3>1. PICK k \in 1 .. Len(s) : k > n + 1 /\ \E b \in Clients : s[k] = Leave(b, r)
            BY <2>2, <2>3 DEF LeftIn
        <3>2. k - 1 \in 1 .. Len(t) /\ k - 1 > n /\ t[k - 1] = s[k]
            BY <2>2, <3>1
        <3> QED BY <3>1, <3>2
    <2>4. ASSUME LeftIn(s, c, r), m = Enter(c, r)
          PROVE  \E b \in Clients : Leaves(h, b, r)'
        <3>1. PICK k \in 1 .. Len(s) : k > 1 /\ \E b \in Clients : s[k] = Leave(b, r)
            <4>1. 1 \in 1 .. Len(s)
                BY <2>2
            <4> QED BY <2>2, <2>4, <4>1 DEF LeftIn
        <3>2. k - 1 \in 1 .. Len(t) /\ \E b \in Clients : t[k - 1] = Leave(b, r)
            BY <2>2, <3>1
        <3> QED BY <1>6, <3>2 DEF Leaves, In, t
    <2> QED BY <1>3, <1>4, <1>6, <2>3, <2>4 DEF Left, s, t
<1> QED BY <1>5, <1>6

\* The game server sends m, and a gate reads m.
LEMMA GameSends ==
    ASSUME IInv, NEW g \in Gates, NEW m \in ToGateMessage, toGate' = With(toGate, g, m)
    PROVE  \A h \in Gates, c \in Clients, r \in Roles :
            Acks(h, c, r)' <=> Acks(h, c, r) \/ (h = g /\ m = Ack(c, r))
<1>1. toGate \in [Gates -> Seq(ToGateMessage)]
    BY DEF IInv, Typed, ToGateTypes
<1>2. ASSUME NEW h \in Gates, NEW P
      PROVE  In(toGate'[h], P) <=> In(toGate[h], P) \/ (h = g /\ m \in P)
    <2>1. CASE h # g
        BY <1>1, <2>1 DEF With
    <2>2. CASE h = g
        <3>1. toGate'[h] = Append(toGate[g], m) /\ toGate[h] \in Seq(ToGateMessage)
            BY <1>1, <2>2 DEF With
        <3> QED BY <2>2, <3>1, AddedIn
    <2> QED BY <2>1, <2>2
<1> QED BY <1>2 DEF Acks

LEMMA GateTakes ==
    ASSUME IInv, NEW g \in Gates, toGate[g] # <<>>, toGate' = Without(toGate, g),
           NEW m, m = Head(toGate[g])
    PROVE  /\ m \in ToGateMessage
           /\ \A h \in Gates, c \in Clients, r \in Roles :
                Acks(h, c, r) <=> Acks(h, c, r)' \/ (h = g /\ m = Ack(c, r))
<1>1. toGate \in [Gates -> Seq(ToGateMessage)]
    BY DEF IInv, Typed, ToGateTypes
<1>2. m \in ToGateMessage
    BY <1>1, ReadTyped
<1>3. ASSUME NEW h \in Gates, NEW P
      PROVE  In(toGate[h], P) <=> In(toGate'[h], P) \/ (h = g /\ m \in P)
    <2>1. CASE h # g
        BY <1>1, <2>1 DEF Without
    <2>2. CASE h = g
        <3>1. toGate'[h] = Tail(toGate[g]) /\ toGate[h] \in Seq(ToGateMessage)
            BY <1>1, <2>2 DEF Without
        <3> QED BY <2>2, <3>1, TakenIn
    <2> QED BY <2>1, <2>2
<1> QED BY <1>2, <1>3 DEF Acks

-------------------------------------------------------------------------------
(* Loads under way. *)

Loads(r) == {m \in ToDBMessage : m.type = "LOAD" /\ m.role = r}
Answers(r) == {m \in FromDBMessage : m.role = r}

LoadAt(q, d, r) == In(q[d], Loads(r))
AnswerAt(a, d, r) == In(a[d], Answers(r))

LEMMA LoadingIs ==
    ASSUME NEW q \in [DBs -> Seq(ToDBMessage)], NEW a \in [DBs -> Seq(FromDBMessage)], NEW r
    PROVE  \A d \in DBs :
            /\ LoadAt(q, d, r) <=>
                \E n \in 1 .. Len(q[d]) : q[d][n].type = "LOAD" /\ q[d][n].role = r
            /\ AnswerAt(a, d, r) <=> \E n \in 1 .. Len(a[d]) : a[d][n].role = r
<1> SUFFICES ASSUME NEW d \in DBs
             PROVE  /\ LoadAt(q, d, r) <=>
                        \E n \in 1 .. Len(q[d]) : q[d][n].type = "LOAD" /\ q[d][n].role = r
                    /\ AnswerAt(a, d, r) <=> \E n \in 1 .. Len(a[d]) : a[d][n].role = r
    OBVIOUS
<1>1. /\ \A n \in 1 .. Len(q[d]) : q[d][n] \in ToDBMessage
      /\ \A n \in 1 .. Len(a[d]) : a[d][n] \in FromDBMessage
    OBVIOUS
<1> QED BY <1>1 DEF LoadAt, AnswerAt, In, Loads, Answers

LEMMA LoadingInQueues ==
    ASSUME IInv, NEW r \in Roles
    PROVE  Loading(r) <=> \E d \in DBs : LoadAt(toDB, d, r) \/ AnswerAt(fromDB, d, r)
<1>1. toDB \in [DBs -> Seq(ToDBMessage)] /\ fromDB \in [DBs -> Seq(FromDBMessage)]
    BY DEF IInv, Typed, DBTypes
<1>2. \A d \in DBs :
            /\ LoadAt(toDB, d, r) <=>
                \E n \in 1 .. Len(toDB[d]) : toDB[d][n].type = "LOAD" /\ toDB[d][n].role = r
            /\ AnswerAt(fromDB, d, r) <=> \E n \in 1 .. Len(fromDB[d]) : fromDB[d][n].role = r
    BY <1>1, LoadingIs
<1> QED BY <1>2 DEF Loading

LEMMA ToDBAdds ==
    ASSUME NEW q \in [DBs -> Seq(ToDBMessage)], NEW d \in DBs, NEW m \in ToDBMessage
    PROVE  /\ With(q, d, m) \in [DBs -> Seq(ToDBMessage)]
           /\ \A e \in DBs, r \in Roles : LoadAt(With(q, d, m), e, r) <=>
                LoadAt(q, e, r) \/ (e = d /\ m.type = "LOAD" /\ m.role = r)
<1>1. ASSUME NEW e \in DBs, NEW P
      PROVE  In(With(q, d, m)[e], P) <=> In(q[e], P) \/ (e = d /\ m \in P)
    <2>1. CASE e # d
        BY <2>1 DEF With
    <2>2. CASE e = d
        <3>1. With(q, d, m)[e] = Append(q[e], m) /\ q[e] \in Seq(ToDBMessage)
            BY <2>2 DEF With
        <3> QED BY <2>2, <3>1, AddedIn
    <2> QED BY <2>1, <2>2
<1>2. With(q, d, m) \in [DBs -> Seq(ToDBMessage)]
    BY AppendTyped DEF With
<1> QED BY <1>1, <1>2 DEF LoadAt, Loads

LEMMA ToDBTakes ==
    ASSUME NEW q \in [DBs -> Seq(ToDBMessage)], NEW d \in DBs, q[d] # <<>>
    PROVE  \A e \in DBs, r \in Roles : LoadAt(q, e, r) <=>
                \/ LoadAt(Without(q, d), e, r)
                \/ e = d /\ Head(q[d]).type = "LOAD" /\ Head(q[d]).role = r
<1>1. ASSUME NEW e \in DBs, NEW P
      PROVE  In(q[e], P) <=> In(Without(q, d)[e], P) \/ (e = d /\ Head(q[d]) \in P)
    <2>1. CASE e # d
        BY <2>1 DEF Without
    <2>2. CASE e = d
        <3>1. Without(q, d)[e] = Tail(q[e]) /\ q[e] \in Seq(ToDBMessage) /\ q[e] # <<>>
            BY <2>2 DEF Without
        <3> QED BY <2>2, <3>1, TakenIn
    <2> QED BY <2>1, <2>2
<1>2. Head(q[d]) \in ToDBMessage
    BY ReadTyped
<1> QED BY <1>1, <1>2 DEF LoadAt, Loads

LEMMA FromDBAdds ==
    ASSUME NEW a \in [DBs -> Seq(FromDBMessage)], NEW d \in DBs, NEW m \in FromDBMessage
    PROVE  \A e \in DBs, r \in Roles : AnswerAt(With(a, d, m), e, r) <=>
                AnswerAt(a, e, r) \/ (e = d /\ m.role = r)
<1>1. ASSUME NEW e \in DBs, NEW P
      PROVE  In(With(a, d, m)[e], P) <=> In(a[e], P) \/ (e = d /\ m \in P)
    <2>1. CASE e # d
        BY <2>1 DEF With
    <2>2. CASE e = d
        <3>1. With(a, d, m)[e] = Append(a[e], m) /\ a[e] \in Seq(FromDBMessage)
            BY <2>2 DEF With
        <3> QED BY <2>2, <3>1, AddedIn
    <2> QED BY <2>1, <2>2
<1> QED BY <1>1 DEF AnswerAt, Answers

LEMMA FromDBTakes ==
    ASSUME NEW a \in [DBs -> Seq(FromDBMessage)], NEW d \in DBs, a[d] # <<>>
    PROVE  \A e \in DBs, r \in Roles : AnswerAt(a, e, r) <=>
                AnswerAt(Without(a, d), e, r) \/ (e = d /\ Head(a[d]).role = r)
<1>1. ASSUME NEW e \in DBs, NEW P
      PROVE  In(a[e], P) <=> In(Without(a, d)[e], P) \/ (e = d /\ Head(a[d]) \in P)
    <2>1. CASE e # d
        BY <2>1 DEF Without
    <2>2. CASE e = d
        <3>1. Without(a, d)[e] = Tail(a[e]) /\ a[e] \in Seq(FromDBMessage) /\ a[e] # <<>>
            BY <2>2 DEF Without
        <3> QED BY <2>2, <3>1, TakenIn
    <2> QED BY <2>1, <2>2
<1>2. Head(a[d]) \in FromDBMessage
    BY ReadTyped
<1> QED BY <1>1, <1>2 DEF AnswerAt, Answers

\* A save is no load.
LEMMA SaveDataAt ==
    ASSUME IInv, NEW x \in Roles
    PROVE  /\ SaveData(toDB, x) \in [DBs -> Seq(ToDBMessage)]
           /\ \A d \in DBs, r \in Roles : LoadAt(SaveData(toDB, x), d, r) <=> LoadAt(toDB, d, r)
<1> DEFINE m == [type |-> "SAVE", role |-> x, data |-> object[x]]
<1>1. toDB \in [DBs -> Seq(ToDBMessage)] /\ DBOfRole[x] \in DBs
    BY DBOfRoleAssumption DEF IInv, Typed, DBTypes
<1>2. CASE object[x] = NoObject
    BY <1>1, <1>2 DEF SaveData
<1>3. CASE object[x] # NoObject
    <2>1. m \in ToDBMessage /\ m.type = "SAVE"
        BY <1>3 DEF IInv, Typed, PlayerTypes, ToDBMessage
    <2>2. SaveData(toDB, x) = With(toDB, DBOfRole[x], m)
        BY <1>3 DEF SaveData, With
    <2> HIDE DEF m
    <2> QED BY <1>1, <2>1, <2>2, ToDBAdds
<1> QED BY <1>2, <1>3

LoadingIn(q, a, r) == \E d \in DBs : LoadAt(q, d, r) \/ AnswerAt(a, d, r)

LEMMA LoadingBoth ==
    ASSUME IInv, IInv'
    PROVE  \A r \in Roles :
            /\ Loading(r) <=> LoadingIn(toDB, fromDB, r)
            /\ Loading(r)' <=> LoadingIn(toDB', fromDB', r)
<1> SUFFICES ASSUME NEW r \in Roles
             PROVE  /\ Loading(r) <=> LoadingIn(toDB, fromDB, r)
                    /\ Loading(r)' <=> LoadingIn(toDB', fromDB', r)
    OBVIOUS
<1>1. Loading(r) <=> LoadingIn(toDB, fromDB, r)
    BY LoadingInQueues DEF LoadingIn
<1>2. toDB' \in [DBs -> Seq(ToDBMessage)] /\ fromDB' \in [DBs -> Seq(FromDBMessage)]
    BY DEF IInv, Typed, DBTypes
<1>3. \A d \in DBs :
        /\ LoadAt(toDB', d, r) <=>
            \E n \in 1 .. Len(toDB'[d]) : toDB'[d][n].type = "LOAD" /\ toDB'[d][n].role = r
        /\ AnswerAt(fromDB', d, r) <=> \E n \in 1 .. Len(fromDB'[d]) : fromDB'[d][n].role = r
    BY <1>2, LoadingIs
<1>4. Loading(r)' <=> LoadingIn(toDB', fromDB', r)
    BY <1>3 DEF Loading, LoadingIn
<1> QED BY <1>1, <1>4

\* Nothing but an object is saved.
LEMMA LoadingSaved ==
    ASSUME IInv, IInv', NEW x \in Roles, toDB' = SaveData(toDB, x), fromDB' = fromDB
    PROVE  \A r \in Roles : Loading(r)' <=> Loading(r)
BY LoadingBoth, SaveDataAt DEF LoadingIn

\* A load of x is asked for.
LEMMA LoadingAsked ==
    ASSUME IInv, IInv', NEW x \in Roles, NEW d \in DBs, fromDB' = fromDB,
           toDB' = With(SaveData(toDB, x), d, [type |-> "LOAD", role |-> x, data |-> 0])
    PROVE  \A r \in Roles : Loading(r)' <=> Loading(r) \/ r = x
<1> DEFINE m == [type |-> "LOAD", role |-> x, data |-> 0]
<1>1. m \in ToDBMessage /\ m.type = "LOAD" /\ m.role = x
    BY SessionBounds DEF ToDBMessage, Data
<1> HIDE DEF m
<1>2. SaveData(toDB, x) \in [DBs -> Seq(ToDBMessage)]
    BY SaveDataAt
<1>3. \A e \in DBs, r \in Roles :
        LoadAt(toDB', e, r) <=> LoadAt(SaveData(toDB, x), e, r) \/ (e = d /\ r = x)
    <2>1. PICK q : q = SaveData(toDB, x)
        OBVIOUS
    <2>2. q \in [DBs -> Seq(ToDBMessage)] /\ d \in DBs /\ toDB' = With(q, d, m)
        BY <1>2, <2>1 DEF m
    <2>3. \A e \in DBs, r \in Roles : LoadAt(toDB', e, r) <=> LoadAt(q, e, r) \/ (e = d /\ r = x)
        BY ONLY <1>1, <2>2, ToDBAdds
    <2> QED BY <2>1, <2>3
<1>4. \A e \in DBs, r \in Roles : LoadAt(toDB', e, r) <=> LoadAt(toDB, e, r) \/ (e = d /\ r = x)
    BY <1>3, SaveDataAt
<1> QED BY <1>4, LoadingBoth DEF LoadingIn

\* The answer of a load of x is read.
LEMMA LoadingEnds ==
    ASSUME IInv, IInv', NEW d \in DBs, fromDB[d] # <<>>, fromDB' = Without(fromDB, d),
           NEW x \in Roles, x = Head(fromDB[d]).role, toDB' = SaveData(toDB, x)
    PROVE  /\ Loading(x)
           /\ \A r \in Roles : (Loading(r)' => Loading(r)) /\ (r # x => (Loading(r) => Loading(r)'))
<1>1. fromDB \in [DBs -> Seq(FromDBMessage)]
    BY DEF IInv, Typed, DBTypes
<1>2. \A e \in DBs, r \in Roles :
        AnswerAt(fromDB, e, r) <=> AnswerAt(fromDB', e, r) \/ (e = d /\ x = r)
    BY <1>1, FromDBTakes
<1>3. \A e \in DBs, r \in Roles : LoadAt(toDB', e, r) <=> LoadAt(toDB, e, r)
    BY SaveDataAt
<1> QED BY <1>2, <1>3, LoadingBoth DEF LoadingIn

\* A DB server stores a save.
LEMMA LoadingStored ==
    ASSUME IInv, IInv', NEW d \in DBs, toDB[d] # <<>>, toDB' = Without(toDB, d),
           Head(toDB[d]).type = "SAVE", fromDB' = fromDB
    PROVE  \A r \in Roles : Loading(r)' <=> Loading(r)
<1>1. toDB \in [DBs -> Seq(ToDBMessage)]
    BY DEF IInv, Typed, DBTypes
<1>2. \A e \in DBs, r \in Roles : LoadAt(toDB, e, r) <=> LoadAt(toDB', e, r)
    BY <1>1, ToDBTakes
<1> QED BY <1>2, LoadingBoth DEF LoadingIn

\* A DB server answers a load.
LEMMA LoadingRead ==
    ASSUME IInv, IInv', NEW d \in DBs, toDB[d] # <<>>, toDB' = Without(toDB, d),
           Head(toDB[d]).type = "LOAD", NEW m \in FromDBMessage, m.role = Head(toDB[d]).role,
           fromDB' = With(fromDB, d, m)
    PROVE  \A r \in Roles : Loading(r)' <=> Loading(r)
<1>1. toDB \in [DBs -> Seq(ToDBMessage)] /\ fromDB \in [DBs -> Seq(FromDBMessage)]
    BY DEF IInv, Typed, DBTypes
<1>2. \A e \in DBs, r \in Roles :
        LoadAt(toDB, e, r) <=> LoadAt(toDB', e, r) \/ (e = d /\ m.role = r)
    <2>1. \A e \in DBs, r \in Roles : LoadAt(toDB, e, r) <=>
            \/ LoadAt(Without(toDB, d), e, r)
            \/ e = d /\ Head(toDB[d]).type = "LOAD" /\ Head(toDB[d]).role = r
        BY <1>1, ToDBTakes
    <2> QED BY <2>1
<1>3. \A e \in DBs, r \in Roles :
        AnswerAt(fromDB', e, r) <=> AnswerAt(fromDB, e, r) \/ (e = d /\ m.role = r)
    BY <1>1, FromDBAdds
<1> QED BY <1>2, <1>3, LoadingBoth DEF LoadingIn

\* Only roles that were under way lose a load with their connection.
LEMMA LoadingBroken ==
    ASSUME IInv, IInv', NEW d \in DBs,
           toDB' = [toDB EXCEPT ![d] = <<>>], fromDB' = [fromDB EXCEPT ![d] = <<>>]
    PROVE  \A r \in Roles :
            /\ Loading(r)' => Loading(r)
            /\ r \notin RolesIn(toDB[d]) \cup RolesIn(fromDB[d]) => (Loading(r) => Loading(r)')
<1>1. toDB \in [DBs -> Seq(ToDBMessage)] /\ fromDB \in [DBs -> Seq(FromDBMessage)]
    BY DEF IInv, Typed, DBTypes
<1>2. \A e \in DBs, r \in Roles :
        /\ LoadAt(toDB', e, r) <=> e # d /\ LoadAt(toDB, e, r)
        /\ AnswerAt(fromDB', e, r) <=> e # d /\ AnswerAt(fromDB, e, r)
    <2> SUFFICES ASSUME NEW e \in DBs, NEW r \in Roles
                 PROVE  /\ LoadAt(toDB', e, r) <=> e # d /\ LoadAt(toDB, e, r)
                        /\ AnswerAt(fromDB', e, r) <=> e # d /\ AnswerAt(fromDB, e, r)
        OBVIOUS
    <2>1. CASE e # d
        BY <1>1, <2>1 DEF LoadAt, AnswerAt
    <2>2. CASE e = d
        <3>1. toDB'[e] = <<>> /\ fromDB'[e] = <<>>
            BY <1>1, <2>2
        <3> QED BY <2>2, <3>1 DEF LoadAt, AnswerAt, In
    <2> QED BY <2>1, <2>2
<1>3. \A r \in Roles : /\ LoadAt(toDB, d, r) => r \in RolesIn(toDB[d])
                       /\ AnswerAt(fromDB, d, r) => r \in RolesIn(fromDB[d])
    BY GuidsAssumption DEF LoadAt, AnswerAt, In, Loads, Answers, RolesIn, ToSet, NULL
<1> QED BY <1>2, <1>3, LoadingBoth DEF LoadingIn

-------------------------------------------------------------------------------
(* The invariant. *)

\* Whoever has or gets anything to do with a role asked for it.
ClientsAsked ==
    /\ \A c \in Clients :
        /\ netObject[c].userID \in asked[c] \cup {NULL}
        /\ asked[c] # {} => netObject[c].selected /\ netObject[c].state \in {"verified", "closed"}
    /\ \A g \in Gates, c \in Clients, r \in Roles :
        /\ Asks(g, c, r) => r \in asked[c] /\ netObject[c].gate = g
        /\ Leaves(g, c, r) => r \in asked[c] /\ ~Connected(c)
        /\ Acks(g, c, r) => r \in asked[c]
    /\ \A r \in Roles : mRoleBaseData[r] # NoBase => r \in asked[mRoleBaseData[r].xClientID]

\* Where a client is gone a leave is still to come.
Followed(r) ==
    /\ mRoleBaseData[r] # NoBase =>
        \/ Connected(mRoleBaseData[r].xClientID)
        \/ \E g \in Gates, c \in Clients : Leaves(g, c, r)
    /\ \A g \in Gates, c \in Clients : ~Connected(c) => Left(g, c, r)

\* Client c may still change who plays the role.
Claims(r, c) ==
    \/ \E g \in Gates : Asks(g, c, r) \/ Leaves(g, c, r) \/ Acks(g, c, r)
    \/ Connected(c) /\ r \in asked[c]
    \/ Loading(r) /\ mRoleBaseData[r] # NoBase /\ c = mRoleBaseData[r].xClientID

\* Client c was told, or is being told, that it is in.
Enters(r, c) ==
    \/ \E g \in Gates : Leaves(g, c, r) \/ Acks(g, c, r)
    \/ Connected(c) /\ netObject[c].userID = r

OneClaims(r) ==
    /\ \A b, c \in Clients : Claims(r, b) /\ Claims(r, c) => b = c
    /\ \A c \in Clients : Enters(r, c) => mRoleBaseData[r].xClientID \in {NULL, c}

\* A role bound to a client is played, or will be once its data is there.
PlayedOrLoading(r) ==
    /\ mRoleBaseData[r] # NoBase => object[r] # NoObject \/ Loading(r)
    /\ mRoleBaseData[r].eStatus = "E_LOADING" => Loading(r)

BoundOnceIn(r) ==
    \A c \in Clients :
        Connected(c) /\ (netObject[c].userID = r \/ \E g \in Gates : Acks(g, c, r)) =>
            mRoleBaseData[r] # NoBase

SessionsOrdered ==
    /\ ClientsAsked
    /\ \A r \in Roles \ (abandoned \cup lost) : Followed(r)
    /\ \A r \in Roles \ contested : OneClaims(r)
    /\ \A r \in Roles \ lost : PlayedOrLoading(r)
    /\ \A r \in Roles \ (contested \cup lost) : BoundOnceIn(r)

\* What a client is bound to.
LEMMA BaseTyped ==
    ASSUME IInv, NEW r \in Roles
    PROVE  /\ mRoleBaseData[r] \in Base
           /\ mRoleBaseData[r] # NoBase =>
                mRoleBaseData[r].xClientID \in Clients /\ mRoleBaseData[r].gateID \in Gates
           /\ NoBase.xClientID = NULL /\ NoBase.eStatus = NULL
<1>1. mRoleBaseData[r] \in Base
    BY DEF IInv, Typed, PlayerTypes
<1> QED BY <1>1 DEF Base, NoBase

\* Messages are read by nobody or lost, saves and loads go on.
LEMMA Quiet ==
    ASSUME SessionsOrdered,
           UNCHANGED <<netObject, mRoleBaseData, asked, contested, abandoned>>,
           lost \subseteq lost',
           \A r \in Roles : Loading(r)' => Loading(r),
           \A r \in Roles \ lost' : Loading(r) => Loading(r)',
           \A r \in Roles \ lost' : object'[r] = NoObject => object[r] = NoObject,
           \A g \in Gates, c \in Clients, r \in Roles :
                /\ Asks(g, c, r)' => Asks(g, c, r)
                /\ Leaves(g, c, r)' => Leaves(g, c, r)
                /\ Acks(g, c, r)' => Acks(g, c, r)
                /\ Left(g, c, r) => Left(g, c, r)'
                /\ r \notin lost' => (Leaves(g, c, r) => Leaves(g, c, r)')
    PROVE  SessionsOrdered'
<1>0. \A c \in Clients : Connected(c)' <=> Connected(c)
    BY DEF Connected
<1>1. ClientsAsked'
    BY <1>0 DEF SessionsOrdered, ClientsAsked
<1>2. \A r \in Roles \ (abandoned' \cup lost') : Followed(r)'
    <2> SUFFICES ASSUME NEW r \in Roles \ (abandoned' \cup lost')
                 PROVE  Followed(r)'
        OBVIOUS
    <2>1. Followed(r)
        BY DEF SessionsOrdered
    <2>2. Connected(mRoleBaseData[r].xClientID)' <=> Connected(mRoleBaseData[r].xClientID)
        BY DEF Connected
    <2> QED BY <1>0, <2>1, <2>2 DEF Followed
<1>3. \A r \in Roles : \A c \in Clients : Claims(r, c)' => Claims(r, c)
    BY <1>0 DEF Claims
<1>4. \A r \in Roles : \A c \in Clients : Enters(r, c)' => Enters(r, c)
    BY <1>0 DEF Enters
<1>5. \A r \in Roles \ contested' : OneClaims(r)'
    BY <1>3, <1>4 DEF SessionsOrdered, OneClaims
<1>6. \A r \in Roles \ lost' : PlayedOrLoading(r)'
    BY DEF SessionsOrdered, PlayedOrLoading
<1>7. \A r \in Roles \ (contested' \cup lost') : BoundOnceIn(r)'
    BY <1>0 DEF SessionsOrdered, BoundOnceIn
<1> QED BY <1>1, <1>2, <1>5, <1>6, <1>7 DEF SessionsOrdered

\* The same without a change of the messages between gates and game server.
LEMMA QuietAway ==
    ASSUME SessionsOrdered,
           UNCHANGED <<netObject, toGame, toGate, mRoleBaseData, asked, contested, abandoned>>,
           lost \subseteq lost',
           \A r \in Roles : Loading(r)' => Loading(r),
           \A r \in Roles \ lost' : Loading(r) => Loading(r)',
           \A r \in Roles \ lost' : object'[r] = NoObject => object[r] = NoObject
    PROVE  SessionsOrdered'
<1>1. \A g \in Gates, c \in Clients, r \in Roles :
            /\ Asks(g, c, r)' <=> Asks(g, c, r)
            /\ Leaves(g, c, r)' <=> Leaves(g, c, r)
            /\ Acks(g, c, r)' <=> Acks(g, c, r)
            /\ Left(g, c, r)' <=> Left(g, c, r)
    BY DEF Asks, Leaves, Acks, Left
<1> QED BY <1>1, Quiet

LEMMA SameLoading ==
    ASSUME UNCHANGED <<toDB, fromDB>>
    PROVE  \A r \in Roles : Loading(r)' <=> Loading(r)
BY DEF Loading

\* What changes neither gates nor clients nor gate info.
LEMMA AwayOrdered ==
    ASSUME IInv, IInv', SessionsOrdered,
           \/ \E s \in closedSockets : OnGateDisconnect(s)
           \/ \E r \in Roles : SaveDataOnTime(r) \/ SetProperty(r)
           \/ \E d \in DBs : OnSaveRoleDataProcess(d) \/ DBLinkBreaks(d)
           \/ \E d \in DBs, succeeds \in BOOLEAN : OnLoadRoleDataProcess(d, succeeds)
           \/ UNCHANGED vars
    PROVE  SessionsOrdered'
<1>1. CASE (\E s \in closedSockets : OnGateDisconnect(s)) \/ UNCHANGED vars
    <2>1. UNCHANGED <<netObject, toGame, toGate, mRoleBaseData, asked, contested, abandoned,
                      lost, toDB, fromDB, object>>
        BY <1>1 DEF OnGateDisconnect, gateVars, netVars, gameVars, dbVars, history, vars
    <2> QED BY <2>1, SameLoading, QuietAway
<1>2. ASSUME NEW r \in Roles, SaveDataOnTime(r)
      PROVE  SessionsOrdered'
    <2>1. /\ UNCHANGED <<netObject, toGame, toGate, mRoleBaseData, asked, contested, abandoned,
                         lost, fromDB, object>>
          /\ toDB' = SaveData(toDB, r)
        BY <1>2 DEF SaveDataOnTime, gateVars, netVars, gameVars, history
    <2> QED BY <2>1, LoadingSaved, QuietAway
<1>3. ASSUME NEW x \in Roles, SetProperty(x)
      PROVE  SessionsOrdered'
    <2>1. /\ UNCHANGED <<netObject, toGame, toGate, mRoleBaseData, asked, contested, abandoned,
                         lost, toDB, fromDB>>
          /\ object[x] # NoObject /\ object' = [object EXCEPT ![x] = latest[x] + 1]
        BY <1>3 DEF SetProperty, gateVars, netVars, dbVars
    <2>2. \A r \in Roles : object'[r] = NoObject => object[r] = NoObject
        <3>1. object \in [Roles -> Data \cup {NoObject}] /\ latest[x] \in Data
            BY DEF IInv, Typed, PlayerTypes, HistoryTypes
        <3>2. latest[x] + 1 # NoObject
            BY <3>1, SessionBounds DEF Data, NoObject
        <3> QED BY <2>1, <3>1, <3>2
    <2> QED BY <2>1, <2>2, SameLoading, QuietAway
<1>4. ASSUME NEW d \in DBs, OnSaveRoleDataProcess(d)
      PROVE  SessionsOrdered'
    <2>1. /\ UNCHANGED <<netObject, toGame, toGate, mRoleBaseData, asked, contested, abandoned,
                         lost, fromDB, object>>
          /\ toDB[d] # <<>> /\ toDB' = Without(toDB, d) /\ Head(toDB[d]).type = "SAVE"
        BY <1>4 DEF OnSaveRoleDataProcess, Without, gateVars, netVars, gameVars, history
    <2> QED BY <2>1, LoadingStored, QuietAway
<1>5. ASSUME NEW d \in DBs, NEW succeeds \in BOOLEAN, OnLoadRoleDataProcess(d, succeeds)
      PROVE  SessionsOrdered'
    <2> DEFINE h == Head(toDB[d])
               m == [role |-> h.role, data |-> IF succeeds THEN redis[h.role] ELSE 0]
    <2>1. /\ UNCHANGED <<netObject, toGame, toGate, mRoleBaseData, asked, contested, abandoned,
                         object>>
          /\ lost \subseteq lost'
          /\ toDB[d] # <<>> /\ toDB' = Without(toDB, d) /\ h.type = "LOAD"
          /\ fromDB' = With(fromDB, d, m)
        BY <1>5 DEF OnLoadRoleDataProcess, With, Without, gateVars, netVars, gameVars
    <2>2. h \in ToDBMessage
        BY <2>1, ReadTyped DEF IInv, Typed, DBTypes
    <2>3. m \in FromDBMessage /\ m.role = h.role
        BY <2>2, SessionBounds DEF IInv, Typed, DBTypes, ToDBMessage, FromDBMessage, Data
    <2> HIDE DEF m
    <2>4. \A r \in Roles : Loading(r)' <=> Loading(r)
        BY <2>1, <2>3, LoadingRead
    <2> QED BY <2>1, <2>4, QuietAway
<1>6. ASSUME NEW d \in DBs, DBLinkBreaks(d)
      PROVE  SessionsOrdered'
    <2>1. /\ UNCHANGED <<netObject, toGame, toGate, mRoleBaseData, asked, contested, abandoned,
                         object>>
          /\ lost' = lost \cup RolesIn(toDB[d]) \cup RolesIn(fromDB[d])
          /\ toDB' = [toDB EXCEPT ![d] = <<>>] /\ fromDB' = [fromDB EXCEPT ![d] = <<>>]
        BY <1>6 DEF DBLinkBreaks, gateVars, netVars, gameVars
    <2>2. \A r \in Roles : Loading(r)' => Loading(r)
        BY <2>1, LoadingBroken
    <2>3. \A r \in Roles \ lost' : Loading(r) => Loading(r)'
        BY <2>1, LoadingBroken
    <2> QED BY <2>1, <2>2, <2>3, QuietAway
<1> QED BY <1>1, <1>2, <1>3, <1>4, <1>5, <1>6

\* A gate registers, or its registration is read.
LEMMA RegisterOrdered ==
    ASSUME IInv, SessionsOrdered, NEW g \in Gates,
           Register(g) \/ OnProxyServerRegisteredProcess(g)
    PROVE  SessionsOrdered'
<1>1. UNCHANGED <<netObject, toGate, mRoleBaseData, object, asked, contested, abandoned, lost,
                  toDB, fromDB>>
    BY DEF Register, OnProxyServerRegisteredProcess, gameVars, gateVars, dbVars, history
<1>2. \A h \in Gates, c \in Clients, r \in Roles : Acks(h, c, r)' <=> Acks(h, c, r)
    BY <1>1 DEF Acks
<1>3. \A h \in Gates, c \in Clients, r \in Roles :
        /\ Asks(h, c, r)' <=> Asks(h, c, r)
        /\ Leaves(h, c, r)' <=> Leaves(h, c, r)
        /\ Left(h, c, r) => Left(h, c, r)'
    <2>1. CASE Register(g)
        <3>1. toGame[g] = <<>> /\ toGame' = With(toGame, g, Registered)
            <4>1. toGame[g] = <<>> /\ toGame' = [toGame EXCEPT ![g] = <<Registered>>]
                BY <2>1 DEF Register, Registered, IInv, SendersAreLinked
            <4>2. Append(<<>>, Registered) = <<Registered>>
                OBVIOUS
            <4> QED BY <4>1, <4>2 DEF With
        <3> QED BY <3>1, GateSends, Messages
    <2>2. CASE OnProxyServerRegisteredProcess(g)
        <3> DEFINE m == Head(toGame[g])
        <3>1. /\ toGame[g] # <<>> /\ toGame' = Without(toGame, g)
              /\ m.type = "PTWG_PROXY_REGISTERED"
            BY <2>2 DEF OnProxyServerRegisteredProcess, Receive, Without
        <3> HIDE DEF m
        <3>2. m = Head(toGame[g])
            BY DEF m
        <3>3. m \in ToGameMessage
            BY <3>1, <3>2, GameTakes
        <3>4. m = Registered
            BY <3>1, <3>3, Messages
        <3> QED BY <3>1, <3>2, <3>4, GameTakes, Messages
    <2> QED BY <2>1, <2>2
<1> QED BY <1>1, <1>2, <1>3, SameLoading, Quiet

\* The roles of the messages that go with a connection.
LEMMA LinkBreaksOrdered ==
    ASSUME IInv, SessionsOrdered, NEW g \in Gates, LinkBreaks(g)
    PROVE  SessionsOrdered'
<1>1. /\ lost' = lost \cup RolesIn(toGame[g] \o toGate[g])
      /\ toGame' = [toGame EXCEPT ![g] = <<>>] /\ toGate' = [toGate EXCEPT ![g] = <<>>]
      /\ UNCHANGED <<netObject, mRoleBaseData, object, asked, contested, abandoned, toDB, fromDB>>
    BY DEF LinkBreaks, gameVars, dbVars
<1>2. toGame \in [Gates -> Seq(ToGameMessage)] /\ toGate \in [Gates -> Seq(ToGateMessage)]
    BY DEF IInv, Typed, ToGameTypes, ToGateTypes
<1>3. ASSUME NEW h \in Gates, NEW c \in Clients, NEW r \in Roles
      PROVE  /\ Asks(h, c, r)' => Asks(h, c, r)
             /\ Leaves(h, c, r)' => Leaves(h, c, r)
             /\ Acks(h, c, r)' => Acks(h, c, r)
             /\ Left(h, c, r) => Left(h, c, r)'
             /\ r \notin lost' => (Leaves(h, c, r) => Leaves(h, c, r)')
    <2>1. CASE h # g
        <3>1. toGame'[h] = toGame[h] /\ toGate'[h] = toGate[h]
            BY <1>1, <1>2, <2>1
        <3> QED BY <3>1 DEF Asks, Leaves, Acks, Left
    <2>2. CASE h = g
        <3>1. toGame'[h] = <<>> /\ toGate'[h] = <<>>
            BY <1>1, <1>2, <2>2
        <3>2. ~Asks(h, c, r)' /\ ~Leaves(h, c, r)' /\ ~Acks(h, c, r)' /\ Left(h, c, r)'
            BY <3>1 DEF Asks, Leaves, Acks, Left, In, LeftIn
        <3>3. Leaves(g, c, r) => r \in RolesIn(toGame[g] \o toGate[g])
            <4>1. SUFFICES ASSUME NEW n \in 1 .. Len(toGame[g]), toGame[g][n] = Leave(c, r)
                           PROVE  r \in RolesIn(toGame[g] \o toGate[g])
                BY DEF Leaves, In
            <4> DEFINE q == toGame[g] \o toGate[g]
            <4>2. n \in DOMAIN q /\ q[n] = toGame[g][n]
                BY <1>2
            <4> HIDE DEF q
            <4>3. q[n].role = r /\ r # NULL
                BY <4>1, <4>2, GuidsAssumption DEF Leave, Message, NULL
            <4> QED BY <4>2, <4>3 DEF RolesIn, ToSet, q
        <3> QED BY <1>1, <2>2, <3>2, <3>3
    <2> QED BY <2>1, <2>2
<1> QED BY <1>1, <1>3, SameLoading, Quiet

-------------------------------------------------------------------------------
(* Clients. *)

\* A client connects, gives its key or selects the server: it has asked for
\* nothing yet, or stays what it is.
LEMMA ArriveOrdered ==
    ASSUME IInv, SessionsOrdered, NEW x \in Clients,
           \/ \E g \in Gates : OnClientConnected(x, g)
           \/ OnConnectKeyProcess(x) \/ OnSelectServerProcess(x)
    PROVE  SessionsOrdered'
<1>1. UNCHANGED <<toGame, toGate, mRoleBaseData, object, asked, contested, abandoned, lost,
                  toDB, fromDB>>
    BY DEF OnClientConnected, OnConnectKeyProcess, OnSelectServerProcess, netVars, gameVars,
        dbVars, history
<1>2. netObject \in [Clients -> NetObject]
    BY DEF IInv, Typed, NetObjectTypes
<1>3. /\ \A c \in Clients \ {x} : netObject'[c] = netObject[c]
      /\ netObject'[x].userID = netObject[x].userID
      /\ \/ asked[x] = {}
         \/ /\ netObject'[x].selected /\ netObject'[x].gate = netObject[x].gate
            /\ netObject'[x].state = netObject[x].state
    <2>1. CASE (\E g \in Gates : OnClientConnected(x, g)) \/ OnConnectKeyProcess(x)
        <3>1. netObject[x].state \in {"none", "connected"}
            BY <2>1 DEF OnClientConnected, OnConnectKeyProcess
        <3>2. asked[x] = {}
            BY <3>1 DEF SessionsOrdered, ClientsAsked
        <3>3. /\ \A c \in Clients \ {x} : netObject'[c] = netObject[c]
              /\ netObject'[x].userID = netObject[x].userID
            BY <1>2, <2>1 DEF OnClientConnected, OnConnectKeyProcess, NetObject
        <3> QED BY <3>2, <3>3
    <2>2. CASE OnSelectServerProcess(x)
        BY <1>2, <2>2 DEF OnSelectServerProcess, NetObject
    <2> QED BY <2>1, <2>2
<1>4. \A g \in Gates, c \in Clients, r \in Roles :
            /\ Asks(g, c, r)' <=> Asks(g, c, r)
            /\ Leaves(g, c, r)' <=> Leaves(g, c, r)
            /\ Acks(g, c, r)' <=> Acks(g, c, r)
            /\ Left(g, c, r)' <=> Left(g, c, r)
    BY <1>1 DEF Asks, Leaves, Acks, Left
<1>5. \A r \in Roles : Loading(r)' <=> Loading(r)
    BY <1>1, SameLoading
<1>6. \A c \in Clients : /\ asked[c] # {} => (Connected(c)' <=> Connected(c))
                         /\ Connected(c) => Connected(c)'
    <2>1. Connected(x) => Connected(x)'
        BY <1>2 DEF OnClientConnected, OnConnectKeyProcess, OnSelectServerProcess, Connected,
            NetObject
    <2> QED BY <1>3, <2>1 DEF Connected
<1>7. ClientsAsked
    BY DEF SessionsOrdered
<1>8. ClientsAsked'
    <2>1. \A c \in Clients :
            /\ netObject'[c].userID \in asked[c] \cup {NULL}
            /\ asked[c] # {} =>
                netObject'[c].selected /\ netObject'[c].state \in {"verified", "closed"}
        BY <1>3, <1>7 DEF ClientsAsked
    <2>2. \A g \in Gates, c \in Clients, r \in Roles :
            /\ Asks(g, c, r) => r \in asked[c] /\ netObject'[c].gate = g
            /\ Leaves(g, c, r) => r \in asked[c] /\ ~Connected(c)'
            /\ Acks(g, c, r) => r \in asked[c]
        BY <1>3, <1>6, <1>7 DEF ClientsAsked
    <2> QED BY <1>1, <1>4, <1>7, <2>1, <2>2 DEF ClientsAsked
<1>9. \A r \in Roles \ (abandoned' \cup lost') : Followed(r)'
    <2> SUFFICES ASSUME NEW r \in Roles \ (abandoned' \cup lost')
                 PROVE  Followed(r)'
        OBVIOUS
    <2>1. Followed(r)
        BY <1>1 DEF SessionsOrdered
    <2>2. PICK b : b = mRoleBaseData[r].xClientID
        OBVIOUS
    <2>3. mRoleBaseData[r] # NoBase /\ Connected(b) => Connected(b)'
        BY <1>6, <2>2, BaseTyped
    <2>4. Connected(mRoleBaseData[r].xClientID) <=> Connected(b)
        BY <2>2
    <2>5. Connected(mRoleBaseData[r].xClientID)' <=> Connected(b)'
        BY <1>1, <2>2 DEF Connected
    <2> QED BY <1>1, <1>4, <1>6, <2>1, <2>3, <2>4, <2>5 DEF Followed
<1>10. \A r \in Roles : \A c \in Clients :
        (Claims(r, c)' => Claims(r, c)) /\ (Enters(r, c)' => Enters(r, c))
    <2>1. \A r \in Roles : \A c \in Clients : Claims(r, c)' => Claims(r, c)
        BY <1>1, <1>4, <1>5, <1>6 DEF Claims
    <2>2. \A c \in Clients : netObject'[c].userID = netObject[c].userID
        BY <1>3
    <2>3. \A r \in Roles, c \in Clients : netObject[c].userID = r => asked[c] # {}
        BY <1>7, GuidsAssumption DEF ClientsAsked, NULL
    <2>4. \A r \in Roles : \A c \in Clients : Enters(r, c)' => Enters(r, c)
        BY <1>4, <1>6, <2>2, <2>3 DEF Enters
    <2> QED BY <2>1, <2>4
<1>11. \A r \in Roles \ contested' : OneClaims(r)'
    BY <1>1, <1>10 DEF SessionsOrdered, OneClaims
<1>12. \A r \in Roles \ lost' : PlayedOrLoading(r)'
    BY <1>1, <1>5 DEF SessionsOrdered, PlayedOrLoading
<1>13. \A r \in Roles \ (contested' \cup lost') : BoundOnceIn(r)'
    <2>1. \A r \in Roles, c \in Clients :
            Connected(c)' /\ (netObject'[c].userID = r \/ \E g \in Gates : Acks(g, c, r)) =>
                Connected(c) /\ (netObject[c].userID = r \/ \E g \in Gates : Acks(g, c, r))
        BY <1>3, <1>6, <1>7, GuidsAssumption DEF ClientsAsked, NULL
    <2> QED BY <1>1, <1>4, <2>1 DEF SessionsOrdered, BoundOnceIn
<1> QED BY <1>8, <1>9, <1>11, <1>12, <1>13 DEF SessionsOrdered

\* A client asks to enter.
LEMMA RequestOrdered ==
    ASSUME IInv, SessionsOrdered, NEW x \in Clients, NEW y \in Roles, OnReqEnterGameServer(x, y)
    PROVE  SessionsOrdered'
<1> DEFINE g == netObject[x].gate
<1>1. /\ netObject[x].state = "verified" /\ netObject[x].selected
      /\ toGame' = With(toGame, g, Enter(x, y))
      /\ asked' = [asked EXCEPT ![x] = @ \cup {y}]
      /\ contested' = IF Unfinished(x, y) THEN contested \cup {y} ELSE contested
      /\ UNCHANGED <<netObject, toGate, mRoleBaseData, object, abandoned, lost, toDB, fromDB>>
    BY DEF OnReqEnterGameServer, With, Enter, gateVars, gameVars, dbVars
<1>2. Connected(x) /\ g \in Gates
    <2>1. Connected(x)
        BY <1>1 DEF Connected
    <2> QED BY <2>1, ConnectedTyped
<1>3. /\ \A h \in Gates, c \in Clients, r \in Roles :
            /\ Asks(h, c, r)' <=> Asks(h, c, r) \/ (h = g /\ c = x /\ r = y)
            /\ Leaves(h, c, r)' <=> Leaves(h, c, r)
            /\ Left(h, c, r) /\ c # x => Left(h, c, r)'
    BY <1>1, <1>2, GateSends, Messages
<1>4. \A h \in Gates, c \in Clients, r \in Roles : Acks(h, c, r)' <=> Acks(h, c, r)
    BY <1>1 DEF Acks
<1>5. \A r \in Roles : Loading(r)' <=> Loading(r)
    BY <1>1, SameLoading
<1>6. \A c \in Clients : Connected(c)' <=> Connected(c)
    BY <1>1 DEF Connected
<1>7. /\ asked \in [Clients -> SUBSET Roles]
      /\ \A c \in Clients : \A r \in Roles : r \in asked'[c] <=> r \in asked[c] \/ (c = x /\ r = y)
      /\ \A c \in Clients \ {x} : asked'[c] = asked[c]
      /\ \A c \in Clients : asked[c] \subseteq asked'[c]
    BY <1>1 DEF IInv, Typed, HistoryTypes
<1>8. ClientsAsked
    BY DEF SessionsOrdered
<1> HIDE DEF g
<1>9. ClientsAsked'
    <2>1. \A c \in Clients :
            /\ netObject'[c].userID \in asked'[c] \cup {NULL}
            /\ asked'[c] # {} =>
                netObject'[c].selected /\ netObject'[c].state \in {"verified", "closed"}
        BY <1>1, <1>7, <1>8 DEF ClientsAsked
    <2>2. \A h \in Gates, c \in Clients, r \in Roles :
            /\ Asks(h, c, r)' => r \in asked'[c] /\ netObject'[c].gate = h
            /\ Leaves(h, c, r)' => r \in asked'[c] /\ ~Connected(c)'
            /\ Acks(h, c, r)' => r \in asked'[c]
        BY <1>1, <1>3, <1>4, <1>6, <1>7, <1>8 DEF ClientsAsked, g
    <2>3. \A r \in Roles : mRoleBaseData'[r] # NoBase => r \in asked'[mRoleBaseData'[r].xClientID]
        BY <1>1, <1>7, <1>8, BaseTyped DEF ClientsAsked
    <2> QED BY <2>1, <2>2, <2>3 DEF ClientsAsked
<1>10. \A r \in Roles \ (abandoned' \cup lost') : Followed(r)'
    <2> SUFFICES ASSUME NEW r \in Roles \ (abandoned' \cup lost')
                 PROVE  Followed(r)'
        OBVIOUS
    <2>1. Followed(r)
        BY <1>1 DEF SessionsOrdered
    <2>2. Connected(mRoleBaseData[r].xClientID) => Connected(mRoleBaseData[r].xClientID)'
        BY <1>1 DEF Connected
    <2>3. \A h \in Gates, c \in Clients : ~Connected(c)' => Left(h, c, r)'
        BY <1>2, <1>3, <1>6, <2>1 DEF Followed
    <2> QED BY <1>1, <1>3, <2>1, <2>2, <2>3 DEF Followed
<1>11. \A r \in Roles \ contested' : OneClaims(r)'
    <2> SUFFICES ASSUME NEW r \in Roles \ contested'
                 PROVE  OneClaims(r)'
        OBVIOUS
    <2>1. OneClaims(r)
        BY <1>1 DEF SessionsOrdered
    <2>2. \A c \in Clients : Enters(r, c)' <=> Enters(r, c)
        BY <1>1, <1>3, <1>4, <1>6 DEF Enters
    <2>3. \A c \in Clients : Claims(r, c)' => Claims(r, c) \/ (r = y /\ c = x)
        BY <1>1, <1>3, <1>4, <1>5, <1>6, <1>7 DEF Claims
    <2>4. ASSUME r = y, NEW b \in Clients, Claims(r, b)
          PROVE  b = x
        <3>1. ~Unfinished(x, r)
            BY <1>1, <2>4
        <3>2. CASE r \in asked[x]
            BY <1>2, <2>1, <2>4, <3>2 DEF OneClaims, Claims
        <3>3. CASE r \notin asked[x]
            <4>1. ~Underway(r) /\ ~Loading(r)
                BY <3>1, <3>3 DEF Unfinished
            <4>2. \A h \in Gates : ~Asks(h, b, r) /\ ~Leaves(h, b, r) /\ ~Acks(h, b, r)
                BY <4>1 DEF Underway, Asks, Leaves, Acks, In, Enter, Leave, Ack, Message, ToSet
            <4> QED BY <2>4, <3>1, <4>1, <4>2 DEF Claims, Unfinished
        <3> QED BY <3>2, <3>3
    <2> QED BY <1>1, <2>1, <2>2, <2>3, <2>4 DEF OneClaims
<1>12. \A r \in Roles \ lost' : PlayedOrLoading(r)'
    BY <1>1, <1>5 DEF SessionsOrdered, PlayedOrLoading
<1>13. \A r \in Roles \ (contested' \cup lost') : BoundOnceIn(r)'
    BY <1>1, <1>4, <1>6 DEF SessionsOrdered, BoundOnceIn
<1> QED BY <1>9, <1>10, <1>11, <1>12, <1>13 DEF SessionsOrdered

LEMMA NotAskedIsLeft ==
    ASSUME NEW g, NEW c, NEW r, ~Asks(g, c, r)
    PROVE  Left(g, c, r)
BY DEF Asks, In, Left, LeftIn

\* A client goes: the leave is for the role it has entered with, the others it
\* asked for are abandoned.
LEMMA DisconnectOrdered ==
    ASSUME IInv, SessionsOrdered, NEW x \in Clients, OnClientDisconnect(x)
    PROVE  SessionsOrdered'
<1> DEFINE g == netObject[x].gate
           y == netObject[x].userID
           leaves == netObject[x].selected /\ y # NULL
<1>1. /\ Connected(x) /\ netObject' = [netObject EXCEPT ![x].state = "closed"]
      /\ leaves /\ link[g] # 0 => toGame' = With(toGame, g, Leave(x, y))
      /\ ~(leaves /\ link[g] # 0) => toGame' = toGame
      /\ lost' = IF leaves /\ link[g] = 0 THEN lost \cup {y} ELSE lost
      /\ abandoned' = abandoned \cup (asked[x] \ {y})
      /\ UNCHANGED <<toGate, mRoleBaseData, object, asked, contested, toDB, fromDB>>
    BY DEF OnClientDisconnect, With, Leave, gameVars, dbVars
<1>2. netObject \in [Clients -> NetObject] /\ ClientsAsked /\ g \in Gates /\ y \in Roles \cup {NULL}
    <2>1. netObject \in [Clients -> NetObject] /\ ClientsAsked
        BY DEF IInv, Typed, NetObjectTypes, SessionsOrdered
    <2> QED BY <1>1, <2>1, ConnectedTyped DEF NetObject
<1>3. /\ \A c \in Clients : /\ Connected(c)' <=> Connected(c) /\ c # x
                            /\ netObject'[c].userID = netObject[c].userID
                            /\ netObject'[c].gate = netObject[c].gate
                            /\ netObject'[c].selected = netObject[c].selected
      /\ \A c \in Clients \ {x} : netObject'[c] = netObject[c]
      /\ netObject'[x].state = "closed"
    BY <1>1, <1>2 DEF Connected, NetObject
<1> HIDE DEF g, y, leaves
<1>4. /\ \A h \in Gates, c \in Clients, r \in Roles :
            /\ Asks(h, c, r)' <=> Asks(h, c, r)
            /\ Leaves(h, c, r)' <=>
                Leaves(h, c, r) \/ (leaves /\ link[g] # 0 /\ h = g /\ c = x /\ r = y)
            /\ Left(h, c, r) => Left(h, c, r)'
            /\ leaves /\ link[g] # 0 /\ h = g /\ r = y => Left(h, c, r)'
    <2>1. CASE leaves /\ link[g] # 0
        <3>1. y \in Roles
            BY <1>2, <2>1 DEF leaves
        <3> QED BY <1>1, <1>2, <2>1, <3>1, GateSends, Messages
    <2>2. CASE ~(leaves /\ link[g] # 0)
        BY <1>1, <2>2 DEF Asks, Leaves, Left
    <2> QED BY <2>1, <2>2
<1>5. \A h \in Gates, c \in Clients, r \in Roles : Acks(h, c, r)' <=> Acks(h, c, r)
    BY <1>1 DEF Acks
<1>6. \A r \in Roles : Loading(r)' <=> Loading(r)
    BY <1>1, SameLoading
<1>7. \A r \in asked[x] \ (abandoned' \cup lost') : r = y /\ leaves /\ link[g] # 0
    BY <1>1, <1>2, GuidsAssumption DEF ClientsAsked, leaves, IInv, Typed, HistoryTypes, NULL
<1>8. y \in Roles => y \in asked[x]
    BY <1>2, GuidsAssumption DEF ClientsAsked, y, NULL
<1>9. ClientsAsked'
    <2>1. \A c \in Clients :
            /\ netObject'[c].userID \in asked[c] \cup {NULL}
            /\ asked[c] # {} =>
                netObject'[c].selected /\ netObject'[c].state \in {"verified", "closed"}
        BY <1>2, <1>3 DEF ClientsAsked
    <2>2. \A h \in Gates, c \in Clients, r \in Roles :
            /\ Asks(h, c, r)' => r \in asked[c] /\ netObject'[c].gate = h
            /\ Leaves(h, c, r)' => r \in asked[c] /\ ~Connected(c)'
            /\ Acks(h, c, r)' => r \in asked[c]
        BY <1>2, <1>3, <1>4, <1>5, <1>8 DEF ClientsAsked
    <2> QED BY <1>1, <1>2, <2>1, <2>2 DEF ClientsAsked
<1>10. \A r \in Roles \ (abandoned' \cup lost') : Followed(r)'
    <2> SUFFICES ASSUME NEW r \in Roles \ (abandoned' \cup lost')
                 PROVE  Followed(r)'
        OBVIOUS
    <2>1. Followed(r)
        BY <1>1 DEF SessionsOrdered
    <2>2. PICK b : b = mRoleBaseData[r].xClientID
        OBVIOUS
    <2>3. mRoleBaseData[r] # NoBase =>
            Connected(b)' \/ \E h \in Gates, c \in Clients : Leaves(h, c, r)'
        <3>1. mRoleBaseData[r] # NoBase => b \in Clients /\ r \in asked[b]
            BY <1>2, <2>2, BaseTyped DEF ClientsAsked
        <3>2. mRoleBaseData[r] # NoBase =>
                Connected(b) \/ \E h \in Gates, c \in Clients : Leaves(h, c, r)
            BY <2>1, <2>2 DEF Followed
        <3>3. r \in asked[x] => \E h \in Gates : Leaves(h, x, r)'
            BY <1>2, <1>4, <1>7
        <3> QED BY <1>2, <1>3, <1>4, <3>1, <3>2, <3>3
    <2>4. Connected(mRoleBaseData[r].xClientID)' <=> Connected(b)'
        BY <1>1, <2>2 DEF Connected
    <2>5. ASSUME NEW h \in Gates, NEW c \in Clients, ~Connected(c)'
          PROVE  Left(h, c, r)'
        <3>1. CASE c # x
            BY <1>3, <1>4, <2>1, <2>5, <3>1 DEF Followed
        <3>2. CASE c = x /\ Asks(h, x, r)
            <4>1. r \in asked[x] /\ h = g
                BY <1>2, <3>2 DEF ClientsAsked, g
            <4> QED BY <1>4, <1>7, <3>2, <4>1
        <3>3. CASE c = x /\ ~Asks(h, x, r)
            BY <1>4, <3>3, NotAskedIsLeft
        <3> QED BY <3>1, <3>2, <3>3
    <2> QED BY <1>1, <2>3, <2>4, <2>5 DEF Followed
<1>11. \A r \in Roles : \A c \in Clients : Claims(r, c)' => Claims(r, c)
    BY <1>1, <1>3, <1>4, <1>5, <1>6, <1>8 DEF Claims
<1>12. \A r \in Roles : \A c \in Clients : Enters(r, c)' => Enters(r, c)
    BY <1>1, <1>3, <1>4, <1>5 DEF Enters, y
<1>13. \A r \in Roles \ contested' : OneClaims(r)'
    BY <1>1, <1>11, <1>12 DEF SessionsOrdered, OneClaims
<1>14. \A r \in Roles \ lost' : PlayedOrLoading(r)'
    BY <1>1, <1>6 DEF SessionsOrdered, PlayedOrLoading
<1>15. \A r \in Roles \ (contested' \cup lost') : BoundOnceIn(r)'
    BY <1>1, <1>3, <1>5 DEF SessionsOrdered, BoundOnceIn
<1> QED BY <1>9, <1>10, <1>13, <1>14, <1>15 DEF SessionsOrdered

\* A client learns that it is in.
LEMMA AckOrdered ==
    ASSUME IInv, SessionsOrdered, NEW g \in Gates, EnterGameSuccessEvent(g)
    PROVE  SessionsOrdered'
<1> DEFINE m == Head(toGate[g])
<1>1. /\ toGate[g] # <<>> /\ toGate' = Without(toGate, g)
      /\ netObject' = IF Connected(m.client)
                      THEN [netObject EXCEPT ![m.client].userID = m.role] ELSE netObject
      /\ UNCHANGED <<toGame, mRoleBaseData, object, asked, contested, abandoned, lost,
                     toDB, fromDB>>
    BY DEF EnterGameSuccessEvent, Without, gameVars, dbVars, history
<1> HIDE DEF m
<1>2. /\ m \in ToGateMessage
      /\ \A h \in Gates, c \in Clients, r \in Roles :
            Acks(h, c, r) <=> Acks(h, c, r)' \/ (h = g /\ m = Ack(c, r))
    BY <1>1, GateTakes DEF m
<1> DEFINE x == m.client
           y == m.role
<1>3. x \in Clients /\ y \in Roles /\ m = Ack(x, y)
    BY <1>2, Messages
<1> HIDE DEF x, y
<1>4. \A h \in Gates, c \in Clients, r \in Roles :
            Acks(h, c, r) <=> Acks(h, c, r)' \/ (h = g /\ c = x /\ r = y)
    BY <1>2, <1>3, Messages
<1>5. netObject \in [Clients -> NetObject] /\ ClientsAsked
    BY DEF IInv, Typed, NetObjectTypes, SessionsOrdered
<1>6. \A c \in Clients :
        /\ Connected(c)' <=> Connected(c)
        /\ netObject'[c].userID = netObject[c].userID \/ (c = x /\ netObject'[c].userID = y)
        /\ netObject'[c].gate = netObject[c].gate
        /\ netObject'[c].selected = netObject[c].selected
        /\ netObject'[c].state = netObject[c].state
    BY <1>1, <1>3, <1>5 DEF Connected, NetObject, x, y
<1>7. \A h \in Gates, c \in Clients, r \in Roles :
            /\ Asks(h, c, r)' <=> Asks(h, c, r)
            /\ Leaves(h, c, r)' <=> Leaves(h, c, r)
            /\ Left(h, c, r)' <=> Left(h, c, r)
    BY <1>1 DEF Asks, Leaves, Left
<1>8. \A r \in Roles : Loading(r)' <=> Loading(r)
    BY <1>1, SameLoading
<1>9. y \in asked[x] /\ Acks(g, x, y)
    BY <1>3, <1>4, <1>5 DEF ClientsAsked
<1>10. ClientsAsked'
    <2>1. \A c \in Clients :
            /\ netObject'[c].userID \in asked[c] \cup {NULL}
            /\ asked[c] # {} =>
                netObject'[c].selected /\ netObject'[c].state \in {"verified", "closed"}
        BY <1>5, <1>6, <1>9 DEF ClientsAsked
    <2>2. \A h \in Gates, c \in Clients, r \in Roles :
            /\ Asks(h, c, r)' => r \in asked[c] /\ netObject'[c].gate = h
            /\ Leaves(h, c, r)' => r \in asked[c] /\ ~Connected(c)'
            /\ Acks(h, c, r)' => r \in asked[c]
        BY <1>4, <1>5, <1>6, <1>7 DEF ClientsAsked
    <2> QED BY <1>1, <1>5, <2>1, <2>2 DEF ClientsAsked
<1>11. \A r \in Roles \ (abandoned' \cup lost') : Followed(r)'
    <2> SUFFICES ASSUME NEW r \in Roles \ (abandoned' \cup lost')
                 PROVE  Followed(r)'
        OBVIOUS
    <2>1. Followed(r)
        BY <1>1 DEF SessionsOrdered
    <2>2. PICK b : b = mRoleBaseData[r].xClientID
        OBVIOUS
    <2>3. mRoleBaseData[r] # NoBase /\ Connected(b) => Connected(b)'
        BY <1>6, <2>2, BaseTyped
    <2>4. Connected(mRoleBaseData[r].xClientID) <=> Connected(b)
        BY <2>2
    <2>5. Connected(mRoleBaseData[r].xClientID)' <=> Connected(b)'
        BY <1>1, <2>2 DEF Connected
    <2> QED BY <1>1, <1>6, <1>7, <2>1, <2>3, <2>4, <2>5 DEF Followed
<1>12. \A r \in Roles : \A c \in Clients : Claims(r, c)' => Claims(r, c)
    BY <1>1, <1>4, <1>6, <1>7, <1>8 DEF Claims
<1>13. \A r \in Roles : \A c \in Clients : Enters(r, c)' => Enters(r, c)
    BY <1>4, <1>6, <1>7, <1>9 DEF Enters
<1>14. \A r \in Roles \ contested' : OneClaims(r)'
    BY <1>1, <1>12, <1>13 DEF SessionsOrdered, OneClaims
<1>15. \A r \in Roles \ lost' : PlayedOrLoading(r)'
    BY <1>1, <1>8 DEF SessionsOrdered, PlayedOrLoading
<1>16. \A r \in Roles \ (contested' \cup lost') : BoundOnceIn(r)'
    BY <1>1, <1>4, <1>6, <1>9 DEF SessionsOrdered, BoundOnceIn
<1> QED BY <1>10, <1>11, <1>14, <1>15, <1>16 DEF SessionsOrdered

-------------------------------------------------------------------------------
(* The game server. *)

\* What the game server reads of a gate.
LEMMA RequestTaken ==
    ASSUME IInv, NEW g \in Gates, NEW type \in {"REQ_ENTER_GAME", "REQ_LEAVE_GAME"},
           Receive(g, type)
    PROVE  \E x \in Clients, y \in Roles :
            /\ x = Head(toGame[g]).client /\ y = Head(toGame[g]).role
            /\ \A h \in Gates, c \in Clients, r \in Roles :
                /\ Asks(h, c, r) <=>
                    Asks(h, c, r)' \/ (type = "REQ_ENTER_GAME" /\ h = g /\ c = x /\ r = y)
                /\ Leaves(h, c, r) <=>
                    Leaves(h, c, r)' \/ (type = "REQ_LEAVE_GAME" /\ h = g /\ c = x /\ r = y)
                /\ Left(h, c, r) => Left(h, c, r)'
            /\ type = "REQ_ENTER_GAME" /\ Left(g, x, y) => \E b \in Clients : Leaves(g, b, y)'
<1> DEFINE m == Head(toGame[g])
<1>1. toGame[g] # <<>> /\ toGame' = Without(toGame, g) /\ m.type = type
    BY DEF Receive, Without
<1> HIDE DEF m
<1>2. m = Head(toGame[g])
    BY DEF m
<1>3. /\ m \in ToGameMessage
      /\ \A h \in Gates, c \in Clients, r \in Roles :
            /\ Asks(h, c, r) <=> Asks(h, c, r)' \/ (h = g /\ m = Enter(c, r))
            /\ Leaves(h, c, r) <=> Leaves(h, c, r)' \/ (h = g /\ m = Leave(c, r))
            /\ Left(h, c, r) => Left(h, c, r)'
            /\ Left(h, c, r) /\ h = g /\ m = Enter(c, r) => \E b \in Clients : Leaves(h, b, r)'
    BY <1>1, <1>2, GameTakes
<1>4. PICK x \in Clients, y \in Roles :
            /\ x = m.client /\ y = m.role
            /\ m = IF type = "REQ_ENTER_GAME" THEN Enter(x, y) ELSE Leave(x, y)
    <2>1. /\ m.client \in Clients /\ m.role \in Roles
          /\ m = IF type = "REQ_ENTER_GAME" THEN Enter(m.client, m.role)
                                            ELSE Leave(m.client, m.role)
        BY <1>1, <1>3, Messages
    <2> QED BY <2>1
<1>5. \A c \in Clients, r \in Roles :
        /\ m = Enter(c, r) <=> type = "REQ_ENTER_GAME" /\ c = x /\ r = y
        /\ m = Leave(c, r) <=> type = "REQ_LEAVE_GAME" /\ c = x /\ r = y
    BY <1>4, Messages
<1> QED BY <1>2, <1>3, <1>4, <1>5

\* The session of a role ends with a leave.
LEMMA LeaveOrdered ==
    ASSUME IInv, IInv', SessionsOrdered, NEW g \in Gates, OnClientLeaveGameProcess(g)
    PROVE  SessionsOrdered'
<1>1. Receive(g, "REQ_LEAVE_GAME")
    BY DEF OnClientLeaveGameProcess
<1>2. PICK x \in Clients, y \in Roles :
        /\ x = Head(toGame[g]).client /\ y = Head(toGame[g]).role
        /\ \A h \in Gates, c \in Clients, r \in Roles :
            /\ Asks(h, c, r) <=> Asks(h, c, r)'
            /\ Leaves(h, c, r) <=> Leaves(h, c, r)' \/ (h = g /\ c = x /\ r = y)
            /\ Left(h, c, r) => Left(h, c, r)'
    BY <1>1, RequestTaken
<1>3. /\ toDB' = SaveData(toDB, y) /\ object' = [object EXCEPT ![y] = NoObject]
      /\ mRoleBaseData' = [mRoleBaseData EXCEPT ![y] = NoBase]
      /\ UNCHANGED <<netObject, toGate, fromDB, asked, contested, abandoned, lost>>
    BY <1>2 DEF OnClientLeaveGameProcess, gateVars, history
<1>4. /\ \A r \in Roles \ {y} : mRoleBaseData'[r] = mRoleBaseData[r] /\ object'[r] = object[r]
      /\ mRoleBaseData'[y] = NoBase
    BY <1>3 DEF IInv, Typed, PlayerTypes
<1>5. \A r \in Roles : Loading(r)' <=> Loading(r)
    BY <1>3, LoadingSaved
<1>6. /\ \A h \in Gates, c \in Clients, r \in Roles : Acks(h, c, r)' <=> Acks(h, c, r)
      /\ \A c \in Clients : Connected(c)' <=> Connected(c)
    BY <1>3 DEF Acks, Connected
<1>7. ClientsAsked /\ ClientsAsked'
    BY <1>2, <1>3, <1>4, <1>6 DEF SessionsOrdered, ClientsAsked
<1>8. \A r \in Roles \ (abandoned' \cup lost') : Followed(r)'
    <2> SUFFICES ASSUME NEW r \in Roles \ (abandoned' \cup lost')
                 PROVE  Followed(r)'
        OBVIOUS
    <2>1. Followed(r)
        BY <1>3 DEF SessionsOrdered
    <2>2. CASE r = y
        BY <1>2, <1>4, <1>6, <2>1, <2>2 DEF Followed
    <2>3. CASE r # y
        <3>1. mRoleBaseData'[r] = mRoleBaseData[r]
            BY <1>4, <2>3
        <3>2. Connected(mRoleBaseData[r].xClientID) <=> Connected(mRoleBaseData[r].xClientID)'
            BY <1>3, <3>1 DEF Connected
        <3> QED BY <1>2, <1>6, <2>1, <2>3, <3>1, <3>2 DEF Followed
    <2> QED BY <2>2, <2>3
<1>9. \A r \in Roles : \A c \in Clients : Claims(r, c)' => Claims(r, c)
    BY <1>2, <1>3, <1>4, <1>5, <1>6 DEF Claims
<1>10. \A r \in Roles : \A c \in Clients : Enters(r, c)' => Enters(r, c)
    BY <1>2, <1>3, <1>6 DEF Enters
<1>11. \A r \in Roles \ contested' : OneClaims(r)'
    <2> SUFFICES ASSUME NEW r \in Roles \ contested'
                 PROVE  OneClaims(r)'
        OBVIOUS
    <2>1. OneClaims(r) /\ mRoleBaseData'[r] \in {NoBase, mRoleBaseData[r]}
        BY <1>3, <1>4 DEF SessionsOrdered
    <2> QED BY <1>9, <1>10, <2>1, BaseTyped DEF OneClaims
<1>12. \A r \in Roles \ lost' : PlayedOrLoading(r)'
    <2>1. NoBase.eStatus # "E_LOADING"
        BY DEF NoBase, NULL
    <2> QED BY <1>3, <1>4, <1>5, <2>1 DEF SessionsOrdered, PlayedOrLoading
<1>13. \A r \in Roles \ (contested' \cup lost') : BoundOnceIn(r)'
    <2> SUFFICES ASSUME NEW r \in Roles \ (contested' \cup lost'), NEW c \in Clients,
                        Connected(c), netObject[c].userID = r \/ \E h \in Gates : Acks(h, c, r)
                 PROVE  mRoleBaseData'[r] # NoBase
        BY <1>3, <1>6 DEF BoundOnceIn
    <2>1. mRoleBaseData[r] # NoBase /\ OneClaims(r)
        BY <1>3 DEF SessionsOrdered, BoundOnceIn
    <2>2. CASE r # y
        BY <1>4, <2>1, <2>2
    <2>3. CASE r = y
        <3>1. Leaves(g, x, r) /\ ~Connected(x)
            BY <1>2, <1>7, <2>3 DEF ClientsAsked
        <3>2. r \in asked[c]
            BY <1>7, GuidsAssumption DEF ClientsAsked, NULL
        <3>3. Claims(r, c) /\ Claims(r, x)
            BY <3>1, <3>2 DEF Claims
        <3> QED BY <2>1, <3>1, <3>3 DEF OneClaims
    <2> QED BY <2>2, <2>3
<1> QED BY <1>7, <1>8, <1>11, <1>12, <1>13 DEF SessionsOrdered

\* A request to enter while a load is under way takes the object away.
LEMMA EnterWhileLoadingOrdered ==
    ASSUME IInv, IInv', SessionsOrdered, NEW g \in Gates, OnClientEnterGameWhileLoading(g)
    PROVE  SessionsOrdered'
<1>1. Receive(g, "REQ_ENTER_GAME")
    BY DEF OnClientEnterGameWhileLoading
<1>2. PICK x \in Clients, y \in Roles :
        /\ x = Head(toGame[g]).client /\ y = Head(toGame[g]).role
        /\ \A h \in Gates, c \in Clients, r \in Roles :
            /\ Asks(h, c, r) <=> Asks(h, c, r)' \/ (h = g /\ c = x /\ r = y)
            /\ Leaves(h, c, r) <=> Leaves(h, c, r)'
            /\ Left(h, c, r) => Left(h, c, r)'
    BY <1>1, RequestTaken
<1>3. /\ toDB' = SaveData(toDB, y) /\ object' = [object EXCEPT ![y] = NoObject]
      /\ mRoleBaseData[y].eStatus = "E_LOADING"
      /\ UNCHANGED <<netObject, toGate, mRoleBaseData, fromDB, asked, contested, abandoned, lost>>
    BY <1>2 DEF OnClientEnterGameWhileLoading, gateVars, history
<1>4. \A r \in Roles \ {y} : object'[r] = object[r]
    BY <1>3 DEF IInv, Typed, PlayerTypes
<1>5. \A r \in Roles : Loading(r)' <=> Loading(r)
    BY <1>3, LoadingSaved
<1>6. /\ \A h \in Gates, c \in Clients, r \in Roles : Acks(h, c, r)' <=> Acks(h, c, r)
      /\ \A c \in Clients : Connected(c)' <=> Connected(c)
    BY <1>3 DEF Acks, Connected
<1>7. ClientsAsked'
    BY <1>2, <1>3, <1>6 DEF SessionsOrdered, ClientsAsked
<1>8. \A r \in Roles \ (abandoned' \cup lost') : Followed(r)'
    <2> SUFFICES ASSUME NEW r \in Roles \ (abandoned' \cup lost')
                 PROVE  Followed(r)'
        OBVIOUS
    <2>1. Followed(r)
        BY <1>3 DEF SessionsOrdered
    <2>2. Connected(mRoleBaseData[r].xClientID) <=> Connected(mRoleBaseData[r].xClientID)'
        BY <1>3 DEF Connected
    <2> QED BY <1>2, <1>3, <1>6, <2>1, <2>2 DEF Followed
<1>9. \A r \in Roles : \A c \in Clients : Claims(r, c)' => Claims(r, c)
    BY <1>2, <1>3, <1>5, <1>6 DEF Claims
<1>10. \A r \in Roles : \A c \in Clients : Enters(r, c)' => Enters(r, c)
    BY <1>2, <1>3, <1>6 DEF Enters
<1>11. \A r \in Roles \ contested' : OneClaims(r)'
    BY <1>3, <1>9, <1>10 DEF SessionsOrdered, OneClaims
<1>12. \A r \in Roles \ lost' : PlayedOrLoading(r)'
    BY <1>3, <1>4, <1>5 DEF SessionsOrdered, PlayedOrLoading
<1>13. \A r \in Roles \ (contested' \cup lost') : BoundOnceIn(r)'
    BY <1>3, <1>6 DEF SessionsOrdered, BoundOnceIn
<1> QED BY <1>7, <1>8, <1>11, <1>12, <1>13 DEF SessionsOrdered

\* The role is bound to the client that asks, and its data asked for.
LEMMA EnterOrdered ==
    ASSUME IInv, IInv', SessionsOrdered, NEW g \in Gates, NEW d \in DBs,
           NEW garbage \in {"E_LOADING", "other"}, OnClientEnterGameProcess(g, d, garbage)
    PROVE  SessionsOrdered'
<1>1. Receive(g, "REQ_ENTER_GAME")
    BY DEF OnClientEnterGameProcess
<1>2. PICK x \in Clients, y \in Roles :
        /\ x = Head(toGame[g]).client /\ y = Head(toGame[g]).role
        /\ \A h \in Gates, c \in Clients, r \in Roles :
            /\ Asks(h, c, r) <=> Asks(h, c, r)' \/ (h = g /\ c = x /\ r = y)
            /\ Leaves(h, c, r) <=> Leaves(h, c, r)'
            /\ Left(h, c, r) => Left(h, c, r)'
        /\ Left(g, x, y) => \E b \in Clients : Leaves(g, b, y)'
    BY <1>1, RequestTaken
<1> DEFINE base == [gateID |-> g, xClientID |-> x, eStatus |-> garbage]
<1>3. /\ toDB' = With(SaveData(toDB, y), d, [type |-> "LOAD", role |-> y, data |-> 0])
      /\ object' = [object EXCEPT ![y] = NoObject]
      /\ mRoleBaseData' = [mRoleBaseData EXCEPT ![y] = base]
      /\ UNCHANGED <<netObject, toGate, fromDB, asked, contested, abandoned, lost>>
    BY <1>2 DEF OnClientEnterGameProcess, With, gateVars
<1>4. /\ \A r \in Roles \ {y} : mRoleBaseData'[r] = mRoleBaseData[r] /\ object'[r] = object[r]
      /\ mRoleBaseData'[y] = base
    BY <1>3 DEF IInv, Typed, PlayerTypes
<1>5. base.xClientID = x /\ base # NoBase
    BY GuidsAssumption DEF NoBase, NULL
<1> HIDE DEF base
<1>6. \A r \in Roles : Loading(r)' <=> Loading(r) \/ r = y
    BY <1>3, LoadingAsked
<1>7. /\ \A h \in Gates, c \in Clients, r \in Roles : Acks(h, c, r)' <=> Acks(h, c, r)
      /\ \A c \in Clients : Connected(c)' <=> Connected(c)
    BY <1>3 DEF Acks, Connected
<1>8. ClientsAsked /\ Asks(g, x, y) /\ y \in asked[x]
    BY <1>2 DEF SessionsOrdered, ClientsAsked
<1>9. ClientsAsked'
    BY <1>2, <1>3, <1>4, <1>5, <1>7, <1>8 DEF ClientsAsked
<1>10. \A r \in Roles \ (abandoned' \cup lost') : Followed(r)'
    <2> SUFFICES ASSUME NEW r \in Roles \ (abandoned' \cup lost')
                 PROVE  Followed(r)'
        OBVIOUS
    <2>1. Followed(r)
        BY <1>3 DEF SessionsOrdered
    <2>2. \A h \in Gates, c \in Clients : ~Connected(c)' => Left(h, c, r)'
        BY <1>2, <1>7, <2>1 DEF Followed
    <2>3. CASE r = y
        <3>1. Connected(x)' \/ \E b \in Clients : Leaves(g, b, y)'
            BY <1>2, <1>7, <2>1, <2>3 DEF Followed
        <3>2. Connected(mRoleBaseData[r].xClientID)' <=> Connected(x)'
            BY <1>4, <1>5, <2>3 DEF Connected
        <3> QED BY <2>2, <2>3, <3>1, <3>2 DEF Followed
    <2>4. CASE r # y
        <3>1. mRoleBaseData'[r] = mRoleBaseData[r]
            BY <1>4, <2>4
        <3>2. Connected(mRoleBaseData[r].xClientID) <=> Connected(mRoleBaseData[r].xClientID)'
            BY <1>3, <3>1 DEF Connected
        <3> QED BY <1>2, <2>1, <2>2, <3>1, <3>2 DEF Followed
    <2> QED BY <2>3, <2>4
<1>11. \A r \in Roles : \A c \in Clients : Claims(r, c)' => Claims(r, c)
    <2>1. Claims(y, x)
        BY <1>8 DEF Claims
    <2> QED BY <1>2, <1>3, <1>4, <1>5, <1>6, <1>7, <2>1 DEF Claims
<1>12. \A r \in Roles : \A c \in Clients : Enters(r, c)' => Enters(r, c)
    BY <1>2, <1>3, <1>7 DEF Enters
<1>13. \A r \in Roles : \A c \in Clients : Enters(r, c) => Claims(r, c)
    BY <1>8, GuidsAssumption DEF Enters, Claims, ClientsAsked, NULL
<1>14. \A r \in Roles \ contested' : OneClaims(r)'
    <2> SUFFICES ASSUME NEW r \in Roles \ contested'
                 PROVE  OneClaims(r)'
        OBVIOUS
    <2>1. OneClaims(r)
        BY <1>3 DEF SessionsOrdered
    <2>2. ASSUME NEW c \in Clients, Enters(r, c)'
          PROVE  mRoleBaseData'[r].xClientID \in {NULL, c}
        <3>1. Enters(r, c) /\ Claims(r, c)
            BY <1>12, <1>13, <2>2
        <3>2. r = y => c = x
            BY <1>8, <2>1, <3>1 DEF OneClaims, Claims
        <3> QED BY <1>4, <1>5, <2>1, <3>1, <3>2 DEF OneClaims
    <2> QED BY <1>11, <2>1, <2>2 DEF OneClaims
<1>15. \A r \in Roles \ lost' : PlayedOrLoading(r)'
    BY <1>3, <1>4, <1>6 DEF SessionsOrdered, PlayedOrLoading
<1>16. \A r \in Roles \ (contested' \cup lost') : BoundOnceIn(r)'
    BY <1>3, <1>4, <1>5, <1>7 DEF SessionsOrdered, BoundOnceIn
<1> QED BY <1>9, <1>10, <1>14, <1>15, <1>16 DEF SessionsOrdered

\* The data of a role arrives: who is bound to it plays, and is told.
LEMMA LoadOrdered ==
    ASSUME IInv, IInv', SessionsOrdered, NEW d \in DBs, OnDBLoadRoleDataProcess(d)
    PROVE  SessionsOrdered'
<1>1. fromDB[d] # <<>> /\ fromDB' = Without(fromDB, d)
    BY DEF OnDBLoadRoleDataProcess, Without
<1>2. PICK y \in Roles : y = Head(fromDB[d]).role /\ Head(fromDB[d]).data \in Data
    <2>1. Head(fromDB[d]) \in FromDBMessage
        BY <1>1, ReadTyped DEF IInv, Typed, DBTypes
    <2> QED BY <2>1 DEF FromDBMessage
<1> DEFINE base == mRoleBaseData[y]
           x == base.xClientID
           g == base.gateID
<1>3. /\ toDB' = SaveData(toDB, y)
      /\ base = NoBase => object' = [object EXCEPT ![y] = NoObject]
                          /\ UNCHANGED <<mRoleBaseData, toGate, lost>>
      /\ base # NoBase => object' = [object EXCEPT ![y] = Head(fromDB[d]).data]
                          /\ mRoleBaseData' = [mRoleBaseData EXCEPT ![y] = Loaded(base)]
                          /\ \/ toGate' = With(toGate, g, Ack(x, y)) /\ lost' = lost
                             \/ toGate' = toGate /\ lost' = lost \cup {y}
      /\ UNCHANGED <<netObject, toGame, asked, contested, abandoned>>
    BY <1>2 DEF OnDBLoadRoleDataProcess, With, Ack, gateVars
<1>4. /\ base \in Base /\ (base # NoBase => x \in Clients /\ g \in Gates)
      /\ NoBase.xClientID = NULL /\ NoBase.eStatus # "E_LOADING"
    BY BaseTyped DEF NULL
<1>5. base # NoBase => /\ Loaded(base) # NoBase /\ Loaded(base).xClientID = x
                       /\ Loaded(base).eStatus # "E_LOADING"
    <2>1. base # NoBase => Loaded(base) # NoBase
        BY <1>4, LoadedTyped
    <2>2. CASE base.eStatus = "E_LOADING"
        BY <1>4, <2>1, <2>2 DEF Loaded, Base
    <2>3. CASE base.eStatus # "E_LOADING"
        BY <2>1, <2>3 DEF Loaded
    <2> QED BY <2>2, <2>3
<1>6. /\ \A r \in Roles \ {y} : mRoleBaseData'[r] = mRoleBaseData[r] /\ object'[r] = object[r]
      /\ mRoleBaseData'[y] = NoBase <=> base = NoBase
      /\ mRoleBaseData'[y].xClientID = x
      /\ mRoleBaseData'[y].eStatus # "E_LOADING"
      /\ base # NoBase => object'[y] # NoObject
    <2>1. /\ mRoleBaseData \in [Roles -> Base] /\ object \in [Roles -> Data \cup {NoObject}]
          /\ Head(fromDB[d]).data # NoObject
        BY <1>2, SessionBounds DEF IInv, Typed, PlayerTypes, Data, NoObject
    <2>2. CASE base = NoBase
        BY <1>3, <1>4, <2>1, <2>2
    <2>3. CASE base # NoBase
        BY <1>3, <1>5, <2>1, <2>3
    <2> QED BY <2>2, <2>3
<1>7. /\ Loading(y)
      /\ \A r \in Roles : (Loading(r)' => Loading(r)) /\ (r # y => (Loading(r) => Loading(r)'))
    BY <1>1, <1>2, <1>3, LoadingEnds
<1>8. \A h \in Gates, c \in Clients, r \in Roles :
        Acks(h, c, r)' => Acks(h, c, r) \/ (base # NoBase /\ c = x /\ r = y)
    <2>1. CASE toGate' = toGate
        BY <2>1 DEF Acks
    <2>2. CASE base # NoBase /\ toGate' = With(toGate, g, Ack(x, y))
        BY <1>4, <2>2, GameSends, Messages
    <2> QED BY <1>3, <2>1, <2>2
<1>9. /\ \A h \in Gates, c \in Clients, r \in Roles :
            /\ Asks(h, c, r)' <=> Asks(h, c, r)
            /\ Leaves(h, c, r)' <=> Leaves(h, c, r)
            /\ Left(h, c, r)' <=> Left(h, c, r)
      /\ \A c \in Clients : Connected(c)' <=> Connected(c)
      /\ lost \subseteq lost'
    BY <1>3 DEF Asks, Leaves, Left, Connected
<1>10. ClientsAsked /\ (base # NoBase => y \in asked[x])
    BY DEF SessionsOrdered, ClientsAsked
<1> HIDE DEF base, x, g
<1>11. \A r \in Roles : /\ mRoleBaseData'[r].xClientID = mRoleBaseData[r].xClientID
                        /\ mRoleBaseData'[r] = NoBase <=> mRoleBaseData[r] = NoBase
    BY <1>6 DEF x, base
<1>12. ClientsAsked'
    <2>1. \A h \in Gates, c \in Clients, r \in Roles :
            /\ Asks(h, c, r)' => r \in asked[c] /\ netObject[c].gate = h
            /\ Leaves(h, c, r)' => r \in asked[c] /\ ~Connected(c)'
            /\ Acks(h, c, r)' => r \in asked[c]
        BY <1>8, <1>9, <1>10 DEF ClientsAsked
    <2>2. \A r \in Roles : mRoleBaseData'[r] # NoBase => r \in asked[mRoleBaseData'[r].xClientID]
        BY <1>10, <1>11 DEF ClientsAsked
    <2> QED BY <1>3, <1>10, <2>1, <2>2 DEF ClientsAsked
<1>13. \A r \in Roles \ (abandoned' \cup lost') : Followed(r)'
    <2> SUFFICES ASSUME NEW r \in Roles \ (abandoned' \cup lost')
                 PROVE  Followed(r)'
        OBVIOUS
    <2>1. Followed(r)
        BY <1>3, <1>9 DEF SessionsOrdered
    <2>2. Connected(mRoleBaseData[r].xClientID) <=> Connected(mRoleBaseData[r].xClientID)'
        BY <1>3, <1>11 DEF Connected
    <2> QED BY <1>9, <1>11, <2>1, <2>2 DEF Followed
<1>14. \A r \in Roles : \A c \in Clients : Claims(r, c)' => Claims(r, c)
    <2>1. base # NoBase => Claims(y, x)
        BY <1>7 DEF Claims, x, base
    <2> QED BY <1>3, <1>7, <1>8, <1>9, <1>11, <2>1 DEF Claims
<1>15. \A r \in Roles : \A c \in Clients :
        Enters(r, c)' => Enters(r, c) \/ (r = y /\ c = mRoleBaseData[r].xClientID)
    BY <1>3, <1>8, <1>9 DEF Enters, x, base
<1>16. \A r \in Roles \ contested' : OneClaims(r)'
    BY <1>3, <1>11, <1>14, <1>15 DEF SessionsOrdered, OneClaims
<1>17. \A r \in Roles \ lost' : PlayedOrLoading(r)'
    <2> SUFFICES ASSUME NEW r \in Roles \ lost'
                 PROVE  PlayedOrLoading(r)'
        OBVIOUS
    <2>1. CASE r = y
        BY <1>6, <2>1 DEF PlayedOrLoading
    <2>2. CASE r # y
        <3>1. PlayedOrLoading(r)
            BY <1>9 DEF SessionsOrdered
        <3> QED BY <1>6, <1>7, <2>2, <3>1 DEF PlayedOrLoading
    <2> QED BY <2>1, <2>2
<1>18. \A r \in Roles \ (contested' \cup lost') : BoundOnceIn(r)'
    BY <1>3, <1>8, <1>9, <1>11 DEF SessionsOrdered, BoundOnceIn, base
<1> QED BY <1>12, <1>13, <1>16, <1>17, <1>18 DEF SessionsOrdered

-------------------------------------------------------------------------------
LEMMA OrderedStep ==
    ASSUME IInv, IInv', SessionsOrdered, [Next]_vars
    PROVE  SessionsOrdered'
<1>1. CASE ClientSide
    BY <1>1, ArriveOrdered, RequestOrdered, DisconnectOrdered DEF ClientSide
<1>2. CASE \E g \in Gates : GateReads(g) \/ GameReads(g)
    BY <1>2, AckOrdered, RegisterOrdered, LeaveOrdered, EnterWhileLoadingOrdered, EnterOrdered
        DEF GateReads, GameReads
<1>3. CASE \E d \in DBs : GameReadsDB(d) \/ DBReads(d)
    BY <1>3, LoadOrdered, AwayOrdered DEF GameReadsDB, DBReads
<1>4. CASE Environment
    BY <1>4, RegisterOrdered, LinkBreaksOrdered, AwayOrdered DEF Environment
<1>5. CASE UNCHANGED vars
    BY <1>5, AwayOrdered
<1> QED BY <1>1, <1>2, <1>3, <1>4, <1>5 DEF Next, Handlers

LEMMA OrderedStart == Init => SessionsOrdered
<1> SUFFICES ASSUME Init PROVE SessionsOrdered
    OBVIOUS
<1>1. \A g \in Gates : toGame[g] = <<>> /\ toGate[g] = <<>>
    BY DEF Init
<1>2. \A g \in Gates, c \in Clients, r \in Roles :
        ~Asks(g, c, r) /\ ~Leaves(g, c, r) /\ ~Acks(g, c, r) /\ Left(g, c, r)
    BY <1>1 DEF Asks, Leaves, Acks, Left, In, LeftIn
<1>3. /\ \A c \in Clients : netObject[c].userID = NULL /\ asked[c] = {} /\ ~Connected(c)
      /\ \A r \in Roles : mRoleBaseData[r] = NoBase
      /\ NoBase.eStatus # "E_LOADING"
    BY DEF Init, Connected, NoBase, NULL
<1>4. ClientsAsked
    BY <1>2, <1>3 DEF ClientsAsked
<1>5. \A r \in Roles : Followed(r) /\ PlayedOrLoading(r) /\ BoundOnceIn(r)
    BY <1>2, <1>3 DEF Followed, PlayedOrLoading, BoundOnceIn
<1>6. \A r \in Roles : OneClaims(r)
    BY <1>2, <1>3 DEF OneClaims, Claims, Enters
<1> QED BY <1>4, <1>5, <1>6 DEF SessionsOrdered

LEMMA OrderedHolds == Spec => [](IInv /\ SessionsOrdered)
<1>1. Init => IInv /\ SessionsOrdered
    BY Start, OrderedStart
<1>2. (IInv /\ SessionsOrdered) /\ [Next]_vars => (IInv /\ SessionsOrdered)'
    BY StepKeeps, OrderedStep
<1> QED BY <1>1, <1>2, PTL DEF Spec

\* Nothing is under way about a role when all its messages were read.
LEMMA SettledMeans ==
    ASSUME NEW r \in Roles, Settled(r)
    PROVE  ~Loading(r) /\ \A g \in Gates, c \in Clients : ~Leaves(g, c, r)
BY DEF Settled, Underway, Leaves, In, Leave, Message, ToSet

\* No player stays in the game when its client is gone, whatever requests, leaves and
\* loads cross; unless the client left before it knew it was in, or a connection or a
\* load failed (OnClientDisconnect of the proxy against OnClientEnterGameProcess,
\* OnDBLoadRoleDataProcess and OnAckEnterGame).
THEOREM PlayersFollowClients == Spec => []NoGhostPlayers
<1>1. IInv /\ SessionsOrdered => NoGhostPlayers
    <2> SUFFICES ASSUME IInv, SessionsOrdered, NEW r \in Roles \ (abandoned \cup lost),
                        Settled(r), object[r] # NoObject
                 PROVE  Connected(mRoleBaseData[r].xClientID)
        BY DEF NoGhostPlayers
    <2>1. mRoleBaseData[r] # NoBase
        BY DEF IInv, PlayersAgree, PlayersHaveGateInfo
    <2>2. Followed(r)
        BY DEF SessionsOrdered
    <2> QED BY <2>1, <2>2, SettledMeans DEF Followed
<1> QED BY <1>1, OrderedHolds, PTL

\* Who was told that it is in plays the role, once nothing about it is under way; unless
\* another client asked for it meanwhile or a connection or a load failed.
THEOREM EnteredIsPlaying == Spec => []EnteredClientsPlay
<1>1. IInv /\ SessionsOrdered => EnteredClientsPlay
    <2> SUFFICES ASSUME IInv, SessionsOrdered, NEW r \in Roles \ (contested \cup lost),
                        NEW c \in Clients,
                        Settled(r), Connected(c), netObject[c].userID = r
                 PROVE  object[r] # NoObject /\ mRoleBaseData[r].xClientID = c
        BY DEF EnteredClientsPlay
    <2>1. mRoleBaseData[r] # NoBase
        BY DEF SessionsOrdered, BoundOnceIn
    <2>2. object[r] # NoObject
        BY <2>1, SettledMeans DEF SessionsOrdered, PlayedOrLoading
    <2>3. mRoleBaseData[r].xClientID \in {NULL, c}
        BY DEF SessionsOrdered, OneClaims, Enters
    <2>4. mRoleBaseData[r].xClientID # NULL
        BY <2>1, BaseTyped, GuidsAssumption DEF NULL
    <2> QED BY <2>2, <2>3, <2>4
<1> QED BY <1>1, OrderedHolds, PTL

\* A leave that arrives late does not end the session of somebody else, unless the role
\* was asked for while an earlier session of it was unfinished (OnClientLeaveGameProcess
\* does not look whose leave it is).
THEOREM LeavesAreOwn == Spec => []LeavesEndTheirOwnSession
<1>1. IInv /\ SessionsOrdered => LeavesEndTheirOwnSession
    <2> SUFFICES ASSUME IInv, SessionsOrdered, NEW g \in Gates, NEW m \in ToSet(toGame[g]),
                        m.type = "REQ_LEAVE_GAME", m.role \notin contested
                 PROVE  mRoleBaseData[m.role].xClientID \in {NULL, m.client}
        BY DEF LeavesEndTheirOwnSession
    <2>1. PICK n \in 1 .. Len(toGame[g]) : toGame[g][n] = m
        BY DEF ToSet, IInv, Typed, ToGameTypes
    <2>2. m \in ToGameMessage
        BY <2>1 DEF IInv, Typed, ToGameTypes
    <2>3. m.client \in Clients /\ m.role \in Roles /\ m = Leave(m.client, m.role)
        BY <2>2, Messages
    <2>4. Leaves(g, m.client, m.role)
        BY <2>1, <2>3 DEF Leaves, In
    <2>5. Enters(m.role, m.client) /\ OneClaims(m.role)
        BY <2>3, <2>4 DEF SessionsOrdered, Enters
    <2> QED BY <2>3, <2>5 DEF OneClaims
<1> QED BY <1>1, OrderedHolds, PTL
===============================================================================
