------------------------------ MODULE WorldServer ------------------------------
(***************************************************************************)
(* The world server's tables: which game servers and proxies there are and *)
(* on which sockets (mGameMap, mProxyMap), and which role is on which game *)
(* server (mPlayersData). Servers register when their link comes up; links *)
(* break and servers crash, and the two ends of a socket learn of it at    *)
(* different times. The number of a closed socket is soon used again.      *)
(*                                                                         *)
(* NetClient has how a server gets its link; here a link is there or not.  *)
(***************************************************************************)
EXTENDS Naturals, Sequences, FiniteSets, SequencesExt

CONSTANTS
    Games,      \* the ids of game servers
    Proxies,    \* the ids of proxies
    Roles,
    Socks,      \* the numbers of sockets at the world server
    MaxQueue    \* bound: messages under way on one socket

ASSUME ServersAssumption == Games \cap Proxies = {}
ASSUME MaxQueueAssumption == MaxQueue \in Nat \ {0}

Servers == Games \cup Proxies
None == "none"                      \* no socket, no owner, no game server
Broken == "broken"                  \* a link whose owner has not noticed yet
Gone == [nFD |-> None, state |-> None]

Registered == [type |-> "registered", role |-> None]
OnlineNotify(r) == [type |-> "online", role |-> r]
OfflineNotify(r) == [type |-> "offline", role |-> r]
Messages == {Registered} \cup {OnlineNotify(r) : r \in Roles}
                         \cup {OfflineNotify(r) : r \in Roles}

ASSUME NamesAssumption ==
    /\ None \notin Servers \cup Socks \cup Roles
    /\ Broken \notin Socks \cup {None}

VARIABLES
    link,           \* per server: its socket, None, or Broken
    owner, broken,  \* per socket: who is at the other end, and has it gone
    toWorld,        \* per socket: what the world server has not read yet
    toProxy,        \* per proxy: the games in the lists on their way to it
    mGameMap,       \* the world server's ServerData of games
    mProxyMap,      \* and the sockets of its proxies
    mPlayersData,   \* per role: PlayerData::gameID
    mServers,       \* per proxy: the game servers it connects to
    place,          \* per role: the game servers that have an object of it
    untold,         \* roles whose last report was never sent or was lost
    crossed,        \* roles with reports under way on two sockets at once
    cleared,        \* roles last reported by a server they left for another one
                    \* that still has them
    overtaken       \* servers whose older registration was read last

sockets == <<link, owner, broken, toWorld, toProxy>>
tables == <<mGameMap, mProxyMap, mPlayersData>>
causes == <<untold, crossed, cleared, overtaken>>
vars == <<sockets, tables, mServers, place, causes>>

TypeOK ==
    /\ link \in [Servers -> Socks \cup {None, Broken}]
    /\ owner \in [Socks -> Servers \cup {None}]
    /\ broken \in [Socks -> BOOLEAN]
    /\ toWorld \in [Socks -> Seq(Messages)]
    /\ toProxy \in [Proxies -> SUBSET Games]
    /\ mGameMap \in [Games -> {Gone} \cup
                        [nFD : Socks \cup {None}, state : {"EST_NARMAL", "EST_CRASH"}]]
    /\ mProxyMap \in [Proxies -> Socks \cup {None}]
    /\ mPlayersData \in [Roles -> Games \cup {None}]
    /\ mServers \in [Proxies -> SUBSET Games]
    /\ place \in [Roles -> SUBSET Games]
    /\ untold \in SUBSET Roles
    /\ crossed \in SUBSET Roles
    /\ cleared \in SUBSET Roles
    /\ overtaken \in SUBSET Servers

Up(s) == link[s] \in Socks
RolesIn(msgs) == {m.role : m \in Range(msgs)} \ {None}
UnderWay(r) == \E k \in Socks : r \in RolesIn(toWorld[k])

Init ==
    /\ link = [s \in Servers |-> None]
    /\ owner = [k \in Socks |-> None]
    /\ broken = [k \in Socks |-> FALSE]
    /\ toWorld = [k \in Socks |-> <<>>]
    /\ toProxy = [p \in Proxies |-> {}]
    /\ mGameMap = [g \in Games |-> Gone]
    /\ mProxyMap = [p \in Proxies |-> None]
    /\ mPlayersData = [r \in Roles |-> None]
    /\ mServers = [p \in Proxies |-> {}]
    /\ place = [r \in Roles |-> {}]
    /\ untold = {} /\ crossed = {} /\ cleared = {} /\ overtaken = {}

-------------------------------------------------------------------------------
(* The servers' ends of their links. *)

\* The link of a server comes up, and it registers.
Register(s) ==
    /\ link[s] = None
    /\ \E k \in Socks :
        /\ owner[k] = None
        /\ link' = [link EXCEPT ![s] = k]
        /\ owner' = [owner EXCEPT ![k] = s]
        /\ toWorld' = [toWorld EXCEPT ![k] = <<Registered>>]
    /\ UNCHANGED <<broken, toProxy, tables, mServers, place, causes>>

\* What can still arrive of what is on its way when a socket breaks.
Arrives(msgs) == {SubSeq(msgs, 1, n) : n \in 0 .. Len(msgs)}

\* The sockets ks break. What does not arrive is lost, and so the last report of
\* some roles.
BreakSockets(ks, also) ==
    /\ broken' = [k \in Socks |-> broken[k] \/ k \in ks]
    /\ toWorld' \in {q \in [Socks -> UNION {Arrives(toWorld[k]) : k \in Socks}] :
                        \A k \in Socks : IF k \in ks THEN q[k] \in Arrives(toWorld[k])
                                         ELSE q[k] = toWorld[k]}
    /\ untold' = untold \cup also \cup
            UNION {RolesIn(SubSeq(toWorld[k], Len(toWorld'[k]) + 1, Len(toWorld[k]))) : k \in ks}

\* The network breaks a link; its owner goes on sending until it notices.
LinkBreaks(s) ==
    /\ Up(s)
    /\ BreakSockets({link[s]}, {})
    /\ link' = [link EXCEPT ![s] = Broken]
    /\ \E kept \in IF s \in Proxies THEN SUBSET toProxy[s] ELSE {{}} :
        toProxy' = [p \in Proxies |-> IF p = s THEN kept ELSE toProxy[p]]
    /\ UNCHANGED <<owner, tables, mServers, place, crossed, cleared, overtaken>>

\* OnDisConnected of the server's own client module.
LinkLost(s) ==
    /\ link[s] = Broken
    /\ link' = [link EXCEPT ![s] = None]
    /\ toProxy' = [p \in Proxies |-> IF p = s THEN {} ELSE toProxy[p]]
    /\ UNCHANGED <<owner, broken, toWorld, tables, mServers, place, causes>>

\* A server's process ends: its roles, its list of servers and its link are gone.
ServerCrashes(s) ==
    LET roles == {r \in Roles : s \in place[r]} IN
    /\ link[s] # None
    /\ BreakSockets({link[s]} \cap Socks, roles)
    /\ link' = [link EXCEPT ![s] = None]
    /\ place' = [r \in Roles |-> place[r] \ {s}]
    /\ toProxy' = [p \in Proxies |-> IF p = s THEN {} ELSE toProxy[p]]
    /\ mServers' = [p \in Proxies |-> IF p = s THEN {} ELSE mServers[p]]
    /\ UNCHANGED <<owner, tables, crossed, cleared, overtaken>>

\* SendToAllServerByPB: a report goes out only while the link is there.
Report(g, m) ==
    LET r == m.role
        others == {k \in Socks \ {link[g]} : r \in RolesIn(toWorld[k])} IN
    IF Up(g)
    THEN /\ Len(toWorld[link[g]]) < MaxQueue
         /\ toWorld' = [toWorld EXCEPT ![link[g]] = Append(@, m)]
         /\ untold' = untold \ {r}
         /\ crossed' = IF others # {} THEN crossed \cup {r}
                       ELSE IF UnderWay(r) THEN crossed ELSE crossed \ {r}
    ELSE /\ untold' = untold \cup {r}
         /\ UNCHANGED <<toWorld, crossed>>

\* SendOnline, when the player's object is finished; a game server makes no second
\* object of a role. Another may have one: a client that selects another server
\* leaves its role behind on the first.
SendOnline(g, r) ==
    /\ g \notin place[r]
    /\ place' = [place EXCEPT ![r] = @ \cup {g}]
    /\ cleared' = cleared \ {r}
    /\ Report(g, OnlineNotify(r))
    /\ UNCHANGED <<link, owner, broken, toProxy, tables, mServers, overtaken>>

\* SendOffline, when it is destroyed, whoever else has one.
SendOffline(g, r) ==
    /\ g \in place[r]
    /\ place' = [place EXCEPT ![r] = @ \ {g}]
    /\ cleared' = IF place[r] = {g} THEN cleared \ {r} ELSE cleared \cup {r}
    /\ Report(g, OfflineNotify(r))
    /\ UNCHANGED <<link, owner, broken, toProxy, tables, mServers, overtaken>>

\* The proxy's OnServerInfoProcess adds every game server it is told of.
OnServerInfoProcess(p) ==
    /\ toProxy[p] # {}
    /\ mServers' = [mServers EXCEPT ![p] = @ \cup toProxy[p]]
    /\ toProxy' = [toProxy EXCEPT ![p] = {}]
    /\ UNCHANGED <<link, owner, broken, toWorld, tables, place, causes>>

-------------------------------------------------------------------------------
(* The world server. *)

\* SynGameToProxy to the proxies ps of the table: all games, crashed ones too. A
\* socket that has broken takes nothing any more.
SynGameToProxy(ps, proxies, games) ==
    toProxy' = [p \in Proxies |->
        IF p \in ps /\ proxies[p] # None /\ link[p] = proxies[p]
        THEN toProxy[p] \cup {g \in Games : games[g] # Gone}
        ELSE toProxy[p]]

\* A bug: an entry that is there keeps its socket.
OnProxyServerRegisteredOnce(k) ==
    /\ mProxyMap' = [mProxyMap EXCEPT ![owner[k]] = IF @ = None THEN k ELSE @]
    /\ SynGameToProxy({owner[k]}, mProxyMap', mGameMap)
    /\ UNCHANGED <<mGameMap, mPlayersData>>

OnProxyServerRegisteredProcess(k) ==
    /\ mProxyMap' = [mProxyMap EXCEPT ![owner[k]] = k]
    /\ SynGameToProxy({owner[k]}, mProxyMap', mGameMap)
    /\ UNCHANGED <<mGameMap, mPlayersData>>

OnGameServerRegisteredProcess(k) ==
    /\ mGameMap' = [mGameMap EXCEPT ![owner[k]] = [nFD |-> k, state |-> "EST_NARMAL"]]
    /\ SynGameToProxy(Proxies, mProxyMap, mGameMap')
    /\ UNCHANGED <<mProxyMap, mPlayersData>>

\* A bug: a role that is known keeps the game server it was on.
OnOnlineProcessKnown(k, r) ==
    /\ mPlayersData' = [mPlayersData EXCEPT ![r] = IF @ = None THEN owner[k] ELSE @]
    /\ UNCHANGED <<toProxy, mGameMap, mProxyMap>>

OnOnlineProcess(k, r) ==
    /\ mPlayersData' = [mPlayersData EXCEPT ![r] = owner[k]]
    /\ UNCHANGED <<toProxy, mGameMap, mProxyMap>>

\* OnOfflineProcess does not look at who sends it.
OnOfflineProcess(r) ==
    /\ mPlayersData' = [mPlayersData EXCEPT ![r] = None]
    /\ UNCHANGED <<toProxy, mGameMap, mProxyMap>>

\* The world server reads the next message of a socket.
WorldReads(k) ==
    LET m == Head(toWorld[k]) IN
    /\ toWorld[k] # <<>>
    /\ toWorld' = [toWorld EXCEPT ![k] = Tail(@)]
    /\ \/ /\ m = Registered
          /\ IF owner[k] \in Games THEN OnGameServerRegisteredProcess(k) ELSE OnProxyServerRegisteredProcess(k)
          /\ overtaken' = IF broken[k] THEN overtaken \cup {owner[k]}
                          ELSE overtaken \ {owner[k]}
       \/ m.type = "online" /\ OnOnlineProcess(k, m.role) /\ UNCHANGED overtaken
       \/ m.type = "offline" /\ OnOfflineProcess(m.role) /\ UNCHANGED overtaken
    /\ UNCHANGED <<link, owner, broken, mServers, place, untold, crossed, cleared>>

\* A bug: the game's entry is looked up by its id.
DisconnectedGamesById(k) == {g \in Games : g = owner[k] /\ mGameMap[g] # Gone}

\* The entry of the game server whose socket it is.
DisconnectedGames(k) == {g \in Games : mGameMap[g].nFD = k}

\* A bug: the entry stays and keeps the number of the socket.
OnClientDisconnectKept(k) ==
    LET gs == DisconnectedGames(k) IN
    /\ mGameMap' = [g \in Games |->
            IF g \in gs THEN [nFD |-> k, state |-> "EST_CRASH"] ELSE mGameMap[g]]
    /\ mProxyMap' = [p \in Proxies |-> IF mProxyMap[p] = k THEN None ELSE mProxyMap[p]]
    /\ IF mGameMap' # mGameMap \/ mProxyMap' # mProxyMap
       THEN SynGameToProxy(Proxies, mProxyMap', mGameMap')
       ELSE UNCHANGED toProxy

\* OnClientDisconnect: the game's entry is marked, the proxy's is removed.
OnClientDisconnect(k) ==
    LET gs == DisconnectedGames(k) IN
    /\ mGameMap' = [g \in Games |->
            IF g \in gs THEN [nFD |-> None, state |-> "EST_CRASH"] ELSE mGameMap[g]]
    /\ mProxyMap' = [p \in Proxies |-> IF mProxyMap[p] = k THEN None ELSE mProxyMap[p]]
    /\ IF mGameMap' # mGameMap \/ mProxyMap' # mProxyMap
       THEN SynGameToProxy(Proxies, mProxyMap', mGameMap')
       ELSE UNCHANGED toProxy

\* The world server notices that a socket has closed; its number is free then.
SocketCloses(k) ==
    /\ broken[k]
    /\ toWorld[k] = <<>>
    /\ OnClientDisconnect(k)
    /\ owner' = [owner EXCEPT ![k] = None]
    /\ broken' = [broken EXCEPT ![k] = FALSE]
    /\ UNCHANGED <<link, toWorld, mPlayersData, mServers, place, causes>>

\* Execute tells the proxies all there is, every ten seconds.
Execute ==
    /\ SynGameToProxy(Proxies, mProxyMap, mGameMap)
    /\ toProxy' # toProxy
    /\ UNCHANGED <<link, owner, broken, toWorld, tables, mServers, place, causes>>

\* The world server's process ends and starts again: every link breaks, what it
\* had not read is gone, and nobody tells it of the roles that are in the game.
WorldRestarts ==
    /\ \E s \in Servers : Up(s)
    /\ link' = [s \in Servers |-> IF Up(s) THEN Broken ELSE link[s]]
    /\ owner' = [k \in Socks |-> None]
    /\ broken' = [k \in Socks |-> FALSE]
    /\ toWorld' = [k \in Socks |-> <<>>]
    /\ toProxy' \in [Proxies -> SUBSET Games]
    /\ \A p \in Proxies : toProxy'[p] \subseteq toProxy[p]
    /\ mGameMap' = [g \in Games |-> Gone]
    /\ mProxyMap' = [p \in Proxies |-> None]
    /\ mPlayersData' = [r \in Roles |-> None]
    /\ untold' = untold \cup {r \in Roles : place[r] # {} \/ UnderWay(r)}
    /\ crossed' = {}
    /\ overtaken' = {}
    /\ UNCHANGED <<mServers, place, cleared>>

-------------------------------------------------------------------------------
Next ==
    \/ \E s \in Servers : Register(s) \/ LinkBreaks(s) \/ LinkLost(s) \/ ServerCrashes(s)
    \/ \E g \in Games, r \in Roles : SendOnline(g, r) \/ SendOffline(g, r)
    \/ \E p \in Proxies : OnServerInfoProcess(p)
    \/ \E k \in Socks : WorldReads(k) \/ SocketCloses(k)
    \/ Execute
    \/ WorldRestarts

Spec == Init /\ [][Next]_vars

\* Every server runs its loop: it reads what has arrived, notices what has broken
\* and goes on trying to connect. Nothing says that roles come or servers crash.
FairSpec ==
    /\ Spec
    /\ \A s \in Servers : WF_vars(Register(s)) /\ WF_vars(LinkLost(s))
    /\ \A p \in Proxies : WF_vars(OnServerInfoProcess(p))
    /\ \A k \in Socks : WF_vars(WorldReads(k)) /\ WF_vars(SocketCloses(k))
    /\ WF_vars(Execute)

-------------------------------------------------------------------------------
(* Properties. *)

\* A socket in the world server's tables belongs to the server it stands for, also
\* when numbers of sockets are used again and a server registers on a new socket
\* before its old one is seen to close: nothing sent to a server, and no break of
\* another's link, is taken for its own.
SocketsAreTheirs ==
    /\ \A g \in Games : mGameMap[g].nFD # None => owner[mGameMap[g].nFD] = g
    /\ \A p \in Proxies : mProxyMap[p] # None => owner[mProxyMap[p]] = p

\* A server whose link is up and whose registration was read is in the table with
\* that socket, and a game server there is not marked as crashed, whatever is still
\* heard of its older links; unless an older registration is read after the newer.
RegisteredServersStay ==
    \A s \in Servers \ overtaken :
        Up(s) /\ Registered \notin Range(toWorld[link[s]]) =>
            IF s \in Games THEN mGameMap[s] = [nFD |-> link[s], state |-> "EST_NARMAL"]
            ELSE mProxyMap[s] = link[s]

\* What the world server can rightly have of a role. One that is on two game servers
\* may be shown on either, until either reports it gone: that clears the record
\* whoever it was about (OnOfflineProcess), and the role is not shown any more
\* although the other server still has it.
Places(r) == IF place[r] = {} \/ r \in cleared THEN {None} ELSE place[r]

\* Once nothing about a role is on its way, the world server does not show it on a
\* game server that has none of it, and does show it if it is on one; a role on two
\* game servers is not shown once it left the first of them, until it comes anew.
\* Where that fails, the role's last report was lost or never sent (a link or a
\* process was down) or it was under way together with that of another game server,
\* which nothing orders.
RolesAreWhereShown ==
    \A r \in Roles \ (untold \cup crossed) :
        ~UnderWay(r) => mPlayersData[r] \in Places(r)

\* A proxy and a game server that stay connected to the world server find each
\* other, whatever was lost before, unless the proxy's older registration was read
\* after the newer one: then it is told of nothing any more.
ProxiesLearnOfGames ==
    \A p \in Proxies, g \in Games :
        <>[](Up(p) /\ Up(g) /\ p \notin overtaken) => <>[](g \in mServers[p])
===============================================================================
