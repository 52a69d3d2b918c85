--------------------------- MODULE WorldServerProofs ---------------------------
(***************************************************************************)
(* Proofs about WorldServer, for all sets of servers, roles and sockets.   *)
(*                                                                         *)
(* The two ends of a socket agree as long as it is not broken (LinksMatch) *)
(* and a free socket has nothing to read (FreeSockets). With them, what    *)
(* the world server's tables say of sockets stays right.                   *)
(*                                                                         *)
(* What it has of a role is right because the last report under way about  *)
(* a role says where the role is (RolesFollowed).                          *)
(***************************************************************************)
EXTENDS WorldServer, TLAPS

\* A link and the owner of an unbroken socket are the same thing seen from its two
\* ends.
LinksMatch ==
    \A s \in Servers, k \in Socks :
        link[s] = k <=> owner[k] = s /\ ~broken[k]

\* The number of a socket is free only after all of it was read and closed.
FreeSockets ==
    \A k \in Socks : owner[k] = None => ~broken[k] /\ toWorld[k] = <<>>

\* Proxies have nothing to report.
ProxiesOnlyRegister ==
    \A k \in Socks : owner[k] \in Proxies => \A m \in Range(toWorld[k]) : m = Registered

SocketInv == LinksMatch /\ FreeSockets /\ ProxiesOnlyRegister

Inv == TypeOK /\ SocketInv /\ SocketsAreTheirs /\ RegisteredServersStay

-------------------------------------------------------------------------------
(* Sequences of messages. *)

\* What has arrived of a sequence of messages is one.
LEMMA ArrivesType == ASSUME NEW q \in Seq(Messages), NEW a \in Arrives(q)
                     PROVE  a \in Seq(Messages) /\ Range(a) \subseteq Range(q)
<1>1. PICK n \in 0 .. Len(q) : a = SubSeq(q, 1, n)
  BY DEF Arrives
<1>2. a \in Seq(Messages) /\ \A i \in DOMAIN a : i \in DOMAIN q /\ a[i] = q[i]
  BY <1>1
<1> QED
  BY <1>2 DEF Range

\* Sending keeps what is under way.
LEMMA RangeAppend == ASSUME NEW q \in Seq(Messages), NEW m \in Messages
                     PROVE  Range(q) \subseteq Range(Append(q, m))
<1>1. \A i \in DOMAIN q : i \in DOMAIN Append(q, m) /\ Append(q, m)[i] = q[i]
  OBVIOUS
<1> QED
  BY <1>1 DEF Range

\* What is in a sequence of messages is a message.
LEMMA RangeType == ASSUME NEW q \in Seq(Messages), NEW m \in Range(q) PROVE m \in Messages
BY DEF Range

\* Reading a message that is not m leaves m where it is.
LEMMA RangeTail == ASSUME NEW q \in Seq(Messages), q # <<>>,
                          NEW m \in Range(q), m # Head(q)
                   PROVE  m \in Range(Tail(q))
<1>1. PICK i \in 1 .. Len(q) : q[i] = m
  BY DEF Range
<1>2. i # 1
  BY <1>1
<1>3. i - 1 \in DOMAIN Tail(q) /\ Tail(q)[i - 1] = m
  BY <1>1, <1>2
<1> QED
  BY <1>3 DEF Range

-------------------------------------------------------------------------------
(* Types. *)

\* What the world server's handlers of messages change.
TypesOfTables ==
    /\ toProxy \in [Proxies -> SUBSET Games]
    /\ mGameMap \in [Games -> {Gone} \cup
                        [nFD : Socks \cup {None}, state : {"EST_NARMAL", "EST_CRASH"}]]
    /\ mProxyMap \in [Proxies -> Socks \cup {None}]
    /\ mPlayersData \in [Roles -> Games \cup {None}]

\* The messages are three different things.
LEMMA MessageKinds ==
    /\ Registered \in Messages
    /\ \A r \in Roles : OnlineNotify(r) \in Messages /\ OfflineNotify(r) \in Messages
    /\ \A m \in Messages : m # Registered => m.role \in Roles
<1>1. Registered \in Messages
  BY DEF Messages
<1>2. \A r \in Roles : OnlineNotify(r) \in Messages /\ OfflineNotify(r) \in Messages
  BY DEF Messages
<1>3. ASSUME NEW m \in Messages, m # Registered PROVE m.role \in Roles
  <2>1. PICK r \in Roles : m = OnlineNotify(r) \/ m = OfflineNotify(r)
    BY <1>3 DEF Messages
  <2>2. OnlineNotify(r).role = r /\ OfflineNotify(r).role = r
    BY DEF OnlineNotify, OfflineNotify
  <2> QED
    BY <2>1, <2>2
<1> QED
  BY <1>1, <1>2, <1>3

\* Breaking sockets keeps the types, and touches no other socket.
LEMMA BreakSocketsType ==
    ASSUME TypeOK, NEW ks \in SUBSET Socks, NEW also \in SUBSET Roles,
           BreakSockets(ks, also)
    PROVE  /\ broken' \in [Socks -> BOOLEAN]
           /\ toWorld' \in [Socks -> Seq(Messages)]
           /\ untold' \in SUBSET Roles
           /\ \A k \in Socks \ ks : toWorld'[k] = toWorld[k] /\ broken'[k] = broken[k]
           /\ \A k \in ks : broken'[k]
           /\ \A k \in Socks : Range(toWorld'[k]) \subseteq Range(toWorld[k])
           /\ \A k \in Socks : toWorld[k] = <<>> => toWorld'[k] = <<>>
<1>1. broken' \in [Socks -> BOOLEAN]
  BY DEF BreakSockets
<1>2. /\ toWorld' = [k \in Socks |-> toWorld'[k]]
      /\ \A k \in Socks : IF k \in ks THEN toWorld'[k] \in Arrives(toWorld[k])
                          ELSE toWorld'[k] = toWorld[k]
  BY DEF BreakSockets
<1>3. \A k \in Socks : toWorld'[k] \in Seq(Messages)
  BY <1>2, ArrivesType DEF TypeOK
<1>4. toWorld' \in [Socks -> Seq(Messages)]
  BY <1>2, <1>3
<1>5. ASSUME NEW k \in ks
      PROVE  RolesIn(SubSeq(toWorld[k], Len(toWorld'[k]) + 1, Len(toWorld[k]))) \subseteq Roles
  <2> DEFINE q == toWorld[k]
             n == Len(toWorld'[k])
             lost == SubSeq(q, n + 1, Len(q))
  <2>1. q \in Seq(Messages) /\ n \in Nat
    BY <1>3 DEF TypeOK
  <2>2. lost \in Seq(Messages)
    BY <2>1
  <2>3. ASSUME NEW m \in Range(lost), m.role # None PROVE m.role \in Roles
    <3> HIDE DEF lost
    <3>1. m \in Messages
      BY <2>2, RangeType
    <3> QED
      BY <2>3, <3>1, MessageKinds DEF Registered
  <2> QED
    BY <2>3 DEF RolesIn
<1>6. untold' \in SUBSET Roles
  BY <1>5 DEF BreakSockets, TypeOK
<1>7. \A k \in Socks \ ks : toWorld'[k] = toWorld[k]
  BY <1>2
<1>8. /\ \A k \in Socks \ ks : broken'[k] = broken[k]
      /\ \A k \in ks : broken'[k]
  BY DEF BreakSockets, TypeOK
<1>9. ASSUME NEW k \in Socks
      PROVE  /\ Range(toWorld'[k]) \subseteq Range(toWorld[k])
             /\ toWorld[k] = <<>> => toWorld'[k] = <<>>
  <2>1. CASE k \in ks
    <3>1. toWorld[k] \in Seq(Messages) /\ toWorld'[k] \in Arrives(toWorld[k])
      BY <1>2, <2>1 DEF TypeOK
    <3>2. toWorld[k] = <<>> => toWorld'[k] = <<>>
      BY <3>1 DEF Arrives
    <3> QED
      BY <3>1, <3>2, ArrivesType
  <2>2. CASE k \notin ks
    BY <1>7, <2>2
  <2> QED
    BY <2>1, <2>2
<1> QED
  BY <1>1, <1>4, <1>6, <1>7, <1>8, <1>9

\* A server that crashes, or whose link breaks, breaks its own socket.
LEMMA ServerBreaks ==
    ASSUME TypeOK, NEW s \in Servers, LinkBreaks(s) \/ ServerCrashes(s)
    PROVE  /\ broken' \in [Socks -> BOOLEAN]
           /\ toWorld' \in [Socks -> Seq(Messages)]
           /\ untold' \in SUBSET Roles
           /\ \A k \in Socks : k # link[s] => toWorld'[k] = toWorld[k] /\ broken'[k] = broken[k]
           /\ \A k \in Socks : k = link[s] => broken'[k]
           /\ \A k \in Socks : Range(toWorld'[k]) \subseteq Range(toWorld[k])
           /\ \A k \in Socks : toWorld[k] = <<>> => toWorld'[k] = <<>>
           /\ link'[s] \in {Broken, None}
           /\ link' = [link EXCEPT ![s] = link'[s]]
           /\ UNCHANGED <<owner, mGameMap, mProxyMap, mPlayersData, overtaken>>
<1>1. /\ link'[s] \in {Broken, None}
      /\ link' = [link EXCEPT ![s] = link'[s]]
      /\ UNCHANGED <<owner, mGameMap, mProxyMap, mPlayersData, overtaken>>
  BY DEF LinkBreaks, ServerCrashes, TypeOK, tables
<1>2. PICK ks \in SUBSET Socks, also \in SUBSET Roles :
        ks = {link[s]} \cap Socks /\ BreakSockets(ks, also)
  <2>1. CASE LinkBreaks(s)
    <3>1. BreakSockets({link[s]}, {}) /\ {link[s]} = {link[s]} \cap Socks
      BY <2>1 DEF LinkBreaks, Up
    <3>2. {} \in SUBSET Roles
      OBVIOUS
    <3> QED
      BY <3>1, <3>2
  <2>2. CASE ServerCrashes(s)
    <3>1. {r \in Roles : s \in place[r]} \in SUBSET Roles
      OBVIOUS
    <3> QED
      BY <2>2, <3>1 DEF ServerCrashes
  <2> QED
    BY <2>1, <2>2
<1>3. \A k \in Socks : k \in ks <=> k = link[s]
  BY <1>2
<1> QED
  BY <1>1, <1>2, <1>3, BreakSocketsType

\* What is told to proxies is about games.
LEMMA SynType ==
    ASSUME TypeOK, NEW ps, NEW proxies, NEW games, SynGameToProxy(ps, proxies, games)
    PROVE  toProxy' \in [Proxies -> SUBSET Games]
BY DEF SynGameToProxy, TypeOK

\* Reports are messages of roles.
LEMMA ReportType ==
    ASSUME TypeOK, NEW g \in Games, NEW r \in Roles,
           NEW m \in {OnlineNotify(r), OfflineNotify(r)}, Report(g, m)
    PROVE  /\ toWorld' \in [Socks -> Seq(Messages)]
           /\ untold' \in SUBSET Roles
           /\ crossed' \in SUBSET Roles
           /\ \A k \in Socks : \/ toWorld'[k] = toWorld[k]
                               \/ Up(g) /\ k = link[g] /\ toWorld'[k] = Append(toWorld[k], m)
<1>0. m = OnlineNotify(r) \/ m = OfflineNotify(r)
  OBVIOUS
<1>1. m \in Messages /\ m.role = r
  <2>1. OnlineNotify(r).role = r /\ OfflineNotify(r).role = r
    BY DEF OnlineNotify, OfflineNotify
  <2> QED
    BY <1>0, <2>1, MessageKinds
<1>2. /\ untold' \in SUBSET Roles
      /\ crossed' \in SUBSET Roles
  BY <1>1 DEF Report, TypeOK
<1>3. CASE Up(g)
  <2>1. toWorld' = [toWorld EXCEPT ![link[g]] = Append(@, m)]
    BY <1>3 DEF Report
  <2>2. link[g] \in Socks
    BY <1>3 DEF Up
  <2>3. toWorld' \in [Socks -> Seq(Messages)]
    BY <1>1, <2>1, <2>2 DEF TypeOK
  <2> QED
    BY <1>2, <1>3, <2>1, <2>2, <2>3 DEF TypeOK
<1>4. CASE ~Up(g)
  BY <1>2, <1>4 DEF Report, TypeOK
<1> QED
  BY <1>3, <1>4

\* Every step keeps the types.
LEMMA TypeStep == TypeOK /\ SocketInv /\ [Next]_vars => TypeOK'
<1> SUFFICES ASSUME TypeOK, SocketInv, [Next]_vars PROVE TypeOK'
  OBVIOUS
<1> USE DEF tables, sockets, causes
<1>1. ASSUME NEW s \in Servers, Register(s) PROVE TypeOK'
  <2>1. PICK k \in Socks : /\ link' = [link EXCEPT ![s] = k]
                           /\ owner' = [owner EXCEPT ![k] = s]
                           /\ toWorld' = [toWorld EXCEPT ![k] = <<Registered>>]
    BY <1>1 DEF Register, TypeOK
  <2>2. <<Registered>> \in Seq(Messages)
    BY MessageKinds
  <2>3. toWorld' \in [Socks -> Seq(Messages)]
    BY <2>1, <2>2 DEF TypeOK
  <2> QED
    BY <1>1, <2>1, <2>3 DEF Register, TypeOK
<1>2. ASSUME NEW s \in Servers, LinkBreaks(s) PROVE TypeOK'
  <2>1. toProxy' \in [Proxies -> SUBSET Games]
    BY <1>2 DEF LinkBreaks, TypeOK
  <2> QED
    BY <1>2, <2>1, ServerBreaks DEF LinkBreaks, TypeOK
<1>3. ASSUME NEW s \in Servers, LinkLost(s) PROVE TypeOK'
  BY <1>3 DEF LinkLost, TypeOK
<1>4. ASSUME NEW s \in Servers, ServerCrashes(s) PROVE TypeOK'
  <2>1. /\ toProxy' \in [Proxies -> SUBSET Games]
        /\ mServers' \in [Proxies -> SUBSET Games]
        /\ place' \in [Roles -> SUBSET Games]
    BY <1>4 DEF ServerCrashes, TypeOK
  <2> QED
    BY <1>4, <2>1, ServerBreaks DEF ServerCrashes, TypeOK
<1>5. ASSUME NEW g \in Games, NEW r \in Roles, SendOnline(g, r) PROVE TypeOK'
  <2>1. Report(g, OnlineNotify(r))
    BY <1>5 DEF SendOnline, TypeOK
  <2>2. /\ toWorld' \in [Socks -> Seq(Messages)]
        /\ untold' \in SUBSET Roles
        /\ crossed' \in SUBSET Roles
    BY <2>1, ReportType
  <2> QED
    BY <1>5, <2>2 DEF SendOnline, TypeOK
<1>6. ASSUME NEW g \in Games, NEW r \in Roles, SendOffline(g, r) PROVE TypeOK'
  <2>1. Report(g, OfflineNotify(r))
    BY <1>6 DEF SendOffline, TypeOK
  <2>2. /\ toWorld' \in [Socks -> Seq(Messages)]
        /\ untold' \in SUBSET Roles
        /\ crossed' \in SUBSET Roles
    BY <2>1, ReportType
  <2> QED
    BY <1>6, <2>2 DEF SendOffline, TypeOK
<1>7. ASSUME NEW p \in Proxies, OnServerInfoProcess(p) PROVE TypeOK'
  BY <1>7 DEF OnServerInfoProcess, TypeOK
<1>8. ASSUME NEW k \in Socks, WorldReads(k) PROVE TypeOK'
  <2> DEFINE m == Head(toWorld[k])
  <2>1. toWorld[k] \in Seq(Messages) /\ toWorld[k] # <<>>
    BY <1>8 DEF WorldReads, TypeOK
  <2>2. m \in Messages /\ m \in Range(toWorld[k]) /\ Tail(toWorld[k]) \in Seq(Messages)
    BY <2>1 DEF Range
  <2>3. toWorld' \in [Socks -> Seq(Messages)]
    BY <1>8, <2>2 DEF WorldReads, TypeOK
  <2>4. UNCHANGED <<link, owner, broken, mServers, place, untold, crossed, cleared>>
    BY <1>8 DEF WorldReads
  <2>5. owner[k] \in Servers
    BY <2>1 DEF SocketInv, FreeSockets, TypeOK
  <2>6. m # Registered => owner[k] \in Games /\ m.role \in Roles
    BY <2>2, <2>5, MessageKinds DEF SocketInv, ProxiesOnlyRegister, Servers
  <2> HIDE DEF m
  <2>7. ASSUME m = Registered /\ owner[k] \in Games /\ OnGameServerRegisteredProcess(k) PROVE TypesOfTables'
    <3>1. toProxy' \in [Proxies -> SUBSET Games]
      BY <2>7, SynType DEF OnGameServerRegisteredProcess
    <3>2. mGameMap' \in [Games -> {Gone} \cup
                        [nFD : Socks \cup {None}, state : {"EST_NARMAL", "EST_CRASH"}]]
      BY <2>7 DEF OnGameServerRegisteredProcess, TypeOK
    <3> QED
      BY <2>7, <3>1, <3>2 DEF OnGameServerRegisteredProcess, TypeOK, TypesOfTables
  <2>8. ASSUME m = Registered /\ owner[k] \notin Games /\ OnProxyServerRegisteredProcess(k) PROVE TypesOfTables'
    BY <2>8, SynType DEF OnProxyServerRegisteredProcess, TypeOK, TypesOfTables
  <2>9. ASSUME m # Registered /\ OnOnlineProcess(k, m.role) PROVE TypesOfTables'
    BY <2>6, <2>9 DEF OnOnlineProcess, TypeOK, TypesOfTables
  <2>10. ASSUME m # Registered /\ OnOfflineProcess(m.role) PROVE TypesOfTables'
    BY <2>6, <2>10 DEF OnOfflineProcess, TypeOK, TypesOfTables
  <2>11. TypesOfTables'
    <3>1. m.type \in {"online", "offline"} => m # Registered
      BY DEF Registered
    <3> QED
      BY <1>8, <2>7, <2>8, <2>9, <2>10, <3>1 DEF WorldReads, m
  <2>12. overtaken' \in SUBSET Servers
    BY <1>8, <2>5 DEF WorldReads, TypeOK
  <2> QED
    BY <2>3, <2>4, <2>11, <2>12 DEF TypeOK, TypesOfTables
<1>9. ASSUME NEW k \in Socks, SocketCloses(k) PROVE TypeOK'
  <2>1. /\ mGameMap' \in [Games -> {Gone} \cup
                        [nFD : Socks \cup {None}, state : {"EST_NARMAL", "EST_CRASH"}]]
        /\ mProxyMap' \in [Proxies -> Socks \cup {None}]
    BY <1>9 DEF SocketCloses, OnClientDisconnect, TypeOK
  <2>2. toProxy' \in [Proxies -> SUBSET Games]
    BY <1>9, SynType DEF SocketCloses, OnClientDisconnect, TypeOK
  <2> QED
    BY <1>9, <2>1, <2>2 DEF SocketCloses, TypeOK
<1>10. CASE Execute
  BY <1>10, SynType DEF Execute, TypeOK
<1>11. CASE WorldRestarts
  BY <1>11 DEF WorldRestarts, TypeOK
<1>12. CASE UNCHANGED vars
  BY <1>12 DEF vars, TypeOK
<1> QED
  BY <1>1, <1>2, <1>3, <1>4, <1>5, <1>6, <1>7, <1>8, <1>9, <1>10, <1>11, <1>12 DEF Next

-------------------------------------------------------------------------------
(* Sockets. *)

\* Every step keeps the two ends of the sockets in step.
LEMMA SocketStep == TypeOK /\ SocketInv /\ [Next]_vars => SocketInv'
<1> SUFFICES ASSUME TypeOK, SocketInv, [Next]_vars PROVE SocketInv'
  OBVIOUS
<1>0. LinksMatch /\ FreeSockets /\ ProxiesOnlyRegister
  BY DEF SocketInv
<1>1. ASSUME NEW s \in Servers, Register(s) PROVE SocketInv'
  <2>1. PICK k \in Socks : /\ owner[k] = None
                           /\ link' = [link EXCEPT ![s] = k]
                           /\ owner' = [owner EXCEPT ![k] = s]
                           /\ toWorld' = [toWorld EXCEPT ![k] = <<Registered>>]
    BY <1>1 DEF Register
  <2>2. link[s] = None /\ broken' = broken
    BY <1>1 DEF Register
  <2>3. LinksMatch'
    BY <1>0, <2>1, <2>2, NamesAssumption DEF LinksMatch, FreeSockets, TypeOK
  <2>4. FreeSockets'
    BY <1>0, <2>1, <2>2, NamesAssumption DEF FreeSockets, TypeOK
  <2>5. \A m \in Range(<<Registered>>) : m = Registered
    BY DEF Range
  <2>6. ProxiesOnlyRegister'
    BY <1>0, <2>1, <2>5 DEF ProxiesOnlyRegister, TypeOK
  <2> QED
    BY <2>3, <2>4, <2>6 DEF SocketInv
<1>2. ASSUME NEW s \in Servers, LinkBreaks(s) \/ ServerCrashes(s) PROVE SocketInv'
  <2>1. FreeSockets' /\ ProxiesOnlyRegister'
    <3>1. \A k \in Socks : owner[k] = None => link[s] # k
      BY <1>0, NamesAssumption DEF LinksMatch
    <3>2. /\ owner' = owner
          /\ \A k \in Socks : k # link[s] => toWorld'[k] = toWorld[k] /\ broken'[k] = broken[k]
          /\ \A k \in Socks : Range(toWorld'[k]) \subseteq Range(toWorld[k])
      BY <1>2, ServerBreaks
    <3>3. ASSUME NEW k \in Socks, owner'[k] = None PROVE ~broken'[k] /\ toWorld'[k] = <<>>
      <4>1. owner[k] = None /\ toWorld'[k] = toWorld[k] /\ broken'[k] = broken[k]
        BY <3>1, <3>2, <3>3
      <4> QED
        BY <1>0, <4>1 DEF FreeSockets
    <3>4. ASSUME NEW k \in Socks, owner'[k] \in Proxies, NEW m \in Range(toWorld'[k])
          PROVE  m = Registered
      <4>1. m \in Range(toWorld[k]) /\ owner[k] \in Proxies
        BY <3>2, <3>4
      <4> QED
        BY <1>0, <4>1 DEF ProxiesOnlyRegister
    <3> QED
      BY <3>3, <3>4 DEF FreeSockets, ProxiesOnlyRegister
  <2>2. \A k \in Socks : link'[s] # k
    BY <1>2, ServerBreaks, NamesAssumption
  <2>3. LinksMatch'
    <3>1. /\ \A t \in Servers : t # s => link'[t] = link[t]
          /\ \A k \in Socks : /\ k # link[s] => broken'[k] = broken[k]
                              /\ k = link[s] => broken'[k]
          /\ owner' = owner
      BY <1>2, ServerBreaks DEF TypeOK
    <3> QED
      BY <1>0, <2>2, <3>1 DEF LinksMatch
  <2> QED
    BY <2>1, <2>3 DEF SocketInv
<1>3. ASSUME NEW s \in Servers, LinkLost(s) PROVE SocketInv'
  <2>1. /\ \A t \in Servers : t # s => link'[t] = link[t]
        /\ link[s] = Broken /\ link'[s] = None
        /\ UNCHANGED <<owner, broken, toWorld>>
    BY <1>3 DEF LinkLost, TypeOK
  <2>2. LinksMatch'
    BY <1>0, <2>1, NamesAssumption DEF LinksMatch
  <2> QED
    BY <1>0, <2>1, <2>2 DEF SocketInv, FreeSockets, ProxiesOnlyRegister
<1>4. ASSUME NEW g \in Games, NEW r \in Roles,
             SendOnline(g, r) \/ SendOffline(g, r)
      PROVE  SocketInv'
  <2>1. PICK m \in {OnlineNotify(r), OfflineNotify(r)} : Report(g, m)
    BY <1>4 DEF SendOnline, SendOffline
  <2>2. UNCHANGED <<link, owner, broken>>
    BY <1>4 DEF SendOnline, SendOffline
  <2>3. \A k \in Socks : toWorld'[k] # toWorld[k] => owner[k] = g
    BY <1>0, <2>1, ReportType DEF LinksMatch, Up, Servers
  <2>4. g \notin Proxies /\ g # None
    BY ServersAssumption, NamesAssumption DEF Servers
  <2>5. LinksMatch'
    BY <1>0, <2>2 DEF LinksMatch
  <2>6. FreeSockets'
    BY <1>0, <2>2, <2>3, <2>4 DEF FreeSockets
  <2>7. ProxiesOnlyRegister'
    BY <1>0, <2>2, <2>3, <2>4 DEF ProxiesOnlyRegister
  <2> QED
    BY <2>5, <2>6, <2>7 DEF SocketInv
<1>5. ASSUME NEW p \in Proxies, OnServerInfoProcess(p) PROVE SocketInv'
  BY <1>0, <1>5 DEF OnServerInfoProcess, SocketInv, LinksMatch, FreeSockets, ProxiesOnlyRegister
<1>6. ASSUME NEW k \in Socks, WorldReads(k) PROVE SocketInv'
  <2>1. /\ UNCHANGED <<link, owner, broken>>
        /\ toWorld' = [toWorld EXCEPT ![k] = Tail(@)]
        /\ toWorld[k] # <<>>
    BY <1>6 DEF WorldReads
  <2>2. Range(Tail(toWorld[k])) \subseteq Range(toWorld[k])
    <3> DEFINE q == toWorld[k]
    <3>1. q \in Seq(Messages) /\ q # <<>>
      BY <2>1 DEF TypeOK
    <3> HIDE DEF q
    <3>2. \A i \in DOMAIN Tail(q) : i + 1 \in DOMAIN q /\ Tail(q)[i] = q[i + 1]
      BY <3>1
    <3>3. Range(Tail(q)) \subseteq Range(q)
      BY <3>2 DEF Range
    <3> QED
      BY <3>3 DEF q
  <2>3. LinksMatch'
    BY <1>0, <2>1 DEF LinksMatch
  <2>4. FreeSockets'
    BY <1>0, <2>1 DEF FreeSockets, TypeOK
  <2>5. ProxiesOnlyRegister'
    BY <1>0, <2>1, <2>2 DEF ProxiesOnlyRegister, TypeOK
  <2> QED
    BY <2>3, <2>4, <2>5 DEF SocketInv
<1>7. ASSUME NEW k \in Socks, SocketCloses(k) PROVE SocketInv'
  <2>1. /\ owner' = [owner EXCEPT ![k] = None]
        /\ broken' = [broken EXCEPT ![k] = FALSE]
        /\ broken[k]
        /\ UNCHANGED <<link, toWorld>>
        /\ toWorld[k] = <<>>
    BY <1>7 DEF SocketCloses
  <2>2. \A j \in Socks : IF j = k THEN owner'[j] = None /\ ~broken'[j]
                         ELSE owner'[j] = owner[j] /\ broken'[j] = broken[j]
    BY <2>1 DEF TypeOK
  <2>3. None \notin Servers
    BY NamesAssumption
  <2>4. LinksMatch'
    BY <1>0, <2>1, <2>2, <2>3 DEF LinksMatch
  <2>5. FreeSockets'
    BY <1>0, <2>1, <2>2 DEF FreeSockets
  <2>6. ProxiesOnlyRegister'
    BY <1>0, <2>1, <2>2, <2>3 DEF ProxiesOnlyRegister, Servers
  <2> QED
    BY <2>4, <2>5, <2>6 DEF SocketInv
<1>8. CASE Execute
  BY <1>0, <1>8 DEF Execute, SocketInv, LinksMatch, FreeSockets, ProxiesOnlyRegister
<1>9. CASE WorldRestarts
  <2>1. LinksMatch'
    BY <1>9, NamesAssumption DEF WorldRestarts, Up, TypeOK, LinksMatch
  <2>2. FreeSockets' /\ ProxiesOnlyRegister'
    BY <1>9, NamesAssumption DEF WorldRestarts, Servers, FreeSockets, ProxiesOnlyRegister
  <2> QED
    BY <2>1, <2>2 DEF SocketInv
<1>10. CASE UNCHANGED vars
  BY <1>0, <1>10 DEF vars, sockets, SocketInv, LinksMatch, FreeSockets, ProxiesOnlyRegister
<1>11. ASSUME NEW g \in Games, NEW r \in Roles, SendOffline(g, r) PROVE SocketInv'
  BY <1>4, <1>11
<1>12. ASSUME NEW g \in Games, NEW r \in Roles, SendOnline(g, r) PROVE SocketInv'
  BY <1>4, <1>12
<1>13. ASSUME NEW s \in Servers, LinkBreaks(s) PROVE SocketInv'
  BY <1>2, <1>13
<1>14. ASSUME NEW s \in Servers, ServerCrashes(s) PROVE SocketInv'
  BY <1>2, <1>14
<1> QED
  BY <1>1, <1>3, <1>5, <1>6, <1>7, <1>8, <1>9, <1>10, <1>11, <1>12, <1>13, <1>14 DEF Next

-------------------------------------------------------------------------------
(* The tables of the world server. *)

\* The entry of a game server, or of a proxy, and how it should be.
Entry(s) == IF s \in Games THEN mGameMap[s].nFD ELSE mProxyMap[s]
Listed(s) == IF s \in Games THEN mGameMap[s] = [nFD |-> link[s], state |-> "EST_NARMAL"]
             ELSE mProxyMap[s] = link[s]

\* The two properties, in terms of these, before a step and after it.
LEMMA ByServer ==
    /\ SocketsAreTheirs <=> \A s \in Servers : Entry(s) # None => owner[Entry(s)] = s
    /\ SocketsAreTheirs' <=> \A s \in Servers : Entry(s)' # None => owner'[Entry(s)'] = s
    /\ RegisteredServersStay <=>
         \A s \in Servers \ overtaken :
             link[s] \in Socks /\ Registered \notin Range(toWorld[link[s]]) => Listed(s)
    /\ RegisteredServersStay' <=>
         \A s \in Servers \ overtaken' :
             link'[s] \in Socks /\ Registered \notin Range(toWorld'[link'[s]]) => Listed(s)'
<1>1. \A s \in Games : s \in Servers
  BY DEF Servers
<1>2. \A s \in Proxies : s \in Servers /\ s \notin Games
  BY ServersAssumption DEF Servers
<1>3. \A s \in Servers : s \in Games \/ s \in Proxies
  BY DEF Servers
<1>4. SocketsAreTheirs <=> \A s \in Servers : Entry(s) # None => owner[Entry(s)] = s
  BY <1>1, <1>2, <1>3 DEF SocketsAreTheirs, Entry
<1>5. SocketsAreTheirs' <=> \A s \in Servers : Entry(s)' # None => owner'[Entry(s)'] = s
  BY <1>1, <1>2, <1>3 DEF SocketsAreTheirs, Entry
<1> QED
  BY <1>4, <1>5 DEF RegisteredServersStay, Listed, Up

\* Steps that leave the tables alone keep both as long as sockets keep their owners
\* and no registration is taken away unread from a link that is up.
LEMMA TablesKept ==
    ASSUME Inv, UNCHANGED <<mGameMap, mProxyMap, overtaken>>,
           \A k \in Socks : owner[k] # None => owner'[k] = owner[k],
           \A s \in Servers : link'[s] \in Socks =>
              \/ Registered \in Range(toWorld'[link'[s]])
              \/ link'[s] = link[s]
                 /\ (Registered \in Range(toWorld[link[s]])
                        => Registered \in Range(toWorld'[link[s]]))
    PROVE  SocketsAreTheirs' /\ RegisteredServersStay'
<1>1. ASSUME NEW s \in Servers
      PROVE  Entry(s) \in Socks \cup {None}
  <2>1. Gone.nFD = None
    BY DEF Gone
  <2>2. mGameMap \in [Games -> {Gone} \cup
                        [nFD : Socks \cup {None}, state : {"EST_NARMAL", "EST_CRASH"}]]
        /\ mProxyMap \in [Proxies -> Socks \cup {None}]
    BY DEF Inv, TypeOK
  <2> QED
    BY <2>1, <2>2 DEF Entry, Servers
<1>2. None \notin Servers
  BY NamesAssumption
<1>3. \A s \in Servers : Entry(s) # None => owner[Entry(s)] = s
  BY ByServer DEF Inv
<1>4. \A s \in Servers : Entry(s)' = Entry(s)
  BY DEF Entry
<1>5. \A s \in Servers : Entry(s)' # None => owner'[Entry(s)'] = s
  BY <1>1, <1>2, <1>3, <1>4
<1>6. \A s \in Servers \ overtaken :
         link[s] \in Socks /\ Registered \notin Range(toWorld[link[s]]) => Listed(s)
  BY ByServer DEF Inv
<1>7. \A s \in Servers : link'[s] = link[s] => (Listed(s)' <=> Listed(s))
  BY DEF Listed
<1>8. ASSUME NEW s \in Servers \ overtaken',
             link'[s] \in Socks, Registered \notin Range(toWorld'[link'[s]])
      PROVE  Listed(s)'
  BY <1>6, <1>7, <1>8
<1>9. SocketsAreTheirs'
  BY <1>5, ByServer
<1>10. RegisteredServersStay'
  BY <1>8, ByServer
<1> QED
  BY <1>9, <1>10

\* A registration puts its server's socket into the table.
LEMMA TablesOfRegistration ==
    ASSUME Inv, NEW k \in Socks, WorldReads(k), Head(toWorld[k]) = Registered
    PROVE  SocketsAreTheirs' /\ RegisteredServersStay'
<1> DEFINE o == owner[k]
<1>1. o \in Servers
  BY DEF WorldReads, Inv, SocketInv, FreeSockets, TypeOK
<1>2. /\ UNCHANGED <<link, owner, broken>>
      /\ toWorld' = [toWorld EXCEPT ![k] = Tail(@)]
      /\ overtaken' = IF broken[k] THEN overtaken \cup {o} ELSE overtaken \ {o}
      /\ IF o \in Games THEN OnGameServerRegisteredProcess(k)
                        ELSE OnProxyServerRegisteredProcess(k)
  BY DEF WorldReads, Registered
<1>3. \A s \in Servers : s # o => Entry(s)' = Entry(s) /\ (Listed(s)' <=> Listed(s))
  BY <1>1, <1>2 DEF Entry, Listed, Servers, OnGameServerRegisteredProcess,
     OnProxyServerRegisteredProcess, Inv, TypeOK
<1>4. Entry(o)' = k /\ (link[o] = k => Listed(o)')
  BY <1>1, <1>2 DEF Entry, Listed, Servers, OnGameServerRegisteredProcess,
     OnProxyServerRegisteredProcess, Inv, TypeOK
<1>5. SocketsAreTheirs'
  <2>1. \A s \in Servers : Entry(s)' # None => owner'[Entry(s)'] = s
    BY <1>2, <1>3, <1>4, ByServer DEF Inv
  <2> QED
    BY <2>1, ByServer
<1>6. ASSUME NEW s \in Servers \ overtaken',
             link'[s] \in Socks, Registered \notin Range(toWorld'[link'[s]])
      PROVE  Listed(s)'
  <2>1. CASE s = o
    BY <1>1, <1>2, <1>4, <1>6, <2>1 DEF Inv, SocketInv, LinksMatch
  <2>2. CASE s # o
    <3>1. link[s] # k /\ toWorld'[link[s]] = toWorld[link[s]]
      BY <1>2, <1>6, <2>2 DEF Inv, SocketInv, LinksMatch, TypeOK
    <3>2. s \notin overtaken
      BY <1>2, <1>6, <2>2
    <3>3. Listed(s)
      BY <1>2, <1>6, <3>1, <3>2, ByServer DEF Inv
    <3> QED
      BY <1>3, <2>2, <3>3
  <2> QED
    BY <2>1, <2>2
<1> QED
  BY <1>5, <1>6, ByServer

\* A socket that closes is taken out of the table of the server that had it, and no
\* server whose link is up has it.
LEMMA TablesOfClose ==
    ASSUME Inv, NEW k \in Socks, SocketCloses(k)
    PROVE  SocketsAreTheirs' /\ RegisteredServersStay'
<1>1. /\ broken[k]
      /\ owner' = [owner EXCEPT ![k] = None]
      /\ UNCHANGED <<link, toWorld, overtaken>>
      /\ mGameMap' = [g \in Games |-> IF mGameMap[g].nFD = k
                                      THEN [nFD |-> None, state |-> "EST_CRASH"] ELSE mGameMap[g]]
      /\ mProxyMap' = [p \in Proxies |-> IF mProxyMap[p] = k THEN None ELSE mProxyMap[p]]
  BY DEF SocketCloses, OnClientDisconnect, DisconnectedGames, causes
<1>2. ASSUME NEW s \in Servers
      PROVE  IF Entry(s) = k THEN Entry(s)' = None
             ELSE Entry(s)' = Entry(s) /\ (Listed(s)' <=> Listed(s))
  BY <1>1, ServersAssumption DEF Entry, Listed, Servers
<1>3. ASSUME NEW s \in Servers, Entry(s)' # None PROVE owner'[Entry(s)'] = s
  <2>1. Entry(s) # k /\ Entry(s)' = Entry(s)
    BY <1>2, <1>3
  <2>2. owner[Entry(s)] = s
    BY <1>3, <2>1, ByServer DEF Inv
  <2> QED
    BY <1>1, <2>1, <2>2 DEF Inv, TypeOK
<1>4. ASSUME NEW s \in Servers \ overtaken',
             link'[s] \in Socks, Registered \notin Range(toWorld'[link'[s]])
      PROVE  Listed(s)'
  <2>1. Listed(s)
    BY <1>1, <1>4, ByServer DEF Inv
  <2>2. Entry(s) # k
    BY <1>1, <1>4, <2>1 DEF Listed, Entry, Inv, SocketInv, LinksMatch
  <2> QED
    BY <1>2, <2>1, <2>2
<1> QED
  BY <1>3, <1>4, ByServer

\* Every step keeps both.
LEMMA TableStep == Inv /\ [Next]_vars => SocketsAreTheirs' /\ RegisteredServersStay'
<1> SUFFICES ASSUME Inv, [Next]_vars PROVE SocketsAreTheirs' /\ RegisteredServersStay'
  OBVIOUS
<1> DEFINE Kept == SocketsAreTheirs' /\ RegisteredServersStay'
<1>0. TypeOK /\ LinksMatch /\ FreeSockets
  BY DEF Inv, SocketInv
<1>1. ASSUME NEW s \in Servers, Register(s) PROVE Kept
  <2>1. PICK k \in Socks : /\ owner[k] = None
                           /\ link' = [link EXCEPT ![s] = k]
                           /\ owner' = [owner EXCEPT ![k] = s]
                           /\ toWorld' = [toWorld EXCEPT ![k] = <<Registered>>]
    BY <1>1 DEF Register
  <2>2. Registered \in Range(<<Registered>>)
    BY DEF Range
  <2>3. \A t \in Servers : t # s /\ link[t] \in Socks => link[t] # k
    BY <1>0, <2>1, NamesAssumption DEF LinksMatch
  <2>4. UNCHANGED <<mGameMap, mProxyMap, overtaken>>
    BY <1>1 DEF Register, tables, causes
  <2>5. \A j \in Socks : owner[j] # None => owner'[j] = owner[j]
    BY <1>0, <2>1 DEF TypeOK
  <2>6. \A t \in Servers : link'[t] \in Socks =>
              \/ Registered \in Range(toWorld'[link'[t]])
              \/ link'[t] = link[t]
                 /\ (Registered \in Range(toWorld[link[t]])
                        => Registered \in Range(toWorld'[link'[t]]))
    BY <1>0, <2>1, <2>2, <2>3 DEF TypeOK
  <2> QED
    BY <2>4, <2>5, <2>6, TablesKept
<1>2. ASSUME NEW s \in Servers, LinkBreaks(s) \/ ServerCrashes(s) PROVE Kept
  <2>1. \A t \in Servers : t # s => link'[t] = link[t]
    BY <1>0, <1>2, ServerBreaks DEF TypeOK
  <2>2. link'[s] \notin Socks
    BY <1>0, <1>2, ServerBreaks, NamesAssumption
  <2>3. \A t \in Servers : t # s /\ link[t] \in Socks => link[t] # link[s]
    BY <1>0 DEF LinksMatch
  <2>4. \A t \in Servers : link'[t] \in Socks =>
              link'[t] = link[t] /\ toWorld'[link[t]] = toWorld[link[t]]
    BY <1>0, <1>2, <2>1, <2>2, <2>3, ServerBreaks
  <2>5. UNCHANGED <<owner, mGameMap, mProxyMap, overtaken>>
    BY <1>0, <1>2, ServerBreaks
  <2> QED
    BY <2>4, <2>5, TablesKept
<1>3. ASSUME NEW s \in Servers, LinkLost(s) PROVE Kept
  <2>1. UNCHANGED <<owner, toWorld, mGameMap, mProxyMap, overtaken>>
    BY <1>3 DEF LinkLost, tables, causes
  <2>2. \A t \in Servers : link'[t] \in Socks => link'[t] = link[t]
    BY <1>0, <1>3, NamesAssumption DEF LinkLost, TypeOK
  <2> QED
    BY <2>1, <2>2, TablesKept
<1>4. ASSUME NEW g \in Games, NEW r \in Roles,
             SendOnline(g, r) \/ SendOffline(g, r)
      PROVE  Kept
  <2>1. PICK m \in {OnlineNotify(r), OfflineNotify(r)} : Report(g, m)
    BY <1>4 DEF SendOnline, SendOffline
  <2>2. UNCHANGED <<link, owner, mGameMap, mProxyMap, overtaken>>
    BY <1>4 DEF SendOnline, SendOffline, tables
  <2>3. m \in Messages
    BY MessageKinds
  <2>4. ASSUME NEW k \in Socks PROVE Range(toWorld[k]) \subseteq Range(toWorld'[k])
    <3>1. toWorld[k] \in Seq(Messages)
      BY <1>0 DEF TypeOK
    <3>2. Range(toWorld[k]) \subseteq Range(Append(toWorld[k], m))
      BY <2>3, <3>1, RangeAppend
    <3>3. toWorld'[k] = toWorld[k] \/ toWorld'[k] = Append(toWorld[k], m)
      BY <1>0, <2>1, ReportType
    <3> QED
      BY <3>2, <3>3
  <2> QED
    BY <2>2, <2>4, TablesKept
<1>5. ASSUME NEW p \in Proxies, OnServerInfoProcess(p) PROVE Kept
  <2>1. UNCHANGED <<link, owner, toWorld, mGameMap, mProxyMap, overtaken>>
    BY <1>5 DEF OnServerInfoProcess, tables, causes
  <2> QED
    BY <2>1, TablesKept
<1>6. ASSUME NEW k \in Socks, WorldReads(k) PROVE Kept
  <2> DEFINE m == Head(toWorld[k])
  <2>1. CASE m = Registered
    BY <1>6, <2>1, TablesOfRegistration
  <2>2. CASE m # Registered
    <3>1. UNCHANGED <<link, owner, mGameMap, mProxyMap, overtaken>>
      BY <1>6, <2>2 DEF WorldReads, OnOnlineProcess, OnOfflineProcess
    <3>2. \A j \in Socks : Registered \in Range(toWorld[j]) => Registered \in Range(toWorld'[j])
      <4>1. toWorld[k] \in Seq(Messages) /\ toWorld[k] # <<>>
        BY <1>0, <1>6 DEF WorldReads, TypeOK
      <4>2. toWorld' = [toWorld EXCEPT ![k] = Tail(@)]
        BY <1>6 DEF WorldReads
      <4> QED
        BY <1>0, <2>2, <4>1, <4>2, RangeTail DEF TypeOK
    <3> QED
      BY <3>1, <3>2, TablesKept
  <2> QED
    BY <2>1, <2>2
<1>7. ASSUME NEW k \in Socks, SocketCloses(k) PROVE Kept
  BY <1>7, TablesOfClose
<1>8. CASE Execute
  <2>1. UNCHANGED <<link, owner, toWorld, mGameMap, mProxyMap, overtaken>>
    BY <1>8 DEF Execute, tables, causes
  <2> QED
    BY <2>1, TablesKept
<1>9. CASE WorldRestarts
  <2>1. /\ \A g \in Games : mGameMap'[g] = Gone
        /\ \A p \in Proxies : mProxyMap'[p] = None
        /\ \A s \in Servers : link'[s] \notin Socks
    BY <1>9, NamesAssumption DEF WorldRestarts, Up
  <2>2. Gone.nFD = None
    BY DEF Gone
  <2> QED
    BY <2>1, <2>2 DEF SocketsAreTheirs, RegisteredServersStay, Up
<1>10. CASE UNCHANGED vars
  <2>1. UNCHANGED <<link, owner, toWorld, mGameMap, mProxyMap, overtaken>>
    BY <1>10 DEF vars, sockets, tables, causes
  <2> QED
    BY <2>1, TablesKept
<1>11. ASSUME NEW g \in Games, NEW r \in Roles, SendOffline(g, r) PROVE Kept
  BY <1>4, <1>11
<1>12. ASSUME NEW g \in Games, NEW r \in Roles, SendOnline(g, r) PROVE Kept
  BY <1>4, <1>12
<1>13. ASSUME NEW s \in Servers, LinkBreaks(s) PROVE Kept
  BY <1>2, <1>13
<1>14. ASSUME NEW s \in Servers, ServerCrashes(s) PROVE Kept
  BY <1>2, <1>14
<1> QED
  BY <1>1, <1>3, <1>5, <1>6, <1>7, <1>8, <1>9, <1>10, <1>11, <1>12, <1>13, <1>14 DEF Next

-------------------------------------------------------------------------------
(* Where the roles are. *)

\* Message i of q is the last one about r, and what a message from server o says.
IsLast(q, r, i) == /\ i \in DOMAIN q /\ q[i].role = r
                   /\ \A j \in DOMAIN q : q[j].role = r => j <= i
Leaves(m, o) == IF m.type = "online" THEN o ELSE None

\* Reports of a role are under way on one socket only; the last of them leaves the
\* world server with what it should have, and when there are none it has it.
RoleFollowed(r) ==
    /\ \A j, k \in Socks : r \in RolesIn(toWorld[j]) /\ r \in RolesIn(toWorld[k]) => j = k
    /\ \A k \in Socks : \A i \in DOMAIN toWorld[k] :
           IsLast(toWorld[k], r, i) => Leaves(toWorld[k][i], owner[k]) \in Places(r)
    /\ ~UnderWay(r) => mPlayersData[r] \in Places(r)

RolesFollowed == \A r \in Roles \ (untold \cup crossed) : RoleFollowed(r)

\* The last message about r in the messages p was that in q.
SameLast(q, p, r) ==
    /\ r \in RolesIn(q) <=> r \in RolesIn(p)
    /\ \A i \in DOMAIN p : IsLast(p, r, i) =>
           \E j \in DOMAIN q : IsLast(q, r, j) /\ p[i] = q[j]

\* A role that messages are about is the role of one of them.
LEMMA RoleInMessages ==
    ASSUME NEW q \in Seq(Messages), NEW r \in Roles
    PROVE  r \in RolesIn(q) <=> \E i \in DOMAIN q : q[i].role = r
BY NamesAssumption DEF RolesIn, Range

\* A further message is the last one about its role, and of no account to others.
LEMMA LastOfAppend ==
    ASSUME NEW q \in Seq(Messages), NEW m \in Messages, NEW r \in Roles
    PROVE  /\ m.role # r => SameLast(q, Append(q, m), r)
           /\ m.role = r => /\ r \in RolesIn(Append(q, m))
                            /\ \A i \in DOMAIN Append(q, m) :
                                   IsLast(Append(q, m), r, i) => Append(q, m)[i] = m
<1> DEFINE p == Append(q, m)
<1>1. /\ p \in Seq(Messages) /\ Len(p) = Len(q) + 1 /\ p[Len(p)] = m
      /\ DOMAIN p = 1 .. Len(q) + 1 /\ DOMAIN q = 1 .. Len(q) /\ Len(q) \in Nat
      /\ \A i \in DOMAIN q : p[i] = q[i]
  OBVIOUS
<1> HIDE DEF p
<1>2. ASSUME m.role # r PROVE SameLast(q, p, r)
  <2>1. \A i \in DOMAIN p : p[i].role = r => i \in DOMAIN q /\ p[i] = q[i]
    BY <1>1, <1>2
  <2>2. r \in RolesIn(q) <=> r \in RolesIn(p)
    BY <1>1, <2>1, RoleInMessages
  <2>3. \A i \in DOMAIN p : IsLast(p, r, i) => IsLast(q, r, i) /\ p[i] = q[i]
    BY <1>1, <2>1 DEF IsLast
  <2> QED
    BY <2>1, <2>2, <2>3 DEF SameLast, IsLast
<1>3. ASSUME m.role = r
      PROVE  r \in RolesIn(p) /\ \A i \in DOMAIN p : IsLast(p, r, i) => p[i] = m
  <2>1. r \in RolesIn(p)
    BY <1>1, <1>3, RoleInMessages
  <2>2. \A i \in DOMAIN p : IsLast(p, r, i) => i = Len(p)
    BY <1>1, <1>3 DEF IsLast
  <2> QED
    BY <1>1, <2>1, <2>2
<1> QED
  BY <1>2, <1>3 DEF p

\* What is read was the last message about its role if none is left, and taking it
\* leaves the last message as it was if one is.
LEMMA LastOfTail ==
    ASSUME NEW q \in Seq(Messages), q # <<>>, NEW r \in Roles
    PROVE  /\ Head(q).role # r => SameLast(q, Tail(q), r)
           /\ Head(q).role = r =>
                  /\ r \in RolesIn(q)
                  /\ r \notin RolesIn(Tail(q)) => IsLast(q, r, 1) /\ q[1] = Head(q)
           /\ \A i \in DOMAIN Tail(q) : IsLast(Tail(q), r, i) =>
                  \E j \in DOMAIN q : IsLast(q, r, j) /\ Tail(q)[i] = q[j]
           /\ r \in RolesIn(Tail(q)) => r \in RolesIn(q)
<1> DEFINE p == Tail(q)
<1>1. /\ p \in Seq(Messages) /\ DOMAIN p = 1 .. Len(q) - 1 /\ DOMAIN q = 1 .. Len(q)
      /\ Len(q) \in Nat /\ Len(q) > 0 /\ Head(q) = q[1]
      /\ \A i \in DOMAIN p : p[i] = q[i + 1]
  OBVIOUS
<1> HIDE DEF p
<1>2. \A i \in DOMAIN q : i = 1 \/ (i - 1 \in DOMAIN p /\ p[i - 1] = q[i])
  BY <1>1
<1>3. \A i \in DOMAIN p : i + 1 \in DOMAIN q /\ p[i] = q[i + 1]
  BY <1>1
<1>4. r \in RolesIn(p) => r \in RolesIn(q)
  BY <1>1, <1>3, RoleInMessages
<1>5. ASSUME NEW i \in DOMAIN p, IsLast(p, r, i) PROVE IsLast(q, r, i + 1)
  <2>1. i \in Nat /\ \A j \in DOMAIN p : p[j].role = r => j <= i
    BY <1>1, <1>5 DEF IsLast
  <2>2. ASSUME NEW j \in DOMAIN q, q[j].role = r PROVE j <= i + 1
    <3>1. CASE j = 1
      BY <2>1, <3>1
    <3>2. CASE j # 1
      <4>1. j - 1 \in DOMAIN p /\ p[j - 1].role = r
        BY <1>2, <2>2, <3>2
      <4>2. j - 1 <= i /\ j \in Int
        BY <1>1, <2>1, <4>1
      <4> QED
        BY <2>1, <4>2
    <3> QED
      BY <3>1, <3>2
  <2> QED
    BY <1>3, <1>5, <2>2 DEF IsLast
<1>6. \A i \in DOMAIN p : IsLast(p, r, i) => \E j \in DOMAIN q : IsLast(q, r, j) /\ p[i] = q[j]
  BY <1>3, <1>5
<1>7. ASSUME Head(q).role # r PROVE SameLast(q, p, r)
  <2>1. r \in RolesIn(q) => r \in RolesIn(p)
    BY <1>1, <1>2, <1>7, RoleInMessages
  <2> QED
    BY <1>4, <1>6, <2>1 DEF SameLast
<1>8. ASSUME Head(q).role = r
      PROVE  /\ r \in RolesIn(q)
             /\ r \notin RolesIn(p) => IsLast(q, r, 1) /\ q[1] = Head(q)
  <2>1. r \in RolesIn(q)
    BY <1>1, <1>8, RoleInMessages
  <2>2. ASSUME r \notin RolesIn(p) PROVE IsLast(q, r, 1)
    <3>1. \A i \in DOMAIN q : q[i].role = r => i = 1
      BY <1>1, <1>2, <2>2, RoleInMessages
    <3> QED
      BY <1>1, <1>8, <3>1 DEF IsLast
  <2> QED
    BY <1>1, <2>1, <2>2
<1> QED
  BY <1>4, <1>6, <1>7, <1>8 DEF p

\* What arrives ends with the last message about a role if none about it is lost.
LEMMA LastOfArrived ==
    ASSUME NEW q \in Seq(Messages), NEW p \in Arrives(q), NEW r \in Roles,
           r \notin RolesIn(SubSeq(q, Len(p) + 1, Len(q)))
    PROVE  SameLast(q, p, r)
<1>1. PICK n \in 0 .. Len(q) : p = SubSeq(q, 1, n)
  BY DEF Arrives
<1>2. /\ p \in Seq(Messages) /\ Len(p) = n /\ DOMAIN p = 1 .. n /\ DOMAIN q = 1 .. Len(q)
      /\ Len(q) \in Nat /\ n \in Nat /\ n <= Len(q)
      /\ \A i \in 1 .. n : p[i] = q[i]
  BY <1>1
<1>3. PICK lost : lost = SubSeq(q, n + 1, Len(q))
  OBVIOUS
<1>4. /\ lost \in Seq(Messages) /\ DOMAIN lost = 1 .. Len(q) - n
      /\ \A i \in 1 .. Len(q) - n : lost[i] = q[n + i]
  BY <1>2, <1>3
<1>5. r \notin RolesIn(lost)
  BY <1>2, <1>3
<1>6. \A i \in DOMAIN q : q[i].role = r => i \in DOMAIN p /\ p[i] = q[i]
  <2>1. SUFFICES ASSUME NEW i \in DOMAIN q, q[i].role = r, i > n PROVE FALSE
    BY <1>2
  <2>2. i - n \in DOMAIN lost /\ lost[i - n] = q[i]
    BY <1>2, <1>4, <2>1
  <2> QED
    BY <1>4, <1>5, <2>1, <2>2, RoleInMessages
<1>7. r \in RolesIn(q) <=> r \in RolesIn(p)
  BY <1>2, <1>6, RoleInMessages
<1>8. \A i \in DOMAIN p : IsLast(p, r, i) => i \in DOMAIN q /\ IsLast(q, r, i) /\ p[i] = q[i]
  BY <1>2, <1>6 DEF IsLast
<1> QED
  BY <1>7, <1>8 DEF SameLast

\* A role stays followed when the last of its messages stay as they are, on sockets
\* of the same servers.
LEMMA RoleKept ==
    ASSUME NEW r \in Roles, RoleFollowed(r),
           \A k \in Socks : SameLast(toWorld[k], toWorld'[k], r),
           \A k \in Socks : r \in RolesIn(toWorld[k]) => owner'[k] = owner[k],
           TypeOK, TypeOK',
           mPlayersData'[r] = mPlayersData[r], Places(r)' = Places(r)
    PROVE  RoleFollowed(r)'
<1>1. \A k \in Socks : r \in RolesIn(toWorld'[k]) <=> r \in RolesIn(toWorld[k])
  BY DEF SameLast
<1>2. ASSUME NEW k \in Socks, NEW i \in DOMAIN toWorld'[k], IsLast(toWorld'[k], r, i)
      PROVE  Leaves(toWorld'[k][i], owner'[k]) \in Places(r)'
  <2>1. PICK j \in DOMAIN toWorld[k] : IsLast(toWorld[k], r, j) /\ toWorld'[k][i] = toWorld[k][j]
    BY <1>2 DEF SameLast
  <2>2. r \in RolesIn(toWorld[k])
    BY <2>1, RoleInMessages DEF IsLast, TypeOK
  <2>3. Leaves(toWorld[k][j], owner[k]) \in Places(r)
    BY <2>1 DEF RoleFollowed
  <2> QED
    BY <2>1, <2>2, <2>3
<1>3. UnderWay(r)' <=> UnderWay(r)
  BY <1>1 DEF UnderWay
<1>4. \A j, k \in Socks : r \in RolesIn(toWorld'[j]) /\ r \in RolesIn(toWorld'[k]) => j = k
  BY <1>1 DEF RoleFollowed
<1>5. ~UnderWay(r)' => mPlayersData'[r] \in Places(r)'
  BY <1>3 DEF RoleFollowed
<1> QED
  BY <1>2, <1>4, <1>5 DEF RoleFollowed, IsLast

\* Breaking sockets loses nothing about the roles that are not marked for it.
LEMMA BreakKeepsRoles ==
    ASSUME TypeOK, NEW ks \in SUBSET Socks, NEW also \in SUBSET Roles,
           BreakSockets(ks, also), NEW r \in Roles \ untold'
    PROVE  /\ r \notin untold /\ r \notin also
           /\ \A k \in Socks : SameLast(toWorld[k], toWorld'[k], r)
<1>1. r \notin untold /\ r \notin also
  BY DEF BreakSockets
<1>2. ASSUME NEW k \in Socks PROVE SameLast(toWorld[k], toWorld'[k], r)
  <2>1. toWorld'[k] = toWorld[k] \/ (k \in ks /\ toWorld'[k] \in Arrives(toWorld[k]))
    BY DEF BreakSockets
  <2>2. CASE toWorld'[k] = toWorld[k]
    BY <2>2 DEF SameLast
  <2>3. CASE k \in ks /\ toWorld'[k] \in Arrives(toWorld[k])
    <3>1. r \notin RolesIn(SubSeq(toWorld[k], Len(toWorld'[k]) + 1, Len(toWorld[k])))
      BY <2>3 DEF BreakSockets
    <3>2. toWorld[k] \in Seq(Messages)
      BY DEF TypeOK
    <3> QED
      BY <2>3, <3>1, <3>2, LastOfArrived
  <2> QED
    BY <2>1, <2>2, <2>3
<1> QED
  BY <1>1, <1>2

\* A report leaves the role it is about followed, if nothing else about the role is
\* under way on another socket, and is of no account to other roles.
LEMMA RolesOfReport ==
    ASSUME Inv, TypeOK', RolesFollowed, NEW g \in Games, NEW o \in Roles,
           NEW m \in {OnlineNotify(o), OfflineNotify(o)}, Report(g, m),
           UNCHANGED <<owner, mPlayersData>>,
           Leaves(m, g) \in Places(o)',
           \A q \in Roles \ {o} : Places(q)' = Places(q),
           NEW r \in Roles \ (untold' \cup crossed')
    PROVE  RoleFollowed(r)'
<1>0. TypeOK /\ LinksMatch
  BY DEF Inv, SocketInv
<1>1. m \in Messages /\ m.role = o
  <2>1. OnlineNotify(o).role = o /\ OfflineNotify(o).role = o
    BY DEF OnlineNotify, OfflineNotify
  <2> QED
    BY <2>1, MessageKinds
<1>2. CASE r # o
  <2>1. r \notin untold \cup crossed
    BY <1>1, <1>2 DEF Report
  <2>2. ASSUME NEW k \in Socks PROVE SameLast(toWorld[k], toWorld'[k], r)
    <3>1. toWorld'[k] = toWorld[k] \/ toWorld'[k] = Append(toWorld[k], m)
      BY <1>0, ReportType
    <3>2. toWorld[k] \in Seq(Messages)
      BY <1>0 DEF TypeOK
    <3>3. SameLast(toWorld[k], Append(toWorld[k], m), r)
      BY <1>1, <1>2, <3>2, LastOfAppend
    <3>4. SameLast(toWorld[k], toWorld[k], r)
      BY DEF SameLast
    <3> QED
      BY <3>1, <3>3, <3>4
  <2>3. RoleFollowed(r)
    BY <2>1 DEF RolesFollowed
  <2>4. Places(r)' = Places(r)
    BY <1>2
  <2> QED
    BY <1>0, <2>2, <2>3, <2>4, RoleKept
<1>3. CASE r = o
  <2>1. Up(g) /\ toWorld' = [toWorld EXCEPT ![link[g]] = Append(@, m)]
    BY <1>1, <1>3 DEF Report
  <2>2. \A k \in Socks \ {link[g]} : r \notin RolesIn(toWorld[k])
    BY <1>1, <1>3, <2>1 DEF Report
  <2>3. link[g] \in Socks /\ g \in Servers
    BY <2>1 DEF Up, Servers
  <2>4. \A k \in Socks \ {link[g]} : toWorld'[k] = toWorld[k]
    BY <1>0, <2>1 DEF TypeOK
  <2>5. toWorld'[link[g]] = Append(toWorld[link[g]], m)
    BY <1>0, <2>1, <2>3 DEF TypeOK
  <2>6. toWorld[link[g]] \in Seq(Messages)
    BY <1>0, <2>3 DEF TypeOK
  <2>7. /\ r \in RolesIn(toWorld'[link[g]])
        /\ \A i \in DOMAIN toWorld'[link[g]] :
              IsLast(toWorld'[link[g]], r, i) => toWorld'[link[g]][i] = m
    BY <1>1, <1>3, <2>5, <2>6, LastOfAppend
  <2>8. \A k \in Socks : r \in RolesIn(toWorld'[k]) => k = link[g]
    BY <2>2, <2>4
  <2>9. ASSUME NEW k \in Socks, NEW i \in DOMAIN toWorld'[k], IsLast(toWorld'[k], r, i)
        PROVE  Leaves(toWorld'[k][i], owner'[k]) \in Places(r)'
    <3>1. r \in RolesIn(toWorld'[k])
      BY <2>9, RoleInMessages DEF IsLast, TypeOK
    <3>2. k = link[g] /\ toWorld'[k][i] = m
      BY <2>7, <2>8, <2>9, <3>1
    <3>3. owner'[k] = g
      BY <1>0, <2>3, <3>2 DEF LinksMatch
    <3>4. Leaves(m, g) \in Places(r)'
      BY <1>3
    <3> QED
      BY <3>2, <3>3, <3>4
  <2>10. UnderWay(r)'
    BY <2>3, <2>7 DEF UnderWay
  <2>11. \A j, k \in Socks : r \in RolesIn(toWorld'[j]) /\ r \in RolesIn(toWorld'[k]) => j = k
    BY <2>8
  <2> QED
    BY <2>9, <2>10, <2>11 DEF RoleFollowed, IsLast
<1> QED
  BY <1>2, <1>3

\* Reading the last report about a role makes the world server know what it says.
LEMMA RolesOfRead ==
    ASSUME Inv, TypeOK', RolesFollowed, NEW k \in Socks, WorldReads(k),
           NEW r \in Roles \ (untold' \cup crossed')
    PROVE  RoleFollowed(r)'
<1>0. TypeOK /\ SocketInv
  BY DEF Inv
<1>1. PICK m : m = Head(toWorld[k])
  OBVIOUS
<1>2. /\ toWorld[k] \in Seq(Messages) /\ toWorld[k] # <<>> /\ m \in Messages
      /\ toWorld' = [toWorld EXCEPT ![k] = Tail(toWorld[k])]
      /\ UNCHANGED <<owner, place, untold, crossed, cleared>>
  BY <1>0, <1>1 DEF WorldReads, TypeOK
<1>21. Places(r)' = Places(r)
  BY <1>2 DEF Places
<1>3. RoleFollowed(r)
  BY <1>2 DEF RolesFollowed
<1>4. /\ toWorld'[k] = Tail(toWorld[k])
      /\ \A j \in Socks : j # k => toWorld'[j] = toWorld[j]
  BY <1>0, <1>2 DEF TypeOK
<1>5. \A j \in Socks : j # k => SameLast(toWorld[j], toWorld'[j], r)
  BY <1>4 DEF SameLast
<1>6. CASE m.role # r
  <2>1. \A j \in Socks : SameLast(toWorld[j], toWorld'[j], r)
    BY <1>1, <1>2, <1>4, <1>5, <1>6, LastOfTail
  <2>2. mPlayersData'[r] = mPlayersData[r]
    BY <1>0, <1>1, <1>6 DEF WorldReads, OnGameServerRegisteredProcess,
       OnProxyServerRegisteredProcess, OnOnlineProcess, OnOfflineProcess, TypeOK
  <2> QED
    BY <1>0, <1>2, <1>21, <1>3, <2>1, <2>2, RoleKept
<1>7. CASE m.role = r
  <2>1. r \in RolesIn(toWorld[k])
    BY <1>1, <1>2, <1>7, LastOfTail
  <2>2. \A j \in Socks : r \in RolesIn(toWorld[j]) => j = k
    BY <1>3, <2>1 DEF RoleFollowed
  <2>3. \A j \in Socks : r \in RolesIn(toWorld'[j]) => j = k
    BY <1>4, <2>2
  <2>4. ASSUME NEW j \in Socks, NEW i \in DOMAIN toWorld'[j], IsLast(toWorld'[j], r, i)
        PROVE  Leaves(toWorld'[j][i], owner'[j]) \in Places(r)'
    <3>1. r \in RolesIn(toWorld'[j])
      BY <2>4, RoleInMessages DEF IsLast, TypeOK
    <3>2. j = k
      BY <2>3, <3>1
    <3>3. PICK n \in DOMAIN toWorld[k] : IsLast(toWorld[k], r, n) /\ toWorld'[k][i] = toWorld[k][n]
      BY <1>2, <1>4, <2>4, <3>2, LastOfTail
    <3>4. Leaves(toWorld[k][n], owner[k]) \in Places(r)
      BY <1>3, <3>3 DEF RoleFollowed
    <3> QED
      BY <1>2, <1>21, <3>2, <3>3, <3>4
  <2>5. ASSUME ~UnderWay(r)' PROVE mPlayersData'[r] \in Places(r)'
    <3>1. r \notin RolesIn(Tail(toWorld[k]))
      BY <1>4, <2>5 DEF UnderWay
    <3>2. 1 \in DOMAIN toWorld[k] /\ IsLast(toWorld[k], r, 1) /\ toWorld[k][1] = m
      BY <1>1, <1>2, <1>7, <3>1, LastOfTail DEF IsLast
    <3>3. Leaves(m, owner[k]) \in Places(r)
      BY <1>3, <3>2 DEF RoleFollowed
    <3>4. m # Registered
      BY <1>7, NamesAssumption DEF Registered
    <3>5. mPlayersData'[r] = Leaves(m, owner[k])
      BY <1>0, <1>1, <1>7, <3>4 DEF WorldReads, OnOnlineProcess, OnOfflineProcess, Leaves, TypeOK
    <3> QED
      BY <1>21, <3>3, <3>5
  <2>6. \A i, j \in Socks : r \in RolesIn(toWorld'[i]) /\ r \in RolesIn(toWorld'[j]) => i = j
    BY <2>3
  <2> QED
    BY <2>4, <2>5, <2>6 DEF RoleFollowed, IsLast
<1> QED
  BY <1>6, <1>7

\* Every step keeps the roles followed.
LEMMA RoleStep == Inv /\ TypeOK' /\ RolesFollowed /\ [Next]_vars => RolesFollowed'
<1> SUFFICES ASSUME Inv, TypeOK', RolesFollowed, [Next]_vars,
                    NEW r \in Roles \ (untold' \cup crossed')
             PROVE  RoleFollowed(r)'
  BY DEF RolesFollowed
<1>0. TypeOK /\ LinksMatch /\ FreeSockets
  BY DEF Inv, SocketInv
<1>1. ASSUME r \notin untold \cup crossed,
             \A k \in Socks : SameLast(toWorld[k], toWorld'[k], r),
             \A k \in Socks : r \in RolesIn(toWorld[k]) => owner'[k] = owner[k],
             mPlayersData'[r] = mPlayersData[r], place'[r] = place[r], cleared' = cleared
      PROVE  RoleFollowed(r)'
  <2>1. Places(r)' = Places(r)
    BY <1>1 DEF Places
  <2> QED
    BY <1>0, <1>1, <2>1, RoleKept DEF RolesFollowed
<1>2. ASSUME UNCHANGED <<toWorld, mPlayersData, place, untold, crossed, cleared>>,
             \A k \in Socks : r \in RolesIn(toWorld[k]) => owner'[k] = owner[k]
      PROVE  RoleFollowed(r)'
  BY <1>1, <1>2 DEF SameLast
<1>3. r \notin RolesIn(<<>>) /\ r \notin RolesIn(<<Registered>>)
      /\ \A i : ~IsLast(<<Registered>>, r, i)
  BY NamesAssumption DEF RolesIn, Range, Registered, IsLast
<1>4. ASSUME NEW s \in Servers, Register(s) PROVE RoleFollowed(r)'
  <2>1. PICK k \in Socks : /\ owner[k] = None
                           /\ owner' = [owner EXCEPT ![k] = s]
                           /\ toWorld' = [toWorld EXCEPT ![k] = <<Registered>>]
    BY <1>4 DEF Register
  <2>2. UNCHANGED <<mPlayersData, place, untold, crossed, cleared>>
    BY <1>4 DEF Register, tables, causes
  <2>3. toWorld[k] = <<>> /\ toWorld'[k] = <<Registered>>
    BY <1>0, <2>1 DEF FreeSockets, TypeOK
  <2>4. SameLast(toWorld[k], toWorld'[k], r)
    BY <1>3, <2>3 DEF SameLast
  <2>5. \A j \in Socks : j # k => SameLast(toWorld[j], toWorld'[j], r)
    BY <1>0, <2>1 DEF SameLast, TypeOK
  <2>6. \A j \in Socks : r \in RolesIn(toWorld[j]) => owner'[j] = owner[j]
    BY <1>0, <1>3, <2>1, <2>3 DEF TypeOK
  <2> QED
    BY <1>1, <2>2, <2>4, <2>5, <2>6
<1>5. ASSUME NEW s \in Servers, LinkBreaks(s) PROVE RoleFollowed(r)'
  <2>1. BreakSockets({link[s]}, {}) /\ {link[s]} \in SUBSET Socks /\ {} \in SUBSET Roles
    BY <1>5 DEF LinkBreaks, Up
  <2>2. UNCHANGED <<owner, mPlayersData, place, crossed, cleared>>
    BY <1>5 DEF LinkBreaks, tables
  <2>3. r \notin untold /\ \A k \in Socks : SameLast(toWorld[k], toWorld'[k], r)
    BY <1>0, <2>1, BreakKeepsRoles
  <2> QED
    BY <1>1, <2>2, <2>3
<1>6. ASSUME NEW s \in Servers, ServerCrashes(s) PROVE RoleFollowed(r)'
  <2>1. PICK roles \in SUBSET Roles : roles = {o \in Roles : s \in place[o]}
    OBVIOUS
  <2>2. /\ BreakSockets({link[s]} \cap Socks, roles)
        /\ place' = [o \in Roles |-> place[o] \ {s}]
        /\ UNCHANGED <<owner, mPlayersData, crossed, cleared>>
    BY <1>6, <2>1 DEF ServerCrashes, tables
  <2>3. {link[s]} \cap Socks \in SUBSET Socks
    OBVIOUS
  <2>4. /\ r \notin untold /\ r \notin roles
        /\ \A k \in Socks : SameLast(toWorld[k], toWorld'[k], r)
    BY <1>0, <2>2, <2>3, BreakKeepsRoles
  <2>5. place'[r] = place[r]
    BY <1>0, <2>1, <2>2, <2>4 DEF TypeOK
  <2> QED
    BY <1>1, <2>2, <2>4, <2>5
<1>7. ASSUME NEW s \in Servers, LinkLost(s) PROVE RoleFollowed(r)'
  BY <1>2, <1>7 DEF LinkLost, tables, causes
<1>8. ASSUME NEW g \in Games, NEW o \in Roles, SendOnline(g, o) PROVE RoleFollowed(r)'
  <2>1. /\ Report(g, OnlineNotify(o)) /\ UNCHANGED <<owner, mPlayersData>>
        /\ g \in place'[o] /\ o \notin cleared'
        /\ \A q \in Roles \ {o} : place'[q] = place[q] /\ (q \in cleared' <=> q \in cleared)
    BY <1>0, <1>8 DEF SendOnline, tables, TypeOK
  <2>2. Leaves(OnlineNotify(o), g) \in Places(o)'
    BY <2>1 DEF Places, Leaves, OnlineNotify
  <2>3. \A q \in Roles \ {o} : Places(q)' = Places(q)
    BY <2>1 DEF Places
  <2> QED
    BY <2>1, <2>2, <2>3, RolesOfReport
<1>9. ASSUME NEW g \in Games, NEW o \in Roles, SendOffline(g, o) PROVE RoleFollowed(r)'
  <2>1. /\ Report(g, OfflineNotify(o)) /\ UNCHANGED <<owner, mPlayersData>>
        /\ place'[o] = {} \/ o \in cleared'
        /\ \A q \in Roles \ {o} : place'[q] = place[q] /\ (q \in cleared' <=> q \in cleared)
    BY <1>0, <1>9 DEF SendOffline, tables, TypeOK
  <2>2. Leaves(OfflineNotify(o), g) \in Places(o)'
    BY <2>1 DEF Places, Leaves, OfflineNotify
  <2>3. \A q \in Roles \ {o} : Places(q)' = Places(q)
    BY <2>1 DEF Places
  <2> QED
    BY <2>1, <2>2, <2>3, RolesOfReport
<1>10. ASSUME NEW p \in Proxies, OnServerInfoProcess(p) PROVE RoleFollowed(r)'
  BY <1>2, <1>10 DEF OnServerInfoProcess, tables, causes
<1>11. ASSUME NEW k \in Socks, WorldReads(k) PROVE RoleFollowed(r)'
  BY <1>11, RolesOfRead
<1>12. ASSUME NEW k \in Socks, SocketCloses(k) PROVE RoleFollowed(r)'
  <2>1. UNCHANGED <<toWorld, mPlayersData, place, untold, crossed, cleared>>
    BY <1>12 DEF SocketCloses, causes
  <2>2. \A j \in Socks : r \in RolesIn(toWorld[j]) => owner'[j] = owner[j]
    BY <1>0, <1>3, <1>12 DEF SocketCloses, TypeOK
  <2> QED
    BY <1>2, <2>1, <2>2
<1>13. CASE Execute
  BY <1>2, <1>13 DEF Execute, tables, causes
<1>14. CASE WorldRestarts
  <2>1. \A k \in Socks : toWorld'[k] = <<>>
    BY <1>14 DEF WorldRestarts
  <2>2. mPlayersData'[r] = None /\ place'[r] = place[r]
    BY <1>14 DEF WorldRestarts
  <2>3. place[r] = {}
    BY <1>14 DEF WorldRestarts
  <2> QED
    BY <1>3, <2>1, <2>2, <2>3 DEF RoleFollowed, Places
<1>15. CASE UNCHANGED vars
  BY <1>2, <1>15 DEF vars, sockets, tables, causes
<1> QED
  BY <1>4, <1>5, <1>6, <1>7, <1>8, <1>9, <1>10, <1>11, <1>12, <1>13, <1>14, <1>15 DEF Next

-------------------------------------------------------------------------------
(* The theorems. *)

\* At the start there are no links and no entries.
LEMMA InitInv == Init => Inv
<1> SUFFICES ASSUME Init PROVE Inv
  OBVIOUS
<1>1. TypeOK
  BY DEF Init, TypeOK
<1>2. SocketInv
  BY NamesAssumption DEF Init, SocketInv, LinksMatch, FreeSockets, ProxiesOnlyRegister, Servers
<1>3. Gone.nFD = None
  BY DEF Gone
<1>4. SocketsAreTheirs
  BY <1>3 DEF Init, SocketsAreTheirs
<1>5. RegisteredServersStay
  BY NamesAssumption DEF Init, RegisteredServersStay, Up
<1> QED
  BY <1>1, <1>2, <1>4, <1>5 DEF Inv

\* The invariant and its parts hold always.
LEMMA Invariance == Spec => []Inv
<1>1. Inv /\ [Next]_vars => Inv'
  BY TypeStep, SocketStep, TableStep DEF Inv
<1> QED
  BY <1>1, InitInv, PTL DEF Spec

\* The tables, sockets and messages of the world server and of its servers have the
\* types they should have, however links break and processes end.
THEOREM TypesCorrect == Spec => []TypeOK
<1>1. Inv => TypeOK
  BY DEF Inv
<1> QED
  BY <1>1, Invariance, PTL

\* The sockets in the world server's tables belong to the servers they stand for
\* (OnClientDisconnect against the registrations), for any number of servers and
\* however few the numbers of sockets are that are used again.
THEOREM SocketsTheirOwn == Spec => []SocketsAreTheirs
<1>1. Inv => SocketsAreTheirs
  BY DEF Inv
<1> QED
  BY <1>1, Invariance, PTL

\* A server whose link is up and whose registration was read stays in the table as
\* it should (OnClientDisconnect looks for the socket, never for the server), unless
\* its registrations were read in the wrong order.
THEOREM RegisteredStay == Spec => []RegisteredServersStay
<1>1. Inv => RegisteredServersStay
  BY DEF Inv
<1> QED
  BY <1>1, Invariance, PTL

\* What the world server has of a role (OnOnlineProcess, OnOfflineProcess) is a game
\* server that has the role, or that there is none, as soon as nothing about it is
\* under way, for any number of game servers, roles and sockets and however many of
\* them have one role; only a report that was lost or never sent, or reports of one
\* role that were under way on two sockets together, make it wrong, and only leaving
\* one of two game servers hides a role that is in the game.
THEOREM RolesShown == Spec => []RolesAreWhereShown
<1>1. Init => RolesFollowed
  <2>1. SUFFICES ASSUME Init, NEW r \in Roles PROVE RoleFollowed(r)
    BY DEF RolesFollowed
  <2>2. \A k \in Socks : toWorld[k] = <<>>
    BY <2>1 DEF Init
  <2>3. mPlayersData[r] \in Places(r)
    BY <2>1 DEF Init, Places
  <2>4. \A k \in Socks : r \notin RolesIn(toWorld[k])
    BY <2>2 DEF RolesIn, Range
  <2> QED
    BY <2>2, <2>3, <2>4 DEF RoleFollowed
<1>2. Inv /\ Inv' /\ RolesFollowed /\ [Next]_vars => RolesFollowed'
  BY RoleStep DEF Inv
<1>3. RolesFollowed => RolesAreWhereShown
  BY DEF RolesFollowed, RoleFollowed, RolesAreWhereShown
<1> QED
  BY <1>1, <1>2, <1>3, Invariance, PTL DEF Spec
===============================================================================
