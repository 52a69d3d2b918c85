------------------------------ MODULE SceneGroups ------------------------------
(***************************************************************************)
(* Scenes and their groups on a game server: NFSceneModule keeps who is in *)
(* which group and tells the clients who comes and goes, the game's        *)
(* NFSceneProcessModule decides which group a player gets and when a group *)
(* ends, NFNPCRefreshModule replaces monsters that were killed.            *)
(*                                                                         *)
(* All of it runs on the main thread, but an operation is a long chain of  *)
(* callbacks that read what the callbacks before them have left. It is     *)
(* written as a chain of operators on a record w of the world: what a      *)
(* callback finds is the w it is given.                                    *)
(***************************************************************************)
EXTENDS Integers, FiniteSets

CONSTANTS
    Players,        \* the ids of player objects
    Npcs,           \* bound: the ids of monsters that can exist at once
    Scenes,         \* the configured scenes
    SceneType,      \* per scene: "NORMAL", "SINGLE_CLONE" or "MULTI_CLONE"
    DefaultScenes,  \* those SetDefaultSceneID is called with
    Seeds,          \* the places of a scene where monsters stand
    MaxGroup        \* bound: group ids

ASSUME SceneTypeAssumption ==
    SceneType \in [Scenes -> {"NORMAL", "SINGLE_CLONE", "MULTI_CLONE"}]
ASSUME DefaultScenesAssumption == DefaultScenes \subseteq Scenes
ASSUME MaxGroupAssumption == MaxGroup \in Nat \ {0}
ASSUME ObjectsAssumption == Players \cap Npcs = {}
ASSUME ScenesAssumption == "none" \notin Scenes

VARIABLE world

Objects == Players \cup Npcs
Groups == [scene : Scenes, group : 0 .. MaxGroup]
Nowhere == [scene |-> "none", group |-> 0]
NoNpc == [at |-> Nowhere, seed |-> "none", hp |-> "none"]

World ==
    [ groupIndex : [Scenes -> -1 .. MaxGroup],    \* the last group id handed out
      groups : SUBSET Groups,                     \* the groups that exist
      list : SUBSET (Objects \X Groups),          \* their mxPlayerList and mxOtherList
      player : [Players -> Groups \cup {Nowhere}],  \* SceneID and GroupID of the object
      npc : [Npcs -> {NoNpc} \cup
                [at : Groups, seed : Seeds, hp : {"alive", "dead", "leaving"}]],
      mtDeleteSelfList : SUBSET Npcs,             \* objects to be destroyed by Execute
      view : [Players -> SUBSET Objects] ]        \* what the client was told to show

TypeOK == world \in World

Group(s, g) == [scene |-> s, group |-> g]
IsPlayer(w, p) == w.player[p] # Nowhere

\* GetGroupObjectList.
PlayersIn(w, q) == {p \in Players : <<p, q>> \in w.list}
NpcsIn(w, q) == {n \in Npcs : <<n, q>> \in w.list}

-------------------------------------------------------------------------------
(* What clients are told. *)

OnObjectListEnter(w, watchers, objects) ==
    [w EXCEPT !.view =
        [p \in Players |-> IF p \in watchers THEN @[p] \cup objects ELSE @[p]]]

OnObjectListLeave(w, watchers, objects) ==
    [w EXCEPT !.view =
        [p \in Players |-> IF p \in watchers THEN @[p] \ objects ELSE @[p]]]

\* The property GroupID of a player changes from the group's to 0, or from 0 to
\* the group's: those in the group and the player are told of each other.
OnPlayerGroupEvent(w, p, old, new) ==
    LET q == Group(w.player[p].scene, IF new > 0 THEN new ELSE old)
        others == PlayersIn(w, q) \ {p} IN
    CASE new > 0 -> OnObjectListEnter(OnObjectListEnter(w, others, {p}),
                                      {p}, others \cup NpcsIn(w, q))
      [] new <= 0 /\ old > 0 -> OnObjectListLeave(OnObjectListLeave(w, others, {p}),
                                      {p}, others \cup NpcsIn(w, q))
      [] OTHER -> w

SetGroupID(w, p, g) ==
    LET old == w.player[p].group IN
    OnPlayerGroupEvent([w EXCEPT !.player[p].group = g], p, old, g)

-------------------------------------------------------------------------------
(* Monsters. *)

\* The ids for new monsters. A real id is never used again: here, not before it
\* is forgotten.
FreshNpcs(w) == {n \in Npcs : w.npc[n] = NoNpc} \ w.mtDeleteSelfList

\* CreateObject of a monster, which fails when the group is not there.
CreateNpc(w, n, seed, q) ==
    IF q \notin w.groups THEN w
    ELSE OnObjectListEnter(
            [w EXCEPT !.npc[n] = [at |-> q, seed |-> seed, hp |-> "alive"],
                      !.list = @ \cup {<<n, q>>}],
            PlayersIn(w, q), {n})

\* CreateSceneNPC: of each seed there may or may not be a monster (its weight
\* against a random number); born says which get one.
CreateSceneNPC(w, q, born) ==
    OnObjectListEnter(
        [w EXCEPT !.npc = [n \in Npcs |->
                    IF \E s \in DOMAIN born : born[s] = n
                    THEN [at |-> q, hp |-> "alive",
                          seed |-> CHOOSE s \in DOMAIN born : born[s] = n]
                    ELSE @[n]],
                  !.list = @ \cup {<<born[s], q>> : s \in DOMAIN born}],
        PlayersIn(w, q), {born[s] : s \in DOMAIN born})

Births(w) ==
    {born \in UNION {[ss -> FreshNpcs(w)] : ss \in SUBSET Seeds} :
        \A s, t \in DOMAIN born : s # t => born[s] # born[t]}

\* DestroyObject of monsters of one group: its players are told.
DestroyNpcs(w, q, ns) ==
    LET told == OnObjectListLeave(w, PlayersIn(w, q), ns) IN
    [told EXCEPT !.list = {x \in @ : x[1] \notin ns},
                 !.npc = [n \in Npcs |-> IF n \in ns THEN NoNpc ELSE @[n]]]

-------------------------------------------------------------------------------
(* Groups. *)

\* RequestGroupScene: the next id, for as long as there are ids.
RequestGroupScene(w, s) ==
    [w EXCEPT !.groupIndex[s] = @ + 1,
              !.groups = @ \cup {Group(s, w.groupIndex[s] + 1)}]

NewGroup(w, s) == Group(s, w.groupIndex[s] + 1)

\* A bug: the group goes and its monsters stay.
ReleaseGroupSceneOnly(w, q) ==
    IF q.group <= 0 THEN w
    ELSE [w EXCEPT !.groups = @ \ {q}, !.list = {x \in @ : x[2] # q}]

\* ReleaseGroupScene: the monsters, then the group with its lists.
ReleaseGroupScene(w, q) ==
    IF q.group <= 0 THEN w
    ELSE LET cleared == DestroyNpcs(w, q, NpcsIn(w, q)) IN
         [cleared EXCEPT !.groups = @ \ {q}, !.list = {x \in @ : x[2] # q}]

\* A bug: only private rooms end when they are left.
AfterLeaveSingle(w, q) ==
    IF SceneType[q.scene] = "SINGLE_CLONE" THEN ReleaseGroupScene(w, q) ELSE w

\* AfterLeaveSceneGroupEvent.
AfterLeaveSceneGroup(w, q) ==
    IF \/ SceneType[q.scene] = "SINGLE_CLONE"
       \/ SceneType[q.scene] = "MULTI_CLONE" /\ q \in w.groups /\ PlayersIn(w, q) = {}
    THEN ReleaseGroupScene(w, q)
    ELSE w

\* The first half of SwitchScene: off the list, group 0, AfterLeaveSceneGroup.
Leave(w, p) ==
    LET q == w.player[p]
        gone == [w EXCEPT !.list = @ \ {<<p, q>>}] IN
    AfterLeaveSceneGroup(SetGroupID(gone, p, 0), q)

\* LeaveSceneGroup, which wants the group to be there.
LeaveSceneGroup(w, p) == IF w.player[p] \in w.groups THEN Leave(w, p) ELSE w

\* A bug: there are new monsters for everyone who enters.
BeforeEnterAlways(w, q, born) ==
    IF SceneType[q.scene] = "NORMAL" THEN w ELSE CreateSceneNPC(w, q, born)

\* BeforeEnterSceneGroupEvent: monsters for the first player of a clone.
BeforeEnterSceneGroup(w, q, born) ==
    IF \/ SceneType[q.scene] = "SINGLE_CLONE"
       \/ SceneType[q.scene] = "MULTI_CLONE" /\ PlayersIn(w, q) = {}
    THEN CreateSceneNPC(w, q, born)
    ELSE w

\* A bug: the player is in the new scene before it has left the old group.
SwitchSceneFirst(w, p, q, born) ==
    LET old == w.player[p]
        gone == [w EXCEPT !.list = @ \ {<<p, old>>}, !.player[p].scene = q.scene]
        left == AfterLeaveSceneGroup(SetGroupID(gone, p, 0), old)
        ready == BeforeEnterSceneGroup(left, q, born)
        listed == [ready EXCEPT !.list = @ \cup {<<p, q>>}] IN
    SetGroupID(listed, p, q.group)

\* SwitchScene, once the target is known to be there.
SwitchScene(w, p, q, born) ==
    LET left == Leave(w, p)
        moved == [left EXCEPT !.player[p].scene = q.scene]
        ready == BeforeEnterSceneGroup(moved, q, born)
        listed == [ready EXCEPT !.list = @ \cup {<<p, q>>}] IN
    SetGroupID(listed, p, q.group)

\* RequestEnterScene: nothing happens to who is there already, or when there is
\* no such group.
RequestEnterScene(w, p, q, born) ==
    IF w.player[p] = q \/ q \notin w.groups THEN w ELSE SwitchScene(w, p, q, born)

\* A player's own room is made for it; a town has the one group 1.
EnterOwnRoom(w, p, s, born) ==
    RequestEnterScene(RequestGroupScene(w, s), p, NewGroup(w, s), born)
EnterTown(w, p, s, born) == RequestEnterScene(w, p, Group(s, 1), born)

-------------------------------------------------------------------------------
Towns == {s \in Scenes : SceneType[s] = "NORMAL"}

\* CreateScene makes group 0 of every scene, where objects are before they enter;
\* CreateSceneBaseGroup makes group 1 of the towns, with monsters.
Init ==
    \E npc \in [Npcs -> {NoNpc} \cup
                    [at : {Group(s, 1) : s \in Towns}, seed : Seeds, hp : {"alive"}]] :
        LET there == {n \in Npcs : npc[n] # NoNpc} IN
        /\ \A m, n \in there : npc[m] = npc[n] => m = n
        /\ world = [ groupIndex |-> [s \in Scenes |-> IF s \in Towns THEN 1 ELSE 0],
                     groups |-> {Group(s, 0) : s \in Scenes} \cup {Group(s, 1) : s \in Towns},
                     list |-> {<<n, npc[n].at>> : n \in there},
                     player |-> [p \in Players |-> Nowhere],
                     npc |-> npc,
                     mtDeleteSelfList |-> {},
                     view |-> [p \in Players |-> {}] ]

\* Bound on the ids of groups.
MayRequestGroup(s) == world.groupIndex[s] < MaxGroup

\* OnDBLoadRoleDataProcess: the object is created in group 0 of the default scene,
\* which the game may set at any time, and enters. Where that scene is for several,
\* the game's own code has to let it in.
CreatePlayer(p, s) ==
    LET at == Group(s, 0)
        created == [world EXCEPT !.player[p] = at, !.list = @ \cup {<<p, at>>}] IN
    /\ ~IsPlayer(world, p)
    /\ \/ /\ SceneType[s] = "NORMAL"
          /\ world' = EnterTown(created, p, s, <<>>)
       \/ /\ SceneType[s] = "SINGLE_CLONE"
          /\ MayRequestGroup(s)
          /\ \E born \in Births(world) : world' = EnterOwnRoom(created, p, s, born)
       \/ /\ SceneType[s] = "MULTI_CLONE"
          /\ world' = created

\* OnClientSwapSceneProcess: a client asks for a town or for a room of its own.
OnClientSwapScene(p, s) ==
    /\ IsPlayer(world, p)
    /\ \/ /\ SceneType[s] = "NORMAL"
          /\ world' = EnterTown(world, p, s, <<>>)
       \/ /\ SceneType[s] = "SINGLE_CLONE"
          /\ MayRequestGroup(s)
          /\ \E born \in Births(world) : world' = EnterOwnRoom(world, p, s, born)

\* NFSceneProcessModule::RequestEnterScene for the game's own code: a clone for
\* several, one that is there or a new one.
EnterClone(p, s) ==
    /\ IsPlayer(world, p)
    /\ SceneType[s] = "MULTI_CLONE"
    /\ \E born \in Births(world) :
        \/ \E g \in 1 .. MaxGroup : world' = RequestEnterScene(world, p, Group(s, g), born)
        \/ /\ MayRequestGroup(s)
           /\ world' = EnterOwnRoom(world, p, s, born)

\* DestroyObject of a player: it leaves its group, those in group 0 with it are
\* told, and it is taken out of the kernel's map. What the class callbacks release
\* then is group 0, which is never released.
DestroyPlayer(p) ==
    LET left == LeaveSceneGroup(world, p)
        told == OnObjectListLeave(left, PlayersIn(left, left.player[p]), {p}) IN
    /\ IsPlayer(world, p)
    /\ world' = [told EXCEPT !.player[p] = Nowhere, !.view[p] = {}]

\* OnObjectHPEvent: a monster is killed, its timer is set.
KillNpc(n) ==
    /\ world.npc[n].hp = "alive"
    /\ world' = [world EXCEPT !.npc[n].hp = "dead"]

\* OnNPCDeadDestroyHeart, when the timer fires: DestroySelf only notes the object
\* for the kernel's Execute, and where the configuration says so another one
\* takes its place.
OnNPCDeadDestroyHeart(n) ==
    LET old == world.npc[n]
        noted == [world EXCEPT !.npc[n].hp = "leaving",
                               !.mtDeleteSelfList = @ \cup {n}] IN
    /\ old.hp = "dead"
    /\ \/ world' = noted
       \/ \E new \in FreshNpcs(noted) : world' = CreateNpc(noted, new, old.seed, old.at)

\* A bug: a noted object is not destroyed while players see it.
NotedUnseen(w) ==
    {n \in w.mtDeleteSelfList : w.npc[n] # NoNpc /\ PlayersIn(w, w.npc[n].at) = {}}

\* What Execute finds to destroy: what is noted, unless it is gone already.
Noted(w) == {n \in w.mtDeleteSelfList : w.npc[n] # NoNpc}

\* NFKernelModule::Execute destroys the noted objects one by one.
Execute ==
    LET noted == Noted(world)
        Seen(p) == {n \in noted : <<p, world.npc[n].at>> \in world.list} IN
    /\ world.mtDeleteSelfList # {}
    /\ world' = [world EXCEPT !.view = [p \in Players |-> @[p] \ Seen(p)],
                              !.list = {x \in @ : x[1] \notin noted},
                              !.npc = [n \in Npcs |-> IF n \in noted THEN NoNpc ELSE @[n]],
                              !.mtDeleteSelfList = {}]

Next ==
    \/ \E p \in Players, s \in DefaultScenes : CreatePlayer(p, s)
    \/ \E p \in Players : DestroyPlayer(p)
    \/ \E p \in Players, s \in Scenes : OnClientSwapScene(p, s) \/ EnterClone(p, s)
    \/ \E n \in Npcs : KillNpc(n) \/ OnNPCDeadDestroyHeart(n)
    \/ Execute

Spec == Init /\ [][Next]_world

\* The main loop runs the schedule and the kernel in every frame.
FairSpec ==
    /\ Spec
    /\ \A n \in Npcs : WF_world(OnNPCDeadDestroyHeart(n))
    /\ WF_world(Execute)

-------------------------------------------------------------------------------
(* Properties. *)

\* What a client was told to show, by enters and leaves that came at different
\* times and from different callbacks, is what is in its player's group: everyone
\* else there and nothing from a group it has left. In group 0 it shows nothing.
ViewsMatch ==
    \A p \in Players :
        LET q == world.player[p] IN
        world.view[p] = IF q.group > 0
                        THEN (PlayersIn(world, q) \cup NpcsIn(world, q)) \ {p}
                        ELSE {}

\* The lists of the groups and the properties SceneID and GroupID of the objects,
\* which are written at different places, say the same, and an object is never in
\* a group that was released: none is left behind when a room ends.
ObjectsAreListed ==
    /\ \A p \in Players : \A q \in Groups :
        <<p, q>> \in world.list <=> world.player[p] = q
    /\ \A n \in Npcs : \A q \in Groups :
        <<n, q>> \in world.list <=> world.npc[n] # NoNpc /\ world.npc[n].at = q
    /\ \A x \in world.list : x[2] \in world.groups

\* What NFDefine.proto says of the types of scenes: a town has only group 1, a
\* private room has one player, and is destroyed when it leaves, a room for several
\* when all have left.
RoomsAsDeclared ==
    \A q \in world.groups :
        q.group > 0 =>
            CASE SceneType[q.scene] = "NORMAL" -> q.group = 1
              [] SceneType[q.scene] = "SINGLE_CLONE" -> Cardinality(PlayersIn(world, q)) = 1
              [] OTHER -> PlayersIn(world, q) # {}

\* However players come and go and monsters are killed and replaced, a place has
\* one monster that is not on its way out.
OneNpcPerSeed ==
    \A m, n \in Npcs :
        /\ world.npc[m].hp \in {"alive", "dead"}
        /\ world.npc[n].hp \in {"alive", "dead"}
        /\ world.npc[m].at = world.npc[n].at
        /\ world.npc[m].seed = world.npc[n].seed
        => m = n

\* A monster that was killed is gone some time later, though it is only noted for
\* destruction and its room may be released meanwhile: no body stays for ever.
DeadNpcsGo ==
    \A n \in Npcs : world.npc[n].hp = "dead" ~> world.npc[n] = NoNpc
===============================================================================
