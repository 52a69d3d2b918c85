--------------------------- MODULE SceneGroupsProofs ---------------------------
(***************************************************************************)
(* Proofs about SceneGroups, for any players, monsters, scenes and groups. *)
(*                                                                         *)
(* An operation is a chain of callbacks, and between two of them the world *)
(* is not as it should be: a player that has left one group is in no other *)
(* yet, a group that was just made has nobody. Sound(w, out, but) says how *)
(* much holds then: all of it, except that the players out are in no group *)
(* and that the groups but need not be what their scene's type declares.   *)
(* Each operator of the chain is shown to lead from one such world to the  *)
(* next, and the operations to lead back to a sound one.                   *)
(***************************************************************************)
EXTENDS SceneGroups, FiniteSetTheorems, TLAPS

\* Group 0 is no real group: objects are there before they enter one.
Real(q) == q.group > 0

\* The lists and the objects' own properties agree; players that are between two
\* groups are on no list.
Listed(w, out) ==
    /\ \A p \in Players : \A q \in Groups :
           <<p, q>> \in w.list <=> p \notin out /\ w.player[p] = q
    /\ \A p \in out : ~Real(w.player[p])
    /\ \A n \in Npcs : \A q \in Groups :
           <<n, q>> \in w.list <=> w.npc[n] # NoNpc /\ w.npc[n].at = q
    /\ \A x \in w.list : x[2] \in w.groups

\* Clients show what is in their player's group.
Around(w, p) == (PlayersIn(w, w.player[p]) \cup NpcsIn(w, w.player[p])) \ {p}
Shown(w) ==
    \A p \in Players : /\ Real(w.player[p]) => w.view[p] = Around(w, p)
                       /\ ~Real(w.player[p]) => w.view[p] = {}

\* A group is used as the type of its scene declares.
AsDeclared(w, q) ==
    /\ SceneType[q.scene] = "NORMAL" => q.group = 1
    /\ SceneType[q.scene] = "SINGLE_CLONE" => \E p \in Players : PlayersIn(w, q) = {p}
    /\ SceneType[q.scene] = "MULTI_CLONE" => PlayersIn(w, q) # {}

Declared(w, but) == \A q \in w.groups \ but : Real(q) => AsDeclared(w, q)

\* Ids of groups are handed out in order, beginning behind group 0.
IdsInOrder(w) ==
    /\ \A q \in w.groups : q.group <= w.groupIndex[q.scene]
    /\ \A s \in Scenes : Group(s, 0) \in w.groups

\* A place has one monster that is not on its way out.
Standing(w, n) == w.npc[n].hp \in {"alive", "dead"}
OnePerSeed(w) ==
    \A m, n \in Npcs :
        /\ Standing(w, m) /\ Standing(w, n)
        /\ w.npc[m].at = w.npc[n].at /\ w.npc[m].seed = w.npc[n].seed
        => m = n

\* Monsters are made in real groups only; nobody in group 0 is shown any.
InRooms(w) == \A n \in Npcs : w.npc[n] # NoNpc => Real(w.npc[n].at)

Sound(w, out, but) ==
    /\ w \in World /\ Listed(w, out) /\ Shown(w)
    /\ Declared(w, but) /\ IdsInOrder(w) /\ OnePerSeed(w) /\ InRooms(w)

-------------------------------------------------------------------------------
(* Worlds, field by field. *)

\* The parts of the world other than views.
SameButViews(v, w) ==
    /\ v.groupIndex = w.groupIndex /\ v.groups = w.groups /\ v.list = w.list
    /\ v.player = w.player /\ v.npc = w.npc /\ v.mtDeleteSelfList = w.mtDeleteSelfList

\* Telling clients of objects that come, or go, changes what they show.
LEMMA EnterTold ==
    ASSUME NEW w \in World, NEW watchers, NEW objects \in SUBSET Objects
    PROVE  /\ OnObjectListEnter(w, watchers, objects) \in World
           /\ SameButViews(OnObjectListEnter(w, watchers, objects), w)
           /\ \A p \in Players :
                IF p \in watchers
                THEN OnObjectListEnter(w, watchers, objects).view[p] = w.view[p] \cup objects
                ELSE OnObjectListEnter(w, watchers, objects).view[p] = w.view[p]
BY DEF OnObjectListEnter, World, SameButViews

LEMMA LeaveTold ==
    ASSUME NEW w \in World, NEW watchers, NEW objects
    PROVE  /\ OnObjectListLeave(w, watchers, objects) \in World
           /\ SameButViews(OnObjectListLeave(w, watchers, objects), w)
           /\ \A p \in Players :
                IF p \in watchers
                THEN OnObjectListLeave(w, watchers, objects).view[p] = w.view[p] \ objects
                ELSE OnObjectListLeave(w, watchers, objects).view[p] = w.view[p]
BY DEF OnObjectListLeave, World, SameButViews

\* Groups are what their scene and number say.
LEMMA GroupIs ==
    /\ \A q \in Groups : q = Group(q.scene, q.group) /\ q.scene \in Scenes
                      /\ q.group \in 0 .. MaxGroup /\ q.group \in Nat
    /\ \A q \in Groups : /\ Group(q.scene, 0) \in Groups /\ ~Real(Group(q.scene, 0))
                          /\ Group(q.scene, 0).group = 0 /\ (q.group = 0 <=> ~Real(q))
                          /\ Group(q.scene, 0).scene = q.scene
    /\ \A s \in Scenes, g \in 0 .. MaxGroup :
           Group(s, g) \in Groups /\ Group(s, g).scene = s /\ Group(s, g).group = g
    /\ Nowhere \notin Groups /\ ~Real(Nowhere)
BY ScenesAssumption, MaxGroupAssumption DEF Real, Groups, Group, Nowhere

\* Objects in a group are players or monsters.
LEMMA InGroup ==
    ASSUME NEW w, NEW q
    PROVE  PlayersIn(w, q) \in SUBSET Players /\ NpcsIn(w, q) \in SUBSET Npcs
           /\ PlayersIn(w, q) \in SUBSET Objects /\ NpcsIn(w, q) \in SUBSET Objects
BY DEF PlayersIn, NpcsIn, Objects

\* Who is in a group is told by the objects' own properties.
LEMMA WhoIsIn ==
    ASSUME NEW w \in World, NEW out, Listed(w, out), NEW q \in Groups
    PROVE  /\ PlayersIn(w, q) = {p \in Players \ out : w.player[p] = q}
           /\ NpcsIn(w, q) = {n \in Npcs : w.npc[n] # NoNpc /\ w.npc[n].at = q}
BY DEF Listed, PlayersIn, NpcsIn

\* A monster that is there stands in a group; NoNpc stands nowhere.
LEMMA NpcIs ==
    ASSUME NEW w \in World, NEW n \in Npcs
    PROVE  /\ w.npc[n] # NoNpc => w.npc[n].at \in Groups /\ w.npc[n].seed \in Seeds
                                 /\ w.npc[n].hp \in {"alive", "dead", "leaving"}
           /\ w.npc[n] = NoNpc => ~Standing(w, n) /\ w.npc[n].at = Nowhere
BY DEF World, NoNpc, Standing

\* All but what players have and show.
SameButPlayers(v, w) ==
    /\ v.groupIndex = w.groupIndex /\ v.groups = w.groups /\ v.list = w.list
    /\ v.npc = w.npc /\ v.mtDeleteSelfList = w.mtDeleteSelfList

\* A player's object gets another group.
LEMMA PlayerMoves ==
    ASSUME NEW w \in World, NEW p \in Players, NEW q \in Groups, w.player[p] = q,
           NEW g \in 0 .. MaxGroup
    PROVE  /\ [w EXCEPT !.player[p].group = g] \in World
           /\ SameButPlayers([w EXCEPT !.player[p].group = g], w)
           /\ [w EXCEPT !.player[p].group = g].view = w.view
           /\ [w EXCEPT !.player[p].group = g].player =
                  [w.player EXCEPT ![p] = Group(q.scene, g)]
<1>1. PICK to : to = [q EXCEPT !.group = g]
    OBVIOUS
<1>2. to = Group(q.scene, g) /\ to \in Groups
    BY <1>1, GroupIs DEF Groups, Group
<1>3. PICK moved : moved = [w.player EXCEPT ![p] = to]
    OBVIOUS
<1>4. w.player \in [Players -> Groups \cup {Nowhere}]
    BY DEF World
<1>5. moved \in [Players -> Groups \cup {Nowhere}]
    BY <1>2, <1>3, <1>4
<1>6. [w EXCEPT !.player[p].group = g] = [w EXCEPT !.player = moved]
    BY <1>1, <1>3, <1>4
<1>7. [w EXCEPT !.player = moved] \in World
    BY <1>5 DEF World
<1>8. /\ SameButPlayers([w EXCEPT !.player = moved], w)
      /\ [w EXCEPT !.player = moved].view = w.view
      /\ [w EXCEPT !.player = moved].player = moved
    BY DEF SameButPlayers, World
<1> QED BY <1>2, <1>3, <1>6, <1>7, <1>8

\* Setting GroupID to 0: the others are told that the player goes, and the player
\* that they and the monsters do.
LEMMA GroupLeft ==
    ASSUME NEW w \in World, NEW p \in Players, NEW q \in Groups, w.player[p] = q
    PROVE  /\ SetGroupID(w, p, 0) \in World
           /\ SameButPlayers(SetGroupID(w, p, 0), w)
           /\ SetGroupID(w, p, 0).player = [w.player EXCEPT ![p] = Group(q.scene, 0)]
           /\ \A x \in Players :
                IF ~Real(q) THEN SetGroupID(w, p, 0).view[x] = w.view[x]
                ELSE IF x = p THEN SetGroupID(w, p, 0).view[x] =
                                 w.view[x] \ ((PlayersIn(w, q) \ {p}) \cup NpcsIn(w, q))
                ELSE IF x \in PlayersIn(w, q) THEN SetGroupID(w, p, 0).view[x] = w.view[x] \ {p}
                ELSE SetGroupID(w, p, 0).view[x] = w.view[x]
<1>1. PICK m : m = [w EXCEPT !.player[p].group = 0]
    OBVIOUS
<1>2. /\ m \in World /\ SameButPlayers(m, w) /\ m.view = w.view
      /\ m.player = [w.player EXCEPT ![p] = Group(q.scene, 0)]
    BY <1>1, PlayerMoves, MaxGroupAssumption
<1>3. m.player[p].scene = q.scene /\ q \in Groups /\ q.group \in Nat
    BY <1>2, GroupIs, MaxGroupAssumption DEF World
<1>4. SetGroupID(w, p, 0) = OnPlayerGroupEvent(m, p, q.group, 0)
    BY <1>1 DEF SetGroupID
<1>5. CASE ~Real(q)
    <2>1. OnPlayerGroupEvent(m, p, q.group, 0) = m
        BY <1>3, <1>5 DEF OnPlayerGroupEvent, Real
    <2> QED BY <1>2, <1>4, <1>5, <2>1
<1>6. CASE Real(q)
    <2>1. Group(m.player[p].scene, IF 0 > 0 THEN 0 ELSE q.group) = q
        BY <1>3, <1>6, GroupIs DEF Real
    <2>2. PICK others : others = PlayersIn(m, q) \ {p}
        OBVIOUS
    <2>3. PICK monsters : monsters = NpcsIn(m, q)
        OBVIOUS
    <2>4. OnPlayerGroupEvent(m, p, q.group, 0)
            = OnObjectListLeave(OnObjectListLeave(m, others, {p}), {p}, others \cup monsters)
        BY <1>3, <1>6, <2>1, <2>2, <2>3 DEF OnPlayerGroupEvent, Real
    <2>5. others = PlayersIn(w, q) \ {p} /\ monsters = NpcsIn(w, q)
        BY <1>2, <2>2, <2>3 DEF PlayersIn, NpcsIn, SameButPlayers
    <2>6. PICK n : n = OnObjectListLeave(m, others, {p})
        OBVIOUS
    <2>7. /\ n \in World /\ SameButViews(n, m)
          /\ \A x \in Players :
                 IF x \in others
                 THEN n.view[x] = m.view[x] \ {p}
                 ELSE n.view[x] = m.view[x]
        <3>1. m \in World
            BY <1>2
        <3> QED BY ONLY <3>1, <2>6, LeaveTold
    <2>8. PICK v : v = OnObjectListLeave(n, {p}, others \cup monsters)
        OBVIOUS
    <2>9. /\ v \in World /\ SameButViews(v, n)
          /\ \A x \in Players :
                 IF x \in {p}
                 THEN v.view[x] = n.view[x] \ (others \cup monsters)
                 ELSE v.view[x] = n.view[x]
        BY ONLY <2>7, <2>8, LeaveTold
    <2>10. v = SetGroupID(w, p, 0)
        BY <1>4, <2>4, <2>6, <2>8
    <2>11. SameButPlayers(v, w) /\ v.player = m.player
        BY <1>2, <2>7, <2>9 DEF SameButPlayers, SameButViews
    <2> QED BY <1>2, <1>6, <2>5, <2>7, <2>9, <2>10, <2>11
<1> QED BY <1>5, <1>6

\* Setting GroupID from 0 to a group's: they are told of each other.
LEMMA GroupEntered ==
    ASSUME NEW w \in World, NEW p \in Players, NEW q \in Groups, Real(q),
           w.player[p] = Group(q.scene, 0)
    PROVE  /\ SetGroupID(w, p, q.group) \in World
           /\ SameButPlayers(SetGroupID(w, p, q.group), w)
           /\ SetGroupID(w, p, q.group).player = [w.player EXCEPT ![p] = q]
           /\ \A x \in Players :
                IF x = p THEN SetGroupID(w, p, q.group).view[x] =
                                 w.view[x] \cup ((PlayersIn(w, q) \ {p}) \cup NpcsIn(w, q))
                ELSE IF x \in PlayersIn(w, q)
                     THEN SetGroupID(w, p, q.group).view[x] = w.view[x] \cup {p}
                     ELSE SetGroupID(w, p, q.group).view[x] = w.view[x]
<1>1. PICK m : m = [w EXCEPT !.player[p].group = q.group]
    OBVIOUS
<1>2. /\ Group(q.scene, 0) \in Groups /\ Group(q.scene, 0).scene = q.scene
      /\ Group(q.scene, 0).group = 0 /\ q.group \in 0 .. MaxGroup
      /\ Group(q.scene, q.group) = q
    BY GroupIs, MaxGroupAssumption
<1>3. /\ m \in World /\ SameButPlayers(m, w) /\ m.view = w.view
      /\ m.player = [w.player EXCEPT ![p] = q]
    BY <1>1, <1>2, PlayerMoves
<1>4. m.player[p] = q
    BY <1>3 DEF World
<1>5. SetGroupID(w, p, q.group) = OnPlayerGroupEvent(m, p, 0, q.group)
    BY <1>1, <1>2 DEF SetGroupID
<1>6. PICK others : others = PlayersIn(m, q) \ {p}
    OBVIOUS
<1>7. PICK monsters : monsters = NpcsIn(m, q)
    OBVIOUS
<1>8. OnPlayerGroupEvent(m, p, 0, q.group)
        = OnObjectListEnter(OnObjectListEnter(m, others, {p}), {p}, others \cup monsters)
    BY <1>2, <1>4, <1>6, <1>7 DEF OnPlayerGroupEvent, Real
<1>9. /\ others = PlayersIn(w, q) \ {p} /\ monsters = NpcsIn(w, q)
      /\ others \cup monsters \in SUBSET Objects /\ {p} \in SUBSET Objects
    <2>1. others = PlayersIn(w, q) \ {p} /\ monsters = NpcsIn(w, q)
        BY <1>3, <1>6, <1>7 DEF PlayersIn, NpcsIn, SameButPlayers
    <2> QED BY <2>1, InGroup DEF Objects
<1>10. PICK n : n = OnObjectListEnter(m, others, {p})
    OBVIOUS
<1>11. /\ n \in World /\ SameButViews(n, m)
       /\ \A x \in Players :
              IF x \in others
              THEN n.view[x] = m.view[x] \cup {p}
              ELSE n.view[x] = m.view[x]
    BY ONLY <1>3, <1>9, <1>10, EnterTold
<1>12. PICK v : v = OnObjectListEnter(n, {p}, others \cup monsters)
    OBVIOUS
<1>13. /\ v \in World /\ SameButViews(v, n)
       /\ \A x \in Players :
              IF x \in {p}
              THEN v.view[x] = n.view[x] \cup (others \cup monsters)
              ELSE v.view[x] = n.view[x]
    <2>1. n \in World
        BY <1>11
    <2>2. others \cup monsters \in SUBSET Objects
        BY <1>9
    <2> QED BY ONLY <2>1, <2>2, <1>12, EnterTold
<1>14. v = SetGroupID(w, p, q.group)
    BY <1>5, <1>8, <1>10, <1>12
<1>15. SameButPlayers(v, w) /\ v.player = m.player
    BY <1>3, <1>11, <1>13 DEF SameButPlayers, SameButViews
<1> QED BY <1>3, <1>9, <1>11, <1>13, <1>14, <1>15

-------------------------------------------------------------------------------
(* Leaving a group. *)

\* Releasing a group takes its monsters and what is on its lists away.
LEMMA GroupReleased ==
    ASSUME NEW w \in World, NEW q \in Groups, Real(q)
    PROVE  /\ ReleaseGroupScene(w, q) \in World
           /\ ReleaseGroupScene(w, q).groupIndex = w.groupIndex
           /\ ReleaseGroupScene(w, q).player = w.player
           /\ ReleaseGroupScene(w, q).mtDeleteSelfList = w.mtDeleteSelfList
           /\ ReleaseGroupScene(w, q).groups = w.groups \ {q}
           /\ ReleaseGroupScene(w, q).list =
                  {x \in w.list : x[1] \notin NpcsIn(w, q) /\ x[2] # q}
           /\ \A n \in Npcs : ReleaseGroupScene(w, q).npc[n] =
                  IF n \in NpcsIn(w, q) THEN NoNpc ELSE w.npc[n]
           /\ \A x \in Players :
                  IF x \in PlayersIn(w, q)
                  THEN ReleaseGroupScene(w, q).view[x] = w.view[x] \ NpcsIn(w, q)
                  ELSE ReleaseGroupScene(w, q).view[x] = w.view[x]
<1>1. PICK ns : ns = NpcsIn(w, q)
    OBVIOUS
<1>2. PICK watchers : watchers = PlayersIn(w, q)
    OBVIOUS
<1>3. PICK told : told = OnObjectListLeave(w, watchers, ns)
    OBVIOUS
<1>4. /\ told \in World /\ SameButViews(told, w)
      /\ \A x \in Players :
             IF x \in watchers
             THEN told.view[x] = w.view[x] \ ns
             ELSE told.view[x] = w.view[x]
    <2>1. w \in World
        OBVIOUS
    <2>2. /\ OnObjectListLeave(w, watchers, ns) \in World
          /\ SameButViews(OnObjectListLeave(w, watchers, ns), w)
          /\ \A x \in Players :
                 IF x \in watchers
                 THEN OnObjectListLeave(w, watchers, ns).view[x] = w.view[x] \ ns
                 ELSE OnObjectListLeave(w, watchers, ns).view[x] = w.view[x]
        BY ONLY <2>1, LeaveTold
    <2> QED BY <1>3, <2>2
<1>5. PICK npc : npc = [n \in Npcs |-> IF n \in ns THEN NoNpc ELSE w.npc[n]]
    OBVIOUS
<1>6. PICK list : list = {x \in w.list : x[1] \notin ns}
    OBVIOUS
<1>7. PICK cleared : cleared = [told EXCEPT !.list = list, !.npc = npc]
    OBVIOUS
<1>8. w.npc \in [Npcs -> {NoNpc} \cup
                [at : Groups, seed : Seeds, hp : {"alive", "dead", "leaving"}]]
    BY DEF World
<1>9. npc \in [Npcs -> {NoNpc} \cup
                [at : Groups, seed : Seeds, hp : {"alive", "dead", "leaving"}]]
    BY <1>5, <1>8
<1>10. list \in SUBSET (Objects \X Groups)
    BY <1>6 DEF World
<1>11. /\ cleared \in World /\ cleared.list = list /\ cleared.npc = npc
       /\ cleared.groupIndex = w.groupIndex /\ cleared.groups = w.groups
       /\ cleared.player = w.player /\ cleared.mtDeleteSelfList = w.mtDeleteSelfList
       /\ cleared.view = told.view
    BY <1>4, <1>7, <1>9, <1>10 DEF SameButViews, World
<1>12. DestroyNpcs(w, q, ns) = cleared
    BY <1>2, <1>3, <1>4, <1>5, <1>6, <1>7 DEF DestroyNpcs, SameButViews
<1>13. PICK left : left = {x \in list : x[2] # q}
    OBVIOUS
<1>14. PICK v : v = [cleared EXCEPT !.groups = w.groups \ {q}, !.list = left]
    OBVIOUS
<1>15. v = ReleaseGroupScene(w, q)
    <2>1. ~(q.group <= 0)
        BY GroupIs DEF Real
    <2>2. ReleaseGroupScene(w, q) = [cleared EXCEPT !.groups = @ \ {q},
                                                    !.list = {x \in @ : x[2] # q}]
        BY <1>1, <1>12, <2>1 DEF ReleaseGroupScene
    <2> QED BY <1>11, <1>13, <1>14, <2>2
<1>16. left \in SUBSET (Objects \X Groups) /\ w.groups \ {q} \in SUBSET Groups
    BY <1>10, <1>13 DEF World
<1>17. /\ v \in World /\ v.list = left /\ v.npc = npc /\ v.groups = w.groups \ {q}
       /\ v.groupIndex = w.groupIndex /\ v.player = w.player
       /\ v.mtDeleteSelfList = w.mtDeleteSelfList /\ v.view = told.view
    BY <1>11, <1>14, <1>16 DEF World
<1>18. left = {x \in w.list : x[1] \notin ns /\ x[2] # q}
    BY <1>6, <1>13
<1>19. \A n \in Npcs : npc[n] = IF n \in ns THEN NoNpc ELSE w.npc[n]
    BY <1>5
<1> QED BY <1>1, <1>2, <1>4, <1>15, <1>17, <1>18, <1>19

\* All but the lists of groups.
SameButLists(v, w) ==
    /\ v.groupIndex = w.groupIndex /\ v.groups = w.groups /\ v.player = w.player
    /\ v.npc = w.npc /\ v.mtDeleteSelfList = w.mtDeleteSelfList /\ v.view = w.view

\* A player off the list and in group 0: all is well, but for its old room perhaps.
LEMMA OffTheList ==
    ASSUME NEW w, NEW but, Sound(w, {}, but), NEW p \in Players, NEW q \in Groups,
           w.player[p] = q,
           NEW g \in World, g.list = w.list \ {<<p, q>>}, SameButLists(g, w),
           NEW v, v = SetGroupID(g, p, 0)
    PROVE  /\ Sound(v, {p}, but \cup {q})
           /\ v.player = [w.player EXCEPT ![p] = Group(q.scene, 0)]
           /\ v.groupIndex = w.groupIndex /\ v.groups = w.groups /\ v.npc = w.npc
           /\ v.mtDeleteSelfList = w.mtDeleteSelfList
           /\ q \in w.groups
<1>1. /\ w \in World /\ Listed(w, {}) /\ Shown(w) /\ Declared(w, but)
      /\ IdsInOrder(w) /\ OnePerSeed(w) /\ InRooms(w)
    BY DEF Sound
<1>3. /\ g \in World /\ g.list = w.list \ {<<p, q>>} /\ g.player = w.player
      /\ g.groupIndex = w.groupIndex /\ g.groups = w.groups /\ g.npc = w.npc
      /\ g.mtDeleteSelfList = w.mtDeleteSelfList /\ g.view = w.view
    BY DEF SameButLists
<1>4. v = SetGroupID(g, p, 0) /\ p \in Players /\ q \in Groups
    OBVIOUS
<1>5. g.player[p] = q
    BY <1>3
<1>6. /\ v \in World /\ SameButPlayers(v, g)
      /\ v.player = [w.player EXCEPT ![p] = Group(q.scene, 0)]
      /\ \A x \in Players :
             IF ~Real(q) THEN v.view[x] = w.view[x]
             ELSE IF x = p THEN v.view[x] = w.view[x] \ ((PlayersIn(g, q) \ {p}) \cup NpcsIn(g, q))
             ELSE IF x \in PlayersIn(g, q) THEN v.view[x] = w.view[x] \ {p}
             ELSE v.view[x] = w.view[x]
    <2>1. g \in World
        BY <1>3
    <2>2. /\ v \in World /\ SameButPlayers(v, g)
          /\ v.player = [g.player EXCEPT ![p] = Group(q.scene, 0)]
          /\ \A x \in Players :
             IF ~Real(q) THEN v.view[x] = g.view[x]
             ELSE IF x = p THEN v.view[x] = g.view[x] \ ((PlayersIn(g, q) \ {p}) \cup NpcsIn(g, q))
             ELSE IF x \in PlayersIn(g, q) THEN v.view[x] = g.view[x] \ {p}
             ELSE v.view[x] = g.view[x]
        BY ONLY <1>4, <1>5, <2>1, GroupLeft
    <2> QED BY <1>3, <2>2
<1>7. /\ v.list = w.list \ {<<p, q>>} /\ v.groupIndex = w.groupIndex /\ v.groups = w.groups
      /\ v.npc = w.npc /\ v.mtDeleteSelfList = w.mtDeleteSelfList
    BY <1>3, <1>6 DEF SameButPlayers
<1>8. /\ Group(q.scene, 0) \in Groups /\ Group(q.scene, 0).group = 0
      /\ v.player[p] = Group(q.scene, 0) /\ ~Real(v.player[p])
      /\ \A x \in Players \ {p} : v.player[x] = w.player[x]
    BY <1>1, <1>6, GroupIs, MaxGroupAssumption DEF World
<1>9. <<p, q>> \in w.list /\ q \in w.groups
    <2>1. <<p, q>> \in w.list
        BY <1>1 DEF Listed
    <2> QED BY <1>1, <2>1 DEF Listed
<1>10. Listed(v, {p})
    <2>1. ASSUME NEW x \in Players, NEW y \in Groups
          PROVE  <<x, y>> \in v.list <=> x \notin {p} /\ v.player[x] = y
        <3>1. <<x, y>> \in w.list <=> w.player[x] = y
            BY <1>1 DEF Listed
        <3> QED BY <1>7, <1>8, <3>1
    <2>2. ASSUME NEW n \in Npcs, NEW y \in Groups
          PROVE  <<n, y>> \in v.list <=> v.npc[n] # NoNpc /\ v.npc[n].at = y
        <3>1. <<n, y>> \in w.list <=> w.npc[n] # NoNpc /\ w.npc[n].at = y
            BY <1>1 DEF Listed
        <3>2. n # p
            BY ObjectsAssumption
        <3> QED BY <1>7, <3>1, <3>2
    <2>3. \A x \in v.list : x[2] \in v.groups
        BY <1>1, <1>7 DEF Listed
    <2> QED BY <1>8, <2>1, <2>2, <2>3 DEF Listed
<1>11. \A y \in Groups : PlayersIn(v, y) = PlayersIn(w, y) \ {p} /\ NpcsIn(v, y) = NpcsIn(w, y)
    <2>1. \A x \in Players, y \in Groups : <<x, y>> \in v.list <=> <<x, y>> \in w.list /\ x # p
        BY <1>1, <1>7, <1>8, <1>10 DEF Listed
    <2>2. \A n \in Npcs, y \in Groups : <<n, y>> \in v.list <=> <<n, y>> \in w.list
        BY <1>7, ObjectsAssumption
    <2> QED BY <2>1, <2>2 DEF PlayersIn, NpcsIn
<1>12. PlayersIn(g, q) = PlayersIn(w, q) \ {p} /\ NpcsIn(g, q) = NpcsIn(w, q)
    <2>1. g.list = v.list
        BY <1>3, <1>7
    <2> QED BY <1>11, <2>1 DEF PlayersIn, NpcsIn
<1>13. Shown(v)
    <2>1. ASSUME NEW x \in Players
          PROVE  /\ Real(v.player[x]) => v.view[x] = Around(v, x)
                 /\ ~Real(v.player[x]) => v.view[x] = {}
        <3>0. /\ Real(w.player[x]) => w.view[x] = Around(w, x)
              /\ ~Real(w.player[x]) => w.view[x] = {}
            BY <1>1 DEF Shown
        <3>1. CASE x = p
            <4>1. v.view[p] = {}
                <5>1. CASE ~Real(q)
                    BY <1>6, <3>0, <3>1, <5>1
                <5>2. CASE Real(q)
                    <6>1. w.view[p] = (PlayersIn(w, q) \cup NpcsIn(w, q)) \ {p}
                        BY <3>0, <3>1, <5>2 DEF Around
                    <6>2. v.view[p] = w.view[p] \ ((PlayersIn(g, q) \ {p}) \cup NpcsIn(g, q))
                        BY <1>6, <5>2
                    <6> QED BY <1>12, <6>1, <6>2
                <5> QED BY <5>1, <5>2
            <4> QED BY <1>8, <3>1, <4>1
        <3>2. CASE x # p /\ w.player[x] = q
            <4>1. x \in PlayersIn(w, q)
                BY <1>1, <3>2 DEF Listed, PlayersIn
            <4>2. v.player[x] = q
                BY <1>8, <3>2
            <4>3. CASE ~Real(q)
                BY <1>6, <3>0, <3>2, <4>2, <4>3
            <4>4. CASE Real(q)
                <5>1. v.view[x] = w.view[x] \ {p}
                    BY <1>6, <1>12, <3>2, <4>1, <4>4
                <5>2. w.view[x] = (PlayersIn(w, q) \cup NpcsIn(w, q)) \ {x}
                    BY <3>0, <3>2, <4>4 DEF Around
                <5>3. p \notin NpcsIn(w, q)
                    BY InGroup, ObjectsAssumption
                <5>4. PlayersIn(v, q) = PlayersIn(w, q) \ {p} /\ NpcsIn(v, q) = NpcsIn(w, q)
                    BY <1>11
                <5> QED BY <4>2, <4>4, <5>1, <5>2, <5>3, <5>4 DEF Around
            <4> QED BY <4>3, <4>4
        <3>3. CASE x # p /\ w.player[x] # q
            <4>1. x \notin PlayersIn(w, q)
                BY <1>1, <3>3 DEF Listed, PlayersIn
            <4>2. v.view[x] = w.view[x] /\ v.player[x] = w.player[x]
                BY <1>6, <1>8, <1>12, <3>3, <4>1
            <4>3. CASE w.player[x] \in Groups
                <5>1. p \notin PlayersIn(w, w.player[x])
                    BY <1>1, <3>3, <4>3 DEF Listed, PlayersIn
                <5>2. PlayersIn(v, w.player[x]) = PlayersIn(w, w.player[x])
                      /\ NpcsIn(v, w.player[x]) = NpcsIn(w, w.player[x])
                    BY <1>11, <4>3, <5>1
                <5>3. Around(v, x) = Around(w, x)
                    BY <4>2, <5>2 DEF Around
                <5> QED BY <3>0, <4>2, <5>3
            <4>4. CASE w.player[x] \notin Groups
                <5>1. w.player[x] = Nowhere
                    BY <1>1, <4>4 DEF World
                <5> QED BY <3>0, <4>2, <5>1, GroupIs
            <4> QED BY <4>3, <4>4
        <3> QED BY <3>1, <3>2, <3>3
    <2> QED BY <2>1 DEF Shown
<1>14. Declared(v, but \cup {q})
    <2>1. ASSUME NEW y \in w.groups \ (but \cup {q}), Real(y) PROVE AsDeclared(v, y)
        <3>1. y \in Groups
            BY <1>1 DEF World
        <3>2. p \notin PlayersIn(w, y)
            BY <1>1, <2>1, <3>1 DEF Listed, PlayersIn
        <3>3. PlayersIn(v, y) = PlayersIn(w, y)
            BY <1>11, <3>1, <3>2
        <3>4. AsDeclared(w, y)
            BY <1>1, <2>1 DEF Declared
        <3> QED BY <3>3, <3>4 DEF AsDeclared
    <2> QED BY <1>7, <2>1 DEF Declared
<1>15. IdsInOrder(v) /\ OnePerSeed(v) /\ InRooms(v)
    BY <1>1, <1>7 DEF IdsInOrder, OnePerSeed, Standing, InRooms
<1> QED BY <1>6, <1>7, <1>9, <1>10, <1>13, <1>14, <1>15 DEF Sound

\* Leaving, with what AfterLeaveSceneGroup does to the room: all is well, and the
\* player is in group 0 of the scene. Nothing else but the room goes.
LEMMA LeaveSound ==
    ASSUME NEW w, NEW but, Sound(w, {}, but), NEW p \in Players, NEW q \in Groups,
           w.player[p] = q, q \notin but
    PROVE  /\ Sound(Leave(w, p), {p}, but)
           /\ Leave(w, p).player = [w.player EXCEPT ![p] = Group(q.scene, 0)]
           /\ Leave(w, p).groupIndex = w.groupIndex
           /\ Leave(w, p).groups \in {w.groups, w.groups \ {q}}
           /\ \A n \in Npcs : Leave(w, p).npc[n] \in {w.npc[n], NoNpc}
           /\ Leave(w, p).mtDeleteSelfList = w.mtDeleteSelfList
<1>1. w \in World
    BY DEF Sound
<1>2. PICK list : list = w.list \ {<<p, q>>}
    OBVIOUS
<1>3. PICK g \in World : g = [w EXCEPT !.list = list]
    <2>1. list \in SUBSET (Objects \X Groups)
        BY <1>1, <1>2 DEF World
    <2> QED BY <1>1, <2>1 DEF World
<1>4. g.list = w.list \ {<<p, q>>} /\ SameButLists(g, w)
    BY <1>1, <1>2, <1>3 DEF World, SameButLists
<1>5. PICK v : v = SetGroupID(g, p, 0)
    OBVIOUS
<1>6. PICK u : u = Leave(w, p)
    OBVIOUS
<1>7. u = AfterLeaveSceneGroup(v, q)
    BY <1>1, <1>2, <1>3, <1>5, <1>6 DEF Leave
<1>8. /\ Sound(v, {p}, but \cup {q})
      /\ v.player = [w.player EXCEPT ![p] = Group(q.scene, 0)]
      /\ v.groupIndex = w.groupIndex /\ v.groups = w.groups /\ v.npc = w.npc
      /\ v.mtDeleteSelfList = w.mtDeleteSelfList
      /\ q \in w.groups
    BY <1>4, <1>5, OffTheList
<1>9. /\ v \in World /\ Listed(v, {p}) /\ Shown(v) /\ Declared(v, but \cup {q})
      /\ IdsInOrder(v) /\ OnePerSeed(v) /\ InRooms(v)
    BY <1>8 DEF Sound
<1>10. SceneType[q.scene] \in {"NORMAL", "SINGLE_CLONE", "MULTI_CLONE"}
    BY SceneTypeAssumption, GroupIs
<1>11. CASE u = v
    <2>1. Declared(v, but)
        <3>1. ASSUME q \notin but, Real(q) PROVE AsDeclared(v, q)
            <4>1. SceneType[q.scene] # "SINGLE_CLONE"
                  /\ (SceneType[q.scene] = "MULTI_CLONE" => PlayersIn(v, q) # {})
                <5>1. ASSUME \/ SceneType[q.scene] = "SINGLE_CLONE"
                             \/ SceneType[q.scene] = "MULTI_CLONE" /\ PlayersIn(v, q) = {}
                      PROVE  FALSE
                    <6>1. u = ReleaseGroupScene(v, q)
                        BY <1>7, <1>8, <5>1 DEF AfterLeaveSceneGroup
                    <6>2. u.groups = v.groups \ {q}
                        BY <1>9, <3>1, <6>1, GroupReleased
                    <6> QED BY <1>8, <1>11, <6>2
                <5> QED BY <5>1
            <4>2. SceneType[q.scene] = "NORMAL" => q.group = 1
                <5>1. AsDeclared(w, q)
                    BY <1>8, <3>1 DEF Sound, Declared
                <5> QED BY <5>1 DEF AsDeclared
            <4> QED BY <4>1, <4>2 DEF AsDeclared
        <3> QED BY <1>9, <3>1 DEF Declared
    <2>2. Sound(v, {p}, but)
        BY <1>9, <2>1 DEF Sound
    <2> QED BY <1>6, <1>8, <1>11, <2>2
<1>12. CASE u # v
    <2>1. /\ u = ReleaseGroupScene(v, q)
          /\ \/ SceneType[q.scene] = "SINGLE_CLONE"
             \/ SceneType[q.scene] = "MULTI_CLONE" /\ PlayersIn(v, q) = {}
        BY <1>7, <1>12 DEF AfterLeaveSceneGroup
    <2>2. Real(q)
        <3>1. ReleaseGroupScene(v, q) = IF q.group <= 0 THEN v ELSE ReleaseGroupScene(v, q)
            BY DEF ReleaseGroupScene
        <3> QED BY <1>12, <2>1, <3>1, GroupIs DEF Real
    <2>3. PICK ns : ns = NpcsIn(v, q)
        OBVIOUS
    <2>4. /\ u \in World /\ u.groupIndex = v.groupIndex /\ u.player = v.player
          /\ u.mtDeleteSelfList = v.mtDeleteSelfList /\ u.groups = v.groups \ {q}
          /\ u.list = {x \in v.list : x[1] \notin ns /\ x[2] # q}
          /\ \A n \in Npcs : u.npc[n] = IF n \in ns THEN NoNpc ELSE v.npc[n]
          /\ \A x \in Players : IF x \in PlayersIn(v, q) THEN u.view[x] = v.view[x] \ ns
                                                       ELSE u.view[x] = v.view[x]
        BY <1>9, <2>1, <2>2, <2>3, GroupReleased
    <2>5. PlayersIn(v, q) = {}
        <3>1. CASE SceneType[q.scene] = "SINGLE_CLONE"
            <4>1. AsDeclared(w, q)
                BY <1>8, <2>2 DEF Sound, Declared
            <4>2. PICK x \in Players : PlayersIn(w, q) = {x}
                BY <3>1, <4>1 DEF AsDeclared
            <4>3. PlayersIn(w, q) = {y \in Players \ {} : w.player[y] = q}
                BY <1>1, WhoIsIn DEF Sound
            <4>4. x = p
                BY <4>2, <4>3
            <4>5. PlayersIn(v, q) = {y \in Players \ {p} : v.player[y] = q}
                BY <1>9, WhoIsIn
            <4>6. \A y \in Players \ {p} : v.player[y] = w.player[y]
                BY <1>1, <1>8 DEF World
            <4> QED BY <4>2, <4>3, <4>4, <4>5, <4>6
        <3> QED BY <2>1, <3>1
    <2>6. \A y \in Players : v.player[y] # q
        <3>1. PlayersIn(v, q) = {y \in Players \ {p} : v.player[y] = q}
            BY <1>9, WhoIsIn
        <3>2. v.player[p] # q
            <4>1. ~Real(v.player[p])
                BY <1>9 DEF Listed
            <4> QED BY <2>2, <4>1
        <3> QED BY <2>5, <3>1, <3>2
    <2>7. \A n \in Npcs : n \in ns <=> v.npc[n] # NoNpc /\ v.npc[n].at = q
        BY <1>9, <2>3, WhoIsIn
    <2>8. Listed(u, {p})
        <3>1. ASSUME NEW x \in Players, NEW y \in Groups
              PROVE  <<x, y>> \in u.list <=> x \notin {p} /\ u.player[x] = y
            <4>1. <<x, y>> \in v.list <=> x \notin {p} /\ v.player[x] = y
                BY <1>9 DEF Listed
            <4>2. x \notin ns
                BY <2>3, InGroup, ObjectsAssumption
            <4>3. <<x, y>> \in u.list <=> <<x, y>> \in v.list /\ y # q
                BY <2>4, <4>2
            <4> QED BY <2>4, <2>6, <4>1, <4>3
        <3>2. ASSUME NEW n \in Npcs, NEW y \in Groups
              PROVE  <<n, y>> \in u.list <=> u.npc[n] # NoNpc /\ u.npc[n].at = y
            <4>1. <<n, y>> \in v.list <=> v.npc[n] # NoNpc /\ v.npc[n].at = y
                BY <1>9 DEF Listed
            <4>2. <<n, y>> \in u.list <=> <<n, y>> \in v.list /\ n \notin ns /\ y # q
                BY <2>4
            <4>3. u.npc[n] = IF n \in ns THEN NoNpc ELSE v.npc[n]
                BY <2>4
            <4> QED BY <2>7, <4>1, <4>2, <4>3
        <3>3. \A x \in u.list : x[2] \in u.groups
            BY <1>9, <2>4 DEF Listed
        <3>4. ~Real(u.player[p])
            BY <1>9, <2>4 DEF Listed
        <3> QED BY <3>1, <3>2, <3>3, <3>4 DEF Listed
    <2>9. ASSUME NEW y \in Groups, y # q
          PROVE  PlayersIn(u, y) = PlayersIn(v, y) /\ NpcsIn(u, y) = NpcsIn(v, y)
        <3>1. /\ PlayersIn(u, y) = {x \in Players \ {p} : u.player[x] = y}
              /\ NpcsIn(u, y) = {n \in Npcs : u.npc[n] # NoNpc /\ u.npc[n].at = y}
            BY <2>4, <2>8, WhoIsIn
        <3>2. /\ PlayersIn(v, y) = {x \in Players \ {p} : v.player[x] = y}
              /\ NpcsIn(v, y) = {n \in Npcs : v.npc[n] # NoNpc /\ v.npc[n].at = y}
            BY <1>9, WhoIsIn
        <3>3. \A n \in Npcs : u.npc[n] # NoNpc /\ u.npc[n].at = y
                             <=> v.npc[n] # NoNpc /\ v.npc[n].at = y
            BY <2>4, <2>7, <2>9
        <3> QED BY <2>4, <3>1, <3>2, <3>3
    <2>10. Shown(u)
        <3>1. ASSUME NEW x \in Players
              PROVE  /\ Real(u.player[x]) => u.view[x] = Around(u, x)
                     /\ ~Real(u.player[x]) => u.view[x] = {}
            <4>1. u.view[x] = v.view[x] /\ u.player[x] = v.player[x]
                BY <2>4, <2>5
            <4>2. /\ Real(v.player[x]) => v.view[x] = Around(v, x)
                  /\ ~Real(v.player[x]) => v.view[x] = {}
                BY <1>9 DEF Shown
            <4>3. ASSUME Real(v.player[x]) PROVE Around(u, x) = Around(v, x)
                <5>1. v.player[x] \in Groups
                    BY <1>9, <4>3, GroupIs DEF World
                <5>2. v.player[x] # q
                    BY <2>6
                <5> QED BY <2>9, <4>1, <5>1, <5>2 DEF Around
            <4> QED BY <4>1, <4>2, <4>3
        <3> QED BY <3>1 DEF Shown
    <2>11. Declared(u, but)
        <3>1. ASSUME NEW y \in u.groups \ but, Real(y) PROVE AsDeclared(u, y)
            <4>1. y \in v.groups \ (but \cup {q}) /\ y \in Groups
                BY <1>9, <2>4 DEF World
            <4>2. AsDeclared(v, y)
                BY <1>9, <3>1, <4>1 DEF Declared
            <4>3. PlayersIn(u, y) = PlayersIn(v, y)
                BY <2>9, <4>1
            <4> QED BY <4>2, <4>3 DEF AsDeclared
        <3> QED BY <3>1 DEF Declared
    <2>12. IdsInOrder(u)
        <3>1. \A s \in Scenes : Group(s, 0) # q
            BY <2>2, GroupIs, MaxGroupAssumption DEF Real
        <3> QED BY <1>9, <2>4, <3>1 DEF IdsInOrder
    <2>13. OnePerSeed(u)
        <3>1. \A n \in Npcs : Standing(u, n) => Standing(v, n) /\ u.npc[n] = v.npc[n]
            <4>1. ASSUME NEW n \in Npcs, Standing(u, n) PROVE n \notin ns
                BY <2>4, <4>1, NpcIs
            <4> QED BY <2>4, <4>1 DEF Standing
        <3> QED BY <1>9, <3>1 DEF OnePerSeed
    <2>14. InRooms(u)
        BY <1>9, <2>4 DEF InRooms
    <2>15. Sound(u, {p}, but)
        BY <2>4, <2>8, <2>10, <2>11, <2>12, <2>13, <2>14 DEF Sound
    <2> QED BY <1>6, <1>8, <2>4, <2>15
<1> QED BY <1>11, <1>12

-------------------------------------------------------------------------------
(* Entering a group. *)

\* The object of a player that is in no group gets another place that is none.
LEMMA OutMoves ==
    ASSUME NEW w, NEW p \in Players, NEW but, Sound(w, {p}, but),
           NEW v \in World, SameButPlayers(v, w), v.view = w.view,
           NEW z, ~Real(z), v.player = [w.player EXCEPT ![p] = z]
    PROVE  Sound(v, {p}, but)
<1>1. /\ w \in World /\ Listed(w, {p}) /\ Shown(w) /\ Declared(w, but)
      /\ IdsInOrder(w) /\ OnePerSeed(w) /\ InRooms(w)
    BY DEF Sound
<1>2. /\ v.groupIndex = w.groupIndex /\ v.groups = w.groups /\ v.list = w.list
      /\ v.npc = w.npc /\ v.view = w.view
    BY DEF SameButPlayers
<1>3. v.player[p] = z /\ \A x \in Players \ {p} : v.player[x] = w.player[x]
    BY <1>1 DEF World
<1>4. Listed(v, {p})
    BY <1>1, <1>2, <1>3 DEF Listed
<1>5. \A q : PlayersIn(v, q) = PlayersIn(w, q) /\ NpcsIn(v, q) = NpcsIn(w, q)
    BY <1>2 DEF PlayersIn, NpcsIn
<1>6. Shown(v)
    <2>1. ASSUME NEW x \in Players
          PROVE  /\ Real(v.player[x]) => v.view[x] = Around(v, x)
                 /\ ~Real(v.player[x]) => v.view[x] = {}
        <3>1. /\ Real(w.player[x]) => w.view[x] = Around(w, x)
              /\ ~Real(w.player[x]) => w.view[x] = {}
            BY <1>1 DEF Shown
        <3>2. CASE x = p
            <4>1. ~Real(w.player[x])
                BY <1>1, <3>2 DEF Listed
            <4> QED BY <1>2, <1>3, <3>1, <3>2, <4>1
        <3>3. CASE x # p
            <4>1. v.player[x] = w.player[x] /\ v.view[x] = w.view[x]
                BY <1>2, <1>3, <3>3
            <4>2. Around(v, x) = Around(w, x)
                BY <1>5, <4>1 DEF Around
            <4> QED BY <3>1, <4>1, <4>2
        <3> QED BY <3>2, <3>3
    <2> QED BY <2>1 DEF Shown
<1>7. Declared(v, but)
    BY <1>1, <1>2, <1>5 DEF Declared, AsDeclared
<1>8. IdsInOrder(v) /\ OnePerSeed(v) /\ InRooms(v)
    BY <1>1, <1>2 DEF IdsInOrder, OnePerSeed, Standing, InRooms
<1> QED BY <1>4, <1>6, <1>7, <1>8 DEF Sound

\* The object gets the scene it goes to.
SceneIs(w, p, s) == [w EXCEPT !.player[p].scene = s]

LEMMA SceneSet ==
    ASSUME NEW w, NEW p \in Players, NEW but, Sound(w, {p}, but),
           w.player[p] \in Groups, NEW s \in Scenes,
           NEW v, v = SceneIs(w, p, s)
    PROVE  /\ Sound(v, {p}, but) /\ SameButPlayers(v, w)
           /\ v.player = [w.player EXCEPT ![p] = Group(s, 0)]
<1>1. w \in World /\ w.player \in [Players -> Groups \cup {Nowhere}]
    BY DEF Sound, World
<1>2. PICK to : to = [w.player[p] EXCEPT !.scene = s]
    OBVIOUS
<1>3. to = Group(s, 0) /\ to \in Groups /\ ~Real(to)
    <2>1. w.player[p].group = 0
        BY GroupIs DEF Sound, Listed
    <2>2. to = [scene |-> s, group |-> w.player[p].group]
        BY <1>2 DEF Groups
    <2>3. to = Group(s, 0)
        BY <2>1, <2>2 DEF Group
    <2> QED BY <2>3, GroupIs, MaxGroupAssumption DEF Real
<1>4. PICK moved : moved = [w.player EXCEPT ![p] = to]
    OBVIOUS
<1>5. moved \in [Players -> Groups \cup {Nowhere}]
    BY <1>1, <1>3, <1>4
<1>6. v = [w EXCEPT !.player = moved]
    BY <1>1, <1>2, <1>4 DEF SceneIs
<1>7. v \in World /\ v.view = w.view /\ SameButPlayers(v, w) /\ v.player = moved
    BY <1>1, <1>5, <1>6 DEF World, SameButPlayers
<1>8. v.player = [w.player EXCEPT ![p] = to]
    BY <1>4, <1>7
<1>9. Sound(v, {p}, but)
    BY <1>3, <1>7, <1>8, OutMoves
<1> QED BY <1>3, <1>7, <1>8, <1>9

\* A player is put on a group's list and told so: it is in the group.
LEMMA EnterSound ==
    ASSUME NEW w, NEW p \in Players, NEW q \in Groups, Real(q), Sound(w, {p}, {q}),
           q \in w.groups, w.player[p] = Group(q.scene, 0),
           SceneType[q.scene] = "NORMAL" => q.group = 1,
           SceneType[q.scene] = "SINGLE_CLONE" => PlayersIn(w, q) = {},
           NEW u, u = SetGroupID([w EXCEPT !.list = @ \cup {<<p, q>>}], p, q.group)
    PROVE  Sound(u, {}, {})
<1>1. /\ w \in World /\ Listed(w, {p}) /\ Shown(w) /\ Declared(w, {q})
      /\ IdsInOrder(w) /\ OnePerSeed(w) /\ InRooms(w)
    BY DEF Sound
<1>2. PICK list : list = w.list \cup {<<p, q>>}
    OBVIOUS
<1>3. PICK g \in World : g = [w EXCEPT !.list = list]
    <2>1. list \in SUBSET (Objects \X Groups)
        BY <1>1, <1>2 DEF World, Objects
    <2> QED BY <1>1, <2>1 DEF World
<1>4. g.list = list /\ SameButLists(g, w)
    BY <1>1, <1>3 DEF World, SameButLists
<1>5. g.player[p] = Group(q.scene, 0) /\ u = SetGroupID(g, p, q.group)
    BY <1>1, <1>2, <1>3, <1>4 DEF SameButLists
<1>6. /\ u \in World /\ SameButPlayers(u, g)
      /\ u.player = [g.player EXCEPT ![p] = q]
      /\ \A x \in Players :
           IF x = p THEN u.view[x] = g.view[x] \cup ((PlayersIn(g, q) \ {p}) \cup NpcsIn(g, q))
           ELSE IF x \in PlayersIn(g, q) THEN u.view[x] = g.view[x] \cup {p}
           ELSE u.view[x] = g.view[x]
    <2>1. g \in World /\ p \in Players /\ q \in Groups /\ Real(q)
        BY <1>3
    <2> QED BY ONLY <1>5, <2>1, GroupEntered
<1>7. /\ u.groupIndex = w.groupIndex /\ u.groups = w.groups /\ u.npc = w.npc
      /\ u.list = list /\ g.view = w.view /\ u.player = [w.player EXCEPT ![p] = q]
    BY <1>4, <1>6 DEF SameButPlayers, SameButLists
<1>8. u.player[p] = q /\ \A x \in Players \ {p} : u.player[x] = w.player[x]
    BY <1>1, <1>7 DEF World
<1>9. /\ \A x \in Players, y \in Groups :
              <<x, y>> \in u.list <=> <<x, y>> \in w.list \/ (x = p /\ y = q)
      /\ \A n \in Npcs, y \in Groups : <<n, y>> \in u.list <=> <<n, y>> \in w.list
      /\ \A x \in u.list : x \in w.list \/ x[2] = q
    <2>1. u.list = w.list \cup {<<p, q>>}
        BY <1>2, <1>7
    <2>2. ASSUME NEW x, NEW y
          PROVE  <<x, y>> \in u.list <=> <<x, y>> \in w.list \/ (x = p /\ y = q)
        BY ONLY <2>1
    <2>3. \A n \in Npcs : n # p
        BY ObjectsAssumption
    <2>4. ASSUME NEW x \in u.list PROVE x \in w.list \/ x[2] = q
        BY ONLY <2>1, <2>4
    <2> QED BY ONLY <2>2, <2>3, <2>4
<1>10. Listed(u, {})
    <2>1. ASSUME NEW x \in Players, NEW y \in Groups
          PROVE  <<x, y>> \in u.list <=> u.player[x] = y
        <3>1. <<x, y>> \in w.list <=> x \notin {p} /\ w.player[x] = y
            BY <1>1 DEF Listed
        <3> QED BY <1>8, <1>9, <3>1
    <2>2. ASSUME NEW n \in Npcs, NEW y \in Groups
          PROVE  <<n, y>> \in u.list <=> u.npc[n] # NoNpc /\ u.npc[n].at = y
        <3>1. <<n, y>> \in w.list <=> w.npc[n] # NoNpc /\ w.npc[n].at = y
            BY <1>1 DEF Listed
        <3> QED BY <1>7, <1>9, <3>1
    <2>3. \A x \in u.list : x[2] \in u.groups
        BY <1>1, <1>7, <1>9 DEF Listed
    <2> QED BY <2>1, <2>2, <2>3 DEF Listed
<1>11. \A y \in Groups : /\ NpcsIn(u, y) = NpcsIn(w, y)
                         /\ y # q => PlayersIn(u, y) = PlayersIn(w, y)
                         /\ y = q => PlayersIn(u, y) = PlayersIn(w, y) \cup {p}
    BY <1>9 DEF PlayersIn, NpcsIn
<1>12. /\ p \notin PlayersIn(w, q)
       /\ PlayersIn(g, q) = PlayersIn(w, q) \cup {p} /\ NpcsIn(g, q) = NpcsIn(w, q)
    <2>1. p \notin PlayersIn(w, q)
        BY <1>1 DEF Listed, PlayersIn
    <2>2. g.list = u.list
        BY <1>4, <1>7
    <2> QED BY <1>11, <2>1, <2>2 DEF PlayersIn, NpcsIn
<1>13. Shown(u)
    <2>1. ASSUME NEW x \in Players
          PROVE  /\ Real(u.player[x]) => u.view[x] = Around(u, x)
                 /\ ~Real(u.player[x]) => u.view[x] = {}
        <3>0. /\ Real(w.player[x]) => w.view[x] = Around(w, x)
              /\ ~Real(w.player[x]) => w.view[x] = {}
            BY <1>1 DEF Shown
        <3>1. CASE x = p
            <4>1. w.view[p] = {}
                BY <1>1, <3>0, <3>1 DEF Listed
            <4>2. u.view[p] = PlayersIn(w, q) \cup NpcsIn(w, q)
                BY <1>6, <1>7, <1>12, <4>1
            <4>3. p \notin NpcsIn(w, q)
                BY InGroup, ObjectsAssumption
            <4>4. Around(u, p) = ((PlayersIn(w, q) \cup {p}) \cup NpcsIn(w, q)) \ {p}
                BY <1>8, <1>11 DEF Around
            <4>5. Around(u, p) = u.view[p]
                BY <1>12, <4>2, <4>3, <4>4
            <4> QED BY <1>8, <3>1, <4>5
        <3>2. CASE x # p /\ x \in PlayersIn(w, q)
            <4>1. w.player[x] = q /\ u.player[x] = q
                BY <1>1, <1>8, <3>2 DEF Listed, PlayersIn
            <4>2. u.view[x] = w.view[x] \cup {p}
                BY <1>6, <1>7, <1>12, <3>2
            <4>3. w.view[x] = (PlayersIn(w, q) \cup NpcsIn(w, q)) \ {x}
                BY <3>0, <4>1 DEF Around
            <4>4. Around(u, x) = ((PlayersIn(w, q) \cup {p}) \cup NpcsIn(w, q)) \ {x}
                BY <1>11, <4>1 DEF Around
            <4>5. Around(u, x) = u.view[x]
                BY <3>2, <4>2, <4>3, <4>4
            <4> QED BY <4>1, <4>5
        <3>3. CASE x # p /\ x \notin PlayersIn(w, q)
            <4>1. u.view[x] = w.view[x] /\ u.player[x] = w.player[x]
                BY <1>6, <1>7, <1>8, <1>12, <3>3
            <4>2. w.player[x] # q
                BY <1>1, <3>3 DEF Listed, PlayersIn
            <4>3. ASSUME Real(w.player[x]) PROVE Around(u, x) = Around(w, x)
                <5>1. w.player[x] \in Groups
                    BY <1>1, <4>3, GroupIs DEF World
                <5> QED BY <1>11, <4>1, <4>2, <5>1 DEF Around
            <4> QED BY <3>0, <4>1, <4>3
        <3> QED BY <3>1, <3>2, <3>3
    <2> QED BY <2>1 DEF Shown
<1>14. Declared(u, {})
    <2>1. ASSUME NEW y \in w.groups, Real(y) PROVE AsDeclared(u, y)
        <3>1. y \in Groups
            BY <1>1 DEF World
        <3>2. CASE y # q
            <4>1. AsDeclared(w, y)
                BY <1>1, <2>1, <3>2 DEF Declared
            <4>2. PlayersIn(u, y) = PlayersIn(w, y)
                BY <1>11, <3>1, <3>2
            <4> QED BY <4>1, <4>2 DEF AsDeclared
        <3>3. CASE y = q
            <4>1. PlayersIn(u, q) = PlayersIn(w, q) \cup {p}
                BY <1>11
            <4>2. SceneType[q.scene] = "SINGLE_CLONE" => PlayersIn(u, q) = {p}
                BY <4>1
            <4> QED BY <3>3, <4>1, <4>2 DEF AsDeclared
        <3> QED BY <3>2, <3>3
    <2> QED BY <1>7, <2>1 DEF Declared
<1>15. IdsInOrder(u) /\ OnePerSeed(u) /\ InRooms(u)
    BY <1>1, <1>7 DEF IdsInOrder, OnePerSeed, Standing, InRooms
<1> QED BY <1>6, <1>10, <1>13, <1>14, <1>15 DEF Sound

-------------------------------------------------------------------------------
(* New rooms. *)

\* A group that was requested is a new one, with nobody in it yet.
LEMMA RequestSound ==
    ASSUME NEW w, Sound(w, {}, {}), NEW s \in Scenes, w.groupIndex[s] < MaxGroup,
           NEW q, q = NewGroup(w, s), NEW v, v = RequestGroupScene(w, s)
    PROVE  /\ Sound(v, {}, {q}) /\ q \in Groups /\ Real(q) /\ q.scene = s
           /\ v.groups = w.groups \cup {q} /\ v.player = w.player /\ v.npc = w.npc
           /\ \A p \in Players : w.player[p] # q
           /\ \A n \in Npcs : w.npc[n].at # q
<1>1. /\ w \in World /\ Listed(w, {}) /\ Shown(w) /\ Declared(w, {})
      /\ IdsInOrder(w) /\ OnePerSeed(w) /\ InRooms(w)
    BY DEF Sound
<1>2. PICK i : i = w.groupIndex[s]
    OBVIOUS
<1>3. w.groupIndex \in [Scenes -> -1 .. MaxGroup]
    BY <1>1 DEF World
<1>4. i \in Nat /\ i + 1 \in 0 .. MaxGroup
    <2>1. Group(s, 0).group <= w.groupIndex[Group(s, 0).scene]
        BY <1>1 DEF IdsInOrder
    <2>2. 0 <= i
        BY <1>2, <2>1 DEF Group
    <2> QED BY <1>2, <1>3, <2>2, MaxGroupAssumption
<1>5. q = Group(s, i + 1)
    BY <1>2 DEF NewGroup
<1>6. q \in Groups /\ q.scene = s /\ q.group = i + 1
    BY <1>4, <1>5, GroupIs
<1>7. Real(q)
    BY <1>4, <1>6 DEF Real
<1>8. q \notin w.groups
    BY <1>1, <1>2, <1>3, <1>4, <1>6 DEF IdsInOrder
<1>9. PICK index : index = [w.groupIndex EXCEPT ![s] = i + 1]
    OBVIOUS
<1>10. index \in [Scenes -> -1 .. MaxGroup]
    BY <1>3, <1>4, <1>9
<1>11. PICK groups : groups = w.groups \cup {q}
    OBVIOUS
<1>12. groups \in SUBSET Groups
    BY <1>1, <1>6, <1>11 DEF World
<1>13. v = [w EXCEPT !.groupIndex = index, !.groups = groups]
    BY <1>1, <1>2, <1>5, <1>9, <1>11 DEF RequestGroupScene, World
<1>14. /\ v \in World /\ v.groupIndex = index /\ v.groups = w.groups \cup {q}
       /\ v.list = w.list /\ v.player = w.player /\ v.npc = w.npc /\ v.view = w.view
    BY <1>1, <1>10, <1>11, <1>12, <1>13 DEF World
<1>15. Listed(v, {})
    BY <1>1, <1>14 DEF Listed
<1>16. \A y : PlayersIn(v, y) = PlayersIn(w, y) /\ NpcsIn(v, y) = NpcsIn(w, y)
    BY <1>14 DEF PlayersIn, NpcsIn
<1>17. Shown(v)
    BY <1>1, <1>14, <1>16 DEF Shown, Around
<1>18. Declared(v, {q})
    BY <1>1, <1>14, <1>16 DEF Declared, AsDeclared
<1>19. IdsInOrder(v)
    <2>1. ASSUME NEW y \in v.groups PROVE y.group <= index[y.scene]
        <3>1. CASE y = q
            <4>1. index[s] = i + 1
                BY <1>3, <1>9
            <4> QED BY <1>4, <1>6, <3>1, <4>1
        <3>2. CASE y \in w.groups
            <4>1. y.group <= w.groupIndex[y.scene]
                BY <1>1, <3>2 DEF IdsInOrder
            <4>2. y \in Groups
                BY <1>1, <3>2 DEF World
            <4>3. y.scene \in Scenes /\ y.group \in Nat
                BY <4>2, GroupIs
            <4>4. CASE y.scene = s
                BY <1>2, <1>3, <1>4, <1>9, <4>1, <4>3, <4>4
            <4>5. CASE y.scene # s
                BY <1>3, <1>9, <4>1, <4>3, <4>5
            <4> QED BY <4>4, <4>5
        <3> QED BY <1>14, <3>1, <3>2
    <2> QED BY <1>1, <1>14, <2>1 DEF IdsInOrder
<1>20. OnePerSeed(v) /\ InRooms(v)
    BY <1>1, <1>14 DEF OnePerSeed, Standing, InRooms
<1>21. Sound(v, {}, {q})
    BY <1>14, <1>15, <1>17, <1>18, <1>19, <1>20 DEF Sound
<1>22. \A p \in Players : w.player[p] # q
    <2>1. ASSUME NEW p \in Players, w.player[p] = q PROVE FALSE
        <3>1. <<p, q>> \in w.list
            BY <1>1, <1>6, <2>1 DEF Listed
        <3> QED BY <1>1, <1>8, <3>1 DEF Listed
    <2> QED BY <2>1
<1>23. \A n \in Npcs : w.npc[n].at # q
    <2>1. ASSUME NEW n \in Npcs, w.npc[n].at = q PROVE FALSE
        <3>1. w.npc[n] # NoNpc
            BY <1>6, <2>1, GroupIs DEF NoNpc
        <3>2. <<n, q>> \in w.list
            BY <1>1, <1>6, <2>1, <3>1 DEF Listed
        <3> QED BY <1>1, <1>8, <3>2 DEF Listed
    <2> QED BY <2>1
<1> QED BY <1>6, <1>7, <1>14, <1>21, <1>22, <1>23

\* Births gives every seed another id that is free.
NewIds(w, seeds, born) ==
    /\ seeds \in SUBSET Seeds /\ born \in [seeds -> Npcs]
    /\ \A s \in seeds : w.npc[born[s]] = NoNpc
    /\ \A s, t \in seeds : s # t => born[s] # born[t]

\* The monsters of a room are made while nobody is there.
LEMMA CreateSceneNPCSound ==
    ASSUME NEW w, NEW out, NEW but, Sound(w, out, but), NEW q \in Groups, Real(q),
           q \in w.groups, PlayersIn(w, q) = {}, \A n \in Npcs : w.npc[n].at # q,
           NEW seeds, NEW born, NewIds(w, seeds, born),
           NEW v, v = CreateSceneNPC(w, q, born)
    PROVE  /\ Sound(v, out, but) /\ v.player = w.player /\ v.groups = w.groups
           /\ PlayersIn(v, q) = {}
<1>1. /\ w \in World /\ Listed(w, out) /\ Shown(w) /\ Declared(w, but)
      /\ IdsInOrder(w) /\ OnePerSeed(w) /\ InRooms(w)
    BY DEF Sound
<1>2. /\ seeds \in SUBSET Seeds /\ born \in [seeds -> Npcs] /\ DOMAIN born = seeds
      /\ \A s \in seeds : born[s] \in Npcs /\ w.npc[born[s]] = NoNpc
      /\ \A s, t \in seeds : s # t => born[s] # born[t]
    BY DEF NewIds
<1>3. PICK ns : ns = {born[s] : s \in seeds}
    OBVIOUS
<1>4. PICK npc : npc = [n \in Npcs |->
                    IF \E s \in seeds : born[s] = n
                    THEN [at |-> q, hp |-> "alive",
                          seed |-> CHOOSE s \in seeds : born[s] = n]
                    ELSE w.npc[n]]
    OBVIOUS
<1>5. PICK list : list = w.list \cup {<<born[s], q>> : s \in seeds}
    OBVIOUS
<1>6. \A s \in seeds : npc[born[s]] = [at |-> q, hp |-> "alive", seed |-> s]
    <2>1. ASSUME NEW s \in seeds PROVE npc[born[s]] = [at |-> q, hp |-> "alive", seed |-> s]
        <3>1. PICK t : t = CHOOSE k \in seeds : born[k] = born[s]
            OBVIOUS
        <3>2. t \in seeds /\ born[t] = born[s]
            BY <3>1
        <3>3. t = s
            BY <1>2, <3>2
        <3> QED BY <1>2, <1>4, <3>1, <3>3
    <2> QED BY <2>1
<1>7. \A n \in Npcs : n \notin ns => npc[n] = w.npc[n]
    BY <1>3, <1>4
<1>8. npc \in [Npcs -> {NoNpc} \cup
                [at : Groups, seed : Seeds, hp : {"alive", "dead", "leaving"}]]
    <2>1. ASSUME NEW n \in Npcs
          PROVE  npc[n] \in {NoNpc} \cup
                     [at : Groups, seed : Seeds, hp : {"alive", "dead", "leaving"}]
        <3>1. CASE n \in ns
            <4>1. PICK s \in seeds : n = born[s]
                BY <1>3, <3>1
            <4>2. npc[n] = [at |-> q, hp |-> "alive", seed |-> s]
                BY <1>6, <4>1
            <4>3. s \in Seeds
                BY <1>2
            <4>4. [at |-> q, hp |-> "alive", seed |-> s]
                    \in [at : Groups, seed : Seeds, hp : {"alive", "dead", "leaving"}]
                BY <4>3
            <4> QED BY <4>2, <4>4
        <3>2. CASE n \notin ns
            BY <1>1, <1>7, <3>2 DEF World
        <3> QED BY <3>1, <3>2
    <2> QED BY <1>4, <2>1
<1>9. list \in SUBSET (Objects \X Groups)
    BY <1>1, <1>2, <1>5 DEF World, Objects
<1>10. PICK g \in World : g = [w EXCEPT !.npc = npc, !.list = list]
    BY <1>1, <1>8, <1>9 DEF World
<1>11. /\ g.groupIndex = w.groupIndex /\ g.groups = w.groups /\ g.player = w.player
       /\ g.npc = npc /\ g.list = list /\ g.view = w.view
    BY <1>1, <1>10 DEF World
<1>12. ns \in SUBSET Objects
    BY <1>2, <1>3 DEF Objects
<1>13. v = OnObjectListEnter(g, {}, ns)
    <2>1. w.npc \in [Npcs -> {NoNpc} \cup
                [at : Groups, seed : Seeds, hp : {"alive", "dead", "leaving"}]]
        BY <1>1 DEF World
    <2>2. CreateSceneNPC(w, q, born) = OnObjectListEnter(
              [w EXCEPT !.npc = [n \in Npcs |->
                    IF \E s \in seeds : born[s] = n
                    THEN [at |-> q, hp |-> "alive",
                          seed |-> CHOOSE s \in seeds : born[s] = n]
                    ELSE w.npc[n]], !.list = w.list \cup {<<born[s], q>> : s \in seeds}],
              {}, {born[s] : s \in seeds})
        BY <1>1, <1>2, <2>1 DEF CreateSceneNPC, World
    <2> QED BY <1>3, <1>4, <1>5, <1>10, <2>2
<1>14. /\ v \in World /\ SameButViews(v, g)
       /\ \A p \in Players : IF p \in {} THEN v.view[p] = g.view[p] \cup ns
                                        ELSE v.view[p] = g.view[p]
    <2>1. g \in World
        BY <1>10
    <2> QED BY ONLY <1>12, <1>13, <2>1, EnterTold
<1>15. /\ v.groupIndex = w.groupIndex /\ v.groups = w.groups /\ v.player = w.player
       /\ v.npc = npc /\ v.list = list /\ \A p \in Players : v.view[p] = w.view[p]
    BY <1>11, <1>14 DEF SameButViews
<1>16. /\ \A p \in Players, y \in Groups : <<p, y>> \in list <=> <<p, y>> \in w.list
       /\ \A n \in Npcs, y \in Groups :
              <<n, y>> \in list <=> <<n, y>> \in w.list \/ (n \in ns /\ y = q)
       /\ \A x \in list : x \in w.list \/ x[2] = q
    <2>1. ASSUME NEW x, NEW y
          PROVE  <<x, y>> \in list <=> <<x, y>> \in w.list \/ (x \in ns /\ y = q)
        BY ONLY <1>3, <1>5
    <2>2. \A p \in Players : p \notin ns
        BY <1>2, <1>3, ObjectsAssumption
    <2>3. ASSUME NEW x \in list PROVE x \in w.list \/ x[2] = q
        BY ONLY <1>5, <2>3
    <2> QED BY ONLY <2>1, <2>2, <2>3
<1>17. Listed(v, out)
    <2>1. ASSUME NEW n \in Npcs, NEW y \in Groups
          PROVE  <<n, y>> \in v.list <=> v.npc[n] # NoNpc /\ v.npc[n].at = y
        <3>1. <<n, y>> \in w.list <=> w.npc[n] # NoNpc /\ w.npc[n].at = y
            BY <1>1 DEF Listed
        <3>2. CASE n \in ns
            <4>1. PICK s \in seeds : n = born[s]
                BY <1>3, <3>2
            <4>2. npc[n] = [at |-> q, hp |-> "alive", seed |-> s] /\ w.npc[n] = NoNpc
                BY <1>2, <1>6, <4>1
            <4>3. npc[n].at = q /\ npc[n] # NoNpc
                BY <4>2, GroupIs DEF NoNpc
            <4> QED BY <1>15, <1>16, <3>1, <3>2, <4>2, <4>3
        <3>3. CASE n \notin ns
            BY <1>7, <1>15, <1>16, <3>1, <3>3
        <3> QED BY <3>2, <3>3
    <2>2. \A x \in v.list : x[2] \in v.groups
        BY <1>1, <1>15, <1>16 DEF Listed
    <2> QED BY <1>1, <1>15, <1>16, <2>1, <2>2 DEF Listed
<1>18. \A y \in Groups : PlayersIn(v, y) = PlayersIn(w, y)
                        /\ (y # q => NpcsIn(v, y) = NpcsIn(w, y))
    BY <1>15, <1>16 DEF PlayersIn, NpcsIn
<1>19. Shown(v)
    <2>1. ASSUME NEW x \in Players
          PROVE  /\ Real(v.player[x]) => v.view[x] = Around(v, x)
                 /\ ~Real(v.player[x]) => v.view[x] = {}
        <3>1. /\ Real(w.player[x]) => w.view[x] = Around(w, x)
              /\ ~Real(w.player[x]) => w.view[x] = {}
            BY <1>1 DEF Shown
        <3>2. ASSUME Real(w.player[x]) PROVE Around(v, x) = Around(w, x)
            <4>1. w.player[x] \in Groups
                BY <1>1, <3>2, GroupIs DEF World
            <4>2. w.player[x] # q
                <5>1. x \notin out
                    BY <1>1, <3>2 DEF Listed
                <5>2. x \notin PlayersIn(w, q)
                    OBVIOUS
                <5> QED BY <1>1, <5>1, <5>2 DEF Listed, PlayersIn
            <4> QED BY <1>15, <1>18, <4>1, <4>2 DEF Around
        <3> QED BY <1>15, <3>1, <3>2
    <2> QED BY <2>1 DEF Shown
<1>20. Declared(v, but)
    <2>1. \A y \in w.groups : PlayersIn(v, y) = PlayersIn(w, y)
        BY <1>1, <1>18 DEF World
    <2> QED BY <1>1, <1>15, <2>1 DEF Declared, AsDeclared
<1>21. OnePerSeed(v)
    <2>1. ASSUME NEW m \in Npcs, NEW n \in Npcs, Standing(v, m), Standing(v, n),
                 v.npc[m].at = v.npc[n].at, v.npc[m].seed = v.npc[n].seed
          PROVE  m = n
        <3>1. \A k \in Npcs : k \in ns => npc[k].at = q /\ \E s \in seeds :
                                             k = born[s] /\ npc[k].seed = s
            <4>1. ASSUME NEW k \in Npcs, k \in ns
                  PROVE  npc[k].at = q /\ \E s \in seeds : k = born[s] /\ npc[k].seed = s
                <5>1. PICK s \in seeds : k = born[s]
                    BY <1>3, <4>1
                <5>2. npc[k] = [at |-> q, hp |-> "alive", seed |-> s]
                    BY <1>6, <5>1
                <5> QED BY <5>1, <5>2
            <4> QED BY <4>1
        <3>2. \A k \in Npcs : k \notin ns => npc[k] = w.npc[k] /\ npc[k].at # q
            BY <1>7
        <3>3. CASE m \in ns
            BY <1>15, <2>1, <3>1, <3>2, <3>3
        <3>4. CASE m \notin ns
            <4>1. n \notin ns /\ npc[n] = w.npc[n] /\ npc[m] = w.npc[m]
                BY <1>15, <2>1, <3>1, <3>2, <3>4
            <4> QED BY <1>1, <1>15, <2>1, <4>1 DEF OnePerSeed, Standing
        <3> QED BY <3>3, <3>4
    <2> QED BY <2>1 DEF OnePerSeed
<1>22. InRooms(v)
    <2>1. ASSUME NEW n \in Npcs, npc[n] # NoNpc PROVE Real(npc[n].at)
        <3>1. CASE n \in ns
            <4>1. PICK s \in seeds : n = born[s]
                BY <1>3, <3>1
            <4>2. npc[n] = [at |-> q, hp |-> "alive", seed |-> s]
                BY <1>6, <4>1
            <4> QED BY <4>2
        <3>2. CASE n \notin ns
            BY <1>1, <1>7, <2>1, <3>2 DEF InRooms
        <3> QED BY <3>1, <3>2
    <2> QED BY <1>15, <2>1 DEF InRooms
<1>23. IdsInOrder(v)
    BY <1>1, <1>15 DEF IdsInOrder
<1> QED BY <1>14, <1>15, <1>17, <1>18, <1>19, <1>20, <1>21, <1>22, <1>23 DEF Sound

-------------------------------------------------------------------------------
(* Switching from group to group. *)

\* Who goes to a group that is there already: a town's, or one of several players.
LEMMA EnterExisting ==
    ASSUME NEW w, Sound(w, {}, {}), NEW p \in Players, w.player[p] \in Groups,
           NEW q \in Groups, Real(q), SceneType[q.scene] # "SINGLE_CLONE",
           SceneType[q.scene] = "NORMAL" => q.group = 1, NEW born
    PROVE  Sound(RequestEnterScene(w, p, q, born), {}, {})
<1>1. CASE w.player[p] = q \/ q \notin w.groups
    BY <1>1 DEF RequestEnterScene
<1>2. CASE w.player[p] # q /\ q \in w.groups
    <2>1. PICK o : o = w.player[p]
        OBVIOUS
    <2>2. o \in Groups /\ o.scene \in Scenes
        BY <2>1, GroupIs
    <2>3. PICK left : left = Leave(w, p)
        OBVIOUS
    <2>4. /\ Sound(left, {p}, {}) /\ left.player = [w.player EXCEPT ![p] = Group(o.scene, 0)]
          /\ left.groups \in {w.groups, w.groups \ {o}}
        BY <2>1, <2>2, <2>3, LeaveSound
    <2>5. PICK moved : moved = SceneIs(left, p, q.scene)
        OBVIOUS
    <2>6. w.player \in [Players -> Groups \cup {Nowhere}]
        BY DEF Sound, World
    <2>7. left.player[p] \in Groups
        BY <2>2, <2>4, <2>6, GroupIs
    <2>8. /\ Sound(moved, {p}, {}) /\ SameButPlayers(moved, left)
          /\ moved.player = [left.player EXCEPT ![p] = Group(q.scene, 0)]
        <3>1. PICK s : s = q.scene
            OBVIOUS
        <3>2. /\ s \in Scenes /\ p \in Players /\ Sound(left, {p}, {})
              /\ moved = SceneIs(left, p, s)
            BY <2>4, <2>5, <3>1, GroupIs
        <3>3. Sound(moved, {p}, {}) /\ SameButPlayers(moved, left)
            BY ONLY <2>7, <3>2, SceneSet
        <3>4. moved.player = [left.player EXCEPT ![p] = Group(s, 0)]
            BY ONLY <2>7, <3>2, SceneSet
        <3> QED BY <3>1, <3>3, <3>4
    <2>9. q \in moved.groups
        BY <1>2, <2>1, <2>4, <2>8 DEF SameButPlayers
    <2>10. moved.player[p] = Group(q.scene, 0)
        BY <2>4, <2>6, <2>8
    <2>11. PICK ready : ready = BeforeEnterSceneGroup(moved, q, born)
        OBVIOUS
    <2>12. ready = moved
        <3>1. AsDeclared(moved, q)
            BY <2>8, <2>9 DEF Sound, Declared
        <3> QED BY <2>11, <3>1 DEF BeforeEnterSceneGroup, AsDeclared
    <2>13. Sound(moved, {p}, {q})
        BY <2>8 DEF Sound, Declared
    <2>14. Sound(SetGroupID([moved EXCEPT !.list = @ \cup {<<p, q>>}], p, q.group), {}, {})
        BY <2>9, <2>10, <2>13, EnterSound
    <2>15. RequestEnterScene(w, p, q, born)
             = SetGroupID([moved EXCEPT !.list = @ \cup {<<p, q>>}], p, q.group)
        <3>1. RequestEnterScene(w, p, q, born) = SwitchScene(w, p, q, born)
            BY <1>2 DEF RequestEnterScene
        <3>2. SwitchScene(w, p, q, born)
                = SetGroupID([ready EXCEPT !.list = @ \cup {<<p, q>>}], p, q.group)
            BY <2>3, <2>5, <2>11 DEF SwitchScene, SceneIs
        <3> QED BY <2>12, <3>1, <3>2
    <2> QED BY <2>14, <2>15
<1> QED BY <1>1, <1>2

\* Who gets a new room: it is never there already, and it is not its old one.
LEMMA EnterNew ==
    ASSUME NEW w, Sound(w, {}, {}), NEW p \in Players, w.player[p] \in Groups,
           NEW s \in Scenes, SceneType[s] # "NORMAL", w.groupIndex[s] < MaxGroup,
           NEW seeds, NEW born, NewIds(w, seeds, born)
    PROVE  Sound(EnterOwnRoom(w, p, s, born), {}, {})
<1>1. PICK q : q = NewGroup(w, s)
    OBVIOUS
<1>2. PICK r : r = RequestGroupScene(w, s)
    OBVIOUS
<1>3. /\ Sound(r, {}, {q}) /\ q \in Groups /\ Real(q) /\ q.scene = s
      /\ r.groups = w.groups \cup {q} /\ r.player = w.player /\ r.npc = w.npc
      /\ \A x \in Players : w.player[x] # q
      /\ \A n \in Npcs : w.npc[n].at # q
    BY <1>1, <1>2, RequestSound
<1>4. PICK o : o = w.player[p]
    OBVIOUS
<1>5. o \in Groups /\ o.scene \in Scenes /\ o # q /\ r.player[p] = o
    BY <1>3, <1>4, GroupIs
<1>6. PICK left : left = Leave(r, p)
    OBVIOUS
<1>7. /\ Sound(left, {p}, {q})
      /\ left.player = [r.player EXCEPT ![p] = Group(o.scene, 0)]
      /\ left.groups \in {r.groups, r.groups \ {o}}
      /\ \A n \in Npcs : left.npc[n] \in {r.npc[n], NoNpc}
    <2>1. o \notin {q}
        BY <1>5
    <2> QED BY ONLY <1>3, <1>5, <1>6, <2>1, LeaveSound
<1>8. w.player \in [Players -> Groups \cup {Nowhere}]
    BY DEF Sound, World
<1>9. left.player[p] \in Groups
    BY <1>3, <1>5, <1>7, <1>8, GroupIs
<1>10. PICK moved : moved = SceneIs(left, p, q.scene)
    OBVIOUS
<1>11. /\ Sound(moved, {p}, {q}) /\ SameButPlayers(moved, left)
       /\ moved.player = [left.player EXCEPT ![p] = Group(q.scene, 0)]
    <2>1. /\ s \in Scenes /\ p \in Players /\ Sound(left, {p}, {q})
          /\ moved = SceneIs(left, p, s)
        BY <1>3, <1>7, <1>10
    <2>2. Sound(moved, {p}, {q}) /\ SameButPlayers(moved, left)
        BY ONLY <1>9, <2>1, SceneSet
    <2>3. moved.player = [left.player EXCEPT ![p] = Group(s, 0)]
        BY ONLY <1>9, <2>1, SceneSet
    <2> QED BY <1>3, <2>2, <2>3
<1>12. /\ q \in moved.groups /\ moved.player[p] = Group(q.scene, 0)
       /\ \A x \in Players \ {p} : moved.player[x] = w.player[x]
    <2>1. q \in moved.groups
        BY <1>3, <1>5, <1>7, <1>11 DEF SameButPlayers
    <2> QED BY <1>3, <1>7, <1>8, <1>11, <2>1
<1>13. \A n \in Npcs : moved.npc[n] \in {w.npc[n], NoNpc} /\ moved.npc[n].at # q
    <2>1. moved.npc = left.npc
        BY <1>11 DEF SameButPlayers
    <2>2. NoNpc.at # q
        BY <1>3, GroupIs DEF NoNpc
    <2> QED BY <1>3, <1>7, <2>1, <2>2
<1>14. PlayersIn(moved, q) = {}
    <2>1. PlayersIn(moved, q) = {x \in Players \ {p} : moved.player[x] = q}
        <3>1. moved \in World /\ Listed(moved, {p}) /\ q \in Groups
            BY <1>3, <1>11 DEF Sound
        <3> QED BY ONLY <3>1, WhoIsIn
    <2> QED BY <1>3, <1>12, <2>1
<1>15. NewIds(moved, seeds, born)
    <2>1. \A k \in seeds : born[k] \in Npcs /\ w.npc[born[k]] = NoNpc
        BY DEF NewIds
    <2>2. \A k \in seeds : moved.npc[born[k]] = NoNpc
        BY <1>13, <2>1
    <2> QED BY <2>2 DEF NewIds
<1>16. PICK ready : ready = BeforeEnterSceneGroup(moved, q, born)
    OBVIOUS
<1>17. ready = CreateSceneNPC(moved, q, born)
    <2>1. SceneType[s] \in {"NORMAL", "SINGLE_CLONE", "MULTI_CLONE"}
        BY SceneTypeAssumption
    <2> QED BY <1>3, <1>14, <1>16, <2>1 DEF BeforeEnterSceneGroup
<1>18. /\ Sound(ready, {p}, {q}) /\ ready.player = moved.player
       /\ ready.groups = moved.groups /\ PlayersIn(ready, q) = {}
    <2>1. /\ q \in Groups /\ Real(q) /\ q \in moved.groups
          /\ \A n \in Npcs : moved.npc[n].at # q
        BY <1>3, <1>12, <1>13
    <2> QED BY ONLY <1>11, <1>14, <1>15, <1>17, <2>1, CreateSceneNPCSound
<1>19. Sound(SetGroupID([ready EXCEPT !.list = @ \cup {<<p, q>>}], p, q.group), {}, {})
    <2>1. /\ q \in Groups /\ Real(q) /\ q \in ready.groups
          /\ ready.player[p] = Group(q.scene, 0) /\ SceneType[q.scene] # "NORMAL"
        BY <1>3, <1>12, <1>18
    <2> QED BY <1>18, <2>1, EnterSound
<1>20. EnterOwnRoom(w, p, s, born)
         = SetGroupID([ready EXCEPT !.list = @ \cup {<<p, q>>}], p, q.group)
    <2>1. EnterOwnRoom(w, p, s, born) = RequestEnterScene(r, p, q, born)
        BY <1>1, <1>2 DEF EnterOwnRoom
    <2>2. RequestEnterScene(r, p, q, born) = SwitchScene(r, p, q, born)
        BY <1>3, <1>5 DEF RequestEnterScene
    <2>3. SwitchScene(r, p, q, born)
            = SetGroupID([ready EXCEPT !.list = @ \cup {<<p, q>>}], p, q.group)
        BY <1>6, <1>10, <1>16 DEF SwitchScene, SceneIs
    <2> QED BY <2>1, <2>2, <2>3
<1> QED BY <1>19, <1>20

-------------------------------------------------------------------------------
(* Monsters, one by one. *)

\* A monster that is killed, or noted, stays where it is.
LEMMA NpcsFade ==
    ASSUME NEW w, Sound(w, {}, {}), NEW v \in World,
           v.groupIndex = w.groupIndex, v.groups = w.groups, v.list = w.list,
           v.player = w.player, v.view = w.view,
           \A n \in Npcs : /\ v.npc[n] = NoNpc <=> w.npc[n] = NoNpc
                           /\ v.npc[n].at = w.npc[n].at /\ v.npc[n].seed = w.npc[n].seed
                           /\ Standing(v, n) => Standing(w, n)
    PROVE  Sound(v, {}, {})
<1>1. /\ w \in World /\ Listed(w, {}) /\ Shown(w) /\ Declared(w, {})
      /\ IdsInOrder(w) /\ OnePerSeed(w) /\ InRooms(w)
    BY DEF Sound
<1>2. Listed(v, {})
    BY <1>1 DEF Listed
<1>3. \A q : PlayersIn(v, q) = PlayersIn(w, q) /\ NpcsIn(v, q) = NpcsIn(w, q)
    BY DEF PlayersIn, NpcsIn
<1>4. Shown(v)
    BY <1>1, <1>3 DEF Shown, Around
<1>5. Declared(v, {})
    BY <1>1, <1>3 DEF Declared, AsDeclared
<1>6. IdsInOrder(v) /\ OnePerSeed(v) /\ InRooms(v)
    BY <1>1 DEF IdsInOrder, OnePerSeed, InRooms
<1> QED BY <1>2, <1>4, <1>5, <1>6 DEF Sound

\* A monster takes the place of one that is on its way out: those in the group are
\* told of it.
LEMMA CreateNpcSound ==
    ASSUME NEW w, Sound(w, {}, {}), NEW n \in Npcs, w.npc[n] = NoNpc,
           NEW q \in Groups, Real(q), NEW seed \in Seeds,
           \A m \in Npcs : Standing(w, m) /\ w.npc[m].at = q => w.npc[m].seed # seed,
           NEW v, v = CreateNpc(w, n, seed, q)
    PROVE  Sound(v, {}, {})
<1>1. /\ w \in World /\ Listed(w, {}) /\ Shown(w) /\ Declared(w, {})
      /\ IdsInOrder(w) /\ OnePerSeed(w) /\ InRooms(w)
    BY DEF Sound
<1>2. CASE q \notin w.groups
    BY <1>2 DEF CreateNpc
<1>3. CASE q \in w.groups
    <2>1. PICK made : made = [at |-> q, seed |-> seed, hp |-> "alive"]
        OBVIOUS
    <2>2. /\ made \in [at : Groups, seed : Seeds, hp : {"alive", "dead", "leaving"}]
          /\ made.at = q /\ made.seed = seed /\ made # NoNpc
        BY <2>1, GroupIs DEF NoNpc
    <2>3. PICK npc : npc = [w.npc EXCEPT ![n] = made]
        OBVIOUS
    <2>4. PICK list : list = w.list \cup {<<n, q>>}
        OBVIOUS
    <2>5. /\ npc \in [Npcs -> {NoNpc} \cup
                [at : Groups, seed : Seeds, hp : {"alive", "dead", "leaving"}]]
          /\ npc[n] = made /\ \A m \in Npcs \ {n} : npc[m] = w.npc[m]
        <3>1. w.npc \in [Npcs -> {NoNpc} \cup
                    [at : Groups, seed : Seeds, hp : {"alive", "dead", "leaving"}]]
            BY <1>1 DEF World
        <3> QED BY ONLY <2>2, <2>3, <3>1
    <2>6. list \in SUBSET (Objects \X Groups)
        BY <1>1, <2>4 DEF World, Objects
    <2>7. PICK g \in World : g = [w EXCEPT !.npc = npc, !.list = list]
        BY <1>1, <2>5, <2>6 DEF World
    <2>8. /\ g.groupIndex = w.groupIndex /\ g.groups = w.groups /\ g.player = w.player
          /\ g.npc = npc /\ g.list = list /\ g.view = w.view
        BY <1>1, <2>7 DEF World
    <2>9. PICK watchers : watchers = PlayersIn(w, q)
        OBVIOUS
    <2>10. v = OnObjectListEnter(g, watchers, {n})
        BY <1>1, <1>3, <2>1, <2>3, <2>4, <2>7, <2>9 DEF CreateNpc, World
    <2>11. /\ v \in World /\ SameButViews(v, g)
           /\ \A p \in Players : IF p \in watchers THEN v.view[p] = g.view[p] \cup {n}
                                                   ELSE v.view[p] = g.view[p]
        <3>1. g \in World /\ {n} \in SUBSET Objects
            BY <2>7 DEF Objects
        <3> QED BY ONLY <2>10, <3>1, EnterTold
    <2>12. /\ v.groupIndex = w.groupIndex /\ v.groups = w.groups /\ v.player = w.player
           /\ v.npc = npc /\ v.list = list
           /\ \A p \in Players : IF p \in watchers THEN v.view[p] = w.view[p] \cup {n}
                                                   ELSE v.view[p] = w.view[p]
        BY <2>8, <2>11 DEF SameButViews
    <2>13. /\ \A p \in Players, y \in Groups : <<p, y>> \in list <=> <<p, y>> \in w.list
           /\ \A m \in Npcs, y \in Groups :
                  <<m, y>> \in list <=> <<m, y>> \in w.list \/ (m = n /\ y = q)
           /\ \A x \in list : x \in w.list \/ x[2] = q
        <3>1. ASSUME NEW x, NEW y
              PROVE  <<x, y>> \in list <=> <<x, y>> \in w.list \/ (x = n /\ y = q)
            BY ONLY <2>4
        <3>2. \A p \in Players : p # n
            BY ObjectsAssumption
        <3>3. ASSUME NEW x \in list PROVE x \in w.list \/ x[2] = q
            BY ONLY <2>4, <3>3
        <3> QED BY ONLY <3>1, <3>2, <3>3
    <2>14. Listed(v, {})
        <3>1. ASSUME NEW m \in Npcs, NEW y \in Groups
              PROVE  <<m, y>> \in v.list <=> v.npc[m] # NoNpc /\ v.npc[m].at = y
            <4>1. <<m, y>> \in w.list <=> w.npc[m] # NoNpc /\ w.npc[m].at = y
                BY <1>1 DEF Listed
            <4>2. CASE m = n
                BY <2>2, <2>5, <2>12, <2>13, <4>1, <4>2
            <4>3. CASE m # n
                BY <2>5, <2>12, <2>13, <4>1, <4>3
            <4> QED BY <4>2, <4>3
        <3>2. \A x \in v.list : x[2] \in v.groups
            BY <1>1, <1>3, <2>12, <2>13 DEF Listed
        <3> QED BY <1>1, <2>12, <2>13, <3>1, <3>2 DEF Listed
    <2>15. \A y \in Groups : /\ PlayersIn(v, y) = PlayersIn(w, y)
                             /\ y # q => NpcsIn(v, y) = NpcsIn(w, y)
                             /\ y = q => NpcsIn(v, y) = NpcsIn(w, y) \cup {n}
        BY <2>12, <2>13 DEF PlayersIn, NpcsIn
    <2>16. Shown(v)
        <3>1. ASSUME NEW x \in Players
              PROVE  /\ Real(v.player[x]) => v.view[x] = Around(v, x)
                     /\ ~Real(v.player[x]) => v.view[x] = {}
            <4>1. /\ Real(w.player[x]) => w.view[x] = Around(w, x)
                  /\ ~Real(w.player[x]) => w.view[x] = {}
                BY <1>1 DEF Shown
            <4>2. CASE w.player[x] = q
                <5>1. x \in watchers
                    BY <1>1, <2>9, <4>2 DEF Listed, PlayersIn
                <5>2. v.view[x] = ((PlayersIn(w, q) \cup NpcsIn(w, q)) \ {x}) \cup {n}
                    BY <2>12, <4>1, <4>2, <5>1 DEF Around
                <5>3. n # x
                    BY ObjectsAssumption
                <5>4. Around(v, x) = (PlayersIn(w, q) \cup (NpcsIn(w, q) \cup {n})) \ {x}
                    BY <2>12, <2>15, <4>2 DEF Around
                <5>5. Around(v, x) = v.view[x]
                    BY ONLY <5>2, <5>3, <5>4
                <5> QED BY <2>12, <4>2, <5>5
            <4>3. CASE w.player[x] # q
                <5>1. x \notin watchers
                    BY <1>1, <2>9, <4>3 DEF Listed, PlayersIn
                <5>2. ASSUME Real(w.player[x]) PROVE Around(v, x) = Around(w, x)
                    <6>1. w.player[x] \in Groups
                        BY <1>1, <5>2, GroupIs DEF World
                    <6> QED BY <2>12, <2>15, <4>3, <6>1 DEF Around
                <5> QED BY <2>12, <4>1, <5>1, <5>2
            <4> QED BY <4>2, <4>3
        <3> QED BY <3>1 DEF Shown
    <2>17. Declared(v, {})
        <3>1. \A y \in w.groups : PlayersIn(v, y) = PlayersIn(w, y)
            BY <1>1, <2>15 DEF World
        <3> QED BY <1>1, <2>12, <3>1 DEF Declared, AsDeclared
    <2>18. OnePerSeed(v)
        <3>1. ASSUME NEW k \in Npcs, NEW m \in Npcs, Standing(v, k), Standing(v, m),
                     v.npc[k].at = v.npc[m].at, v.npc[k].seed = v.npc[m].seed
              PROVE  k = m
            <4>1. \A x \in Npcs \ {n} : v.npc[x] = w.npc[x]
                                       /\ (Standing(v, x) => Standing(w, x))
                BY <2>5, <2>12 DEF Standing
            <4>2. v.npc[n].at = q /\ v.npc[n].seed = seed
                BY <2>2, <2>5, <2>12
            <4>3. CASE k = n \/ m = n
                BY <3>1, <4>1, <4>2, <4>3
            <4>4. CASE k # n /\ m # n
                BY <1>1, <3>1, <4>1, <4>4 DEF OnePerSeed
            <4> QED BY <4>3, <4>4
        <3> QED BY <3>1 DEF OnePerSeed
    <2>19. IdsInOrder(v) /\ InRooms(v)
        BY <1>1, <2>2, <2>5, <2>12 DEF IdsInOrder, InRooms
    <2> QED BY <2>11, <2>14, <2>16, <2>17, <2>18, <2>19 DEF Sound
<1> QED BY <1>2, <1>3

-------------------------------------------------------------------------------
(* The operations. *)

\* An object is made in group 0 of a scene.
Created(w, p, s) == [w EXCEPT !.player[p] = Group(s, 0), !.list = @ \cup {<<p, Group(s, 0)>>}]

LEMMA CreatedSound ==
    ASSUME NEW w, Sound(w, {}, {}), NEW p \in Players, w.player[p] = Nowhere,
           NEW s \in Scenes,
           NEW v, v = Created(w, p, s)
    PROVE  /\ Sound(v, {}, {}) /\ v.player[p] = Group(s, 0)
           /\ v.groupIndex = w.groupIndex /\ v.npc = w.npc
<1>1. /\ w \in World /\ Listed(w, {}) /\ Shown(w) /\ Declared(w, {})
      /\ IdsInOrder(w) /\ OnePerSeed(w) /\ InRooms(w)
    BY DEF Sound
<1>2. PICK q : q = Group(s, 0)
    OBVIOUS
<1>3. q \in Groups /\ ~Real(q)
    BY <1>2, GroupIs, MaxGroupAssumption DEF Real
<1>4. PICK player : player = [w.player EXCEPT ![p] = q]
    OBVIOUS
<1>5. PICK list : list = w.list \cup {<<p, q>>}
    OBVIOUS
<1>6. /\ player \in [Players -> Groups \cup {Nowhere}] /\ player[p] = q
      /\ \A x \in Players \ {p} : player[x] = w.player[x]
    <2>1. w.player \in [Players -> Groups \cup {Nowhere}]
        BY <1>1 DEF World
    <2> QED BY ONLY <1>3, <1>4, <2>1
<1>7. list \in SUBSET (Objects \X Groups)
    BY <1>1, <1>3, <1>5 DEF World, Objects
<1>8. v = [w EXCEPT !.player = player, !.list = list]
    BY <1>1, <1>2, <1>4, <1>5 DEF World, Created
<1>9. /\ v \in World /\ v.player = player /\ v.list = list
      /\ v.groupIndex = w.groupIndex /\ v.groups = w.groups /\ v.npc = w.npc
      /\ v.view = w.view
    BY <1>1, <1>6, <1>7, <1>8 DEF World
<1>10. /\ \A x \in Players, y \in Groups :
              <<x, y>> \in list <=> <<x, y>> \in w.list \/ (x = p /\ y = q)
       /\ \A n \in Npcs, y \in Groups : <<n, y>> \in list <=> <<n, y>> \in w.list
       /\ \A x \in list : x \in w.list \/ x[2] = q
    <2>1. ASSUME NEW x, NEW y
          PROVE  <<x, y>> \in list <=> <<x, y>> \in w.list \/ (x = p /\ y = q)
        BY ONLY <1>5
    <2>2. \A n \in Npcs : n # p
        BY ObjectsAssumption
    <2>3. ASSUME NEW x \in list PROVE x \in w.list \/ x[2] = q
        BY ONLY <1>5, <2>3
    <2> QED BY ONLY <2>1, <2>2, <2>3
<1>11. q \in w.groups
    BY <1>1, <1>2 DEF IdsInOrder
<1>12. Listed(v, {})
    <2>1. ASSUME NEW x \in Players, NEW y \in Groups
          PROVE  <<x, y>> \in v.list <=> v.player[x] = y
        <3>1. <<x, y>> \in w.list <=> w.player[x] = y
            BY <1>1 DEF Listed
        <3> QED BY <1>6, <1>9, <1>10, <3>1, GroupIs
    <2>2. \A n \in Npcs, y \in Groups : <<n, y>> \in v.list <=> <<n, y>> \in w.list
        BY <1>9, <1>10
    <2>3. \A x \in v.list : x[2] \in v.groups
        BY <1>1, <1>9, <1>10, <1>11 DEF Listed
    <2> QED BY <1>1, <1>9, <2>1, <2>2, <2>3 DEF Listed
<1>13. \A y \in Groups : /\ Real(y) => PlayersIn(v, y) = PlayersIn(w, y)
                         /\ NpcsIn(v, y) = NpcsIn(w, y)
    BY <1>3, <1>9, <1>10 DEF PlayersIn, NpcsIn
<1>14. Shown(v)
    <2>1. ASSUME NEW x \in Players
          PROVE  /\ Real(v.player[x]) => v.view[x] = Around(v, x)
                 /\ ~Real(v.player[x]) => v.view[x] = {}
        <3>1. /\ Real(w.player[x]) => w.view[x] = Around(w, x)
              /\ ~Real(w.player[x]) => w.view[x] = {}
            BY <1>1 DEF Shown
        <3>2. CASE x = p
            BY <1>3, <1>6, <1>9, <3>1, <3>2, GroupIs
        <3>3. CASE x # p
            <4>1. v.player[x] = w.player[x] /\ v.view[x] = w.view[x]
                BY <1>6, <1>9, <3>3
            <4>2. ASSUME Real(w.player[x]) PROVE Around(v, x) = Around(w, x)
                <5>1. w.player[x] \in Groups
                    BY <1>1, <4>2, GroupIs DEF World
                <5> QED BY <1>13, <4>1, <4>2, <5>1 DEF Around
            <4> QED BY <3>1, <4>1, <4>2
        <3> QED BY <3>2, <3>3
    <2> QED BY <2>1 DEF Shown
<1>15. Declared(v, {})
    <2>1. \A y \in w.groups : Real(y) => PlayersIn(v, y) = PlayersIn(w, y)
        BY <1>1, <1>13 DEF World
    <2> QED BY <1>1, <1>9, <2>1 DEF Declared, AsDeclared
<1>16. IdsInOrder(v) /\ OnePerSeed(v) /\ InRooms(v)
    BY <1>1, <1>9 DEF IdsInOrder, OnePerSeed, Standing, InRooms
<1> QED BY <1>2, <1>6, <1>9, <1>12, <1>14, <1>15, <1>16 DEF Sound

\* The ids Births gives to seeds are new.
LEMMA BirthsAreNew ==
    ASSUME NEW w, NEW born \in Births(w)
    PROVE  NewIds(w, DOMAIN born, born)
<1>1. PICK seeds \in SUBSET Seeds : born \in [seeds -> FreshNpcs(w)]
    BY DEF Births
<1>2. \A s, t \in DOMAIN born : s # t => born[s] # born[t]
    BY DEF Births
<1>3. DOMAIN born = seeds
    BY <1>1
<1>4. \A n \in FreshNpcs(w) : n \in Npcs /\ w.npc[n] = NoNpc
    BY DEF FreshNpcs
<1>5. born \in [seeds -> Npcs] /\ \A s \in seeds : w.npc[born[s]] = NoNpc
    BY <1>1, <1>4
<1> QED BY <1>2, <1>3, <1>5 DEF NewIds

\* A town's players go to its group 1.
LEMMA TownSound ==
    ASSUME NEW w, Sound(w, {}, {}), NEW p \in Players, w.player[p] \in Groups,
           NEW s \in Scenes, SceneType[s] = "NORMAL", NEW born
    PROVE  Sound(EnterTown(w, p, s, born), {}, {})
<1>1. PICK q : q = Group(s, 1)
    OBVIOUS
<1>2. q \in Groups /\ q.scene = s /\ q.group = 1 /\ Real(q)
    BY <1>1, GroupIs, MaxGroupAssumption DEF Real
<1>3. SceneType[q.scene] # "SINGLE_CLONE"
    BY <1>2
<1>4. Sound(RequestEnterScene(w, p, q, born), {}, {})
    BY <1>2, <1>3, EnterExisting
<1> QED BY <1>1, <1>4 DEF EnterTown

LEMMA CreatePlayerSound ==
    ASSUME Sound(world, {}, {}), NEW p \in Players, NEW s \in Scenes, CreatePlayer(p, s)
    PROVE  Sound(world', {}, {})
<1>1. PICK v : v = Created(world, p, s)
    OBVIOUS
<1>2. world.player[p] = Nowhere
    BY DEF CreatePlayer, IsPlayer
<1>3. /\ Sound(v, {}, {}) /\ v.player[p] = Group(s, 0) /\ v.player[p] \in Groups
      /\ v.groupIndex = world.groupIndex /\ v.npc = world.npc
    <2>1. /\ Sound(v, {}, {}) /\ v.player[p] = Group(s, 0)
          /\ v.groupIndex = world.groupIndex /\ v.npc = world.npc
        BY <1>1, <1>2, CreatedSound
    <2> QED BY <2>1, GroupIs, MaxGroupAssumption
<1>4. CASE SceneType[s] = "NORMAL" /\ world' = EnterTown(v, p, s, <<>>)
    BY <1>3, <1>4, TownSound
<1>5. CASE /\ SceneType[s] = "SINGLE_CLONE" /\ MayRequestGroup(s)
           /\ \E born \in Births(world) : world' = EnterOwnRoom(v, p, s, born)
    <2>1. PICK born \in Births(world) : world' = EnterOwnRoom(v, p, s, born)
        BY <1>5
    <2>2. NewIds(v, DOMAIN born, born)
        BY <1>3, BirthsAreNew DEF NewIds
    <2>3. v.groupIndex[s] < MaxGroup /\ SceneType[s] # "NORMAL"
        BY <1>3, <1>5 DEF MayRequestGroup
    <2> QED BY <1>3, <2>1, <2>2, <2>3, EnterNew
<1>6. CASE world' = v
    BY <1>3, <1>6
<1> QED BY <1>1, <1>4, <1>5, <1>6 DEF CreatePlayer, Created

\* Who goes to a room of its own.
LEMMA OwnRoomSound ==
    ASSUME Sound(world, {}, {}), NEW p \in Players, NEW s \in Scenes,
           IsPlayer(world, p), SceneType[s] # "NORMAL", MayRequestGroup(s),
           NEW born \in Births(world)
    PROVE  Sound(EnterOwnRoom(world, p, s, born), {}, {})
<1>1. world.player[p] \in Groups
    BY DEF Sound, World, IsPlayer
<1>2. NewIds(world, DOMAIN born, born)
    BY BirthsAreNew
<1> QED BY <1>1, <1>2, EnterNew DEF MayRequestGroup

LEMMA SwapSceneSound ==
    ASSUME Sound(world, {}, {}), NEW p \in Players, NEW s \in Scenes,
           OnClientSwapScene(p, s)
    PROVE  Sound(world', {}, {})
<1>1. IsPlayer(world, p) /\ world.player[p] \in Groups
    BY DEF Sound, World, IsPlayer, OnClientSwapScene
<1>2. CASE SceneType[s] = "NORMAL" /\ world' = EnterTown(world, p, s, <<>>)
    BY <1>1, <1>2, TownSound
<1>3. CASE /\ SceneType[s] = "SINGLE_CLONE" /\ MayRequestGroup(s)
           /\ \E born \in Births(world) : world' = EnterOwnRoom(world, p, s, born)
    BY <1>1, <1>3, OwnRoomSound
<1> QED BY <1>2, <1>3 DEF OnClientSwapScene

LEMMA EnterCloneSound ==
    ASSUME Sound(world, {}, {}), NEW p \in Players, NEW s \in Scenes, EnterClone(p, s)
    PROVE  Sound(world', {}, {})
<1>1. /\ IsPlayer(world, p) /\ world.player[p] \in Groups
      /\ SceneType[s] # "NORMAL" /\ SceneType[s] # "SINGLE_CLONE"
    BY DEF Sound, World, IsPlayer, EnterClone
<1>2. PICK born \in Births(world) :
          \/ \E g \in 1 .. MaxGroup : world' = RequestEnterScene(world, p, Group(s, g), born)
          \/ MayRequestGroup(s) /\ world' = EnterOwnRoom(world, p, s, born)
    BY DEF EnterClone
<1>3. CASE \E g \in 1 .. MaxGroup : world' = RequestEnterScene(world, p, Group(s, g), born)
    <2>1. PICK g \in 1 .. MaxGroup : world' = RequestEnterScene(world, p, Group(s, g), born)
        BY <1>3
    <2>2. PICK q : q = Group(s, g)
        OBVIOUS
    <2>3. q \in Groups /\ q.scene = s /\ Real(q)
        BY <2>2, GroupIs, MaxGroupAssumption DEF Real
    <2>4. Sound(RequestEnterScene(world, p, q, born), {}, {})
        BY <1>1, <2>3, EnterExisting
    <2> QED BY <2>1, <2>2, <2>4
<1>4. CASE MayRequestGroup(s) /\ world' = EnterOwnRoom(world, p, s, born)
    BY <1>1, <1>4, OwnRoomSound
<1> QED BY <1>2, <1>3, <1>4

LEMMA DestroyPlayerSound ==
    ASSUME Sound(world, {}, {}), NEW p \in Players, DestroyPlayer(p)
    PROVE  Sound(world', {}, {})
<1>1. PICK w : w = world
    OBVIOUS
<1>2. Sound(w, {}, {}) /\ w \in World /\ Listed(w, {})
    BY <1>1 DEF Sound
<1>3. PICK q : q = w.player[p]
    OBVIOUS
<1>4. q \in Groups /\ q \in w.groups
    <2>1. q \in Groups
        BY <1>1, <1>2, <1>3 DEF World, DestroyPlayer, IsPlayer
    <2>2. <<p, q>> \in w.list
        BY <1>2, <1>3, <2>1 DEF Listed
    <2> QED BY <1>2, <2>1, <2>2 DEF Listed
<1>5. PICK left : left = Leave(w, p)
    OBVIOUS
<1>6. Sound(left, {p}, {}) /\ left.player = [w.player EXCEPT ![p] = Group(q.scene, 0)]
    BY <1>2, <1>3, <1>4, <1>5, LeaveSound
<1>7. PICK z : z = Group(q.scene, 0)
    OBVIOUS
<1>8. left.player[p] = z /\ z \in Groups /\ ~Real(z)
    <2>1. w.player \in [Players -> Groups \cup {Nowhere}]
        BY <1>2 DEF World
    <2> QED BY <1>4, <1>6, <1>7, <2>1, GroupIs
<1>9. left \in World /\ Listed(left, {p}) /\ Shown(left)
    BY <1>6 DEF Sound
<1>10. PICK watchers : watchers = PlayersIn(left, z)
    OBVIOUS
<1>11. PICK told : told = OnObjectListLeave(left, watchers, {p})
    OBVIOUS
<1>12. /\ told \in World /\ SameButViews(told, left)
       /\ \A x \in Players : IF x \in watchers THEN told.view[x] = left.view[x] \ {p}
                                               ELSE told.view[x] = left.view[x]
    <2>1. left \in World
        BY <1>9
    <2> QED BY ONLY <1>11, <2>1, LeaveTold
<1>13. \A x \in Players : told.view[x] = left.view[x]
    <2>1. ASSUME NEW x \in Players, x \in watchers PROVE left.view[x] = {}
        <3>1. left.player[x] = z
            BY <1>8, <1>9, <1>10, <2>1 DEF Listed, PlayersIn
        <3> QED BY <1>8, <1>9, <3>1 DEF Shown
    <2> QED BY <1>12, <2>1
<1>14. left.view[p] = {}
    BY <1>8, <1>9 DEF Shown
<1>15. PICK player : player = [left.player EXCEPT ![p] = Nowhere]
    OBVIOUS
<1>16. PICK view : view = [told.view EXCEPT ![p] = {}]
    OBVIOUS
<1>17. view = left.view
    <2>1. told.view \in [Players -> SUBSET Objects] /\ left.view \in [Players -> SUBSET Objects]
        BY <1>9, <1>12 DEF World
    <2> QED BY <1>13, <1>14, <1>16, <2>1
<1>18. PICK v : v = [told EXCEPT !.player = player, !.view = view]
    OBVIOUS
<1>19. world' = v
    <2>1. LeaveSceneGroup(world, p) = left
        BY <1>1, <1>3, <1>4, <1>5 DEF LeaveSceneGroup
    <2>2. world' = [told EXCEPT !.player[p] = Nowhere, !.view[p] = {}]
        BY <1>8, <1>10, <1>11, <2>1 DEF DestroyPlayer
    <2>3. told.player = left.player
        BY <1>12 DEF SameButViews
    <2> QED BY <1>12, <1>15, <1>16, <1>18, <2>2, <2>3 DEF World
<1>20. /\ player \in [Players -> Groups \cup {Nowhere}] /\ player[p] = Nowhere
       /\ \A x \in Players \ {p} : player[x] = left.player[x]
    <2>1. left.player \in [Players -> Groups \cup {Nowhere}]
        BY <1>9 DEF World
    <2> QED BY <1>15, <2>1
<1>21. /\ v \in World /\ v.player = player /\ v.view = left.view /\ SameButPlayers(v, left)
    <2>1. left.view \in [Players -> SUBSET Objects]
        BY <1>9 DEF World
    <2>2. /\ v \in World /\ v.player = player /\ v.view = view
          /\ v.groupIndex = told.groupIndex /\ v.groups = told.groups
          /\ v.list = told.list /\ v.npc = told.npc
          /\ v.mtDeleteSelfList = told.mtDeleteSelfList
        BY <1>12, <1>17, <1>18, <1>20, <2>1 DEF World
    <2> QED BY <1>12, <1>17, <2>2 DEF SameButViews, SameButPlayers
<1>22. Sound(v, {p}, {})
    <2>1. ~Real(Nowhere)
        BY GroupIs
    <2>2. v.player = [left.player EXCEPT ![p] = Nowhere]
        BY <1>15, <1>21
    <2> QED BY <1>6, <1>21, <2>1, <2>2, OutMoves
<1>23. Listed(v, {})
    BY <1>20, <1>21, <1>22, GroupIs DEF Sound, Listed
<1> QED BY <1>19, <1>22, <1>23 DEF Sound

LEMMA KillNpcSound ==
    ASSUME Sound(world, {}, {}), NEW n \in Npcs, KillNpc(n)
    PROVE  Sound(world', {}, {})
<1>1. PICK w : w = world
    OBVIOUS
<1>2. w \in World /\ Sound(w, {}, {}) /\ w.npc[n].hp = "alive"
    BY <1>1 DEF Sound, KillNpc
<1>3. w.npc[n] # NoNpc
    BY <1>2 DEF NoNpc
<1>4. PICK body : body = [w.npc[n] EXCEPT !.hp = "dead"]
    OBVIOUS
<1>5. /\ body \in [at : Groups, seed : Seeds, hp : {"alive", "dead", "leaving"}]
      /\ body.at = w.npc[n].at /\ body.seed = w.npc[n].seed /\ body.hp = "dead"
    <2>1. w.npc[n] \in [at : Groups, seed : Seeds, hp : {"alive", "dead", "leaving"}]
        BY <1>2, <1>3 DEF World
    <2> QED BY <1>4, <2>1
<1>6. PICK npc : npc = [w.npc EXCEPT ![n] = body]
    OBVIOUS
<1>7. /\ npc \in [Npcs -> {NoNpc} \cup
                [at : Groups, seed : Seeds, hp : {"alive", "dead", "leaving"}]]
      /\ npc[n] = body /\ \A m \in Npcs \ {n} : npc[m] = w.npc[m]
    <2>1. w.npc \in [Npcs -> {NoNpc} \cup
                [at : Groups, seed : Seeds, hp : {"alive", "dead", "leaving"}]]
        BY <1>2 DEF World
    <2> QED BY <1>5, <1>6, <2>1
<1>8. PICK v : v = [w EXCEPT !.npc = npc]
    OBVIOUS
<1>9. /\ v \in World /\ v.npc = npc
      /\ v.groupIndex = w.groupIndex /\ v.groups = w.groups /\ v.list = w.list
      /\ v.player = w.player /\ v.view = w.view
    BY <1>2, <1>7, <1>8 DEF World
<1>10. world' = v
    BY <1>1, <1>2, <1>4, <1>6, <1>8 DEF KillNpc, World
<1>11. \A m \in Npcs : /\ v.npc[m] = NoNpc <=> w.npc[m] = NoNpc
                       /\ v.npc[m].at = w.npc[m].at /\ v.npc[m].seed = w.npc[m].seed
                       /\ Standing(v, m) => Standing(w, m)
    BY <1>2, <1>3, <1>5, <1>7, <1>9 DEF NoNpc, Standing
<1>12. Sound(v, {}, {})
    BY <1>2, <1>9, <1>11, NpcsFade
<1> QED BY <1>10, <1>12

LEMMA DestroyHeartSound ==
    ASSUME Sound(world, {}, {}), NEW n \in Npcs, OnNPCDeadDestroyHeart(n)
    PROVE  Sound(world', {}, {})
<1>1. PICK w : w = world
    OBVIOUS
<1>2. /\ w \in World /\ Sound(w, {}, {}) /\ OnePerSeed(w) /\ InRooms(w)
      /\ w.npc[n].hp = "dead"
    BY <1>1 DEF Sound, OnNPCDeadDestroyHeart
<1>3. PICK q : q = w.npc[n].at
    OBVIOUS
<1>4. PICK seed : seed = w.npc[n].seed
    OBVIOUS
<1>5. /\ w.npc[n] # NoNpc
      /\ w.npc[n] \in [at : Groups, seed : Seeds, hp : {"alive", "dead", "leaving"}]
      /\ q \in Groups /\ Real(q) /\ seed \in Seeds
    <2>1. w.npc[n] # NoNpc
        BY <1>2 DEF NoNpc
    <2>2. w.npc[n] \in [at : Groups, seed : Seeds, hp : {"alive", "dead", "leaving"}]
        BY <1>2, <2>1 DEF World
    <2> QED BY <1>2, <1>3, <1>4, <2>1, <2>2 DEF InRooms
<1>6. PICK body : body = [w.npc[n] EXCEPT !.hp = "leaving"]
    OBVIOUS
<1>7. /\ body \in [at : Groups, seed : Seeds, hp : {"alive", "dead", "leaving"}]
      /\ body.at = q /\ body.seed = seed /\ body.hp = "leaving"
    BY <1>3, <1>4, <1>5, <1>6
<1>8. PICK npc : npc = [w.npc EXCEPT ![n] = body]
    OBVIOUS
<1>9. /\ npc \in [Npcs -> {NoNpc} \cup
                [at : Groups, seed : Seeds, hp : {"alive", "dead", "leaving"}]]
      /\ npc[n] = body /\ \A m \in Npcs \ {n} : npc[m] = w.npc[m]
    <2>1. w.npc \in [Npcs -> {NoNpc} \cup
                [at : Groups, seed : Seeds, hp : {"alive", "dead", "leaving"}]]
        BY <1>2 DEF World
    <2> QED BY <1>7, <1>8, <2>1
<1>10. PICK noted : noted = w.mtDeleteSelfList \cup {n}
    OBVIOUS
<1>11. noted \in SUBSET Npcs
    BY <1>2, <1>10 DEF World
<1>12. PICK v : v = [w EXCEPT !.npc = npc, !.mtDeleteSelfList = noted]
    OBVIOUS
<1>13. /\ v \in World /\ v.npc = npc
       /\ v.groupIndex = w.groupIndex /\ v.groups = w.groups /\ v.list = w.list
       /\ v.player = w.player /\ v.view = w.view
    BY <1>2, <1>9, <1>11, <1>12 DEF World
<1>14. \A m \in Npcs : /\ v.npc[m] = NoNpc <=> w.npc[m] = NoNpc
                       /\ v.npc[m].at = w.npc[m].at /\ v.npc[m].seed = w.npc[m].seed
                       /\ Standing(v, m) => Standing(w, m)
    <2>1. ASSUME NEW m \in Npcs, m # n
          PROVE  /\ v.npc[m] = w.npc[m] /\ (Standing(v, m) => Standing(w, m))
        BY <1>9, <1>13, <2>1 DEF Standing
    <2>2. /\ v.npc[n] # NoNpc /\ ~Standing(v, n)
          /\ v.npc[n].at = w.npc[n].at /\ v.npc[n].seed = w.npc[n].seed
        BY <1>3, <1>4, <1>7, <1>9, <1>13 DEF NoNpc, Standing
    <2> QED BY <1>5, <2>1, <2>2
<1>15. Sound(v, {}, {})
    BY <1>2, <1>13, <1>14, NpcsFade
<1>16. \A m \in Npcs : Standing(v, m) /\ v.npc[m].at = q => v.npc[m].seed # seed
    <2>1. ~Standing(v, n)
        BY <1>7, <1>9, <1>13 DEF Standing
    <2>2. Standing(w, n)
        BY <1>2 DEF Standing
    <2> QED BY <1>2, <1>3, <1>4, <1>14, <2>1, <2>2 DEF OnePerSeed
<1>17. world' = v \/ \E new \in FreshNpcs(v) : world' = CreateNpc(v, new, seed, q)
    <2>1. v = [w EXCEPT !.npc[n].hp = "leaving", !.mtDeleteSelfList = @ \cup {n}]
        BY <1>2, <1>6, <1>8, <1>10, <1>12 DEF World
    <2> QED BY <1>1, <1>3, <1>4, <2>1 DEF OnNPCDeadDestroyHeart
<1>18. ASSUME NEW new \in FreshNpcs(v) PROVE Sound(CreateNpc(v, new, seed, q), {}, {})
    <2>1. new \in Npcs /\ v.npc[new] = NoNpc
        BY DEF FreshNpcs
    <2> QED BY ONLY <1>5, <1>15, <1>16, <2>1, CreateNpcSound
<1> QED BY <1>15, <1>17, <1>18

LEMMA ExecuteSound ==
    ASSUME Sound(world, {}, {}), Execute
    PROVE  Sound(world', {}, {})
<1>1. PICK w : w = world
    OBVIOUS
<1>2. /\ Sound(w, {}, {}) /\ w \in World /\ Listed(w, {}) /\ Shown(w) /\ Declared(w, {})
      /\ IdsInOrder(w) /\ OnePerSeed(w) /\ InRooms(w)
    BY <1>1 DEF Sound
<1>3. PICK ns : ns = Noted(w)
    OBVIOUS
<1>4. ns \in SUBSET Npcs /\ \A n \in ns : w.npc[n] # NoNpc
    BY <1>2, <1>3 DEF Noted, World
<1>5. PICK npc : npc = [n \in Npcs |-> IF n \in ns THEN NoNpc ELSE w.npc[n]]
    OBVIOUS
<1>6. PICK list : list = {x \in w.list : x[1] \notin ns}
    OBVIOUS
<1>7. PICK view : view = [p \in Players |->
                              w.view[p] \ {n \in ns : <<p, w.npc[n].at>> \in w.list}]
    OBVIOUS
<1>8. w.npc \in [Npcs -> {NoNpc} \cup
                [at : Groups, seed : Seeds, hp : {"alive", "dead", "leaving"}]]
    BY <1>2 DEF World
<1>9. /\ npc \in [Npcs -> {NoNpc} \cup
                [at : Groups, seed : Seeds, hp : {"alive", "dead", "leaving"}]]
      /\ \A n \in ns : npc[n] = NoNpc
      /\ \A n \in Npcs : n \notin ns => npc[n] = w.npc[n]
    BY <1>4, <1>5, <1>8
<1>10. list \in SUBSET (Objects \X Groups) /\ view \in [Players -> SUBSET Objects]
    BY <1>2, <1>6, <1>7 DEF World
<1>11. PICK none : none = {}
    OBVIOUS
<1>12. none \in SUBSET Npcs
    BY <1>11
<1>13. PICK v : v = [w EXCEPT !.view = view, !.list = list, !.npc = npc,
                              !.mtDeleteSelfList = none]
    OBVIOUS
<1>14. /\ v \in World /\ v.npc = npc /\ v.list = list /\ v.view = view
       /\ v.groupIndex = w.groupIndex /\ v.groups = w.groups /\ v.player = w.player
    BY <1>2, <1>9, <1>10, <1>12, <1>13 DEF World
<1>15. world' = v
    <2>1. world' = [w EXCEPT !.view = [p \in Players |->
                                  w.view[p] \ {n \in ns : <<p, w.npc[n].at>> \in w.list}],
                             !.list = {x \in w.list : x[1] \notin ns},
                             !.npc = [n \in Npcs |-> IF n \in ns THEN NoNpc ELSE w.npc[n]],
                             !.mtDeleteSelfList = {}]
        BY <1>1, <1>2, <1>3 DEF Execute, World
    <2> QED BY <1>5, <1>6, <1>7, <1>11, <1>13, <2>1
<1>16. \A n \in Npcs, y \in Groups : <<n, y>> \in w.list <=> w.npc[n] # NoNpc /\ w.npc[n].at = y
    BY <1>2 DEF Listed
<1>17. /\ \A p \in Players, y \in Groups : <<p, y>> \in list <=> <<p, y>> \in w.list
       /\ \A n \in Npcs, y \in Groups : <<n, y>> \in list <=> <<n, y>> \in w.list /\ n \notin ns
       /\ \A x \in list : x \in w.list
    BY <1>4, <1>6, ObjectsAssumption
<1>18. Listed(v, {})
    <2>1. ASSUME NEW n \in Npcs, NEW y \in Groups
          PROVE  <<n, y>> \in v.list <=> v.npc[n] # NoNpc /\ v.npc[n].at = y
        BY <1>9, <1>14, <1>16, <1>17
    <2> QED BY <1>2, <1>14, <1>17, <2>1 DEF Listed
<1>19. \A y \in Groups : PlayersIn(v, y) = PlayersIn(w, y) /\ NpcsIn(v, y) = NpcsIn(w, y) \ ns
    BY <1>14, <1>17 DEF PlayersIn, NpcsIn
<1>20. Shown(v)
    <2>1. ASSUME NEW x \in Players
          PROVE  /\ Real(v.player[x]) => v.view[x] = Around(v, x)
                 /\ ~Real(v.player[x]) => v.view[x] = {}
        <3>1. /\ Real(w.player[x]) => w.view[x] = Around(w, x)
              /\ ~Real(w.player[x]) => w.view[x] = {}
            BY <1>2 DEF Shown
        <3>2. v.player[x] = w.player[x]
              /\ v.view[x] = w.view[x] \ {n \in ns : <<x, w.npc[n].at>> \in w.list}
            BY <1>7, <1>14
        <3>3. ASSUME Real(w.player[x])
              PROVE  v.view[x] = Around(v, x)
            <4>1. PICK q : q = w.player[x]
                OBVIOUS
            <4>2. q \in Groups
                BY <1>2, <3>3, <4>1, GroupIs DEF World
            <4>3. \A n \in ns : <<x, w.npc[n].at>> \in w.list <=> n \in NpcsIn(w, q)
                <5>1. ASSUME NEW n \in ns
                      PROVE  <<x, w.npc[n].at>> \in w.list <=> n \in NpcsIn(w, q)
                    <6>1. n \in Npcs /\ w.npc[n] # NoNpc /\ w.npc[n].at \in Groups
                        BY <1>2, <1>4, NpcIs
                    <6>2. <<x, w.npc[n].at>> \in w.list <=> q = w.npc[n].at
                        BY <1>2, <4>1, <6>1 DEF Listed
                    <6>3. n \in NpcsIn(w, q) <=> w.npc[n].at = q
                        BY <1>16, <4>2, <6>1 DEF NpcsIn
                    <6> QED BY <6>2, <6>3
                <5> QED BY <5>1
            <4>4. \A n \in ns : n \notin PlayersIn(w, q)
                BY <1>4, InGroup, ObjectsAssumption
            <4>5. w.view[x] = (PlayersIn(w, q) \cup NpcsIn(w, q)) \ {x}
                BY <3>1, <3>3, <4>1 DEF Around
            <4>6. Around(v, x) = (PlayersIn(w, q) \cup (NpcsIn(w, q) \ ns)) \ {x}
                BY <1>19, <3>2, <4>1, <4>2 DEF Around
            <4> QED BY <3>2, <4>3, <4>4, <4>5, <4>6
        <3> QED BY <3>1, <3>2, <3>3
    <2> QED BY <2>1 DEF Shown
<1>21. Declared(v, {})
    <2>1. \A y \in w.groups : PlayersIn(v, y) = PlayersIn(w, y)
        BY <1>2, <1>19 DEF World
    <2> QED BY <1>2, <1>14, <2>1 DEF Declared, AsDeclared
<1>22. OnePerSeed(v)
    <2>1. \A n \in Npcs : Standing(v, n) => n \notin ns /\ v.npc[n] = w.npc[n] /\ Standing(w, n)
        BY <1>9, <1>14 DEF Standing, NoNpc
    <2> QED BY <1>2, <2>1 DEF OnePerSeed
<1>23. IdsInOrder(v) /\ InRooms(v)
    BY <1>2, <1>9, <1>14 DEF IdsInOrder, InRooms
<1> QED BY <1>14, <1>15, <1>18, <1>20, <1>21, <1>22, <1>23 DEF Sound

-------------------------------------------------------------------------------
(* The theorems. *)

LEMMA InitSound ==
    ASSUME Init PROVE Sound(world, {}, {})
<1>1. PICK npc \in [Npcs -> {NoNpc} \cup
                      [at : {Group(s, 1) : s \in Towns}, seed : Seeds, hp : {"alive"}]] :
          /\ \A m, n \in {n \in Npcs : npc[n] # NoNpc} : npc[m] = npc[n] => m = n
          /\ world = [ groupIndex |-> [s \in Scenes |-> IF s \in Towns THEN 1 ELSE 0],
                       groups |-> {Group(s, 0) : s \in Scenes} \cup {Group(s, 1) : s \in Towns},
                       list |-> {<<n, npc[n].at>> : n \in {n \in Npcs : npc[n] # NoNpc}},
                       player |-> [p \in Players |-> Nowhere],
                       npc |-> npc,
                       mtDeleteSelfList |-> {},
                       view |-> [p \in Players |-> {}] ]
    BY DEF Init
<1>2. PICK w : w = world
    OBVIOUS
<1>3. PICK index : index = [s \in Scenes |-> IF s \in Towns THEN 1 ELSE 0]
    OBVIOUS
<1>4. PICK groups : groups = {Group(s, 0) : s \in Scenes} \cup {Group(s, 1) : s \in Towns}
    OBVIOUS
<1>5. PICK list : list = {<<n, npc[n].at>> : n \in {n \in Npcs : npc[n] # NoNpc}}
    OBVIOUS
<1>6. PICK player : player = [p \in Players |-> Nowhere]
    OBVIOUS
<1>7. PICK view : view = [p \in Players |-> {}]
    OBVIOUS
<1>8. /\ w.groupIndex = index /\ w.groups = groups /\ w.list = list /\ w.player = player
      /\ w.npc = npc /\ w.view = view
    BY <1>1, <1>2, <1>3, <1>4, <1>5, <1>6, <1>7
<1>9. /\ 0 \in 0 .. MaxGroup /\ 1 \in 0 .. MaxGroup
      /\ \A s \in Towns : s \in Scenes /\ SceneType[s] = "NORMAL"
    BY MaxGroupAssumption DEF Towns
<1>10. \A s \in Towns : /\ Group(s, 1) \in Groups /\ Group(s, 1).scene = s
                        /\ Group(s, 1).group = 1 /\ Real(Group(s, 1))
    BY <1>9, GroupIs DEF Real
<1>11. groups \in SUBSET Groups
    BY <1>4, <1>9, <1>10, GroupIs
<1>12. \A n \in Npcs : npc[n] # NoNpc =>
           /\ npc[n] \in [at : Groups, seed : Seeds, hp : {"alive", "dead", "leaving"}]
           /\ npc[n].at \in groups /\ npc[n].at \in Groups /\ Real(npc[n].at)
           /\ npc[n] = [at |-> npc[n].at, seed |-> npc[n].seed, hp |-> "alive"]
    <2>1. ASSUME NEW n \in Npcs, npc[n] # NoNpc
          PROVE  /\ npc[n] \in [at : Groups, seed : Seeds, hp : {"alive", "dead", "leaving"}]
                 /\ npc[n].at \in groups /\ npc[n].at \in Groups /\ Real(npc[n].at)
                 /\ npc[n] = [at |-> npc[n].at, seed |-> npc[n].seed, hp |-> "alive"]
        <3>1. npc[n] \in [at : {Group(s, 1) : s \in Towns}, seed : Seeds, hp : {"alive"}]
            BY <2>1
        <3>2. PICK s \in Towns : npc[n].at = Group(s, 1)
            BY <3>1
        <3>3. npc[n].at \in groups /\ npc[n].at \in Groups /\ Real(npc[n].at)
            BY <1>4, <1>10, <3>2
        <3> QED BY <3>1, <3>3
    <2> QED BY <2>1
<1>13. /\ npc \in [Npcs -> {NoNpc} \cup
                [at : Groups, seed : Seeds, hp : {"alive", "dead", "leaving"}]]
       /\ list \in SUBSET (Objects \X Groups)
       /\ index \in [Scenes -> -1 .. MaxGroup]
       /\ player \in [Players -> Groups \cup {Nowhere}]
       /\ view \in [Players -> SUBSET Objects]
    <2>1. index \in [Scenes -> -1 .. MaxGroup]
        BY <1>3, MaxGroupAssumption
    <2>2. list \in SUBSET (Objects \X Groups)
        BY <1>5, <1>12 DEF Objects
    <2>3. npc \in [Npcs -> {NoNpc} \cup
                [at : Groups, seed : Seeds, hp : {"alive", "dead", "leaving"}]]
        BY <1>12
    <2> QED BY <1>6, <1>7, <2>1, <2>2, <2>3
<1>14. w \in World
    <2>1. w = [groupIndex |-> index, groups |-> groups, list |-> list, player |-> player,
               npc |-> npc, mtDeleteSelfList |-> {}, view |-> view]
        BY <1>1, <1>2, <1>3, <1>4, <1>5, <1>6, <1>7
    <2> QED BY <1>11, <1>13, <2>1 DEF World
<1>15. Listed(w, {})
    <2>1. ASSUME NEW p \in Players, NEW q \in Groups
          PROVE  <<p, q>> \in w.list <=> w.player[p] = q
        <3>1. <<p, q>> \notin list
            BY <1>5, ObjectsAssumption
        <3>2. player[p] # q
            BY <1>6, GroupIs
        <3> QED BY <1>8, <3>1, <3>2
    <2>2. ASSUME NEW n \in Npcs, NEW q \in Groups
          PROVE  <<n, q>> \in w.list <=> w.npc[n] # NoNpc /\ w.npc[n].at = q
        BY <1>5, <1>8
    <2>3. \A x \in w.list : x[2] \in w.groups
        BY <1>5, <1>8, <1>12
    <2> QED BY <2>1, <2>2, <2>3 DEF Listed
<1>16. Shown(w)
    BY <1>6, <1>7, <1>8, GroupIs DEF Shown
<1>17. Declared(w, {})
    <2>1. ASSUME NEW q \in groups, Real(q) PROVE AsDeclared(w, q)
        <3>1. PICK s \in Towns : q = Group(s, 1)
            BY <1>4, <1>9, <2>1, GroupIs
        <3> QED BY <1>9, <1>10, <3>1 DEF AsDeclared
    <2> QED BY <1>8, <2>1 DEF Declared
<1>18. IdsInOrder(w)
    <2>1. ASSUME NEW q \in groups PROVE q.group <= index[q.scene]
        <3>1. CASE \E s \in Scenes : q = Group(s, 0)
            BY <1>3, <3>1 DEF Group
        <3>2. CASE \E s \in Towns : q = Group(s, 1)
            BY <1>3, <1>9, <3>2 DEF Group
        <3> QED BY <1>4, <3>1, <3>2
    <2> QED BY <1>4, <1>8, <2>1 DEF IdsInOrder
<1>19. OnePerSeed(w)
    <2>1. ASSUME NEW m \in Npcs, NEW n \in Npcs, Standing(w, m), Standing(w, n),
                 w.npc[m].at = w.npc[n].at, w.npc[m].seed = w.npc[n].seed
          PROVE  m = n
        <3>1. npc[m] # NoNpc /\ npc[n] # NoNpc
            BY <1>8, <2>1 DEF Standing, NoNpc
        <3>2. npc[m] = npc[n]
            BY <1>8, <1>12, <2>1, <3>1
        <3> QED BY <1>1, <3>1, <3>2
    <2> QED BY <2>1 DEF OnePerSeed
<1>20. InRooms(w)
    BY <1>8, <1>12 DEF InRooms
<1> QED BY <1>2, <1>14, <1>15, <1>16, <1>17, <1>18, <1>19, <1>20 DEF Sound

\* Every operation leaves the world sound.
LEMMA AlwaysSound == Spec => []Sound(world, {}, {})
<1>1. Init => Sound(world, {}, {})
    BY InitSound
<1>2. Sound(world, {}, {}) /\ [Next]_world => Sound(world, {}, {})'
    <2> SUFFICES ASSUME Sound(world, {}, {}), [Next]_world PROVE Sound(world', {}, {})
        OBVIOUS
    <2>1. ASSUME NEW p \in Players, NEW s \in DefaultScenes, CreatePlayer(p, s)
          PROVE  Sound(world', {}, {})
        BY <2>1, CreatePlayerSound, DefaultScenesAssumption
    <2>2. ASSUME NEW p \in Players, DestroyPlayer(p) PROVE Sound(world', {}, {})
        BY <2>2, DestroyPlayerSound
    <2>3. ASSUME NEW p \in Players, NEW s \in Scenes, OnClientSwapScene(p, s)
          PROVE  Sound(world', {}, {})
        BY <2>3, SwapSceneSound
    <2>4. ASSUME NEW p \in Players, NEW s \in Scenes, EnterClone(p, s)
          PROVE  Sound(world', {}, {})
        BY <2>4, EnterCloneSound
    <2>5. ASSUME NEW n \in Npcs, KillNpc(n) PROVE Sound(world', {}, {})
        BY <2>5, KillNpcSound
    <2>6. ASSUME NEW n \in Npcs, OnNPCDeadDestroyHeart(n) PROVE Sound(world', {}, {})
        BY <2>6, DestroyHeartSound
    <2>7. CASE Execute
        BY <2>7, ExecuteSound
    <2>8. CASE UNCHANGED world
        BY <2>8
    <2> QED BY <2>1, <2>2, <2>3, <2>4, <2>5, <2>6, <2>7, <2>8 DEF Next
<1> QED BY <1>1, <1>2, PTL DEF Spec

\* The world is what its declaration says, whatever the operations do.
THEOREM TypeCorrect == Spec => []TypeOK
<1>1. Sound(world, {}, {}) => TypeOK
    BY DEF Sound, TypeOK
<1> QED BY <1>1, AlwaysSound, PTL

\* The lists of NFSceneGroupInfo and the objects' SceneID and GroupID agree after
\* every operation, and ReleaseGroupScene leaves no object behind.
THEOREM ListsFollowObjects == Spec => []ObjectsAreListed
<1>1. Sound(world, {}, {}) => ObjectsAreListed
    BY DEF Sound, Listed, ObjectsAreListed
<1> QED BY <1>1, AlwaysSound, PTL

\* What OnObjectListEnter and OnObjectListLeave have told a client adds up to what
\* is in its player's group, and to nothing in group 0.
THEOREM ClientsShowTheirGroup == Spec => []ViewsMatch
<1>1. Sound(world, {}, {}) => ViewsMatch
    BY DEF Sound, Shown, Around, Real, ViewsMatch
<1> QED BY <1>1, AlwaysSound, PTL

\* A town has one group; AfterLeaveSceneGroupEvent ends a private room when its one
\* player leaves, and a room for several when the last one does.
THEOREM RoomsAreUsedAsDeclared == Spec => []RoomsAsDeclared
<1>1. Sound(world, {}, {}) => RoomsAsDeclared
    <2> SUFFICES ASSUME Sound(world, {}, {}), NEW q \in world.groups, q.group > 0
                 PROVE  CASE SceneType[q.scene] = "NORMAL" -> q.group = 1
                          [] SceneType[q.scene] = "SINGLE_CLONE" ->
                                 Cardinality(PlayersIn(world, q)) = 1
                          [] OTHER -> PlayersIn(world, q) # {}
        BY DEF RoomsAsDeclared
    <2>1. AsDeclared(world, q)
        BY DEF Sound, Declared, Real
    <2>2. SceneType[q.scene] \in {"NORMAL", "SINGLE_CLONE", "MULTI_CLONE"}
        <3>1. q \in Groups
            BY DEF Sound, World
        <3> QED BY <3>1, SceneTypeAssumption, GroupIs
    <2>3. SceneType[q.scene] = "SINGLE_CLONE" => Cardinality(PlayersIn(world, q)) = 1
        BY <2>1, FS_Singleton DEF AsDeclared
    <2> QED BY <2>1, <2>2, <2>3 DEF AsDeclared
<1> QED BY <1>1, AlwaysSound, PTL

\* CreateSceneNPC fills a room once and OnNPCDeadDestroyHeart replaces only what is
\* on its way out: a place never has two monsters.
THEOREM PlacesAreNotShared == Spec => []OneNpcPerSeed
<1>1. Sound(world, {}, {}) => OneNpcPerSeed
    BY DEF Sound, OnePerSeed, Standing, OneNpcPerSeed
<1> QED BY <1>1, AlwaysSound, PTL
===============================================================================
