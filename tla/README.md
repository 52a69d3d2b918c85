# A TLA+ model of NoahGameFrame (UE5NoahServer)

NoahGameFrame is a distributed game server in C++: a *kernel* (objects with
properties and records, events, timers, scenes, actors on a thread pool) that
every process runs, and six kinds of process built on it (master, world, login,
proxy, game, DB). This directory models the parts whose correctness depends on
orders of steps that tests hardly reach, model-checks them with TLC, and proves
what matters most of them with TLAPS for every size of the system.

1. [The system](#1-the-system) · 2. [The modules](#2-the-modules) ·
3. [What the runs check](#3-what-the-runs-check) · 4. [Fairness](#4-fairness) ·
5. [What is proved](#5-what-is-proved) · 6. [Findings](#6-findings) ·
7. [What is left out](#7-what-is-left-out) · 8. [Plan](#8-plan)

To check it: `tlc -config MCSchedule.cfg MCSchedule.tla` and so on for each
`.cfg`; `tlapm` on each of `ActorSystemProofs`, `ScheduleProofs`,
`EventModuleProofs`, `NetClientProofs`, `WorldServerProofs`, `GameSessionProofs`,
`SceneGroupsProofs` and `PropertyModuleProofs`. `PROJECT.json` maps every definition
to the lines it stands for, and lists runs, mutants, hazards and theorems.

## 1. The system

All logic of a process runs on one main thread, which calls `Execute` of every
module once per frame; the only other threads are the pool's workers. Between
processes there is TCP: messages of one connection arrive in order or the
connection breaks, and nothing is sent again.

| Component | State | Operations | Hard because | Correct when |
|---|---|---|---|---|
| Thread pool (`NFThreadPoolModule`) | a task queue per worker, the task it runs, one result queue | `DoAsyncTask`, the worker's loop, `ExecuteTaskResult` | real threads; the result queue orders nothing between producers; a null id means worker 0 | end functors of one task id run in order; every job ends |
| Actors (`NFActorModule`, `NFActor`) | the actors, a message queue each, one result queue | `RequireActor`, `ReleaseActor`, `SendMsgToActor`, the tasks of each frame, `NFActor::Execute`, `ExecuteResultEvent` | a task per actor per frame whatever is pending; release while tasks hold the actor | one thread per actor; messages neither lost nor doubled; results in the order of the calls |
| Schedule (`NFScheduleModule`) | timers by object and name, an ordered list of ticks | `AddSchedule`, `RemoveSchedule`, `Execute` with callbacks | callbacks add and remove timers inside the loop; removing leaves the tick | armed timers fire, as often as asked, never early, once per interval |
| Events (`NFEventModule`, `NFList`) | a list of callbacks per event, object and class, each with the only cursor there is over it | `AddEventCallBack`, `DoEvent`, `RemoveEventCallBack` | callbacks raise events, add and remove callbacks; all walks over a list share its cursor | every callback once, in order |
| Object pipeline (`NFKernelModule`) | objects, objects to be destroyed | `CreateObject` in stages, `DestroyObject`, `DestroySelf`, `Execute` | every stage calls back; what is noted for destruction is used until the next frame | no object where none should be |
| Scenes, groups, cells (`NFSceneModule`, `NFSceneProcessModule`, `NFNPCRefreshModule`) | groups of a scene, two lists of members, dead monsters | enter, leave, swap, request and release of groups, kill and replace | groups are released inside the callbacks of leaving; enters and leaves are told from several places | lists, properties and what clients were told agree; rooms end |
| Player values (`NFPropertyModule`, `NFAutoBroadcastModule`, `NFRecord`, `NFProperty`) | the record `CommValue`, a property per value, what each client was told | levels, equipment, healing, a game master's rows | handlers run before the change is complete and change other values | a value is the sum of its causes, and clients show it |
| Links between servers (`NFNetClientModule`, `NFNet`, `NFConsistentHash`) | a state machine and a socket per link, the hash of live servers | connect, register, lose, wait, reconnect, choose by key | the map's only iterator; attempts that fail at once; hashes that collide | exactly the live servers are chosen |
| World server | tables of servers by socket, roles online | register, disconnect, synchronise, online and offline reports | the two ends of a socket learn of its end at different times; numbers of sockets are used again | a socket stands for who owns it; proxies learn of games |
| Master and login | lists of worlds, the way of a login | pass messages on | a state one server behind | |
| Client sessions at the proxy | a `NetObject` per connection | connect, key, select server, enter, ack, disconnect | the client goes at any step | a leave for each session that was |
| Gates and players at the game server | gate info per gate and per role, player objects | gate registers and goes, enter, load answer, leave, save | loads, leaves and links cross | one session per role, always reachable |
| Role data behind the DB servers | the stored role | load, save, create, list | save and load take different connections | no progress is lost |

The rest (configuration, plugin loading, scripting, storage drivers, HTTP and
WebSocket, logging, navigation, tools, generated and vendored code) is listed
with its reason in `PROJECT.json`.

How they interact: the actor module puts tasks into the workers and gets their
results on the main thread. Timers fire on the main thread and call back into
everything, and so do events and the callbacks of properties and records. A
client's request to enter goes proxy → game → DB → game → proxy; the game server
destroys and creates the player's object on the way, and the callbacks of its
class save the role, enter a scene and fill its values. Every server finds the
others through the world server, over the links of `NFNetClientModule`.

## 2. The modules

| Module | Models | State and actions |
|---|---|---|
| `ThreadPool` | `NFThreadPoolModule`, `NFThreadCell`, `NFQueue` | state and operations of the pool, used by extension. `ThreadOf` is the choice of a worker; `mTaskResult` is kept per producer because the lock-free queue is FIFO for one producer only |
| `ActorSystem` | `NFActorModule`, `NFActor` on the pool | the main loop as a program counter (`mainPc`): calls of other modules, then `ExecuteEvent` (one step per actor), `ExecuteResultEvent`, `ExecuteTaskResult`. A worker's steps are one queue operation or one handler each |
| `ActorMailbox` | nothing in the code: what callers may rely on | an actor as a sequential server: accept, process or ignore, deliver |
| `Schedule` | `NFScheduleModule` | timers (`mObjectScheduleMap`), ticks (`mScheduleMap`), `Execute` with one step per tick and calls between a callback's start and its return |
| `EventModule` | `NFEventModule` and `NFList`, for events of a module and of an object | lists with their cursors, the map of events, and the walks under way as a stack; a step from one callback's return to the next call |
| `ConsistentHash` | `NFConsistentHash`, `NFConsistentHashMapEx` | the circle of virtual nodes and the list of servers, used by extension; `Points` are the hashes of a server |
| `NetClient` | `NFNetClientModule` with the client's side of `NFNet` | a `ConnectData` and a socket per server; the loop over the links (`pc`, `mObjectCurIter`), one step per link and per libevent event; callbacks that look a link up or send to all move the walk's cursor |
| `WorldServer` | the world server's tables, `NFGameServerToWorldModule`, `NFProxyServerToWorldModule` | both ends of each socket with what is under way on it; one action per message handler, per loss and per crash |
| `SceneGroups` | scenes, groups, cells, monsters that are killed and replaced, with creation and destruction in the kernel | one variable, `world`; an action per operation that is called from outside, a chain of operators per callback inside |
| `PropertyModule` | `NFPropertyModule`, `NFAutoBroadcastModule` and the game master's changes over `NFRecord` and `NFProperty` | one variable, `player`, written like `SceneGroups` |
| `GameSession` | proxy, game and DB server as far as a role's session goes | a FIFO per direction and link; one action per message handler |
| `MC*` | small instances | |
| `ActorSystemProofs`, `ScheduleProofs`, `EventModuleProofs`, `NetClientProofs`, `WorldServerProofs`, `GameSessionProofs`, `SceneGroupsProofs`, `PropertyModuleProofs` | | the theorems of section 5 |

In `ActorSystem` a message is its id, its index and its actor; payloads are not
looked at by the module. `RequireActor` includes the `AddComponent` of its
caller, because no frame ends between the two. In `Schedule` all times are
relative to the present, so that the clock needs no bound: each tick of the
clock brings every trigger time one nearer, down to `-MaxLag`, below which all
look alike. In `GameSession` the role's data is a version number; the
properties compare versions. `SceneGroups` and `PropertyModule` have one record
for a state because their hazard lies inside a call: what a callback finds is
what the callbacks before it have left, so each is an operator from a record to
a record, applied in the order in which the code registers them. `WorldServer`
takes a link as there, broken or gone; how a process gets one is `NetClient`.

History variables say what happened and never guard an action: what was
delivered (`ActorSystem`), how often a timer was asked for and fired
(`Schedule`), and for a session the roles that were `contested` (asked for
while another session of the role was unfinished), `doubleLoaded`, `overtaken`
(loaded from one DB server while a save was on its way to another), `abandoned`
(the client left before it knew it was in) and `lost` (touched by a broken
connection or a failed load). The properties of a session exempt these roles
by name. Each exemption is needed: without it TLC finds a behaviour of the code
that breaks the property, so the list of exemptions is the list of what can go
wrong with a session, and the properties say that nothing else can. The same
holds for `untold`, `crossed`, `cleared` and `overtaken` of `WorldServer` (the last
report of a role was lost; reports of two servers about a role were under way
together; the last report was that the role left one server while another still had
it; a server's older registration was read after its newer one), for `readded` of `Schedule`, and for
`untold` and `unsummed` of `PropertyModule` (a row was covered or came into use
without a word to a client; a value other than the first was not summed again
when a row came or went).

## 3. What the runs check

**actors** (`MCActorSystem.cfg`, 450 000 states). Two actors and the jobs of
other modules, which have the null id, share worker 0 of two; a message id with a handler and an end
functor and one with neither; two messages, two jobs. Two messages are the
fewest that can be swapped, two actors the fewest that can be mixed up; the
other worker is where a task would stray. `MaxTasks` bounds the tasks waiting
when a frame adds more: with one waiting and one running, tasks of different
frames overlap. Properties: `OneThreadPerActor`, `NothingLostOrDoubled`,
`EndsInSendOrder`, `JobsEndInOrder`, and `ImplementsMailbox`, the refinement
of `ActorMailbox`: an actor on the pool is indistinguishable from a sequential
server. Deadlock is not checked: `BeforeShut` stops the process.

**actors_live** (`MCActorLiveness.cfg`). `MessagesSettle`: a message is handled
and its result delivered, or it is dropped, unless its actor was released or the
process stopped. `ReleasedActorGoesQuiet`: the tasks holding a released actor
run out. `JobsEnd`: jobs are run although actors share their worker.

**schedule** (`MCSchedule.cfg`, 460 000 states, under `FairSpec`). One object
with two timers, intervals 0 and 2, counts endless, zero and two; three ticks
outstanding are enough for a timer with a stale tick beside another timer;
`Execute` may take a millisecond (`MaxLag`), so that trigger times counted from
the start of the loop differ from those counted in a callback. Safety:
`ArmedTimerHasTick`, `OneTickUnlessReadded`, `CountedExactly`, `NoDueTickLeft`,
`NeverEarly`. The two that speak of `readded` show the one way to a doubled or
early heartbeat: adding a timer again while the tick of its removed namesake is
left. Liveness: `ArmedTimerFires`, `ExecuteEnds` (a callback that adds timers
that are due at once does not keep the loop going for ever, since its time is
read once).

**events** (`MCEventModule.cfg`, 600 000 states). An event of a module and one of
an object, two callbacks, lists of two, three walks inside one another: the
fewest with which a walk can be interrupted by one over the same list, which is
interrupted itself, and with which an event is raised again inside the common
callbacks. Three lists, because a removed list that is still walked is beside
the new one of its event. `CallsInOrder`.

**links** (`MCNetClient.cfg`, 5 600 states, under `FairSpec`). Three servers, five
hashes: two servers share a hash, the third has both its nodes to itself. Three
links are the fewest with one behind the link whose handler sends to all.
`ListedServersWork`, `SuitFindsALink`, `KeysStay`, `LostLinkComesBack`, and
`LinksServedOnce`: handlers and callbacks start the map's only iterator anew in the
middle of the walk (`SendToAllServer`, `GetServerNetInfo`), but it is at the link
being served or at the end when the walk goes on, so that a frame serves no link
twice and ends. That it may end early is the hazard `LostLinkComesBack` is about.

**world** (`MCWorldServer.cfg`, 1 460 000 states). Two game servers, a role that
is on none, one or both of them, three numbers of sockets (each server may have an old and a
new one, and one of them be used again), two messages under way per socket,
crashes of every process, the world server's too. `SocketsAreTheirs`,
`RegisteredServersStay`, `RolesAreWhereShown`. A role comes to be on both servers
when its client selects another one and its leave goes there, too. Then the code
lets the offline report of either server clear the record of the other, so the
role is hidden from then on (`cleared`); the property says exactly that, and that
nothing else hides a role or shows it where it is not, but for reports that were
lost or that two servers had under way together. No proxies: that their entries
stay right is proved, and `world_live` has one.

**world_live** (`MCWorldLiveness.cfg`). A game server and a proxy:
`ProxiesLearnOfGames`.

**scenes** (`MCSceneGroups.cfg`, 71 000 states, under `FairSpec`). Two players, a
scene of each type, three monsters of one place, two group ids: two players are
enough for one to stay in a room the other leaves, three monsters for one that is
dying, its replacement, and one in another group. `ViewsMatch`, `ObjectsAreListed`,
`RoomsAsDeclared`, `OneNpcPerSeed`, `DeadNpcsGo`.

**values** (`MCPropertyModule.cfg`, 250 000 states). Two causes, `MAXHP` and the
first column, two levels, cells of 0 and 1, the player's own client and another:
the least with a sum of which one part goes, and with HP above a `MAXHP` that
falls. `ValuesFollowTheRecord`, `ClientsShowTheObject`.

**session** (`MCGameSession.cfg`, 1 270 000 states). One role and two
connections, because sessions interfere only over one role; two gates, two
sockets between gates and game server over time (a gate that loses the game
server and comes back before the loss is noticed), two DB servers, one fault
(a failed load or a lost DB link), two requests to enter, one change of data.
Properties: `PlayersHaveGateInfo`, `GateListsItsRoles`, `NoRollback`,
`NoGhostPlayers`, `EnteredClientsPlay`, `LeavesEndTheirOwnSession`. A
connection is used once, so the run ends when all are closed and deadlock is
not checked.

**session_live** (`MCGameLiveness.cfg`). `EnterAnswered`: who asks is let in,
unless it goes, another asks for the role, or a connection breaks.

**session_reload** (`MCGameReload.cfg`) is expected to fail, see section 6.

Each property has a mutant: a change of the model such as a plausible bug would
make (`AddScheduleAnyway`, `OnClientDisconnectQuietly`, kept beside the definition it replaces), under
which TLC finds that property violated.

`GameSession` has its type invariant in a run, and it is proved. Those of `ActorSystem`,
`NetClient`, `WorldServer` and `SceneGroups` are theorems. Those of `Schedule`,
`EventModule` and `PropertyModule` hold on the instances above and are left out
of the configurations, which are kept for what could go wrong; add
`INVARIANT TypeOK` to look.

## 4. Fairness

The main loop runs until shutdown: weak fairness of `MainLoop`. A worker is an
endless loop of its own thread: weak fairness of `Worker(t)`, which also says
that handlers return. `ExecuteEvent` is skipped until ten milliseconds have
passed since the last time; they pass again and again while the loop turns, but
not on every turn: strong fairness. In `Schedule` the clock runs (weak) and the
main loop calls `Execute` (weak). In `GameSession` each server reads what has
arrived: weak fairness of the reading of each link. In `WorldServer` each server
also notices what has broken and goes on connecting, since its links are looked
at in every frame (weak). In `SceneGroups` the timer of a dead monster fires
(what `ArmedTimerFires` says of the schedule) and the kernel executes (weak).

`NetClient` has weak fairness of its loop and of the clock, and strong fairness
of two things nothing in the code guarantees but the property is about: a
connection that is looked at again and again while it is being made is made in
the end (else the server is simply not there), and a link is sometimes reached by
the loop although handlers of links before it send to all servers, which cuts the
frame short; a process in which that happens in every frame does starve the links
behind.

Nothing is assumed of clients, of links staying up, or of the save timer.

## 5. What is proved

Each theorem holds for any sets and any bounds that satisfy the named
assumptions of its module.

**Actors** (`ActorSystemProofs`):

* `Typed`: `Spec => []TypeOK`.
* `OneThread`: `Spec => []OneThreadPerActor`. `OneThreadPerActor` is not
  inductive: nothing in it says where the *waiting* tasks are. `Pinned` does:
  every task of an actor, waiting or running, is at the worker `ThreadOf`
  selects. `DoAsyncTask` pushes it there, `PopTask` takes it from the same
  worker, and two threads that run one actor are then one thread. `TypeOK` and
  `Pinned` are inductive together, because `TypeOK` needs to know that a worker
  in `NFActor::Execute` has an actor's id.
* `InSendOrder`: `Spec => EndsInSendOrder`. `Ordered` says that no message
  overtakes an older one of its actor anywhere between queue, worker, results
  and history: each of its five parts covers one pair of places. It needs
  `AtHome` (a message in a worker's hands and its result belong to an actor of
  that worker), which follows from `Pinned`. Without it a result of the same
  actor could wait at two workers, and the result queue promises no order
  between them.
* `JobsInOrder`: `Spec => JobsEndInOrder`. A worker takes its tasks in the order
  in which they came (`JobsOrdered`), and all jobs of one task id are at one
  worker (`JobsAtHome`). The second is needed for the same reason as `AtHome`.
* `OncePlace`: `Spec => []NothingLostOrDoubled`. `OncePlaced` says that every
  number below `index` is at exactly one place and that all others are nowhere.
  A step either moves one message or none; when the head of a queue or of a
  result list leaves, the messages behind it move up by one (`Up`), which gives
  no two of them the same place.
* `Implements`: `Spec => ImplementsMailbox`. The initial state maps to the
  mailbox's, and every step of the pool, the workers and the main loop maps to one
  of `ActorMailbox` or to a stutter. The mapping sees an actor through its own
  queue, the hands of its worker and the results at its worker (`ResultsOf`), so
  a step has to be shown to leave all other actors' views alone; that is `AtHome`
  again. `ResultsOf` is a recursive function of a list; what it makes of a list
  with one more result, or without its first, is shown by induction over the
  length.

**Schedule** (`ScheduleProofs`):

* `CountsExact`: `Spec => []CountedExactly`, inductive once the counters are
  numbers (`CountersTyped`): each action that changes what is left of a timer
  changes what was asked for or has fired with it.
* `ArmedHasTick`, `OneTick`, `NoneDueIsLeft` and `NoneIsEarly` rest on one
  invariant, `SInv`. A timer's tick leaves the list while its callback runs, comes
  back by way of `elements`, and may be gone for good if the callback removed the
  timer, so the properties are about three places. `Backed` says that an armed
  timer has a tick in the list or in `elements` no later than itself, or that the
  running callback owes it one (`Owed`); `SingleUnlessReadded` that it has one of
  these only; `NotEarly` that none is earlier than itself; and `InOrder` that the
  list is in the order of the times, which is why `Execute` may stop at the first
  tick that is not due. Times are any integers. Insertion is shown to put a tick
  between those before and those after it (`InsertTickPuts`), and the last loop of
  `Execute`, a recursive function, to keep all that is said of the two lists
  (`PutBackKeeps`, by induction over the list).

**Events** (`EventModuleProofs`): `InOrder`, `Spec => CallsInOrder`. What makes
the shared cursor harmless is `WalksFit`: what a walk has called is the beginning
of its list (`WalksBegan`); the innermost walk over a list finds the cursor where
it left it, or at the end if a walk inside it has ended there (`CursorsFit`); and
every walk with another one above it over the same list is marked as interrupted
(`OuterKnow`), so that it is allowed to stop short. Starting a walk gives it the
cursor (`StartFits`) and ending one leaves the cursor at the end for those below
(`EndFits`); adding a callback only ever lengthens a list at its end or takes a
list nobody walks.

**Links** (`NetClientProofs`): `TypesCorrect`, `ListedWork`, `ServedOnce`,
`SuitFinds` and `KeysKept`. `LinksServedOnce` rests on `WalkFits`: while a link is
served the cursor is at that link or at the end, whatever callbacks have done. `ListedServersWork` needs `SocketsFit` (a link that
is not connected or connecting has no socket, or a closed one), since a reconnect
replaces the socket without touching the list. `SuitFindsALink` needs
`NodesOfListed`: a node on the circle is a listed server's, at one of its own
hashes, and a listed server has all the nodes that no other server could have.
Both are facts about sets of numbers, so the proofs also establish that
such a set has a lowest element (`LowestExists`, by well-founded induction's
minimum).

**World server** (`WorldServerProofs`): `TypesCorrect`, `SocketsTheirOwn`,
`RegisteredStay` and `RolesShown`. A link and the owner of an unbroken socket are the same thing
from two ends (`LinksMatch`); the number of a socket is free only when all of it
was read and it was closed (`FreeSockets`), so no message of an earlier owner is
taken for a later one's; and proxies only ever register (`ProxiesOnlyRegister`).
`RolesAreWhereShown` says something only while nothing about the role is under way.
`RolesFollowed` says what is under way: the reports of a role are on one socket
only, and the last of them leaves the world server with what it should have
(`Places`). That there is one socket is what `crossed` exempts: nothing orders two.
A role may be on several servers, and what the world server should have is then any
of them, or none once one of them reported it gone (`cleared`).

**Sessions** (`GameSessionProofs`): `TypesCorrect`, `PlayersBound` and
`ListsRight`. A player's session is kept in three places of the game server: the
object, its gate info and the list of its gate. `PlayersHaveGateInfo` and
`GateListsItsRoles` say that they agree, and are inductive together with the types
and `SendersAreLinked`: a gate has messages under way only while its link is
there, so a request that arrives comes from a gate that is registered. A role is
taken off the list of the gate it was bound to before it is put on another's, and
that is the only list it can be on, which is `GateListsItsRoles` again.

**Players** (also `GameSessionProofs`): `NewestPlayed`, `PlayersFollowClients`,
`EnteredIsPlaying` and `LeavesAreOwn`.

* `NoRollback` compares a player with its newest data while there is a player, and
  the data lives elsewhere in between. `DataSafe` follows it: without a player the
  store holds the newest data once the saves under way have arrived, for the last
  of them carries it; one load at most is under way, behind every save at their DB
  server, and its answer is the newest data. With a player no load is under way
  that could replace it.
* The other three speak of a role about which nothing is under way, and what makes
  them true happens while something is. `SessionsOrdered` has the invariants of
  that: whoever has anything to do with a role has asked for it, and a leave comes
  from a client that is gone (`ClientsAsked`); once a client is gone its leave is
  behind every request of it, and on its way to every player bound to it
  (`Followed`); of a role that nobody
  contested only one client has anything under way (`OneClaims`), so nobody else's
  leave, answer or request can touch the session; and a role with gate info has a
  player or a load under way that will make one (`PlayedOrLoading`).

**Scenes** (`SceneGroupsProofs`): `TypeCorrect`, `ListsFollowObjects`,
`ClientsShowTheirGroup`, `RoomsAreUsedAsDeclared` and `PlacesAreNotShared`. An
operation is a chain of callbacks, between which the world is not as it should
be. `Sound(w, out, but)` says how much of it is: everything, except that the
players `out` are between two groups and that the groups `but` are not used as
their scene's type declares. Each operator of the chain is shown to lead from one
such world to the next: `LeaveSound` takes a player out and lets its room end,
`RequestSound` makes a room nobody uses yet, `CreateSceneNPCSound` fills it,
`EnterSound` puts the player in and makes all well again. `Sound(world, {}, {})`
is then inductive. It has two parts of its own beside the properties: ids of
groups are handed out in order (`IdsInOrder`), so a new room is never one that is
there, and monsters stand in real groups only (`InRooms`), so a client whose
player is in group 0 is never shown one.

**Player values** (`PropertyModuleProofs`): `TypesRight`, `SumsFollow` and
`ClientsFollow`. As with the scenes, an operation is a chain of callbacks, and each
operator of the chain has a lemma that says what it needs and what it leaves.
`Sound` is what holds between two calls: types, sums, HP within MAXHP, values and
rows as the clients show them. In between some of it does not hold:
`SetProperty` writes a value that is a sum only for `OnRecordEvent`, which calls
it (`SetPropertyDoes`, `OnRecordEventDoes`); `Remove` tells the clients of a row that
is still in use, so that between its two events that row alone is shown
wrongly (`RemoveSound`). The sum of a column and the columns of a level's row are
folds over finite sets: such a fold is shown to exist and to keep what each of its
steps keeps (`FoldExists`, `FoldStays`), which needs that causes and values are
finitely many.

The inductive invariants were checked with TLC on the small instances, too.

The library's induction theorems take an operator as a parameter, which the
provers cannot instantiate. Induction over numbers is derived here from the
well-founded minimum (`AllNumbers`: a set of numbers that holds 0 and the successor
of each of its members holds all), and from it induction over the sets of a finite
set (`AllSubsets`). With these the few recursive functions of the models, which are
not RECURSIVE operators, can be reasoned about.

Model-checked only: the liveness properties (`MessagesSettle`,
`ReleasedActorGoesQuiet`, `JobsEnd`, `ArmedTimerFires`, `ExecuteEnds`,
`EnterAnswered`, `LostLinkComesBack`, `DeadNpcsGo` and `ProxiesLearnOfGames`), which
are beyond the prover, and `ReloadKeepsThePlayer`, which the code violates. Every
other property that a run checks is a theorem, the refinement of `ActorMailbox`
among them.

## 6. Findings

`NFCreateRoleModule::OnDBLoadRoleDataProcess` handles the data of a role that is
already in the game. The comment says the player should be bound to the proxy's
new connection; the code destroys the object and builds a new one from the data
that arrived, which is older than what was just destroyed. Run `session_reload`
shows it with a single client that asks twice: the second request is accepted
because `GateBaseInfo`'s constructor leaves `eStatus` uninitialised, which the
model takes as a free choice of its value.

## 7. What is left out

* Object lifetime and memory (shared pointers, the second control block of
  `AddComponent`), and the spurious failure of a lock-free dequeue: consumers
  try again a frame or a millisecond later.
* `NFActor::SendMsg` and `BackMsgToMainThread`, which nothing calls, and the
  switch that runs actors on the main thread for tests.
* In `GameSession`: role lists, creation and deletion (they pass through),
  scenes and movement, a second game server, role data cached between load and
  creation; objects are created in one step there. Messages are whole: packs
  that do not parse are not modelled. The loss of a DB link is noticed by both its
  ends in one step, close and event together. A client that selects another game
  server after it entered would need the second game server; `WorldServer` has what
  follows from it, a role on both.
* Creation of objects over a worker thread. `NFKernelModule::CreateObject` has
  the code, but only once `SetUsingBackThread` was called, and nothing calls it:
  all stages run in one call, and so they do in the models.
* In `SceneGroups`: properties and records of a group, positions, cells (their
  lists are the group's). Scenes of one configuration are taken as given. Of
  group properties the code reads one there: a group of a scene of type
  `MULTI_CLONE_SCENE` is released only while it has no `MasterID`
  (`NFSceneProcessModule.cpp:153`), which is set for private rooms only
  (`NFCreateRoleModule.cpp:240`). A request for a private room that names an older
  room would be let in (`NFSceneProcessModule.cpp:103`); every caller names the
  room it has just asked for, so the model has no other.
* In `EventModule`: the two lists of what `Execute` would remove, which nothing
  fills, and `BeforeShut`.
* In `NetClient`: the listening side of `NFNet`, the framing of messages, and
  links of several server types, which have circles of their own.
* In `WorldServer`: DB servers (the code repeats that of proxies), messages
  passed on, the reports to the master, and the messages to unregister and
  refresh, which nobody sends.
* In `PropertyModule`: MP, SP, gold and other counters, experience (levels are
  taken as won), a game master who sets totals or HP directly
  (`NFGameManagerModule.cpp:102`), after which a value need not be the sum of its
  causes, values that are not integers. The configuration of every level and job is
  there: the returns without one (`NFPropertyModule.cpp:94`, `:242`) change no
  value, nor does the switch `activeExtraController` (`:142`, `:273`).
* Master and login server, the store of accounts and role lists, movement,
  example games, configuration, scripting, storage drivers, generated and
  third-party code. The reasons are in `PROJECT.json`. Generated and third-party
  code is most of the repository's lines; of the rest, handlers that pass one
  message on, bindings of foreign libraries and parsers have no state whose
  order of changes a model could get wrong.

## 8. Plan

1. `RoleStore`: accounts, names and role lists in the store, with commands that
   fail between others (`NFPlayerRedisModule::CreateRole`).
2. `GameSession` with a second game server, composed with `WorldServer`'s view of
   where a role is.

Runs stay within a few minutes: about a million states, one run per question.
