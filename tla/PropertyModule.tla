----------------------------- MODULE PropertyModule -----------------------------
(***************************************************************************)
(* The values of a player: the record CommValue has a row per cause (its   *)
(* level, its equipment, ...) and a column per value; NFPropertyModule     *)
(* keeps in the property of the same name the sum over the causes, and HP  *)
(* below MAXHP. It does so in callbacks of the record (NFRecord) and of    *)
(* the properties (NFProperty), which NFAutoBroadcastModule hears first to *)
(* tell the clients that show the player.                                  *)
(*                                                                         *)
(* A call runs through all callbacks before it returns. It is written as a *)
(* chain of operators on a record w of the player's data, in the order in  *)
(* which the callbacks were registered.                                    *)
(***************************************************************************)
EXTENDS Naturals, FiniteSetsExt, Functions

CONSTANTS
    Groups,     \* the causes: rows 0 .. NPG_ALL - 1 of CommValue, which are all it uses
    JobLevel,   \* NPG_JOB_LEVEL, the row that follows the level
    Cols,       \* the values, two of them by name
    FirstCol,   \* column 0
    MaxHpCol,   \* the column MAXHP
    Values,     \* what a cell may hold
    Levels,     \* bound: the levels 1 .. Levels
    BaseValues, \* per level: the configured values
    Clients,    \* the player's own, and others that may be in the same group
    Self        \* the player's own

ASSUME GroupsAssumption == IsFiniteSet(Groups) /\ JobLevel \in Groups
ASSUME ColsAssumption == IsFiniteSet(Cols) /\ FirstCol \in Cols /\ MaxHpCol \in Cols
ASSUME ClientsAssumption == Self \in Clients
ASSUME ValuesAssumption == Values \subseteq Nat /\ 0 \in Values
ASSUME LevelsAssumption ==
    /\ Levels \in Nat \ {0}
    /\ BaseValues \in [1 .. Levels -> [Cols -> Nat]]
    /\ \A l \in 1 .. Levels : BaseValues[l][MaxHpCol] > 0

VARIABLE player

Row == [Cols -> Values]
NoRow == << >>
NoView == << >>
View == [rows : [Groups -> [Cols -> Nat] \cup {NoRow}], properties : [Cols -> Nat], hp : Nat]

TypeOK ==
    /\ DOMAIN player = {"used", "data", "properties", "level", "hp",
                        "shown", "untold", "unsummed"}
    /\ player.used \in SUBSET Groups                     \* mVecUsedState
    /\ player.data \in [Groups -> [Cols -> Nat]]         \* mtRecordVec
    /\ player.properties \in [Cols -> Nat]
    /\ player.level \in 1 .. Levels
    /\ player.hp \in Nat
    /\ player.shown \in [Clients -> View \cup {NoView}]  \* what a client was told
    /\ player.untold \in SUBSET (Clients \X Groups)      \* history: rows that were covered,
                                                         \* or came into use, without a word
    /\ player.unsummed \in SUBSET Cols                   \* history: values not summed again
                                                         \* since rows came or went

-------------------------------------------------------------------------------
(* Setting properties. *)

\* OnPropertyEvent and OnRecordEvent of the broadcast: who is told of a change.
Told(w) == {c \in Clients : w.shown[c] # NoView}

\* NFProperty::SetInt of HP.
SetHP(w, v) ==
    IF v = w.hp THEN w
    ELSE [w EXCEPT !.hp = v,
                   !.shown = [c \in Clients |->
                       IF c \in Told(w) THEN [@[c] EXCEPT !.hp = v] ELSE NoView]]

OnObjectMAXHPEvent(w, new) == IF w.hp > new THEN SetHP(w, new) ELSE w

\* NFProperty::SetInt of a value: whoever shows the player is told first.
SetProperty(w, c, v) ==
    LET old == w.properties[c]
        set == [w EXCEPT !.properties[c] = v,
                         !.shown = [x \in Clients |->
                             IF x \in Told(w) THEN [@[x] EXCEPT !.properties[c] = v]
                             ELSE NoView]] IN
    IF v = old THEN w
    ELSE IF c = MaxHpCol THEN OnObjectMAXHPEvent(set, v) ELSE set

\* A bug: the value is written without the property's callbacks.
FullHPMPUnheard(w) ==
    IF w.properties[MaxHpCol] > 0 THEN [w EXCEPT !.hp = w.properties[MaxHpCol]] ELSE w

FullHPMP(w) ==
    IF w.properties[MaxHpCol] > 0 THEN SetHP(w, w.properties[MaxHpCol]) ELSE w

-------------------------------------------------------------------------------
(* The record. *)

\* The sum of a column over the causes; a row that is not used counts nothing.
SumOf(w, c) == SumFunction([g \in w.used |-> w.data[g][c]])

\* OnRecordEvent, which takes the event's column, whatever happened.
OnRecordEvent(w, c) ==
    SetProperty([w EXCEPT !.unsummed = @ \ {c}], c, SumOf(w, c))

\* NFRecord::SetInt. A client that does not have the row does nothing with it.
SetCell(w, r, c, v) ==
    LET show(view) == IF view.rows[r] = NoRow THEN view
                      ELSE [view EXCEPT !.rows[r][c] = v]
        set == [w EXCEPT !.data[r][c] = v,
                         !.shown = [x \in Clients |->
                             IF x \in Told(w) THEN show(@[x]) ELSE NoView]] IN
    IF r \notin w.used \/ w.data[r][c] = v THEN w ELSE OnRecordEvent(set, c)

\* What clients show when they are told that a row is now so, or gone.
ShowRow(w, r, row) ==
    [c \in Clients |-> IF c \in Told(w) THEN [w.shown[c] EXCEPT !.rows[r] = row] ELSE NoView]

\* NFRecord::AddRow into a given row: an event Add, which clients are told of, or
\* Cover, which they are not; its column is 0.
AddRow(w, r, row) ==
    LET covers == r \in w.used
        set == [w EXCEPT !.used = @ \cup {r}, !.data[r] = row, !.unsummed = Cols,
                         !.shown = IF covers THEN @ ELSE ShowRow(w, r, row),
                         !.untold = IF covers THEN @ \cup {<<c, r>> : c \in Clients}
                                    ELSE {x \in @ : x[2] # r}] IN
    OnRecordEvent(set, FirstCol)

\* The event before the row is free, which clients are told of.
RowGoes(w, r) ==
    OnRecordEvent([w EXCEPT !.shown = ShowRow(w, r, NoRow),
                            !.untold = {x \in @ : x[2] # r}], FirstCol)

\* A bug: nobody hears of it once the row is free.
RemoveOnce(w, r) ==
    IF r \notin w.used THEN w
    ELSE [RowGoes(w, r) EXCEPT !.used = @ \ {r}, !.unsummed = Cols \ {FirstCol}]

\* NFRecord::Remove, with another event after the row is free.
Remove(w, r) ==
    IF r \notin w.used THEN w
    ELSE OnRecordEvent([RowGoes(w, r) EXCEPT !.used = @ \ {r}, !.unsummed = Cols], FirstCol)

\* NFRecord::SetUsed: no event.
SetUsed(w, r) ==
    IF r \in w.used THEN w
    ELSE [w EXCEPT !.used = @ \cup {r},
                   !.untold = @ \cup {<<c, r>> : c \in Clients},
                   !.unsummed = Cols]

-------------------------------------------------------------------------------
(* NFPropertyModule's own steps. *)

\* RefreshBaseProperty: the row of the level, one column after the other.
RefreshBaseProperty(w) ==
    LET change(c, v) == SetCell(SetUsed(v, JobLevel), JobLevel, c, BaseValues[w.level][c]) IN
    FoldSet(change, w, Cols)

\* The property Level is set, and OnObjectLevelEvent follows.
LevelUp(w) == FullHPMP(RefreshBaseProperty([w EXCEPT !.level = @ + 1]))

\* SetPropertyValue, which equipment, talents and the like call.
SetPropertyValue(g, c, v) == player' = SetCell(SetUsed(player, g), g, c, v)

\* AddExp: as many levels, one after the other, as the experience is enough for.
AddExp(levels) ==
    LET after[n \in 0 .. levels] == IF n = 0 THEN player ELSE LevelUp(after[n - 1]) IN
    /\ player.level + levels <= Levels
    /\ player' = after[levels]

AddHP(v) ==
    /\ player.hp > 0
    /\ LET sum == player.hp + v
           max == player.properties[MaxHpCol] IN
       player' = SetHP(player, IF sum > max THEN max ELSE sum)

DamageHP(v) ==
    /\ player.hp > 0
    /\ player' = SetHP(player, IF player.hp >= v THEN player.hp - v ELSE 0)

ConsumeHP(v) ==
    /\ player.hp > 0 /\ player.hp >= v
    /\ player' = SetHP(player, player.hp - v)

-------------------------------------------------------------------------------
(* A game master's client, and the clients around. *)

OnClientAddRowProcess(r, row) == player' = AddRow(player, r, row)
OnClientRemoveRowProcess(r) == player' = Remove(player, r)
OnClientRecordIntProcess(r, c, v) == player' = SetCell(player, r, c, v)

\* OnPropertyEnter and OnRecordEnter: all values, and the rows that are used.
Snapshot(w) == [rows |-> [r \in Groups |-> IF r \in w.used THEN w.data[r] ELSE NoRow],
                properties |-> w.properties, hp |-> w.hp]

WatcherEnters(c) ==
    /\ player.shown[c] = NoView
    /\ player' = [player EXCEPT !.shown[c] = Snapshot(player)]

\* The player's own client never leaves its player.
WatcherLeaves(c) ==
    /\ c # Self /\ player.shown[c] # NoView
    /\ player' = [player EXCEPT !.shown[c] = NoView, !.untold = {x \in @ : x[1] # c}]

-------------------------------------------------------------------------------
\* OnObjectClassEvent, up to COE_CREATE_READY: a row per cause, of which only the
\* level's has values, and all sums. The player's own client has entered.
Init ==
    LET base == BaseValues[1]
        new == [used |-> Groups,
                data |-> [r \in Groups |-> IF r = JobLevel THEN base ELSE [c \in Cols |-> 0]],
                properties |-> base, level |-> 1, hp |-> base[MaxHpCol],
                shown |-> [c \in Clients |-> NoView], untold |-> {}, unsummed |-> {}] IN
    player = [new EXCEPT !.shown[Self] = Snapshot(new)]

Next ==
    \/ \E g \in Groups, c \in Cols, v \in Values : SetPropertyValue(g, c, v)
    \/ \E levels \in 1 .. Levels : AddExp(levels)
    \/ \E v \in Values \ {0} : AddHP(v) \/ DamageHP(v) \/ ConsumeHP(v)
    \/ \E r \in Groups, row \in Row : OnClientAddRowProcess(r, row)
    \/ \E r \in Groups : OnClientRemoveRowProcess(r)
    \/ \E r \in Groups, c \in Cols, v \in Values : OnClientRecordIntProcess(r, c, v)
    \/ \E c \in Clients : WatcherEnters(c) \/ WatcherLeaves(c)

Spec == Init /\ [][Next]_player

-------------------------------------------------------------------------------
(* Properties. *)

\* A value is the sum over all causes whatever was done to the record, except that
\* a value other than the first is not summed again when a row comes or goes, and
\* HP is never above MAXHP, through levels, removed equipment and healing. Read it
\* without a game master who sets a property itself, a total or HP
\* (NFGameManagerModule::OnClientPropertyIntProcess): that is not modelled.
ValuesFollowTheRecord ==
    /\ \A c \in Cols \ player.unsummed : player.properties[c] = SumOf(player, c)
    /\ player.hp <= player.properties[MaxHpCol]

\* What a client shows of a player is what the player has, whenever the client came
\* and whatever a callback changed in the middle of a change, except for the rows
\* that were covered, or came into use without an event.
ClientsShowTheObject ==
    \A c \in Clients : player.shown[c] # NoView =>
        /\ player.shown[c].properties = player.properties
        /\ player.shown[c].hp = player.hp
        /\ \A r \in Groups : <<c, r>> \notin player.untold =>
               player.shown[c].rows[r] = Snapshot(player).rows[r]
===============================================================================
