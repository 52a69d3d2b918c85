---------------------------- MODULE ConsistentHash ----------------------------
(***************************************************************************)
(* NFConsistentHash and the map over it, NFConsistentHashMapEx: a circle   *)
(* of hashes on which every server has its virtual nodes; a key belongs to *)
(* the first node at or after its own hash. The code gives each server     *)
(* five hundred nodes and takes what CRC32 makes of their names: here any  *)
(* sets of hashes, which may overlap.                                      *)
(***************************************************************************)
EXTENDS Naturals, FiniteSets

CONSTANTS
    Servers,    \* server ids, the keys of the map
    Slots,      \* the values of the hash
    Points      \* per server: the hashes of its virtual nodes

ASSUME ServersAssumption == Servers \subseteq Nat \ {0}
ASSUME SlotsAssumption == Slots \subseteq Nat
ASSUME PointsAssumption == Points \in [Servers -> SUBSET Slots]

VARIABLES
    mObjectList,  \* the servers in the map
    mxNodes       \* per hash: the server whose virtual node is there, or Nobody

hashVars == <<mObjectList, mxNodes>>

Nobody == 0

HashTypeOK ==
    /\ mObjectList \subseteq Servers
    /\ mxNodes \in [Slots -> Servers \cup {Nobody}]

HashInit ==
    /\ mObjectList = {}
    /\ mxNodes = [h \in Slots |-> Nobody]

\* Where another server's virtual node has the same hash, that one stays.
Insert(s) ==
    [h \in Slots |-> IF h \in Points[s] /\ mxNodes[h] = Nobody THEN s ELSE mxNodes[h]]

\* By hash, whoever's node is there.
Erase(s) == [h \in Slots |-> IF h \in Points[s] THEN Nobody ELSE mxNodes[h]]

AddElement(s) ==
    /\ mObjectList' = mObjectList \cup {s}
    /\ mxNodes' = IF s \in mObjectList THEN mxNodes ELSE Insert(s)

\* A bug: the virtual nodes stay behind.
RemoveElementOnly(s) ==
    /\ mObjectList' = mObjectList \ {s}
    /\ UNCHANGED mxNodes

RemoveElement(s) ==
    /\ mObjectList' = mObjectList \ {s}
    /\ mxNodes' = IF s \in mObjectList THEN Erase(s) ELSE mxNodes

-------------------------------------------------------------------------------
(* The choice of a server for a key. *)

Held == {h \in Slots : mxNodes[h] # Nobody}

LowestOf(hashes) == CHOOSE h \in hashes : \A g \in hashes : h <= g

\* A bug: the nodes are counted through instead of searched.
SuitSlotCounted(k) ==
    CHOOSE h \in Held : Cardinality({g \in Held : g < h}) = k % Cardinality(Held)

\* GetSuitNode: the slot that serves a key of hash k, when there is any node.
SuitSlot(k) ==
    LET onwards == {h \in Held : k <= h}
    IN LowestOf(IF onwards = {} THEN Held ELSE onwards)

\* GetElementBySuit: the server a key is sent to; nobody when the circle has
\* no node, or the server of the node is not in the map.
ElementBySuit(k) ==
    IF Held = {} \/ mxNodes[SuitSlot(k)] \notin mObjectList
    THEN Nobody
    ELSE mxNodes[SuitSlot(k)]

\* The hashes of a server's virtual nodes that no other server's node has.
OwnPoints(s) == {h \in Points[s] : \A t \in Servers \ {s} : h \notin Points[t]}
===============================================================================
