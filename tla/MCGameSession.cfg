SPECIFICATION Spec
CONSTANTS
    Clients = {c1, c2}
    Roles = {r1}
    Gates = {g1, g2}
    DBs = {d1, d2}
    DBOfRole <- DBOfRoleValue
    MaxData = 1
    MaxEnters = 2
    MaxLinks = 2
    MaxFaults = 1
SYMMETRY Symmetry
INVARIANTS
    TypeOK
    PlayersHaveGateInfo
    GateListsItsRoles
    NoRollback
    NoGhostPlayers
    EnteredClientsPlay
    LeavesEndTheirOwnSession
CHECK_DEADLOCK FALSE
