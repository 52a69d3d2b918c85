SPECIFICATION FairSpec
CONSTANTS
    Clients = {c1, c2}
    Roles = {r1}
    Gates = {g1}
    DBs = {d1}
    DBOfRole <- DBOfRoleValue
    MaxData = 0
    MaxEnters = 2
    MaxLinks = 2
    MaxFaults = 1
PROPERTIES
    EnterAnswered
CHECK_DEADLOCK FALSE
