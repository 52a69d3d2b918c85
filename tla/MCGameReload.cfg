SPECIFICATION Spec
CONSTANTS
    Clients = {c1}
    Roles = {r1}
    Gates = {g1}
    DBs = {d1}
    DBOfRole <- DBOfRoleValue
    MaxData = 1
    MaxEnters = 2
    MaxLinks = 1
    MaxFaults = 0
PROPERTIES
    ReloadKeepsThePlayer
CHECK_DEADLOCK FALSE
