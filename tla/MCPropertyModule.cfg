SPECIFICATION Spec
CONSTANTS
    Groups = {"level", "equip"}
    JobLevel = "level"
    Cols = {"Attack", "MAXHP"}
    FirstCol = "Attack"
    MaxHpCol = "MAXHP"
    Values = {0, 1}
    Levels = 2
    BaseValues <- MCBaseValues
    Clients = {"own", "other"}
    Self = "own"
INVARIANTS
    ValuesFollowTheRecord
    ClientsShowTheObject
