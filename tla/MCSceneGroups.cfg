SPECIFICATION FairSpec
CONSTANTS
    Players = {p1, p2}
    Npcs = {n1, n2, n3}
    Scenes = {"town", "room", "hall"}
    SceneType <- MCSceneType
    DefaultScenes = {"town", "room", "hall"}
    Seeds = {"a"}
    MaxGroup = 2
INVARIANTS
    ViewsMatch
    ObjectsAreListed
    RoomsAsDeclared
    OneNpcPerSeed
PROPERTY DeadNpcsGo
