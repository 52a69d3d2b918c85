SPECIFICATION FairSpec
CONSTANTS
    Servers = {1, 2, 3}
    Slots = {1, 2, 3, 4, 5}
    Points <- PointsValue
INVARIANTS
    ListedServersWork
    SuitFindsALink
PROPERTIES
    KeysStay
    LinksServedOnce
    LostLinkComesBack
