SPECIFICATION FairSpec
CONSTANTS
    Games = {g1}
    Proxies = {p1}
    Roles = {}
    Socks = {k1, k2, k3}
    MaxQueue = 2
PROPERTY ProxiesLearnOfGames
