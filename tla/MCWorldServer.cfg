SPECIFICATION Spec
SYMMETRY MCSymmetry
CONSTANTS
    Games = {g1, g2}
    Proxies = {}
    Roles = {r1}
    Socks = {k1, k2, k3}
    MaxQueue = 2
INVARIANTS
    SocketsAreTheirs
    RegisteredServersStay
    RolesAreWhereShown
