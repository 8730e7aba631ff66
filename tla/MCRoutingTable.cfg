CONSTANTS
    A = A
    B = B
    I1 = I1
    NoAddr = NoAddr
    NoIface = NoIface
    Addr <- MCAddr
    Iface <- MCIface
    NewRoutes <- MCNewRoutes
    BadLinkLifetime = 1
    RreqCntMod = 3
SPECIFICATION Spec
INVARIANTS
    TypeOK
    BrokenRouteRetained
    RreqCntOnlyInSearch
    PurgeIdempotent
