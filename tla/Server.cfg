CONSTANTS
    u1 = u1
    u2 = u2
    d1 = d1
    c1 = c1
    c2 = c2
    noUser = noUser
    noDevice = noDevice
    noConn = noConn
    Users <- TwoUsers
    Devices <- OneDevice
    Conns <- TwoConns
    MaxSession = 2
    MaxQueue = 1
    NoUser <- noUser
    NoDevice <- noDevice
    NoConn <- noConn
    Recipients <- TwoUsers
    AckDevices <- TwoConns
    MaxMessage = 2
    MaxAcks = 2
    MaxMoves = 1
    MaxBreaks = 2
    KeyUsers <- TwoConns
    MaxPrekey = 2
    MaxIdentity = 2
    MaxFetch = 3
    Nonces <- TwoUsers
    GateHandlers <- TwoConns
    Tolerance = 1
    Ttl = 2
    MaxEntries = 1
    MaxTime = 5
SPECIFICATION PartsSpec
SYMMETRY Symmetry2
INVARIANTS
    PartsTypeOK
    RoutesBelongToOwner
    NoSharedSession
    LiveReachable
    StatusEarned
    StatusSettles
    ReadIsNotUnread
    OneTimeUse
    NoMixedBundle
    PassesOnce
CHECK_DEADLOCK FALSE
