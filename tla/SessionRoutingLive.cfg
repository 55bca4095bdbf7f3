CONSTANTS
    u1 = u1
    u2 = u2
    d1 = d1
    c1 = c1
    c2 = c2
    noUser = noUser
    noDevice = noDevice
    noConn = noConn
    Users <- OneUser
    Devices <- OneDevice
    Conns <- TwoConns
    MaxSession = 2
    MaxQueue = 1
    NoUser <- noUser
    NoDevice <- noDevice
    NoConn <- noConn
SPECIFICATION FairSpec
PROPERTIES
    LoginRouted
    LeaverUnrouted
CHECK_DEADLOCK FALSE
