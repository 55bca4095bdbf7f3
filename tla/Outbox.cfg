CONSTANTS
    alice = alice
    bob = bob
    noUser = noUser
    Accounts <- OneAccount
    NoUser <- noUser
    MaxItem = 2
    MaxConn = 2
    MaxTimer = 1
SPECIFICATION FairSpec
INVARIANTS
    TypeOK
    StoredOnce
    NothingLost
    InFlightIsReal
PROPERTIES
    ImplementsReliableSend
    Delivered
CHECK_DEADLOCK FALSE
