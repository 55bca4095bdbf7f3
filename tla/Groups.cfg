CONSTANTS
    u1 = u1
    u2 = u2
    u3 = u3
    u4 = u4
    c1 = c1
    c2 = c2
    noUser = noUser
    Users <- FourUsers
    Conns <- TwoConns
    NoUser <- noUser
    MaxMembers = 2
    MaxRequests = 5
    r1 = r1
    Readers <- OneReader
    MaxKey = 2
    MaxSealed = 2
    MaxMade = 3
    MaxChanges = 1
    MaxWire = 2
    MaxNumber = 5
    MaxSteps = 3
    MaxSkipped = 2
SPECIFICATION PartsSpec
SYMMETRY Symmetry
INVARIANTS
    PartsTypeOK
    OwnedUnlessRaced
    SingleOwner
    MemberLimit
    Announced
    KeyFitsMembers
    NoIterationTwice
    OrderCostsNothing
CHECK_DEADLOCK FALSE
