CONSTANTS
    alice = alice
    bob = bob
    noUser = noUser
    Accounts <- TwoAccounts
    NoUser <- noUser
    MaxItem = 1
    MaxConn = 2
    MaxTimer = 1
SPECIFICATION Spec
INVARIANT SentByComposer
CHECK_DEADLOCK FALSE
