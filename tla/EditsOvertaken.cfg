CONSTANTS
    Authors = {a1}
    Readers = {b1}
    Origin = a1
    PageLimit = 2
    MaxActs = 2
    MaxEnvelopes = 3
SPECIFICATION Spec
INVARIANT EditReachesReaders
CHECK_DEADLOCK FALSE
