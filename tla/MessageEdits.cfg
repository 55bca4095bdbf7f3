CONSTANTS
    Authors = {a1, a2}
    Readers = {b1}
    Origin = a1
    PageLimit = 3
    MaxActs = 2
    MaxEnvelopes = 2
SPECIFICATION Spec
INVARIANTS
    TypeOK
    EditsArrive
    OwnEditShown
    DeletesArrive
    ReadableAgain
    GapsAnnounced
    ShownIsCached
PROPERTIES
    DeletedStays
CHECK_DEADLOCK FALSE
