\* Concurrent batches under a clock that may go backwards.
SPECIFICATION FairStampSpec
CONSTANTS
    Req = {"r1", "r2", "r3", "r4"}
    Size <- BatchSizes
    Keyed <- OwnKeys
    Clock = {33, 35, 36}
INVARIANTS
    StampsUnique
    GeneratedKeysUnique
PROPERTIES
    LaterRequestsGetLaterStamps
    EveryRequestStamped
CHECK_DEADLOCK FALSE
