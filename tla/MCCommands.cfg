\* A first login sent twice and a message no command can be made of: any call but
\* MarkProcessingFailed may throw, replies of the guarded part may be lost, the host may die.
SPECIFICATION FairSpec
CONSTANTS
    Msg = {"m1", "m2", "m3"}
    Key = {"k1", "k2"}
    Entity = {"u1"}
    Stamp = {1, 2}
    KeyOf <- LoginTwiceKeyOf
    Cmd <- LoginTwiceCmd
    MaxDequeue = 3
    MaxFaults = 2
    ThrowAt <- CallsButRelease
    LostReplyAt = {"store", "dispatch", "fallback", "mark"}
    Crashes = TRUE
    SlowWorkers = FALSE
    MaxEvents = 2
INVARIANTS
    NoDuplicateEvents
    HandlerInv
PROPERTIES
    ImplementsCommandEffects
    StoredEventsReachReadSide
    CommandsTakeEffect
    EveryMessageSettles
CHECK_DEADLOCK FALSE
