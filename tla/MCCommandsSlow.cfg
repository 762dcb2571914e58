\* The same logout sent twice, no call fails, but a live handler may outlast the lease.
SPECIFICATION Spec
CONSTANTS
    Msg = {"m1", "m2"}
    Key = {"k1"}
    Entity = {"u1"}
    Stamp = {1}
    KeyOf <- SameKeyOf
    Cmd <- LogoutCmd
    MaxDequeue = 3
    MaxFaults = 0
    ThrowAt = {}
    LostReplyAt = {}
    Crashes = FALSE
    SlowWorkers = TRUE
    MaxEvents = 2
INVARIANTS
    NoDuplicateEvents
CHECK_DEADLOCK FALSE
