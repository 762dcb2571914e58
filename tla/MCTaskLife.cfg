\* The life of one task, its four commands in any order; one call may throw, or lose its
\* reply, the replies to the reservation and to MarkProcessingSucceeded included; then the
\* reply to MarkProcessingFailed may be lost too.
SPECIFICATION Spec
CONSTANTS
    Msg = {"m1", "m2", "m3", "m4"}
    Key = {"k1", "k2", "k3", "k4"}
    Entity = {"t1"}
    Stamp = {1, 2, 3}
    KeyOf <- TaskLifeKeyOf
    Cmd <- TaskLifeCmd
    MaxDequeue = 2
    MaxFaults = 1
    ThrowAt = {"store", "dispatch", "fallback"}
    LostReplyAt = {"add", "reclaim", "succeed", "store", "fail"}
    Crashes = FALSE
    SlowWorkers = FALSE
    MaxEvents = 4
INVARIANTS
    NoOrphanEvents
CHECK_DEADLOCK FALSE
