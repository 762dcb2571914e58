\* The events of one task, handled concurrently; one call may fail, lose its reply or be
\* cut short by a crash.
SPECIFICATION FairSpec
CONSTANTS
    Msg = {"m1", "m2", "m3", "m4"}
    Task = {1}
    Field = {"title", "done"}
    Ev <- OneTask
    MaxAttempts <- Attempts
    MaxFaults = 1
    ThrowAt = {"get", "insert", "update", "refresh", "publish"}
    LostReplyAt = {"insert", "update"}
    Crashes = TRUE
INVARIANTS
    ProjectionInv
    ShownIsAnnounced
PROPERTIES
    RowsMoveForward
    FieldsMoveForward
    EveryMessageSettles
CHECK_DEADLOCK FALSE
