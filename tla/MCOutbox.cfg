\* Two actions, three posts under way at most, one of which may fail.
CONSTANTS
    Intent = {a, b}
    Slot = {s1, s2, s3}
    MaxFailures = 1
SPECIFICATION FairOutboxSpec
INVARIANTS NothingLost OutboxInv
PROPERTIES OutboxDrains
CHECK_DEADLOCK FALSE
