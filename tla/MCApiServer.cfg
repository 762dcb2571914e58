\* Two calls, a log queue of one record, a clock four seconds ahead.
SPECIFICATION Spec
CONSTANTS
    Req = {r1, r2}
    Query <- Queries
    Env <- Environments
    Cpus = 2
    Half = 2048
    MaxWorkers = 2
    Skews <- Clocks
    Held <- HeldTokens
    Life = 10
    Margin = 1
    MaxTime = 5
    NoReq = NoReq
INVARIANTS
    ConfigWithinLimits
    LoggedOnce
    SkewIsBridged
SYMMETRY Alike
CHECK_DEADLOCK FALSE
