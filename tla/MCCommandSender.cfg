\* Saturation: four requests compete for a channel of two; calls may fail and the
\* process may be killed at any time.
SPECIFICATION FairSpec
CONSTANTS
    Req = {"r1", "r2", "r3", "r4"}
    Payload = {"a", "b"}
    Batch <- Batches
    Worker = {"w1", "w2"}
    NoJob = NoJob
    Buffer = 2
    Fails = TRUE
    Crashes = TRUE
INVARIANTS
    SenderInv
PROPERTIES
    OneCallPerBatch
    AcceptedIsWorkedOff
CHECK_DEADLOCK FALSE
