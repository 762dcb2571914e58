\* Batches of up to four commands, published sequentially or by up to four workers;
\* calls may fail and the context may expire.
SPECIFICATION FairSpec
CONSTANTS
    MaxBatch = 4
    Concurrencies = {1, 2, 3, 5}
    MarshalFails = TRUE
    QueueFails = TRUE
    Expires = TRUE
INVARIANTS
    NilMeansAllPublished
PROPERTIES
    ImplementsEnqueueContract
    AlwaysReturns
CHECK_DEADLOCK FALSE
