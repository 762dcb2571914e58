\* Three or four rows on pages of two, of which at most two are cached.
SPECIFICATION FairSpec
CONSTANTS
    Task = {1, 2, 3, 4}
    Existing = {1, 3, 4}
    Event = {"create", "change"}
    TaskOf <- EventTask
    Creations = {"create"}
    Ordered = {"create"}
    TasksPerPage = 2
    CachedPages = 2
    TaskPageSize = 2
    Poll = {"w1"}
    MaxFaults = 1
INVARIANTS
    PagesInv
    NoTaskTwice
    NoTaskSkipped
PROPERTIES
    BoardCatchesUp
