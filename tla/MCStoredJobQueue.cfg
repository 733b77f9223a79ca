\* 2 ids, 2 threads, a queue of 1 place; crashes, restarts and store errors.
SPECIFICATION FairSpec
CONSTANTS
    Jobs = {j1, j2}
    Workers = {w1, w2}
    Pill = Pill
    NoJob = NoJob
    MaxQueueSize = 1
    StaleAfter = 1
    Retention = 1
    StoreErrors = TRUE
INVARIANTS
    RowsFollowRecords
PROPERTIES
    KeepsPromise
    SurvivorsTakeJobs
    RestartsResolveRows
    ShutdownCompletes
