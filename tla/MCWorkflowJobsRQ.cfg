\* 2 ids, 1 worker and the API, each of which may die and start again.
SPECIFICATION FairSpec
CONSTANTS
    Jobs = {j1, j2}
    Workers = {w1}
    NoJob = NoJob
    MaxQueueSize = 2
    Recovers = TRUE
INVARIANTS
    Story
PROPERTIES
    RestartsResolveActive
    LostJobsAreReported
