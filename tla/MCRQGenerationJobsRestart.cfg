SPECIFICATION FairSpec
CONSTANTS
    Jobs = {j1, j2}
    Submitters = {s1}
    Workers = {w1, w2}
    NoJob = NoJob
    MaxQueueSize = 1
    Retention = 1
    StaleAfter = 1
    RunLimit = 1
    Faults = TRUE
PROPERTY
    RestartsResolveRunning
