\* Without process deaths: 3 ids, so that 2 submitters can overrun a limit of
\* 1, and every promised job is finished; neither retention nor recovery
\* (both 0, that is off).
SPECIFICATION FairSpec
CONSTANTS
    Jobs = {j1, j2, j3}
    Submitters = {s1, s2}
    Workers = {w1}
    NoJob = NoJob
    MaxQueueSize = 1
    Retention = 0
    StaleAfter = 0
    RunLimit = 0
    Faults = FALSE
INVARIANT
    Backpressure
PROPERTY
    PromisedJobsFinish
