\* Safety with faults: 2 ids, 2 submitters, 2 workers, a limit of 1.
SPECIFICATION Spec
CONSTANTS
    Jobs = {j1, j2}
    Submitters = {s1, s2}
    Workers = {w1, w2}
    NoJob = NoJob
    MaxQueueSize = 1
    Retention = 1
    StaleAfter = 1
    RunLimit = 1
    Faults = TRUE
SYMMETRY Symmetry
INVARIANTS
    PromisedRowsCoherent
    LiveJobsShowRunning
    StartedOnce
PROPERTY
    KeepsPromise
