\* Safety and liveness: 4 ids, 2 threads, a queue of 1 place, so that requests
\* are refused and shutdown finds it full.
SPECIFICATION FairSpec
CONSTANTS
    Jobs = {j1, j2, j3, j4}
    Workers = {w1, w2}
    Closers = {c1}
    Pill = Pill
    NoJob = NoJob
    MaxQueueSize = 1
    Retention = 1
INVARIANTS
    RecordsMatchThreads
    DrainedBeforeExit
    ActiveBounded
PROPERTIES
    KeepsPromise
    AcceptedJobsFinish
    ShutdownCompletes
