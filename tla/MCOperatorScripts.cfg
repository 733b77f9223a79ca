\* 2 workers, 1 or 2 rounds of 2 jobs of which the answer of 1 is kept whole;
\* 2 threads, 2 evaluations; 2 releases.  A script ends.
SPECIFICATION ScriptsSpec
CONSTANTS
    WorkerNames <- MCWorkerNames
    RoundCounts = {1, 2}
    JobsPerRound = 2
    RoundsKept = 1
    RecoverRetries = 2
    CaseFile <- MCCaseFile
    CommandLines <- MCCommandLines
    MaxThreads = 2
    Evaluations = 2
    ReleaseLines <- MCReleaseLines
    Releases = 2
CHECK_DEADLOCK FALSE
INVARIANTS
    ScriptsPassHonestly
    LeftoversHaveCause
    UntroubledDrillsPass
    ObservationsAreOwn
