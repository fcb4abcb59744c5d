\* Every call of the pool at once, by any number of goroutines; one job.
CONSTANTS
    w1 = w1
    w2 = w2
    Worker = {w1, w2}
    InitialWorkers <- MCWorkers
    MaxJobs = 1
    SmartJobs = {}
    UnknownPreset = {}
    MaxAnalyses = 1
    MaxReplaced = 1
SPECIFICATION FairPoolSpec
INVARIANTS CompleteIsReplaced PoolIsAlive
PROPERTY CallsReturn
