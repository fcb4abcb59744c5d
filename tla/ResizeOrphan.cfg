\* Two workers, two jobs.
CONSTANTS
    w1 = w1
    w2 = w2
    Worker = {w1, w2}
    InitialWorkers <- MCWorkers
    MaxJobs = 2
    SmartJobs = {}
    UnknownPreset = {}
    MaxAnalyses = 1
    MaxReplaced = 1
SPECIFICATION ResizeSpec
INVARIANT RunningHasWorker
