\* The default of one worker, and no SmartShrink job: where Pause keeps what it
\* promises.  Three jobs.
CONSTANTS
    w1 = w1
    w2 = w2
    Worker = {w1, w2}
    InitialWorkers <- MCOne
    MaxJobs = 3
    SmartJobs = {}
    UnknownPreset = {}
    MaxAnalyses = 1
    MaxReplaced = 2
SPECIFICATION CalmPauseSpec
INVARIANTS RunningHasWorker NeverCancelled ReplacedOnce PauseKeepsOrder
