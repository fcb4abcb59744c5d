\* Two requests that race each other and two workers; two jobs, one of them SmartShrink
\* and one of a preset that no longer exists.
CONSTANTS
    w1 = w1
    w2 = w2
    Worker = {w1, w2}
    InitialWorkers <- MCWorkers
    MaxJobs = 2
    SmartJobs = {1}
    UnknownPreset = {2}
    MaxAnalyses = 1
    MaxReplaced = 1
    Request = {"r1", "r2"}
SPECIFICATION ApiSpec
INVARIANTS ApiTypeOK OnlyAskedIsCancelled
PROPERTIES RunningNeverRemoved CancelledNeverStarts
