\* Two workers and three jobs: two that race for the first, one behind them; two
\* SmartShrink ones and one whose preset is unknown.
CONSTANTS
    w1 = w1
    w2 = w2
    Worker = {w1, w2}
    InitialWorkers <- MCWorkers
    MaxJobs = 3
    SmartJobs = {1, 2}
    UnknownPreset = {3}
    MaxAnalyses = 2
    MaxReplaced = 2
SPECIFICATION FairServeSpec
INVARIANT OneWorkerPerJob
PROPERTIES AnalysisLimitHolds KeepsLifecycle EveryJobEnds
