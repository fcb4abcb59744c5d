\* A root and a directory in it, two workers, one walk of WarmCountCache and one event.
CONSTANTS
    root = root
    sub = sub
    w1 = w1
    Dir <- MCDir
    Root <- root
    Parent <- MCParent
    Workers = 2
    QueueSize = 1
    Warmers <- MCWarmers
    MaxFiles = 1
    MaxEvents = 1
SPECIFICATION Spec
PROPERTY OnlySuccessReplaces
