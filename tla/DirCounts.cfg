\* A root and a directory in it, one worker, room for one in the queue, one walk of
\* WarmCountCache at a time; two events, each a change of the tree, an error, a reconcile,
\* a clear, a save or a restart.
CONSTANTS
    root = root
    sub = sub
    w1 = w1
    Dir <- MCDir
    Root <- root
    Parent <- MCParent
    Workers = 1
    QueueSize = 1
    Warmers <- MCWarmers
    MaxFiles = 1
    MaxEvents = 2
SPECIFICATION Spec
INVARIANTS TypeOK ReadyIsRight
PROPERTIES KeepsLastCount Settles
