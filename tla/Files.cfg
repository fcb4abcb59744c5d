\* Both modes, changed between attempts; every file operation may fail.
CONSTANTS
    Modes = {"replace", "keep"}
    Failing = {"aside", "copy", "restore", "unlink"}
SPECIFICATION Spec
INVARIANTS TypeOK NothingLost KeepsOriginal FailedIsUntouched CompleteIsWhole
