\* Keep mode; nothing fails, but the program may crash.
CONSTANTS
    Modes = {"keep"}
    Failing = {}
SPECIFICATION Spec
INVARIANT OriginalIsKept
