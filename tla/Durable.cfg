\* Up to two jobs that an earlier version left, or that are added; one statement, file
\* operation or write that may fail; any number of crashes.
CONSTANTS
    MaxJobs = 2
    MaxFailures = 1
    MaxCounted = 2
    Shrinking = {1}
SPECIFICATION StartupSpec
INVARIANTS
    OrderMatchesJobs
    NoStalePhase
    StoreInSync
    SavingsAreRight
    OldQueueSurvives
    SchemaSurvives
PROPERTIES FirstStartHasAll
