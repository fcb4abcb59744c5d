SPECIFICATION Spec
CONSTANTS
    Machines <- MCMachines
    Videos <- MCVideos
    Scores <- MCScores
    SourceKbps = {4000}
    UserQuality = 22
INVARIANTS
    TypeOK
    SearchIsSharp
    FailureIsExhaustive
    CommandFits
    OutputWasScored
PROPERTY
    JobEnds
