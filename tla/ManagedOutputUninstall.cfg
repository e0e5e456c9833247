SPECIFICATION Spec
CONSTANTS
    MaxOutputs = 1
    MaxPhases = 1
    PipeSize = 1
    Ends <- MCEnds
INVARIANT
    FailuresAreLogged
CHECK_DEADLOCK FALSE
