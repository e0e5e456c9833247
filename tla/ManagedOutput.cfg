SPECIFICATION FairSpec
CONSTANTS
    MaxOutputs = 3
    MaxPhases = 1
    PipeSize = 2
    Ends <- MCEnds
INVARIANTS
    OutputDelivered
    LogMatchesOutcome
    OneQuestionAtATime
PROPERTY
    JobComesBack
CHECK_DEADLOCK FALSE
