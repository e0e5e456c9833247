SPECIFICATION FreshFairSpec
CONSTANTS
    N = 5
    Kind <- FiveKinds
    Requirements <- FiveRequirements
    NFetchJobs = 1
INVARIANTS
    OneThreadPerQueue
    JoinNeverBlocks
    ReturnsWhenAllDone
    NeverGivesUp
    FailureStopsQueue
    ResumeFileCurrent
PROPERTIES
    ImplementsSchedule
    Terminates
CHECK_DEADLOCK FALSE
