SPECIFICATION FreshSpec
CONSTANTS
    N = 4
    Kind <- FourKinds
    Requirements <- FourRequirements
    NFetchJobs = 1
INVARIANT
    DependenciesSatisfied
CHECK_DEADLOCK FALSE
