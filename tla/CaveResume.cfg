SPECIFICATION CaveSpec
CONSTANTS
    N = 3
    Kind <- ThreeKinds
    Requirements <- ThreeRequirements
    NFetchJobs = 1
    MaxInvocations = 3
    UsedOptions <- MCUsedOptions
INVARIANTS
    RequirementsSettled
    ExitStatus
    RepeatsNeedCrashes
    FileNeverOverclaims
PROPERTIES
    NothingLost
    WorldAfterEverything
CHECK_DEADLOCK FALSE
