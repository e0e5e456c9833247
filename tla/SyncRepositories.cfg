SPECIFICATION FairSpec
CONSTANTS
    N = 3
    Host <- ThreeHosts
    HostOrder <- MCHostOrder
    Sequential = FALSE
INVARIANTS
    ExitStatusHonest
    HooksMatch
    OneSyncPerHost
PROPERTY
    SyncEnds
CHECK_DEADLOCK FALSE
