SPECIFICATION Spec
CONSTANTS
    p = p
    q = q
    s = s
    special = special
    Packages <- MCPackages
    SetNames <- MCSetNames
    SpecialSets <- MCSpecialSets
    Requests <- AnyRequests
    Programs = {"cave"}
    MaxInvocations = 2
PROPERTY
    OnlyIfNothingIsLeft
CHECK_DEADLOCK FALSE
