SPECIFICATION Spec
CONSTANTS
    Names <- MCNames
    Versions <- MCVersions
    Families <- MCFamilies
    MaxRestarts = 9
    MaxLinks = 2
INVARIANTS
    DecisionsMeetConstraints
    DependenciesTakenIntoAccount
    FitForOrdering
    DependentsAccountedFor
    NothingUsedIsPurged
PROPERTIES
    ResolutionEnds
CHECK_DEADLOCK FALSE
