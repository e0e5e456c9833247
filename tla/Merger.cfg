SPECIFICATION Spec
CONSTANTS
    PathSeq <- MCPathSeq
    Protected <- MCProtected
    UpdateNames <- MCUpdateNames
    UserContent <- MCUserContent
    Settings <- MCSettings
    MaxInstalls = 3
    MaxEdits = 1
    MaxStops = 1
INVARIANTS
    UserFilesSurvive
    InstallationComplete
    NothingUntracked
PROPERTIES
    NeverMissing
CHECK_DEADLOCK FALSE
