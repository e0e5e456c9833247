SPECIFICATION Spec
CONSTANTS
    Resolvents <- MCResolvents
    Inputs <- MCInputs
    MaxLinks = 4
INVARIANTS
    NoInternalError
    DependenciesFirst
    EveryChangeAccountedFor
    FitForExecution
CHECK_DEADLOCK FALSE
