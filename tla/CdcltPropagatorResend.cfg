SPECIFICATION Spec
CONSTANTS
    Atomic = {TRUE}
    MaxLiterals = 2
    MaxPushes = 2
    MaxUserLevels = 2
    MaxDecisions = 2
    MaxPending = 1
    FixAnywhere = TRUE
INVARIANT
    FixedResent
