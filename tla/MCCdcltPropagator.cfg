SPECIFICATION MCSpec
CONSTANTS
    Atomic = {TRUE}
    MaxLiterals = 2
    MaxPushes = 3
    MaxUserLevels = 2
    MaxDecisions = 2
    MaxPending = 1
    FixAnywhere = FALSE
INVARIANTS
    AssertsHoldAtLevel0
    LevelsAgree
    TheoriesUpToDate
    FixedResentAtLevel0
    OnlyLiveLiterals
    TrailRecordedAtLevel0
    SatIsChecked
    PoppedLevelsInert
    PropagationsCurrent
