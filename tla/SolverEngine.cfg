SPECIFICATION Spec
CONSTANTS
    Formula = {f, g}
    Definition = {d}
    Assumption = {a}
    Status = {"sat"}
    MaxUserLevels = 2
    MaxList = 3
    MaxGlobals = 2
INVARIANTS AssertsHold LevelsAgree PropMirrorsList
PROPERTY BehavesAsAssertionStack
