SPECIFICATION Spec
CONSTANTS
    Handle = {h1, h2}
    Kinds = {"VARIABLE", "PARAMETERIZED"}
    MaxRC = 3
    ZombieLimit = 1
    MaxNodes = 3
    MaxChildren = 2
    MaxAttributes = 1
INVARIANT
    NothingDangles
SYMMETRY HandleSymmetry
CHECK_DEADLOCK FALSE
