SPECIFICATION Spec
CONSTANTS
    Handle = {h1, h2}
    Kinds = {"VARIABLE", "OPERATOR"}
    MaxRC = 3
    ZombieLimit = 1
    MaxNodes = 3
    MaxChildren = 2
    MaxAttributes = 1
INVARIANTS
    NothingDangles
    CountsExact
    Unique
    NothingLeaks
SYMMETRY HandleSymmetry
CHECK_DEADLOCK FALSE
