SPECIFICATION Spec
CONSTANTS
    NumJobs = 3
    d_maxJobs = 2
    Timed = {1, 2}
    Outcomes = {"solved", "unsolved", "crash", "diverge"}
    MaxOut = 2
    Capacity = 1
    Pid = {1, 2, 3, 4, 5}
INVARIANTS RunningIsExact RightAnswer NoTimerLeft
PROPERTY PoolEnds
CHECK_DEADLOCK FALSE
