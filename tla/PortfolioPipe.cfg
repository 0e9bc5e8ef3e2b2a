SPECIFICATION Spec
CONSTANTS
    NumJobs = 2
    d_maxJobs = 1
    Timed = {1}
    Outcomes = {"solved", "unsolved"}
    MaxOut = 2
    Capacity = 1
    Pid = {1, 2, 3}
PROPERTY PoolEndsIfWorkersDo
CHECK_DEADLOCK FALSE
