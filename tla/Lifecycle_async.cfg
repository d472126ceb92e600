SPECIFICATION MCFairSpec
CONSTANTS
    j1 = j1
    j2 = j2
    j3 = j3
    Jobs = {j1, j2, j3}
    Workers = {w1, w2}
    Priority <- DiskPriority
    Modes <- AsyncWait
    Parts = {"pq"}
    Pages = 3
    MaxOffloads = 1
    Confs <- AllConfs
    Plans <- AllPlans
    MaxSamples = 2
PROPERTIES ShutdownReturns
CHECK_DEADLOCK FALSE
