SPECIFICATION MCSpec
CONSTANTS
    j1 = j1
    j2 = j2
    j3 = j3
    Jobs = {j1, j2, j3}
    Workers = {w1, w2}
    Priority <- DiskPriority
    Modes <- SafeModes
    Parts = {"service"}
    Pages = 3
    MaxOffloads = 1
    Confs <- ColdConfs
    Plans <- AllPlans
    MaxSamples = 2
PROPERTIES RecoveryClears
CHECK_DEADLOCK FALSE
