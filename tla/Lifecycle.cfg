SPECIFICATION MCFairSpec
CONSTANTS
    j1 = j1
    j2 = j2
    j3 = j3
    Jobs = {j1, j2, j3}
    Workers = {w1, w2}
    Priority <- DiskPriority
    Modes <- SafeModes
    Parts = {"pq", "service", "sweep"}
    Pages = 3
    MaxOffloads = 1
    Confs <- AllConfs
    Plans <- AllPlans
    MaxSamples = 2
INVARIANTS WorkDrained ServiceSafe SweepKeepsResults
PROPERTIES Settles Recovers SweepEnds
CHECK_DEADLOCK FALSE
