SPECIFICATION MCFairSpec
CONSTANTS
    r1 = r1
    r2 = r2
    c1 = c1
    c2 = c2
    c3 = c3
    Requests = {r1, r2}
    Chunks = {c1, c2, c3}
    Modes <- AllModes
    Keys = {"a", "b", "c", "d"}
    MaxJobs = 3
    Deployments <- AllDeployments
INVARIANTS CopySafe AdapterSafe TransferSafe
PROPERTIES AdapterFrees Ends
CHECK_DEADLOCK FALSE
