SPECIFICATION FairSpec
CONSTANTS
    w1 = w1
    w2 = w2
    k1 = k1
    k2 = k2
    Workers = {w1, w2}
    Keys = {k1, k2}
    BatchSize = 1
    MaxPolls = 2
    Modes <- AllModes
INVARIANTS RegistryRight
PROPERTIES ThawsEventually
CHECK_DEADLOCK FALSE
