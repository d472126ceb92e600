SPECIFICATION MCSpec
CONSTANTS
    Parts = {"disk"}
    NumKeys = 2
    Modes <- AllModes
    k1 = k1
    k2 = k2
    k3 = k3
    p1 = p1
    p2 = p2
    g1 = g1
    g2 = g2
    f1 = f1
    DiskKeys = {k1, k2, k3}
    Puts = {p1, p2}
    Gets = {g1, g2}
    Prefetches = {f1}
    Disks <- ReputDisks
    DirectKeys = {"a", "b", "c"}
    Directs <- AllDirects
INVARIANTS FileBacked
CHECK_DEADLOCK FALSE
