SPECIFICATION MCSpec
CONSTANTS
    Parts = {"lookup"}
    o1 = o1
    o2 = o2
    Objs = {o1, o2}
    Clients = {c1, c2}
    Modes <- SafeModes
    PinTimeout = 1
    MaxBatch = 2
    MaxPins = 2
    NoObj = NoObj
    r1 = r1
    r2 = r2
    Reqs = {r1, r2}
    Workers = {w1, w2}
    MaxAttempts = 2
    Uses <- RetryUses
INVARIANTS LoadDelivers
CHECK_DEADLOCK FALSE
