SPECIFICATION FairSpec
CONSTANTS
    k1 = k1
    k2 = k2
    k3 = k3
    Keys = {k1, k2, k3}
    Objs = {o1, o2}
    Stores = {s1}
    Loads = {r1}
    Lookups = {l1}
    Peers = {p1}
    Requests <- ChainRequests
    Modes <- SafeModes
    MaxFreq = 3
    MaxTouch = 3
    NoObj = NoObj
INVARIANTS PolicyInSync RefsExact PinsHold
PROPERTIES LoadReturns
