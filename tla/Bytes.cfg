SPECIFICATION MCSpec
CONSTANTS
    Objs = {o1, o2, o3}
    InitSize = 7
    Align = 2
    RawSizes = {1, 3}
    MaxHeap = 11
    MaxBatch = 2
    NumLayers = 3
    Runs <- AllRuns
    MaxTokens = 2
    ChunkSize = 3
    Channels = 2
    Plans <- AllPlans
INVARIANTS TypeOK Accounted NoOverlap FullyCoalesced NoLeak FitsWhenRoom StreamsSafe SerdeSafe
CHECK_DEADLOCK FALSE
