CONSTANTS
    NumBuckets = 4
    PairsPerBucket = 1
    Capacity = 2
    Edges <- SmallEdges
    MaxEdges = 6
    CycleLength = 4
    EdgeCount = 6
    WordSize = 2
    Granule = 1
    Hashes <- SmallHashes
    PruneRounds = {2, 3}
    remainingEdges <- FewAfterTheFirst
    nodeCapacity = 4
    BucketNodes = 4
    maxBucketSize = 3

SPECIFICATION SolverSpec

INVARIANTS
    SolverInv
    NoDeadEndIsLeft
    CyclesDelivered
