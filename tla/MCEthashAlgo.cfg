CONSTANTS
    g1 = g1
    g2 = g2
    s1 = s1
    s2 = s2
    NoThread = NoThread
    Gpus = {g1, g2}
    Workers = {w1}
    Threads = {g1, g2, w1}
    SubTasks = {s1, s2}
    GpuOf <- MCGpuOf
    Epochs = {2, 4}
    MaxEpoch = 7
    FutureEpochs = 1
    MaxJobs = 2
    MaxShares = 1

SPECIFICATION FairSpec

CHECK_DEADLOCK FALSE

INVARIANTS
    IInv
    MinesWithRightDag

PROPERTIES
    SharesJudgedRight
    ImplementsSharedCache
    EveryGpuFollows
    AlgoCloses
