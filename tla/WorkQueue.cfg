CONSTANTS
    Gpus = {g1, g2}
    RefillThreshold = 2
    MaxLength = 3
    KeepJobs = 1
    MaxJobs = 3
    MaxLatest = 4
SPECIFICATION FairSpec
CHECK_DEADLOCK FALSE
INVARIANTS
    IInv
    CleanPushDropsOldWork
PROPERTIES
    ImplementsWorkSource
    NewestJobIsOffered
    RefillThreadEnds
