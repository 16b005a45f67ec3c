CONSTANTS
    Gpus = {g1, g2}
    KeepJobs = 1
    MaxLatest = 2
    Workers = {w1}
    Rounds = 2

SPECIFICATION MinerSpec

CHECK_DEADLOCK FALSE

INVARIANTS
    MinerQueueInv

PROPERTIES
    ImplementsWorkSource
    LoaderWakes
    MinerCloses
