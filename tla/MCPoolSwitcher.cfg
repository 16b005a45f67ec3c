CONSTANTS
    g1 = g1
    NumPools = 2
    Gpus = {g1}
    DeadAfter = 0
    MaxJobs <- FirstTwice
    Queues = {"lazy", "buffered"}
    Rejecting = {}
    Breaking = {}
    Closes = FALSE

SPECIFICATION Spec
CHECK_DEADLOCK FALSE

INVARIANTS
    IInv
    GpusLeaveOldPool
