CONSTANTS
    g1 = g1
    NumPools = 1
    Gpus = {g1}
    DeadAfter = 1
    MaxJobs <- FirstTwice
    Queues = {"lazy"}
    Rejecting = {}
    Breaking = {1}
    Closes = TRUE

SPECIFICATION FairSpec
CHECK_DEADLOCK FALSE

PROPERTIES
    TryGetWorkReturns
