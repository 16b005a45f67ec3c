CONSTANTS
    g1 = g1
    NumPools = 2
    Gpus = {}
    DeadAfter = 1
    MaxJobs <- OneEach
    Queues = {"lazy"}
    Rejecting = {}
    Breaking = {1, 2}
    Closes = FALSE

SPECIFICATION FairSpec
CHECK_DEADLOCK FALSE

PROPERTIES
    BestPoolBecomesActive
