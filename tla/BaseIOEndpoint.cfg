CONSTANTS
    NumEndpoints = 3
    MaxFailed = 2
SPECIFICATION FairSpec
CHECK_DEADLOCK FALSE
PROPERTY ReachableEndpointIsUsed
