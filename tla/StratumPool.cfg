CONSTANTS
    Shares = {s1, s2}
    MaxTries = 2
    MaxSessions = 3
SPECIFICATION FairSpec
CHECK_DEADLOCK FALSE
INVARIANTS
    IInv
    CountedOnce
    SharesAfterLogin
PROPERTIES
    SharesSettle
    SharesDelivered
