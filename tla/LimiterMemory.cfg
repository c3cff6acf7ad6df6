CONSTANTS
    Algorithms = {"bucket", "fixed", "sliding"}
    Keys = {k1, k2}
    Amounts = {1, 2}
    Token = 3
    Rate = 2
    ConfigBurst = 2
    BucketCleanupAge = 3
    Limit = 2
    WindowSize = 2
    WindowCleanupAge = 2
    CleanupInterval = 1
    IntMax = 7
    MaxTime = 5
SPECIFICATION LimiterSpec
INVARIANTS
    LimiterTypeOK
    RateBounded
    BucketExact
    WindowLimitHolds
    RemainingExact
PROPERTY KeysIndependent
