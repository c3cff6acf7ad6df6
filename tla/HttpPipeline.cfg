CONSTANTS
    Keys = {"acme", "globex", "a1"}
    Amounts = {1}
    Limit = 1
    WindowSize = 1
    CleanupInterval = 1
    WindowCleanupAge = 1
    BucketCleanupAge = 1
    Token = 1
    Rate = 1
    ConfigBurst = 1
    Algorithms = {"fixed", "sliding"}
    IntMax = 7
    MaxTime = 2
    SkipPaths = {"/health"}
    LimitSkipPaths = {"/metrics"}
    Prefix <- MCPrefix
    PathSegment = 0
    Chain <- MCChain
    ChiPrefix = "/t/"
    PathIndex = 1
    TrimPrefix <- MCTrimPrefix
    TrimSpace <- MCTrimSpace
    ToLower <- MCToLower
    Join <- MCJoin
    HasPrefix <- MCHasPrefix
    Trim <- MCTrim
    Split <- MCSplit
    Claim <- MCClaim
    IsTenantID <- MCIsTenantID
    Handlers = {h1, h2}
    Requests <- MCRequests
SPECIFICATION Spec
INVARIANTS
    HandlerHasItsTenant
    ChargedToOwner
PROPERTIES
    RefusedOnlyWhenUsed
    NoTenantUncharged
SYMMETRY Symmetry
