CONSTANTS
    Tenants = {"acme", "limit"}
    QuotaTypes <- MCQuotaTypes
    DefaultLimits <- MCDefaultLimits
    Clients = {c1, c2}
    Amounts = {1}
    NewLimits = {1}
    ResetTTL = 3
    Second = 3
    MaxSpent = 3
    MaxTime = 3
SPECIFICATION Spec
SYMMETRY ClientSymmetry
INVARIANTS
    NeverUndercharged
    AtMostTwicePerPeriod
PROPERTIES
    ChargedWithinLimit
    PairsIndependent
