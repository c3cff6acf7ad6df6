CONSTANTS
    t1 = t1
    t2 = t2
    Tenants <- MCTenants
    QuotaTypes = {"daily", "rows"}
    Pairs <- MCPairs
    DefaultLimits <- MCDefaultLimits
    Period <- MCPeriod
    Amounts = {2}
    NewLimits = {1}
    IntMax = 10
    MaxSpent = 8
    MaxTime = 2
SPECIFICATION Spec
INVARIANTS
    TypeOK
    PeriodLimit
    AtMostTwicePerPeriod
    UsageExact
    CheckIsSafe
PROPERTY TenantsIndependent
