SPECIFICATION Spec
CONSTANTS
    g1 = g1
    g2 = g2
    t1 = t1
    t2 = t2
    NoTenant = NoTenant
    Goroutines = {g1, g2}
    Tenants = {t1, t2}
    SkipTables <- MCSkipTables
    Arrays <- MCArrays
    ArrayLen <- MCArrayLen
    Calls <- MCCalls
    TxContexts <- MCTxContexts
    SurplusIgnored = FALSE
INVARIANTS
    BoundAsMeant
    TxOneTenant
    UnscopedOnRequest
