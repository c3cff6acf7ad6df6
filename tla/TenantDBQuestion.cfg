CONSTANTS
    t1 = t1
    t2 = t2
    TenantTables <- MCTenantTables
    Tenants <- MCTenants
    NoTenant = NoTenant
    Goroutines = {g1}
    Queries <- QuestionStmts
    Results <- CachedForms
    Transform <- CachedForm
    CallContexts <- AllContexts
    Methods = {"Query", "Exec"}
    Style = "question"
    Arrays = {a1}
    NoArray = NoArray
    SliceCap = 2
    MaxSize = 2
    CounterMod = 1
    HashQuery <- MCHashQuery
SPECIFICATION FairSpec
INVARIANTS
    TypeOK
    ScopedToTenant
PROPERTIES
    ImplementsScopedDB
