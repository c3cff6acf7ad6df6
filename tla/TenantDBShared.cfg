CONSTANTS
    t1 = t1
    t2 = t2
    TenantTables <- MCTenantTables
    Tenants <- MCTenants
    NoTenant = NoTenant
    Goroutines = {g1, g2}
    Queries <- SharedStmts
    Results <- CachedForms
    Transform <- CachedForm
    CallContexts <- TenantContexts
    Methods = {"QueryRow"}
    Style = "dollar"
    Arrays = {a1, a2}
    NoArray = NoArray
    SliceCap = 2
    MaxSize = 2
    CounterMod = 1
    HashQuery <- MCHashQuery
SPECIFICATION Spec
INVARIANTS
    HeldExclusively
    OwnSliceScoped
    CacheBounded
    CacheCoherent
SYMMETRY Symmetry
