SPECIFICATION Spec
CONSTANTS
    Tables = {users, orders}
    Partitioned = {orders}
    Conns = {c1, c2}
    OwnerConns = {c2}
    Requests = {r1, r2}
    Tenants = {t1, t2}
    NoTenant = NoTenant
SYMMETRY Symmetry
INVARIANTS
    OnlyOwnRows
    TenantInForce
