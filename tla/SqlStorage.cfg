CONSTANTS
    Txs = {x1, x2}
    Stmts <- MCStmts
    Tenants = {t1}
    NoTenant = NoTenant
    QueryTimeout = TRUE
    Deadlines = {TRUE, FALSE}
    RowCount = 1
    MaxWrites = 2
SPECIFICATION FairSpec
INVARIANTS
    TypeOK
    EndReported
    RowsHonourDeadline
PROPERTIES
    EndedStaysEnded
    CommitHonoursDeadline
    ConnectionsReleased
