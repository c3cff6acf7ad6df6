----------------------------- MODULE MCTenantDB -----------------------------
(***************************************************************************)
(* Instances of TenantDB for TLC.  A statement is built from one with no   *)
(* markers on the tenant table "users" by changing what matters.           *)
(***************************************************************************)
EXTENDS TenantDB, TLC

CONSTANTS t1, t2

MCTenants == {t1, t2}

MCTenantTables == {"users", "orders"}

Base ==
    [op |-> "SELECT", system |-> FALSE, refs |-> <<"users">>, comma |-> FALSE, sub |-> <<>>,
     where |-> TRUE, pre |-> <<>>, post |-> <<1>>, columns |-> FALSE, hasTenant |-> FALSE]

\* SELECT * FROM users WHERE id = ?
SelectOne == Base
\* SELECT * FROM users JOIN orders ON ... WHERE id = ?
SelectJoin == [Base EXCEPT !.refs = <<"users", "orders">>]
\* SELECT * FROM plans WHERE id = ?
SelectPlan == [Base EXCEPT !.refs = <<"plans">>]
\* SELECT 1
SelectSystem == [Base EXCEPT !.system = TRUE, !.refs = <<>>, !.where = FALSE, !.post = <<>>]
\* SELECT * FROM plans, users WHERE id IN (SELECT plan FROM orders) AND kind = ?
SelectList == [Base EXCEPT !.refs = <<"plans", "users">>, !.comma = TRUE, !.sub = <<"orders">>]
\* WITH u AS (SELECT * FROM users) SELECT * FROM u WHERE id = ?
With == [Base EXCEPT !.op = "OTHER"]
\* UPDATE users SET name = ? WHERE id = ?
UpdateOne == [Base EXCEPT !.op = "UPDATE", !.pre = <<1>>, !.post = <<2>>]
\* UPDATE users SET name = ?
UpdateAll == [Base EXCEPT !.op = "UPDATE", !.where = FALSE, !.pre = <<1>>, !.post = <<>>]
\* DELETE FROM users WHERE id = ?
DeleteOne == [Base EXCEPT !.op = "DELETE"]
\* INSERT INTO users (name, mail) VALUES (?, ?)
InsertTwo == [Base EXCEPT !.op = "INSERT", !.where = FALSE, !.post = <<1, 2>>, !.columns = TRUE]
\* INSERT INTO users (tenant_id, name) VALUES (?, ?)
InsertTenant == [InsertTwo EXCEPT !.hasTenant = TRUE]
\* INSERT INTO users VALUES (?, ?)
InsertBare == [InsertTwo EXCEPT !.columns = FALSE]

\* Statements that one goroutine at a time has scoped correctly with ?.
QuestionStmts ==
    {SelectOne, SelectJoin, SelectPlan, SelectSystem, UpdateOne, UpdateAll, DeleteOne, InsertTwo, InsertBare}

\* Statements of two goroutines with $N: one that a pooled slice has room for,
\* one that outgrows it, one with the tenant column and those that the
\* rewriters do not cover.
SharedStmts == {SelectOne, UpdateOne, InsertTenant, SelectList, With}

InsertStmts == {InsertTwo}

SelectStmts == {SelectOne}

For(t) == [withTenant |-> t, domain |-> NoTenant, bypass |-> FALSE]

FromHTTP(t) == [withTenant |-> NoTenant, domain |-> t, bypass |-> FALSE]

NoTenantContext == [withTenant |-> NoTenant, domain |-> NoTenant, bypass |-> FALSE]

Bypass(t) == [withTenant |-> t, domain |-> NoTenant, bypass |-> TRUE]

AllContexts == {For(t1), FromHTTP(t2), NoTenantContext, Bypass(t1)}

TenantContexts == {For(t1), For(t2)}

\* Distinct hashes for distinct statements.
MCHashQuery(s) == s

\* Contexts of TenantContexts name the tenants alike, and nothing tells
\* goroutines or arrays apart.
Symmetry == Permutations(Goroutines) \cup Permutations(Arrays) \cup Permutations(Tenants)

=============================================================================
