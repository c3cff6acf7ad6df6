---------------------------- MODULE RowSecurity ----------------------------
(***************************************************************************)
(* The row-level security manager (adapters/postgres/rls.go) and the       *)
(* requests that use it as its README asks: "set tenant context at the     *)
(* start of each request/transaction".                                     *)
(*                                                                         *)
(* Each pooled connection has a manager of its own.  PostgreSQL is         *)
(* external: a table with row security shows and takes the rows that a     *)
(* policy allows and none without a policy, its owner is exempt unless row *)
(* security is forced, a session keeps its settings until it ends, and a   *)
(* rollback takes back the settings of its transaction.                    *)
(***************************************************************************)
CONSTANTS
    Tables,
    Partitioned,    \* the tables that are partitioned by tenant
    Conns,          \* the connections of a pool
    OwnerConns,     \* those that are logged in as the owner of the tables
    Requests,
    Tenants, NoTenant

NoConn == "none"

ASSUME NoTenantAssumption == NoTenant \notin Tenants
ASSUME NoConnAssumption == NoConn \notin Conns
ASSUME SubsetsAssumption == Partitioned \subseteq Tables /\ OwnerConns \subseteq Conns

VARIABLES
    table,      \* what the catalog says of the tables
    parts,      \* the tenants that a table has a partition for
    verified,   \* the tables that VerifyTenantIsolation has said TRUE of
    session,    \* the sessions of the connections
    req,        \* the requests
    touched     \* the rows a request has read or written in verified tables: whose
                \* they are, and whether its SetTenantContext had been undone

vars == <<table, parts, verified, session, req, touched>>

NewSession == [setting |-> NoTenant, txn |-> "none", saved |-> NoTenant]

(* A request: its tenant and connection, whether its SetTenantContext has   *)
(* succeeded (ready), whether a rollback has undone that since (undone),   *)
(* and whether its tenant was in force before its transaction (wasReady).  *)
(* The program knows of `ready`; nothing tells it of the other two.        *)
NewRequest(c, x) == [conn |-> c, tenant |-> x, ready |-> FALSE, undone |-> FALSE, wasReady |-> FALSE]

Waiting == NewRequest(NoConn, NoTenant)

Init ==
    /\ table = [t \in Tables |-> [security |-> FALSE, forced |-> FALSE, policy |-> FALSE]]
    /\ parts = [t \in Tables |-> {}]
    /\ verified = {}
    /\ session = [c \in Conns |-> NewSession]
    /\ req = [r \in Requests |-> Waiting]
    /\ touched = [r \in Requests |-> {}]

-----------------------------------------------------------------------------
(* The setup of a table, by any manager and while requests run.  A policy   *)
(* that exists already (42710) is no error, so neither call can fail for   *)
(* having been made before.                                                *)
EnableRLS(t) ==
    /\ table' = [table EXCEPT ![t].security = TRUE]
    /\ UNCHANGED <<parts, verified, session, req, touched>>

ForceRLS(t) ==
    /\ table' = [table EXCEPT ![t].forced = TRUE]
    /\ UNCHANGED <<parts, verified, session, req, touched>>

CreateTenantPolicy(t) ==
    /\ table' = [table EXCEPT ![t].policy = TRUE]
    /\ UNCHANGED <<parts, verified, session, req, touched>>

(* CreatePartition of a partition that exists is an error of another code   *)
(* (42P07), which is returned.                                             *)
CreatePartition(t, x) ==
    /\ t \in Partitioned /\ x \notin parts[t]
    /\ parts' = [parts EXCEPT ![t] = @ \cup {x}]
    /\ UNCHANGED <<table, verified, session, req, touched>>

(* VerifyTenantIsolation reads relrowsecurity; GetActivePolicies only lists *)
(* names and nothing is decided by them.                                   *)
MutantVerifiesPolicy(t) == table[t].policy

TenantIsolation(t) == table[t].security

VerifyTenantIsolation(t) ==
    /\ TenantIsolation(t)
    /\ verified' = verified \cup {t}
    /\ UNCHANGED <<table, parts, session, req, touched>>

-----------------------------------------------------------------------------
(* Row security: the tenants whose rows a statement on c may read or write. *)
Applies(c, t) == table[t].security /\ (c \in OwnerConns => table[t].forced)

TenantPolicy(c, t) == IF table[t].policy THEN {session[c].setting} \cap Tenants ELSE {}

Allowed(c, t) == IF Applies(c, t) THEN TenantPolicy(c, t) ELSE Tenants

(* The tables whose isolation a request may rely on.                       *)
Protected(c, t) == t \in verified /\ (c \in OwnerConns => table[t].forced)

(* A request takes a free connection, whose session is as the last one      *)
(* left it.                                                                *)
Acquire(r, c, x) ==
    /\ req[r].conn = NoConn
    /\ \A q \in Requests : req[q].conn # c
    /\ req' = [req EXCEPT ![r] = NewRequest(c, x)]
    /\ touched' = [touched EXCEPT ![r] = {}]
    /\ UNCHANGED <<table, parts, verified, session>>

Begin(r) ==
    LET c == req[r].conn
    IN  /\ c # NoConn /\ session[c].txn = "none"
        /\ session' = [session EXCEPT ![c].txn = "open", ![c].saved = session[c].setting]
        /\ req' = [req EXCEPT ![r].wasReady = req[r].ready /\ ~req[r].undone]
        /\ UNCHANGED <<table, parts, verified, touched>>

(* set_config(..., is_local = false): the setting of the session, which a   *)
(* rollback takes back.  With is_local it would end with the transaction,  *)
(* and at once outside of one.                                             *)
MutantIsLocal(s, x) == IF s.txn = "none" THEN s ELSE [s EXCEPT !.setting = x]

SetConfig(s, x) == [s EXCEPT !.setting = x]

SetTenantContext(r) ==
    LET c == req[r].conn
    IN  /\ c # NoConn /\ session[c].txn # "aborted"
        /\ session' = [session EXCEPT ![c] = SetConfig(session[c], req[r].tenant)]
        /\ req' = [req EXCEPT ![r].ready = TRUE, ![r].undone = FALSE]
        /\ UNCHANGED <<table, parts, verified, touched>>

(* SetTenantContext returns the error: the statement was refused, and a     *)
(* transaction can then only be rolled back.                               *)
SetTenantContextFails(r) ==
    LET c == req[r].conn
    IN  /\ c # NoConn
        /\ session' = [session EXCEPT ![c].txn = IF session[c].txn = "none" THEN "none" ELSE "aborted"]
        /\ UNCHANGED <<table, parts, verified, req, touched>>

(* The context ends while the server may or may not have run the statement: *)
(* pgx closes the connection, and the pool opens another in its place.     *)
ConnectionLost(r) ==
    LET c == req[r].conn
    IN  /\ c # NoConn
        /\ session' = [session EXCEPT ![c] = NewSession]
        /\ req' = [req EXCEPT ![r] = Waiting]
        /\ touched' = [touched EXCEPT ![r] = {}]
        /\ UNCHANGED <<table, parts, verified>>

Touch(r, t, xs) ==
    touched' = [touched EXCEPT ![r] =
                    IF Protected(req[r].conn, t) THEN @ \cup (xs \X {req[r].undone}) ELSE @]

Usable(r) == req[r].conn # NoConn /\ req[r].ready /\ session[req[r].conn].txn # "aborted"

(* A statement that reads, and one that writes a row of any tenant x.      *)
Select(r, t) ==
    /\ Usable(r)
    /\ Touch(r, t, Allowed(req[r].conn, t))
    /\ UNCHANGED <<table, parts, verified, session, req>>

Insert(r, t, x) ==
    /\ Usable(r)
    /\ x \in Allowed(req[r].conn, t)
    /\ t \in Partitioned => x \in parts[t]
    /\ Touch(r, t, {x})
    /\ UNCHANGED <<table, parts, verified, session, req>>

Commit(r) ==
    LET c == req[r].conn
    IN  /\ c # NoConn /\ session[c].txn = "open"
        /\ session' = [session EXCEPT ![c].txn = "none", ![c].saved = NoTenant]
        /\ req' = [req EXCEPT ![r].wasReady = FALSE]
        /\ UNCHANGED <<table, parts, verified, touched>>

(* After a rollback the tenant of before the transaction holds, which for a *)
(* request that set its own only inside is another's or none.              *)
Rollback(r) ==
    LET c == req[r].conn
    IN  /\ c # NoConn /\ session[c].txn # "none"
        /\ session' = [session EXCEPT ![c] = [NewSession EXCEPT !.setting = session[c].saved]]
        /\ req' = [req EXCEPT ![r].undone = req[r].ready /\ ~req[r].wasReady, ![r].wasReady = FALSE]
        /\ UNCHANGED <<table, parts, verified, touched>>

Release(r) ==
    LET c == req[r].conn
    IN  /\ c # NoConn /\ session[c].txn = "none"
        /\ req' = [req EXCEPT ![r] = Waiting]
        /\ touched' = [touched EXCEPT ![r] = {}]
        /\ UNCHANGED <<table, parts, verified, session>>

Setup ==
    \E t \in Tables :
        \/ EnableRLS(t) \/ ForceRLS(t) \/ CreateTenantPolicy(t) \/ VerifyTenantIsolation(t)
        \/ \E x \in Tenants : CreatePartition(t, x)

Request(r) ==
    \/ \E c \in Conns, x \in Tenants : Acquire(r, c, x)
    \/ SetTenantContext(r) \/ SetTenantContextFails(r) \/ ConnectionLost(r)
    \/ Begin(r) \/ Commit(r) \/ Rollback(r) \/ Release(r)
    \/ \E t \in Tables : Select(r, t) \/ \E x \in Tenants : Insert(r, t, x)

Next == Setup \/ \E r \in Requests : Request(r)

Spec == Init /\ [][Next]_vars

-----------------------------------------------------------------------------
(* A table that VerifyTenantIsolation said TRUE of keeps tenants apart on   *)
(* every connection it applies to: a request that sets its tenant reads    *)
(* and writes only its own rows there, whatever tenant the session was     *)
(* left with, and also while the table has no policy yet; except after a   *)
(* rollback of the transaction in which it set its tenant.                 *)
OnlyOwnRows ==
    \A r \in Requests : \A row \in touched[r] : row = <<req[r].tenant, FALSE>> \/ row[2]

(* A request that has set its tenant finds its own rows and can write them, *)
(* through commits, failed calls, and rollbacks of transactions that began *)
(* after it was set.  Only the rollback of a transaction in which it was   *)
(* set leaves the session with another tenant or with none: "all queries   *)
(* in this session are automatically scoped" does not hold after that.     *)
TenantInForce ==
    \A r \in Requests, t \in Tables :
        (Usable(r) /\ ~req[r].undone /\ Applies(req[r].conn, t) /\ table[t].policy) =>
            Allowed(req[r].conn, t) = {req[r].tenant}

=============================================================================
