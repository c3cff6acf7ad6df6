------------------------- MODULE RowSecurityProofs -------------------------
(***************************************************************************)
(* Proofs about RowSecurity for any tables, connections, requests and      *)
(* tenants.                                                                *)
(***************************************************************************)
EXTENDS RowSecurity, TLAPS

(* The types of what the isolation of a request depends on.                *)
TableType == table \in [Tables -> [security : BOOLEAN, forced : BOOLEAN, policy : BOOLEAN]]

SessionType ==
    session \in [Conns -> [setting : Tenants \cup {NoTenant}, txn : {"none", "open", "aborted"},
                           saved : Tenants \cup {NoTenant}]]

RequestType ==
    /\ req \in [Requests -> [conn : Conns \cup {NoConn}, tenant : Tenants \cup {NoTenant},
                             ready : BOOLEAN, undone : BOOLEAN, wasReady : BOOLEAN]]
    /\ touched \in [Requests -> SUBSET (Tenants \X BOOLEAN)]

Types == TableType /\ SessionType /\ RequestType

(* Row security is on in every verified table: it is never turned off.     *)
VerifiedSecure == verified \subseteq {t \in Tables : table[t].security}

(* No two requests have the same connection, and one that has a connection  *)
(* has a tenant.                                                           *)
OneUser ==
    /\ \A r, q \in Requests : (req[r].conn # NoConn /\ req[r].conn = req[q].conn) => r = q
    /\ \A r \in Requests : req[r].conn # NoConn => req[r].tenant \in Tenants

(* The session of a request that has set its tenant has that tenant, if no  *)
(* rollback has undone it, and will have it again after a rollback if it   *)
(* was in force before Begin.                                              *)
SettingIsOwn ==
    \A r \in Requests : req[r].conn # NoConn =>
        /\ req[r].ready /\ ~req[r].undone => session[req[r].conn].setting = req[r].tenant
        /\ req[r].wasReady => session[req[r].conn].saved = req[r].tenant

RowInv == Types /\ VerifiedSecure /\ OneUser /\ SettingIsOwn /\ OnlyOwnRows

-----------------------------------------------------------------------------
(* Setup: nothing that it does takes security from a verified table.       *)
LEMMA SetupKeepsRowInv ==
  ASSUME RowInv, Setup
  PROVE  RowInv'
<1> USE DEF RowInv, Types
<1>1. UNCHANGED <<session, req, touched>>
  BY DEF Setup, EnableRLS, ForceRLS, CreateTenantPolicy, VerifyTenantIsolation, CreatePartition
<1>2. /\ TableType'
      /\ \A t \in Tables : table[t].security => table'[t].security
  BY DEF Setup, EnableRLS, ForceRLS, CreateTenantPolicy, VerifyTenantIsolation, CreatePartition, TableType
<1>3. verified' \subseteq verified \cup {t \in Tables : table[t].security}
  BY DEF Setup, EnableRLS, ForceRLS, CreateTenantPolicy, VerifyTenantIsolation, CreatePartition,
         TenantIsolation
<1>4. VerifiedSecure'
  BY <1>2, <1>3 DEF VerifiedSecure
<1> QED
  BY <1>1, <1>2, <1>4 DEF SessionType, RequestType, OneUser, SettingIsOwn, OnlyOwnRows

(* What a usable request may use of a protected table is its own, unless a   *)
(* rollback has undone its setting: the session has its tenant, and row    *)
(* security applies.                                                       *)
LEMMA ProtectedIsOwn ==
  ASSUME RowInv, NEW r \in Requests, NEW t \in Tables, Usable(r), ~req[r].undone,
         Protected(req[r].conn, t)
  PROVE  Allowed(req[r].conn, t) \subseteq {req[r].tenant}
<1>1. Applies(req[r].conn, t)
  BY DEF RowInv, VerifiedSecure, Protected, Applies
<1>2. session[req[r].conn].setting = req[r].tenant
  BY DEF RowInv, SettingIsOwn, Usable
<1> QED
  BY <1>1, <1>2 DEF Allowed, TenantPolicy

(* A statement: all it changes is what its request has touched.            *)
LEMMA StatementKeepsRowInv ==
  ASSUME RowInv, NEW r \in Requests, NEW t \in Tables, Usable(r), NEW xs \in SUBSET Tenants,
         xs \subseteq Allowed(req[r].conn, t), Touch(r, t, xs),
         UNCHANGED <<table, parts, verified, session, req>>
  PROVE  RowInv'
<1> USE DEF RowInv, Types
<1>1. /\ Protected(req[r].conn, t) => touched' = [touched EXCEPT ![r] = touched[r] \cup (xs \X {req[r].undone})]
      /\ ~Protected(req[r].conn, t) => touched' = [touched EXCEPT ![r] = touched[r]]
  BY DEF Touch
<1>2. Protected(req[r].conn, t) /\ ~req[r].undone => xs \subseteq {req[r].tenant}
  BY ProtectedIsOwn
<1>3. RequestType'
  BY <1>1 DEF RequestType
<1>4. OnlyOwnRows'
  <2> SUFFICES ASSUME NEW q \in Requests, NEW row \in touched'[q]
               PROVE  row = <<req[q].tenant, FALSE>> \/ row[2]
    BY DEF OnlyOwnRows
  <2>1. CASE row \in touched[q]
    BY <2>1 DEF OnlyOwnRows
  <2>2. CASE row \notin touched[q]
    <3>1. q = r /\ Protected(req[r].conn, t) /\ row \in xs \X {req[r].undone}
      BY <1>1, <2>2 DEF RequestType
    <3>2. req[r].undone \in BOOLEAN
      BY DEF RequestType
    <3>3. CASE req[r].undone = TRUE
      BY <3>1, <3>3
    <3>4. CASE req[r].undone = FALSE
      <4>1. xs \subseteq {req[r].tenant}
        BY <1>2, <3>1, <3>4
      <4>2. row = <<row[1], row[2]>> /\ row[1] \in xs /\ row[2] = req[r].undone
        BY <3>1
      <4>3. row[1] = req[q].tenant /\ row[2] = FALSE
        BY <3>1, <3>4, <4>1, <4>2
      <4> QED
        BY <4>2, <4>3, Zenon
    <3> QED
      BY <3>2, <3>3, <3>4
  <2> QED
    BY <2>1, <2>2
<1> QED
  BY <1>3, <1>4 DEF TableType, SessionType, VerifiedSecure, OneUser, SettingIsOwn

(* Steps in which a request keeps its connection and tenant: only its own   *)
(* session and its flags change.                                           *)
OwnStep(r) ==
    LET c == req[r].conn
    IN  /\ c # NoConn
        /\ UNCHANGED <<table, parts, verified, touched>>
        /\ SessionType' /\ RequestType'
        /\ \A d \in Conns \ {c} : session'[d] = session[d]
        /\ \A q \in Requests \ {r} : req'[q] = req[q]
        /\ req'[r].conn = c /\ req'[r].tenant = req[r].tenant
        /\ req'[r].ready /\ ~req'[r].undone => session'[c].setting = req[r].tenant
        /\ req'[r].wasReady => session'[c].saved = req[r].tenant

(* A step of a request that keeps its connection and its tenant.           *)
LEMMA OwnStepKeepsRowInv ==
  ASSUME RowInv, NEW r \in Requests, OwnStep(r)
  PROVE  RowInv'
<1> USE DEF RowInv, Types, OwnStep
<1>1. \A q \in Requests : req'[q].conn = req[q].conn /\ req'[q].tenant = req[q].tenant
  OBVIOUS
<1>2. OneUser' /\ OnlyOwnRows'
  <2>1. OneUser'
    BY <1>1 DEF OneUser
  <2>2. touched' = touched
    OBVIOUS
  <2>3. OnlyOwnRows'
    BY <1>1, <2>2, Zenon DEF OnlyOwnRows
  <2> QED
    BY <2>1, <2>3
<1>3. SettingIsOwn'
  <2> SUFFICES ASSUME NEW q \in Requests, req'[q].conn # NoConn
               PROVE  /\ req'[q].ready /\ ~req'[q].undone => session'[req'[q].conn].setting = req'[q].tenant
                      /\ req'[q].wasReady => session'[req'[q].conn].saved = req'[q].tenant
    BY DEF SettingIsOwn
  <2>1. CASE q = r
    BY <2>1
  <2>2. CASE q # r
    <3>1. req'[q] = req[q] /\ req[q].conn \in Conns \ {req[r].conn}
      BY <2>2 DEF OneUser, RequestType
    <3> QED
      BY <3>1 DEF SettingIsOwn
  <2> QED
    BY <2>1, <2>2
<1> QED
  BY <1>2, <1>3 DEF TableType, VerifiedSecure

(* A request gives its connection up.                                      *)
LEMMA LeavingKeepsRowInv ==
  ASSUME RowInv, NEW r \in Requests, req' = [req EXCEPT ![r] = Waiting],
         touched' = [touched EXCEPT ![r] = {}], UNCHANGED <<table, parts, verified>>,
         SessionType', \A c \in Conns : c # req[r].conn => session'[c] = session[c]
  PROVE  RowInv'
<1> USE DEF RowInv, Types
<1>1. RequestType'
  BY DEF RequestType, Waiting, NewRequest
<1>2. req'[r] = Waiting /\ \A q \in Requests \ {r} : req'[q] = req[q]
  BY DEF RequestType
<1>3. OneUser'
  BY <1>2 DEF OneUser, Waiting, NewRequest
<1>4. SettingIsOwn'
  BY <1>2, NoConnAssumption DEF SettingIsOwn, OneUser, RequestType, Waiting, NewRequest
<1>5. OnlyOwnRows'
  BY <1>2 DEF OnlyOwnRows, RequestType
<1> QED
  BY <1>1, <1>3, <1>4, <1>5 DEF TableType, VerifiedSecure

(* The steps of a request, one by one.                                     *)
LEMMA RequestKeepsRowInv ==
  ASSUME RowInv, NEW r \in Requests, Request(r)
  PROVE  RowInv'
<1> DEFINE c == req[r].conn
<1>1. /\ SessionType /\ RequestType
      /\ c # NoConn =>
            /\ c \in Conns /\ req[r].tenant \in Tenants
            /\ req[r].ready /\ ~req[r].undone => session[c].setting = req[r].tenant
            /\ req[r].wasReady => session[c].saved = req[r].tenant
  BY DEF RowInv, Types, RequestType, SettingIsOwn, OneUser
<1>2. ASSUME NEW d \in Conns, NEW x \in Tenants, Acquire(r, d, x) PROVE RowInv'
  <2> USE DEF RowInv, Types
  <2>1. /\ req' = [req EXCEPT ![r] = NewRequest(d, x)]
        /\ touched' = [touched EXCEPT ![r] = {}]
        /\ \A q \in Requests : req[q].conn # d
        /\ UNCHANGED <<table, parts, verified, session>>
    BY <1>2 DEF Acquire
  <2>2. RequestType'
    BY <2>1 DEF RequestType, NewRequest
  <2>3. /\ req'[r] = NewRequest(d, x)
        /\ \A q \in Requests \ {r} : req'[q] = req[q]
    BY <2>1 DEF RequestType
  <2>4. OneUser' /\ SettingIsOwn' /\ OnlyOwnRows'
    BY <2>1, <2>3 DEF OneUser, SettingIsOwn, OnlyOwnRows, RequestType, NewRequest
  <2> QED
    BY <2>1, <2>2, <2>4 DEF TableType, SessionType, VerifiedSecure
<1>3. CASE Begin(r)
  <2>1. /\ c # NoConn /\ session' = [session EXCEPT ![c].txn = "open", ![c].saved = session[c].setting]
        /\ req' = [req EXCEPT ![r].wasReady = req[r].ready /\ ~req[r].undone]
        /\ UNCHANGED <<table, parts, verified, touched>>
    BY <1>3 DEF Begin
  <2>2. /\ SessionType' /\ \A d \in Conns \ {c} : session'[d] = session[d]
        /\ session'[c].setting = session[c].setting /\ session'[c].saved = session[c].setting
    BY <1>1, <2>1 DEF SessionType
  <2> DEFINE b == req[r].ready /\ ~req[r].undone
  <2>3. b \in BOOLEAN /\ req' = [req EXCEPT ![r].wasReady = b] /\ touched' = touched
    BY <2>1
  <2> HIDE DEF b
  <2>4. /\ RequestType' /\ \A q \in Requests \ {r} : req'[q] = req[q]
        /\ req'[r].conn = c /\ req'[r].tenant = req[r].tenant
        /\ req'[r].ready = req[r].ready /\ req'[r].undone = req[r].undone
        /\ req'[r].wasReady = b
    BY <1>1, <2>3 DEF RequestType
  <2>5. b => session[c].setting = req[r].tenant
    BY <1>1, <2>1 DEF b
  <2>6. req'[r].ready /\ ~req'[r].undone => session'[c].setting = req[r].tenant
    BY <1>1, <2>1, <2>2, <2>4
  <2>7. req'[r].wasReady => session'[c].saved = req[r].tenant
    BY <2>2, <2>4, <2>5
  <2>8. OwnStep(r)
    BY <2>1, <2>2, <2>4, <2>6, <2>7 DEF OwnStep
  <2> QED
    BY <2>8, OwnStepKeepsRowInv
<1>4. CASE SetTenantContext(r)
  <2>1. /\ c # NoConn /\ session' = [session EXCEPT ![c] = [session[c] EXCEPT !.setting = req[r].tenant]]
        /\ req' = [req EXCEPT ![r].ready = TRUE, ![r].undone = FALSE]
        /\ UNCHANGED <<table, parts, verified, touched>>
    BY <1>4 DEF SetTenantContext, SetConfig
  <2>2. /\ SessionType' /\ \A d \in Conns \ {c} : session'[d] = session[d]
        /\ session'[c].setting = req[r].tenant /\ session'[c].saved = session[c].saved
    BY <1>1, <2>1 DEF SessionType
  <2>3. /\ RequestType' /\ \A q \in Requests \ {r} : req'[q] = req[q]
        /\ req'[r].conn = c /\ req'[r].tenant = req[r].tenant /\ req'[r].wasReady = req[r].wasReady
    BY <1>1, <2>1 DEF RequestType
  <2>4. OwnStep(r)
    BY <1>1, <2>1, <2>2, <2>3 DEF OwnStep
  <2> QED
    BY <2>4, OwnStepKeepsRowInv
<1>5. CASE SetTenantContextFails(r)
  <2>1. PICK v \in {"none", "aborted"} : session' = [session EXCEPT ![c].txn = v]
    BY <1>5 DEF SetTenantContextFails
  <2>2. SessionType' /\ \A d \in Conns \ {c} : session'[d] = session[d]
    BY <1>1, <2>1 DEF SessionType
  <2>3. OwnStep(r)
    <3>1. session'[c].saved = session[c].saved
      BY <1>1, <1>5, <2>1 DEF SetTenantContextFails, SessionType
    <3> QED
      BY <1>1, <1>5, <2>2, <3>1 DEF SetTenantContextFails, OwnStep, RequestType
  <2> QED
    BY <2>3, OwnStepKeepsRowInv
<1>6. CASE ConnectionLost(r)
  <2>1. SessionType' /\ \A d \in Conns : d # c => session'[d] = session[d]
    BY <1>1, <1>6 DEF ConnectionLost, NewSession, RowInv, Types, SessionType
  <2> QED
    BY <1>6, <2>1, LeavingKeepsRowInv DEF ConnectionLost
<1>7. CASE Commit(r)
  <2>1. /\ SessionType' /\ \A d \in Conns \ {c} : session'[d] = session[d]
        /\ session'[c].setting = session[c].setting
    BY <1>1, <1>7 DEF Commit, SessionType
  <2>2. OwnStep(r)
    BY <1>1, <1>7, <2>1 DEF Commit, OwnStep, RequestType
  <2> QED
    BY <2>2, OwnStepKeepsRowInv
<1>8. CASE Rollback(r)
  <2>1. OwnStep(r)
    BY <1>1, <1>8 DEF Rollback, NewSession, OwnStep, SessionType, RequestType
  <2> QED
    BY <2>1, OwnStepKeepsRowInv
<1>9. CASE Release(r)
  <2>1. SessionType' /\ UNCHANGED session
    BY <1>9 DEF Release, RowInv, Types, SessionType
  <2> QED
    BY <1>9, <2>1, LeavingKeepsRowInv DEF Release
<1>10. ASSUME NEW t \in Tables, Select(r, t) PROVE RowInv'
  <2>1. Allowed(c, t) \in SUBSET Tenants
    BY DEF Allowed, TenantPolicy
  <2> QED
    BY <1>10, <2>1, StatementKeepsRowInv DEF Select
<1>11. ASSUME NEW t \in Tables, NEW x \in Tenants, Insert(r, t, x) PROVE RowInv'
  <2>1. /\ {x} \in SUBSET Tenants /\ {x} \subseteq Allowed(c, t) /\ Touch(r, t, {x}) /\ Usable(r)
        /\ UNCHANGED <<table, parts, verified, session, req>>
    BY <1>11 DEF Insert
  <2> QED
    BY <2>1, StatementKeepsRowInv
<1> QED
  BY <1>2, <1>3, <1>4, <1>5, <1>6, <1>7, <1>8, <1>9, <1>10, <1>11 DEF Request

(* The inductive invariant: row security stays on in verified tables, a      *)
(* connection has one user at a time, and SetTenantContext, Begin and      *)
(* Rollback leave a ready request with its own tenant in force or undone.  *)
THEOREM RowInvAlways == Spec => []RowInv
<1>1. Init => RowInv
  BY DEF Init, RowInv, Types, TableType, SessionType, RequestType, VerifiedSecure, OneUser, SettingIsOwn,
         OnlyOwnRows, NewSession, Waiting, NewRequest
<1>2. RowInv /\ [Next]_vars => RowInv'
  <2> SUFFICES ASSUME RowInv, [Next]_vars PROVE RowInv'
    OBVIOUS
  <2>1. CASE Setup
    BY <2>1, SetupKeepsRowInv
  <2>2. ASSUME NEW r \in Requests, Request(r) PROVE RowInv'
    BY <2>2, RequestKeepsRowInv
  <2>3. CASE UNCHANGED vars
    BY <2>3 DEF vars, RowInv, Types, TableType, SessionType, RequestType, VerifiedSecure, OneUser,
                SettingIsOwn, OnlyOwnRows
  <2> QED
    BY <2>1, <2>2, <2>3 DEF Next
<1> QED
  BY <1>1, <1>2, PTL DEF Spec

(* In a verified table a request that sets its tenant reads and writes its   *)
(* own rows only, whatever SetTenantContext of others left in the session, *)
(* unless a rollback has undone its own.                                   *)
THEOREM OnlyOwnRowsAlways == Spec => []OnlyOwnRows
  BY RowInvAlways, PTL DEF RowInv

(* After SetTenantContext, and through every commit, failure and rollback    *)
(* but the one of the transaction in which it was called, the policy shows *)
(* a usable request its own rows.                                          *)
THEOREM TenantInForceAlways == Spec => []TenantInForce
<1>1. RowInv => TenantInForce
  <2> SUFFICES ASSUME RowInv, NEW r \in Requests, NEW t \in Tables, Usable(r), ~req[r].undone,
                      Applies(req[r].conn, t), table[t].policy
               PROVE  Allowed(req[r].conn, t) = {req[r].tenant}
    BY DEF TenantInForce
  <2>1. session[req[r].conn].setting = req[r].tenant /\ req[r].tenant \in Tenants
    BY DEF RowInv, SettingIsOwn, OneUser, Usable
  <2> QED
    BY <2>1 DEF Allowed, TenantPolicy
<1> QED
  BY <1>1, RowInvAlways, PTL

=============================================================================
