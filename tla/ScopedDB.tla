------------------------------ MODULE ScopedDB ------------------------------
(***************************************************************************)
(* What package tenantkit promises of a tenant-aware database handle,      *)
(* without its cache, its pool and its rewriters: a call is refused when   *)
(* it needs a tenant and has none, or is answered, and the answer depends  *)
(* on the statement and the context of that call and on nothing else.      *)
(***************************************************************************)
EXTENDS TenantRewrite

CONSTANTS Goroutines, Stmts, CallContexts, Methods

VARIABLES
    request,    \* the call that a goroutine waits for
    answer      \* the answer to its last call

abstractVars == <<request, answer>>

NoRequest == [method |-> "none"]

NoAnswer == [outcome |-> "none"]

\* A refused call reports an error, QueryRow through the row that it returns.
Refused == [outcome |-> "failed", err |-> TRUE]

AnswerTo(r) ==
    IF /\ ShouldFilter(r.ctx, r.stmt) = "tenant_table_access"
       /\ r.stmt.op = "INSERT" /\ ~r.stmt.columns
    THEN Refused
    ELSE [outcome |-> "executed", stmt |-> r.stmt, ctx |-> r.ctx,
          bound |-> ExpectedBinding(r.stmt, r.ctx)]

Init ==
    /\ request = [g \in Goroutines |-> NoRequest]
    /\ answer = [g \in Goroutines |-> NoAnswer]

Request(g, m, s, ctx) ==
    /\ request[g] = NoRequest
    /\ ShouldFilter(ctx, s) # "missing_tenant"
    /\ request' = [request EXCEPT ![g] = [method |-> m, stmt |-> s, ctx |-> ctx]]
    /\ answer' = [answer EXCEPT ![g] = NoAnswer]

Refuse(g, s, ctx) ==
    /\ request[g] = NoRequest
    /\ ShouldFilter(ctx, s) = "missing_tenant"
    /\ answer' = [answer EXCEPT ![g] = Refused]
    /\ UNCHANGED request

Answer(g) ==
    /\ request[g] # NoRequest
    /\ answer' = [answer EXCEPT ![g] = AnswerTo(request[g])]
    /\ request' = [request EXCEPT ![g] = NoRequest]

Next ==
    \E g \in Goroutines :
        \/ \E m \in Methods, s \in Stmts, ctx \in CallContexts : Request(g, m, s, ctx)
        \/ \E s \in Stmts, ctx \in CallContexts : Refuse(g, s, ctx)
        \/ Answer(g)

Spec == Init /\ [][Next]_abstractVars

FairSpec == Spec /\ \A g \in Goroutines : WF_abstractVars(Answer(g))

=============================================================================
