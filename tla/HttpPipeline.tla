---------------------------- MODULE HttpPipeline ----------------------------
(***************************************************************************)
(* Requests on their way through the tenant middleware of one of the five  *)
(* HTTP adapters and, with http-stdlib and http-chi, through the rate      *)
(* limit middleware of adapters/http-stdlib (middleware_ratelimit.go) to   *)
(* the program's handler.  The requests share a limiter of LimiterMemory.  *)
(***************************************************************************)
EXTENDS LimiterMemory, HttpTenant

CONSTANTS
    Handlers,           \* goroutines of the HTTP server
    Requests,           \* with the fields of HttpTenant, addr, and client: the
                        \* tenant that sent the request, or "" (no code reads it)
    LimitSkipPaths      \* RateLimitConfig.SkipPaths

VARIABLES
    framework,          \* the HTTP adapter of the program
    serving,            \* what each goroutine does
    charged             \* history: requests granted to each sender

vars == <<limiterVars, framework, serving, charged>>

Idle == [stage |-> "idle"]

Limited == {"stdlib", "chi"}

Frameworks == Limited \cup {"gin", "echo", "fiber"}

Middleware(r) ==
    CASE framework = "stdlib" -> StdMiddleware(r)
      [] framework = "chi"    -> ChiMiddleware(r)
      [] framework = "gin"    -> GinMiddleware(r)
      [] framework = "echo"   -> EchoMiddleware(r)
      [] framework = "fiber"  -> FiberMiddleware(r)

Skips(r) ==
    CASE framework = "chi"  -> ChiSkips(r)
      [] framework = "echo" -> EchoSkips(r)
      [] OTHER              -> StdSkips(r)

(* Who a request is to be charged to: its sender, or its address on a path   *)
(* that has no tenants.                                                    *)
Owner(r) == IF Skips(r) THEN r.addr ELSE r.client

Init ==
    /\ LimiterInit
    /\ framework \in Frameworks
    /\ serving = [h \in Handlers |-> Idle]
    /\ charged = [k \in Keys |-> NoHistory(MaxTime)]

At(h, stage) == serving[h].stage = stage

Goto(h, stage) == serving' = [serving EXCEPT ![h].stage = stage]

(* A request comes in and passes the tenant middleware or is answered by     *)
(* its error handler.                                                      *)
Receive(h, r) ==
    LET outcome == Middleware(r)
    IN  /\ At(h, "idle")
        /\ serving' = [serving EXCEPT ![h] =
                          [stage |-> CASE ~outcome.pass -> "rejected"
                                       [] outcome.pass /\ framework \in Limited -> "limit"
                                       [] outcome.pass /\ framework \notin Limited -> "handler",
                           req |-> r, tenant |-> outcome.tenant]]
        /\ UNCHANGED <<limiterVars, framework, charged>>

(* The default KeyExtractor: the tenant of the context, else RemoteAddr.    *)
MutantKeyIsAddress(s) == s.req.addr

MutantKeyFromHeader(s) == IF s.req.header # "" THEN s.tenant ELSE ""

KeyExtractor(s) == IF s.tenant # "" THEN s.tenant ELSE s.req.addr

SkipLimit(h) ==
    /\ At(h, "limit")
    /\ serving[h].req.path \in LimitSkipPaths
    /\ Goto(h, "handler")
    /\ UNCHANGED <<limiterVars, framework, charged>>

(* Allow refuses a blank key with an error, and the middleware lets the      *)
(* request through.                                                        *)
LimiterError(h) ==
    /\ At(h, "limit")
    /\ serving[h].req.path \notin LimitSkipPaths
    /\ TrimSpace(KeyExtractor(serving[h])) = ""
    /\ Goto(h, "handler")
    /\ UNCHANGED <<limiterVars, framework, charged>>

(* Allow decides; Remaining, which the middleware then calls for its        *)
(* headers, only reads.                                                    *)
Allow(h) ==
    LET key == KeyExtractor(serving[h])
        owner == Owner(serving[h].req)
    IN  /\ At(h, "limit")
        /\ serving[h].req.path \notin LimitSkipPaths
        /\ TrimSpace(key) # ""
        /\ AllowN(key, 1)
        /\ Goto(h, IF Admits(key, 1) THEN "handler" ELSE "refused")
        /\ charged' = IF Admits(key, 1) THEN [charged EXCEPT ![owner] = Granted(@, now, 1)] ELSE charged
        /\ UNCHANGED framework

(* The response is written: the handler's, or that of an error handler.     *)
Answer(h) ==
    /\ serving[h].stage \in {"handler", "rejected", "refused"}
    /\ serving' = [serving EXCEPT ![h] = Idle]
    /\ UNCHANGED <<limiterVars, framework, charged>>

(* The program resets a key of the limiter.                                *)
ResetKey(k) ==
    /\ Reset(k)
    /\ charged' = [charged EXCEPT ![k] = NoHistory(MaxTime)]
    /\ UNCHANGED <<framework, serving>>

TimePasses == Tick /\ UNCHANGED <<framework, serving, charged>>

Next ==
    \/ \E h \in Handlers : \/ \E r \in Requests : Receive(h, r)
                           \/ SkipLimit(h) \/ LimiterError(h) \/ Allow(h) \/ Answer(h)
    \/ \E k \in Keys : ResetKey(k)
    \/ TimePasses

Spec == Init /\ [][Next]_vars

-----------------------------------------------------------------------------
(* A handler behind the tenant middleware runs with the tenant that sent     *)
(* the request, wherever and however the request names it; one that names  *)
(* no valid tenant first is never taken for another's.                     *)
HandlerHasItsTenant ==
    \A h \in Handlers :
        (serving[h].stage \in {"limit", "handler"} /\ ~Skips(serving[h].req)) =>
            serving[h].tenant = serving[h].req.client /\ serving[h].tenant # ""

(* What the limiter has counted for a key is exactly what was granted to     *)
(* its owner: no request is charged to another tenant or to an address     *)
(* that has one.                                                           *)
ChargedToOwner == charged = admitted

RefusedAtLimit ==
    \A h \in Handlers :
        (At(h, "limit") /\ At(h, "refused")') =>
            GrantedIn(charged[Owner(serving[h].req)], now - WindowSize, now) >= Limit

(* A request is refused only when its own sender has used up the limit       *)
(* within a window: no tenant is refused for what others did, even from     *)
(* the same address.                                                       *)
RefusedOnlyWhenUsed == [][RefusedAtLimit]_vars

ChargedOnTheWay ==
    \A h \in Handlers :
        LET r == serving[h].req
        IN  (At(h, "limit") /\ At(h, "handler")' /\ ~Skips(r) /\ r.path \notin LimitSkipPaths) =>
                charged'[r.client] = Granted(charged[r.client], now, 1)

(* The middleware fails open, but never for a tenant: each of its requests   *)
(* that reaches the handler on a limited path has been charged to it.      *)
NoTenantUncharged == [][ChargedOnTheWay]_vars

=============================================================================
