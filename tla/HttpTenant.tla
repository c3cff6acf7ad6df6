----------------------------- MODULE HttpTenant -----------------------------
(***************************************************************************)
(* How a request comes to its tenant: the resolvers and the tenant         *)
(* middlewares of adapters/http-stdlib, http-chi, http-gin, http-echo and  *)
(* http-fiber, and the validation of package domain.  No state.            *)
(*                                                                         *)
(* A request is a record with the header value, the host (whether it is    *)
(* under the configured domain, and the labels in front of it), the path,  *)
(* the pattern of the route that serves it and the value of its tenant     *)
(* parameter, the query parameter and the bearer token.  "" is both an     *)
(* absent value and a resolver's error: no resolver succeeds with an empty *)
(* name.                                                                   *)
(***************************************************************************)
EXTENDS Integers, Sequences

CONSTANTS
    SkipPaths,              \* Config.SkipPaths
    Chain,                  \* names of the resolvers in each framework's chain, in order
    Prefix, PathSegment,    \* of PathResolver in http-stdlib
    ChiPrefix,              \* PathPrefix of http-chi, whose PathSegment is 0
    PathIndex,              \* of PathResolver in http-gin, http-echo and http-fiber
    TrimSpace(_),           \* strings.TrimSpace
    ToLower(_),             \* strings.ToLower
    Join(_),                \* labels joined by dots
    HasPrefix(_, _),        \* strings.HasPrefix
    TrimPrefix(_, _),       \* strings.TrimPrefix
    Trim(_),                \* strings.Trim of all slashes around a path
    Split(_),               \* strings.Split at slashes
    Claim(_),               \* ClaimParser: the tenant claim of a token, "" on an error
    IsTenantID(_)           \* 1 to 255 letters, digits, dots, dashes, underscores

ASSUME PathAssumption == Prefix \in Seq(STRING) /\ PathSegment \in Nat /\ PathIndex \in Nat
ASSUME ChainAssumption == \A f \in {"stdlib", "chi", "gin", "echo", "fiber"} : Chain[f] \in Seq(STRING)
ASSUME NameAssumption == ~IsTenantID("")

(* The first resolver that succeeds, in the order of the chain.            *)
Found(names) == {i \in DOMAIN names : names[i] # ""}

MutantLastResolved(names) ==
    IF Found(names) = {} THEN "" ELSE names[CHOOSE i \in Found(names) : \A j \in Found(names) : j <= i]

FirstResolved(names) ==
    IF Found(names) = {} THEN "" ELSE names[CHOOSE i \in Found(names) : \A j \in Found(names) : i <= j]

-----------------------------------------------------------------------------
(* The resolvers of http-stdlib.                                           *)
StdHeaderResolver(r) == TrimSpace(r.header)

StdSubdomainResolver(r) == IF r.host.own /\ Len(r.host.labels) = 1 THEN r.host.labels[1] ELSE ""

StdPathResolver(r) ==
    LET segments == Split(TrimPrefix(r.path, "/"))
        index == Len(Prefix) + PathSegment + 1
        matches == Len(segments) >= Len(Prefix) /\ SubSeq(segments, 1, Len(Prefix)) = Prefix
    IN  IF matches /\ index <= Len(segments) THEN TrimSpace(segments[index]) ELSE ""

(* JWTResolver with ExtractBearerToken; a malformed header gives no token.  *)
StdJWTResolver(r) == IF r.token = "" THEN "" ELSE Claim(r.token)

StdResolvers(r) ==
    [header |-> StdHeaderResolver(r), subdomain |-> StdSubdomainResolver(r),
     path |-> StdPathResolver(r), jwt |-> StdJWTResolver(r)]

-----------------------------------------------------------------------------
(* The resolvers of http-chi: the header is not trimmed, and every label in  *)
(* front of the domain is part of the name.                                *)
Segments(path) == Split(Trim(path))

SegmentAt(path, i) == IF i < Len(Segments(path)) THEN Segments(path)[i + 1] ELSE ""

ChiHeaderResolver(r) == r.header

ChiSubdomainResolver(r) == IF r.host.own THEN Join(r.host.labels) ELSE ""

ChiPathResolver(r) == IF HasPrefix(r.path, ChiPrefix) THEN SegmentAt(TrimPrefix(r.path, ChiPrefix), 0) ELSE ""

ChiURLParamResolver(r) == r.param

ChiQueryParamResolver(r) == r.query

ChiResolvers(r) ==
    [header |-> ChiHeaderResolver(r), subdomain |-> ChiSubdomainResolver(r), path |-> ChiPathResolver(r),
     param |-> ChiURLParamResolver(r), query |-> ChiQueryParamResolver(r)]

(* The resolvers of http-gin, and of http-echo and http-fiber, which repeat  *)
(* them on their own request types: a segment of the path is taken         *)
(* whatever is in front of it.                                             *)
GinResolvers(r) ==
    [header |-> r.header, subdomain |-> IF r.host.own THEN Join(r.host.labels) ELSE "",
     path |-> SegmentAt(r.path, PathIndex), param |-> r.param, query |-> r.query]

EchoResolvers(r) == GinResolvers(r)

FiberResolvers(r) == GinResolvers(r)

Resolvers(framework, r) ==
    CASE framework = "stdlib" -> StdResolvers(r)
      [] framework = "chi"    -> ChiResolvers(r)
      [] framework = "gin"    -> GinResolvers(r)
      [] framework = "echo"   -> EchoResolvers(r)
      [] framework = "fiber"  -> FiberResolvers(r)

(* ChainResolver: what each resolver finds, and the first name found.       *)
Names(framework, r) == [i \in DOMAIN Chain[framework] |-> Resolvers(framework, r)[Chain[framework][i]]]

Resolve(framework, r) == FirstResolved(Names(framework, r))

-----------------------------------------------------------------------------
(* domain.NewTenantID: a valid name in lower case.  NewContext fails when it  *)
(* does; the user and request identifiers the middlewares give are never   *)
(* empty.  "" is an error.                                                 *)
NewTenantID(name) == IF IsTenantID(name) THEN ToLower(name) ELSE ""

NewContext(name) == NewTenantID(name)

(* Skipped paths: compared as a whole, by http-chi as prefixes, and by      *)
(* http-echo with the pattern of the route.                                *)
StdSkips(r) == r.path \in SkipPaths

ChiSkips(r) == \E p \in SkipPaths : HasPrefix(r.path, p)

EchoSkips(r) == r.route \in SkipPaths

(* A middleware lets a request on a skipped path go on without a tenant and  *)
(* one that has a tenant with it; any other is answered with an error.     *)
Passed(tenant) == [pass |-> TRUE, tenant |-> tenant]

MutantRejectGoesOn == [pass |-> TRUE, tenant |-> ""]

Rejected == [pass |-> FALSE, tenant |-> ""]

Identified(framework, r) ==
    LET tenant == NewContext(Resolve(framework, r)) IN IF tenant = "" THEN Rejected ELSE Passed(tenant)

StdMiddleware(r) == IF StdSkips(r) THEN Passed("") ELSE Identified("stdlib", r)

ChiMiddleware(r) == IF ChiSkips(r) THEN Passed("") ELSE Identified("chi", r)

(* gin runs the next handler when a middleware returns, unless the request   *)
(* was aborted, as the default ErrorHandler does.                          *)
GinMiddleware(r) == IF r.path \in SkipPaths THEN Passed("") ELSE Identified("gin", r)

EchoMiddleware(r) == IF EchoSkips(r) THEN Passed("") ELSE Identified("echo", r)

FiberMiddleware(r) == IF r.path \in SkipPaths THEN Passed("") ELSE Identified("fiber", r)

=============================================================================
