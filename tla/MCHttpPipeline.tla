--------------------------- MODULE MCHttpPipeline ---------------------------
(***************************************************************************)
(* An instance of HttpPipeline for TLC: two tenants behind one address,    *)
(* which name themselves in every place that the resolvers read.           *)
(***************************************************************************)
EXTENDS HttpPipeline, TLC

MCPrefix == <<"t">>

MCChain == [
    stdlib |-> <<"header", "subdomain", "path", "jwt">>,
    chi    |-> <<"header", "subdomain", "path", "query">>,
    gin    |-> <<"header", "subdomain", "path", "query">>,
    echo   |-> <<"header", "subdomain", "param", "query">>,
    fiber  |-> <<"param", "header", "subdomain", "query">>]

MCTrimSpace(s) == CASE s = " acme" -> "acme" [] s = " " -> "" [] OTHER -> s

MCToLower(s) == IF s = "ACME" THEN "acme" ELSE s

MCJoin(labels) == IF labels = <<>> THEN "" ELSE labels[1]

MCHasPrefix(s, p) == s = p \/ <<s, p>> \in {<<"/healthz", "/health">>, <<"/t/globex", "/t/">>}

\* Paths without the slash, or the slashes, in front.
Bare == [p \in {"/t/globex", "//t/globex", "/t"} |-> IF p = "/t" THEN "t" ELSE "t/globex"]

MCTrimPrefix(s, p) ==
    CASE s = "/t/globex" /\ p = "/t/" -> "globex"
      [] s = "//t/globex" /\ p = "/" -> "/t/globex"
      [] s \in {"/t/globex", "/t"} /\ p = "/" -> Bare[s]
      [] OTHER -> s

MCTrim(s) == IF s \in DOMAIN Bare THEN Bare[s] ELSE s

MCSplit(s) ==
    CASE s = "t/globex" -> <<"t", "globex">> [] s = "/t/globex" -> <<"", "t", "globex">>
      [] s = "globex" -> <<"globex">> [] s = "t" -> <<"t">> [] OTHER -> <<"api">>

MCClaim(token) == IF token = "jwt-acme" THEN "acme" ELSE ""

MCIsTenantID(s) == s \in {"acme", "ACME", "globex"}

NoHost == [own |-> FALSE, labels |-> <<>>]

Sub(name) == [own |-> TRUE, labels |-> <<name>>]

Base == [header |-> "", host |-> NoHost, path |-> "/api", route |-> "/api", param |-> "", query |-> "",
         token |-> "", addr |-> "a1", client |-> ""]

MCRequests == {
    \* Padded in the header: only http-stdlib accepts it.
    [Base EXCEPT !.header = " acme", !.client = "acme"],
    \* A blank header: http-stdlib goes on to the host, the others reject.
    [Base EXCEPT !.header = " ", !.host = Sub("ACME"), !.client = "acme"],
    [Base EXCEPT !.host = Sub("ACME"), !.client = "acme"],
    \* Header and host disagree, and the header is first.
    [Base EXCEPT !.header = "globex", !.host = Sub("acme"), !.client = "globex"],
    \* An invalid name first and a valid one behind it.
    [Base EXCEPT !.header = "a b", !.host = Sub("acme")],
    [Base EXCEPT !.path = "/t/globex", !.route = "/t/:tenantID", !.param = "globex", !.client = "globex"],
    \* A second slash in front: no prefix for http-stdlib and http-chi, trimmed by http-gin.
    [Base EXCEPT !.path = "//t/globex", !.route = "", !.client = "globex"],
    \* In the query only, which http-stdlib does not read.
    [Base EXCEPT !.query = "globex", !.client = "globex"],
    \* A token that only http-stdlib reads, one without the claim, and a path
    \* without the segment.
    [Base EXCEPT !.token = "jwt-acme", !.client = "acme"],
    [Base EXCEPT !.path = "/t", !.route = "/t", !.token = "jwt"],
    \* A skipped path, with and without a remote address, and served by a
    \* route of another name, so that http-echo does not skip it; one that
    \* only http-chi skips; one that the limiter skips.
    [Base EXCEPT !.path = "/health", !.route = "/health"],
    [Base EXCEPT !.path = "/health", !.route = "/health", !.addr = ""],
    [Base EXCEPT !.path = "/health", !.route = "/:page", !.header = "acme", !.client = "acme"],
    [Base EXCEPT !.path = "/healthz", !.route = "/healthz", !.header = "acme", !.client = "acme"],
    [Base EXCEPT !.path = "/metrics", !.route = "/metrics", !.header = "globex", !.client = "globex"]}

Symmetry == Permutations(Handlers)

=============================================================================
