# TLA+ models of tenantkit

tenantkit is a Go library for multi-tenant programs. It wraps a database handle
so that every statement is scoped to the tenant of its context, and it has rate
limiters, quota managers, storage adapters and HTTP middleware around that. This
directory has TLA+ modules for its stateful parts, TLC configurations that check
them on small instances, and TLAPS proofs of their central invariants.

Run `tlc -workers 2 -config X.cfg M` with a run's configuration and module (both
listed under [Runs](#runs)), and `tlapm M.tla` on a module whose name ends in
`Proofs`.

## Inventory

| Part | State | Operations | What is hard | Module |
|---|---|---|---|---|
| Decision and rewriting (`tenantkit/interceptor.go`, `system_detector.go`, `table_extractor.go`, `context.go`, `wrap.go`) | none | `ShouldFilter`, the `inject...Filter` rewriters | placeholder numbers and argument order differ by style, by statement and between a cache miss and a hit | `TenantRewrite` |
| `DB` and `Tx` (`tenantkit/wrap.go`) | query cache, pool of argument slices | `Query`, `QueryRow`, `Exec`, `Begin`, `ClearQueryCache` | goroutines share cache and pool; a returned slice aliases a pooled array | `TenantDB`, `ScopedDB` |
| Query cache (`tenantkit/query_cache.go`) | entries by hash, hit and miss counters | `Get`, `Put`, `Clear` | `Get` counts after the unlock; eviction at the limit; hash collisions | `QueryCache`, `TenantDB` |
| In-memory limiter (`adapters/limiter-memory`) | per key a window, timestamps or a bucket; time of the last cleanup | `AllowN`, `Remaining`, `Reset` | cleanup of other keys inside a request, boundaries of windows, fractions, int64 | `LimiterMemory`, `TokenBucket` |
| In-memory quotas (`adapters/quota-memory`) | limits by type, usage by tenant and type | `CheckQuota`, `ConsumeQuota`, `ResetQuota`, `BulkResetQuotas`, `SetLimit` | lazy reset of a period, lock released inside a bulk reset, limits copied at first use | `QuotaMemory` |
| `database/sql` storage (`adapters/sql`) | transactions, rows, derived contexts | `Query`, `QueryRow`, `QueryRowWithError`, `Exec`, `Begin`, `Commit`, `Rollback` | deadlines end rows and transactions in goroutines of `database/sql` while the program uses them | `SqlStorage` |
| Redis limiter (`adapters/limiter-redis`) | keys in Redis | `AllowN`, `Remaining`, `Reset` | several instances, a clock reading that is old when the script runs, lost replies, expiry | `LimiterRedis` |
| Redis quotas (`adapters/quota-redis`) | usage and limit keys in Redis | `ConsumeQuota`, `ResetQuota`, `SetLimit` | limit read in one command and used in another, lost replies, expiry, usage and limits of all tenants in one space of keys | `QuotaRedis` |
| HTTP middleware and resolvers (`adapters/http-stdlib`, `http-chi`, `http-gin`, `http-echo`, `http-fiber`) | requests in progress, a limiter they share | resolve a tenant, take a key of the limiter, pass the request on, reject or refuse it | names in several places of a request, in several spellings, read differently by each adapter; fails open when the limiter fails; tenants behind one address | `HttpTenant`, `HttpPipeline` |
| sqlx adapter (`adapters/sqlx`) | the context of a transaction; the argument slices of its callers | `Query...`, `Get`, `Select`, `Exec`, `NamedExec` of `DB` and `Tx`, `BeginTxx`, `WithoutTenant`, `SkipTenant`; methods promoted from sqlx | `append` writes into an array of the caller; a transaction decides by the context of `BeginTxx`, not of the call | `Sqlx` |
| PostgreSQL row-level security (`adapters/postgres`) | the catalog, the setting of each session | `EnableRLS`, `ForceRLS`, `CreateTenantPolicy`, `CreatePartition`, `VerifyTenantIsolation`, `SetTenantContext` | a session keeps the tenant of its last user, a rollback brings an earlier one back, owners are exempt, setup and requests overlap | `RowSecurity` |
| GORM plugin (`adapters/gorm`) | none | callbacks that add a clause | decided by the order of GORM's own callbacks | not modelled |
| Metrics, ports, domain types, configuration, test utilities, examples | counters that nothing reads | | | not modelled |

How they interact: HTTP middleware puts a `domain.Context` in the request;
`GetTenant` of package tenantkit takes the tenant from there or from
`WithTenant`, and `DB` passes each statement through the interceptor, the cache
and the rewriters to `database/sql`. Limiters and quota managers are called by
middleware (`HttpPipeline`) and by programs through `tenantkit/ports`, and share state only with
other callers of the same limiter, or through Redis.

What makes each part correct:

- **DB and Tx**: a statement that reaches the database binds the tenant of its
  own call and every argument where the caller meant it, whatever other calls
  left in the cache and the pool.
- **Query cache**: never over its size; an entry belongs to its statement.
- **Limiters**: no stretch of time admits more than the algorithm allows, nothing
  is refused that fits, and keys do not disturb each other.
- **Quotas**: usage is what was consumed, or in Redis at least that; nothing is charged
  beyond the limit of the tenant; tenants do not disturb each other.
- **HTTP pipeline**: a handler runs as the tenant that sent the request; a request is
  charged to its sender and refused only for what its sender did.
- **sqlx**: a statement binds the tenant of the context that decides and the
  caller's values where they were meant, a transaction works for one tenant, and
  what runs without a condition was asked to.
- **Row-level security**: in a table that was verified a request that has set its
  tenant, and has not had that rolled back, sees and writes its own rows and no others,
  and finds its own.
- **Storage**: `Commit` and `Rollback` tell the truth, deadlines are honoured, and
  connections come back.

## Modules

`TenantRewrite` is operators only. SQL text is abstracted to the kind of
statement, its tables and its bind markers in the order of the text; a user
argument is its own number, so the result of a rewrite is a sequence of markers
and a sequence of values, and `Bind` says what the database makes of them.
`ScopedBinding` is the reference: what a correctly scoped statement binds.
`Covered` says which statements the rewriters scope at all (see
[Deviations](#deviations-observed-while-modelling)).

`QueryCache` has one action for each critical section of `query_cache.go`: `Get`
is `GetLookup` (under the lock) and `GetCount` (the atomic addition after it).
Eviction keeps any half of the entries, because Go's map iteration is unordered.

`TenantDB` composes the two: it extends both, takes its cache steps from the
actions of `QueryCache` (`TransformIsRewrite` ties the cached text to the rewriters
of `TenantRewrite`) and adds the pool, its arrays and a program counter for each goroutine.
The steps of a call are the places where `wrap.go` reads or writes what other
goroutines share. A pooled slice is an array and a length; its values are read
when the statement is executed, so an array that is reused in between changes
them, as in the code. `InUse` keeps a *new* array apart from every array still
referenced; an array of the pool may well be referenced, which is the hazard.

`ScopedDB` is the abstract handle: a call is refused or answered, and the answer
depends on that call alone. `ImplementsScopedDB` maps `call` to `request` and
`last` to `answer`. A refused call gets an error there, which `QueryRow` of the code does
not give (`wrap.go:136`), so the refinement is checked and proved for `Query` and `Exec`.

`LimiterMemory` extends `TokenBucket` by the fixed and the sliding window;
`algorithm` is the choice of `NewLimiterMemory`. It and `QuotaMemory` have one
action for each method, because each holds one mutex throughout; `BulkResetQuotas`
takes it again for each type and is several. Cleanup is part of `AllowN`, as in the
code. Each has one history variable for an algorithm (`admitted`, `debt`, `spent`)
that says what callers were given, which no guard reads except the bound `MaxSpent`.
`admitted` and `spent` (also those of `LimiterRedis` and `QuotaRedis`) are histories of module `History`:
the running total before each tick, so that what was granted in a stretch of time is
the difference of two totals, which the prover can reason about, and not a sum over
its ticks, which it cannot. `GoMap` has the maps of Go and the keys of Redis: functions
on the keys present. The timestamps of a sliding window are a set of pairs, a tick and
the place of the request in the slice at that time, because the code only counts them
and drops the old ones. A token is `Token` units, so that the code's `float64` amounts
are exact integers.

`HttpTenant` is operators only: the resolvers of the five HTTP adapters, their
chains, `NewTenantID` and the five tenant middlewares. A string of a request is an
element of a small set with its own `TrimSpace`, `Trim`, `Split`, `ToLower` and validity; `""` is both
an absent value and a resolver's error, because none succeeds with an empty name.
A chain is the least position whose resolver names a tenant (`Found`, `FirstResolved`).
`HttpPipeline` sends requests through it, with `http-stdlib` and `http-chi` through
the rate limit middleware, and to a handler, on several goroutines that share a
limiter: it extends `LimiterMemory` and its `Allow` is `AllowN(key, 1)` there. With
gin, echo and fiber the handler follows at once, because the rate limit middleware
is for `net/http`. `Remaining`, called again for the headers, only reads and is left
out. Each request carries its `client`, the tenant that really sent it, which only
the history `charged` and the properties read.

`SqlStorage` keeps for each transaction its state in the database, whether its
context is done, the channel `done` and what its last end reported, and for the
open rows which context and transaction they belong to. `package database/sql` is
external: `CloseRows` and `AwaitDone` are its goroutines.

`LimiterRedis` and `QuotaRedis` split a call where other instances come between:
reading of clock or limit, then the script. `LoseReply` runs the script and loses
the reply, after which go-redis sends it again (`RunScript`) or the call fails
(`Fail`). Redis is external: `Alive` is its expiry, and `EXPIRE` with 0 deletes.
In `LimiterRedis` the history `clashed` has the keys of which two sliding-window calls have
read the same millisecond: `LimitHolds` says nothing of them from then on, and nothing
depends on `clashed` but the history `admitted`. In `QuotaRedis` usage and limits are in one map
from keys, and a key is the sequence of words between its colons, so that the keys of
two tenants are equal exactly when the code's strings are. Each call carries the history
`bound`, the limits that it may be held to: the one its tenant had at the reading and, if
the reading failed, the default. `carried` has the limits of the calls that were told yes.

`Sqlx` has two steps for a call: `Enforce` decides, rewrites and builds the arguments,
and `Execute` is `database/sql` reading them once it has a connection. A statement
is reduced to the number of its `?` before and after the place of the tenant. A
slice is a part of a caller's array or an array of its own, so `append` into an
array with room changes what another call has passed, as in Go. All statements and
arrays are in the model; `BoundAsMeant` says when the result is right: the tenant, if the
statement is `Covered` and no other goroutine appends at the same cell (`TenantOwn`), and
every value, if also no call appends into the slice (`Undisturbed`), as with
`f(ctx, q, a, b)`. The history `touched` follows the same conditions. `PromotedCall` is a
method of the embedded `*sqlx.DB` or `*sqlx.Tx`, which sends what it is given.
`SurplusIgnored` says whether the driver ignores an argument without a marker.

`RowSecurity` has the setup of tables by any manager and the requests that share a
pool of connections, each connection with a manager of its own, in the discipline
that the adapter's README asks for: the tenant is set at the start of each request or
transaction and a failed `SetTenantContext` is not ignored. A request whose transaction is
rolled back goes on, because nothing tells it that its setting went with the transaction:
`ready` is what the program knows, `undone` what became of the setting. PostgreSQL is external:
`Applies`, `TenantPolicy` and `Allowed` are its row security, `SetConfig` and
`Rollback` its session settings. `ConnectionLost` is a context that ends during a
call, after which pgx closes the connection. `touched` counts rows of tables that
`VerifyTenantIsolation` has said `true` of, each with `undone` at that time.

The `MC` modules hold the statements, contexts and functions that a configuration
cannot write. Operators named `Mutant...` are faulty variants of the definition
that follows them, and no specification uses them; substituted for it, each makes
one property fail, so they document what the properties can tell apart.

## Runs

| Run | Module | Question and answer |
|---|---|---|
| `TenantDBQuestion` | `MCTenantDB` | One goroutine, `?` markers, nine statements, four contexts, `Query` and `Exec`: does every call get the answer of `ScopedDB`, and always one? Yes. (`QueryRow` does not report its error, see the deviations.) |
| `TenantDBShared` | `MCTenantDB` | Two goroutines, `$N` markers: is a pooled array lent to one rewriter at a time, does the cache stay bounded and coherent through evictions and clears, and are calls with a slice of their own scoped? Yes. |
| `TenantDBAlias` | `MCTenantDB` | Two goroutines: is *every* call scoped? **No**: finding 1. |
| `TenantDBCachedInsert` | `MCTenantDB` | Is a cached `INSERT` with `$N` scoped? **No**: finding 2. |
| `LimiterMemory` | same | With each algorithm: is what a key can take from its bucket the burst size less its debt; does the limit hold in every sliding window, and twice the limit in any fixed window's time; is what remains exact, so that nothing is refused that fits; are keys independent? Yes, while an idle bucket is full, and a window over, before cleanup may drop them. |
| `HttpPipeline` | `MCHttpPipeline` | Two tenants behind one address name themselves in header, host, path, query or token: does each run as itself, is it charged for its own requests and refused only for them, and does failing open never serve a tenant for free? Yes, with each of the five adapters and either window algorithm. |
| `QuotaMemory` | `MCQuotaMemory` | Is usage exact, does the limit hold in every period, can a check be acted on, are tenants independent? Yes. |
| `SqlStorage` | `MCSqlStorage` | With deadlines that race with the program: are reports true, own deadlines honoured, connections released? Yes. |
| `LimiterRedis` | same | Do the three scripts limit what callers are told, with late scripts and lost replies? Yes, with the lateness in the bounds, and for a sliding window as long as no two calls of its key have read the same millisecond. |
| `QuotaRedis` | `MCQuotaRedis` | Is nothing that a caller consumed forgotten; does no script charge beyond the limit that the tenant had when its call read it; are callers told of at most twice the limit of one of their calls in a period's time; are tenants independent, one of them named `limit`? Yes, with one exception, a call whose reading of the limit failed: it is held to the default. The types of quota have no colon. |
| `RowSecurity` | `MCRowSecurity` | Do requests of two tenants on shared sessions, one of the tables' owner, use only their own rows in verified tables, and always find their own, whatever the session was left with and however setup, rollbacks and failures fall between? Yes, except after a rollback of the transaction in which a request set its tenant. |
| `Sqlx` | `MCSqlx` | Do statements bind what they mean while other calls append to shared arrays, does a transaction stay with one tenant, and is everything unscoped asked for? Yes, under `Covered`, `TenantOwn` and `Undisturbed` for the first two; for the third, with a driver that refuses a surplus argument and for the methods that the adapter defines: a method promoted from sqlx runs unscoped without being asked. |

Bounds. Two of everything that can interfere (goroutines, keys, tenants, calls in
flight, transactions), because each hazard listed for this code is between two.
`SliceCap` is 2, so that some statements fit a pooled slice and others outgrow it;
`MaxSize` is 2, so that evictions happen; `CounterMod` is 1, because nothing depends
on the counters (the proofs have any modulus). In the runs of
the limiters limits are 2 and amounts 1 and 2, so that requests fit, fill the limit
exactly and overshoot. In `QuotaMemory` the amount is 2 and limits are 2 and 1: one request
fills the first and overshoots the second. In `QuotaRedis` the amount is 1 and limits are 2, the
default, and 1, the tenant's own. Times reach past two windows or periods, and for `LimiterRedis` past
the expiry of its keys; for `QuotaMemory` and `QuotaRedis` one expiry is inside
the bound. `MaxDelay` is 1 tick, half a second of the model, which is enough for a
late script to carry the second before. `IntMax` is 7 (10 for `QuotaMemory`) and the
additions wrap there; no amount of the runs comes near it, as no program's should
(see the deviations). `MaxSpent` and `MaxWrites` only bound counters: in `QuotaMemory`
what a pair consumes without being reset, in `QuotaRedis` what it consumes at a tick.
In `LimiterMemory` a token is 3 units and a tick brings 2, so that refills are
fractions of a token; cleanup may drop a window after 2 ticks and a bucket after 3,
the smallest ages that satisfy the conditions above.
`HttpPipeline` has a limit of 1 in a window of 1 tick, so that the second request of a
tenant is refused and a later one is not, and three keys: two tenants and the address
that they share. Its fifteen requests reach every resolver and every early return.
`RowSecurity` has two tables, one of them partitioned, two connections, one of the
owner, and two requests, so that a session passes between tenants in either order.
`Sqlx` has a batch of four values inserted two at a time, a list with room that two
goroutines pass, lists of exactly the arguments, and a `LIMIT ?` that is not `Covered`.
Symmetry is used for goroutines, arrays, tenants, requests and clients in runs
without liveness.

Fairness. `TenantDB` assumes that a goroutine inside a call keeps running
(`WF_vars(Step(g))`): nothing on that path waits for another goroutine except for
mutexes held for a bounded time. `SqlStorage` assumes that deadlines pass and that
the goroutines of `database/sql` act on a context that is done; nothing is assumed
of the program, which may forget its transaction or rows. The other properties
are safety properties and need none.

Deadlock is checked in every run; no model stops.

## Findings

1. `TenantDBAlias`: `injectSelectFilter`, `injectUpdateFilter` and
   `injectDeleteFilter` return a slice of a pooled array and give the array back
   by `defer putArgsSlice` (`wrap.go:424`). A second goroutine that takes it
   overwrites the arguments before `database/sql` has read them: a statement of
   one tenant runs with the identifier of the other.
2. `TenantDBCachedInsert`: with `$N` an `INSERT` gets its tenant as `$1`, but on a
   cache hit the tenant is appended after the arguments (`wrap.go:322`), so the
   first argument is bound as the tenant.

## Proofs

TLAPS proves, for every value of the constants that satisfies the assumptions of
the module: any number of goroutines, keys, tenants, statements, requests and
connections, any limits, windows, amounts and lengths of time. `H => (Spec => []P)` is
written with its hypothesis `H` in the middle column; the hypotheses are explained below.
Together with the action properties the theorems state 38 of the 40 properties of the
passing runs.

| Theorem | Hypotheses | Statement |
|---|---|---|
| `TenantDBProofs!RewriteBindsScoped` | `Covered`, `?` or `$N` | a rewritten statement with the arguments of a miss, and of a hit if `HitsAsMissed`, binds `ScopedBinding` |
| `!CacheTypeAlways`, `!CacheBoundedAlways`, `!CacheCoherentAlways` | | `CacheSpec => []CacheTypeOK`, `[]CacheBounded`, `[]CacheCoherent` |
| `!HandleUsesCache`, `!HandleCacheBounded` | | `Spec => CacheSpec`, and so `Spec => []CacheBounded` |
| `!HeldExclusivelyAlways`, `!TypeAlways` | | `Spec => []HeldExclusively`, `[]TypeOK` |
| `!OwnSliceScopedAlways` | `Faithful` | `Spec => []OwnSliceScoped` |
| `!ScopedToTenantAlways` | `Faithful`, `Alone` | `Spec => []ScopedToTenant` |
| `!HandleIsScoped` | `Faithful`, `Alone`, `ErrorsReported`, every statement `Covered` | `Spec => Abstract!Spec`: `TenantDB` implements `ScopedDB` |
| `HttpPipelineProofs!BucketExactAlways`, `!RateBoundedAlways` | `IdleKeysAreFull` | `LimiterSpec => []BucketExact`, `[]RateBounded` |
| `!LimiterTypeAlways`, `!WindowLimitAlways` | `NoWrap`, `WindowsOutlived` | `LimiterSpec => []LimiterTypeOK`, `[]WindowLimitHolds` |
| `!RemainingExactAlways`, `!KeysIndependentAlways` | those two, `IdleKeysAreFull` | `LimiterSpec => []RemainingExact`, `LimiterSpec => KeysIndependent` |
| `!HandlerHasItsTenantAlways` | `NamedByChain` | `Spec => []HandlerHasItsTenant` |
| `!PipelineUsesLimiter` | `NamedByChain`, `KnownKeys` | `Spec => LimiterSpec`: the pipeline implements the limiter's specification |
| `!ChargedToOwnerAlways` | `NamedByChain`, `Windowed` | `Spec => []ChargedToOwner` |
| `!RefusedOnlyWhenUsedAlways` | those two, `KnownKeys`, `NoWrap`, `WindowsOutlived` | `Spec => RefusedOnlyWhenUsed` |
| `!NoTenantUnchargedAlways` | `NamedByChain`, `NoBlankNames`, `KnownKeys` | `Spec => NoTenantUncharged` |
| `QuotaMemoryProofs!TypeAlways`, `!UsageExactAlways`, `!PeriodLimitAlways`, `!AtMostTwiceAlways`, `!CheckIsSafeAlways` | `BelowInt64` | `Spec => []P` for the five invariants of the run |
| `!TenantsIndependentAlways` | | `Spec => TenantsIndependent` |
| `QuotaRedisProofs!NeverUnderchargedAlways`, `!ChargedWithinLimitAlways`, `!PairsIndependentAlways` | `KeysApart` | `Spec => []NeverUndercharged`, `Spec => ChargedWithinLimit`, `Spec => PairsIndependent` |
| `!AtMostTwiceAlways` | `KeysApart`, `WholeSeconds` | `Spec => []AtMostTwicePerPeriod` |
| `!KeysApartUnlessNamedLimit` | no tenant named `limit`, or no type of several words | `KeysApart` |
| `LimiterRedisProofs!LimiterInvAlways`, `!LimitHoldsAlways`, `!RemainingExactAlways` | `WholeSeconds` | `Spec => []LimiterInv`, `[]LimitHolds`, `[]RemainingExact` |
| `SqlStorageProofs!TypeAlways`, `!EndReportedAlways`, `!RowsHonourDeadlineAlways` | | `Spec => []P` for the three invariants of the run |
| `!EndedStaysEndedAlways`, `!CommitHonoursDeadlineAlways` | | `Spec => EndedStaysEnded`, `CommitHonoursDeadline` |
| `RowSecurityProofs!OnlyOwnRowsAlways`, `!TenantInForceAlways` | | `Spec => []OnlyOwnRows`, `[]TenantInForce` |
| `SqlxProofs!BoundAsMeantAlways`, `!TxOneTenantAlways` | | `Spec => []BoundAsMeant`, `[]TxOneTenant`; the conditions are in the properties |
| `!UnscopedOnRequestAlways` | `~SurplusIgnored` | `Spec => []UnscopedOnRequest` |

Hypotheses. A condition that the code does not ensure is a hypothesis of the theorems
that need it, or a condition inside the property, and no assumption of a module: the
`ASSUME`s of the modules only say what kind of thing a constant is, ranges that the
constructors and methods check, and that a call passes as many arguments as its text has
markers. The instances of the runs satisfy the hypotheses of the properties they check.
What happens without one is a finding or in the list of deviations.

- `Faithful`: the style is `?` or `$N` (`:N` numbers wrongly); no two statements have one
  hash, because `Get` compares hashes only; no `INSERT` with `$N` is cached whose tenant
  goes to `$1` (finding 2).
- `Alone`: one goroutine uses the handle (finding 1). `OwnSliceScopedAlways` does not need
  it: a call whose arguments are not in a pooled array is safe among any others.
- `IdleKeysAreFull`, `WindowsOutlived`: a bucket fills, and a window ends, before cleanup
  may drop it. `NoWrap`: a limit and an amount add up to an int64.
- `BelowInt64`: what a pair consumes between two resets and one more amount are an int64.
- `WholeSeconds`: the period of a quota, or the window of the Redis limiter, is a whole
  number of seconds, so that nothing is truncated.
- `KeysApart`: no usage key in Redis is also a limit key. `KeysApartUnlessNamedLimit` says when
  that is so.
- `ErrorsReported`: `QueryRow` is not called, whose error is lost (`wrap.go:136`).
- `~SurplusIgnored`: the driver refuses an argument without a marker, as those of PostgreSQL
  and MySQL do and `mattn/go-sqlite3` does not.
- `NamedByChain`: the first place in the chain that names a tenant names the sender, or no
  valid tenant. Resolvers believe a request, so whatever lets requests in has to see to it.
  `NoBlankNames`: a tenant identifier is not blank. `KnownKeys`: the limiter is specified
  for the keys that the middleware asks for. `Windowed`: the limiter is one of the window
  algorithms, of which `admitted` is the history.

Arguments, by module:

- **Rewriting.** `RewriteBindsScoped` is the functional correctness of the rewriters and of
  the arguments of a hit, for any number of tables and markers. Highest marker numbers
  and positions of markers are maxima of finite sets of naturals; that such a maximum
  exists (`HighestExists`) comes from the well-foundedness of the strict subset order on
  finite sets, which is in the library, and needs no induction of one's own. The rest
  compares sequences position by position.
- **Cache.** `CacheBounded` is about a cardinality, so the inductive invariant adds that
  the entries are finite. `Put` evicts before it inserts, and `SurvivorsLeaveRoom` shows
  that fewer than `MaxSize` entries survive; that needs `MaxSize > 0`. `CacheCoherent` is
  inductive as it stands. The hash is any function, so these theorems cover collisions,
  which no run has.
- **Handle.** `HeldExclusively` needs that `ReturnSlice` gives back an array that the
  goroutine really holds: `PoolInv` adds that a goroutine at "append" holds one. `DBInv`
  says, for each goroutine and place of its call, that the text is the rewritten one and
  that the values so far with the segments still to append are the arguments of that
  text (`Prepared`); for a pooled array only while the goroutine holds it, or if it is
  `Alone`, which is exactly where the code is wrong otherwise. What a hit relies on is that
  an entry in the cache is the rewritten form of a statement that can be cached
  (`CacheInv`). One frame lemma (`FrameKeeps`) covers the goroutines that do not move.
  `HandleIsScoped` is step simulation with the mapping of `ImplementsScopedDB`: `Call`
  and `Execute` are the abstract steps, the steps in between are stutters.
- **Token bucket.** `BucketExact` with the types is inductive, and `RateBounded` follows
  because a bucket is never negative. `CleanupKeepsAvailable` shows that dropping a bucket
  changes nothing when `IdleKeysAreFull`. The rest is the arithmetic of a capped refill
  split at any tick.
- **Windows.** `WindowLimitHolds` says nothing of what is stored. `LimiterInv` adds, for a
  key with a fixed window, that the count is what was granted since its start, that the
  window before it was within the limit, and nothing was granted since its last use; for a
  sliding window, that the stored timestamps newer than any age are as many as were
  granted since (`TimestampsInv`); and for keys without an entry, that nothing counts any more.
  Cleanup inside a request of some key is what `DroppedWindow` and `DroppedRequests` are for.
- **Pipeline.** `PipelineInv` says that a request past the tenant middleware carries the
  tenant of its sender, or none on a skipped path, for each of the five adapters;
  `FirstResolvedIs` is what a chain computes. `ChargedInv` ties `charged` to the history of
  the limiter. With `PipelineUsesLimiter` the limiter's invariant holds of the pipeline, and
  a refusal is traced to what the owner of the key was granted (`RefusedIsUsedUp`).
- **Quotas in memory.** `used` alone is not inductive: an elapsed period is replaced at the
  next request only. `UsageInv` adds that nothing was consumed since it elapsed and that the
  period before it was within a limit, for a stretch that straddles the two.
- **Quotas in Redis.** Usage in Redis bounds what callers were told only while its key
  lives: `UsageInv` speaks of the period of the key and of the one before, `NoUsageInv` of a pair
  whose key has expired, and `CallInv` of the limit that a script in flight carries. All keys
  are in one map, so each step needs that it writes the key of no other pair, nor of a limit
  where it means usage: keys of the same kind differ because a tenant is one word, and those
  of the two kinds by `KeysApart`.
- **Limiter in Redis.** What Redis holds is dated by the clocks of the callers, and the limit
  is about the time at which they were told; `LimiterInv` relates the two for each key.
  For a *fixed window* it counts at least what was granted since the window began, and the
  window before was within the limit; lost replies only make the count larger. For a *token
  bucket* (`BucketInv`) what was granted since any tick is at most what is missing from the
  bucket, plus the refill up to the second of its last grant, plus lateness: a late script
  that finds its bucket expired begins a full one dated back, and since a bucket expires a
  window after its last grant, that can happen only once in each window (`LateRefill`).
  For a *sliding window* (`MembersInv`) the members newer than a time `c - MaxDelay`, without
  those of calls still in progress, are at least what was granted since `c`: members of a
  call in progress come from a lost reply and stand for no grant until the call returns.
  `ExpiryInv` says that a set outlives the grants of its members. `LimiterInv` was checked
  by TLC on the instance of the run before it was proved.
- **Storage.** `TxOK` is about one transaction: `done` and the report go together, what was
  reported is true, and a context with its own deadline is done only when that has
  passed. `CursorInv` ties rows to a transaction that has begun.
- **Row security.** `SettingIsOwn` is what makes `OnlyOwnRows` inductive: the session of a
  request that is ready and not `undone` has its tenant, and the setting that a rollback would
  bring back is its own as well if it was in force before `Begin`; `OneUser` keeps sessions
  apart.
- **sqlx.** `CurInv` lists the forms in which a call can hand a statement over: as the
  caller wrote it, without rows, with the tenant in a copy, with the tenant appended in
  place, or not acceptable. `MemInv`: a cell holds what the caller put there unless some call
  appends there, so a slice that is `Undisturbed` keeps its values. A tenant appended in place
  stays until it is read, because a goroutine has one call at a time and no other goroutine
  writes that cell (`TenantOwn`).

Only model-checked:

- liveness: `ConnectionsReleased`, and the part of `ImplementsScopedDB` that every call is
  answered. The prover does not handle fairness. The safety part is `HandleIsScoped`.

## Deviations observed while modelling

Differences between the code and what its comments and documents lead a reader to
expect, met while the modules were written. Where a property of a passing run depends on one, the
condition that keeps it true is named here.

tenantkit (`src/tenantkit`):

- `wrap.go:457`: with `?`, tenant arguments come first, but a `?` before `WHERE` in
  a `SELECT` comes before the tenant markers. Excluded by `Covered`.
- `wrap.go:331`, `wrap.go:534`: a table list without aliases, a tenant table only in
  a subquery, and statements that begin with `WITH` or another keyword are judged
  tenant-scoped and then run without a condition. Excluded by `Covered`.
- `wrap.go:136`: a failed `QueryRow` returns `&sql.Row{}`, which carries no error,
  while the comments at `wrap.go:136` and `wrap.go:144` say "Return a row that will error on
  Scan". `Failure` follows the code and `ScopedDB` the comment; the two differ for every refused
  `QueryRow`, which `ErrorsReported` excludes from the refinement.
- `wrap.go:194`: "Begin starts a new tenant-scoped transaction", but the
  transaction keeps no tenant; each statement takes that of its own context.
- `wrap.go:378`: `countPlaceholders` is 0 for `:N`, so tenant markers take numbers
  that are in use. No run has this style.
- `query_cache.go:19` says LRU; eviction is in the order of map iteration.
- `query_cache.go:51`: `Get` compares hashes only.
- `interceptor.go:74`: the default `TenantColumn` reaches the interceptor's copy of
  the configuration only.

In-memory limiter and quotas (`src/adapters`):

- `limiter-memory/fixed_window.go:153`, `sliding_window.go:161`,
  `token_bucket.go:153`: cleanup forgets a key idle for a day (an hour for the
  bucket), even when its window is longer or its bucket not full.
- `limiter-memory/fixed_window.go:106`, `quota-memory/quota_manager.go:140`: int64
  additions wrap for amounts near the largest int64.
- `limiter-memory/limiter-memory.go:74`: a rate below 0.5 with no burst size gives a
  bucket that never holds a token.
- `quota-memory/quota_manager.go:92`: `CheckQuota` does not see that a period has
  elapsed; `CheckIsSafe` allows for it.
- `quota-memory/quota_manager.go:187`: `SetLimit` also changes the limit of every
  tenant that has not used the quota; `TenantsIndependent` allows for it.

HTTP (`src/adapters`):

- `http-stdlib/resolver.go:75` rejects nested subdomains; `http-chi/resolver.go:73` (and
  gin, echo and fiber) take `api.acme` as a tenant of its own. The requests of the run
  have one label. Without a base domain the resolvers of chi, gin, echo and fiber take
  the first label of any host.
- `http-chi/middleware.go:72` skips paths by prefix, so `/healthz` is skipped with
  `/health`; the other adapters compare whole paths, and `http-echo/middleware.go:70`
  the pattern of the route instead of the path. `Skips` follows each.
- The path resolvers of gin, echo and fiber take a segment by its number, whatever
  precedes it.
- `http-gin/middleware.go:79`: the handler chain stops only if `ErrorHandler` aborts; one
  of the program's own that does not abort lets the handler run without a tenant.
- fiber's strings are parts of buffers that fasthttp uses again: a tenant that a program
  keeps after the response may change under it. The requests of the run end before.
- `http-chi/resolver.go:24` does not trim the header as `http-stdlib/resolver.go:108`
  does: a padded name is rejected, and a blank header ends the chain.
- `http-stdlib/middleware_ratelimit.go:59`: without a tenant the key is `RemoteAddr`,
  which contains the port, so each connection has a limit of its own. `addr` stands
  for the whole of it. Tenant identifiers cannot contain a colon, so the two kinds of
  key stay apart.
- `http-stdlib/middleware_ratelimit.go:98`: an error of the limiter lets the request
  through. `NoTenantUncharged` shows that with the in-memory limiter it is never a
  request of a tenant; with Redis it is whenever Redis is down.

Storage (`src/adapters/sql`):

- `storage.go:201`, `storage.go:320`: without a deadline of the caller, the derived
  context is cancelled when the call returns, so rows and transactions are ended
  at once. `RowsHonourDeadline` and `CommitHonoursDeadline` are about callers
  that bring a deadline.
- `transaction.go:157`, `transaction.go:168`: `Commit` and then `Rollback` closes
  `done` twice and panics.
- `transaction.go:172`: `Done` stays open when the context rolls the transaction back.
- `enforcer.go:77`: `INSERT` passes without a tenant.
- `storage.go:271`: a refused `QueryRow` looks like `sql.ErrNoRows`.

sqlx (`src/adapters/sqlx`):

- `adapter.go:157`, `transaction.go:87`: without `WHERE` the tenant goes behind all
  arguments, but its marker before `LIMIT ?`, so the two are swapped; `README.md:277`
  lists `LIMIT` as handled. In the model; `BoundAsMeant` asks for `Covered`.
- `adapter.go:271`, `transaction.go:254`: the tenant of an `INSERT` is the last
  argument and its marker the last of the first `VALUES (...)`. Markers behind it (more
  rows, `ON CONFLICT`) get each other's values. `BoundAsMeant` asks for `Covered`.
- The same `append` writes into the caller's array when it has room: inserting a batch
  in slices replaces a value of the next slice by the tenant, and two goroutines that
  pass one list can exchange tenants. Both are in the run; `BoundAsMeant` asks for
  `Undisturbed` and `TenantOwn`.
- `adapter.go:266`: an `INSERT` that cannot be rewritten is sent as it is with the tenant as one
  argument too many. PostgreSQL and MySQL refuse that; `mattn/go-sqlite3`, which `README.md:354`
  lists, ignores it, so the row is written without a tenant. `UnscopedOnRequest` is for
  drivers that refuse (`SurplusIgnored` is false).
- `adapter.go:147`: the condition is put before the caller's without parentheses, so in
  `WHERE a OR b` it holds for `a` only. Boolean structure is not modelled.
- `adapter.go:117`: a table is skipped when its name occurs anywhere in the text.
- `adapter.go:372` says that `WithoutTenant` "skips tenant enforcement"; it skips
  statements whose text contains `*`. `ShouldSkip` follows the code.
- `adapter.go:212`: `QueryRowxContext` without a tenant looks like `sql.ErrNoRows`.
- An `INSERT ... RETURNING` through a query method gets a `WHERE` at its end, which the
  database refuses (`Accepted`).
- `NamedExecContext` only asks that there be a tenant.
- `adapter.go:24`, `transaction.go:15`: the methods that the embedded `*sqlx.DB` and `*sqlx.Tx`
  promote (`Select`, `Get`, `Exec`, `QueryRowContext`, ...) enforce nothing, while `README.md:225`
  says of `db.Select` "no context, will fail". `PromotedCall` follows the code, and
  `UnscopedOnRequest` names these methods as an exception.

Row-level security (`src/adapters/postgres`):

- `README.md:214`, `README.md:234`: the example shares one connection between handlers
  and ignores the error of `SetTenantContext`, so that a request may run as the tenant
  before it. The requests of the model do neither.
- `README.md:110`, `README.md:126`, `README.md:163` name `TestPolicy`, `DisableRLS` and the
  setting `app.tenant_id`; the code has neither function and uses
  `app.current_tenant_id`.
- `rls.go:122`: `VerifyTenantIsolation` reads `relrowsecurity` only: it says nothing of the
  owner's exemption (`Protected` asks for `ForceRLS` there) and `true` also of a table
  without a policy, which shows no rows at all.
- `rls.go:110`: an existing partition is reported as 42P07, not as the 42710 that the code
  passes over.
- `rls.go:89`: the setting is of the session, but a rollback takes it back with its
  transaction. A request that begins, sets its tenant, rolls back and goes on then runs as
  the tenant of before or as none, although `README.md:86` says that "all queries in this
  session are automatically scoped". `Rollback` and `undone` follow PostgreSQL; `OnlyOwnRows` and
  `TenantInForce` except the request from there to its next `SetTenantContext`.
- Partitions that are named in a statement themselves are tables without row security.

Redis (`src/adapters`):

- `limiter-redis/limiter-redis.go:273`, `quota-redis/quota_manager.go:195`: a window
  or TTL below one second becomes 0 and nothing is limited. The runs have whole
  seconds.
- `limiter-redis/limiter-redis.go:117`: two calls of a key in one millisecond add the
  same members and count once, so a sliding window admits more than its limit. Such calls are
  in the run; `LimitHolds` says nothing of a key once it has `clashed`.
- `limiter-redis/limiter-redis.go:305`: `Remaining` of the token bucket is not
  refilled; `RemainingExact` asks only that it never says too much.
- `limiter-redis/limiter-redis.go:277`: a late token-bucket script gains its lateness;
  the bound of `LimitHolds` contains it.
- `quota-redis/quota_manager.go:189`: a limit set between the reading and the script is
  not seen; `ChargedWithinLimit` is about the limit at the reading.
- `quota-redis/quota_manager.go:291`: a failed reading of a tenant's limit counts as no
  limit of its own, although line 286 gives that limit priority over the default.
  `ChargedWithinLimit` lets such a call, and no other, use the default.
- `quota-redis/quota_manager.go:318`, `quota_manager.go:323`: usage and limit keys share the
  prefix `quota:`. A tenant named `limit`, which `domain/tenant_id.go:36` allows, has with the
  type `acme:daily` the usage key `quota:limit:acme:daily`, which is the limit key of `acme` and
  `daily`: what the one consumes is the limit of the other. The run has that tenant and
  types without a colon; the proofs ask for `KeysApart`.
- `quota-redis/quota_manager.go:326`: the comment on `getTenantIDFromContext` speaks of
  `WithTenant`; the code reads the domain context only.

## Not modelled

- The text of rewritten SQL, names of columns, quoting, string literals and the
  Boolean structure of conditions; what the rewriters of tenantkit bind in statements outside
  `Covered`; the `:N` style (`wrap.go:378`).
- Hash collisions in the runs; the proofs of the cache have any hash.
- The pool of string builders, which keeps no state between calls.
- Operations that only read: `Stats`, `Health`, `GetUsage`, `GetAllQuotas`, and `CheckQuota`
  of the Redis quotas; configuration builders; the headers of HTTP responses.
- Clock skew between instances beyond `MaxDelay`.
- The static resolvers, subdomains without a base domain and the context helpers of the
  HTTP adapters.
- The GORM plugin: its callbacks add one clause to a statement, and whether that clause
  is in force is decided by the order of GORM's callbacks and its merging of clauses,
  which are not in the repository.
- Metrics: counters that no code of the repository reads. Ports, fixtures and examples
  have no behaviour of their own.

## Plan

Done, in this order: `TenantRewrite`, `QueryCache`, `TenantDB` with `ScopedDB`; the
in-memory limiters and quotas; `SqlStorage`; the Redis adapters; the HTTP pipeline with
all five adapters; row-level security; sqlx; proofs of the safety properties of all of
them, the Redis limiter last.

Nothing that the prover can do is left of the properties of the runs; the liveness
properties above stay with TLC. Further work would be on the model: the GORM plugin, if
GORM's callbacks were specified, and what statements outside `Covered` bind.
