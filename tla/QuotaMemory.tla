---------------------------- MODULE QuotaMemory ----------------------------
(***************************************************************************)
(* The in-memory quota manager of adapters/quota-memory                    *)
(* (quota_manager.go).  Its methods run under one lock and are one action  *)
(* each, except BulkResetQuotas, which takes the lock anew for every type. *)
(***************************************************************************)
EXTENDS History, GoMap

CONSTANTS
    Tenants,            \* tenant identifiers, "default-tenant" among them
    QuotaTypes,
    Pairs,              \* the pairs <<tenant, type>> that programs use
    DefaultLimits,      \* limits of NewInMemoryQuotaManager, on some of QuotaTypes
    Period,             \* getPeriodForQuotaType: a function on QuotaTypes
    Amounts,            \* amounts consumed; a negative amount is an error
    NewLimits,          \* limits set by SetLimit; limit <= 0 is an error
    IntMax,             \* math.MaxInt64
    MaxSpent,           \* bound: what a pair consumes without being reset
    MaxTime             \* bound: the last tick

ASSUME PairsAssumption == Pairs \subseteq Tenants \X QuotaTypes
ASSUME LimitsAssumption ==
    /\ IntMax \in Nat \ {0}
    /\ DOMAIN DefaultLimits \subseteq QuotaTypes
    /\ \A q \in DOMAIN DefaultLimits : DefaultLimits[q] \in 0..IntMax
    /\ NewLimits \subseteq 1..IntMax
    /\ Amounts \subseteq 0..IntMax
ASSUME PeriodAssumption == Period \in [QuotaTypes -> Nat \ {0}] /\ MaxTime \in Nat /\ MaxSpent \in Nat

VARIABLES
    now,
    limits,     \* InMemoryQuotaManager.limits
    usage,      \* InMemoryQuotaManager.usage, on the pairs <<tenant, type>> present
    bulk,       \* the types that a tenant's BulkResetQuotas has still to reset
    spent       \* history: what each pair consumed before each tick since its last reset

vars == <<now, limits, usage, bulk, spent>>

AddInt64(a, b) == IF a + b > IntMax THEN a + b - 2 * (IntMax + 1) ELSE a + b

TypeOK ==
    /\ now \in 0..MaxTime
    /\ DOMAIN limits \subseteq QuotaTypes
    /\ \A q \in DOMAIN limits : limits[q] \in 0..IntMax
    /\ DOMAIN usage \subseteq Pairs
    /\ \A p \in DOMAIN usage : usage[p] \in [used : 0..IntMax, limit : 0..IntMax, start : 0..now]
    /\ bulk \in [Tenants -> SUBSET QuotaTypes]
    /\ spent \in [Pairs -> Histories(MaxTime)]

Init ==
    /\ now = 0
    /\ limits = DefaultLimits
    /\ usage = NoEntries
    /\ bulk = [t \in Tenants |-> {}]
    /\ spent = [p \in Pairs |-> NoHistory(MaxTime)]

Tick ==
    /\ now < MaxTime
    /\ now' = now + 1
    /\ UNCHANGED <<limits, usage, bulk, spent>>

LimitOf(q) == IF q \in DOMAIN limits THEN limits[q] ELSE IntMax

MutantResetWithinPeriod(p) == now - usage[p].start <= Period[p[2]]

ShouldResetQuota(p) == now - usage[p].start >= Period[p[2]]

(* The usage that ConsumeQuota charges: a new one, or the present one       *)
(* after the reset that is due when its period has elapsed.                *)
MutantStartsAtEnd(p) ==
    IF p \notin DOMAIN usage THEN [used |-> 0, limit |-> LimitOf(p[2]), start |-> now + Period[p[2]]]
    ELSE IF ShouldResetQuota(p) THEN [usage[p] EXCEPT !.used = 0, !.start = now + Period[p[2]]]
    ELSE usage[p]

ChargedUsage(p) ==
    IF p \notin DOMAIN usage THEN [used |-> 0, limit |-> LimitOf(p[2]), start |-> now]
    ELSE IF ShouldResetQuota(p) THEN [usage[p] EXCEPT !.used = 0, !.start = now]
    ELSE usage[p]

MutantFitsIgnoresAmount(u, amount) == u.used <= u.limit

Fits(u, amount) == AddInt64(u.used, amount) <= u.limit

(* The key of the usage map, fmt.Sprintf("%s:%s", tenantID, quotaType).     *)
MutantKeyOfType(t, q) == <<CHOOSE u \in Tenants : TRUE, q>>

Key(t, q) == <<t, q>>

ConsumeQuota(t, q, amount) ==
    LET p == Key(t, q)
        u == ChargedUsage(p)
    IN  /\ spent[p][now + 1] + amount <= MaxSpent
        /\ usage' = Put(usage, p, IF Fits(u, amount) THEN [u EXCEPT !.used = AddInt64(@, amount)] ELSE u)
        /\ spent' = IF Fits(u, amount) THEN [spent EXCEPT ![p] = Granted(@, now, amount)] ELSE spent
        /\ UNCHANGED <<now, limits, bulk>>

(* CheckQuota and GetUsage read the usage as it is, and CheckQuota knows    *)
(* no type without a registered limit.                                     *)
MutantCheckIgnoresUsage(t, q, amount) ==
    IF q \notin DOMAIN limits THEN "error"
    ELSE IF amount <= limits[q] THEN "yes" ELSE "no"

CheckQuota(t, q, amount) ==
    IF q \notin DOMAIN limits THEN "error"
    ELSE IF Key(t, q) \notin DOMAIN usage THEN IF amount <= limits[q] THEN "yes" ELSE "no"
    ELSE IF Fits(usage[Key(t, q)], amount) THEN "yes" ELSE "no"

ConsumeSucceeds(t, q, amount) == Fits(ChargedUsage(Key(t, q)), amount)

(* The reset of one pair: nothing to do when it has no usage.              *)
MutantResetKeepsUsed(p) ==
    IF p \in DOMAIN usage
    THEN /\ usage' = [usage EXCEPT ![p].start = now]
         /\ spent' = [spent EXCEPT ![p] = NoHistory(MaxTime)]
    ELSE UNCHANGED <<usage, spent>>

ResetUsage(p) ==
    IF p \in DOMAIN usage
    THEN /\ usage' = [usage EXCEPT ![p].used = 0, ![p].start = now]
         /\ spent' = [spent EXCEPT ![p] = NoHistory(MaxTime)]
    ELSE UNCHANGED <<usage, spent>>

ResetQuota(t, q) ==
    /\ ResetUsage(Key(t, q))
    /\ UNCHANGED <<now, limits, bulk>>

(* The types are the caller's; one call of ResetQuota for each of them.     *)
BulkResetQuotas(t, types) ==
    /\ bulk[t] = {} /\ types # {}
    /\ bulk' = [bulk EXCEPT ![t] = types]
    /\ UNCHANGED <<now, limits, usage, spent>>

BulkResetStep(t, q) ==
    /\ q \in bulk[t]
    /\ bulk' = [bulk EXCEPT ![t] = @ \ {q}]
    /\ ResetUsage(Key(t, q))
    /\ UNCHANGED <<now, limits>>

SetLimit(t, q, limit) ==
    /\ limits' = Put(limits, q, limit)
    /\ usage' = IF Key(t, q) \in DOMAIN usage THEN [usage EXCEPT ![Key(t, q)].limit = limit] ELSE usage
    /\ UNCHANGED <<now, bulk, spent>>

Next ==
    \/ Tick
    \/ \E p \in Pairs :
          \/ \E amount \in Amounts : ConsumeQuota(p[1], p[2], amount)
          \/ ResetQuota(p[1], p[2])
          \/ BulkResetStep(p[1], p[2])
          \/ \E limit \in NewLimits : SetLimit(p[1], p[2], limit)
    \/ \E t \in Tenants : \E types \in SUBSET {q \in QuotaTypes : <<t, q>> \in Pairs} : BulkResetQuotas(t, types)

Spec == Init /\ [][Next]_vars

-----------------------------------------------------------------------------
SpentIn(p, from, to) == GrantedIn(spent[p], from, to)

(* The limits that a tenant can have for q.                                *)
PossibleLimits(q) == NewLimits \cup {IF q \in DOMAIN DefaultLimits THEN DefaultLimits[q] ELSE IntMax}

(* GetUsage tells the truth: used is what the tenant consumed since the     *)
(* start of its period, refused requests, resets and new limits included.  *)
UsageExact ==
    \A p \in DOMAIN usage : usage[p].used = SpentIn(p, usage[p].start, now)

(* ConsumeQuota "returns an error if quota would be exceeded": no period of *)
(* a tenant sees more consumed than a limit that it could have had.        *)
PeriodLimit ==
    \A p \in DOMAIN usage : \E limit \in PossibleLimits(p[2]) : SpentIn(p, usage[p].start, now) <= limit

(* The period starts with its first request, so a stretch of time as long   *)
(* as a period may straddle two of them, but never more.                   *)
AtMostTwicePerPeriod ==
    \A p \in Pairs : \E limit \in PossibleLimits(p[2]) :
        SpentIn(p, now - Period[p[2]] + 1, now) <= 2 * limit

(* CheckQuota (ports/quotas.go: "returns true if within limits") can be     *)
(* acted on: a ConsumeQuota that nobody overtakes succeeds when it says    *)
(* yes, and it says no wrongly only when the period has elapsed, as it     *)
(* does not apply the reset that is due.                                   *)
CheckIsSafe ==
    \A p \in Pairs, amount \in Amounts :
        /\ CheckQuota(p[1], p[2], amount) = "yes" => ConsumeSucceeds(p[1], p[2], amount)
        /\ (CheckQuota(p[1], p[2], amount) = "no" /\ ConsumeSucceeds(p[1], p[2], amount)) =>
              ShouldResetQuota(Key(p[1], p[2]))

(* What another tenant may consume after the step is what it could before.  *)
Untouched(other) == ChargedUsage(Key(other[1], other[2]))' = ChargedUsage(Key(other[1], other[2]))

(* The calls of one tenant, and the other tenants after them.              *)
OthersUntouched ==
    \A p, other \in Pairs :
        p[1] # other[1] =>
            /\ (\/ \E amount \in Amounts : ConsumeQuota(p[1], p[2], amount)
                \/ ResetQuota(p[1], p[2])
                \/ BulkResetStep(p[1], p[2])) => Untouched(other)
            /\ (/\ \E limit \in NewLimits : SetLimit(p[1], p[2], limit)
                /\ Key(other[1], other[2]) \in DOMAIN usage) => Untouched(other)

(* What one tenant consumes, resets or is limited to never changes what     *)
(* another one may consume; only a tenant that has not used a quota yet    *)
(* takes over the limit that somebody else set for its type.               *)
TenantsIndependent == [][OthersUntouched]_vars

=============================================================================
