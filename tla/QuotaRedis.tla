----------------------------- MODULE QuotaRedis -----------------------------
(***************************************************************************)
(* The Redis quota manager (adapters/quota-redis): service instances that  *)
(* share one Redis.  ConsumeQuota is two commands, the reading of the      *)
(* tenant's limit (resolveLimit) and the script that charges it, and other *)
(* calls come between them.  A reply may be lost after the script ran:     *)
(* go-redis then sends the script again, or ConsumeQuota returns an error. *)
(*                                                                         *)
(* Redis is external: one space of keys, each with a number and a time at  *)
(* which it is gone.  A key is the sequence of the words that its colons   *)
(* separate, behind the common prefix.  A tenant is one word, because      *)
(* identifiers of tenants have no colon; a type of quota may be several.   *)
(***************************************************************************)
EXTENDS History, GoMap, Sequences

CONSTANTS
    Tenants,
    QuotaTypes,     \* sequences of words
    DefaultLimits,  \* Config.Limits, on some of QuotaTypes
    Clients,        \* calls that run at the same time
    Amounts,        \* amounts consumed; a negative amount is an error
    NewLimits,      \* limits set by SetLimit; a negative limit is an error
    ResetTTL,       \* Config.ResetTTL, in ticks
    Second,         \* ticks in a second
    MaxSpent,       \* bound: what a pair consumes between resets
    MaxTime         \* bound: the last tick

ASSUME QuotaAssumption ==
    /\ Tenants \subseteq STRING /\ QuotaTypes \subseteq Seq(STRING)
    /\ DOMAIN DefaultLimits \subseteq QuotaTypes
    /\ \A q \in DOMAIN DefaultLimits : DefaultLimits[q] \in Nat
    /\ Amounts \subseteq Nat /\ NewLimits \subseteq Nat
    /\ ResetTTL \in Nat \ {0} /\ Second \in Nat \ {0}
    /\ MaxSpent \in Nat /\ MaxTime \in Nat

VARIABLES
    now,
    redis,      \* the keys in Redis: value and expireAt
    call,       \* the calls in progress
    spent,      \* history: what callers were told they consumed since the last reset
    carried     \* history: when they were told so, and the limit of their call

vars == <<now, redis, call, spent, carried>>

Pairs == Tenants \X QuotaTypes

NoCall == [tenant |-> "none"]

(* The time to live of a key that does not expire.                         *)
NoExpiry == -1

(* int64(qm.config.ResetTTL.Seconds()), in ticks.                          *)
MutantHalfTTL == ((ResetTTL \div Second) * Second) \div 2

TTL == (ResetTTL \div Second) * Second

(* buildUsageKey and buildLimitKey.                                        *)
BuildUsageKey(t, q) == <<t>> \o q

MutantLimitKeyOfType(t, q) == <<"limit">> \o q

BuildLimitKey(t, q) == <<"limit", t>> \o q

Keys == {BuildUsageKey(p[1], p[2]) : p \in Pairs} \cup {BuildLimitKey(p[1], p[2]) : p \in Pairs}

Calls ==
    [tenant : Tenants, type : QuotaTypes, amount : Amounts, limit : Nat, bound : SUBSET Nat]

TypeOK ==
    /\ now \in 0..MaxTime
    /\ DOMAIN redis \subseteq Keys
    /\ \A k \in DOMAIN redis :
          redis[k] \in [val : Nat, expireAt : {NoExpiry} \cup (now + 1)..(now + TTL)]
    /\ call \in [Clients -> {NoCall} \cup Calls]
    /\ spent \in [Pairs -> Histories(MaxTime)]
    /\ carried \in [Pairs -> SUBSET ((0..MaxTime) \X Nat)]

Init ==
    /\ now = 0
    /\ redis = NoEntries
    /\ call = [c \in Clients |-> NoCall]
    /\ spent = [p \in Pairs |-> NoHistory(MaxTime)]
    /\ carried = [p \in Pairs |-> {}]

Alive(keys, t) ==
    [k \in {j \in DOMAIN keys : keys[j].expireAt = NoExpiry \/ keys[j].expireAt > t} |-> keys[k]]

Tick ==
    /\ now < MaxTime
    /\ now' = now + 1
    /\ redis' = Alive(redis, now + 1)
    /\ UNCHANGED <<call, spent, carried>>

(* The configured limit of a type, if it has one.                          *)
Configured(q) == {DefaultLimits[r] : r \in {q} \cap DOMAIN DefaultLimits}

(* "per-tenant Redis limit > config default limit": the limit that a tenant *)
(* has now, if the type is known.                                          *)
LimitInForce(t, q) ==
    LET key == BuildLimitKey(t, q)
    IN  IF key \in DOMAIN redis THEN {redis[key].val} ELSE Configured(q)

(* A call that has resolved its limit, or returns the error that there is   *)
(* none.  bound: history of the limits that it may use.                    *)
Resolved(c, t, q, amount, limits, bound) ==
    call' = IF limits = {} THEN call
            ELSE [call EXCEPT ![c] = [tenant |-> t, type |-> q, amount |-> amount,
                                      limit |-> CHOOSE limit \in limits : TRUE, bound |-> bound]]

(* ConsumeQuota up to the reading of the limit by resolveLimit: the         *)
(* tenant's own in Redis, else the configured one.                         *)
MutantDefaultFirst(c, t, q, amount) ==
    /\ call[c] = NoCall
    /\ Resolved(c, t, q, amount, IF Configured(q) # {} THEN Configured(q) ELSE LimitInForce(t, q), LimitInForce(t, q))
    /\ UNCHANGED <<now, redis, spent, carried>>

ResolveLimit(c, t, q, amount) ==
    /\ call[c] = NoCall
    /\ Resolved(c, t, q, amount, LimitInForce(t, q), LimitInForce(t, q))
    /\ UNCHANGED <<now, redis, spent, carried>>

(* The reading fails, which counts as no limit of the tenant's own.        *)
ResolveLimitFails(c, t, q, amount) ==
    /\ call[c] = NoCall
    /\ Resolved(c, t, q, amount, Configured(q), LimitInForce(t, q) \cup Configured(q))
    /\ UNCHANGED <<now, redis, spent, carried>>

(* consumeQuotaScript: what it leaves in Redis, and whether it allows.  The *)
(* first usage sets the expiry; INCRBY keeps it, and makes a key without.  *)
Value(k) == IF k \in DOMAIN redis THEN redis[k].val ELSE 0

Allowed(k, amount, limit) == Value(k) + amount <= limit

MutantSetsUsage(k, amount) ==
    Put(redis, k, [val |-> amount, expireAt |-> IF k \in DOMAIN redis THEN redis[k].expireAt ELSE now + TTL])

Charged(k, amount) ==
    Put(redis, k, [val |-> Value(k) + amount,
                   expireAt |-> IF Value(k) = 0 THEN now + TTL ELSE redis[k].expireAt])

ConsumeQuotaScript(c) ==
    LET k == BuildUsageKey(call[c].tenant, call[c].type)
    IN  redis' = IF Allowed(k, call[c].amount, call[c].limit) THEN Alive(Charged(k, call[c].amount), now) ELSE redis

(* Redis runs the script and ConsumeQuota returns its answer.              *)
RunScript(c) ==
    LET p == <<call[c].tenant, call[c].type>>
        granted == Allowed(BuildUsageKey(p[1], p[2]), call[c].amount, call[c].limit)
    IN  /\ call[c] # NoCall
        /\ spent[p][now + 1] + call[c].amount <= MaxSpent
        /\ ConsumeQuotaScript(c)
        /\ spent' = IF granted THEN [spent EXCEPT ![p] = Granted(@, now, call[c].amount)] ELSE spent
        /\ carried' = IF granted THEN [carried EXCEPT ![p] = @ \cup {<<now, call[c].limit>>}] ELSE carried
        /\ call' = [call EXCEPT ![c] = NoCall]
        /\ UNCHANGED now

(* Redis runs the script and the reply is lost; the call goes on.          *)
LoseReply(c) ==
    /\ call[c] # NoCall
    /\ ConsumeQuotaScript(c)
    /\ UNCHANGED <<now, call, spent, carried>>

(* ConsumeQuota returns an error.                                          *)
Fail(c) ==
    /\ call[c] # NoCall
    /\ call' = [call EXCEPT ![c] = NoCall]
    /\ UNCHANGED <<now, redis, spent, carried>>

ResetQuota(t, q) ==
    /\ redis' = Delete(redis, BuildUsageKey(t, q))
    /\ spent' = [spent EXCEPT ![<<t, q>>] = NoHistory(MaxTime)]
    /\ carried' = [carried EXCEPT ![<<t, q>>] = {}]
    /\ UNCHANGED <<now, call>>

(* setLimitScript: SET, which makes a key that does not expire.            *)
SetLimit(t, q, limit) ==
    /\ redis' = Put(redis, BuildLimitKey(t, q), [val |-> limit, expireAt |-> NoExpiry])
    /\ UNCHANGED <<now, call, spent, carried>>

Next ==
    \/ Tick
    \/ \E p \in Pairs :
          \/ \E c \in Clients, amount \in Amounts :
                ResolveLimit(c, p[1], p[2], amount) \/ ResolveLimitFails(c, p[1], p[2], amount)
          \/ ResetQuota(p[1], p[2])
          \/ \E limit \in NewLimits : SetLimit(p[1], p[2], limit)
    \/ \E c \in Clients : RunScript(c) \/ LoseReply(c) \/ Fail(c)

Spec == Init /\ [][Next]_vars

-----------------------------------------------------------------------------
SpentIn(p, from, to) == GrantedIn(spent[p], from, to)

(* The limits of the calls that were told of usage in a stretch of time.   *)
LimitsIn(grants, from, to) == {0} \cup {r[2] : r \in {s \in grants : from <= s[1] /\ s[1] <= to}}

(* Nothing that a caller was told it consumed is missing from Redis, with   *)
(* calls of several instances, lost replies, expiry and resets; scripts    *)
(* that were sent again may have charged more.                             *)
NeverUndercharged ==
    \A p \in Pairs :
        LET k == BuildUsageKey(p[1], p[2])
        IN  k \in DOMAIN redis => redis[k].val >= SpentIn(p, redis[k].expireAt - TTL, now)

(* ConsumeQuota "returns an error if quota would be exceeded": the period   *)
(* starts with the first usage, so a stretch of time as long as a period   *)
(* may straddle two of them, but never more.  Callers are told of at most  *)
(* twice the limit of one of the calls that were told so in that time.     *)
AtMostTwicePerPeriod ==
    \A p \in Pairs : \E limit \in LimitsIn(carried[p], now - ResetTTL + 1, now) :
        SpentIn(p, now - ResetTTL + 1, now) <= 2 * limit

(* Redis runs the script of a call for p.                                  *)
ScriptRuns(c, p) ==
    /\ call[c] # NoCall /\ p = <<call[c].tenant, call[c].type>>
    /\ RunScript(c) \/ LoseReply(c)

(* resolveLimit: "per-tenant Redis limit > config default limit".  Whatever *)
(* other instances charge, and whatever limits they set, between the       *)
(* reading of the limit and the script, the script charges nothing beyond  *)
(* the limit that its tenant had at the reading; only a reading that       *)
(* failed puts the default in the place of the tenant's own.               *)
ChargeWithinLimit ==
    \A c \in Clients, p \in Pairs :
        ScriptRuns(c, p) => \/ redis' = redis
                            \/ \E limit \in call[c].bound : Value(BuildUsageKey(p[1], p[2]))' <= limit

ChargedWithinLimit == [][ChargeWithinLimit]_vars

(* The calls of a tenant for a type of quota.                              *)
CallOf(p) ==
    \/ ResetQuota(p[1], p[2])
    \/ \E limit \in NewLimits : SetLimit(p[1], p[2], limit)
    \/ \E c \in Clients : ScriptRuns(c, p)

OthersUntouched ==
    \A p \in Pairs : CallOf(p) =>
        \A r \in Pairs \ {p} :
            /\ Value(BuildUsageKey(r[1], r[2]))' = Value(BuildUsageKey(r[1], r[2]))
            /\ LimitInForce(r[1], r[2])' = LimitInForce(r[1], r[2])

(* SetLimit is "for a specific tenant and quota type", and so are usage and *)
(* reset: in the one space of keys that all instances share, a call        *)
(* changes the usage and the limit of no other tenant and of no other      *)
(* type.  This depends on how keys are put together: the usage key of a    *)
(* tenant named "limit" begins like every limit key.                       *)
PairsIndependent == [][OthersUntouched]_vars

=============================================================================
