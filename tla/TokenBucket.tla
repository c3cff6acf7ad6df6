---------------------------- MODULE TokenBucket ----------------------------
(***************************************************************************)
(* The token bucket rate limiter of adapters/limiter-memory                *)
(* (token_bucket.go): its state, operations and properties, which the      *)
(* limiter of module LimiterMemory composes with those of the windows.     *)
(*                                                                         *)
(* A tick is a second.  A token is Token units, and Rate units come in at  *)
(* every tick: rps is Rate/Token, and the amounts that the code keeps in a *)
(* float64 are integers here.                                              *)
(***************************************************************************)
EXTENDS Integers

CONSTANTS
    Keys,               \* tenant keys that validateTenantKey accepts
    Amounts,            \* the n of AllowN; n <= 0 is allowed without effect
    Token, Rate,        \* TokenBucket.rps
    ConfigBurst,        \* Config.BurstSize, 0 when it is not set
    CleanupInterval,    \* TokenBucket.windowDuration, time.Hour
    BucketCleanupAge,   \* 1 * time.Hour
    MaxTime             \* bound: the last tick

ASSUME RateAssumption == Token \in Nat \ {0} /\ Rate \in Nat \ {0}
ASSUME BurstAssumption == ConfigBurst \in Nat
ASSUME AmountsAssumption == Amounts \subseteq Nat \ {0}
ASSUME TimesAssumption == CleanupInterval \in Nat \ {0} /\ BucketCleanupAge \in Nat \ {0} /\ MaxTime \in Nat

VARIABLES
    now,
    tokens,             \* TokenBucket.tokens, a function on the keys present
    lastCleanupTime,
    debt                \* history: what each key was admitted and time has not paid back

bucketVars == <<now, tokens, lastCleanupTime, debt>>

(* TokenBucket.burstSize: NewLimiterMemory defaults to 2 * rps, truncated,  *)
(* and NewTokenBucket replaces a burst below 1 by rps, truncated.          *)
DefaultBurst == (2 * Rate) \div Token

ChosenBurst == IF ConfigBurst > 0 THEN ConfigBurst ELSE DefaultBurst

BurstSize == IF ChosenBurst < 1 THEN Rate \div Token ELSE ChosenBurst

Capacity == BurstSize * Token

TokenData == [tokens : 0..Capacity, lastRefil : 0..MaxTime]

BucketTypeOK ==
    /\ now \in 0..MaxTime
    /\ DOMAIN tokens \subseteq Keys
    /\ \A k \in DOMAIN tokens : tokens[k] \in TokenData /\ tokens[k].lastRefil <= now
    /\ lastCleanupTime \in 0..now
    /\ debt \in [Keys -> Nat]

BucketInit ==
    /\ now = 0
    /\ tokens = [k \in {} |-> k]
    /\ lastCleanupTime = 0
    /\ debt = [k \in Keys |-> 0]

(* A tick pays back Rate units of every debt.                              *)
PaidBack(d) == IF d > Rate THEN d - Rate ELSE 0

BucketTick ==
    /\ now < MaxTime
    /\ now' = now + 1
    /\ debt' = [k \in Keys |-> PaidBack(debt[k])]
    /\ UNCHANGED <<tokens, lastCleanupTime>>

CleanupDue == now - lastCleanupTime > CleanupInterval

(* cleanup: the buckets of keys not used for BucketCleanupAge are dropped. *)
MutantBucketCleanupAll == [k \in {} |-> k]

BucketCleanup == [k \in {j \in DOMAIN tokens : tokens[j].lastRefil >= now - BucketCleanupAge} |-> tokens[k]]

Capped(x) == IF x > Capacity THEN Capacity ELSE x

(* What is in the bucket of k now: what was there at the last refill and    *)
(* what came in since, up to the burst size.                               *)
MutantWholeTokens(buckets, k) ==
    IF k \in DOMAIN buckets
    THEN Capped(buckets[k].tokens + Token * ((Rate * (now - buckets[k].lastRefil)) \div Token))
    ELSE Capacity

Available(buckets, k) ==
    IF k \in DOMAIN buckets
    THEN Capped(buckets[k].tokens + Rate * (now - buckets[k].lastRefil))
    ELSE Capacity

BucketAllowN(k, n) ==
    LET buckets == IF CleanupDue THEN BucketCleanup ELSE tokens
        available == Available(buckets, k)
        allowed == available >= n * Token
        left == IF allowed THEN available - n * Token ELSE available
    IN  /\ lastCleanupTime' = IF CleanupDue THEN now ELSE lastCleanupTime
        /\ tokens' = [j \in DOMAIN buckets \cup {k} |->
                        IF j = k THEN [tokens |-> left, lastRefil |-> now] ELSE buckets[j]]
        /\ debt' = [debt EXCEPT ![k] = IF allowed THEN @ + n * Token ELSE @]
        /\ UNCHANGED now

BucketRemaining(k) == Available(tokens, k) \div Token

BucketReset(k) ==
    /\ tokens' = [j \in DOMAIN tokens \ {k} |-> tokens[j]]
    /\ debt' = [debt EXCEPT ![k] = 0]
    /\ UNCHANGED <<now, lastCleanupTime>>

-----------------------------------------------------------------------------
(* The debt of a key grows with what it is admitted and shrinks at rps, so  *)
(* this bounds what any stretch of time sees it admitted: the burst size   *)
(* and rps times its length.                                               *)
RateBounded == \A k \in Keys : debt[k] <= Capacity

(* The bucket is neither too generous nor too strict: what a key can still  *)
(* take is exactly the burst size less its debt, through refused requests, *)
(* fractional refills, cleanup of idle keys and reset.                     *)
BucketExact == \A k \in Keys : Available(tokens, k) = Capacity - debt[k]

=============================================================================
