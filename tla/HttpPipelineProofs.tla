------------------------- MODULE HttpPipelineProofs -------------------------
(***************************************************************************)
(* Proofs about the in-memory limiter, LimiterMemory, with each of its     *)
(* algorithms, for every set of keys, every rate, burst size, limit and    *)
(* window, and any length of time; and about HttpPipeline, the requests    *)
(* that are charged to it, for any number of goroutines, requests and      *)
(* resolvers in the chains.                                                *)
(*                                                                         *)
(* Cleanup preserves what is proved only when it drops what no longer      *)
(* counts: a bucket that would be full anyway and a window that is over.   *)
(* These are the hypotheses IdleKeysAreFull and WindowsOutlived; the code  *)
(* does not ensure them.  NoWrap keeps the additions of the window         *)
(* algorithms below the largest int64.                                     *)
(***************************************************************************)
EXTENDS HttpPipeline, SequenceTheorems, FiniteSetTheorems, WellFoundedInduction, TLAPS

IdleKeysAreFull == Rate * BucketCleanupAge >= Capacity

WindowsOutlived == WindowSize <= WindowCleanupAge

NoWrap == \A n \in Amounts : Limit + n <= IntMax

-----------------------------------------------------------------------------
(* Part 1: the limiter.                                                    *)

(* The token bucket.  BucketExact is inductive with the types: a bound on    *)
(* the debt alone says nothing of what the buckets hold.                   *)

Inv == BucketTypeOK /\ BucketExact

(* Truncating division gives a natural number, so a burst size is one.      *)
LEMMA DivisionType ==
  ASSUME NEW a \in Nat, NEW b \in Nat \ {0}
  PROVE  a \div b \in Nat
  BY SMT

(* The capacity of a bucket is a natural number of units.                   *)
LEMMA CapacityType == Capacity \in Nat
<1>1. 2 * Rate \in Nat /\ Rate \in Nat /\ Token \in Nat \ {0}
  BY RateAssumption
<1>2. (2 * Rate) \div Token \in Nat /\ Rate \div Token \in Nat
  BY <1>1, DivisionType
<1>3. BurstSize \in Nat
  BY <1>2, BurstAssumption DEF BurstSize, ChosenBurst, DefaultBurst
<1> QED
  BY <1>1, <1>3 DEF Capacity

(* The units that come in during a stretch of time: a natural number, more  *)
(* for a longer stretch.                                                   *)
LEMMA IncomeMonotone ==
  ASSUME NEW a \in Nat, NEW b \in Nat, a <= b
  PROVE  Rate * a \in Nat /\ Rate * b \in Nat /\ Rate * a <= Rate * b
  BY RateAssumption, SMT

(* What a bucket holds and receives is an amount that Capped can bound.     *)
LEMMA IncomeType ==
  ASSUME BucketTypeOK, NEW k \in DOMAIN tokens
  PROVE  /\ tokens[k].tokens \in 0..Capacity
         /\ tokens[k].lastRefil \in 0..now
         /\ now - tokens[k].lastRefil \in Nat
         /\ Rate * (now - tokens[k].lastRefil) \in Nat
<1>1. /\ tokens[k].tokens \in 0..Capacity
      /\ tokens[k].lastRefil \in 0..now
  BY TimesAssumption DEF BucketTypeOK, TokenData
<1>2. now - tokens[k].lastRefil \in Nat
  BY <1>1, TimesAssumption DEF BucketTypeOK
<1> QED
  BY <1>1, <1>2, IncomeMonotone

(* A key never has more than a full bucket and never less than nothing.     *)
LEMMA AvailableType ==
  ASSUME BucketTypeOK, NEW k \in Keys
  PROVE  Available(tokens, k) \in 0..Capacity
<1>1. CASE k \in DOMAIN tokens
  BY <1>1, IncomeType, CapacityType DEF Available, Capped
<1>2. CASE k \notin DOMAIN tokens
  BY <1>2, CapacityType DEF Available
<1> QED
  BY <1>1, <1>2

(* Dropping the bucket of an idle key changes nothing: it was full.         *)
LEMMA CleanupKeepsAvailable ==
  ASSUME IdleKeysAreFull, BucketTypeOK, NEW k \in Keys
  PROVE  Available(BucketCleanup, k) = Available(tokens, k)
<1>1. CASE k \in DOMAIN BucketCleanup
  BY <1>1 DEF BucketCleanup, Available
<1>2. CASE k \in DOMAIN tokens /\ k \notin DOMAIN BucketCleanup
  <2>1. tokens[k].lastRefil < now - BucketCleanupAge
    BY <1>2, IncomeType, TimesAssumption DEF BucketCleanup, BucketTypeOK
  <2>2. BucketCleanupAge <= now - tokens[k].lastRefil /\ BucketCleanupAge \in Nat
    BY <2>1, <1>2, IncomeType, TimesAssumption DEF BucketTypeOK
  <2>3. Rate * BucketCleanupAge \in Nat /\ Rate * BucketCleanupAge <= Rate * (now - tokens[k].lastRefil)
    BY <2>2, <1>2, IncomeType, IncomeMonotone
  <2>4. Capped(tokens[k].tokens + Rate * (now - tokens[k].lastRefil)) = Capacity
    BY <2>3, <1>2, IncomeType, CapacityType DEF IdleKeysAreFull, Capped
  <2> QED
    BY <2>4, <1>2 DEF Available
<1>3. CASE k \notin DOMAIN tokens
  BY <1>3 DEF BucketCleanup, Available
<1> QED
  BY <1>1, <1>2, <1>3

(* Time keeps the buckets well formed.                                     *)
LEMMA TickKeepsType ==
  ASSUME BucketTypeOK, BucketTick
  PROVE  BucketTypeOK'
  BY RateAssumption, TimesAssumption DEF BucketTypeOK, BucketTick, PaidBack, TokenData

(* Time pays back debts and fills buckets at the same rate.                *)
LEMMA TickKeepsInv ==
  ASSUME Inv, BucketTick
  PROVE  Inv'
<1>1. BucketTypeOK'
  BY TickKeepsType DEF Inv
<1>2. ASSUME NEW k \in Keys PROVE Available(tokens, k)' = Capacity - debt'[k]
  <2>1. /\ debt[k] \in Nat /\ debt'[k] = PaidBack(debt[k]) /\ tokens' = tokens /\ now' = now + 1
        /\ now \in Nat
        /\ Available(tokens, k) = Capacity - debt[k]
    BY TimesAssumption DEF Inv, BucketTypeOK, BucketExact, BucketTick
  <2>2. CASE k \in DOMAIN tokens
    <3> DEFINE income == Rate * (now - tokens[k].lastRefil)
    <3>1. income \in Nat /\ tokens[k].tokens \in Nat /\ tokens[k].lastRefil \in Nat
      BY <2>2, IncomeType, CapacityType DEF Inv, BucketTypeOK
    <3>2. Rate * (now' - tokens'[k].lastRefil) = income + Rate
      BY <3>1, <2>1, RateAssumption
    <3>3. Available(tokens, k) = Capped(tokens[k].tokens + income)
      BY <2>2 DEF Available
    <3>4. Available(tokens, k)' = Capped(tokens'[k].tokens + Rate * (now' - tokens'[k].lastRefil))
      BY <2>1, <2>2 DEF Available, Capped
    <3>5. Available(tokens, k)' = Capped(tokens[k].tokens + (income + Rate))
      BY <2>1, <3>2, <3>4
    <3> HIDE DEF income
    <3> QED
      BY <3>1, <3>3, <3>5, <2>1, CapacityType, RateAssumption DEF Capped, PaidBack
  <2>3. CASE k \notin DOMAIN tokens
    BY <2>1, <2>3, CapacityType, RateAssumption DEF Available, PaidBack
  <2> QED
    BY <2>2, <2>3
<1> QED
  BY <1>1, <1>2 DEF Inv, BucketExact

(* Cleanup keeps the entries of the map that it does not drop.              *)
LEMMA KeptBuckets ==
  LET buckets == IF CleanupDue THEN BucketCleanup ELSE tokens
  IN  DOMAIN buckets \subseteq DOMAIN tokens /\ \A j \in DOMAIN buckets : buckets[j] = tokens[j]
  BY DEF BucketCleanup

(* The types, whatever cleanup drops.                                       *)
LEMMA AllowNKeepsType ==
  ASSUME BucketTypeOK, NEW k \in Keys, NEW n \in Amounts, BucketAllowN(k, n)
  PROVE  BucketTypeOK'
<1> DEFINE buckets == IF CleanupDue THEN BucketCleanup ELSE tokens
           available == Available(buckets, k)
           allowed == available >= n * Token
           left == IF allowed THEN available - n * Token ELSE available
<1>1. /\ now' = now
      /\ lastCleanupTime' = IF CleanupDue THEN now ELSE lastCleanupTime
      /\ tokens' = [j \in DOMAIN buckets \cup {k} |->
                       IF j = k THEN [tokens |-> left, lastRefil |-> now] ELSE buckets[j]]
      /\ debt' = [debt EXCEPT ![k] = IF allowed THEN @ + n * Token ELSE @]
  BY DEF BucketAllowN
<1>2. DOMAIN buckets \subseteq DOMAIN tokens /\ \A j \in DOMAIN buckets : buckets[j] = tokens[j]
  BY KeptBuckets
<1>3. n * Token \in Nat
  BY AmountsAssumption, RateAssumption
<1>4. available \in 0..Capacity
  <2>1. k \in DOMAIN buckets => available = Available(tokens, k)
    BY <1>2 DEF Available
  <2>2. k \notin DOMAIN buckets => available = Capacity
    BY DEF Available
  <2> HIDE DEF available, buckets
  <2> QED
    BY <2>1, <2>2, AvailableType, CapacityType
<1>5. left \in 0..Capacity
  <2> HIDE DEF available
  <2> QED
    BY <1>3, <1>4, CapacityType
<1>6. now \in Nat /\ now \in 0..MaxTime /\ now <= now
  BY TimesAssumption DEF BucketTypeOK
<1> HIDE DEF buckets, available, left
<1>7. DOMAIN tokens' \subseteq Keys
  BY <1>1, <1>2 DEF BucketTypeOK
<1>8. ASSUME NEW j \in DOMAIN tokens'
      PROVE tokens'[j] \in TokenData /\ tokens'[j].lastRefil <= now
  <2>1. CASE j = k
    BY <1>1, <1>5, <1>6, <2>1 DEF TokenData
  <2>2. CASE j # k
    BY <1>1, <1>2, <2>2 DEF BucketTypeOK
  <2> QED
    BY <2>1, <2>2
<1>9. debt' \in [Keys -> Nat]
  BY <1>1, <1>3 DEF BucketTypeOK
<1>10. lastCleanupTime' \in 0..now
  BY <1>1, <1>6 DEF BucketTypeOK
<1> QED
  BY <1>1, <1>6, <1>7, <1>8, <1>9, <1>10 DEF BucketTypeOK, TokenData, Capacity, BurstSize, ChosenBurst, DefaultBurst

(* A request takes from the bucket what it adds to the debt, whether or not *)
(* it runs the cleanup first.                                              *)
LEMMA AllowNKeepsInv ==
  ASSUME IdleKeysAreFull, Inv, NEW k \in Keys, NEW n \in Amounts, BucketAllowN(k, n)
  PROVE  Inv'
<1> DEFINE buckets == IF CleanupDue THEN BucketCleanup ELSE tokens
           available == Available(buckets, k)
           allowed == available >= n * Token
           left == IF allowed THEN available - n * Token ELSE available
<1>1. /\ now' = now
      /\ tokens' = [j \in DOMAIN buckets \cup {k} |->
                       IF j = k THEN [tokens |-> left, lastRefil |-> now] ELSE buckets[j]]
      /\ debt' = [debt EXCEPT ![k] = IF allowed THEN @ + n * Token ELSE @]
  BY DEF BucketAllowN
<1>2. \A j \in Keys : Available(buckets, j) = Available(tokens, j)
  BY CleanupKeepsAvailable DEF Inv
<1>4. n * Token \in Nat
  BY AmountsAssumption, RateAssumption
<1>5. available \in 0..Capacity /\ available = Capacity - debt[k] /\ debt[k] \in Nat
  BY <1>2, AvailableType DEF Inv, BucketExact, BucketTypeOK
<1>6. left \in 0..Capacity
  BY <1>4, <1>5, CapacityType
<1>7. now \in Nat
  BY TimesAssumption DEF Inv, BucketTypeOK
<1>8. BucketTypeOK'
  BY AllowNKeepsType DEF Inv
<1> HIDE DEF buckets, available, left
<1>9. ASSUME NEW j \in Keys PROVE Available(tokens, j)' = Capacity - debt'[j]
  <2>1. CASE j = k
    <3>1. Available(tokens, k)' = Capped(left + Rate * (now - now))
      BY <1>1 DEF Available, Capped
    <3>2. Rate * (now - now) = 0
      BY <1>7, RateAssumption
    <3>3. Capped(left + Rate * (now - now)) = left
      BY <3>2, <1>6, CapacityType DEF Capped
    <3>4. left = Capacity - debt'[k]
      BY <1>1, <1>4, <1>5, CapacityType DEF Inv, BucketTypeOK, left
    <3> QED
      BY <2>1, <3>1, <3>3, <3>4
  <2>2. CASE j # k
    <3>1. debt'[j] = debt[j]
      BY <1>1, <2>2 DEF Inv, BucketTypeOK
    <3>2. Available(tokens, j)' = Available(buckets, j)
      BY <1>1, <2>2 DEF Available, Capped
    <3> QED
      BY <3>1, <3>2, <1>2 DEF Inv, BucketExact
  <2> QED
    BY <2>1, <2>2
<1> QED
  BY <1>8, <1>9 DEF Inv, BucketExact

(* A reset gives a full bucket and forgives the debt.                       *)
LEMMA ResetKeepsInv ==
  ASSUME Inv, NEW k \in Keys, BucketReset(k)
  PROVE  Inv'
<1>1. BucketTypeOK'
  BY DEF Inv, BucketTypeOK, BucketReset, TokenData
<1>2. ASSUME NEW j \in Keys PROVE Available(tokens, j)' = Capacity - debt'[j]
  <2>1. CASE j = k
    BY <2>1, CapacityType DEF BucketReset, Available, Inv, BucketTypeOK
  <2>2. CASE j # k
    BY <2>2 DEF BucketReset, Available, Capped, Inv, BucketTypeOK, BucketExact
  <2> QED
    BY <2>1, <2>2
<1> QED
  BY <1>1, <1>2 DEF Inv, BucketExact

(* A request to a window algorithm changes when the last cleanup was, and    *)
(* nothing else of the bucket.                                             *)
LEMMA ChargeFrame ==
  ASSUME BucketTypeOK, NEW k, NEW n, NEW allowed, Charge(k, n, allowed)
  PROVE  /\ BucketTypeOK'
         /\ UNCHANGED <<algorithm, now, tokens, debt>>
         /\ BucketExact => BucketExact'
<1>1. UNCHANGED <<algorithm, now, tokens, debt>> /\ lastCleanupTime' \in {now, lastCleanupTime}
  BY DEF Charge
<1>2. now \in Nat /\ lastCleanupTime' \in 0..now
  BY <1>1, TimesAssumption DEF BucketTypeOK
<1>3. BucketTypeOK'
  BY <1>1, <1>2 DEF BucketTypeOK, TokenData
<1> QED
  BY <1>1, <1>3 DEF BucketExact, Available, Capped

(* The types of the bucket in every step of the limiter.                    *)
LEMMA StepKeepsBucketType ==
  ASSUME BucketTypeOK, [LimiterNext]_limiterVars
  PROVE  BucketTypeOK'
<1>1. CASE Tick
  BY <1>1, TickKeepsType DEF Tick
<1>2. ASSUME NEW k \in Keys, NEW n \in Amounts, AllowN(k, n) PROVE BucketTypeOK'
  BY <1>2, AllowNKeepsType, ChargeFrame DEF AllowN, TokenAllowN, FixedAllowN, SlidingAllowN
<1>3. ASSUME NEW k \in Keys, BucketReset(k) PROVE BucketTypeOK'
  BY <1>3 DEF BucketTypeOK, BucketReset, TokenData
<1>4. CASE UNCHANGED bucketVars
  BY <1>4 DEF bucketVars, BucketTypeOK, TokenData
<1> QED
  BY <1>1, <1>2, <1>3, <1>4 DEF LimiterNext, limiterVars, Reset, TokenReset, FixedReset, SlidingReset

(* The buckets stay exact in every step of the limiter.                     *)
LEMMA StepKeepsInv ==
  ASSUME IdleKeysAreFull, Inv, [LimiterNext]_limiterVars
  PROVE  Inv'
<1>1. CASE Tick
  BY <1>1, TickKeepsInv DEF Tick
<1>2. ASSUME NEW k \in Keys, NEW n \in Amounts, AllowN(k, n) PROVE Inv'
  BY <1>2, AllowNKeepsInv, ChargeFrame DEF Inv, AllowN, TokenAllowN, FixedAllowN, SlidingAllowN
<1>3. ASSUME NEW k \in Keys, BucketReset(k) PROVE Inv'
  BY <1>3, ResetKeepsInv
<1>4. CASE UNCHANGED bucketVars
  BY <1>4 DEF bucketVars, Inv, BucketTypeOK, BucketExact, Available, Capped, TokenData
<1> QED
  BY <1>1, <1>2, <1>3, <1>4 DEF LimiterNext, limiterVars, Reset, TokenReset, FixedReset, SlidingReset

(* The buckets stay well formed and exact: what a key can still take is the *)
(* burst size less its debt, provided an idle key's bucket is full by the  *)
(* time cleanup drops it.                                                  *)
THEOREM BucketExactAlways == IdleKeysAreFull => (LimiterSpec => [](BucketTypeOK /\ BucketExact))
<1> SUFFICES ASSUME IdleKeysAreFull PROVE LimiterSpec => [](BucketTypeOK /\ BucketExact)
  OBVIOUS
<1>1. LimiterInit => Inv
  BY CapacityType, TimesAssumption DEF LimiterInit, BucketInit, Inv, BucketTypeOK, BucketExact, Available
<1>2. Inv /\ [LimiterNext]_limiterVars => Inv'
  BY StepKeepsInv
<1> QED
  BY <1>1, <1>2, PTL DEF LimiterSpec, Inv

(* No stretch of time sees a key admitted more than the burst size and rps  *)
(* times its length.                                                       *)
THEOREM RateBoundedAlways == IdleKeysAreFull => (LimiterSpec => []RateBounded)
<1> SUFFICES ASSUME IdleKeysAreFull PROVE LimiterSpec => []RateBounded
  OBVIOUS
<1>1. BucketTypeOK /\ BucketExact => RateBounded
  <2> SUFFICES ASSUME BucketTypeOK, BucketExact, NEW k \in Keys PROVE debt[k] <= Capacity
    BY DEF RateBounded
  <2>1. Available(tokens, k) \in 0..Capacity /\ Available(tokens, k) = Capacity - debt[k]
    BY AvailableType DEF BucketExact
  <2>2. debt[k] \in Nat
    BY DEF BucketTypeOK
  <2> QED
    BY <2>1, <2>2, CapacityType
<1>2. LimiterSpec => [](BucketTypeOK /\ BucketExact)
  BY BucketExactAlways
<1> QED
  BY <1>1, <1>2, PTL

-----------------------------------------------------------------------------
(* The running totals.                                                     *)

(* A new history.                                                           *)
LEMMA NoHistoryIs ==
  ASSUME NEW last \in Nat, NEW n \in 0..last
  PROVE  /\ IsHistory(NoHistory(last), last, n)
         /\ \A t \in Ticks(last) : NoHistory(last)[t] = 0
  BY DEF IsHistory, NoHistory, Histories, Ticks

(* The passing of time adds nothing to a history.                           *)
LEMMA HistoryTick ==
  ASSUME NEW last \in Nat, NEW n \in 0..last, n < last, NEW h, IsHistory(h, last, n)
  PROVE  IsHistory(h, last, n + 1) /\ h[n + 2] = h[n + 1] /\ n + 1 + 1 = n + 2 /\ n + 1 \in 0..last
<1>1. n + 2 \in Ticks(last) /\ n + 2 > n /\ n + 1 + 1 = n + 2 /\ n + 1 \in 0..last
  BY DEF Ticks
<1>2. h[n + 2] = h[n + 1]
  BY <1>1 DEF IsHistory
<1>3. \A t \in Ticks(last) : t > n + 1 => t > n
  BY DEF Ticks
<1> QED
  BY <1>1, <1>2, <1>3 DEF IsHistory

(* What a grant changes in a history.                                       *)
LEMMA HistoryGranted ==
  ASSUME NEW last \in Nat, NEW n \in 0..last, NEW h, IsHistory(h, last, n), NEW a \in Nat
  PROVE  /\ IsHistory(Granted(h, n, a), last, n)
         /\ Granted(h, n, a)[n + 1] = h[n + 1] + a
         /\ \A t \in Ticks(last) : t <= n => Granted(h, n, a)[t] = h[t]
<1> DEFINE g == Granted(h, n, a)
<1>1. h \in [Ticks(last) -> Nat] /\ Ticks(last) \subseteq Nat /\ n \in Nat /\ n + 1 \in Ticks(last) /\ 0 \in Ticks(last)
  BY DEF IsHistory, Histories, Ticks
<1>2. g \in [Ticks(last) -> Nat] /\ \A t \in Ticks(last) : g[t] = IF t > n THEN h[t] + a ELSE h[t]
  BY <1>1 DEF Granted
<1>3. \A s, t \in Ticks(last) : s <= t => g[s] <= g[t]
  <2> SUFFICES ASSUME NEW s \in Ticks(last), NEW t \in Ticks(last), s <= t PROVE g[s] <= g[t]
    OBVIOUS
  <2>1. h[s] <= h[t] /\ h[s] \in Nat /\ h[t] \in Nat /\ s \in Nat /\ t \in Nat
    BY <1>1 DEF IsHistory
  <2>2. g[s] = (IF s > n THEN h[s] + a ELSE h[s]) /\ g[t] = (IF t > n THEN h[t] + a ELSE h[t])
    BY <1>2
  <2> HIDE DEF g
  <2> QED
    BY <2>1, <2>2, <1>1
<1>4. g[0] = 0
  BY <1>1, <1>2 DEF IsHistory
<1>5. \A t \in Ticks(last) : t > n => g[t] = g[n + 1]
  BY <1>1, <1>2 DEF IsHistory
<1>6. g \in Histories(last)
  BY <1>2 DEF Histories
<1> QED
  BY <1>1, <1>2, <1>3, <1>4, <1>5, <1>6 DEF IsHistory

-----------------------------------------------------------------------------
(* The fixed window.  Its count is what the key was admitted since the       *)
(* window began.  That is not inductive alone: a window that has expired    *)
(* stays until the next request, so nothing was admitted since it was last *)
(* used, and the limit over any stretch of time needs what the window      *)
(* before it was admitted.                                                 *)

(* The window w of a key with history h at tick n.                          *)
WindowInv(w, h, n) ==
    LET start == w.windowEnd - WindowSize
    IN  /\ w.windowEnd \in Nat /\ start \in 0..w.lastAccess /\ w.lastAccess \in 0..n /\ w.lastAccess <= w.windowEnd
        /\ w.count \in 0..Limit
        /\ w.count = h[n + 1] - h[start]
        /\ h[start] - h[FromZero(start - WindowSize - 1)] <= Limit
        /\ \A t \in Ticks(MaxTime) : t > w.lastAccess => h[t] = h[n + 1]

(* A key without a window: whatever it was admitted is long past.           *)
NoWindowInv(h, n) ==
    /\ h[n + 1] = h[FromZero(n - WindowSize)]
    /\ h[n + 1] - h[FromZero(n - WindowSize - 1)] <= Limit

(* The ticks that the invariants speak of, and the totals there.            *)
LEMMA TickFacts ==
  ASSUME NEW n \in 0..MaxTime
  PROVE  /\ n \in Nat /\ n + 1 \in Ticks(MaxTime) /\ n \in Ticks(MaxTime) /\ Ticks(MaxTime) \subseteq Nat
         /\ \A s \in Int : s <= n + 1 => FromZero(s) \in Ticks(MaxTime)
  BY TimesAssumption DEF Ticks, FromZero

(* A history holds natural numbers and never falls.                        *)
LEMMA HistoryFacts ==
  ASSUME NEW n \in 0..MaxTime, NEW h, IsHistory(h, MaxTime, n)
  PROVE  /\ \A t \in Ticks(MaxTime) : h[t] \in Nat
         /\ \A s, t \in Ticks(MaxTime) : s <= t => h[s] <= h[t]
         /\ \A t \in Ticks(MaxTime) : t > n => h[t] = h[n + 1]
  BY DEF IsHistory, Histories

(* Time passes over a window, and over the lack of one.                     *)
LEMMA WindowTick ==
  ASSUME NEW n \in 0..MaxTime, n < MaxTime, NEW h, IsHistory(h, MaxTime, n), NEW w, WindowInv(w, h, n)
  PROVE  WindowInv(w, h, n + 1)
<1>1. h[(n + 1) + 1] = h[n + 1] /\ n \in Nat /\ 0..n \subseteq 0..(n + 1)
  BY HistoryTick, TimesAssumption
<1> QED
  BY <1>1 DEF WindowInv

(* Time passes over the lack of a window.                                  *)
LEMMA NoWindowTick ==
  ASSUME NEW n \in 0..MaxTime, n < MaxTime, NEW h, IsHistory(h, MaxTime, n), NoWindowInv(h, n)
  PROVE  NoWindowInv(h, n + 1)
<1> DEFINE a == FromZero(n - WindowSize)
           b == FromZero(n + 1 - WindowSize)
<1>1. h[(n + 1) + 1] = h[n + 1]
  BY HistoryTick, TimesAssumption
<1>2. n \in Nat /\ n + 1 \in Ticks(MaxTime) /\ WindowSize \in Nat \ {0}
  BY TickFacts, WindowAssumption
<1>3. a \in Ticks(MaxTime) /\ b \in Ticks(MaxTime) /\ a <= b /\ b <= n + 1 /\ n + 1 - WindowSize - 1 = n - WindowSize
  BY <1>2, TimesAssumption DEF Ticks, FromZero
<1>4. h[n + 1] \in Nat /\ h[a] \in Nat /\ h[b] \in Nat /\ h[a] <= h[b] /\ h[b] <= h[n + 1]
  BY <1>2, <1>3, HistoryFacts
<1>5. h[n + 1] = h[a]
  BY DEF NoWindowInv
<1> HIDE DEF a, b
<1>6. h[n + 1] = h[b] /\ h[n + 1] - h[a] <= Limit
  BY <1>4, <1>5, LimitAssumption
<1> DEFINE m == n + 1
<1>7. /\ a = FromZero(m - WindowSize - 1) /\ b = FromZero(m - WindowSize)
      /\ h[m + 1] = h[b] /\ h[m + 1] - h[a] <= Limit
  <2>1. h[m + 1] = h[b] /\ h[m + 1] - h[a] <= Limit
    BY <1>1, <1>6
  <2>2. a = FromZero(m - WindowSize - 1) /\ b = FromZero(m - WindowSize)
    BY <1>2, <1>3 DEF a, b, FromZero
  <2> QED
    BY <2>1, <2>2
<1> HIDE DEF m
<1>8. NoWindowInv(h, m)
  BY <1>7, Zenon DEF NoWindowInv
<1> QED
  BY <1>8 DEF m

(* Cleanup drops a window that is over.                                     *)
LEMMA DroppedWindow ==
  ASSUME WindowsOutlived, NEW n \in 0..MaxTime, NEW h, IsHistory(h, MaxTime, n), NEW w, WindowInv(w, h, n),
         w.lastAccess < n - WindowCleanupAge
  PROVE  NoWindowInv(h, n)
<1> DEFINE a == FromZero(n - WindowSize)
           b == FromZero(n - WindowSize - 1)
           s == w.windowEnd - WindowSize
           last == w.lastAccess
<1>1. last \in Nat /\ s \in Nat /\ s <= last /\ last < n - WindowCleanupAge
  BY DEF WindowInv
<1>2. n \in Nat /\ n + 1 \in Ticks(MaxTime) /\ WindowSize \in Nat \ {0} /\ WindowCleanupAge \in Nat
      /\ WindowSize <= WindowCleanupAge
  BY TickFacts, WindowAssumption DEF WindowsOutlived
<1> HIDE DEF s, last
<1>3. a \in Ticks(MaxTime) /\ b \in Ticks(MaxTime) /\ s \in Ticks(MaxTime) /\ s <= b /\ a > last
  BY <1>1, <1>2, TimesAssumption DEF Ticks, FromZero
<1>4. h[n + 1] \in Nat /\ h[a] \in Nat /\ h[b] \in Nat /\ h[s] \in Nat /\ h[s] <= h[b]
  BY <1>2, <1>3, HistoryFacts
<1>5. h[a] = h[n + 1]
  BY <1>3 DEF WindowInv, last
<1>6. h[n + 1] - h[s] \in 0..Limit
  BY DEF WindowInv, s
<1> HIDE DEF a, b
<1>7. h[n + 1] - h[b] <= Limit
  BY <1>4, <1>6, LimitAssumption
<1> QED
  BY <1>5, <1>7 DEF NoWindowInv, a, b

(* A window that begins now, when there was none or the last has expired.   *)
LEMMA FreshWindow ==
  ASSUME NEW n \in 0..MaxTime, NEW h, IsHistory(h, MaxTime, n),
         \/ NoWindowInv(h, n)
         \/ \E w : WindowInv(w, h, n) /\ ~(n <= w.windowEnd),
         NEW v, v.count = 0, v.windowEnd = n + WindowSize, v.lastAccess = n
  PROVE  WindowInv(v, h, n)
<1> DEFINE b == FromZero(n - WindowSize - 1)
           c == FromZero(n - WindowSize)
<1>1. n \in Nat /\ n + 1 \in Ticks(MaxTime) /\ n \in Ticks(MaxTime) /\ WindowSize \in Nat \ {0} /\ Limit \in Nat
  BY TickFacts, WindowAssumption, LimitAssumption
<1>2. b \in Ticks(MaxTime) /\ b <= n /\ c \in Ticks(MaxTime) /\ c <= n /\ n <= n + 1
  BY <1>1, TimesAssumption DEF Ticks, FromZero
<1>3. h[n] \in Nat /\ h[n + 1] \in Nat /\ h[b] \in Nat /\ h[c] \in Nat /\ h[c] <= h[n] /\ h[n] <= h[n + 1]
  <2> HIDE DEF b, c
  <2> QED
    BY <1>1, <1>2, HistoryFacts
<1>4. h[n] = h[n + 1] /\ h[n] - h[b] <= Limit
  <2>1. CASE NoWindowInv(h, n)
    <3>1. h[n + 1] = h[c] /\ h[n + 1] - h[b] <= Limit
      BY <2>1 DEF NoWindowInv
    <3> HIDE DEF b, c
    <3> QED
      BY <1>3, <3>1
  <2>2. ASSUME NEW w, WindowInv(w, h, n), ~(n <= w.windowEnd) PROVE h[n] = h[n + 1] /\ h[n] - h[b] <= Limit
    <3> DEFINE s == w.windowEnd - WindowSize
               last == w.lastAccess
               end == w.windowEnd
    <3>1. s \in Nat /\ last \in Nat /\ s <= last /\ last <= end
      BY <2>2 DEF WindowInv
    <3>2. end = s + WindowSize
      <4>1. w.windowEnd \in Int
        BY <2>2, <1>1 DEF WindowInv
      <4> QED
        BY <1>1, <4>1
    <3>3. last < n
      <4> HIDE DEF s, last
      <4> QED
        BY <1>1, <2>2, <3>1, <3>2
    <3>4. s \in Ticks(MaxTime) /\ s <= b
      <4>1. ~(n <= s + WindowSize)
        BY <2>2, <3>2
      <4> HIDE DEF s
      <4> QED
        BY <1>1, <3>1, <4>1, TimesAssumption DEF Ticks, FromZero
    <3>5. h[n] = h[n + 1]
      BY <1>1, <2>2, <3>3 DEF WindowInv
    <3>6. h[n + 1] - h[s] \in 0..Limit
      BY <2>2 DEF WindowInv
    <3>7. h[s] \in Nat /\ h[s] <= h[b]
      BY <1>2, <3>4, HistoryFacts
    <3> HIDE DEF s, b
    <3> QED
      BY <1>1, <1>3, <3>5, <3>6, <3>7
  <2> QED
    BY <2>1, <2>2
<1>5. v.windowEnd - WindowSize = n
  BY <1>1
<1>6. \A t \in Ticks(MaxTime) : t > n => h[t] = h[n + 1]
  BY HistoryFacts
<1>7. v.count = h[n + 1] - h[n] /\ v.count \in 0..Limit
  BY <1>1, <1>3, <1>4
<1>8. n \in 0..n /\ n <= n + WindowSize /\ n + WindowSize \in Nat
  BY <1>1
<1> HIDE DEF b
<1> QED
  BY <1>4, <1>5, <1>6, <1>7, <1>8 DEF WindowInv, b

(* A request in the present window, which is admitted a, possibly nothing.  *)
LEMMA UsedWindow ==
  ASSUME NEW n \in 0..MaxTime, NEW h, IsHistory(h, MaxTime, n), NEW w, WindowInv(w, h, n), n <= w.windowEnd,
         NEW a \in Nat, w.count + a <= Limit,
         NEW g, IsHistory(g, MaxTime, n), g[n + 1] = h[n + 1] + a,
         \A t \in Ticks(MaxTime) : t <= n => g[t] = h[t],
         NEW v, v.count = w.count + a, v.windowEnd = w.windowEnd, v.lastAccess = n
  PROVE  WindowInv(v, g, n)
<1> DEFINE s == w.windowEnd - WindowSize
           b == FromZero(s - WindowSize - 1)
<1>1. n \in Nat /\ n + 1 \in Ticks(MaxTime) /\ WindowSize \in Nat \ {0} /\ Limit \in Nat
  BY TickFacts, WindowAssumption, LimitAssumption
<1>2. s \in Nat /\ s <= n /\ w.count \in Nat /\ w.count = h[n + 1] - h[s] /\ h[s] - h[b] <= Limit
  BY <1>1 DEF WindowInv
<1>3. s \in Ticks(MaxTime) /\ b \in Ticks(MaxTime) /\ b <= n
  <2> HIDE DEF s
  <2> QED
    BY <1>1, <1>2, TimesAssumption DEF Ticks, FromZero
<1>4. g[s] = h[s] /\ g[b] = h[b] /\ h[s] \in Nat /\ h[n + 1] \in Nat
  BY <1>1, <1>2, <1>3, HistoryFacts
<1>5. \A t \in Ticks(MaxTime) : t > n => g[t] = g[n + 1]
  BY HistoryFacts
<1>6. v.windowEnd - WindowSize = s /\ v.lastAccess = n /\ n <= v.windowEnd /\ v.windowEnd \in Nat /\ n \in 0..n /\ s \in 0..n
  BY <1>1, <1>2 DEF WindowInv
<1> HIDE DEF s, b
<1>7. v.count = g[n + 1] - g[s] /\ v.count \in 0..Limit /\ g[s] - g[b] <= Limit
  BY <1>1, <1>2, <1>4
<1> QED
  BY <1>5, <1>6, <1>7 DEF WindowInv, b

-----------------------------------------------------------------------------
(* The sliding window.  The timestamps of a key inside any part of the       *)
(* present window are as many as it was admitted there; those outside are   *)
(* dropped at its next request.                                            *)

Newer(S, c) == {m \in S : m[1] > c}

(* The n that AllowN appends at one tick, behind c timestamps.              *)
Batch(tick, c, n) == {<<tick, c + i>> : i \in 1..n}

(* A set of timestamps of a key with history h at tick n.                   *)
TimestampsInv(S, h, n) ==
    /\ S \subseteq (0..n) \X (1..Limit) /\ IsFiniteSet(S) /\ Cardinality(S) <= Limit
    /\ \A c \in (n - WindowSize)..n : Cardinality(Newer(S, c)) = h[n + 1] - h[FromZero(c + 1)]
    /\ \A m \in S : m[1] = n => m[2] <= Cardinality(Newer(S, n - WindowSize))

RequestsInv(r, h, n) ==
    /\ TimestampsInv(r.timestamps, h, n)
    /\ r.lastRead \in 0..n
    /\ \A m \in r.timestamps : m[1] <= r.lastRead
    /\ \A t \in Ticks(MaxTime) : t > r.lastRead => h[t] = h[n + 1]

NoRequestsInv(h, n) == h[n + 1] = h[FromZero(n - WindowSize + 1)]

(* n requests append n timestamps, equal as the times are.                 *)
LEMMA BatchSize ==
  ASSUME NEW tick, NEW c \in Nat, NEW n \in Nat
  PROVE  IsFiniteSet(Batch(tick, c, n)) /\ Cardinality(Batch(tick, c, n)) = n
<1> DEFINE f == [i \in 1..n |-> <<tick, c + i>>]
<1>1. IsFiniteSet(1..n) /\ Cardinality(1..n) = n
  BY FS_Interval
<1>2. f \in Surjection(1..n, Batch(tick, c, n))
  BY DEF Surjection, Batch
<1>3. f \in Injection(1..n, Batch(tick, c, n))
  <2>1. f \in [1..n -> Batch(tick, c, n)]
    BY DEF Batch
  <2>2. \A i, j \in 1..n : f[i] = f[j] => i = j
    BY DEF Batch
  <2> QED
    BY <2>1, <2>2 DEF Injection, IsInjective
<1> QED
  BY <1>1, <1>2, <1>3, FS_Surjection

(* The timestamps that a request finds valid.                               *)
LEMMA ValidInv ==
  ASSUME NEW n \in 0..MaxTime, NEW h, IsHistory(h, MaxTime, n), NEW S, TimestampsInv(S, h, n)
  PROVE  LET V == Newer(S, n - WindowSize) IN TimestampsInv(V, h, n) /\ Newer(V, n - WindowSize) = V
<1> DEFINE V == Newer(S, n - WindowSize)
<1>1. n \in Nat /\ WindowSize \in Nat \ {0} /\ Limit \in Nat
  BY TickFacts, WindowAssumption, LimitAssumption
<1>2. S \subseteq (0..n) \X (1..Limit) /\ IsFiniteSet(S) /\ Cardinality(S) <= Limit
  BY DEF TimestampsInv
<1>3. V \in SUBSET S
  BY DEF Newer
<1>4. IsFiniteSet(V) /\ Cardinality(V) <= Cardinality(S) /\ Cardinality(V) \in Nat /\ Cardinality(S) \in Nat
  BY <1>2, <1>3, FS_Subset, FS_CardinalityType
<1>5. \A m \in S : m[1] \in Int
  BY <1>1, <1>2
<1>6. \A c \in (n - WindowSize)..n : Newer(V, c) = Newer(S, c)
  BY <1>1, <1>5 DEF Newer
<1>7. n - WindowSize \in (n - WindowSize)..n
  BY <1>1
<1>8. Newer(V, n - WindowSize) = V
  BY <1>6, <1>7
<1> HIDE DEF V
<1>9. Cardinality(V) <= Limit /\ V \subseteq (0..n) \X (1..Limit)
  BY <1>1, <1>2, <1>3, <1>4
<1>10. \A c \in (n - WindowSize)..n : Cardinality(Newer(V, c)) = h[n + 1] - h[FromZero(c + 1)]
  BY <1>6 DEF TimestampsInv
<1>11. \A m \in V : m[1] = n => m[2] <= Cardinality(Newer(V, n - WindowSize))
  BY <1>3, <1>6, <1>7 DEF TimestampsInv
<1>12. TimestampsInv(V, h, n)
  BY <1>4, <1>9, <1>10, <1>11 DEF TimestampsInv
<1> QED
  BY <1>8, <1>12 DEF V

(* A key without requests has no valid timestamps.                          *)
LEMMA NoTimestampsInv ==
  ASSUME NEW n \in 0..MaxTime, NEW h, IsHistory(h, MaxTime, n), NoRequestsInv(h, n)
  PROVE  TimestampsInv({}, h, n) /\ Newer({}, n - WindowSize) = {}
<1>1. n \in Nat /\ WindowSize \in Nat \ {0} /\ Limit \in Nat /\ n + 1 \in Ticks(MaxTime) /\ MaxTime \in Nat
  BY TickFacts, WindowAssumption, LimitAssumption, TimesAssumption
<1>2. IsFiniteSet({}) /\ Cardinality({}) = 0 /\ \A c : Newer({}, c) = {}
  BY FS_EmptySet DEF Newer
<1>3. ASSUME NEW c \in (n - WindowSize)..n PROVE 0 = h[n + 1] - h[FromZero(c + 1)]
  <2> DEFINE a == FromZero(n - WindowSize + 1)
             b == FromZero(c + 1)
  <2>1. a \in Ticks(MaxTime) /\ b \in Ticks(MaxTime) /\ a <= b /\ b <= n + 1
    BY <1>1 DEF Ticks, FromZero
  <2> HIDE DEF a, b
  <2>2. h[a] \in Nat /\ h[b] \in Nat /\ h[n + 1] \in Nat /\ h[a] <= h[b] /\ h[b] <= h[n + 1]
    BY <1>1, <2>1, HistoryFacts
  <2>3. h[n + 1] = h[a]
    BY DEF NoRequestsInv, a
  <2>4. 0 = h[n + 1] - h[b]
    BY <2>2, <2>3
  <2> QED
    BY <2>4 DEF b
<1> QED
  BY <1>1, <1>2, <1>3 DEF TimestampsInv

(* The timestamps after a request that is admitted a, possibly nothing.     *)
LEMMA AppendedInv ==
  ASSUME NEW n \in 0..MaxTime, NEW h, IsHistory(h, MaxTime, n),
         NEW V, TimestampsInv(V, h, n), Newer(V, n - WindowSize) = V,
         NEW a \in Nat, Cardinality(V) + a <= Limit,
         NEW g, IsHistory(g, MaxTime, n), g[n + 1] = h[n + 1] + a,
         \A t \in Ticks(MaxTime) : t <= n => g[t] = h[t]
  PROVE  TimestampsInv(V \cup Batch(n, Cardinality(V), a), g, n)
<1> DEFINE k == Cardinality(V)
           B == Batch(n, k, a)
           T == V \cup B
<1>1. n \in Nat /\ WindowSize \in Nat \ {0} /\ Limit \in Nat /\ n + 1 \in Ticks(MaxTime) /\ MaxTime \in Nat
  BY TickFacts, WindowAssumption, LimitAssumption, TimesAssumption
<1>2. V \subseteq (0..n) \X (1..Limit) /\ IsFiniteSet(V) /\ k \in Nat
  BY FS_CardinalityType DEF TimestampsInv
<1>3. IsFiniteSet(B) /\ Cardinality(B) = a
  BY <1>2, BatchSize
<1>4. \A m \in V : m[1] \in Int /\ m[2] \in Int /\ (m[1] = n => m[2] <= k)
  BY <1>1, <1>2 DEF TimestampsInv
<1>5. \A m \in B : m[1] = n /\ m[2] \in Int /\ m[2] > k /\ m[2] <= k + a /\ m \in (0..n) \X (1..Limit)
  BY <1>1, <1>2 DEF Batch
<1>6. V \cap B = {}
  BY <1>2, <1>4, <1>5
<1> HIDE DEF B, k
<1>7. \A U \in SUBSET V : IsFiniteSet(U \cup B) /\ Cardinality(U \cup B) = Cardinality(U) + a
  <2> SUFFICES ASSUME NEW U \in SUBSET V PROVE IsFiniteSet(U \cup B) /\ Cardinality(U \cup B) = Cardinality(U) + a
    OBVIOUS
  <2>1. IsFiniteSet(U) /\ Cardinality(U) \in Nat
    BY <1>2, FS_Subset, FS_CardinalityType
  <2>2. U \cap B = {} /\ Cardinality({}) = 0
    BY <1>6, FS_EmptySet
  <2> QED
    BY <1>3, <2>1, <2>2, FS_Union
<1>8. IsFiniteSet(T) /\ Cardinality(T) = k + a /\ T \subseteq (0..n) \X (1..Limit) /\ k + a <= Limit
  BY <1>2, <1>5, <1>7 DEF k
<1>9. Newer(T, n - WindowSize) = T
  BY <1>1, <1>5 DEF Newer
<1>10. \A m \in T : m[1] = n => m[2] <= k + a
  BY <1>2, <1>4, <1>5
<1>11. ASSUME NEW c \in (n - WindowSize)..n
       PROVE  Cardinality(Newer(T, c)) = g[n + 1] - g[FromZero(c + 1)]
  <2> DEFINE b == FromZero(c + 1)
  <2>1. Cardinality(Newer(V, c)) = h[n + 1] - h[b]
    BY DEF TimestampsInv
  <2>2. CASE c < n
    <3>1. b \in Ticks(MaxTime) /\ b <= n
      BY <1>1, <2>2 DEF Ticks, FromZero
    <3>2. g[b] = h[b] /\ h[b] \in Nat /\ h[n + 1] \in Nat
      BY <1>1, <3>1, HistoryFacts
    <3>3. Newer(T, c) = Newer(V, c) \cup B /\ Newer(V, c) \in SUBSET V
      BY <1>1, <1>5, <2>2 DEF Newer
    <3>4. Cardinality(Newer(T, c)) = Cardinality(Newer(V, c)) + a
      BY <1>7, <3>3
    <3> HIDE DEF b
    <3> QED
      BY <2>1, <3>2, <3>4 DEF b
  <2>3. CASE c = n
    <3>1. Newer(T, c) = {}
      <4>1. \A m \in T : m[1] \in Int /\ m[1] <= n
        BY <1>1, <1>2, <1>5
      <4> QED
        BY <1>1, <2>3, <4>1 DEF Newer
    <3>2. b = n + 1 /\ g[n + 1] \in Nat
      BY <1>1, <2>3, HistoryFacts DEF FromZero
    <3> QED
      BY <3>1, <3>2, FS_EmptySet
  <2> QED
    BY <1>1, <2>2, <2>3
<1>12. TimestampsInv(T, g, n)
  BY <1>8, <1>9, <1>10, <1>11 DEF TimestampsInv
<1> QED
  BY <1>12 DEF B, k

(* Time passes over timestamps, and over the lack of any.                   *)
LEMMA TimestampsTick ==
  ASSUME NEW n \in 0..MaxTime, n < MaxTime, NEW h, IsHistory(h, MaxTime, n), NEW S, TimestampsInv(S, h, n)
  PROVE  TimestampsInv(S, h, n + 1)
<1> DEFINE p == n + 1
<1>1. h[p + 1] = h[n + 1]
  BY HistoryTick, TimesAssumption
<1>2. n \in Nat /\ WindowSize \in Nat \ {0} /\ Limit \in Nat /\ n + 1 \in Ticks(MaxTime) /\ MaxTime \in Nat
  BY TickFacts, WindowAssumption, LimitAssumption, TimesAssumption
<1>3. S \subseteq (0..n) \X (1..Limit) /\ IsFiniteSet(S) /\ Cardinality(S) <= Limit
  BY DEF TimestampsInv
<1>4. \A m \in S : m[1] \in Int /\ m[1] <= n /\ m[1] # p
  BY <1>2, <1>3
<1>5. S \subseteq (0..p) \X (1..Limit)
  <2>1. 0..n \subseteq 0..p
    BY <1>2
  <2> HIDE DEF p
  <2> QED
    BY <1>3, <2>1
<1>6. ASSUME NEW c \in (p - WindowSize)..p
      PROVE  Cardinality(Newer(S, c)) = h[p + 1] - h[FromZero(c + 1)]
  <2>1. CASE c <= n
    <3>1. c \in (n - WindowSize)..n
      BY <1>2, <2>1
    <3> QED
      BY <1>1, <3>1 DEF TimestampsInv
  <2>2. CASE c = p
    <3>1. Newer(S, c) = {}
      BY <1>2, <1>4, <2>2 DEF Newer
    <3>2. FromZero(c + 1) = p + 1 /\ h[n + 1] \in Nat
      BY <1>2, <2>2, HistoryFacts DEF FromZero
    <3> QED
      BY <1>1, <3>1, <3>2, FS_EmptySet
  <2> QED
    BY <1>2, <2>1, <2>2
<1> HIDE DEF p
<1>7. TimestampsInv(S, h, p)
  BY <1>3, <1>4, <1>5, <1>6 DEF TimestampsInv
<1> QED
  BY <1>7 DEF p

(* Time passes over the timestamps of a key.                               *)
LEMMA RequestsTick ==
  ASSUME NEW n \in 0..MaxTime, n < MaxTime, NEW h, IsHistory(h, MaxTime, n), NEW r, RequestsInv(r, h, n)
  PROVE  RequestsInv(r, h, n + 1)
<1>1. h[(n + 1) + 1] = h[n + 1] /\ 0..n \subseteq 0..(n + 1)
  BY HistoryTick, TimesAssumption
<1>2. TimestampsInv(r.timestamps, h, n + 1)
  BY TimestampsTick DEF RequestsInv
<1> QED
  BY <1>1, <1>2 DEF RequestsInv

(* Time passes over the lack of timestamps.                                *)
LEMMA NoRequestsTick ==
  ASSUME NEW n \in 0..MaxTime, n < MaxTime, NEW h, IsHistory(h, MaxTime, n), NoRequestsInv(h, n)
  PROVE  NoRequestsInv(h, n + 1)
<1> DEFINE a == FromZero(n - WindowSize + 1)
           p == n + 1
           b == FromZero(p - WindowSize + 1)
<1>1. h[p + 1] = h[n + 1]
  BY HistoryTick, TimesAssumption
<1>2. n \in Nat /\ WindowSize \in Nat \ {0} /\ n + 1 \in Ticks(MaxTime) /\ MaxTime \in Nat
  BY TickFacts, WindowAssumption, TimesAssumption
<1>3. a \in Ticks(MaxTime) /\ b \in Ticks(MaxTime) /\ a <= b /\ b <= n + 1
  BY <1>2 DEF Ticks, FromZero
<1>4. h[n + 1] = h[a]
  BY DEF NoRequestsInv
<1> HIDE DEF a, b, p
<1>5. h[a] \in Nat /\ h[b] \in Nat /\ h[n + 1] \in Nat /\ h[a] <= h[b] /\ h[b] <= h[n + 1]
  BY <1>2, <1>3, HistoryFacts
<1>6. h[p + 1] = h[b]
  BY <1>1, <1>4, <1>5
<1>7. NoRequestsInv(h, p)
  BY <1>6 DEF NoRequestsInv, b
<1> QED
  BY <1>7 DEF p

(* Cleanup drops timestamps that are no longer valid.                       *)
LEMMA DroppedRequests ==
  ASSUME WindowsOutlived, NEW n \in 0..MaxTime, NEW h, IsHistory(h, MaxTime, n), NEW r, RequestsInv(r, h, n),
         r.lastRead < n - WindowCleanupAge
  PROVE  NoRequestsInv(h, n) /\ Newer(r.timestamps, n - WindowSize) = {}
<1> DEFINE a == FromZero(n - WindowSize + 1)
           last == r.lastRead
<1>1. /\ n \in Nat /\ WindowSize \in Nat \ {0} /\ n + 1 \in Ticks(MaxTime) /\ MaxTime \in Nat
      /\ WindowCleanupAge \in Nat /\ WindowSize <= WindowCleanupAge /\ Limit \in Nat
  BY TickFacts, WindowAssumption, TimesAssumption, LimitAssumption DEF WindowsOutlived
<1>2. last \in Nat /\ last < n - WindowCleanupAge
  BY DEF RequestsInv
<1>3. \A m \in r.timestamps : m[1] \in Int /\ m[1] <= last
  BY <1>1 DEF RequestsInv, TimestampsInv
<1> HIDE DEF last
<1>4. a \in Ticks(MaxTime) /\ a > last
  BY <1>1, <1>2 DEF Ticks, FromZero
<1>5. h[a] = h[n + 1]
  BY <1>4 DEF RequestsInv, last
<1>6. Newer(r.timestamps, n - WindowSize) = {}
  BY <1>1, <1>2, <1>3 DEF Newer
<1> QED
  BY <1>5, <1>6 DEF NoRequestsInv

-----------------------------------------------------------------------------
(* The limiter.                                                            *)

FixedInv(k) ==
    /\ k \in DOMAIN windows => WindowInv(windows[k], admitted[k], now)
    /\ k \notin DOMAIN windows => NoWindowInv(admitted[k], now)

SlidingInv(k) ==
    /\ k \in DOMAIN requests => RequestsInv(requests[k], admitted[k], now)
    /\ k \notin DOMAIN requests => NoRequestsInv(admitted[k], now)

LimiterInv ==
    /\ LimiterTypeOK
    /\ \A k \in Keys : IsHistory(admitted[k], MaxTime, now)
    /\ algorithm = "fixed" => \A k \in Keys : FixedInv(k)
    /\ algorithm = "sliding" => \A k \in Keys : SlidingInv(k)

(* int64 additions of what is within the limit and an amount.               *)
LEMMA SumsFit ==
  ASSUME NoWrap, NEW c \in 0..Limit, NEW n \in Amounts
  PROVE  AddInt64(c, n) = c + n /\ c + n \in Nat
<1>1. n \in Nat /\ Limit \in Nat /\ IntMax \in Int /\ Limit + n <= IntMax
  BY WindowAssumption, AmountsAssumption, LimitAssumption DEF NoWrap
<1> QED
  BY <1>1 DEF AddInt64

(* A history without grants.                                                *)
LEMMA NothingAdmitted ==
  ASSUME NEW n \in 0..MaxTime
  PROVE  LET h == NoHistory(MaxTime)
         IN  h \in Histories(MaxTime) /\ IsHistory(h, MaxTime, n) /\ NoWindowInv(h, n) /\ NoRequestsInv(h, n)
<1> DEFINE h == NoHistory(MaxTime)
<1>1. IsHistory(h, MaxTime, n) /\ \A t \in Ticks(MaxTime) : h[t] = 0
  BY NoHistoryIs, TimesAssumption
<1>2. /\ n \in Nat /\ WindowSize \in Nat \ {0} /\ n + 1 \in Ticks(MaxTime) /\ MaxTime \in Nat /\ Limit \in Nat
  BY TickFacts, WindowAssumption, TimesAssumption, LimitAssumption
<1>3. /\ FromZero(n - WindowSize) \in Ticks(MaxTime) /\ FromZero(n - WindowSize - 1) \in Ticks(MaxTime)
      /\ FromZero(n - WindowSize + 1) \in Ticks(MaxTime)
  BY <1>2 DEF Ticks, FromZero
<1> HIDE DEF h
<1>4. NoWindowInv(h, n) /\ NoRequestsInv(h, n)
  BY <1>1, <1>2, <1>3 DEF NoWindowInv, NoRequestsInv
<1>5. h \in Histories(MaxTime)
  BY <1>1 DEF IsHistory
<1> QED
  BY <1>1, <1>4, <1>5 DEF h


WindowType(n) == [count : 0..Limit, windowEnd : 0..(MaxTime + WindowSize), lastAccess : 0..n]

RequestType(n) == [timestamps : SUBSET ((0..n) \X (1..Limit)), lastRead : 0..n]

(* A request that the window cw admits or refuses.                          *)
LEMMA FixedStep ==
  ASSUME NoWrap, NEW n \in 0..MaxTime, NEW h, IsHistory(h, MaxTime, n),
         NEW cw \in WindowType(n), WindowInv(cw, h, n), n <= cw.windowEnd, NEW amount \in Amounts,
         NEW admits \in BOOLEAN, admits <=> (cw.count < Limit /\ AddInt64(cw.count, amount) <= Limit)
  PROVE  LET v == [cw EXCEPT !.lastAccess = n, !.count = IF admits THEN AddInt64(@, amount) ELSE @]
             g == IF admits THEN Granted(h, n, amount) ELSE h
         IN  IsHistory(g, MaxTime, n) /\ WindowInv(v, g, n) /\ v \in WindowType(n)
<1> DEFINE c == IF admits THEN AddInt64(cw.count, amount) ELSE cw.count
           v == [cw EXCEPT !.lastAccess = n, !.count = c]
           g == IF admits THEN Granted(h, n, amount) ELSE h
           a == IF admits THEN amount ELSE 0
<1>1. amount \in Nat /\ Limit \in Nat /\ MaxTime \in Nat /\ n \in Nat /\ a \in Nat /\ n \in 0..n
  BY AmountsAssumption, LimitAssumption, TimesAssumption
<1>2. cw.count \in 0..Limit
  BY DEF WindowType
<1>3. AddInt64(cw.count, amount) = cw.count + amount /\ cw.count \in Nat
  BY <1>1, <1>2, SumsFit
<1>4. c = cw.count + a /\ c \in 0..Limit /\ cw.count + a <= Limit
  BY <1>1, <1>2, <1>3
<1>5. IsHistory(g, MaxTime, n) /\ g[n + 1] = h[n + 1] + a /\ \A t \in Ticks(MaxTime) : t <= n => g[t] = h[t]
  <2>1. CASE admits
    BY <1>1, <2>1, HistoryGranted
  <2>2. CASE ~admits
    <3>1. h[n + 1] \in Nat
      BY HistoryFacts, TickFacts
    <3> QED
      BY <1>1, <2>2, <3>1
  <2> QED
    BY <2>1, <2>2
<1> HIDE DEF a, c, g
<1>6. v \in WindowType(n) /\ v.count = c /\ v.windowEnd = cw.windowEnd /\ v.lastAccess = n
  <2>1. n \in 0..n /\ c \in 0..Limit /\ v = [cw EXCEPT !.lastAccess = n, !.count = c]
    BY <1>1, <1>4
  <2> QED
    BY <2>1 DEF WindowType
<1> HIDE DEF v
<1>7. v.count = cw.count + a
  BY <1>4, <1>6
<1>8. WindowInv(v, g, n)
  BY <1>1, <1>4, <1>5, <1>6, <1>7, UsedWindow
<1>9. IsHistory(g, MaxTime, n) /\ WindowInv(v, g, n) /\ v \in WindowType(n)
  BY <1>5, <1>6, <1>8
<1> QED
  BY <1>9 DEF v, c, g

(* What cleanup leaves of the windows.                                      *)
LEMMA KeptWindowsInv ==
  ASSUME WindowsOutlived, LimiterInv, algorithm = "fixed"
  PROVE  /\ DOMAIN KeptWindows \subseteq Keys
         /\ \A j \in DOMAIN KeptWindows : KeptWindows[j] \in WindowType(now) /\ WindowInv(KeptWindows[j], admitted[j], now)
         /\ \A j \in Keys \ DOMAIN KeptWindows : NoWindowInv(admitted[j], now)
<1>1. now \in 0..MaxTime /\ DOMAIN windows \subseteq Keys /\ \A j \in Keys : IsHistory(admitted[j], MaxTime, now) /\ FixedInv(j)
  BY DEF LimiterInv, LimiterTypeOK, BucketTypeOK
<1>2. \A j \in DOMAIN windows : windows[j] \in WindowType(now) /\ WindowInv(windows[j], admitted[j], now)
  BY <1>1 DEF LimiterInv, LimiterTypeOK, FixedInv, WindowType
<1>3. DOMAIN KeptWindows \subseteq DOMAIN windows /\ \A j \in DOMAIN KeptWindows : KeptWindows[j] = windows[j]
  BY DEF KeptWindows, FixedCleanup
<1>4. ASSUME NEW j \in Keys \ DOMAIN KeptWindows PROVE NoWindowInv(admitted[j], now)
  <2>1. CASE j \in DOMAIN windows
    <3>1. ~(windows[j].lastAccess >= now - WindowCleanupAge)
      BY <2>1 DEF KeptWindows, FixedCleanup
    <3>2. windows[j].lastAccess \in Int /\ now - WindowCleanupAge \in Int
      BY <1>1, <1>2, <2>1, WindowAssumption, TimesAssumption DEF WindowType
    <3>3. windows[j].lastAccess < now - WindowCleanupAge
      BY <3>1, <3>2
    <3> QED
      BY <1>1, <1>2, <2>1, <3>3, DroppedWindow
  <2>2. CASE j \notin DOMAIN windows
    BY <1>1, <2>2 DEF FixedInv
  <2> QED
    BY <2>1, <2>2
<1> QED
  BY <1>1, <1>2, <1>3, <1>4

(* The window that a request counts in.                                     *)
LEMMA CurrentWindowInv ==
  ASSUME WindowsOutlived, LimiterInv, algorithm = "fixed", NEW k \in Keys
  PROVE  LET cw == CurrentWindow(KeptWindows, k)
         IN  cw \in WindowType(now) /\ WindowInv(cw, admitted[k], now) /\ now <= cw.windowEnd
<1> DEFINE cw == CurrentWindow(KeptWindows, k)
<1>1. now \in 0..MaxTime /\ IsHistory(admitted[k], MaxTime, now) /\ now \in Nat /\ Limit \in Nat
      /\ WindowSize \in Nat /\ MaxTime \in Nat
  BY TimesAssumption, LimitAssumption, WindowAssumption DEF LimiterInv, LimiterTypeOK, BucketTypeOK
<1>2. CASE k \in DOMAIN KeptWindows /\ now <= KeptWindows[k].windowEnd
  BY <1>2, KeptWindowsInv DEF CurrentWindow
<1>3. CASE ~(k \in DOMAIN KeptWindows /\ now <= KeptWindows[k].windowEnd)
  <2>1. cw = [count |-> 0, windowEnd |-> now + WindowSize, lastAccess |-> now]
    BY <1>3 DEF CurrentWindow
  <2>2. cw.count = 0 /\ cw.windowEnd = now + WindowSize /\ cw.lastAccess = now
    BY <2>1
  <2>3. \/ NoWindowInv(admitted[k], now)
        \/ \E w : WindowInv(w, admitted[k], now) /\ ~(now <= w.windowEnd)
    BY <1>3, KeptWindowsInv
  <2> HIDE DEF cw
  <2>4. WindowInv(cw, admitted[k], now)
    BY <1>1, <2>2, <2>3, FreshWindow
  <2>5. now <= now + WindowSize /\ now + WindowSize \in 0..(MaxTime + WindowSize) /\ now \in 0..now /\ 0 \in 0..Limit
    BY <1>1
  <2>6. cw \in WindowType(now)
    BY <2>1, <2>5 DEF WindowType
  <2> QED
    BY <2>2, <2>4, <2>5, <2>6 DEF cw
<1> QED
  BY <1>2, <1>3

(* A request to the fixed window.                                           *)
LEMMA FixedAllowNKeeps ==
  ASSUME NoWrap, WindowsOutlived, LimiterInv, NEW k \in Keys, NEW n \in Amounts, FixedAllowN(k, n)
  PROVE  LimiterInv'
<1> DEFINE cw == CurrentWindow(KeptWindows, k)
           admits == FixedAdmits(k, n)
           h == admitted[k]
           v == [cw EXCEPT !.lastAccess = now, !.count = IF admits THEN AddInt64(@, n) ELSE @]
           g == IF admits THEN Granted(h, now, n) ELSE h
<1>1. /\ algorithm = "fixed" /\ windows' = Put(KeptWindows, k, v) /\ requests' = requests
      /\ Charge(k, n, admits)
  BY DEF FixedAllowN
<1>2. BucketTypeOK' /\ UNCHANGED <<algorithm, now, tokens, debt>> /\ now \in 0..MaxTime
  BY <1>1, ChargeFrame DEF LimiterInv, LimiterTypeOK, BucketTypeOK
<1>3. /\ admitted \in [Keys -> Histories(MaxTime)] /\ \A j \in Keys : IsHistory(admitted[j], MaxTime, now)
      /\ algorithm \in Algorithms /\ tokens = NoEntries /\ requests = NoEntries
  BY <1>1 DEF LimiterInv, LimiterTypeOK
<1>4. admitted' = [admitted EXCEPT ![k] = g]
  BY <1>1, <1>3 DEF Charge
<1>5. cw \in WindowType(now) /\ WindowInv(cw, h, now) /\ now <= cw.windowEnd
  BY <1>1, CurrentWindowInv
<1>6. admits \in BOOLEAN /\ (admits <=> (cw.count < Limit /\ AddInt64(cw.count, n) <= Limit))
  BY DEF FixedAdmits
<1> HIDE DEF cw, admits, v, g
<1>7. IsHistory(g, MaxTime, now) /\ WindowInv(v, g, now) /\ v \in WindowType(now)
  <2>1. IsHistory(h, MaxTime, now)
    BY <1>3
  <2> HIDE DEF h
  <2> QED
    BY <1>2, <1>5, <1>6, <2>1, FixedStep DEF v, g
<1>8. g \in Histories(MaxTime)
  BY <1>7 DEF IsHistory
<1>9. admitted' \in [Keys -> Histories(MaxTime)] /\ admitted'[k] = g /\ \A j \in Keys : j # k => admitted'[j] = admitted[j]
  BY <1>3, <1>4, <1>8
<1>10. /\ DOMAIN windows' = DOMAIN KeptWindows \cup {k} /\ windows'[k] = v
       /\ \A j \in DOMAIN KeptWindows : j # k => windows'[j] = KeptWindows[j]
  BY <1>1 DEF Put
<1>11. /\ DOMAIN KeptWindows \subseteq Keys
       /\ \A j \in DOMAIN KeptWindows : KeptWindows[j] \in WindowType(now) /\ WindowInv(KeptWindows[j], admitted[j], now)
       /\ \A j \in Keys \ DOMAIN KeptWindows : NoWindowInv(admitted[j], now)
  BY <1>1, KeptWindowsInv
<1>12. DOMAIN windows' \subseteq Keys /\ \A j \in DOMAIN windows' : windows'[j] \in WindowType(now)
  BY <1>7, <1>10, <1>11
<1>13. \A j \in Keys : IsHistory(admitted'[j], MaxTime, now)
  BY <1>3, <1>7, <1>9
<1>14. \A j \in Keys : FixedInv(j)'
  <2> SUFFICES ASSUME NEW j \in Keys
               PROVE  /\ j \in DOMAIN windows' => WindowInv(windows'[j], admitted'[j], now)
                      /\ j \notin DOMAIN windows' => NoWindowInv(admitted'[j], now)
    BY <1>2 DEF FixedInv, WindowInv, NoWindowInv
  <2>1. CASE j = k
    BY <1>7, <1>9, <1>10, <2>1
  <2>2. CASE j # k
    BY <1>9, <1>10, <1>11, <2>2
  <2> QED
    BY <2>1, <2>2
<1>15. DOMAIN requests' = {}
  BY <1>1, <1>3 DEF NoEntries
<1>16. LimiterTypeOK'
  BY <1>1, <1>2, <1>3, <1>9, <1>12, <1>15 DEF LimiterTypeOK, WindowType
<1> QED
  BY <1>1, <1>2, <1>13, <1>14, <1>16 DEF LimiterInv

(* What cleanup leaves of the timestamps.                                   *)
LEMMA KeptRequestsInv ==
  ASSUME WindowsOutlived, LimiterInv, algorithm = "sliding"
  PROVE  /\ DOMAIN KeptRequests \subseteq Keys
         /\ \A j \in DOMAIN KeptRequests :
               KeptRequests[j] \in RequestType(now) /\ RequestsInv(KeptRequests[j], admitted[j], now)
         /\ \A j \in Keys \ DOMAIN KeptRequests :
               NoRequestsInv(admitted[j], now) /\ ValidTimestamps(requests, j) = {}
         /\ \A j \in DOMAIN KeptRequests : KeptRequests[j] = requests[j] /\ j \in DOMAIN requests
<1>1. now \in 0..MaxTime /\ DOMAIN requests \subseteq Keys /\ \A j \in Keys : IsHistory(admitted[j], MaxTime, now) /\ SlidingInv(j)
  BY DEF LimiterInv, LimiterTypeOK, BucketTypeOK
<1>2. \A j \in DOMAIN requests : requests[j] \in RequestType(now) /\ RequestsInv(requests[j], admitted[j], now)
  BY <1>1 DEF LimiterInv, LimiterTypeOK, SlidingInv, RequestType
<1>3. DOMAIN KeptRequests \subseteq DOMAIN requests /\ \A j \in DOMAIN KeptRequests : KeptRequests[j] = requests[j]
  BY DEF KeptRequests, SlidingCleanup
<1>4. ASSUME NEW j \in Keys \ DOMAIN KeptRequests
      PROVE  NoRequestsInv(admitted[j], now) /\ ValidTimestamps(requests, j) = {}
  <2>1. CASE j \in DOMAIN requests
    <3>1. ~(requests[j].lastRead >= now - WindowCleanupAge)
      BY <2>1 DEF KeptRequests, SlidingCleanup
    <3>2. requests[j].lastRead \in Int /\ now - WindowCleanupAge \in Int
      BY <1>1, <1>2, <2>1, WindowAssumption, TimesAssumption DEF RequestType
    <3>3. requests[j].lastRead < now - WindowCleanupAge
      BY <3>1, <3>2
    <3>4. NoRequestsInv(admitted[j], now) /\ Newer(requests[j].timestamps, now - WindowSize) = {}
      BY <1>1, <1>2, <2>1, <3>3, DroppedRequests
    <3> QED
      BY <2>1, <3>4 DEF ValidTimestamps, Newer
  <2>2. CASE j \notin DOMAIN requests
    BY <1>1, <2>2 DEF SlidingInv, ValidTimestamps
  <2> QED
    BY <2>1, <2>2
<1> QED
  BY <1>1, <1>2, <1>3, <1>4

(* The timestamps that a request finds valid, before and after cleanup.     *)
LEMMA ValidTimestampsInv ==
  ASSUME WindowsOutlived, LimiterInv, algorithm = "sliding", NEW k \in Keys
  PROVE  LET V == ValidTimestamps(KeptRequests, k)
         IN  /\ TimestampsInv(V, admitted[k], now) /\ Newer(V, now - WindowSize) = V
             /\ ValidTimestamps(requests, k) = V
<1> DEFINE V == ValidTimestamps(KeptRequests, k)
<1>1. now \in 0..MaxTime /\ IsHistory(admitted[k], MaxTime, now)
  BY DEF LimiterInv, LimiterTypeOK, BucketTypeOK
<1>2. CASE k \in DOMAIN KeptRequests
  <2>1. V = Newer(KeptRequests[k].timestamps, now - WindowSize)
    BY <1>2 DEF ValidTimestamps, Newer
  <2>2. TimestampsInv(KeptRequests[k].timestamps, admitted[k], now)
    BY <1>2, KeptRequestsInv DEF RequestsInv
  <2>3. TimestampsInv(V, admitted[k], now) /\ Newer(V, now - WindowSize) = V
    <3> HIDE DEF V
    <3> QED
      BY <1>1, <2>1, <2>2, ValidInv
  <2>4. ValidTimestamps(requests, k) = V
    BY <1>2, KeptRequestsInv DEF ValidTimestamps
  <2> QED
    BY <2>3, <2>4
<1>3. CASE k \notin DOMAIN KeptRequests
  <2>1. V = {}
    BY <1>3 DEF ValidTimestamps
  <2>2. NoRequestsInv(admitted[k], now) /\ ValidTimestamps(requests, k) = {}
    BY <1>3, KeptRequestsInv
  <2> HIDE DEF V
  <2> QED
    BY <1>1, <2>1, <2>2, NoTimestampsInv DEF V
<1> QED
  BY <1>2, <1>3

(* A request that finds the timestamps V valid and is admitted or refused.  *)
LEMMA SlidingStep ==
  ASSUME NoWrap, NEW n \in 0..MaxTime, NEW h, IsHistory(h, MaxTime, n),
         NEW V, TimestampsInv(V, h, n), Newer(V, n - WindowSize) = V, NEW amount \in Amounts,
         NEW admits \in BOOLEAN,
         admits <=> (Cardinality(V) < Limit /\ AddInt64(Cardinality(V), amount) <= Limit)
  PROVE  LET T == IF admits THEN V \cup {<<n, Cardinality(V) + i>> : i \in 1..amount} ELSE V
             g == IF admits THEN Granted(h, n, amount) ELSE h
             r == [timestamps |-> T, lastRead |-> n]
         IN  IsHistory(g, MaxTime, n) /\ RequestsInv(r, g, n) /\ r \in RequestType(n)
<1> DEFINE B == {<<n, Cardinality(V) + i>> : i \in 1..amount}
           T == IF admits THEN V \cup B ELSE V
           g == IF admits THEN Granted(h, n, amount) ELSE h
           r == [timestamps |-> T, lastRead |-> n]
<1>1. amount \in Nat /\ Limit \in Nat /\ MaxTime \in Nat /\ n \in Nat /\ n \in 0..n
  BY AmountsAssumption, LimitAssumption, TimesAssumption
<1>2. Cardinality(V) \in 0..Limit
  <2>1. IsFiniteSet(V) /\ Cardinality(V) <= Limit
    BY DEF TimestampsInv
  <2> QED
    BY <1>1, <2>1, FS_CardinalityType
<1>3. IsHistory(g, MaxTime, n) /\ TimestampsInv(T, g, n)
  <2>1. CASE admits
    <3>1. AddInt64(Cardinality(V), amount) = Cardinality(V) + amount
      BY <1>2, SumsFit
    <3>2. Cardinality(V) + amount <= Limit
      BY <2>1, <3>1
    <3>3. /\ IsHistory(g, MaxTime, n) /\ g[n + 1] = h[n + 1] + amount
          /\ \A t \in Ticks(MaxTime) : t <= n => g[t] = h[t]
      BY <1>1, <2>1, HistoryGranted
    <3>4. B = Batch(n, Cardinality(V), amount) /\ T = V \cup B
      BY <2>1 DEF Batch
    <3> HIDE DEF g, B, T
    <3>5. TimestampsInv(V \cup Batch(n, Cardinality(V), amount), g, n)
      BY <1>1, <3>2, <3>3, AppendedInv
    <3> QED
      BY <3>3, <3>4, <3>5
  <2>2. CASE ~admits
    BY <2>2
  <2> QED
    BY <2>1, <2>2
<1> HIDE DEF g, T
<1>4. T \subseteq (0..n) \X (1..Limit)
  BY <1>3 DEF TimestampsInv
<1>5. r \in RequestType(n) /\ r.timestamps = T /\ r.lastRead = n
  BY <1>1, <1>4 DEF RequestType
<1>6. \A m \in T : m[1] <= n
  BY <1>1, <1>4
<1>7. \A t \in Ticks(MaxTime) : t > n => g[t] = g[n + 1]
  BY <1>3, HistoryFacts
<1> HIDE DEF r
<1>8. RequestsInv(r, g, n)
  BY <1>1, <1>3, <1>5, <1>6, <1>7 DEF RequestsInv
<1> QED
  BY <1>3, <1>5, <1>8 DEF r, T, g

(* A request to the sliding window.                                         *)
LEMMA SlidingAllowNKeeps ==
  ASSUME NoWrap, WindowsOutlived, LimiterInv, NEW k \in Keys, NEW n \in Amounts, SlidingAllowN(k, n)
  PROVE  LimiterInv'
<1> DEFINE V == ValidTimestamps(KeptRequests, k)
           admits == SlidingAdmits(k, n)
           h == admitted[k]
           T == IF admits THEN V \cup {<<now, Cardinality(V) + i>> : i \in 1..n} ELSE V
           r == [timestamps |-> T, lastRead |-> now]
           g == IF admits THEN Granted(h, now, n) ELSE h
<1>1. /\ algorithm = "sliding" /\ requests' = Put(KeptRequests, k, r) /\ windows' = windows
      /\ Charge(k, n, admits)
  BY DEF SlidingAllowN
<1>2. BucketTypeOK' /\ UNCHANGED <<algorithm, now, tokens, debt>> /\ now \in 0..MaxTime
  BY <1>1, ChargeFrame DEF LimiterInv, LimiterTypeOK, BucketTypeOK
<1>3. /\ admitted \in [Keys -> Histories(MaxTime)] /\ \A j \in Keys : IsHistory(admitted[j], MaxTime, now)
      /\ algorithm \in Algorithms /\ tokens = NoEntries /\ windows = NoEntries
  BY <1>1 DEF LimiterInv, LimiterTypeOK
<1>4. admitted' = [admitted EXCEPT ![k] = g]
  BY <1>1, <1>3 DEF Charge
<1>5. TimestampsInv(V, h, now) /\ Newer(V, now - WindowSize) = V
  BY <1>1, ValidTimestampsInv
<1>6. admits \in BOOLEAN /\ (admits <=> (Cardinality(V) < Limit /\ AddInt64(Cardinality(V), n) <= Limit))
  BY DEF SlidingAdmits
<1> HIDE DEF V, admits, T, r, g
<1>7. IsHistory(g, MaxTime, now) /\ RequestsInv(r, g, now) /\ r \in RequestType(now)
  <2>1. IsHistory(h, MaxTime, now)
    BY <1>3
  <2> HIDE DEF h
  <2> QED
    BY <1>2, <1>5, <1>6, <2>1, SlidingStep DEF T, r, g
<1>8. g \in Histories(MaxTime)
  BY <1>7 DEF IsHistory
<1>9. admitted' \in [Keys -> Histories(MaxTime)] /\ admitted'[k] = g /\ \A j \in Keys : j # k => admitted'[j] = admitted[j]
  BY <1>3, <1>4, <1>8
<1>10. /\ DOMAIN requests' = DOMAIN KeptRequests \cup {k} /\ requests'[k] = r
       /\ \A j \in DOMAIN KeptRequests : j # k => requests'[j] = KeptRequests[j]
  BY <1>1 DEF Put
<1>11. /\ DOMAIN KeptRequests \subseteq Keys
       /\ \A j \in DOMAIN KeptRequests : KeptRequests[j] \in RequestType(now) /\ RequestsInv(KeptRequests[j], admitted[j], now)
       /\ \A j \in Keys \ DOMAIN KeptRequests : NoRequestsInv(admitted[j], now)
  BY <1>1, KeptRequestsInv
<1>12. DOMAIN requests' \subseteq Keys /\ \A j \in DOMAIN requests' : requests'[j] \in RequestType(now)
  BY <1>7, <1>10, <1>11
<1>13. \A j \in Keys : IsHistory(admitted'[j], MaxTime, now)
  BY <1>3, <1>7, <1>9
<1>14. \A j \in Keys : /\ j \in DOMAIN requests' => RequestsInv(requests'[j], admitted'[j], now)
                       /\ j \notin DOMAIN requests' => NoRequestsInv(admitted'[j], now)
  <2> SUFFICES ASSUME NEW j \in Keys
               PROVE  /\ j \in DOMAIN requests' => RequestsInv(requests'[j], admitted'[j], now)
                      /\ j \notin DOMAIN requests' => NoRequestsInv(admitted'[j], now)
    OBVIOUS
  <2>1. CASE j = k
    BY <1>7, <1>9, <1>10, <2>1
  <2>2. CASE j # k
    BY <1>9, <1>10, <1>11, <2>2
  <2> QED
    BY <2>1, <2>2
<1>15. DOMAIN windows' = {}
  BY <1>1, <1>3 DEF NoEntries
<1>16. \A j \in DOMAIN requests' : Cardinality(requests'[j].timestamps) <= Limit
  BY <1>12, <1>14 DEF RequestsInv, TimestampsInv
<1>17. LimiterTypeOK'
  BY <1>1, <1>2, <1>3, <1>9, <1>12, <1>15, <1>16 DEF LimiterTypeOK, RequestType
<1>18. \A j \in Keys : SlidingInv(j)'
  BY <1>2, <1>14 DEF SlidingInv
<1> QED
  BY <1>1, <1>2, <1>13, <1>17, <1>18 DEF LimiterInv

(* Time passes over the limiter.                                            *)
LEMMA TickKeeps ==
  ASSUME LimiterInv, Tick
  PROVE  LimiterInv'
<1>1. BucketTick /\ UNCHANGED <<algorithm, windows, requests, admitted>> /\ tokens' = tokens /\ now' = now + 1
      /\ now \in 0..MaxTime /\ now < MaxTime
  BY DEF Tick, BucketTick, LimiterInv, LimiterTypeOK, BucketTypeOK
<1>2. BucketTypeOK'
  BY <1>1, TickKeepsType DEF LimiterInv, LimiterTypeOK
<1>3. 0..now \subseteq 0..(now + 1)
  BY <1>1
<1>4. \A j \in Keys : IsHistory(admitted[j], MaxTime, now + 1) /\ IsHistory(admitted[j], MaxTime, now)
  BY <1>1, HistoryTick, TimesAssumption DEF LimiterInv
<1>5. \A k \in DOMAIN windows : windows[k] \in WindowType(now + 1)
  BY <1>3 DEF WindowType, LimiterInv, LimiterTypeOK
<1>6. \A k \in DOMAIN requests : requests[k] \in RequestType(now + 1)
  <2>1. \A k \in DOMAIN requests : requests[k] \in RequestType(now)
    BY DEF RequestType, LimiterInv, LimiterTypeOK
  <2>2. (0..now) \X (1..Limit) \subseteq (0..(now + 1)) \X (1..Limit)
    BY <1>3
  <2> QED
    BY <1>3, <2>1, <2>2 DEF RequestType
<1>7. LimiterTypeOK'
  BY <1>1, <1>2, <1>5, <1>6 DEF LimiterInv, LimiterTypeOK, WindowType, RequestType
<1>8. ASSUME algorithm = "fixed", NEW k \in Keys PROVE FixedInv(k)'
  <2>1. FixedInv(k)
    BY <1>8 DEF LimiterInv
  <2>2. /\ k \in DOMAIN windows => WindowInv(windows[k], admitted[k], now + 1)
        /\ k \notin DOMAIN windows => NoWindowInv(admitted[k], now + 1)
    BY <1>1, <1>4, <2>1, WindowTick, NoWindowTick DEF FixedInv
  <2> QED
    BY <1>1, <2>2 DEF FixedInv
<1>9. ASSUME algorithm = "sliding", NEW k \in Keys PROVE SlidingInv(k)'
  <2>1. SlidingInv(k)
    BY <1>9 DEF LimiterInv
  <2>2. /\ k \in DOMAIN requests => RequestsInv(requests[k], admitted[k], now + 1)
        /\ k \notin DOMAIN requests => NoRequestsInv(admitted[k], now + 1)
    BY <1>1, <1>4, <2>1, RequestsTick, NoRequestsTick DEF SlidingInv
  <2> QED
    BY <1>1, <2>2 DEF SlidingInv
<1> QED
  BY <1>1, <1>4, <1>7, <1>8, <1>9 DEF LimiterInv

(* A reset forgets the key, and what it was admitted.                       *)
LEMMA ResetKeeps ==
  ASSUME LimiterInv, NEW k \in Keys, FixedReset(k) \/ SlidingReset(k)
  PROVE  LimiterInv'
<1>1. /\ UNCHANGED <<bucketVars, algorithm>> /\ now \in 0..MaxTime /\ BucketTypeOK
      /\ admitted \in [Keys -> Histories(MaxTime)] /\ admitted' = [admitted EXCEPT ![k] = NoHistory(MaxTime)]
      /\ algorithm \in {"fixed", "sliding"}
  BY DEF FixedReset, SlidingReset, LimiterInv, LimiterTypeOK, BucketTypeOK
<1>2. BucketTypeOK' /\ now' = now /\ tokens' = tokens
  BY <1>1 DEF BucketTypeOK, bucketVars
<1>3. /\ NoHistory(MaxTime) \in Histories(MaxTime) /\ IsHistory(NoHistory(MaxTime), MaxTime, now)
      /\ NoWindowInv(NoHistory(MaxTime), now) /\ NoRequestsInv(NoHistory(MaxTime), now)
  BY <1>1, NothingAdmitted
<1>4. /\ admitted' \in [Keys -> Histories(MaxTime)] /\ admitted'[k] = NoHistory(MaxTime)
      /\ \A j \in Keys : j # k => admitted'[j] = admitted[j]
  BY <1>1, <1>3
<1>5. \A j \in Keys : IsHistory(admitted'[j], MaxTime, now)
  BY <1>3, <1>4 DEF LimiterInv
<1>6. CASE FixedReset(k)
  <2>1. /\ algorithm = "fixed" /\ requests' = requests /\ requests = NoEntries /\ tokens = NoEntries
        /\ DOMAIN windows' = DOMAIN windows \ {k} /\ \A j \in DOMAIN windows' : windows'[j] = windows[j]
    BY <1>6 DEF FixedReset, Delete, LimiterInv, LimiterTypeOK
  <2>2. LimiterTypeOK'
    BY <1>1, <1>2, <1>4, <2>1 DEF LimiterInv, LimiterTypeOK
  <2>3. ASSUME NEW j \in Keys PROVE FixedInv(j)'
    <3>1. FixedInv(j)
      BY <2>1 DEF LimiterInv
    <3>2. CASE j = k
      BY <1>2, <1>3, <1>4, <2>1, <3>2 DEF FixedInv
    <3>3. CASE j # k
      BY <1>2, <1>4, <2>1, <3>1, <3>3 DEF FixedInv
    <3> QED
      BY <3>2, <3>3
  <2> QED
    BY <1>1, <1>2, <1>5, <2>1, <2>2, <2>3 DEF LimiterInv
<1>7. CASE SlidingReset(k)
  <2>1. /\ algorithm = "sliding" /\ windows' = windows /\ windows = NoEntries /\ tokens = NoEntries
        /\ DOMAIN requests' = DOMAIN requests \ {k} /\ \A j \in DOMAIN requests' : requests'[j] = requests[j]
    BY <1>7 DEF SlidingReset, Delete, LimiterInv, LimiterTypeOK
  <2>2. LimiterTypeOK'
    BY <1>1, <1>2, <1>4, <2>1 DEF LimiterInv, LimiterTypeOK
  <2>3. ASSUME NEW j \in Keys PROVE SlidingInv(j)'
    <3>1. SlidingInv(j)
      BY <2>1 DEF LimiterInv
    <3>2. CASE j = k
      BY <1>2, <1>3, <1>4, <2>1, <3>2 DEF SlidingInv
    <3>3. CASE j # k
      BY <1>2, <1>4, <2>1, <3>1, <3>3 DEF SlidingInv
    <3> QED
      BY <3>2, <3>3
  <2> QED
    BY <1>1, <1>2, <1>5, <2>1, <2>2, <2>3 DEF LimiterInv
<1> QED
  BY <1>6, <1>7

(* A request to a bucket or its reset leaves the windows alone.             *)
LEMMA TokenKeeps ==
  ASSUME LimiterInv, BucketTypeOK', now' = now, UNCHANGED <<algorithm, windows, requests, admitted>>,
         algorithm = "bucket" \/ tokens' = tokens
  PROVE  LimiterInv'
<1>1. LimiterTypeOK'
  BY DEF LimiterInv, LimiterTypeOK
<1>2. \A k \in Keys : (FixedInv(k) => FixedInv(k)') /\ (SlidingInv(k) => SlidingInv(k)')
  BY DEF FixedInv, SlidingInv
<1> QED
  BY <1>1, <1>2 DEF LimiterInv

(* Every step of the limiter keeps the invariant.                           *)
LEMMA NextKeepsLimiterInv ==
  ASSUME NoWrap, WindowsOutlived, LimiterInv, [LimiterNext]_limiterVars
  PROVE  LimiterInv'
<1>1. BucketTypeOK'
  BY StepKeepsBucketType DEF LimiterInv, LimiterTypeOK
<1>2. CASE Tick
  BY <1>2, TickKeeps
<1>3. ASSUME NEW k \in Keys, NEW n \in Amounts, AllowN(k, n) PROVE LimiterInv'
  <2>1. CASE TokenAllowN(k, n)
    BY <1>1, <2>1, TokenKeeps DEF TokenAllowN, BucketAllowN
  <2> QED
    BY <1>3, <2>1, FixedAllowNKeeps, SlidingAllowNKeeps DEF AllowN
<1>4. ASSUME NEW k \in Keys, Reset(k) PROVE LimiterInv'
  <2>1. CASE TokenReset(k)
    BY <1>1, <2>1, TokenKeeps DEF TokenReset, BucketReset
  <2> QED
    BY <1>4, <2>1, ResetKeeps DEF Reset
<1>5. CASE UNCHANGED limiterVars
  BY <1>1, <1>5, TokenKeeps DEF limiterVars, bucketVars
<1> QED
  BY <1>2, <1>3, <1>4, <1>5 DEF LimiterNext

(* A new limiter.                                                           *)
LEMMA InitLimiterInv ==
  ASSUME LimiterInit
  PROVE  LimiterInv
<1>1. now \in 0..MaxTime /\ BucketTypeOK /\ DOMAIN NoEntries = {} /\ tokens = NoEntries
  BY CapacityType, TimesAssumption DEF LimiterInit, BucketInit, BucketTypeOK, NoEntries
<1>2. /\ NoHistory(MaxTime) \in Histories(MaxTime) /\ IsHistory(NoHistory(MaxTime), MaxTime, now)
      /\ NoWindowInv(NoHistory(MaxTime), now) /\ NoRequestsInv(NoHistory(MaxTime), now)
  BY <1>1, NothingAdmitted
<1>3. /\ algorithm \in Algorithms /\ windows = NoEntries /\ requests = NoEntries
      /\ admitted \in [Keys -> Histories(MaxTime)] /\ \A k \in Keys : admitted[k] = NoHistory(MaxTime)
  BY <1>2 DEF LimiterInit
<1>4. LimiterTypeOK
  BY <1>1, <1>3 DEF LimiterTypeOK
<1>5. \A k \in Keys : FixedInv(k) /\ SlidingInv(k)
  BY <1>1, <1>2, <1>3 DEF FixedInv, SlidingInv
<1> QED
  BY <1>2, <1>3, <1>4, <1>5 DEF LimiterInv

(* The invariant of the limiter: every window counts what its key was       *)
(* admitted since it began, and the timestamps of a key are what it was    *)
(* admitted in the sliding window.                                         *)
THEOREM LimiterInvAlways == NoWrap /\ WindowsOutlived => (LimiterSpec => []LimiterInv)
<1> SUFFICES ASSUME NoWrap, WindowsOutlived PROVE LimiterSpec => []LimiterInv
  OBVIOUS
<1>1. LimiterInit => LimiterInv
  BY InitLimiterInv
<1>2. LimiterInv /\ [LimiterNext]_limiterVars => LimiterInv'
  BY NextKeepsLimiterInv
<1> QED
  BY <1>1, <1>2, PTL DEF LimiterSpec

-----------------------------------------------------------------------------
(* What the invariant says of the limiter.                                 *)

(* The maps of the limiter hold what its algorithms put there.              *)
THEOREM LimiterTypeAlways == NoWrap /\ WindowsOutlived => (LimiterSpec => []LimiterTypeOK)
<1> SUFFICES ASSUME NoWrap, WindowsOutlived PROVE LimiterSpec => []LimiterTypeOK
  OBVIOUS
<1>1. LimiterSpec => []LimiterInv
  BY LimiterInvAlways
<1>2. LimiterInv => LimiterTypeOK
  BY DEF LimiterInv
<1> QED
  BY <1>1, <1>2, PTL

(* What a fixed window admits in any stretch as long as a window.           *)
LEMMA FixedLimit ==
  ASSUME NEW n \in 0..MaxTime, NEW h, IsHistory(h, MaxTime, n),
         (\E w : WindowInv(w, h, n)) \/ NoWindowInv(h, n)
  PROVE  GrantedIn(h, n - WindowSize, n) <= 2 * Limit
<1> DEFINE a == FromZero(n - WindowSize)
<1>1. n \in Nat /\ WindowSize \in Nat \ {0} /\ Limit \in Nat /\ n + 1 \in Ticks(MaxTime) /\ MaxTime \in Nat
  BY TickFacts, WindowAssumption, LimitAssumption, TimesAssumption
<1>2. a \in Ticks(MaxTime)
  BY <1>1 DEF Ticks, FromZero
<1>3. h[a] \in Nat /\ h[n + 1] \in Nat
  BY <1>1, <1>2, HistoryFacts
<1>4. ASSUME NEW w, WindowInv(w, h, n) PROVE h[n + 1] - h[a] <= 2 * Limit
  <2> DEFINE s == w.windowEnd - WindowSize
             b == FromZero(s - WindowSize - 1)
  <2>1. s \in Nat /\ s <= n /\ h[n + 1] - h[s] <= Limit /\ h[s] - h[b] <= Limit
    BY <1>1, <1>4 DEF WindowInv
  <2> HIDE DEF s
  <2>2. s \in Ticks(MaxTime) /\ b \in Ticks(MaxTime) /\ (s <= a \/ b <= a)
    BY <1>1, <2>1 DEF Ticks, FromZero
  <2> HIDE DEF a, b
  <2>3. h[s] \in Nat /\ h[b] \in Nat /\ (h[s] <= h[a] \/ h[b] <= h[a])
    BY <1>2, <2>2, HistoryFacts
  <2> QED
    BY <1>1, <1>3, <2>1, <2>3
<1>5. CASE NoWindowInv(h, n)
  <2>1. h[n + 1] = h[a]
    BY <1>5 DEF NoWindowInv
  <2> HIDE DEF a
  <2> QED
    BY <1>1, <1>3, <2>1 DEF GrantedIn, a
<1> QED
  BY <1>4, <1>5 DEF GrantedIn

(* What the sliding window admitted inside the window is what it counts.    *)
LEMMA SlidingCount ==
  ASSUME LimiterInv, algorithm = "sliding", NEW k \in Keys
  PROVE  /\ Cardinality(ValidTimestamps(requests, k)) = AdmittedIn(k, now - WindowSize + 1, now)
         /\ Cardinality(ValidTimestamps(requests, k)) \in 0..Limit
<1> DEFINE h == admitted[k]
           b == FromZero(now - WindowSize + 1)
           V == ValidTimestamps(requests, k)
<1>1. /\ now \in 0..MaxTime /\ IsHistory(h, MaxTime, now) /\ SlidingInv(k)
      /\ now - WindowSize \in (now - WindowSize)..now /\ Limit \in Nat
  BY WindowAssumption, TimesAssumption, LimitAssumption DEF LimiterInv, LimiterTypeOK, BucketTypeOK
<1>2. CASE k \in DOMAIN requests
  <2>1. V = Newer(requests[k].timestamps, now - WindowSize)
    BY <1>2 DEF ValidTimestamps, Newer
  <2>2. TimestampsInv(requests[k].timestamps, h, now)
    BY <1>1, <1>2 DEF SlidingInv, RequestsInv
  <2>3. Cardinality(V) = h[now + 1] - h[b] /\ V \subseteq requests[k].timestamps
    BY <1>1, <2>1, <2>2 DEF TimestampsInv, Newer
  <2>4. Cardinality(V) \in 0..Limit
    <3>1. IsFiniteSet(requests[k].timestamps) /\ Cardinality(requests[k].timestamps) <= Limit
      BY <2>2 DEF TimestampsInv
    <3>2. /\ Cardinality(V) <= Cardinality(requests[k].timestamps) /\ Cardinality(V) \in Nat
          /\ Cardinality(requests[k].timestamps) \in Nat
      BY <2>3, <3>1, FS_Subset, FS_CardinalityType
    <3> QED
      BY <1>1, <3>1, <3>2
  <2> QED
    BY <2>3, <2>4 DEF AdmittedIn, GrantedIn
<1>3. CASE k \notin DOMAIN requests
  <2>1. V = {} /\ h[now + 1] = h[b]
    BY <1>1, <1>3 DEF ValidTimestamps, SlidingInv, NoRequestsInv
  <2>2. h[now + 1] \in Nat
    BY <1>1, HistoryFacts, TickFacts
  <2>3. Cardinality(V) = 0
    BY <2>1, FS_EmptySet
  <2> HIDE DEF h, b, V
  <2>4. Cardinality(V) = h[now + 1] - h[b] /\ Cardinality(V) \in 0..Limit
    BY <1>1, <2>1, <2>2, <2>3
  <2> QED
    BY <2>4 DEF AdmittedIn, GrantedIn, h, b, V
<1> QED
  BY <1>2, <1>3

(* No stretch of time as long as a window sees a key admitted more than     *)
(* the limit with the sliding window, or twice the limit with the fixed    *)
(* one.                                                                    *)
THEOREM WindowLimitAlways == NoWrap /\ WindowsOutlived => (LimiterSpec => []WindowLimitHolds)
<1> SUFFICES ASSUME NoWrap, WindowsOutlived PROVE LimiterSpec => []WindowLimitHolds
  OBVIOUS
<1>1. LimiterSpec => []LimiterInv
  BY LimiterInvAlways
<1>2. ASSUME LimiterInv PROVE WindowLimitHolds
  <2>1. ASSUME NEW k \in Keys, algorithm = "fixed" PROVE AdmittedIn(k, now - WindowSize, now) <= 2 * Limit
    <3>1. now \in 0..MaxTime /\ IsHistory(admitted[k], MaxTime, now) /\ FixedInv(k)
      BY <1>2, <2>1 DEF LimiterInv, LimiterTypeOK, BucketTypeOK
    <3> QED
      BY <3>1, FixedLimit DEF FixedInv, AdmittedIn
  <2>2. ASSUME NEW k \in Keys, algorithm = "sliding" PROVE AdmittedIn(k, now - WindowSize + 1, now) <= Limit
    BY <1>2, <2>2, SlidingCount, LimitAssumption
  <2> QED
    BY <2>1, <2>2 DEF WindowLimitHolds
<1> QED
  BY <1>1, <1>2, PTL

(* Truncating division by the size of a token.                              *)
LEMMA WholeTokens ==
  ASSUME NEW a \in Nat, NEW b \in Nat \ {0}, NEW n \in Nat
  PROVE  n * b <= a <=> n <= a \div b
<1> DEFINE q == a \div b
<1>1. q \in Nat
  BY DivisionType
<1>2. q * b <= a /\ a < (q + 1) * b
  BY SMT
<1> HIDE DEF q
<1>3. CASE n <= q
  <2>1. n * b <= q * b
    BY <1>1, <1>3, SMT
  <2>2. n * b \in Nat /\ q * b \in Nat
    BY <1>1, SMT
  <2> QED
    BY <1>1, <1>2, <1>3, <2>1, <2>2 DEF q
<1>4. CASE n >= q + 1
  <2>1. (q + 1) * b <= n * b
    BY <1>1, <1>4, SMT
  <2>2. n * b \in Nat /\ (q + 1) * b \in Nat
    BY <1>1, SMT
  <2> QED
    BY <1>1, <1>2, <1>4, <2>1, <2>2 DEF q
<1> QED
  BY <1>1, <1>3, <1>4

(* A bucket admits what Remaining says.                                     *)
LEMMA BucketAdmitsRemaining ==
  ASSUME IdleKeysAreFull, BucketTypeOK, NEW k \in Keys, NEW n \in Amounts
  PROVE  Available(IF CleanupDue THEN BucketCleanup ELSE tokens, k) >= n * Token <=> n <= BucketRemaining(k)
<1>1. Available(IF CleanupDue THEN BucketCleanup ELSE tokens, k) = Available(tokens, k)
  BY CleanupKeepsAvailable
<1>2. Available(tokens, k) \in Nat /\ Token \in Nat \ {0} /\ n \in Nat
  BY AvailableType, CapacityType, RateAssumption, AmountsAssumption
<1>3. n * Token <= Available(tokens, k) <=> n <= Available(tokens, k) \div Token
  BY <1>2, WholeTokens
<1> QED
  BY <1>1, <1>2, <1>3 DEF BucketRemaining

(* What Remaining says is exact: the limit less what the key was admitted   *)
(* in its window, and what a bucket would admit.                           *)
THEOREM RemainingExactAlways ==
  NoWrap /\ WindowsOutlived /\ IdleKeysAreFull => (LimiterSpec => []RemainingExact)
<1> SUFFICES ASSUME NoWrap, WindowsOutlived, IdleKeysAreFull PROVE LimiterSpec => []RemainingExact
  OBVIOUS
<1>1. LimiterSpec => []LimiterInv
  BY LimiterInvAlways
<1>2. ASSUME LimiterInv PROVE RemainingExact
  <2>1. ASSUME NEW k \in Keys, algorithm = "sliding"
        PROVE  Remaining(k) = Limit - AdmittedIn(k, now - WindowSize + 1, now)
    BY <1>2, <2>1, SlidingCount DEF Remaining, SlidingRemaining
  <2>2. ASSUME NEW k \in Keys, algorithm = "fixed", k \in DOMAIN windows, now <= windows[k].windowEnd
        PROVE  Remaining(k) = Limit - AdmittedIn(k, windows[k].windowEnd - WindowSize, now)
    <3> DEFINE s == windows[k].windowEnd - WindowSize
    <3>1. WindowInv(windows[k], admitted[k], now)
      BY <1>2, <2>2 DEF LimiterInv, FixedInv
    <3>2. s \in Nat /\ windows[k].count = admitted[k][now + 1] - admitted[k][s]
      BY <3>1 DEF WindowInv
    <3>3. FromZero(s) = s
      BY <3>2 DEF FromZero
    <3> HIDE DEF s
    <3>4. Remaining(k) = Limit - windows[k].count
      BY <2>2 DEF Remaining, FixedRemaining
    <3> QED
      BY <3>2, <3>3, <3>4 DEF s, AdmittedIn, GrantedIn
  <2>3. ASSUME NEW k \in Keys, algorithm = "bucket", NEW n \in Amounts
        PROVE  Admits(k, n) <=> n <= Remaining(k)
    <3>1. BucketTypeOK
      BY <1>2 DEF LimiterInv, LimiterTypeOK
    <3> QED
      BY <2>3, <3>1, BucketAdmitsRemaining DEF Admits, Remaining
  <2> QED
    BY <2>1, <2>2, <2>3 DEF RemainingExact
<1> QED
  BY <1>1, <1>2, PTL

(* A window that cleanup drops has expired.                                 *)
LEMMA DroppedExpired ==
  ASSUME WindowsOutlived, NEW n \in Nat, NEW h, NEW w, WindowInv(w, h, n), w.lastAccess < n - WindowCleanupAge
  PROVE  ~(n <= w.windowEnd)
<1>1. /\ WindowSize \in Nat /\ WindowCleanupAge \in Nat /\ WindowSize <= WindowCleanupAge
  BY WindowAssumption DEF WindowsOutlived
<1>2. w.windowEnd \in Nat /\ w.windowEnd - WindowSize <= w.lastAccess /\ w.lastAccess \in Nat
  BY <1>1 DEF WindowInv
<1> QED
  BY <1>1, <1>2

(* What cleanup and a request of another key leave a key.                   *)
LEMMA RequestOfAnother ==
  ASSUME WindowsOutlived, IdleKeysAreFull, LimiterInv, NEW j \in Keys, NEW k \in Keys, j # k, NEW n \in Amounts, AllowN(j, n)
  PROVE  Remaining(k)' = Remaining(k)
<1>1. now \in 0..MaxTime /\ BucketTypeOK /\ now \in Nat
  BY TimesAssumption DEF LimiterInv, LimiterTypeOK, BucketTypeOK
<1>2. CASE TokenAllowN(j, n)
  <2> DEFINE buckets == IF CleanupDue THEN BucketCleanup ELSE tokens
  <2>1. algorithm = "bucket" /\ algorithm' = algorithm /\ now' = now
    BY <1>2 DEF TokenAllowN, BucketAllowN
  <2>2. (k \in DOMAIN tokens' <=> k \in DOMAIN buckets) /\ (k \in DOMAIN buckets => tokens'[k] = buckets[k])
    BY <1>2 DEF TokenAllowN, BucketAllowN
  <2>3. Available(tokens, k)' = Available(buckets, k)
    <3> HIDE DEF buckets
    <3> QED
      BY <2>1, <2>2 DEF Available, Capped
  <2>4. Available(buckets, k) = Available(tokens, k)
    BY <1>1, CleanupKeepsAvailable
  <2> HIDE DEF buckets
  <2> QED
    BY <2>1, <2>3, <2>4 DEF Remaining, BucketRemaining
<1>3. CASE FixedAllowN(j, n)
  <2>1. algorithm = "fixed" /\ algorithm' = algorithm /\ now' = now
    BY <1>3 DEF FixedAllowN, Charge
  <2>2. /\ (k \in DOMAIN windows' <=> k \in DOMAIN KeptWindows)
        /\ (k \in DOMAIN KeptWindows => windows'[k] = KeptWindows[k])
    BY <1>3 DEF FixedAllowN, Put
  <2>3. DOMAIN KeptWindows \subseteq DOMAIN windows /\ (k \in DOMAIN KeptWindows => KeptWindows[k] = windows[k])
    BY DEF KeptWindows, FixedCleanup
  <2>4. ASSUME k \in DOMAIN windows, k \notin DOMAIN KeptWindows PROVE ~(now <= windows[k].windowEnd)
    <3>1. ~(windows[k].lastAccess >= now - WindowCleanupAge)
      BY <2>4 DEF KeptWindows, FixedCleanup
    <3>2. WindowInv(windows[k], admitted[k], now)
      BY <2>1, <2>4 DEF LimiterInv, FixedInv
    <3>3. windows[k].lastAccess \in Int /\ now - WindowCleanupAge \in Int
      BY <1>1, <3>2, WindowAssumption DEF WindowInv
    <3>4. windows[k].lastAccess < now - WindowCleanupAge
      BY <3>1, <3>3
    <3> QED
      BY <1>1, <3>2, <3>4, DroppedExpired
  <2>5. FixedRemaining(k)' = FixedRemaining(k)
    BY <2>1, <2>2, <2>3, <2>4 DEF FixedRemaining
  <2> QED
    BY <2>1, <2>5 DEF Remaining
<1>4. CASE SlidingAllowN(j, n)
  <2>1. algorithm = "sliding" /\ algorithm' = algorithm /\ now' = now
    BY <1>4 DEF SlidingAllowN, Charge
  <2>2. /\ (k \in DOMAIN requests' <=> k \in DOMAIN KeptRequests)
        /\ (k \in DOMAIN KeptRequests => requests'[k] = KeptRequests[k])
    BY <1>4 DEF SlidingAllowN, Put
  <2>3. ValidTimestamps(requests, k)' = ValidTimestamps(KeptRequests, k)
    BY <2>1, <2>2 DEF ValidTimestamps
  <2>4. ValidTimestamps(requests, k) = ValidTimestamps(KeptRequests, k)
    BY <2>1, ValidTimestampsInv
  <2> QED
    BY <2>1, <2>3, <2>4 DEF Remaining, SlidingRemaining
<1> QED
  BY <1>2, <1>3, <1>4 DEF AllowN

(* A request of one key, with the cleanup that it runs, never changes what  *)
(* another key has left.                                                   *)
THEOREM KeysIndependentAlways ==
  NoWrap /\ WindowsOutlived /\ IdleKeysAreFull => (LimiterSpec => KeysIndependent)
<1> SUFFICES ASSUME NoWrap, WindowsOutlived, IdleKeysAreFull PROVE LimiterSpec => KeysIndependent
  OBVIOUS
<1>1. LimiterSpec => []LimiterInv
  BY LimiterInvAlways
<1>2. LimiterInv /\ [LimiterNext]_limiterVars => [OthersUntouched]_limiterVars
  BY RequestOfAnother DEF OthersUntouched
<1> QED
  BY <1>1, <1>2, PTL DEF LimiterSpec, KeysIndependent

-----------------------------------------------------------------------------
(* Part 2: requests through the middlewares.                               *)

(* In the order of the chain, the first place of a request that names a     *)
(* tenant names its sender, or no valid tenant.  The resolvers cannot know *)
(* it: whoever sends a request must name itself there.                     *)
NamedByChain ==
    \A f \in Frameworks, r \in Requests : \A i \in DOMAIN Names(f, r) :
        (/\ Names(f, r)[i] # "" /\ IsTenantID(Names(f, r)[i])
         /\ \A j \in DOMAIN Names(f, r) : j < i => Names(f, r)[j] = "") => ToLower(Names(f, r)[i]) = r.client

(* A tenant identifier has no blanks.                                       *)
NoBlankNames == \A r \in Requests : r.client # "" => TrimSpace(r.client) # ""

(* The keys of the limiter are all that the middleware can ask for.         *)
KnownKeys ==
    /\ 1 \in Amounts
    /\ \A r \in Requests : (r.client # "" => r.client \in Keys) /\ (TrimSpace(r.addr) # "" => r.addr \in Keys)

(* What each key was granted is in the history of a window algorithm.       *)
Windowed == "bucket" \notin Algorithms

TenantOf(r) == IF Skips(r) THEN "" ELSE r.client

(* What a goroutine holds once its request has passed the tenant            *)
(* middleware.                                                             *)
ServingInv(s) ==
    s.stage \in {"limit", "handler"} =>
        \E r \in Requests : /\ s = [stage |-> s.stage, req |-> r, tenant |-> TenantOf(r)]
                            /\ ~Skips(r) => r.client # ""

PipelineInv ==
    /\ framework \in Frameworks
    /\ DOMAIN serving = Handlers
    /\ \A h \in Handlers : ServingInv(serving[h])

(* Among the places of a chain that name a tenant there is a first one.     *)
LEMMA FirstExists ==
  ASSUME NEW E, IsFiniteSet(E), E \subseteq Nat, E # {}
  PROVE  \E m \in E : \A x \in E : m <= x
<1> DEFINE Below(e) == {x \in E : x < e}
           T == {Below(e) : e \in E}
           R == StrictSubsetOrdering(E)
           F == FiniteSubsetsOf(E)
<1>1. IsWellFoundedOn(R, F)
  BY FS_StrictSubsetOrderingWellFounded
<1>2. T \subseteq F
  BY FS_Subset DEF FiniteSubsetsOf
<1>3. T # {}
  OBVIOUS
<1>4. PICK u \in T : \A y \in T : ~(<<y, u>> \in R)
  <2> HIDE DEF R, F, T
  <2> QED
    BY <1>1, <1>2, <1>3, WFMin
<1>5. PICK m \in E : u = Below(m)
  OBVIOUS
<1>6. ASSUME NEW x \in E, ~(m <= x) PROVE FALSE
  <2>1. x \in Nat /\ m \in Nat /\ x < m
    BY <1>6
  <2>2. x \in u /\ x \notin Below(x)
    BY <1>5, <2>1
  <2>3. ASSUME NEW y \in Below(x) PROVE y \in u
    BY <1>5, <2>1
  <2>4. <<Below(x), u>> \in R
    BY <2>2, <2>3 DEF StrictSubsetOrdering
  <2> QED
    BY <1>4, <2>4
<1> QED
  BY <1>6

(* A chain gives the name that it finds first.                              *)
LEMMA FirstResolvedIs ==
  ASSUME NEW n \in Nat, NEW names, DOMAIN names = 1..n
  PROVE  \/ FirstResolved(names) = ""
         \/ \E i \in DOMAIN names : /\ FirstResolved(names) = names[i] /\ names[i] # ""
                                    /\ \A j \in DOMAIN names : j < i => names[j] = ""
<1> DEFINE E == Found(names)
<1>1. CASE E = {}
  BY <1>1 DEF FirstResolved
<1>2. CASE E # {}
  <2>1. E \subseteq 1..n /\ 1..n \subseteq Nat
    <3>1. E \subseteq DOMAIN names
      BY DEF Found
    <3> QED
      BY <3>1
  <2>2. IsFiniteSet(1..n)
    BY FS_Interval
  <2>3. IsFiniteSet(E)
    BY <2>1, <2>2, FS_Subset
  <2> HIDE DEF E
  <2>4. \E m \in E : \A x \in E : m <= x
    BY <1>2, <2>1, <2>3, FirstExists
  <2> DEFINE i == CHOOSE k \in E : \A j \in E : k <= j
  <2>5. i \in E /\ \A j \in E : i <= j
    BY <2>4
  <2>6. FirstResolved(names) = names[i]
    BY <1>2 DEF FirstResolved, E
  <2> HIDE DEF i
  <2>7. i \in DOMAIN names /\ names[i] # ""
    BY <2>5 DEF E, Found
  <2>8. ASSUME NEW j \in DOMAIN names, j < i PROVE names[j] = ""
    <3>1. i \in 1..n /\ j \in 1..n
      BY <2>7
    <3>2. j \notin E
      BY <2>5, <2>8, <3>1
    <3> QED
      BY <3>2 DEF E, Found
  <2> QED
    BY <2>6, <2>7, <2>8
<1> QED
  BY <1>1, <1>2

(* A request that is identified is its sender's, with every framework.      *)
LEMMA IdentifiedIsSender ==
  ASSUME NamedByChain, NEW f \in Frameworks, NEW r \in Requests
  PROVE  \/ Identified(f, r) = Rejected
         \/ Identified(f, r) = Passed(r.client) /\ r.client # ""
<1> DEFINE names == Names(f, r)
           name == FirstResolved(names)
           tenant == NewContext(Resolve(f, r))
<1>1. Chain[f] \in Seq(STRING)
  BY ChainAssumption DEF Frameworks, Limited
<1>2. Len(Chain[f]) \in Nat /\ DOMAIN names = 1..Len(Chain[f])
  BY <1>1 DEF Names
<1>3. tenant = IF IsTenantID(name) THEN ToLower(name) ELSE ""
  BY DEF NewContext, NewTenantID, Resolve
<1>4. tenant = "" \/ tenant = r.client
  <2>1. CASE name = ""
    BY <1>3, <2>1, NameAssumption
  <2>2. ASSUME NEW i \in DOMAIN names, name = names[i], names[i] # "", \A j \in DOMAIN names : j < i => names[j] = ""
        PROVE  tenant = "" \/ tenant = r.client
    BY <1>3, <2>2 DEF NamedByChain
  <2> HIDE DEF names, tenant
  <2> QED
    BY <1>2, <2>1, <2>2, FirstResolvedIs
<1> QED
  BY <1>4 DEF Identified

(* What the tenant middleware of each framework does with a request.        *)
LEMMA MiddlewareIs ==
  ASSUME NamedByChain, framework \in Frameworks, NEW r \in Requests
  PROVE  \/ Middleware(r) = Rejected
         \/ Middleware(r) = Passed(TenantOf(r)) /\ (~Skips(r) => r.client # "")
<1>1. framework \in {"stdlib", "chi", "gin", "echo", "fiber"}
  BY DEF Frameworks, Limited
<1>2. Middleware(r) = IF Skips(r) THEN Passed("") ELSE Identified(framework, r)
  <2>1. CASE framework = "stdlib"
    BY <2>1 DEF Middleware, Skips, StdMiddleware
  <2>2. CASE framework = "chi"
    BY <2>2 DEF Middleware, Skips, ChiMiddleware
  <2>3. CASE framework = "gin"
    BY <2>3 DEF Middleware, Skips, GinMiddleware, StdSkips
  <2>4. CASE framework = "echo"
    BY <2>4 DEF Middleware, Skips, EchoMiddleware
  <2>5. CASE framework = "fiber"
    BY <2>5 DEF Middleware, Skips, FiberMiddleware, StdSkips
  <2> QED
    BY <1>1, <2>1, <2>2, <2>3, <2>4, <2>5
<1> QED
  BY <1>2, IdentifiedIsSender DEF TenantOf

(* A step of one goroutine that leaves it with s.                           *)
LEMMA ServingStep ==
  ASSUME PipelineInv, framework' = framework, NEW h \in Handlers, NEW s, ServingInv(s),
         serving' = [serving EXCEPT ![h] = s]
  PROVE  PipelineInv'
<1>1. \A r : Skips(r)' = Skips(r)
  BY DEF Skips
<1>2. \A g \in Handlers : ServingInv(serving'[g])
  BY DEF PipelineInv
<1>3. \A g \in Handlers : ServingInv(serving[g])'
  BY <1>1, <1>2 DEF ServingInv, TenantOf
<1> QED
  BY <1>3 DEF PipelineInv

(* A record with another stage.                                             *)
LEMMA AtStage ==
  ASSUME NEW x, NEW new, NEW r, NEW t, x = [stage |-> "limit", req |-> r, tenant |-> t]
  PROVE  [x EXCEPT !.stage = new] = [stage |-> new, req |-> r, tenant |-> t]
  OBVIOUS

(* A goroutine goes on with the request that it holds.                      *)
LEMMA GotoKeeps ==
  ASSUME PipelineInv, framework' = framework, NEW h \in Handlers, At(h, "limit"), NEW stage \in {"handler", "refused"},
         Goto(h, stage)
  PROVE  PipelineInv'
<1>1. PICK r \in Requests : /\ serving[h] = [stage |-> "limit", req |-> r, tenant |-> TenantOf(r)]
                            /\ ~Skips(r) => r.client # ""
  BY DEF PipelineInv, ServingInv, At
<1> DEFINE s == [stage |-> stage, req |-> r, tenant |-> TenantOf(r)]
<1>2. serving' = [serving EXCEPT ![h] = s]
  <2>1. serving' = [serving EXCEPT ![h] = [serving[h] EXCEPT !.stage = stage]]
    BY DEF Goto, PipelineInv
  <2>2. [serving[h] EXCEPT !.stage = stage] = s
    <3> DEFINE x == serving[h]
               t == TenantOf(r)
    <3>1. x = [stage |-> "limit", req |-> r, tenant |-> t]
      BY <1>1
    <3> HIDE DEF x, t
    <3>2. [x EXCEPT !.stage = stage] = [stage |-> stage, req |-> r, tenant |-> t]
      BY <3>1, AtStage
    <3> QED
      BY <3>2 DEF x, t
  <2> HIDE DEF s
  <2> QED
    BY <2>1, <2>2
<1>3. ServingInv(s)
  BY <1>1 DEF ServingInv
<1> HIDE DEF s
<1> QED
  BY <1>2, <1>3, ServingStep

(* Every step keeps what the goroutines hold.                               *)
LEMMA NextKeepsPipelineInv ==
  ASSUME NamedByChain, PipelineInv, [Next]_vars
  PROVE  PipelineInv'
<1>1. ASSUME NEW h \in Handlers, NEW r \in Requests, Receive(h, r) PROVE PipelineInv'
  <2> DEFINE outcome == Middleware(r)
             stage == CASE ~outcome.pass -> "rejected"
                        [] outcome.pass /\ framework \in Limited -> "limit"
                        [] outcome.pass /\ framework \notin Limited -> "handler"
             s == [stage |-> stage, req |-> r, tenant |-> outcome.tenant]
  <2>1. serving' = [serving EXCEPT ![h] = s] /\ framework' = framework
    BY <1>1 DEF Receive
  <2>2. outcome = Rejected \/ (outcome = Passed(TenantOf(r)) /\ (~Skips(r) => r.client # ""))
    BY MiddlewareIs DEF PipelineInv
  <2> HIDE DEF outcome
  <2>3. CASE outcome = Rejected
    <3>1. s.stage = "rejected"
      BY <2>3 DEF Rejected
    <3> HIDE DEF s
    <3>2. ServingInv(s)
      BY <3>1 DEF ServingInv
    <3> QED
      BY <2>1, <3>2, ServingStep
  <2>4. CASE outcome = Passed(TenantOf(r)) /\ (~Skips(r) => r.client # "")
    <3>1. outcome.tenant = TenantOf(r)
      BY <2>4 DEF Passed
    <3> HIDE DEF stage
    <3>2. s = [stage |-> stage, req |-> r, tenant |-> TenantOf(r)] /\ s.stage = stage
      BY <3>1
    <3> HIDE DEF s
    <3>3. ServingInv(s)
      BY <2>4, <3>2 DEF ServingInv
    <3> QED
      BY <2>1, <3>3, ServingStep
  <2> QED
    BY <2>2, <2>3, <2>4
<1>2. ASSUME NEW h \in Handlers, SkipLimit(h) \/ LimiterError(h) PROVE PipelineInv'
  BY <1>2, GotoKeeps DEF SkipLimit, LimiterError
<1>3. ASSUME NEW h \in Handlers, Allow(h) PROVE PipelineInv'
  BY <1>3, GotoKeeps DEF Allow
<1>4. ASSUME NEW h \in Handlers, Answer(h) PROVE PipelineInv'
  <2>1. serving' = [serving EXCEPT ![h] = Idle] /\ framework' = framework
    BY <1>4 DEF Answer
  <2>2. ServingInv(Idle)
    BY DEF ServingInv, Idle
  <2> QED
    BY <2>1, <2>2, ServingStep
<1>5. CASE UNCHANGED <<framework, serving>>
  BY <1>5 DEF PipelineInv, ServingInv, TenantOf, Skips
<1> QED
  BY <1>1, <1>2, <1>3, <1>4, <1>5 DEF Next, ResetKey, TimePasses, vars

(* The goroutines behind the tenant middleware hold requests with the       *)
(* tenant of their sender.                                                 *)
THEOREM PipelineInvAlways == NamedByChain => (Spec => []PipelineInv)
<1> SUFFICES ASSUME NamedByChain PROVE Spec => []PipelineInv
  OBVIOUS
<1>1. Init => PipelineInv
  <2> SUFFICES ASSUME Init PROVE PipelineInv
    OBVIOUS
  <2>1. framework \in Frameworks /\ DOMAIN serving = Handlers /\ \A h \in Handlers : serving[h] = Idle
    BY DEF Init
  <2>2. ServingInv(Idle)
    BY DEF ServingInv, Idle
  <2> QED
    BY <2>1, <2>2 DEF PipelineInv
<1>2. PipelineInv /\ [Next]_vars => PipelineInv'
  BY NextKeepsPipelineInv
<1> QED
  BY <1>1, <1>2, PTL DEF Spec

(* A handler runs with the tenant that sent its request: the chain of any   *)
(* adapter takes the first name, an invalid one is refused and never       *)
(* passed over, and nothing on the way to the handler changes the tenant.  *)
THEOREM HandlerHasItsTenantAlways == NamedByChain => (Spec => []HandlerHasItsTenant)
<1> SUFFICES ASSUME NamedByChain PROVE Spec => []HandlerHasItsTenant
  OBVIOUS
<1>1. ASSUME PipelineInv PROVE HandlerHasItsTenant
  <2> SUFFICES ASSUME NEW h \in Handlers, serving[h].stage \in {"limit", "handler"}, ~Skips(serving[h].req)
               PROVE  serving[h].tenant = serving[h].req.client /\ serving[h].tenant # ""
    BY DEF HandlerHasItsTenant
  <2> DEFINE stage == serving[h].stage
  <2>1. PICK r \in Requests : /\ serving[h] = [stage |-> stage, req |-> r, tenant |-> TenantOf(r)]
                              /\ ~Skips(r) => r.client # ""
    BY <1>1 DEF PipelineInv, ServingInv
  <2> HIDE DEF stage
  <2>2. serving[h].req = r /\ serving[h].tenant = TenantOf(r)
    <3> DEFINE t == TenantOf(r)
    <3> HIDE DEF t
    <3>1. serving[h] = [stage |-> stage, req |-> r, tenant |-> t]
      BY <2>1 DEF t
    <3> QED
      BY <3>1 DEF t
  <2> QED
    BY <2>1, <2>2 DEF TenantOf
<1> QED
  BY <1>1, PipelineInvAlways, PTL

(* The key that the rate limit middleware charges is the owner's.           *)
LEMMA OwnersKey ==
  ASSUME PipelineInv, NEW h \in Handlers, At(h, "limit")
  PROVE  /\ serving[h].req \in Requests
         /\ KeyExtractor(serving[h]) = Owner(serving[h].req)
         /\ ~Skips(serving[h].req) => serving[h].req.client # ""
<1>1. PICK r \in Requests : /\ serving[h] = [stage |-> "limit", req |-> r, tenant |-> TenantOf(r)]
                            /\ ~Skips(r) => r.client # ""
  BY DEF PipelineInv, ServingInv, At
<1>2. serving[h].req = r /\ serving[h].tenant = TenantOf(r)
  <2> DEFINE t == TenantOf(r)
  <2> HIDE DEF t
  <2>1. serving[h] = [stage |-> "limit", req |-> r, tenant |-> t]
    BY <1>1 DEF t
  <2> QED
    BY <2>1 DEF t
<1> QED
  BY <1>1, <1>2 DEF TenantOf, KeyExtractor, Owner

(* The limiter under the middleware takes the steps of LimiterMemory.       *)
LEMMA NextIsLimiters ==
  ASSUME KnownKeys, PipelineInv, [Next]_vars
  PROVE  [LimiterNext]_limiterVars
<1>1. ASSUME NEW h \in Handlers, Allow(h) PROVE LimiterNext
  <2> DEFINE key == KeyExtractor(serving[h])
             r == serving[h].req
  <2>1. At(h, "limit") /\ TrimSpace(key) # "" /\ AllowN(key, 1)
    BY <1>1 DEF Allow
  <2>2. r \in Requests /\ key = Owner(r) /\ (~Skips(r) => r.client # "")
    BY <2>1, OwnersKey
  <2> HIDE DEF key, r
  <2>3. key \in Keys
    BY <2>1, <2>2 DEF KnownKeys, Owner
  <2> QED
    BY <2>1, <2>3 DEF LimiterNext, KnownKeys
<1>2. ASSUME NEW k \in Keys, ResetKey(k) PROVE LimiterNext
  BY <1>2 DEF ResetKey, LimiterNext
<1>3. CASE TimePasses
  BY <1>3 DEF TimePasses, LimiterNext
<1>4. ASSUME NEW h \in Handlers,
             (\E r \in Requests : Receive(h, r)) \/ SkipLimit(h) \/ LimiterError(h) \/ Answer(h)
      PROVE  UNCHANGED limiterVars
  BY <1>4 DEF Receive, SkipLimit, LimiterError, Answer
<1>5. CASE UNCHANGED vars
  BY <1>5 DEF vars
<1> QED
  BY <1>1, <1>2, <1>3, <1>4, <1>5 DEF Next

(* The pipeline implements the limiter: whatever the middlewares do with    *)
(* requests, the limiter sees calls that LimiterMemory allows, so that all *)
(* that is proved of it holds behind them.                                 *)
THEOREM PipelineUsesLimiter == NamedByChain /\ KnownKeys => (Spec => LimiterSpec)
<1> SUFFICES ASSUME NamedByChain, KnownKeys PROVE Spec => LimiterSpec
  OBVIOUS
<1>1. Init => LimiterInit
  BY DEF Init
<1>2. PipelineInv /\ [Next]_vars => [LimiterNext]_limiterVars
  BY NextIsLimiters
<1>3. Spec => []PipelineInv
  BY PipelineInvAlways
<1> QED
  BY <1>1, <1>2, <1>3, PTL DEF Spec, LimiterSpec

(* What the limiter counts for a key is what its owner was granted.         *)
ChargedInv == algorithm \in {"fixed", "sliding"} /\ charged = admitted

(* Allow charges the owner in the limiter, and Reset forgets both.         *)
LEMMA NextKeepsChargedInv ==
  ASSUME PipelineInv, ChargedInv, [Next]_vars
  PROVE  ChargedInv'
<1>1. ASSUME NEW h \in Handlers, Allow(h) PROVE ChargedInv'
  <2> DEFINE key == KeyExtractor(serving[h])
             owner == Owner(serving[h].req)
  <2>1. /\ AllowN(key, 1)
        /\ charged' = IF Admits(key, 1) THEN [charged EXCEPT ![owner] = Granted(@, now, 1)] ELSE charged
    BY <1>1 DEF Allow
  <2>2. key = owner
    BY <1>1, OwnersKey DEF Allow
  <2> HIDE DEF key, owner
  <2>3. /\ admitted' = IF Admits(key, 1) THEN [admitted EXCEPT ![key] = Granted(@, now, 1)] ELSE admitted
        /\ algorithm' = algorithm
    <3>1. CASE FixedAllowN(key, 1)
      BY <3>1 DEF FixedAllowN, Charge, Admits
    <3>2. CASE SlidingAllowN(key, 1)
      BY <3>2 DEF SlidingAllowN, Charge, Admits
    <3>3. ~TokenAllowN(key, 1)
      BY DEF TokenAllowN, ChargedInv
    <3> QED
      BY <2>1, <3>1, <3>2, <3>3 DEF AllowN
  <2> QED
    BY <2>1, <2>2, <2>3 DEF ChargedInv
<1>2. ASSUME NEW k \in Keys, ResetKey(k) PROVE ChargedInv'
  BY <1>2 DEF ResetKey, Reset, TokenReset, FixedReset, SlidingReset, ChargedInv
<1>3. CASE TimePasses
  BY <1>3 DEF TimePasses, Tick, ChargedInv
<1>4. ASSUME NEW h \in Handlers,
             (\E r \in Requests : Receive(h, r)) \/ SkipLimit(h) \/ LimiterError(h) \/ Answer(h)
      PROVE  ChargedInv'
  BY <1>4 DEF Receive, SkipLimit, LimiterError, Answer, limiterVars, ChargedInv
<1>5. CASE UNCHANGED vars
  BY <1>5 DEF vars, limiterVars, ChargedInv
<1> QED
  BY <1>1, <1>2, <1>3, <1>4, <1>5 DEF Next

(* With a window algorithm, the two agree always.                           *)
LEMMA ChargedInvAlways == NamedByChain /\ Windowed => (Spec => []ChargedInv)
<1> SUFFICES ASSUME NamedByChain, Windowed PROVE Spec => []ChargedInv
  OBVIOUS
<1>1. Init => ChargedInv
  BY AlgorithmAssumption DEF Windowed, Init, LimiterInit, ChargedInv
<1>2. PipelineInv /\ ChargedInv /\ [Next]_vars => ChargedInv'
  BY NextKeepsChargedInv
<1>3. Spec => []PipelineInv
  BY PipelineInvAlways
<1> QED
  BY <1>1, <1>2, <1>3, PTL DEF Spec

(* KeyExtractor and Allow: no request is charged to another tenant, nor to  *)
(* an address that has one, with any number of requests on their way.      *)
THEOREM ChargedToOwnerAlways == NamedByChain /\ Windowed => (Spec => []ChargedToOwner)
<1> SUFFICES ASSUME NamedByChain, Windowed PROVE Spec => []ChargedToOwner
  OBVIOUS
<1>1. ChargedInv => ChargedToOwner
  BY DEF ChargedInv, ChargedToOwner
<1>2. Spec => []ChargedInv
  BY ChargedInvAlways
<1> QED
  BY <1>1, <1>2, PTL

(* A key that is refused one request has used up its limit in a window.     *)
LEMMA RefusedIsUsedUp ==
  ASSUME NoWrap, WindowsOutlived, LimiterInv, algorithm \in {"fixed", "sliding"}, 1 \in Amounts,
         NEW k \in Keys, ~Admits(k, 1)
  PROVE  GrantedIn(admitted[k], now - WindowSize, now) >= Limit
<1> DEFINE h == admitted[k]
           a == FromZero(now - WindowSize)
<1>1. now \in 0..MaxTime /\ IsHistory(h, MaxTime, now)
  BY DEF LimiterInv, LimiterTypeOK, BucketTypeOK
<1>2. /\ now \in Nat /\ MaxTime \in Nat /\ WindowSize \in Nat \ {0} /\ Limit \in Nat /\ now + 1 \in Ticks(MaxTime)
  BY <1>1, TickFacts, TimesAssumption, WindowAssumption, LimitAssumption
<1>3. a \in Ticks(MaxTime)
  BY <1>2 DEF Ticks, FromZero
<1>4. ASSUME NEW c \in 0..Limit, ~(c < Limit /\ AddInt64(c, 1) <= Limit) PROVE c = Limit
  BY <1>2, <1>4, SumsFit
<1>5. ASSUME NEW b \in Ticks(MaxTime), a <= b, Limit = h[now + 1] - h[b] PROVE h[now + 1] - h[a] >= Limit
  <2> HIDE DEF a, h
  <2>1. h[a] \in Nat /\ h[b] \in Nat /\ h[now + 1] \in Nat /\ h[a] <= h[b]
    BY <1>1, <1>2, <1>3, <1>5, HistoryFacts
  <2> QED
    BY <1>2, <1>5, <2>1
<1>6. CASE algorithm = "fixed"
  <2> DEFINE cw == CurrentWindow(KeptWindows, k)
             b == cw.windowEnd - WindowSize
  <2>1. WindowInv(cw, h, now) /\ now <= cw.windowEnd
    BY <1>6, CurrentWindowInv
  <2>2. ~(cw.count < Limit /\ AddInt64(cw.count, 1) <= Limit)
    BY <1>6 DEF Admits, FixedAdmits
  <2> HIDE DEF cw
  <2>3. /\ cw.count \in 0..Limit /\ cw.count = h[now + 1] - h[b] /\ cw.windowEnd \in Nat
        /\ b \in 0..cw.lastAccess /\ cw.lastAccess \in 0..now
    BY <2>1 DEF WindowInv
  <2>4. cw.count = Limit
    BY <1>4, <2>2, <2>3
  <2>5. a <= b
    BY <1>2, <2>1, <2>3 DEF FromZero
  <2> HIDE DEF b
  <2>6. b \in Ticks(MaxTime)
    BY <1>1, <1>2, <2>3 DEF Ticks
  <2> HIDE DEF a, h
  <2>7. h[now + 1] - h[a] >= Limit
    BY <1>5, <2>3, <2>4, <2>5, <2>6
  <2> QED
    BY <2>7 DEF GrantedIn, a, h
<1>7. CASE algorithm = "sliding"
  <2> DEFINE V == ValidTimestamps(KeptRequests, k)
             b == FromZero(now - WindowSize + 1)
  <2>1. ValidTimestamps(requests, k) = V
    BY <1>7, ValidTimestampsInv
  <2>2. Cardinality(V) = h[now + 1] - h[b] /\ Cardinality(V) \in 0..Limit
    BY <1>7, <2>1, SlidingCount DEF AdmittedIn, GrantedIn
  <2>3. ~(Cardinality(V) < Limit /\ AddInt64(Cardinality(V), 1) <= Limit)
    BY <1>7 DEF Admits, SlidingAdmits
  <2> HIDE DEF V
  <2>4. Cardinality(V) = Limit
    BY <1>4, <2>2, <2>3
  <2>5. a <= b /\ b \in Ticks(MaxTime)
    BY <1>2 DEF FromZero, Ticks
  <2> HIDE DEF b, a, h
  <2>6. h[now + 1] - h[a] >= Limit
    BY <1>5, <2>2, <2>4, <2>5
  <2> QED
    BY <2>6 DEF GrantedIn, a, h
<1> QED
  BY <1>6, <1>7

(* What a step does to a request at the rate limit middleware: only Allow   *)
(* refuses it, and it goes on to the handler in one of three ways.         *)
LEMMA LeavesLimit ==
  ASSUME PipelineInv, [Next]_vars, NEW h \in Handlers, At(h, "limit"), serving'[h].stage \in {"handler", "refused"}
  PROVE  \/ Allow(h) /\ (serving'[h].stage = "handler" <=> Admits(KeyExtractor(serving[h]), 1))
         \/ SkipLimit(h) /\ serving'[h].stage = "handler"
         \/ LimiterError(h) /\ serving'[h].stage = "handler"
<1>1. PICK r \in Requests : serving[h] = [stage |-> "limit", req |-> r, tenant |-> TenantOf(r)]
  BY DEF PipelineInv, ServingInv, At
<1>2. ASSUME NEW stage, Goto(h, stage) PROVE serving'[h].stage = stage
  <2>1. serving'[h] = [serving[h] EXCEPT !.stage = stage]
    BY <1>2 DEF Goto, PipelineInv
  <2> QED
    BY <1>1, <2>1
<1>3. ASSUME serving'[h] = serving[h] PROVE FALSE
  BY <1>3 DEF At
<1>4. ASSUME NEW g \in Handlers, g # h, NEW s, serving' = [serving EXCEPT ![g] = s] PROVE FALSE
  <2>1. serving'[h] = serving[h]
    BY <1>4 DEF PipelineInv
  <2> QED
    BY <1>3, <2>1
<1>5. ASSUME NEW g \in Handlers, g # h, NEW stage, Goto(g, stage) PROVE FALSE
  BY <1>4, <1>5 DEF Goto
<1>6. CASE UNCHANGED serving
  BY <1>3, <1>6
<1>7. ASSUME NEW g \in Handlers, NEW q \in Requests, Receive(g, q) PROVE FALSE
  <2>1. g # h
    BY <1>7 DEF Receive, At
  <2> QED
    BY <1>4, <1>7, <2>1 DEF Receive
<1>8. ASSUME NEW g \in Handlers, Answer(g) PROVE FALSE
  <2>1. g # h
    BY <1>8 DEF Answer, At
  <2> QED
    BY <1>4, <1>8, <2>1 DEF Answer
<1>9. ASSUME NEW g \in Handlers, SkipLimit(g) PROVE SkipLimit(h) /\ serving'[h].stage = "handler"
  BY <1>2, <1>5, <1>9 DEF SkipLimit
<1>10. ASSUME NEW g \in Handlers, LimiterError(g) PROVE LimiterError(h) /\ serving'[h].stage = "handler"
  BY <1>2, <1>5, <1>10 DEF LimiterError
<1>11. ASSUME NEW g \in Handlers, Allow(g)
       PROVE  Allow(h) /\ (serving'[h].stage = "handler" <=> Admits(KeyExtractor(serving[h]), 1))
  <2>1. g = h
    BY <1>5, <1>11 DEF Allow
  <2>2. serving'[h].stage = IF Admits(KeyExtractor(serving[h]), 1) THEN "handler" ELSE "refused"
    BY <1>2, <1>11, <2>1 DEF Allow
  <2> QED
    BY <1>11, <2>1, <2>2
<1> QED
  BY <1>6, <1>7, <1>8, <1>9, <1>10, <1>11 DEF Next, ResetKey, TimePasses, vars

(* The rate limit middleware answers 429 only to a sender that has used up  *)
(* its own limit within a window, whatever others do from its address.     *)
THEOREM RefusedOnlyWhenUsedAlways ==
  NamedByChain /\ KnownKeys /\ Windowed /\ NoWrap /\ WindowsOutlived => (Spec => RefusedOnlyWhenUsed)
<1> SUFFICES ASSUME NamedByChain, KnownKeys, Windowed, NoWrap, WindowsOutlived PROVE Spec => RefusedOnlyWhenUsed
  OBVIOUS
<1>1. ASSUME PipelineInv, ChargedInv, LimiterInv, [Next]_vars PROVE RefusedAtLimit
  <2> SUFFICES ASSUME NEW h \in Handlers, At(h, "limit"), At(h, "refused")'
               PROVE  GrantedIn(charged[Owner(serving[h].req)], now - WindowSize, now) >= Limit
    BY DEF RefusedAtLimit
  <2> DEFINE key == KeyExtractor(serving[h])
             r == serving[h].req
  <2>1. serving'[h].stage = "refused"
    BY DEF At
  <2>2. Allow(h) /\ ~Admits(key, 1)
    BY <1>1, <2>1, LeavesLimit
  <2>3. r \in Requests /\ key = Owner(r) /\ (~Skips(r) => r.client # "")
    BY <1>1, OwnersKey
  <2>4. TrimSpace(key) # ""
    BY <2>2 DEF Allow
  <2> HIDE DEF key, r
  <2>5. key \in Keys
    BY <2>3, <2>4 DEF KnownKeys, Owner
  <2>6. GrantedIn(admitted[key], now - WindowSize, now) >= Limit
    BY <1>1, <2>2, <2>5, RefusedIsUsedUp DEF KnownKeys, ChargedInv
  <2> QED
    BY <1>1, <2>3, <2>6 DEF ChargedInv, r
<1>2. Spec => []PipelineInv /\ []ChargedInv
  BY PipelineInvAlways, ChargedInvAlways
<1>3. Spec => []LimiterInv
  BY PipelineUsesLimiter, LimiterInvAlways
<1> QED
  BY <1>1, <1>2, <1>3, PTL DEF Spec, RefusedOnlyWhenUsed

(* The middleware lets a request of a tenant through to the handler on a    *)
(* limited path only when Allow has charged it to that tenant: the         *)
(* limiter's errors, on which it fails open, are never a tenant's.         *)
THEOREM NoTenantUnchargedAlways == NamedByChain /\ NoBlankNames /\ KnownKeys => (Spec => NoTenantUncharged)
<1> SUFFICES ASSUME NamedByChain, NoBlankNames, KnownKeys PROVE Spec => NoTenantUncharged
  OBVIOUS
<1> DEFINE Whole == DOMAIN charged = Keys
<1>1. Init => Whole
  BY DEF Init
<1>2. Whole /\ [Next]_vars => Whole'
  BY DEF Next, vars, Receive, SkipLimit, LimiterError, Allow, Answer, ResetKey, TimePasses
<1>3. ASSUME PipelineInv, Whole, [Next]_vars PROVE ChargedOnTheWay
  <2> SUFFICES ASSUME NEW h \in Handlers, At(h, "limit"), At(h, "handler")', ~Skips(serving[h].req),
                      serving[h].req.path \notin LimitSkipPaths
               PROVE  charged'[serving[h].req.client] = Granted(charged[serving[h].req.client], now, 1)
    BY DEF ChargedOnTheWay
  <2> DEFINE key == KeyExtractor(serving[h])
             r == serving[h].req
  <2>1. serving'[h].stage = "handler"
    BY DEF At
  <2>2. r \in Requests /\ key = r.client /\ r.client # "" /\ Owner(r) = r.client
    BY <1>3, OwnersKey DEF Owner
  <2>3. ~SkipLimit(h) /\ ~LimiterError(h)
    BY <2>2 DEF SkipLimit, LimiterError, NoBlankNames
  <2>4. Allow(h) /\ Admits(key, 1)
    BY <1>3, <2>1, <2>3, LeavesLimit
  <2>5. charged' = [charged EXCEPT ![r.client] = Granted(@, now, 1)]
    BY <2>2, <2>4 DEF Allow
  <2>6. r.client \in DOMAIN charged
    BY <1>3, <2>2 DEF KnownKeys
  <2> QED
    BY <2>5, <2>6
<1>4. Spec => []PipelineInv
  BY PipelineInvAlways
<1> HIDE DEF Whole
<1> QED
  BY <1>1, <1>2, <1>3, <1>4, PTL DEF Spec, NoTenantUncharged

=============================================================================
