------------------------- MODULE QuotaMemoryProofs -------------------------
(***************************************************************************)
(* Proofs about QuotaMemory for every set of tenants and types of quota,   *)
(* all limits, periods and amounts, and any length of time.                *)
(*                                                                         *)
(* That used is what was consumed in the present period is not inductive:  *)
(* a period that has elapsed is replaced at the next request only, so the  *)
(* invariant says as well that nothing was consumed since it elapsed, and  *)
(* it keeps what the period before consumed, for a stretch of time that    *)
(* straddles the two.  The sums of the code wrap for amounts near the      *)
(* largest int64; the results are about programs that stay below it.       *)
(***************************************************************************)
EXTENDS QuotaMemory, TLAPS

BelowInt64 == \A amount \in Amounts : MaxSpent + amount <= IntMax

(* The usage u of a pair with history h at tick n, whose type has the       *)
(* period P and the possible limits L.                                     *)
UsageInv(u, h, n, P, L) ==
    /\ u.limit \in L
    /\ u.used = h[n + 1] - h[u.start]
    /\ \E limit \in L : u.used <= limit
    /\ \E limit \in L : h[u.start] - h[FromZero(u.start - P)] <= limit
    /\ \A t \in Ticks(MaxTime) : t >= u.start + P => h[t] = h[n + 1]

PairInv(p) ==
    /\ IsHistory(spent[p], MaxTime, now)
    /\ spent[p][now + 1] <= MaxSpent
    /\ p \notin DOMAIN usage => spent[p][now + 1] = 0
    /\ p \in DOMAIN usage => UsageInv(usage[p], spent[p], now, Period[p[2]], PossibleLimits(p[2]))

LimitsInv ==
    /\ DOMAIN DefaultLimits \subseteq DOMAIN limits
    /\ \A q \in DOMAIN limits : limits[q] \in PossibleLimits(q)

QuotaInv == TypeOK /\ LimitsInv /\ \A p \in Pairs : PairInv(p)

Usages(n) == [used : 0..IntMax, limit : 0..IntMax, start : 0..n]

-----------------------------------------------------------------------------
(* The running totals.                                                     *)

(* A new history.                                                           *)
LEMMA NoHistoryIs ==
  ASSUME NEW last \in Nat, NEW n \in 0..last
  PROVE  /\ IsHistory(NoHistory(last), last, n)
         /\ \A t \in Ticks(last) : NoHistory(last)[t] = 0
  BY DEF IsHistory, NoHistory, Histories, Ticks

(* The passing of time adds nothing to a history.                           *)
LEMMA HistoryTick ==
  ASSUME NEW last \in Nat, NEW n \in 0..last, n < last, NEW h, IsHistory(h, last, n)
  PROVE  IsHistory(h, last, n + 1) /\ h[n + 2] = h[n + 1] /\ n + 1 + 1 = n + 2 /\ n + 1 \in 0..last
<1>1. n + 2 \in Ticks(last) /\ n + 2 > n /\ n + 1 + 1 = n + 2 /\ n + 1 \in 0..last
  BY DEF Ticks
<1>2. h[n + 2] = h[n + 1]
  BY <1>1 DEF IsHistory
<1>3. \A t \in Ticks(last) : t > n + 1 => t > n
  BY DEF Ticks
<1> QED
  BY <1>1, <1>2, <1>3 DEF IsHistory

(* What a grant changes in a history.                                       *)
LEMMA HistoryGranted ==
  ASSUME NEW last \in Nat, NEW n \in 0..last, NEW h, IsHistory(h, last, n), NEW a \in Nat
  PROVE  /\ IsHistory(Granted(h, n, a), last, n)
         /\ Granted(h, n, a)[n + 1] = h[n + 1] + a
         /\ \A t \in Ticks(last) : t <= n => Granted(h, n, a)[t] = h[t]
<1> DEFINE g == Granted(h, n, a)
<1>1. h \in [Ticks(last) -> Nat] /\ Ticks(last) \subseteq Nat /\ n \in Nat /\ n + 1 \in Ticks(last) /\ 0 \in Ticks(last)
  BY DEF IsHistory, Histories, Ticks
<1>2. g \in [Ticks(last) -> Nat] /\ \A t \in Ticks(last) : g[t] = IF t > n THEN h[t] + a ELSE h[t]
  BY <1>1 DEF Granted
<1>3. \A s, t \in Ticks(last) : s <= t => g[s] <= g[t]
  <2> SUFFICES ASSUME NEW s \in Ticks(last), NEW t \in Ticks(last), s <= t PROVE g[s] <= g[t]
    OBVIOUS
  <2>1. h[s] <= h[t] /\ h[s] \in Nat /\ h[t] \in Nat /\ s \in Nat /\ t \in Nat
    BY <1>1 DEF IsHistory
  <2>2. g[s] = (IF s > n THEN h[s] + a ELSE h[s]) /\ g[t] = (IF t > n THEN h[t] + a ELSE h[t])
    BY <1>2
  <2> HIDE DEF g
  <2> QED
    BY <2>1, <2>2, <1>1
<1>4. g[0] = 0
  BY <1>1, <1>2 DEF IsHistory
<1>5. \A t \in Ticks(last) : t > n => g[t] = g[n + 1]
  BY <1>1, <1>2 DEF IsHistory
<1>6. g \in Histories(last)
  BY <1>2 DEF Histories
<1> QED
  BY <1>1, <1>2, <1>3, <1>4, <1>5, <1>6 DEF IsHistory

-----------------------------------------------------------------------------
(* The quota manager.                                                      *)

(* The limits of a type are int64 values.                                   *)
LEMMA PossibleLimitsType ==
  ASSUME NEW q \in QuotaTypes
  PROVE  PossibleLimits(q) \subseteq 0..IntMax
<1>1. IntMax \in 0..IntMax /\ NewLimits \subseteq 0..IntMax
  BY LimitsAssumption
<1>2. (IF q \in DOMAIN DefaultLimits THEN DefaultLimits[q] ELSE IntMax) \in 0..IntMax
  BY <1>1, LimitsAssumption
<1> QED
  BY <1>1, <1>2 DEF PossibleLimits

(* Of two limits one is the higher.                                         *)
LEMMA HigherLimit ==
  ASSUME NEW L, L \subseteq 0..IntMax, NEW a \in L, NEW b \in L
  PROVE  \E c \in L : a <= c /\ b <= c
<1>1. a \in Int /\ b \in Int
  BY LimitsAssumption
<1> QED
  BY <1>1

(* Time passes: the same usage is exact for the same history.               *)
LEMMA UsageTick ==
  ASSUME NEW n \in 0..MaxTime, n < MaxTime, NEW h, IsHistory(h, MaxTime, n), NEW u, NEW P, NEW L,
         UsageInv(u, h, n, P, L)
  PROVE  UsageInv(u, h, n + 1, P, L)
<1>1. h[(n + 1) + 1] = h[n + 1]
  BY HistoryTick, PeriodAssumption
<1> QED
  BY <1>1 DEF UsageInv

(* A usage that starts now, with an unused history.                         *)
LEMMA FreshUsage ==
  ASSUME NEW n \in 0..MaxTime, NEW h, IsHistory(h, MaxTime, n), h[n + 1] = 0,
         NEW P \in Nat \ {0}, NEW L, L \subseteq 0..IntMax,
         NEW u, u.used = 0, u.limit \in L, u.start = n
  PROVE  UsageInv(u, h, n, P, L)
<1> DEFINE limit == u.limit
<1>1. Ticks(MaxTime) \subseteq Nat /\ n \in Nat /\ n + 1 \in Ticks(MaxTime) /\ n \in Ticks(MaxTime) /\ FromZero(n - P) \in Ticks(MaxTime) /\ n <= n + 1
  BY PeriodAssumption DEF Ticks, FromZero
<1>2. h[n] \in Nat /\ h[n] <= h[n + 1] /\ h[FromZero(n - P)] \in Nat
  BY <1>1 DEF IsHistory, Histories, Ticks
<1>3. limit \in Int /\ 0 <= limit
  <2>1. \A l \in L : l \in Int /\ 0 <= l
    BY LimitsAssumption
  <2> QED
    BY <2>1, Zenon
<1>4. \A t \in Ticks(MaxTime) : t >= n + P => t > n
  BY <1>1
<1>5. \A t \in Ticks(MaxTime) : t >= n + P => h[t] = h[n + 1]
  BY <1>4 DEF IsHistory
<1>6. h[n] = 0 /\ h[n + 1] = 0 /\ h[n] - h[FromZero(n - P)] <= limit
  BY <1>2, <1>3
<1>7. u.used = 0 /\ limit \in L /\ u.limit = limit /\ u.start = n
  OBVIOUS
<1> HIDE DEF limit
<1>8. u.used = h[n + 1] - h[u.start] /\ u.used <= limit /\ h[u.start] - h[FromZero(u.start - P)] <= limit
  BY <1>3, <1>6, <1>7
<1> QED
  BY <1>5, <1>7, <1>8 DEF UsageInv

(* The usage of a period that has elapsed starts again.                     *)
LEMMA RenewedUsage ==
  ASSUME NEW n \in 0..MaxTime, NEW h, IsHistory(h, MaxTime, n), NEW P \in Nat \ {0}, NEW L, L \subseteq 0..IntMax,
         NEW u \in Usages(n), UsageInv(u, h, n, P, L), n - u.start >= P
  PROVE  UsageInv([u EXCEPT !.used = 0, !.start = n], h, n, P, L)
<1> DEFINE v == [u EXCEPT !.used = 0, !.start = n]
           s == u.start
<1>1. s \in Nat /\ s <= n /\ n - s >= P
  BY DEF Usages
<1>2. /\ Ticks(MaxTime) \subseteq Nat /\ n \in Nat /\ n + 1 \in Ticks(MaxTime) /\ n \in Ticks(MaxTime) /\ s \in Ticks(MaxTime)
      /\ FromZero(n - P) \in Ticks(MaxTime) /\ s <= FromZero(n - P) /\ n >= s + P
  BY <1>1, PeriodAssumption DEF Ticks, FromZero
<1>3. h[n] = h[n + 1]
  BY <1>2 DEF UsageInv
<1>4. h[n] \in Nat /\ h[s] \in Nat /\ h[FromZero(n - P)] \in Nat /\ h[s] <= h[FromZero(n - P)]
  BY <1>2 DEF IsHistory, Histories, Ticks
<1>5. PICK limit \in L : u.used <= limit
  BY DEF UsageInv
<1>6. limit \in Int /\ 0 <= limit
  BY LimitsAssumption
<1>7. u.used = h[n] - h[s]
  BY <1>3 DEF UsageInv
<1>8. v.used = 0 /\ v.start = n /\ v.limit = u.limit
  BY DEF Usages
<1> HIDE DEF v, s
<1>9. h[n] - h[FromZero(n - P)] <= limit
  BY <1>4, <1>5, <1>6, <1>7
<1>10. \A t \in Ticks(MaxTime) : t >= n + P => t > n
  BY <1>2
<1>11. \A t \in Ticks(MaxTime) : t >= n + P => h[t] = h[n + 1]
  BY <1>10 DEF IsHistory
<1>12. v.used = h[n + 1] - h[v.start] /\ v.used <= limit /\ h[v.start] - h[FromZero(v.start - P)] <= limit
  BY <1>3, <1>4, <1>6, <1>8, <1>9
<1> QED
  BY <1>8, <1>11, <1>12 DEF UsageInv, v

(* Charging a usage that fits and whose period goes on.                     *)
LEMMA ChargedOnce ==
  ASSUME NEW n \in 0..MaxTime, NEW h, IsHistory(h, MaxTime, n), NEW P \in Nat \ {0}, NEW L, L \subseteq 0..IntMax,
         NEW u \in Usages(n), UsageInv(u, h, n, P, L), n - u.start < P,
         NEW a \in Nat, u.used + a <= u.limit
  PROVE  UsageInv([u EXCEPT !.used = u.used + a], Granted(h, n, a), n, P, L)
<1> DEFINE v == [u EXCEPT !.used = u.used + a]
           s == u.start
           g == Granted(h, n, a)
<1>1. s \in Nat /\ s <= n /\ n - s < P /\ u.used \in Nat
  BY DEF Usages
<1>2. /\ Ticks(MaxTime) \subseteq Nat /\ n \in Nat /\ n + 1 \in Ticks(MaxTime) /\ n \in Ticks(MaxTime) /\ s \in Ticks(MaxTime)
      /\ FromZero(s - P) \in Ticks(MaxTime) /\ FromZero(s - P) <= n
  <2> HIDE DEF s
  <2> QED
    BY <1>1, PeriodAssumption DEF Ticks, FromZero
<1>3. IsHistory(g, MaxTime, n) /\ g[n + 1] = h[n + 1] + a /\ g[s] = h[s] /\ g[FromZero(s - P)] = h[FromZero(s - P)]
  <2>1. IsHistory(g, MaxTime, n) /\ g[n + 1] = h[n + 1] + a /\ \A t \in Ticks(MaxTime) : t <= n => g[t] = h[t]
    BY HistoryGranted, PeriodAssumption
  <2> HIDE DEF g, s
  <2> QED
    BY <1>1, <1>2, <2>1
<1>4. h[n + 1] \in Nat /\ h[s] \in Nat
  BY <1>2 DEF IsHistory, Histories, Ticks
<1>5. v.used = u.used + a /\ v.start = s /\ v.limit = u.limit /\ v.limit \in L
  BY DEF Usages, UsageInv
<1>6. \A t \in Ticks(MaxTime) : t >= s + P => t > n
  BY <1>1, <1>2
<1>7. \A t \in Ticks(MaxTime) : t >= s + P => g[t] = g[n + 1]
  BY <1>3, <1>6 DEF IsHistory
<1>8. u.used = h[n + 1] - h[s] /\ \E limit \in L : h[s] - h[FromZero(s - P)] <= limit
  BY DEF UsageInv
<1>9. v.used <= v.limit
  BY <1>5
<1> HIDE DEF v, s, g
<1>10. v.used = g[n + 1] - g[v.start]
  BY <1>3, <1>4, <1>5, <1>8
<1>11. \E limit \in L : g[v.start] - g[FromZero(v.start - P)] <= limit
  BY <1>3, <1>5, <1>8
<1>12. UsageInv(v, g, n, P, L)
  BY <1>5, <1>7, <1>9, <1>10, <1>11 DEF UsageInv
<1> QED
  BY <1>12 DEF v, g

(* The usage that ConsumeQuota charges is exact, and its period goes on.    *)
LEMMA ChargedUsageInv ==
  ASSUME QuotaInv, NEW p \in Pairs
  PROVE  /\ ChargedUsage(p) \in Usages(now)
         /\ UsageInv(ChargedUsage(p), spent[p], now, Period[p[2]], PossibleLimits(p[2]))
         /\ now - ChargedUsage(p).start < Period[p[2]]
<1>1. /\ p[2] \in QuotaTypes /\ Period[p[2]] \in Nat \ {0} /\ PossibleLimits(p[2]) \subseteq 0..IntMax
      /\ now \in 0..MaxTime /\ now \in Nat
  BY PairsAssumption, PeriodAssumption, PossibleLimitsType DEF QuotaInv, TypeOK
<1>2. PairInv(p) /\ IsHistory(spent[p], MaxTime, now)
  BY DEF QuotaInv, PairInv
<1>3. CASE p \notin DOMAIN usage
  <2>1. LimitOf(p[2]) \in PossibleLimits(p[2])
    BY <1>1 DEF QuotaInv, LimitsInv, LimitOf, PossibleLimits
  <2>2. ChargedUsage(p) = [used |-> 0, limit |-> LimitOf(p[2]), start |-> now]
    BY <1>3 DEF ChargedUsage
  <2>3. UsageInv(ChargedUsage(p), spent[p], now, Period[p[2]], PossibleLimits(p[2]))
    BY <1>1, <1>2, <1>3, <2>1, <2>2, FreshUsage DEF PairInv
  <2>4. ChargedUsage(p) \in Usages(now) /\ ChargedUsage(p).start = now
    BY <1>1, <2>1, <2>2, LimitsAssumption DEF Usages
  <2> QED
    BY <1>1, <2>3, <2>4
<1>4. CASE p \in DOMAIN usage
  <2>1. usage[p] \in Usages(now) /\ UsageInv(usage[p], spent[p], now, Period[p[2]], PossibleLimits(p[2]))
    BY <1>2, <1>4 DEF QuotaInv, TypeOK, Usages, PairInv
  <2>2. now - usage[p].start \in Int
    BY <1>1, <2>1 DEF Usages
  <2>3. CASE ShouldResetQuota(p)
    <3>1. ChargedUsage(p) = [usage[p] EXCEPT !.used = 0, !.start = now] /\ now - usage[p].start >= Period[p[2]]
      BY <1>4, <2>3 DEF ChargedUsage, ShouldResetQuota
    <3>2. ChargedUsage(p) \in Usages(now) /\ ChargedUsage(p).start = now
      <4>1. 0 \in 0..IntMax /\ now \in 0..now
        BY <1>1, LimitsAssumption
      <4> QED
        BY <2>1, <3>1, <4>1 DEF Usages
    <3>3. UsageInv(ChargedUsage(p), spent[p], now, Period[p[2]], PossibleLimits(p[2]))
      <4> DEFINE u == usage[p]
                 h == spent[p]
                 P == Period[p[2]]
                 L == PossibleLimits(p[2])
      <4>1. /\ now \in 0..MaxTime /\ IsHistory(h, MaxTime, now) /\ P \in Nat \ {0} /\ L \subseteq 0..IntMax
            /\ u \in Usages(now) /\ UsageInv(u, h, now, P, L) /\ now - u.start >= P
        BY <1>1, <1>2, <2>1, <3>1
      <4> HIDE DEF u, h, P, L
      <4>2. UsageInv([u EXCEPT !.used = 0, !.start = now], h, now, P, L)
        BY <4>1, RenewedUsage
      <4> QED
        BY <3>1, <4>2 DEF u, h, P, L
    <3> QED
      BY <1>1, <3>2, <3>3
  <2>4. CASE ~ShouldResetQuota(p)
    BY <1>1, <1>4, <2>1, <2>2, <2>4 DEF ChargedUsage, ShouldResetQuota
  <2> QED
    BY <2>3, <2>4
<1> QED
  BY <1>3, <1>4

(* A pair whose history and usage stay as they are keeps its invariant.     *)
LEMMA OtherPairKeeps ==
  ASSUME NEW p \in Pairs, PairInv(p), now' = now, spent'[p] = spent[p],
         p \in DOMAIN usage' <=> p \in DOMAIN usage, usage'[p] = usage[p]
  PROVE  PairInv(p)'
  BY DEF PairInv, PossibleLimits, IsHistory, UsageInv

(* The sums of ConsumeQuota and CheckQuota do not wrap.                     *)
LEMMA SumsFit ==
  ASSUME BelowInt64, QuotaInv, NEW p \in Pairs, NEW u \in Usages(now),
         u.used = spent[p][now + 1] - spent[p][u.start], NEW amount \in Amounts
  PROVE  AddInt64(u.used, amount) = u.used + amount /\ u.used + amount <= IntMax
<1> DEFINE h == spent[p]
<1>1. /\ now \in Nat /\ now + 1 \in Ticks(MaxTime) /\ u.start \in Ticks(MaxTime)
      /\ amount \in Nat /\ IntMax \in Nat /\ MaxSpent \in Nat /\ MaxSpent + amount <= IntMax /\ u.used \in Nat
  BY LimitsAssumption, PeriodAssumption DEF QuotaInv, TypeOK, Usages, Ticks, BelowInt64
<1>2. h[now + 1] \in Nat /\ h[u.start] \in Nat /\ h[now + 1] <= MaxSpent
  BY <1>1 DEF QuotaInv, PairInv, IsHistory, Histories, Ticks
<1>3. u.used = h[now + 1] - h[u.start]
  OBVIOUS
<1> DEFINE used == u.used
<1> HIDE DEF h, used
<1>4. used + amount <= IntMax /\ used \in Nat
  BY <1>1, <1>2, <1>3 DEF used
<1>5. AddInt64(used, amount) = used + amount
  BY <1>1, <1>4 DEF AddInt64
<1> QED
  BY <1>4, <1>5 DEF used

(* A step that gives one pair an exact usage and leaves the others alone.   *)
LEMMA PairStepKeeps ==
  ASSUME QuotaInv, NEW p \in Pairs, NEW u \in Usages(now), NEW h,
         IsHistory(h, MaxTime, now), h[now + 1] <= MaxSpent,
         UsageInv(u, h, now, Period[p[2]], PossibleLimits(p[2])),
         now' = now, LimitsInv',
         DOMAIN limits' \subseteq QuotaTypes, \A q \in DOMAIN limits' : limits'[q] \in 0..IntMax,
         bulk' \in [Tenants -> SUBSET QuotaTypes],
         usage' = Put(usage, p, u), spent' = [spent EXCEPT ![p] = h]
  PROVE  QuotaInv'
<1>1. /\ DOMAIN usage' = DOMAIN usage \cup {p}
      /\ usage'[p] = u
      /\ \A j \in DOMAIN usage : j # p => usage'[j] = usage[j]
  BY DEF Put
<1>2. spent \in [Pairs -> Histories(MaxTime)] /\ h \in Histories(MaxTime)
  BY DEF QuotaInv, TypeOK, IsHistory
<1>3. /\ spent' \in [Pairs -> Histories(MaxTime)]
      /\ spent'[p] = h
      /\ \A j \in Pairs : j # p => spent'[j] = spent[j]
  <2> DEFINE H == Histories(MaxTime)
  <2>1. spent \in [Pairs -> H] /\ h \in H
    BY <1>2
  <2> HIDE DEF H
  <2>2. spent' \in [Pairs -> H]
    BY <2>1
  <2> QED
    BY <2>1, <2>2 DEF H
<1>4. TypeOK'
  <2>1. DOMAIN usage' \subseteq Pairs
    BY <1>1 DEF QuotaInv, TypeOK
  <2>2. \A j \in DOMAIN usage' : usage'[j] \in [used : 0..IntMax, limit : 0..IntMax, start : 0..now']
    BY <1>1 DEF QuotaInv, TypeOK, Usages
  <2> QED
    BY <2>1, <2>2, <1>3 DEF QuotaInv, TypeOK
<1>5. ASSUME NEW j \in Pairs PROVE PairInv(j)'
  <2>1. CASE j = p
    <3>1. IsHistory(h, MaxTime, now)'
      BY DEF IsHistory
    <3>2. UsageInv(u, h, now, Period[p[2]], PossibleLimits(p[2]))'
      BY DEF UsageInv, PossibleLimits
    <3> QED
      BY <1>1, <1>3, <2>1, <3>1, <3>2 DEF PairInv, IsHistory, UsageInv, PossibleLimits
  <2>2. CASE j # p /\ j \in DOMAIN usage
    BY <1>1, <1>3, <2>2, OtherPairKeeps DEF QuotaInv
  <2>3. CASE j # p /\ j \notin DOMAIN usage
    BY <1>1, <1>3, <2>3 DEF QuotaInv, PairInv, IsHistory
  <2> QED
    BY <2>1, <2>2, <2>3
<1> QED
  BY <1>4, <1>5 DEF QuotaInv

(* ConsumeQuota: the usage that it charges is exact, and so is what it      *)
(* leaves, whether the amount fits or not.                                 *)
LEMMA ConsumeKeeps ==
  ASSUME BelowInt64, QuotaInv, NEW p \in Pairs, NEW amount \in Amounts, ConsumeQuota(p[1], p[2], amount)
  PROVE  QuotaInv'
<1> DEFINE u == ChargedUsage(p)
           h == spent[p]
           P == Period[p[2]]
           L == PossibleLimits(p[2])
<1>1. Key(p[1], p[2]) = p /\ p[2] \in QuotaTypes
  BY PairsAssumption DEF Key
<1>2. /\ h[now + 1] + amount <= MaxSpent
      /\ usage' = Put(usage, p, IF Fits(u, amount) THEN [u EXCEPT !.used = AddInt64(@, amount)] ELSE u)
      /\ spent' = IF Fits(u, amount) THEN [spent EXCEPT ![p] = Granted(@, now, amount)] ELSE spent
      /\ now' = now /\ limits' = limits /\ bulk' = bulk
  BY <1>1 DEF ConsumeQuota
<1>3. /\ LimitsInv' /\ DOMAIN limits' \subseteq QuotaTypes
      /\ \A q \in DOMAIN limits' : limits'[q] \in 0..IntMax
      /\ bulk' \in [Tenants -> SUBSET QuotaTypes]
  BY <1>2 DEF QuotaInv, TypeOK, LimitsInv, PossibleLimits
<1>4. u \in Usages(now) /\ UsageInv(u, h, now, P, L) /\ now - u.start < P
  BY ChargedUsageInv
<1>5. IsHistory(h, MaxTime, now) /\ h[now + 1] <= MaxSpent /\ spent \in [Pairs -> Histories(MaxTime)]
  BY DEF QuotaInv, PairInv, TypeOK
<1>6. CASE ~Fits(u, amount)
  <2>1. usage' = Put(usage, p, u) /\ spent' = [spent EXCEPT ![p] = h]
    BY <1>2, <1>5, <1>6
  <2> HIDE DEF u, h
  <2> QED
    BY <2>1, <1>2, <1>3, <1>4, <1>5, PairStepKeeps
<1>7. CASE Fits(u, amount)
  <2>1. /\ now \in 0..MaxTime /\ now \in Nat /\ amount \in Nat /\ P \in Nat \ {0} /\ L \subseteq 0..IntMax
        /\ h[now + 1] \in Nat /\ IntMax \in Nat
    <3>1. now \in 0..MaxTime /\ now \in Nat /\ now + 1 \in 0..(MaxTime + 1)
      BY PeriodAssumption DEF QuotaInv, TypeOK
    <3>2. h \in [0..(MaxTime + 1) -> Nat]
      BY <1>5 DEF IsHistory, Histories, Ticks
    <3>3. amount \in Nat /\ IntMax \in Nat
      BY LimitsAssumption
    <3>4. P \in Nat \ {0} /\ L \subseteq 0..IntMax
      BY <1>1, PeriodAssumption, PossibleLimitsType
    <3> HIDE DEF h
    <3> QED
      BY <3>1, <3>2, <3>3, <3>4
  <2>2. AddInt64(u.used, amount) = u.used + amount /\ u.used + amount <= IntMax /\ u.used + amount <= u.limit
    BY <1>4, <1>7, SumsFit DEF UsageInv, Fits
  <2> DEFINE v == [u EXCEPT !.used = u.used + amount]
             g == Granted(h, now, amount)
  <2>3. usage' = Put(usage, p, v) /\ spent' = [spent EXCEPT ![p] = g]
    BY <1>2, <1>7, <2>2
  <2> HIDE DEF u, h, P, L
  <2>4. UsageInv(v, g, now, P, L)
    BY <1>4, <1>5, <2>1, <2>2, ChargedOnce
  <2>5. IsHistory(g, MaxTime, now) /\ g[now + 1] <= MaxSpent
    <3>1. IsHistory(g, MaxTime, now) /\ g[now + 1] = h[now + 1] + amount
      BY <1>5, <2>1, HistoryGranted, PeriodAssumption
    <3> QED
      BY <1>2, <3>1
  <2>6. v \in Usages(now)
    <3>1. u.used \in Nat /\ u.used + amount \in 0..IntMax
      BY <1>4, <2>1, <2>2 DEF Usages
    <3> QED
      BY <1>4, <3>1 DEF Usages
  <2> HIDE DEF v, g
  <2>7. UsageInv(v, g, now, Period[p[2]], PossibleLimits(p[2]))
    BY <2>4 DEF P, L
  <2> QED
    BY <2>3, <2>5, <2>6, <2>7, <1>2, <1>3, PairStepKeeps
<1> QED
  BY <1>6, <1>7

(* A step that leaves every usage and history alone.                        *)
LEMMA FrameKeeps ==
  ASSUME QuotaInv, UNCHANGED <<now, usage, spent>>, LimitsInv',
         DOMAIN limits' \subseteq QuotaTypes, \A q \in DOMAIN limits' : limits'[q] \in 0..IntMax,
         bulk' \in [Tenants -> SUBSET QuotaTypes]
  PROVE  QuotaInv'
<1>1. TypeOK'
  BY DEF QuotaInv, TypeOK
<1>2. \A p \in Pairs : PairInv(p)'
  BY DEF QuotaInv, PairInv, IsHistory, UsageInv, PossibleLimits
<1> QED
  BY <1>1, <1>2 DEF QuotaInv

(* A usage after a reset.                                                   *)
LEMMA ResetRecord ==
  ASSUME NEW n \in Nat, NEW v \in Usages(n)
  PROVE  LET u == [v EXCEPT !.used = 0, !.start = n]
         IN  u \in Usages(n) /\ u.used = 0 /\ u.limit = v.limit /\ u.start = n
<1>1. 0 \in 0..IntMax /\ n \in 0..n
  BY LimitsAssumption
<1> QED
  BY <1>1 DEF Usages

(* A reset starts a period and a history.                                   *)
LEMMA ResetKeeps ==
  ASSUME QuotaInv, NEW p \in Pairs, ResetUsage(p), UNCHANGED <<now, limits>>,
         bulk' \in [Tenants -> SUBSET QuotaTypes]
  PROVE  QuotaInv'
<1>1. /\ LimitsInv' /\ DOMAIN limits' \subseteq QuotaTypes
      /\ \A q \in DOMAIN limits' : limits'[q] \in 0..IntMax
  BY DEF QuotaInv, TypeOK, LimitsInv, PossibleLimits
<1>2. CASE p \notin DOMAIN usage
  BY <1>1, <1>2, FrameKeeps DEF ResetUsage
<1>3. CASE p \in DOMAIN usage
  <2> DEFINE limit == usage[p].limit
             u == [usage[p] EXCEPT !.used = 0, !.start = now]
             h == NoHistory(MaxTime)
             P == Period[p[2]]
             L == PossibleLimits(p[2])
  <2>1. /\ usage[p] \in Usages(now) /\ limit \in L /\ limit \in 0..IntMax
        /\ now \in 0..MaxTime /\ now \in Nat /\ MaxSpent \in Nat /\ 0 \in 0..IntMax
        /\ P \in Nat \ {0} /\ L \subseteq 0..IntMax
    BY <1>3, PairsAssumption, LimitsAssumption, PeriodAssumption, PossibleLimitsType
    DEF QuotaInv, TypeOK, PairInv, UsageInv, Usages
  <2>2. u \in Usages(now) /\ u.used = 0 /\ u.limit = limit /\ u.start = now
    BY <2>1, ResetRecord
  <2>3. usage' = Put(usage, p, u) /\ spent' = [spent EXCEPT ![p] = h]
    <3>1. /\ usage' = [usage EXCEPT ![p].used = 0, ![p].start = now]
          /\ spent' = [spent EXCEPT ![p] = h]
      BY <1>3 DEF ResetUsage
    <3> QED
      BY <1>3, <3>1 DEF Put
  <2>4. now + 1 \in Ticks(MaxTime)
    BY <2>1, PeriodAssumption DEF Ticks
  <2>5. IsHistory(h, MaxTime, now) /\ h[now + 1] = 0 /\ h[now + 1] <= MaxSpent
    BY <2>1, <2>4, NoHistoryIs, PeriodAssumption
  <2> HIDE DEF u, limit, h, P, L
  <2>6. UsageInv(u, h, now, P, L)
    BY <2>1, <2>2, <2>5, FreshUsage
  <2>7. UsageInv(u, h, now, Period[p[2]], PossibleLimits(p[2]))
    BY <2>6 DEF P, L
  <2> QED
    BY <1>1, <2>2, <2>3, <2>5, <2>7, PairStepKeeps
<1> QED
  BY <1>2, <1>3

(* SetLimit changes the limit of the type and of the tenant's usage.        *)
LEMMA SetLimitKeeps ==
  ASSUME QuotaInv, NEW p \in Pairs, NEW limit \in NewLimits, SetLimit(p[1], p[2], limit)
  PROVE  QuotaInv'
<1>1. Key(p[1], p[2]) = p /\ p[2] \in QuotaTypes
  BY PairsAssumption DEF Key
<1>2. limit \in 0..IntMax /\ \A q : limit \in PossibleLimits(q)
  BY LimitsAssumption DEF PossibleLimits
<1>3. limits' = Put(limits, p[2], limit) /\ now' = now /\ bulk' = bulk /\ spent' = spent
  BY DEF SetLimit
<1>4. /\ LimitsInv' /\ DOMAIN limits' \subseteq QuotaTypes
      /\ \A q \in DOMAIN limits' : limits'[q] \in 0..IntMax
      /\ bulk' \in [Tenants -> SUBSET QuotaTypes]
  <2>1. /\ DOMAIN limits' = DOMAIN limits \cup {p[2]}
        /\ \A q \in DOMAIN limits' : limits'[q] = IF q = p[2] THEN limit ELSE limits[q]
    BY <1>3 DEF Put
  <2> QED
    BY <1>1, <1>2, <1>3, <2>1 DEF QuotaInv, TypeOK, LimitsInv, PossibleLimits
<1>5. CASE p \notin DOMAIN usage
  BY <1>1, <1>3, <1>4, <1>5, FrameKeeps DEF SetLimit
<1>6. CASE p \in DOMAIN usage
  <2> DEFINE u == [usage[p] EXCEPT !.limit = limit]
             h == spent[p]
  <2>1. usage[p] \in Usages(now) /\ UsageInv(usage[p], h, now, Period[p[2]], PossibleLimits(p[2]))
    BY <1>6 DEF QuotaInv, TypeOK, Usages, PairInv
  <2>2. IsHistory(h, MaxTime, now) /\ h[now + 1] <= MaxSpent /\ spent \in [Pairs -> Histories(MaxTime)]
    BY DEF QuotaInv, TypeOK, PairInv
  <2>3. usage' = Put(usage, p, u)
    BY <1>1, <1>6 DEF SetLimit, Put
  <2>4. spent' = [spent EXCEPT ![p] = h]
    BY <1>3, <2>2
  <2>5. u \in Usages(now) /\ u.limit = limit /\ u.used = usage[p].used /\ u.start = usage[p].start
    BY <1>2, <2>1 DEF Usages
  <2> HIDE DEF u, h
  <2>6. UsageInv(u, h, now, Period[p[2]], PossibleLimits(p[2]))
    BY <1>2, <2>1, <2>5 DEF UsageInv
  <2> QED
    BY <1>3, <1>4, <2>2, <2>3, <2>4, <2>5, <2>6, PairStepKeeps
<1> QED
  BY <1>5, <1>6

(* Time passes.                                                             *)
LEMMA TickKeeps ==
  ASSUME QuotaInv, Tick
  PROVE  QuotaInv'
<1>1. /\ now \in 0..MaxTime /\ now < MaxTime /\ now' = now + 1
      /\ limits' = limits /\ usage' = usage /\ bulk' = bulk /\ spent' = spent
  BY DEF QuotaInv, TypeOK, Tick
<1>2. now' \in 0..MaxTime /\ 0..now \subseteq 0..now'
  BY <1>1, PeriodAssumption
<1>3. TypeOK'
  BY <1>1, <1>2 DEF QuotaInv, TypeOK
<1>4. LimitsInv'
  BY <1>1 DEF QuotaInv, LimitsInv, PossibleLimits
<1>5. ASSUME NEW p \in Pairs PROVE PairInv(p)'
  <2> DEFINE h == spent[p]
             u == usage[p]
             P == Period[p[2]]
             L == PossibleLimits(p[2])
  <2>1. /\ IsHistory(h, MaxTime, now) /\ h[now + 1] <= MaxSpent
        /\ p \notin DOMAIN usage => h[now + 1] = 0
        /\ p \in DOMAIN usage => UsageInv(u, h, now, P, L)
    BY DEF QuotaInv, PairInv
  <2> HIDE DEF h, u, P, L
  <2>2. IsHistory(h, MaxTime, now + 1) /\ h[(now + 1) + 1] = h[now + 1]
    BY <1>1, <2>1, HistoryTick, PeriodAssumption
  <2>3. p \in DOMAIN usage => UsageInv(u, h, now + 1, P, L)
    BY <1>1, <2>1, UsageTick
  <2>4. /\ IsHistory(h, MaxTime, now') /\ h[now' + 1] <= MaxSpent
        /\ p \notin DOMAIN usage => h[now' + 1] = 0
        /\ p \in DOMAIN usage => UsageInv(u, h, now', P, L)
    BY <1>1, <2>1, <2>2, <2>3
  <2> QED
    BY <1>1, <2>4 DEF PairInv, IsHistory, UsageInv, h, u, P, L, PossibleLimits
<1> QED
  BY <1>3, <1>4, <1>5 DEF QuotaInv

(* A manager without usage or limits of its own.                           *)
LEMMA InitQuotaInv == Init => QuotaInv
<1> SUFFICES ASSUME Init PROVE QuotaInv
  OBVIOUS
<1>1. 0 \in 0..MaxTime /\ 0 + 1 \in Ticks(MaxTime) /\ MaxSpent \in Nat
  BY PeriodAssumption DEF Ticks
<1>2. IsHistory(NoHistory(MaxTime), MaxTime, 0) /\ NoHistory(MaxTime)[0 + 1] = 0
  BY <1>1, NoHistoryIs, PeriodAssumption
<1>3. NoHistory(MaxTime) \in Histories(MaxTime)
  BY <1>2 DEF IsHistory
<1>4. DOMAIN usage = {}
  BY DEF Init, NoEntries
<1>5. TypeOK
  <2>1. spent \in [Pairs -> Histories(MaxTime)]
    BY <1>3 DEF Init
  <2>2. bulk \in [Tenants -> SUBSET QuotaTypes]
    BY DEF Init
  <2> QED
    BY <1>1, <1>4, <2>1, <2>2, LimitsAssumption DEF Init, TypeOK
<1>6. LimitsInv
  BY DEF Init, LimitsInv, PossibleLimits
<1>7. \A p \in Pairs : PairInv(p)
  BY <1>1, <1>2, <1>4 DEF Init, PairInv
<1> QED
  BY <1>5, <1>6, <1>7 DEF QuotaInv

(* Every operation of the manager keeps the invariant.                     *)
LEMMA NextKeepsQuotaInv ==
  ASSUME BelowInt64, QuotaInv, [Next]_vars
  PROVE  QuotaInv'
<1>1. /\ LimitsInv /\ DOMAIN limits \subseteq QuotaTypes /\ \A q \in DOMAIN limits : limits[q] \in 0..IntMax
      /\ bulk \in [Tenants -> SUBSET QuotaTypes]
  BY DEF QuotaInv, TypeOK
<1>2. limits' = limits => /\ LimitsInv' /\ DOMAIN limits' \subseteq QuotaTypes
                          /\ \A q \in DOMAIN limits' : limits'[q] \in 0..IntMax
  BY <1>1 DEF LimitsInv, PossibleLimits
<1>3. CASE Tick
  BY <1>3, TickKeeps
<1>4. ASSUME NEW p \in Pairs, NEW amount \in Amounts, ConsumeQuota(p[1], p[2], amount) PROVE QuotaInv'
  BY <1>4, ConsumeKeeps
<1>5. ASSUME NEW p \in Pairs, ResetQuota(p[1], p[2]) PROVE QuotaInv'
  <2>1. Key(p[1], p[2]) = p
    BY PairsAssumption DEF Key
  <2>2. ResetUsage(p) /\ UNCHANGED <<now, limits, bulk>>
    BY <1>5, <2>1 DEF ResetQuota
  <2> QED
    BY <1>1, <2>2, ResetKeeps
<1>6. ASSUME NEW p \in Pairs, BulkResetStep(p[1], p[2]) PROVE QuotaInv'
  <2>1. Key(p[1], p[2]) = p
    BY PairsAssumption DEF Key
  <2>2. ResetUsage(p) /\ UNCHANGED <<now, limits>> /\ bulk' = [bulk EXCEPT ![p[1]] = @ \ {p[2]}]
    BY <1>6, <2>1 DEF BulkResetStep
  <2>3. bulk' \in [Tenants -> SUBSET QuotaTypes]
    BY <1>1, <2>2
  <2> QED
    BY <2>2, <2>3, ResetKeeps
<1>7. ASSUME NEW p \in Pairs, NEW limit \in NewLimits, SetLimit(p[1], p[2], limit) PROVE QuotaInv'
  BY <1>7, SetLimitKeeps
<1>8. ASSUME NEW t \in Tenants, NEW types \in SUBSET {q \in QuotaTypes : <<t, q>> \in Pairs}, BulkResetQuotas(t, types)
      PROVE  QuotaInv'
  <2>1. bulk' \in [Tenants -> SUBSET QuotaTypes] /\ UNCHANGED <<now, limits, usage, spent>>
    BY <1>1, <1>8 DEF BulkResetQuotas
  <2> QED
    BY <1>2, <2>1, FrameKeeps
<1>9. CASE UNCHANGED vars
  <2>1. UNCHANGED <<now, limits, usage, bulk, spent>>
    BY <1>9 DEF vars
  <2> QED
    BY <1>1, <1>2, <2>1, FrameKeeps
<1> QED
  BY <1>3, <1>4, <1>5, <1>6, <1>7, <1>8, <1>9 DEF Next

(* Every usage of the manager is exact and every history consistent, below  *)
(* the largest int64.                                                      *)
THEOREM QuotaInvAlways == BelowInt64 => (Spec => []QuotaInv)
<1> SUFFICES ASSUME BelowInt64 PROVE Spec => []QuotaInv
  OBVIOUS
<1>1. Init => QuotaInv
  BY InitQuotaInv
<1>2. QuotaInv /\ [Next]_vars => QuotaInv'
  BY NextKeepsQuotaInv
<1> QED
  BY <1>1, <1>2, PTL DEF Spec

(* The types: in particular used never turns negative and no period starts  *)
(* in the future.                                                          *)
THEOREM TypeAlways == BelowInt64 => (Spec => []TypeOK)
<1>1. QuotaInv => TypeOK
  BY DEF QuotaInv
<1> QED
  BY <1>1, QuotaInvAlways, PTL

(* GetUsage reports what was consumed since the start of the period.        *)
THEOREM UsageExactAlways == BelowInt64 => (Spec => []UsageExact)
<1>1. QuotaInv => UsageExact
  <2> SUFFICES ASSUME QuotaInv, NEW p \in DOMAIN usage
               PROVE  usage[p].used = SpentIn(p, usage[p].start, now)
    BY DEF UsageExact
  <2>1. usage[p].start \in Nat /\ usage[p].used = spent[p][now + 1] - spent[p][usage[p].start]
    BY DEF QuotaInv, TypeOK, PairInv, UsageInv
  <2> QED
    BY <2>1 DEF SpentIn, GrantedIn, FromZero
<1> QED
  BY <1>1, QuotaInvAlways, PTL

(* No period sees more than a limit that the pair could have had.           *)
THEOREM PeriodLimitAlways == BelowInt64 => (Spec => []PeriodLimit)
<1>1. QuotaInv => PeriodLimit
  <2> SUFFICES ASSUME QuotaInv, NEW p \in DOMAIN usage
               PROVE  \E limit \in PossibleLimits(p[2]) : SpentIn(p, usage[p].start, now) <= limit
    BY DEF PeriodLimit
  <2>1. /\ usage[p].start \in Nat /\ usage[p].used = spent[p][now + 1] - spent[p][usage[p].start]
        /\ \E limit \in PossibleLimits(p[2]) : usage[p].used <= limit
    BY DEF QuotaInv, TypeOK, PairInv, UsageInv
  <2>2. usage[p].used = SpentIn(p, usage[p].start, now)
    BY <2>1 DEF SpentIn, GrantedIn, FromZero
  <2> QED
    BY <2>1, <2>2
<1> QED
  BY <1>1, QuotaInvAlways, PTL

(* What a stretch of time as long as a period can see: this period's share  *)
(* and the one of the period before it.                                    *)
LEMMA TwoPeriods ==
  ASSUME NEW n \in 0..MaxTime, NEW h, IsHistory(h, MaxTime, n), NEW P \in Nat \ {0}, NEW L, L \subseteq 0..IntMax,
         NEW u \in Usages(n), UsageInv(u, h, n, P, L)
  PROVE  \E limit \in L : h[n + 1] - h[FromZero(n - P + 1)] <= 2 * limit
<1> DEFINE s == u.start
           w == FromZero(n - P + 1)
           b == FromZero(s - P)
<1>1. s \in Nat /\ s <= n /\ n \in Nat
  BY DEF Usages
<1>2. /\ n + 1 \in Ticks(MaxTime) /\ s \in Ticks(MaxTime) /\ w \in Ticks(MaxTime) /\ b \in Ticks(MaxTime) /\ Ticks(MaxTime) \subseteq Nat /\ b <= w
  <2> HIDE DEF s
  <2> QED
    BY <1>1, PeriodAssumption DEF Ticks, FromZero
<1>3. h[n + 1] \in Nat /\ h[s] \in Nat /\ h[w] \in Nat /\ h[b] \in Nat /\ h[b] <= h[w]
  BY <1>2 DEF IsHistory, Histories, Ticks
<1>4. u.used = h[n + 1] - h[s]
  BY DEF UsageInv
<1>5. PICK l1 \in L : u.used <= l1
  BY DEF UsageInv
<1>6. PICK l2 \in L : h[s] - h[b] <= l2
  BY DEF UsageInv
<1>7. PICK limit \in L : l1 <= limit /\ l2 <= limit
  BY HigherLimit
<1>8. l1 \in Int /\ l2 \in Int /\ limit \in Int
  BY LimitsAssumption
<1> HIDE DEF s, w, b
<1>9. h[n + 1] - h[w] <= 2 * limit
  BY <1>3, <1>4, <1>5, <1>6, <1>7, <1>8
<1> QED
  BY <1>9 DEF w

(* No stretch of time as long as a period sees more than twice a limit that *)
(* the pair could have had, wherever it starts.                            *)
THEOREM AtMostTwiceAlways == BelowInt64 => (Spec => []AtMostTwicePerPeriod)
<1>1. QuotaInv => AtMostTwicePerPeriod
  <2> SUFFICES ASSUME QuotaInv, NEW p \in Pairs
               PROVE  \E limit \in PossibleLimits(p[2]) : SpentIn(p, now - Period[p[2]] + 1, now) <= 2 * limit
    BY DEF AtMostTwicePerPeriod
  <2> DEFINE h == spent[p]
             P == Period[p[2]]
             L == PossibleLimits(p[2])
             w == FromZero(now - P + 1)
  <2>1. /\ now \in 0..MaxTime /\ now \in Nat /\ IsHistory(h, MaxTime, now)
        /\ P \in Nat \ {0} /\ L \subseteq 0..IntMax
        /\ p \notin DOMAIN usage => h[now + 1] = 0
        /\ p \in DOMAIN usage => usage[p] \in Usages(now) /\ UsageInv(usage[p], h, now, P, L)
    BY PairsAssumption, PeriodAssumption, PossibleLimitsType DEF QuotaInv, TypeOK, PairInv, Usages
  <2>2. SpentIn(p, now - P + 1, now) = h[now + 1] - h[w]
    BY DEF SpentIn, GrantedIn, FromZero
  <2>3. \E limit \in L : TRUE
    BY DEF PossibleLimits
  <2> HIDE DEF h, P, L
  <2>4. CASE p \in DOMAIN usage
    BY <2>1, <2>2, <2>4, TwoPeriods DEF P, L
  <2>5. CASE p \notin DOMAIN usage
    <3>1. w \in Ticks(MaxTime)
      BY <2>1, PeriodAssumption DEF Ticks, FromZero
    <3>2. h[w] \in Nat /\ h[now + 1] = 0
      BY <2>1, <2>5, <3>1 DEF IsHistory, Histories, Ticks
    <3>3. PICK limit \in L : TRUE
      BY <2>3
    <3>4. limit \in Int /\ 0 <= limit
      BY <2>1, LimitsAssumption
    <3> HIDE DEF w
    <3>5. h[now + 1] - h[w] <= 2 * limit
      BY <3>2, <3>4
    <3> QED
      BY <2>2, <3>5 DEF P, L
  <2> QED
    BY <2>4, <2>5
<1> QED
  BY <1>1, QuotaInvAlways, PTL

(* CheckQuota decides by the usage as it is and ConsumeQuota by the one     *)
(* that it charges: they differ only when a reset is due, and the reset    *)
(* makes room.                                                             *)
THEOREM CheckIsSafeAlways == BelowInt64 => (Spec => []CheckIsSafe)
<1> SUFFICES ASSUME BelowInt64 PROVE Spec => []CheckIsSafe
  OBVIOUS
<1>1. QuotaInv => CheckIsSafe
  <2> SUFFICES ASSUME QuotaInv, NEW p \in Pairs, NEW amount \in Amounts
               PROVE  /\ CheckQuota(p[1], p[2], amount) = "yes" => ConsumeSucceeds(p[1], p[2], amount)
                      /\ (CheckQuota(p[1], p[2], amount) = "no" /\ ConsumeSucceeds(p[1], p[2], amount)) =>
                            ShouldResetQuota(p)
    BY PairsAssumption DEF CheckIsSafe, Key
  <2>1. Key(p[1], p[2]) = p /\ p[2] \in QuotaTypes
    BY PairsAssumption DEF Key
  <2>2. ConsumeSucceeds(p[1], p[2], amount) <=> Fits(ChargedUsage(p), amount)
    BY <2>1 DEF ConsumeSucceeds
  <2>3. amount \in Nat
    BY LimitsAssumption
  <2>4. Fits(ChargedUsage(p), amount) <=> ChargedUsage(p).used + amount <= ChargedUsage(p).limit
    BY ChargedUsageInv, SumsFit DEF Fits, UsageInv
  <2>5. CASE p[2] \notin DOMAIN limits
    BY <2>5 DEF CheckQuota
  <2>6. CASE p[2] \in DOMAIN limits /\ p \notin DOMAIN usage
    <3>1. ChargedUsage(p).used = 0 /\ ChargedUsage(p).limit = limits[p[2]]
      BY <2>6 DEF ChargedUsage, LimitOf
    <3>2. CheckQuota(p[1], p[2], amount) = IF amount <= limits[p[2]] THEN "yes" ELSE "no"
      BY <2>1, <2>6 DEF CheckQuota
    <3>3. Fits(ChargedUsage(p), amount) <=> amount <= limits[p[2]]
      BY <2>3, <2>4, <3>1
    <3> QED
      BY <2>2, <3>2, <3>3
  <2>7. CASE p[2] \in DOMAIN limits /\ p \in DOMAIN usage
    <3>1. usage[p] \in Usages(now) /\ UsageInv(usage[p], spent[p], now, Period[p[2]], PossibleLimits(p[2]))
      BY <2>7 DEF QuotaInv, TypeOK, Usages, PairInv
    <3>2. CheckQuota(p[1], p[2], amount) = IF Fits(usage[p], amount) THEN "yes" ELSE "no"
      BY <2>1, <2>7 DEF CheckQuota
    <3>3. Fits(usage[p], amount) <=> usage[p].used + amount <= usage[p].limit
      BY <3>1, SumsFit DEF Fits, UsageInv
    <3>4. CASE ShouldResetQuota(p)
      <4>1. ChargedUsage(p).used = 0 /\ ChargedUsage(p).limit = usage[p].limit
        BY <2>7, <3>1, <3>4 DEF ChargedUsage, Usages
      <4>2. usage[p].used \in Nat /\ usage[p].limit \in Nat
        BY <3>1, LimitsAssumption DEF Usages
      <4>3. Fits(usage[p], amount) => Fits(ChargedUsage(p), amount)
        BY <2>3, <2>4, <3>3, <4>1, <4>2
      <4> QED
        BY <2>2, <3>2, <3>4, <4>3
    <3>5. CASE ~ShouldResetQuota(p)
      <4>1. ChargedUsage(p) = usage[p]
        BY <2>7, <3>5 DEF ChargedUsage
      <4> QED
        BY <2>2, <3>2, <4>1
    <3> QED
      BY <3>4, <3>5
  <2> QED
    BY <2>5, <2>6, <2>7
<1> QED
  BY <1>1, QuotaInvAlways, PTL

(* A pair that is in the map, or whose type keeps its limit, is charged as  *)
(* before when its own entry stays.                                        *)
LEMMA ChargedUsageFrame ==
  ASSUME NEW p \in Pairs, now' = now, p \in DOMAIN usage' <=> p \in DOMAIN usage,
         p \in DOMAIN usage => usage'[p] = usage[p],
         p \in DOMAIN usage \/ limits' = limits
  PROVE  ChargedUsage(p)' = ChargedUsage(p)
  BY DEF ChargedUsage, ShouldResetQuota, LimitOf

(* ConsumeQuota, ResetQuota and SetLimit of one tenant leave what another   *)
(* may consume as it was; no hypothesis on the amounts is needed.          *)
THEOREM TenantsIndependentAlways == Spec => TenantsIndependent
<1>1. ASSUME NEW p \in Pairs, NEW other \in Pairs
      PROVE  Key(p[1], p[2]) = p /\ (p[1] # other[1] => p # other)
  BY PairsAssumption DEF Key
<1>2. ASSUME NEW p \in Pairs, NEW amount \in Amounts, ConsumeQuota(p[1], p[2], amount),
             NEW other \in Pairs, p # other
      PROVE  ChargedUsage(other)' = ChargedUsage(other)
  <2>1. now' = now /\ limits' = limits /\ \E u : usage' = Put(usage, p, u)
    BY <1>1, <1>2 DEF ConsumeQuota
  <2> QED
    BY <2>1, <1>2, ChargedUsageFrame DEF Put
<1>3. ASSUME NEW p \in Pairs, ResetUsage(p), UNCHANGED <<now, limits>>, NEW other \in Pairs, p # other
      PROVE  ChargedUsage(other)' = ChargedUsage(other)
  BY <1>3, ChargedUsageFrame DEF ResetUsage
<1>4. ASSUME NEW p \in Pairs, NEW limit \in NewLimits, SetLimit(p[1], p[2], limit),
             NEW other \in Pairs, p # other, other \in DOMAIN usage
      PROVE  ChargedUsage(other)' = ChargedUsage(other)
  <2>1. now' = now /\ usage' = IF p \in DOMAIN usage THEN [usage EXCEPT ![p].limit = limit] ELSE usage
    BY <1>1, <1>4 DEF SetLimit
  <2> QED
    BY <2>1, <1>4, ChargedUsageFrame
<1>5. OthersUntouched
  <2> SUFFICES ASSUME NEW p \in Pairs, NEW other \in Pairs, p[1] # other[1]
               PROVE  /\ (\/ \E amount \in Amounts : ConsumeQuota(p[1], p[2], amount)
                          \/ ResetQuota(p[1], p[2]) \/ BulkResetStep(p[1], p[2])) => Untouched(other)
                      /\ ((\E limit \in NewLimits : SetLimit(p[1], p[2], limit)) /\ other \in DOMAIN usage) =>
                            Untouched(other)
    BY <1>1 DEF OthersUntouched
  <2>1. Key(p[1], p[2]) = p /\ Key(other[1], other[2]) = other /\ p # other
    BY <1>1
  <2>2. (ResetQuota(p[1], p[2]) \/ BulkResetStep(p[1], p[2])) => ResetUsage(p) /\ UNCHANGED <<now, limits>>
    BY <2>1 DEF ResetQuota, BulkResetStep
  <2>3. Untouched(other) <=> ChargedUsage(other)' = ChargedUsage(other)
    BY <2>1 DEF Untouched
  <2> QED
    BY <2>1, <2>2, <2>3, <1>2, <1>3, <1>4
<1> QED
  BY <1>5, PTL DEF TenantsIndependent

=============================================================================
