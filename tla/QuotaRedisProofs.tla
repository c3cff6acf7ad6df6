-------------------------- MODULE QuotaRedisProofs --------------------------
(***************************************************************************)
(* Proofs about QuotaRedis for any number of tenants, types, instances and *)
(* calls, any amounts and limits, lost replies and scripts sent again.     *)
(*                                                                         *)
(* What Redis holds is a bound on what callers were told only within the   *)
(* period of the key.  The bound over any stretch of time needs what the   *)
(* period before it was charged, and what is known of a pair whose key is  *)
(* gone.                                                                   *)
(***************************************************************************)
EXTENDS QuotaRedis, SequenceTheorems, TLAPS

(* The configured period is a whole number of seconds, which the code does  *)
(* not ensure: int64(ResetTTL.Seconds()) would make the period of Redis    *)
(* shorter than the configured one.                                        *)
WholeSeconds == TTL = ResetTTL

UsageKey(p) == BuildUsageKey(p[1], p[2])

LimitKey(p) == BuildLimitKey(p[1], p[2])

(* No usage key is a limit key, which the code does not ensure: the usage   *)
(* of tenant "limit" for the type "acme:daily" is kept in the limit key of *)
(* tenant "acme" for the type "daily".                                     *)
KeysApart == \A p, r \in Pairs : UsageKey(p) # LimitKey(r)

Grants == SUBSET ((0..MaxTime) \X Nat)

(* From any tick of from..end up to end, callers were told of no more than  *)
(* a limit of a call that was told so in that time.                        *)
Within(h, g, from, end) == \A a \in from..end : \E limit \in LimitsIn(g, a, end - 1) : h[end] - h[a] <= limit

(* The usage key u of a pair with history h and grants g at tick n.         *)
UsageInv(u, h, g, n) ==
    LET start == u.expireAt - TTL
    IN  /\ u.val \in Nat /\ u.expireAt \in (n + 1)..(n + TTL) /\ start \in Nat
        /\ u.val >= h[n + 1] - h[start]
        /\ Within(h, g, start, n + 1)
        /\ Within(h, g, FromZero(start - TTL), start)

(* A pair without a usage key: it consumed nothing at this tick, and what   *)
(* it consumed in the last period is within a limit.  With a period below  *)
(* a second Redis keeps no key at all, and nothing limits a pair.          *)
NoUsageInv(h, g, n) ==
    TTL # 0 => h[n + 1] = h[n] /\ Within(h, g, FromZero(n - TTL), n)

(* What the keys r of Redis hold of a pair whose usage key is k.            *)
HoldsUsage(r, k, h, g, n) == IF k \in DOMAIN r THEN UsageInv(r[k], h, g, n) ELSE NoUsageInv(h, g, n)

PairInv(p) ==
    /\ IsHistory(spent[p], MaxTime, now)
    /\ HoldsUsage(redis, UsageKey(p), spent[p], carried[p], now)
    /\ LimitKey(p) \in DOMAIN redis => redis[LimitKey(p)].expireAt = NoExpiry

(* A script is only sent with a limit that binds its call.                  *)
CallInv == \A c \in Clients : call[c] # NoCall => call[c].limit \in call[c].bound

QuotaInv == TypeOK /\ CallInv /\ \A p \in Pairs : PairInv(p)

-----------------------------------------------------------------------------
(* The running totals.                                                     *)

(* A new history.                                                           *)
LEMMA NoHistoryIs ==
  ASSUME NEW last \in Nat, NEW n \in 0..last
  PROVE  /\ IsHistory(NoHistory(last), last, n)
         /\ \A t \in Ticks(last) : NoHistory(last)[t] = 0
  BY DEF IsHistory, NoHistory, Histories, Ticks

(* The passing of time adds nothing to a history.                           *)
LEMMA HistoryTick ==
  ASSUME NEW last \in Nat, NEW n \in 0..last, n < last, NEW h, IsHistory(h, last, n)
  PROVE  IsHistory(h, last, n + 1) /\ h[n + 2] = h[n + 1] /\ n + 1 + 1 = n + 2 /\ n + 1 \in 0..last
<1>1. n + 2 \in Ticks(last) /\ n + 2 > n /\ n + 1 + 1 = n + 2 /\ n + 1 \in 0..last
  BY DEF Ticks
<1>2. h[n + 2] = h[n + 1]
  BY <1>1 DEF IsHistory
<1>3. \A t \in Ticks(last) : t > n + 1 => t > n
  BY DEF Ticks
<1> QED
  BY <1>1, <1>2, <1>3 DEF IsHistory

(* What a grant changes in a history.                                       *)
LEMMA HistoryGranted ==
  ASSUME NEW last \in Nat, NEW n \in 0..last, NEW h, IsHistory(h, last, n), NEW a \in Nat
  PROVE  /\ IsHistory(Granted(h, n, a), last, n)
         /\ Granted(h, n, a)[n + 1] = h[n + 1] + a
         /\ \A t \in Ticks(last) : t <= n => Granted(h, n, a)[t] = h[t]
<1> DEFINE g == Granted(h, n, a)
<1>1. h \in [Ticks(last) -> Nat] /\ Ticks(last) \subseteq Nat /\ n \in Nat /\ n + 1 \in Ticks(last) /\ 0 \in Ticks(last)
  BY DEF IsHistory, Histories, Ticks
<1>2. g \in [Ticks(last) -> Nat] /\ \A t \in Ticks(last) : g[t] = IF t > n THEN h[t] + a ELSE h[t]
  BY <1>1 DEF Granted
<1>3. \A s, t \in Ticks(last) : s <= t => g[s] <= g[t]
  <2> SUFFICES ASSUME NEW s \in Ticks(last), NEW t \in Ticks(last), s <= t PROVE g[s] <= g[t]
    OBVIOUS
  <2>1. h[s] <= h[t] /\ h[s] \in Nat /\ h[t] \in Nat /\ s \in Nat /\ t \in Nat
    BY <1>1 DEF IsHistory
  <2>2. g[s] = (IF s > n THEN h[s] + a ELSE h[s]) /\ g[t] = (IF t > n THEN h[t] + a ELSE h[t])
    BY <1>2
  <2> HIDE DEF g
  <2> QED
    BY <2>1, <2>2, <1>1
<1>4. g[0] = 0
  BY <1>1, <1>2 DEF IsHistory
<1>5. \A t \in Ticks(last) : t > n => g[t] = g[n + 1]
  BY <1>1, <1>2 DEF IsHistory
<1>6. g \in Histories(last)
  BY <1>2 DEF Histories
<1> QED
  BY <1>1, <1>2, <1>3, <1>4, <1>5, <1>6 DEF IsHistory

-----------------------------------------------------------------------------
(* Keys.                                                                   *)

Word == STRING \cup {"limit"}

(* The key k has the words of s in front of the type q.                    *)
IsKey(k, s, q) ==
    /\ Len(k) = Len(s) + Len(q)
    /\ \A i \in 1..Len(s) : k[i] = s[i]
    /\ \A i \in 1..Len(q) : k[Len(s) + i] = q[i]

(* The concatenation is such a key.                                        *)
LEMMA ConcatIsKey ==
  ASSUME NEW s \in Seq(Word), NEW q \in Seq(Word)
  PROVE  IsKey(s \o q, s, q)
<1> DEFINE k == s \o q
           m == Len(s)
           n == Len(q)
<1>1. Len(k) = m + n /\ \A i \in 1..m + n : k[i] = IF i <= m THEN s[i] ELSE q[i - m]
  BY ConcatProperties
<1>2. m \in Nat /\ n \in Nat
  BY LenProperties
<1> HIDE DEF k, m, n
<1>3. \A i \in 1..m : k[i] = s[i]
  BY <1>1, <1>2
<1>4. ASSUME NEW i \in 1..n PROVE k[m + i] = q[i]
  <2>1. m + i \in 1..m + n /\ ~(m + i <= m) /\ (m + i) - m = i
    BY <1>2
  <2> QED
    BY <1>1, <2>1
<1>5. IsKey(k, s, q)
  BY <1>1, <1>3, <1>4 DEF IsKey, m, n
<1> QED
  BY <1>5 DEF k

(* As many words in front of two types make one key only of one type.      *)
LEMMA KeyParts ==
  ASSUME NEW k, NEW s \in Seq(Word), NEW t \in Seq(Word), NEW q \in Seq(Word), NEW r \in Seq(Word),
         IsKey(k, s, q), IsKey(k, t, r), Len(s) = Len(t)
  PROVE  (\A i \in 1..Len(s) : s[i] = t[i]) /\ q = r
<1>1. Len(s) \in Nat /\ Len(q) \in Nat /\ Len(r) \in Nat
  BY LenProperties
<1>2. Len(q) = Len(r)
  BY <1>1 DEF IsKey
<1>3. \A i \in 1..Len(q) : q[i] = r[i]
  BY <1>2 DEF IsKey
<1>4. q = r
  BY <1>2, <1>3, SeqEqual
<1> QED
  BY <1>4 DEF IsKey

IsUsageKey(k, t, q) == IsKey(k, <<t>>, q)

IsLimitKey(k, t, q) == IsKey(k, <<"limit", t>>, q)

(* A usage key names its tenant and its type.                              *)
LEMMA UsageKeyNames ==
  ASSUME NEW t \in Word, NEW u \in Word, NEW q \in Seq(Word), NEW r \in Seq(Word), NEW k,
         IsUsageKey(k, t, q), IsUsageKey(k, u, r)
  PROVE  t = u /\ q = r
<1> DEFINE a == <<t>>
           b == <<u>>
<1>1. a \in Seq(Word) /\ Len(a) = 1 /\ a[1] = t /\ b \in Seq(Word) /\ Len(b) = 1 /\ b[1] = u
  OBVIOUS
<1>2. IsKey(k, a, q) /\ IsKey(k, b, r)
  BY DEF IsUsageKey
<1> HIDE DEF a, b
<1>3. (\A i \in 1..Len(a) : a[i] = b[i]) /\ q = r
  BY <1>1, <1>2, KeyParts
<1> QED
  BY <1>1, <1>3

(* So does a limit key.                                                    *)
LEMMA LimitKeyNames ==
  ASSUME NEW t \in Word, NEW u \in Word, NEW q \in Seq(Word), NEW r \in Seq(Word), NEW k,
         IsLimitKey(k, t, q), IsLimitKey(k, u, r)
  PROVE  t = u /\ q = r
<1> DEFINE w == "limit"
           a == <<w, t>>
           b == <<w, u>>
<1>1. w \in Word
  BY DEF Word
<1>2. IsKey(k, a, q) /\ IsKey(k, b, r)
  BY DEF IsLimitKey
<1> HIDE DEF w
<1>3. a \in Seq(Word) /\ Len(a) = 2 /\ a[2] = t /\ b \in Seq(Word) /\ Len(b) = 2 /\ b[2] = u
  BY <1>1
<1> HIDE DEF a, b
<1>4. (\A i \in 1..Len(a) : a[i] = b[i]) /\ q = r
  BY <1>3, <1>2, KeyParts
<1> QED
  BY <1>3, <1>4

(* What is known of the keys of a pair.                                    *)
LEMMA KeysOfPair ==
  ASSUME NEW x \in Pairs
  PROVE  /\ x = <<x[1], x[2]>> /\ x[1] \in Word /\ x[2] \in Seq(Word)
         /\ IsUsageKey(UsageKey(x), x[1], x[2]) /\ IsLimitKey(LimitKey(x), x[1], x[2])
<1> DEFINE w == "limit"
<1>1. w \in Word /\ Tenants \subseteq Word /\ QuotaTypes \subseteq Seq(Word)
  <2>1. STRING \subseteq Word /\ w \in Word
    BY DEF Word
  <2>2. Tenants \subseteq STRING /\ QuotaTypes \subseteq Seq(STRING)
    BY QuotaAssumption, Zenon
  <2>3. Seq(STRING) \subseteq Seq(Word)
    BY <2>1, SeqMonotonic
  <2> QED
    BY <2>1, <2>2, <2>3, Zenon
<1>2. x = <<x[1], x[2]>> /\ x[1] \in Word /\ x[2] \in Seq(Word)
  BY <1>1 DEF Pairs
<1>3. <<x[1]>> \in Seq(Word) /\ <<w, x[1]>> \in Seq(Word)
  BY <1>1, <1>2
<1>4. UsageKey(x) = <<x[1]>> \o x[2] /\ LimitKey(x) = <<w, x[1]>> \o x[2]
  BY DEF UsageKey, LimitKey, BuildUsageKey, BuildLimitKey
<1> HIDE DEF w
<1>5. IsKey(<<x[1]>> \o x[2], <<x[1]>>, x[2]) /\ IsKey(<<w, x[1]>> \o x[2], <<w, x[1]>>, x[2])
  BY <1>2, <1>3, ConcatIsKey
<1>6. IsKey(UsageKey(x), <<x[1]>>, x[2]) /\ IsKey(LimitKey(x), <<w, x[1]>>, x[2])
  BY <1>4, <1>5, Zenon
<1> QED
  BY <1>2, <1>6, Zenon DEF IsUsageKey, IsLimitKey, w

(* Two pairs have two usage keys and two limit keys.                       *)
LEMMA KeysDistinct ==
  ASSUME NEW p \in Pairs, NEW r \in Pairs, p # r
  PROVE  UsageKey(p) # UsageKey(r) /\ LimitKey(p) # LimitKey(r)
<1>1. p[1] # r[1] \/ p[2] # r[2]
  BY KeysOfPair
<1>2. UsageKey(p) # UsageKey(r)
  BY <1>1, KeysOfPair, UsageKeyNames
<1>3. LimitKey(p) # LimitKey(r)
  BY <1>1, KeysOfPair, LimitKeyNames
<1> QED
  BY <1>2, <1>3

-----------------------------------------------------------------------------
(* Ticks.                                                                  *)

(* The period of the keys.                                                  *)
LEMMA TTLType == TTL \in Nat
<1>1. ResetTTL \in Nat /\ Second \in Nat \ {0}
  BY QuotaAssumption
<1>2. ResetTTL \div Second \in Nat
  BY <1>1, SMT
<1> DEFINE q == ResetTTL \div Second
<1> HIDE DEF q
<1>3. q * Second \in Nat
  BY <1>1, <1>2, SMT DEF q
<1> QED
  BY <1>3 DEF TTL, q

(* The ticks that the invariants speak of, and the totals there.            *)
LEMMA TickFacts ==
  ASSUME NEW n \in 0..MaxTime
  PROVE  /\ n \in Nat /\ n + 1 \in Ticks(MaxTime) /\ n \in Ticks(MaxTime) /\ MaxTime \in Nat
         /\ Ticks(MaxTime) \subseteq Nat
         /\ \A s \in Int : s <= n + 1 => FromZero(s) \in Ticks(MaxTime)
  BY QuotaAssumption DEF Ticks, FromZero

(* A history holds natural numbers and never falls.                        *)
LEMMA HistoryFacts ==
  ASSUME NEW n \in 0..MaxTime, NEW h, IsHistory(h, MaxTime, n)
  PROVE  /\ \A t \in Ticks(MaxTime) : h[t] \in Nat
         /\ \A s, t \in Ticks(MaxTime) : s <= t => h[s] <= h[t]
  BY DEF IsHistory, Histories

-----------------------------------------------------------------------------
(* One pair.                                                               *)

(* What LimitsIn holds: 0 and the limits of the grants of its ticks.        *)
LEMMA LimitsInHas ==
  ASSUME NEW g, NEW from, NEW to
  PROVE  /\ 0 \in LimitsIn(g, from, to)
         /\ \A r \in g : (from <= r[1] /\ r[1] <= to) => r[2] \in LimitsIn(g, from, to)
         /\ \A l \in LimitsIn(g, from, to) : l = 0 \/ \E r \in g : from <= r[1] /\ r[1] <= to /\ l = r[2]
  BY DEF LimitsIn

(* It holds more for a longer stretch and for more grants.                 *)
LEMMA LimitsInGrow ==
  ASSUME NEW g \in Grants, NEW g2 \in Grants, g \subseteq g2,
         NEW a \in Int, NEW b \in Int, NEW c \in Int, NEW d \in Int, c <= a, b <= d
  PROVE  LimitsIn(g, a, b) \subseteq LimitsIn(g2, c, d)
<1> SUFFICES ASSUME NEW l \in LimitsIn(g, a, b), l # 0 PROVE l \in LimitsIn(g2, c, d)
  BY LimitsInHas
<1>1. PICK r \in g : a <= r[1] /\ r[1] <= b /\ l = r[2]
  BY LimitsInHas
<1>2. r[1] \in Int
  BY QuotaAssumption DEF Grants
<1>3. c <= r[1] /\ r[1] <= d /\ r \in g2
  BY <1>1, <1>2
<1> QED
  BY <1>1, <1>3, LimitsInHas

(* They are natural numbers.                                               *)
LEMMA LimitsInType ==
  ASSUME NEW g \in Grants, NEW a, NEW b
  PROVE  LimitsIn(g, a, b) \subseteq Nat
<1>1. \A r \in g : r[2] \in Nat
  BY DEF Grants
<1> QED
  BY <1>1, LimitsInHas

(* Time passes with nothing consumed.                                      *)
LEMMA WithinLater ==
  ASSUME NEW n \in 0..MaxTime, NEW h, IsHistory(h, MaxTime, n), NEW g \in Grants,
         NEW from \in Nat, NEW from2 \in Nat, from <= from2,
         NEW end \in Ticks(MaxTime), NEW end2 \in Ticks(MaxTime), end <= end2, h[end2] = h[end],
         Within(h, g, from, end)
  PROVE  Within(h, g, from2, end2)
<1> SUFFICES ASSUME NEW a \in from2..end2
             PROVE  \E limit \in LimitsIn(g, a, end2 - 1) : h[end2] - h[a] <= limit
  BY DEF Within
<1>1. end \in Nat /\ end2 \in Nat /\ a \in Nat /\ a \in Ticks(MaxTime) /\ a <= end2 /\ from <= a
  BY QuotaAssumption DEF Ticks
<1>2. CASE a <= end
  <2>1. PICK limit \in LimitsIn(g, a, end - 1) : h[end] - h[a] <= limit
    BY <1>1, <1>2 DEF Within
  <2>2. a \in Int /\ end - 1 \in Int /\ end2 - 1 \in Int /\ a <= a /\ end - 1 <= end2 - 1
    BY <1>1
  <2>3. limit \in LimitsIn(g, a, end2 - 1)
    BY <2>1, <2>2, LimitsInGrow
  <2> QED
    BY <2>1, <2>3
<1>3. CASE ~(a <= end)
  <2>1. /\ h[end] <= h[a] /\ h[a] <= h[end2] /\ h[a] \in Nat /\ h[end] \in Nat
    BY <1>1, <1>3, HistoryFacts
  <2>2. h[end2] - h[a] <= 0
    BY <2>1
  <2> QED
    BY <2>2, LimitsInHas
<1> QED
  BY <1>2, <1>3

(* What is consumed later does not change what was.                        *)
LEMMA WithinPast ==
  ASSUME NEW n \in 0..MaxTime, NEW h, NEW h2, \A t \in Ticks(MaxTime) : t <= n => h2[t] = h[t],
         NEW g \in Grants, NEW g2 \in Grants, g \subseteq g2, NEW from \in Nat, NEW end \in Nat, end <= n,
         Within(h, g, from, end)
  PROVE  Within(h2, g2, from, end)
<1> SUFFICES ASSUME NEW a \in from..end
             PROVE  \E limit \in LimitsIn(g2, a, end - 1) : h2[end] - h2[a] <= limit
  BY DEF Within
<1>1. PICK limit \in LimitsIn(g, a, end - 1) : h[end] - h[a] <= limit
  BY DEF Within
<1>2. a \in Ticks(MaxTime) /\ end \in Ticks(MaxTime) /\ a <= n /\ a \in Int /\ end - 1 \in Int /\ n \in Nat
  BY QuotaAssumption DEF Ticks
<1>3. a <= a /\ end - 1 <= end - 1
  BY <1>2
<1>4. limit \in LimitsIn(g2, a, end - 1)
  BY <1>1, <1>2, <1>3, LimitsInGrow
<1>5. h2[a] = h[a] /\ h2[end] = h[end]
  BY <1>2
<1> QED
  BY <1>1, <1>4, <1>5

(* A call that is told of its usage now, with a limit above all that was    *)
(* consumed since from.                                                    *)
LEMMA WithinTold ==
  ASSUME NEW n \in 0..MaxTime, NEW h, IsHistory(h, MaxTime, n), NEW g \in Grants, NEW from \in Nat, from <= n,
         NEW limit \in Nat, <<n, limit>> \in g, h[n + 1] - h[from] <= limit
  PROVE  Within(h, g, from, n + 1)
<1> SUFFICES ASSUME NEW a \in from..(n + 1)
             PROVE  \E l \in LimitsIn(g, a, (n + 1) - 1) : h[n + 1] - h[a] <= l
  BY DEF Within
<1>1. /\ n \in Nat /\ (n + 1) - 1 = n /\ a \in Nat /\ from <= a
      /\ a \in Ticks(MaxTime) /\ from \in Ticks(MaxTime) /\ n + 1 \in Ticks(MaxTime)
  BY QuotaAssumption DEF Ticks
<1>2. h[from] <= h[a] /\ h[from] \in Nat /\ h[a] \in Nat /\ h[n + 1] \in Nat
  BY <1>1, HistoryFacts
<1>3. CASE a <= n
  <2>1. limit \in LimitsIn(g, a, n)
    <3>1. <<n, limit>>[1] = n /\ <<n, limit>>[2] = limit /\ n <= n
      BY <1>1
    <3> QED
      BY <1>3, <3>1, LimitsInHas
  <2>2. h[n + 1] - h[a] <= limit
    BY <1>2
  <2> QED
    BY <1>1, <2>1, <2>2
<1>4. CASE ~(a <= n)
  <2>1. a = n + 1
    BY <1>1, <1>4
  <2>2. h[n + 1] - h[a] <= 0
    BY <1>2, <2>1
  <2> QED
    BY <1>1, <2>2, LimitsInHas
<1> QED
  BY <1>3, <1>4

(* A call adds its amount to what its pair was told, or its reply is lost.  *)
Told(h, g, n, a, limit, h2, g2) ==
    \/ h2 = h /\ g2 = g
    \/ h2 = Granted(h, n, a) /\ g2 = g \cup {<<n, limit>>}

(* What that changes in the history of the pair.                           *)
LEMMA ToldFacts ==
  ASSUME NEW n \in 0..MaxTime, NEW h, IsHistory(h, MaxTime, n), NEW g \in Grants, NEW a \in Nat, NEW limit \in Nat,
         NEW h2, NEW g2, Told(h, g, n, a, limit, h2, g2)
  PROVE  /\ IsHistory(h2, MaxTime, n) /\ h2[n + 1] <= h[n + 1] + a
         /\ \A t \in Ticks(MaxTime) : t <= n => h2[t] = h[t]
         /\ g \subseteq g2 /\ g2 \in Grants
         /\ \/ h2 = h /\ g2 = g
            \/ <<n, limit>> \in g2
<1>1. MaxTime \in Nat /\ h[n + 1] \in Nat
  BY TickFacts, HistoryFacts
<1>2. CASE h2 = h /\ g2 = g
  BY <1>1, <1>2
<1>3. CASE h2 = Granted(h, n, a) /\ g2 = g \cup {<<n, limit>>}
  <2> DEFINE d == Granted(h, n, a)
  <2>1. /\ IsHistory(d, MaxTime, n) /\ d[n + 1] = h[n + 1] + a
        /\ \A t \in Ticks(MaxTime) : t <= n => d[t] = h[t]
    BY <1>1, HistoryGranted
  <2> HIDE DEF d
  <2>3. d = h2
    BY <1>3 DEF d
  <2>2. g \subseteq g2 /\ g2 \in Grants /\ <<n, limit>> \in g2
    BY <1>3 DEF Grants
  <2> QED
    BY <1>1, <2>1, <2>2, <2>3
<1> QED
  BY <1>2, <1>3 DEF Told

(* A tick at which a key does not expire.                                   *)
LEMMA UsageTick ==
  ASSUME NEW n \in 0..MaxTime, n < MaxTime, NEW h, IsHistory(h, MaxTime, n), NEW g \in Grants, NEW u,
         UsageInv(u, h, g, n), u.expireAt > n + 1
  PROVE  UsageInv(u, h, g, n + 1)
<1> DEFINE s == u.expireAt - TTL
<1>1. /\ n \in Nat /\ n + 1 \in Ticks(MaxTime) /\ n + 2 \in Ticks(MaxTime) /\ h[n + 2] = h[n + 1]
      /\ n + 1 + 1 = n + 2 /\ n + 1 <= n + 2 /\ TTL \in Nat
  BY TickFacts, HistoryTick, TTLType DEF Ticks
<1>2. s \in Nat /\ s <= s /\ Within(h, g, s, n + 1)
  BY DEF UsageInv
<1>3. Within(h, g, s, n + 2)
  BY <1>1, <1>2, WithinLater
<1>4. u.expireAt \in (n + 1 + 1)..(n + 1 + TTL)
  BY <1>1 DEF UsageInv
<1> QED
  BY <1>1, <1>3, <1>4 DEF UsageInv

(* A tick at which it does.                                                 *)
LEMMA UsageExpires ==
  ASSUME NEW n \in 0..MaxTime, n < MaxTime, NEW h, IsHistory(h, MaxTime, n), NEW g \in Grants, NEW u,
         UsageInv(u, h, g, n), ~(u.expireAt > n + 1)
  PROVE  NoUsageInv(h, g, n + 1)
<1>1. n \in Nat /\ h[n + 2] = h[n + 1] /\ n + 1 + 1 = n + 2 /\ TTL \in Nat
  BY TickFacts, HistoryTick, TTLType
<1>2. u.expireAt = n + 1 /\ FromZero((n + 1) - TTL) = u.expireAt - TTL
  BY <1>1 DEF UsageInv, FromZero
<1> QED
  BY <1>1, <1>2 DEF UsageInv, NoUsageInv

(* A tick without a key.                                                    *)
LEMMA NoUsageTick ==
  ASSUME NEW n \in 0..MaxTime, n < MaxTime, NEW h, IsHistory(h, MaxTime, n), NEW g \in Grants, NoUsageInv(h, g, n)
  PROVE  NoUsageInv(h, g, n + 1)
<1> SUFFICES ASSUME TTL # 0
             PROVE  h[n + 1 + 1] = h[n + 1] /\ Within(h, g, FromZero((n + 1) - TTL), n + 1)
  BY DEF NoUsageInv
<1>1. /\ n \in Nat /\ n \in Ticks(MaxTime) /\ n + 1 \in Ticks(MaxTime) /\ h[n + 2] = h[n + 1]
      /\ n + 1 + 1 = n + 2 /\ TTL \in Nat
  BY TickFacts, HistoryTick, TTLType
<1>2. FromZero(n - TTL) \in Nat /\ FromZero((n + 1) - TTL) \in Nat /\ FromZero(n - TTL) <= FromZero((n + 1) - TTL) /\ n <= n + 1
  BY <1>1 DEF FromZero
<1>3. h[n + 1] = h[n] /\ Within(h, g, FromZero(n - TTL), n)
  BY DEF NoUsageInv
<1>4. Within(h, g, FromZero((n + 1) - TTL), n + 1)
  BY <1>1, <1>2, <1>3, WithinLater
<1> QED
  BY <1>1, <1>4

(* A key with nothing in it is as good as no key.                           *)
LEMMA ZeroUsage ==
  ASSUME NEW n \in 0..MaxTime, NEW h, IsHistory(h, MaxTime, n), NEW g \in Grants, NEW u,
         UsageInv(u, h, g, n), u.val = 0
  PROVE  NoUsageInv(h, g, n)
<1> DEFINE s == u.expireAt - TTL
<1>1. n \in Nat /\ n \in Ticks(MaxTime) /\ n + 1 \in Ticks(MaxTime) /\ TTL \in Nat /\ Ticks(MaxTime) \subseteq Nat
  BY TickFacts, TTLType
<1>2. s \in Nat /\ s <= n /\ s \in Ticks(MaxTime)
  BY <1>1, QuotaAssumption DEF UsageInv, Ticks
<1>3. h[s] \in Nat /\ h[n] \in Nat /\ h[n + 1] \in Nat /\ h[s] <= h[n] /\ h[n] <= h[n + 1]
  BY <1>1, <1>2, HistoryFacts
<1>4. 0 >= h[n + 1] - h[s] /\ Within(h, g, FromZero(s - TTL), s)
  BY DEF UsageInv
<1>5. h[n + 1] = h[n] /\ h[n] = h[s]
  BY <1>3, <1>4
<1>6. FromZero(s - TTL) \in Nat /\ FromZero(n - TTL) \in Nat /\ FromZero(s - TTL) <= FromZero(n - TTL)
  BY <1>1, <1>2 DEF FromZero
<1>7. Within(h, g, FromZero(n - TTL), n)
  BY <1>1, <1>2, <1>4, <1>5, <1>6, WithinLater
<1> QED
  BY <1>5, <1>7 DEF NoUsageInv

(* The first charge of a period.                                            *)
LEMMA FirstUsage ==
  ASSUME NEW n \in 0..MaxTime, NEW h, IsHistory(h, MaxTime, n), NEW g \in Grants, NEW a \in Nat, NEW limit \in Nat,
         NEW h2, NEW g2, Told(h, g, n, a, limit, h2, g2), NoUsageInv(h, g, n), TTL # 0, a <= limit,
         NEW u, u.val = a, u.expireAt = n + TTL
  PROVE  UsageInv(u, h2, g2, n)
<1>1. n \in Nat /\ n \in Ticks(MaxTime) /\ n + 1 \in Ticks(MaxTime) /\ TTL \in Nat /\ n <= n /\ n <= n + 1
  BY TickFacts, TTLType
<1>2. /\ IsHistory(h2, MaxTime, n) /\ h2[n + 1] <= h[n + 1] + a
      /\ \A t \in Ticks(MaxTime) : t <= n => h2[t] = h[t]
      /\ g \subseteq g2 /\ g2 \in Grants
      /\ (h2 = h /\ g2 = g) \/ <<n, limit>> \in g2
  BY ToldFacts
<1>3. h2[n] = h[n] /\ h[n] \in Nat /\ h[n + 1] \in Nat /\ h2[n + 1] \in Nat
  BY <1>1, <1>2, HistoryFacts
<1>4. h[n + 1] = h[n] /\ Within(h, g, FromZero(n - TTL), n)
  BY DEF NoUsageInv
<1>5. u.expireAt - TTL = n /\ a >= h2[n + 1] - h2[n] /\ h2[n + 1] - h2[n] <= limit /\ u.expireAt \in (n + 1)..(n + TTL)
  BY <1>1, <1>2, <1>3, <1>4
<1>6. FromZero(n - TTL) \in Nat /\ FromZero(n - TTL) <= n
  BY <1>1 DEF FromZero
<1>7. Within(h2, g2, n, n + 1)
  <2>1. CASE h2 = h /\ g2 = g
    BY <1>1, <1>4, <1>6, <2>1, WithinLater
  <2>2. CASE <<n, limit>> \in g2
    BY <1>1, <1>2, <1>5, <2>2, WithinTold
  <2> QED
    BY <1>2, <2>1, <2>2
<1>8. Within(h2, g2, FromZero(n - TTL), n)
  BY <1>1, <1>2, <1>4, <1>6, WithinPast
<1> QED
  BY <1>1, <1>5, <1>7, <1>8 DEF UsageInv

(* A later charge of the same period.                                       *)
LEMMA LaterUsage ==
  ASSUME NEW n \in 0..MaxTime, NEW h, IsHistory(h, MaxTime, n), NEW g \in Grants, NEW a \in Nat, NEW limit \in Nat,
         NEW h2, NEW g2, Told(h, g, n, a, limit, h2, g2), NEW u, UsageInv(u, h, g, n), u.val + a <= limit,
         NEW v, v.val = u.val + a, v.expireAt = u.expireAt
  PROVE  UsageInv(v, h2, g2, n)
<1> DEFINE s == u.expireAt - TTL
<1>1. n \in Nat /\ n + 1 \in Ticks(MaxTime) /\ TTL \in Nat /\ Ticks(MaxTime) \subseteq Nat
  BY TickFacts, TTLType
<1>2. s \in Nat /\ s <= n /\ s \in Ticks(MaxTime) /\ u.val \in Nat
  BY <1>1, QuotaAssumption DEF UsageInv, Ticks
<1>3. /\ IsHistory(h2, MaxTime, n) /\ h2[n + 1] <= h[n + 1] + a
      /\ \A t \in Ticks(MaxTime) : t <= n => h2[t] = h[t]
      /\ g \subseteq g2 /\ g2 \in Grants
      /\ (h2 = h /\ g2 = g) \/ <<n, limit>> \in g2
  BY ToldFacts, ZenonT(30)
<1>4. h2[s] = h[s] /\ h[s] \in Nat /\ h[n + 1] \in Nat /\ h2[n + 1] \in Nat
  BY <1>1, <1>2, <1>3, HistoryFacts
<1>5. u.val >= h[n + 1] - h[s] /\ Within(h, g, s, n + 1) /\ Within(h, g, FromZero(s - TTL), s)
  BY DEF UsageInv
<1>6. u.val + a >= h2[n + 1] - h2[s] /\ h2[n + 1] - h2[s] <= limit
  BY <1>2, <1>3, <1>4, <1>5
<1>7. Within(h2, g2, s, n + 1)
  <2>1. CASE h2 = h /\ g2 = g
    BY <1>5, <2>1
  <2>2. CASE <<n, limit>> \in g2
    BY <1>1, <1>2, <1>3, <1>6, <2>2, WithinTold
  <2> QED
    BY <1>3, <2>1, <2>2
<1>8. FromZero(s - TTL) \in Nat
  BY <1>1, <1>2 DEF FromZero
<1>9. Within(h2, g2, FromZero(s - TTL), s)
  BY <1>2, <1>3, <1>5, <1>8, WithinPast
<1> QED
  BY <1>2, <1>6, <1>7, <1>9 DEF UsageInv

(* A pair that was reset.                                                   *)
LEMMA NothingSpent ==
  ASSUME NEW n \in 0..MaxTime
  PROVE  IsHistory(NoHistory(MaxTime), MaxTime, n) /\ NoUsageInv(NoHistory(MaxTime), {}, n)
<1> DEFINE h == NoHistory(MaxTime)
<1>1. n \in Nat /\ MaxTime \in Nat /\ n \in Ticks(MaxTime) /\ n + 1 \in Ticks(MaxTime) /\ TTL \in Nat
  BY TickFacts, TTLType
<1>2. IsHistory(h, MaxTime, n) /\ \A t \in Ticks(MaxTime) : h[t] = 0
  BY <1>1, NoHistoryIs
<1>3. ASSUME NEW a \in FromZero(n - TTL)..n PROVE \E limit \in LimitsIn({}, a, n - 1) : h[n] - h[a] <= limit
  <2>1. a \in Ticks(MaxTime)
    BY <1>1 DEF Ticks, FromZero
  <2>2. h[n] - h[a] <= 0
    BY <1>1, <1>2, <2>1
  <2> QED
    BY <2>2, LimitsInHas
<1> HIDE DEF h
<1>4. NoUsageInv(h, {}, n)
  BY <1>1, <1>2, <1>3 DEF NoUsageInv, Within
<1> QED
  BY <1>2, <1>4 DEF h

-----------------------------------------------------------------------------
(* Redis.                                                                  *)

(* The keys that have not expired.                                         *)
LEMMA AliveHas ==
  ASSUME NEW r, NEW t
  PROVE  /\ DOMAIN Alive(r, t) \subseteq DOMAIN r
         /\ \A j \in DOMAIN r : (r[j].expireAt = NoExpiry \/ r[j].expireAt > t) => j \in DOMAIN Alive(r, t)
         /\ \A j \in DOMAIN Alive(r, t) : Alive(r, t)[j] = r[j] /\ (r[j].expireAt = NoExpiry \/ r[j].expireAt > t)
  BY DEF Alive

(* One tick of a pair.                                                     *)
LEMMA TickHolds ==
  ASSUME NEW n \in 0..MaxTime, n < MaxTime, NEW h, IsHistory(h, MaxTime, n), NEW g \in Grants, NEW r, NEW k,
         HoldsUsage(r, k, h, g, n)
  PROVE  HoldsUsage(Alive(r, n + 1), k, h, g, n + 1)
<1> DEFINE q == Alive(r, n + 1)
<1>1. CASE k \in DOMAIN r
  <2>1. UsageInv(r[k], h, g, n) /\ r[k].expireAt # NoExpiry
    <3>1. UsageInv(r[k], h, g, n)
      BY <1>1 DEF HoldsUsage
    <3> QED
      BY <3>1, TTLType DEF UsageInv, NoExpiry
  <2>2. CASE r[k].expireAt > n + 1
    <3>1. k \in DOMAIN q /\ q[k] = r[k]
      BY <1>1, <2>2, AliveHas
    <3>2. UsageInv(r[k], h, g, n + 1)
      BY <2>1, <2>2, UsageTick
    <3> QED
      BY <3>1, <3>2, Zenon DEF HoldsUsage
  <2>3. CASE ~(r[k].expireAt > n + 1)
    <3>1. k \notin DOMAIN q
      BY <2>1, <2>3, AliveHas
    <3>2. NoUsageInv(h, g, n + 1)
      BY <2>1, <2>3, UsageExpires
    <3> QED
      BY <3>1, <3>2, Zenon DEF HoldsUsage
  <2> QED
    BY <2>2, <2>3
<1>2. CASE k \notin DOMAIN r
  <2>1. k \notin DOMAIN q
    BY <1>2, AliveHas
  <2>2. NoUsageInv(h, g, n)
    BY <1>2, Zenon DEF HoldsUsage
  <2>3. NoUsageInv(h, g, n + 1)
    BY <2>2, NoUsageTick
  <2> QED
    BY <2>1, <2>3, Zenon DEF HoldsUsage
<1> QED
  BY <1>1, <1>2

(* What the script leaves in its key.                                      *)
LEMMA ChargedKey ==
  ASSUME NEW k, NEW a
  PROVE  /\ DOMAIN Charged(k, a) = DOMAIN redis \cup {k}
         /\ Charged(k, a)[k].val = Value(k) + a
         /\ Charged(k, a)[k].expireAt = IF Value(k) = 0 THEN now + TTL ELSE redis[k].expireAt
         /\ \A j \in DOMAIN redis : j # k => Charged(k, a)[j] = redis[j]
  BY DEF Charged, Put

(* A script that allows its call.                                          *)
LEMMA ChargeHolds ==
  ASSUME now \in 0..MaxTime, NEW h, IsHistory(h, MaxTime, now), NEW g \in Grants, NEW k,
         HoldsUsage(redis, k, h, g, now), NEW a \in Nat, NEW limit \in Nat, Allowed(k, a, limit),
         NEW h2, NEW g2, Told(h, g, now, a, limit, h2, g2)
  PROVE  HoldsUsage(Alive(Charged(k, a), now), k, h2, g2, now)
<1> DEFINE r == Charged(k, a)
           q == Alive(r, now)
<1>1. /\ k \in DOMAIN r /\ r[k].val = Value(k) + a
      /\ r[k].expireAt = IF Value(k) = 0 THEN now + TTL ELSE redis[k].expireAt
  BY ChargedKey
<1>2. Value(k) + a <= limit /\ now \in Nat /\ TTL \in Nat
  BY TickFacts, TTLType DEF Allowed
<1>3. CASE TTL = 0
  <2>1. k \notin DOMAIN redis
    BY <1>2, <1>3 DEF HoldsUsage, UsageInv
  <2>2. Value(k) = 0
    BY <2>1 DEF Value
  <2>3. ~(r[k].expireAt > now) /\ r[k].expireAt # NoExpiry
    BY <1>1, <1>2, <1>3, <2>2 DEF NoExpiry
  <2>4. k \notin DOMAIN q
    BY <2>3, AliveHas
  <2>5. NoUsageInv(h2, g2, now)
    BY <1>3 DEF NoUsageInv
  <2> QED
    BY <2>4, <2>5, Zenon DEF HoldsUsage
<1>4. CASE TTL # 0 /\ Value(k) = 0
  <2>1. NoUsageInv(h, g, now)
    <3>1. CASE k \in DOMAIN redis
      <4>1. UsageInv(redis[k], h, g, now) /\ redis[k].val = 0
        BY <3>1, <1>4 DEF HoldsUsage, Value
      <4> QED
        BY <4>1, ZeroUsage
    <3>2. CASE k \notin DOMAIN redis
      BY <3>2, Zenon DEF HoldsUsage
    <3> QED
      BY <3>1, <3>2
  <2>2. r[k].val = a /\ r[k].expireAt = now + TTL /\ a <= limit
    BY <1>1, <1>2, <1>4
  <2>3. UsageInv(r[k], h2, g2, now)
    BY <1>4, <2>1, <2>2, FirstUsage, SMTT(30)
  <2>4. k \in DOMAIN q /\ q[k] = r[k]
    BY <1>1, <1>2, <1>4, <2>2, AliveHas
  <2> QED
    BY <2>3, <2>4, Zenon DEF HoldsUsage
<1>5. CASE Value(k) # 0
  <2>1. k \in DOMAIN redis /\ Value(k) = redis[k].val
    BY <1>5 DEF Value
  <2>2. UsageInv(redis[k], h, g, now)
    BY <2>1, Zenon DEF HoldsUsage
  <2>3. redis[k].val + a <= limit /\ r[k].val = redis[k].val + a /\ r[k].expireAt = redis[k].expireAt
    BY <1>1, <1>2, <1>5, <2>1
  <2>4. UsageInv(r[k], h2, g2, now)
    BY <2>2, <2>3, LaterUsage, SMTT(30)
  <2>5. k \in DOMAIN q /\ q[k] = r[k]
    <3>1. r[k].expireAt > now
      BY <1>2, <2>4 DEF UsageInv
    <3> QED
      BY <1>1, <3>1, AliveHas
  <2> QED
    BY <2>4, <2>5, Zenon DEF HoldsUsage
<1> QED
  BY <1>3, <1>4, <1>5

(* What TypeOK says of the keys of Redis.                                  *)
RedisOK(r, n) ==
    /\ DOMAIN r \subseteq Keys
    /\ \A k \in DOMAIN r : r[k] \in [val : Nat, expireAt : {NoExpiry} \cup (n + 1)..(n + TTL)]

(* The script keeps it, and changes no key but its own.                    *)
LEMMA ChargeOthers ==
  ASSUME now \in 0..MaxTime, RedisOK(redis, now), NEW k \in Keys, NEW a \in Nat, NEW r, r = Alive(Charged(k, a), now)
  PROVE  /\ RedisOK(r, now)
         /\ \A j : j # k => (j \in DOMAIN r <=> j \in DOMAIN redis) /\ (j \in DOMAIN redis => r[j] = redis[j])
         /\ k \in DOMAIN r => r[k].val = Value(k) + a
<1> DEFINE q == Charged(k, a)
<1>1. /\ DOMAIN q = DOMAIN redis \cup {k} /\ \A j \in DOMAIN redis : j # k => q[j] = redis[j]
      /\ q[k].val = Value(k) + a
  BY ChargedKey
<1>2. now \in Nat /\ TTL \in Nat /\ \A j \in DOMAIN redis : redis[j].expireAt = NoExpiry \/ redis[j].expireAt > now
  BY TTLType, TickFacts DEF RedisOK, NoExpiry
<1>3. Value(k) \in Nat /\ (Value(k) # 0 => k \in DOMAIN redis)
  BY DEF RedisOK, Value
<1>4. q[k] \in [val : Nat, expireAt : {NoExpiry} \cup now..(now + TTL)]
  <2>1. q[k] = [val |-> Value(k) + a, expireAt |-> IF Value(k) = 0 THEN now + TTL ELSE redis[k].expireAt]
    BY DEF Charged, Put
  <2>2. (IF Value(k) = 0 THEN now + TTL ELSE redis[k].expireAt) \in {NoExpiry} \cup now..(now + TTL)
    BY <1>2, <1>3 DEF RedisOK, NoExpiry
  <2> QED
    BY <2>1, <2>2, <1>3
<1> HIDE DEF q
<1>5. /\ DOMAIN r \subseteq DOMAIN q
      /\ \A j \in DOMAIN q : (q[j].expireAt = NoExpiry \/ q[j].expireAt > now) => j \in DOMAIN r
      /\ \A j \in DOMAIN r : r[j] = q[j] /\ (q[j].expireAt = NoExpiry \/ q[j].expireAt > now)
  BY AliveHas, Zenon DEF q
<1>6. \A j : j # k => (j \in DOMAIN r <=> j \in DOMAIN redis) /\ (j \in DOMAIN redis => r[j] = redis[j])
  BY <1>1, <1>2, <1>5
<1>7. ASSUME NEW j \in DOMAIN r PROVE j \in Keys /\ r[j] \in [val : Nat, expireAt : {NoExpiry} \cup (now + 1)..(now + TTL)]
  <2>1. CASE j = k
    BY <1>2, <1>4, <1>5, <2>1 DEF NoExpiry
  <2>2. CASE j # k
    BY <1>6, <2>2 DEF RedisOK
  <2> QED
    BY <2>1, <2>2
<1>8. k \in DOMAIN r => r[k].val = Value(k) + a
  BY <1>1, <1>5
<1> QED
  BY <1>6, <1>7, <1>8 DEF RedisOK

(* So does the passing of time.                                            *)
LEMMA TickRedis ==
  ASSUME NEW n \in Nat, NEW r, RedisOK(r, n)
  PROVE  RedisOK(Alive(r, n + 1), n + 1)
<1> DEFINE q == Alive(r, n + 1)
<1>1. /\ DOMAIN q \subseteq DOMAIN r
      /\ \A j \in DOMAIN q : q[j] = r[j] /\ (r[j].expireAt = NoExpiry \/ r[j].expireAt > n + 1)
  BY AliveHas, Zenon
<1> HIDE DEF q
<1>2. ASSUME NEW j \in DOMAIN q PROVE q[j] \in [val : Nat, expireAt : {NoExpiry} \cup (n + 1 + 1)..(n + 1 + TTL)]
  BY <1>1, TTLType DEF RedisOK, NoExpiry
<1>3. RedisOK(q, n + 1)
  BY <1>1, <1>2 DEF RedisOK
<1> QED
  BY <1>3 DEF q

(* Nothing changes for a pair whose usage key does not.                    *)
LEMMA FrameHolds ==
  ASSUME NEW r, NEW r2, NEW k, NEW h, NEW g, NEW n, HoldsUsage(r, k, h, g, n),
         k \in DOMAIN r2 <=> k \in DOMAIN r, k \in DOMAIN r => r2[k] = r[k]
  PROVE  HoldsUsage(r2, k, h, g, n)
  BY Zenon DEF HoldsUsage

(* What the invariant says of a state.                                     *)
LEMMA InvFacts ==
  ASSUME QuotaInv
  PROVE  /\ now \in 0..MaxTime /\ now \in Nat /\ RedisOK(redis, now)
         /\ call \in [Clients -> {NoCall} \cup Calls]
         /\ spent \in [Pairs -> Histories(MaxTime)] /\ carried \in [Pairs -> Grants]
         /\ \A p \in Pairs : PairInv(p)
         /\ CallInv
  BY TickFacts DEF QuotaInv, TypeOK, RedisOK, Grants

(* The parts of the invariant after a step.                                *)
LEMMA InvNext ==
  ASSUME now' \in 0..MaxTime, RedisOK(redis', now'),
         call' \in [Clients -> {NoCall} \cup Calls],
         spent' \in [Pairs -> Histories(MaxTime)], carried' \in [Pairs -> Grants],
         \A c \in Clients : call'[c] # NoCall => call'[c].limit \in call'[c].bound,
         \A p \in Pairs :
            /\ IsHistory(spent'[p], MaxTime, now')
            /\ HoldsUsage(redis', UsageKey(p), spent'[p], carried'[p], now')
            /\ LimitKey(p) \in DOMAIN redis' => redis'[LimitKey(p)].expireAt = NoExpiry
  PROVE  QuotaInv'
<1>1. TypeOK'
  BY DEF TypeOK, RedisOK, Grants
<1>2. CallInv'
  BY DEF CallInv
<1>3. \A p \in Pairs : PairInv(p)'
  BY DEF PairInv
<1> QED
  BY <1>1, <1>2, <1>3 DEF QuotaInv

(* The pair, the amount and the limit of a call.                           *)
LEMMA CallFacts ==
  ASSUME QuotaInv, NEW c \in Clients, call[c] # NoCall
  PROVE  /\ call[c].amount \in Nat /\ call[c].limit \in Nat /\ call[c].limit \in call[c].bound
         /\ <<call[c].tenant, call[c].type>> \in Pairs
         /\ <<call[c].tenant, call[c].type>>[1] = call[c].tenant
         /\ <<call[c].tenant, call[c].type>>[2] = call[c].type
         /\ BuildUsageKey(call[c].tenant, call[c].type) \in Keys
<1>1. call[c] \in Calls /\ CallInv
  BY InvFacts
<1>2. call[c].tenant \in Tenants /\ call[c].type \in QuotaTypes /\ call[c].amount \in Amounts /\ call[c].limit \in Nat
  BY <1>1 DEF Calls
<1>3. call[c].amount \in Nat /\ <<call[c].tenant, call[c].type>> \in Pairs
  BY <1>2, QuotaAssumption DEF Pairs
<1>4. BuildUsageKey(call[c].tenant, call[c].type) \in Keys
  <2> DEFINE p == <<call[c].tenant, call[c].type>>
  <2>1. p \in Pairs /\ p[1] = call[c].tenant /\ p[2] = call[c].type
    BY <1>3
  <2> HIDE DEF p
  <2> QED
    BY <2>1 DEF Keys
<1> QED
  BY <1>1, <1>2, <1>3, <1>4 DEF CallInv

-----------------------------------------------------------------------------
(* The actions.                                                            *)

(* What is to be shown of a pair after a step.                             *)
PairNext(r) ==
    /\ IsHistory(spent'[r], MaxTime, now')
    /\ HoldsUsage(redis', UsageKey(r), spent'[r], carried'[r], now')
    /\ LimitKey(r) \in DOMAIN redis' => redis'[LimitKey(r)].expireAt = NoExpiry

(* A pair that a step leaves alone.                                        *)
LEMMA FrameNext ==
  ASSUME NEW r \in Pairs, PairInv(r), now' = now, spent'[r] = spent[r], carried'[r] = carried[r],
         UsageKey(r) \in DOMAIN redis' <=> UsageKey(r) \in DOMAIN redis,
         UsageKey(r) \in DOMAIN redis => redis'[UsageKey(r)] = redis[UsageKey(r)],
         LimitKey(r) \in DOMAIN redis' => redis'[LimitKey(r)].expireAt = NoExpiry
  PROVE  PairNext(r)
<1>1. IsHistory(spent[r], MaxTime, now) /\ HoldsUsage(redis, UsageKey(r), spent[r], carried[r], now)
  BY DEF PairInv
<1>2. HoldsUsage(redis', UsageKey(r), spent[r], carried[r], now)
  BY <1>1, FrameHolds
<1> QED
  BY <1>1, <1>2 DEF PairNext

(* The script of a call, whether or not its reply arrives.                 *)
LEMMA ScriptKeeps ==
  ASSUME KeysApart, QuotaInv, NEW c \in Clients, call[c] # NoCall, now' = now, ConsumeQuotaScript(c),
         NEW p, p = <<call[c].tenant, call[c].type>>,
         Told(spent[p], carried[p], now, call[c].amount, call[c].limit, spent'[p], carried'[p]),
         Allowed(UsageKey(p), call[c].amount, call[c].limit) \/ (spent'[p] = spent[p] /\ carried'[p] = carried[p]),
         \A r \in Pairs : r # p => spent'[r] = spent[r] /\ carried'[r] = carried[r]
  PROVE  RedisOK(redis', now') /\ \A r \in Pairs : PairNext(r)
<1> DEFINE k == UsageKey(p)
           a == call[c].amount
           limit == call[c].limit
<1>1. p \in Pairs /\ k \in Keys /\ a \in Nat /\ limit \in Nat /\ k = BuildUsageKey(call[c].tenant, call[c].type)
  BY CallFacts DEF UsageKey
<1>2. /\ now \in 0..MaxTime /\ RedisOK(redis, now) /\ spent \in [Pairs -> Histories(MaxTime)]
      /\ carried \in [Pairs -> Grants] /\ \A r \in Pairs : PairInv(r)
  BY InvFacts
<1>3. \A r \in Pairs : LimitKey(r) \in DOMAIN redis => redis[LimitKey(r)].expireAt = NoExpiry
  BY <1>2 DEF PairInv
<1>4. CASE Allowed(k, a, limit)
  <2>1. redis' = Alive(Charged(k, a), now)
    BY <1>1, <1>4 DEF ConsumeQuotaScript
  <2>2. /\ RedisOK(redis', now)
        /\ \A j : j # k => (j \in DOMAIN redis' <=> j \in DOMAIN redis) /\ (j \in DOMAIN redis => redis'[j] = redis[j])
    BY <1>1, <1>2, <2>1, ChargeOthers
  <2>3. \A r \in Pairs : LimitKey(r) \in DOMAIN redis' => redis'[LimitKey(r)].expireAt = NoExpiry
    <3> SUFFICES ASSUME NEW r \in Pairs, LimitKey(r) \in DOMAIN redis' PROVE redis'[LimitKey(r)].expireAt = NoExpiry
      OBVIOUS
    <3>1. LimitKey(r) # k
      BY <1>1 DEF KeysApart
    <3> QED
      BY <3>1, <2>2, <1>3
  <2>4. PairNext(p)
    <3>1. IsHistory(spent[p], MaxTime, now) /\ HoldsUsage(redis, k, spent[p], carried[p], now) /\ carried[p] \in Grants
      BY <1>1, <1>2 DEF PairInv
    <3> DEFINE h2 == spent'[p]
               g2 == carried'[p]
    <3>2. Told(spent[p], carried[p], now, a, limit, h2, g2)
      OBVIOUS
    <3> HIDE DEF k, a, limit, h2, g2
    <3>3. IsHistory(h2, MaxTime, now)
      BY <1>1, <1>2, <3>1, <3>2, ToldFacts
    <3>4. HoldsUsage(Alive(Charged(k, a), now), k, h2, g2, now)
      BY <1>1, <1>2, <1>4, <3>1, <3>2, ChargeHolds
    <3> QED
      BY <2>1, <2>3, <1>1, <3>3, <3>4 DEF PairNext, k, h2, g2
  <2>5. ASSUME NEW r \in Pairs, r # p PROVE PairNext(r)
    <3>1. UsageKey(r) # k
      BY <1>1, <2>5, KeysDistinct
    <3> QED
      BY <1>2, <2>2, <2>3, <2>5, <3>1, FrameNext
  <2> QED
    BY <2>2, <2>4, <2>5
<1>5. CASE ~Allowed(k, a, limit)
  <2>1. redis' = redis
    BY <1>1, <1>5 DEF ConsumeQuotaScript
  <2>2. ASSUME NEW r \in Pairs PROVE PairNext(r)
    <3>1. spent'[r] = spent[r] /\ carried'[r] = carried[r]
      BY <1>5
    <3> QED
      BY <1>2, <1>3, <2>1, <3>1, FrameNext
  <2> QED
    BY <1>2, <2>1, <2>2
<1> QED
  BY <1>4, <1>5

(* RunScript.                                                              *)
LEMMA RunScriptKeeps ==
  ASSUME KeysApart, QuotaInv, NEW c \in Clients, RunScript(c)
  PROVE  QuotaInv'
<1> DEFINE p == <<call[c].tenant, call[c].type>>
           a == call[c].amount
           limit == call[c].limit
           granted == Allowed(UsageKey(p), a, limit)
<1>1. /\ call[c] # NoCall /\ ConsumeQuotaScript(c) /\ now' = now
      /\ spent' = IF granted THEN [spent EXCEPT ![p] = Granted(@, now, a)] ELSE spent
      /\ carried' = IF granted THEN [carried EXCEPT ![p] = @ \cup {<<now, limit>>}] ELSE carried
      /\ call' = [call EXCEPT ![c] = NoCall]
  BY DEF RunScript, UsageKey
<1>2. p \in Pairs /\ a \in Nat /\ limit \in Nat
  BY <1>1, CallFacts
<1>3. /\ now \in 0..MaxTime /\ now \in Nat /\ RedisOK(redis, now) /\ call \in [Clients -> {NoCall} \cup Calls]
      /\ spent \in [Pairs -> Histories(MaxTime)] /\ carried \in [Pairs -> Grants] /\ \A r \in Pairs : PairInv(r)
      /\ CallInv
  BY InvFacts
<1> HIDE DEF p, a, limit, granted
<1>4. /\ Told(spent[p], carried[p], now, a, limit, spent'[p], carried'[p])
      /\ granted \/ (spent'[p] = spent[p] /\ carried'[p] = carried[p])
      /\ \A r \in Pairs : r # p => spent'[r] = spent[r] /\ carried'[r] = carried[r]
  BY <1>1, <1>2, <1>3 DEF Told
<1>5. RedisOK(redis', now') /\ \A r \in Pairs : PairNext(r)
  BY <1>1, <1>4, ScriptKeeps DEF p, a, limit, granted
<1>6. \A r \in Pairs : spent'[r] \in Histories(MaxTime) /\ carried'[r] \in Grants
  <2>1. \A r \in Pairs : spent'[r] \in Histories(MaxTime)
    BY <1>5 DEF PairNext, IsHistory
  <2>2. carried[p] \in Grants /\ carried[p] \cup {<<now, limit>>} \in Grants
    BY <1>2, <1>3 DEF Grants
  <2>3. \A r \in Pairs : carried'[r] \in Grants
    BY <1>1, <1>2, <1>3, <2>2
  <2> QED
    BY <2>1, <2>3
<1>7. spent' \in [Pairs -> Histories(MaxTime)] /\ carried' \in [Pairs -> Grants]
  <2>1. /\ spent' = [r \in Pairs |-> spent'[r]]
        /\ carried' = [r \in Pairs |-> carried'[r]]
    BY <1>1, <1>3
  <2> QED
    BY <1>6, <2>1
<1>8. call' \in [Clients -> {NoCall} \cup Calls]
  BY <1>1, <1>3
<1>9. \A d \in Clients : call'[d] # NoCall => call'[d].limit \in call'[d].bound
  BY <1>1, <1>3 DEF CallInv
<1> QED
  BY <1>1, <1>3, <1>5, <1>7, <1>8, <1>9, InvNext DEF PairNext

(* LoseReply.                                                              *)
LEMMA LoseReplyKeeps ==
  ASSUME KeysApart, QuotaInv, NEW c \in Clients, LoseReply(c)
  PROVE  QuotaInv'
<1> DEFINE p == <<call[c].tenant, call[c].type>>
<1>1. call[c] # NoCall /\ ConsumeQuotaScript(c) /\ now' = now /\ call' = call /\ spent' = spent /\ carried' = carried
  BY DEF LoseReply
<1>2. /\ now \in 0..MaxTime /\ call \in [Clients -> {NoCall} \cup Calls]
      /\ spent \in [Pairs -> Histories(MaxTime)] /\ carried \in [Pairs -> Grants] /\ CallInv
  BY InvFacts
<1>3. Told(spent[p], carried[p], now, call[c].amount, call[c].limit, spent'[p], carried'[p])
  BY <1>1 DEF Told
<1>4. RedisOK(redis', now') /\ \A r \in Pairs : PairNext(r)
  BY <1>1, <1>3, ScriptKeeps
<1>5. \A d \in Clients : call'[d] # NoCall => call'[d].limit \in call'[d].bound
  BY <1>1, <1>2 DEF CallInv
<1> QED
  BY <1>1, <1>2, <1>4, <1>5, InvNext DEF PairNext

(* A call that has resolved its limit.                                     *)
LEMMA ResolvedKeeps ==
  ASSUME QuotaInv, NEW c \in Clients, NEW t \in Tenants, NEW q \in QuotaTypes, NEW a \in Amounts,
         NEW limits, NEW bound, limits \subseteq bound, bound \subseteq Nat,
         Resolved(c, t, q, a, limits, bound), UNCHANGED <<now, redis, spent, carried>>
  PROVE  QuotaInv'
<1>1. now' = now /\ redis' = redis /\ spent' = spent /\ carried' = carried
  OBVIOUS
<1>2. /\ now \in 0..MaxTime /\ RedisOK(redis, now) /\ call \in [Clients -> {NoCall} \cup Calls]
      /\ spent \in [Pairs -> Histories(MaxTime)] /\ carried \in [Pairs -> Grants] /\ CallInv
      /\ \A r \in Pairs : PairInv(r)
  BY InvFacts
<1>3. /\ call' \in [Clients -> {NoCall} \cup Calls]
      /\ \A d \in Clients : call'[d] # NoCall => call'[d].limit \in call'[d].bound
  <2>1. CASE limits = {}
    BY <1>2, <2>1 DEF Resolved, CallInv
  <2>2. CASE limits # {}
    <3> DEFINE l == CHOOSE limit \in limits : TRUE
               e == [tenant |-> t, type |-> q, amount |-> a, limit |-> l, bound |-> bound]
    <3>1. l \in limits
      BY <2>2
    <3>2. call' = [call EXCEPT ![c] = e]
      BY <2>2 DEF Resolved
    <3> HIDE DEF l
    <3>3. e \in Calls /\ e.limit \in e.bound
      BY <3>1 DEF Calls
    <3> HIDE DEF e
    <3> QED
      BY <1>2, <3>2, <3>3 DEF CallInv
  <2> QED
    BY <2>1, <2>2
<1>4. \A r \in Pairs : PairNext(r)
  BY <1>1, <1>2 DEF PairInv, PairNext
<1> QED
  BY <1>1, <1>2, <1>3, <1>4, InvNext DEF PairNext

(* ResolveLimit and ResolveLimitFails.                                     *)
LEMMA ResolveLimitKeeps ==
  ASSUME QuotaInv, NEW c \in Clients, NEW p \in Pairs, NEW a \in Amounts,
         ResolveLimit(c, p[1], p[2], a) \/ ResolveLimitFails(c, p[1], p[2], a)
  PROVE  QuotaInv'
<1>1. p[1] \in Tenants /\ p[2] \in QuotaTypes
  BY DEF Pairs
<1>2. Configured(p[2]) \subseteq Nat
  BY QuotaAssumption DEF Configured
<1>3. LimitInForce(p[1], p[2]) \subseteq Nat
  <2>1. \A k \in DOMAIN redis : redis[k].val \in Nat
    BY InvFacts DEF RedisOK
  <2> QED
    BY <1>2, <2>1 DEF LimitInForce
<1>4. CASE ResolveLimit(c, p[1], p[2], a)
  <2>1. /\ Resolved(c, p[1], p[2], a, LimitInForce(p[1], p[2]), LimitInForce(p[1], p[2]))
        /\ UNCHANGED <<now, redis, spent, carried>>
    BY <1>4 DEF ResolveLimit
  <2> QED
    BY <1>1, <1>3, <2>1, ResolvedKeeps
<1>5. CASE ResolveLimitFails(c, p[1], p[2], a)
  <2> DEFINE b == LimitInForce(p[1], p[2]) \cup Configured(p[2])
  <2>1. Resolved(c, p[1], p[2], a, Configured(p[2]), b) /\ UNCHANGED <<now, redis, spent, carried>>
    BY <1>5 DEF ResolveLimitFails
  <2>2. b \subseteq Nat /\ Configured(p[2]) \subseteq b
    BY <1>2, <1>3
  <2> HIDE DEF b
  <2> QED
    BY <1>1, <2>1, <2>2, ResolvedKeeps
<1> QED
  BY <1>4, <1>5

(* Fail.                                                                   *)
LEMMA FailKeeps ==
  ASSUME QuotaInv, NEW c \in Clients, Fail(c)
  PROVE  QuotaInv'
<1>1. now' = now /\ redis' = redis /\ spent' = spent /\ carried' = carried /\ call' = [call EXCEPT ![c] = NoCall]
  BY DEF Fail
<1>2. /\ now \in 0..MaxTime /\ RedisOK(redis, now) /\ call \in [Clients -> {NoCall} \cup Calls]
      /\ spent \in [Pairs -> Histories(MaxTime)] /\ carried \in [Pairs -> Grants] /\ CallInv
      /\ \A r \in Pairs : PairInv(r)
  BY InvFacts
<1>3. /\ call' \in [Clients -> {NoCall} \cup Calls]
      /\ \A d \in Clients : call'[d] # NoCall => call'[d].limit \in call'[d].bound
  BY <1>1, <1>2 DEF CallInv
<1>4. \A r \in Pairs : PairNext(r)
  BY <1>1, <1>2 DEF PairInv, PairNext
<1> QED
  BY <1>1, <1>2, <1>3, <1>4, InvNext DEF PairNext

(* Tick.                                                                   *)
LEMMA TickKeeps ==
  ASSUME QuotaInv, Tick
  PROVE  QuotaInv'
<1>1. now < MaxTime /\ now' = now + 1 /\ redis' = Alive(redis, now + 1) /\ call' = call /\ spent' = spent /\ carried' = carried
  BY DEF Tick
<1>2. /\ now \in 0..MaxTime /\ now \in Nat /\ RedisOK(redis, now) /\ call \in [Clients -> {NoCall} \cup Calls]
      /\ spent \in [Pairs -> Histories(MaxTime)] /\ carried \in [Pairs -> Grants] /\ CallInv
      /\ \A r \in Pairs : PairInv(r)
  BY InvFacts
<1>3. RedisOK(redis', now')
  BY <1>1, <1>2, TickRedis
<1>4. now' \in 0..MaxTime
  BY <1>1, <1>2, QuotaAssumption
<1>5. \A d \in Clients : call'[d] # NoCall => call'[d].limit \in call'[d].bound
  BY <1>1, <1>2 DEF CallInv
<1>6. ASSUME NEW r \in Pairs PROVE PairNext(r)
  <2>1. /\ IsHistory(spent[r], MaxTime, now) /\ HoldsUsage(redis, UsageKey(r), spent[r], carried[r], now)
        /\ carried[r] \in Grants /\ (LimitKey(r) \in DOMAIN redis => redis[LimitKey(r)].expireAt = NoExpiry)
    BY <1>2 DEF PairInv
  <2>2. IsHistory(spent[r], MaxTime, now + 1)
    BY <1>1, <1>2, <2>1, HistoryTick, QuotaAssumption
  <2>3. HoldsUsage(Alive(redis, now + 1), UsageKey(r), spent[r], carried[r], now + 1)
    BY <1>1, <1>2, <2>1, TickHolds
  <2>4. LimitKey(r) \in DOMAIN redis' => redis'[LimitKey(r)].expireAt = NoExpiry
    BY <1>1, <2>1, AliveHas
  <2> QED
    BY <1>1, <2>2, <2>3, <2>4 DEF PairNext
<1> QED
  BY <1>1, <1>2, <1>3, <1>4, <1>5, <1>6, InvNext DEF PairNext

(* ResetQuota.                                                             *)
LEMMA ResetQuotaKeeps ==
  ASSUME QuotaInv, NEW p \in Pairs, ResetQuota(p[1], p[2])
  PROVE  QuotaInv'
<1>1. p = <<p[1], p[2]>>
  BY KeysOfPair
<1>2. /\ redis' = Delete(redis, UsageKey(p)) /\ spent' = [spent EXCEPT ![p] = NoHistory(MaxTime)]
      /\ carried' = [carried EXCEPT ![p] = {}] /\ now' = now /\ call' = call
  BY <1>1 DEF ResetQuota, UsageKey
<1>3. /\ now \in 0..MaxTime /\ now \in Nat /\ RedisOK(redis, now) /\ call \in [Clients -> {NoCall} \cup Calls]
      /\ spent \in [Pairs -> Histories(MaxTime)] /\ carried \in [Pairs -> Grants] /\ CallInv
      /\ \A r \in Pairs : PairInv(r)
  BY InvFacts
<1>4. DOMAIN redis' = DOMAIN redis \ {UsageKey(p)} /\ \A j \in DOMAIN redis' : redis'[j] = redis[j]
  BY <1>2 DEF Delete
<1>5. RedisOK(redis', now')
  BY <1>2, <1>3, <1>4 DEF RedisOK
<1>6. \A d \in Clients : call'[d] # NoCall => call'[d].limit \in call'[d].bound
  BY <1>2, <1>3 DEF CallInv
<1>7. spent' \in [Pairs -> Histories(MaxTime)] /\ carried' \in [Pairs -> Grants]
  <2>1. NoHistory(MaxTime) \in Histories(MaxTime) /\ {} \in Grants
    BY <1>3, NothingSpent DEF IsHistory, Grants
  <2> QED
    BY <1>2, <1>3, <2>1
<1>8. \A r \in Pairs : LimitKey(r) \in DOMAIN redis' => redis'[LimitKey(r)].expireAt = NoExpiry
  BY <1>3, <1>4 DEF PairInv
<1>9. PairNext(p)
  <2>1. spent'[p] = NoHistory(MaxTime) /\ carried'[p] = {}
    BY <1>2, <1>3
  <2>2. UsageKey(p) \notin DOMAIN redis'
    BY <1>4
  <2>3. IsHistory(spent'[p], MaxTime, now') /\ NoUsageInv(spent'[p], carried'[p], now')
    BY <1>2, <1>3, <2>1, NothingSpent
  <2> QED
    BY <1>8, <2>2, <2>3 DEF PairNext, HoldsUsage
<1>10. ASSUME NEW r \in Pairs, r # p PROVE PairNext(r)
  <2>1. UsageKey(r) # UsageKey(p)
    BY <1>10, KeysDistinct
  <2>2. spent'[r] = spent[r] /\ carried'[r] = carried[r]
    BY <1>2, <1>3, <1>10
  <2> QED
    BY <1>2, <1>3, <1>4, <1>8, <2>1, <2>2, FrameNext
<1> QED
  BY <1>2, <1>3, <1>5, <1>6, <1>7, <1>9, <1>10, InvNext DEF PairNext

(* SetLimit.                                                               *)
LEMMA SetLimitKeeps ==
  ASSUME KeysApart, QuotaInv, NEW p \in Pairs, NEW limit \in NewLimits, SetLimit(p[1], p[2], limit)
  PROVE  QuotaInv'
<1> DEFINE e == [val |-> limit, expireAt |-> NoExpiry]
<1>1. redis' = Put(redis, LimitKey(p), e) /\ now' = now /\ call' = call /\ spent' = spent /\ carried' = carried
  BY DEF SetLimit, LimitKey
<1>2. /\ now \in 0..MaxTime /\ RedisOK(redis, now) /\ call \in [Clients -> {NoCall} \cup Calls]
      /\ spent \in [Pairs -> Histories(MaxTime)] /\ carried \in [Pairs -> Grants] /\ CallInv
      /\ \A r \in Pairs : PairInv(r)
  BY InvFacts
<1>3. e \in [val : Nat, expireAt : {NoExpiry} \cup (now + 1)..(now + TTL)] /\ e.expireAt = NoExpiry
  BY QuotaAssumption
<1> HIDE DEF e
<1>4. /\ DOMAIN redis' = DOMAIN redis \cup {LimitKey(p)} /\ redis'[LimitKey(p)] = e
      /\ \A j \in DOMAIN redis : j # LimitKey(p) => redis'[j] = redis[j]
  BY <1>1 DEF Put
<1>5. LimitKey(p) \in Keys
  BY DEF Keys, LimitKey
<1>6. RedisOK(redis', now')
  BY <1>1, <1>2, <1>3, <1>4, <1>5 DEF RedisOK
<1>7. \A d \in Clients : call'[d] # NoCall => call'[d].limit \in call'[d].bound
  BY <1>1, <1>2 DEF CallInv
<1>8. ASSUME NEW r \in Pairs PROVE PairNext(r)
  <2>1. UsageKey(r) # LimitKey(p)
    BY DEF KeysApart
  <2>2. LimitKey(r) \in DOMAIN redis => redis[LimitKey(r)].expireAt = NoExpiry
    BY <1>2 DEF PairInv
  <2>3. LimitKey(r) \in DOMAIN redis' => redis'[LimitKey(r)].expireAt = NoExpiry
    BY <1>3, <1>4, <2>2
  <2> QED
    BY <1>1, <1>2, <1>4, <2>1, <2>3, FrameNext
<1> QED
  BY <1>1, <1>2, <1>6, <1>7, <1>8, InvNext DEF PairNext

(* The empty Redis.                                                        *)
LEMMA InitQuotaInv ==
  ASSUME Init
  PROVE  QuotaInv
<1>1. /\ now = 0 /\ redis = NoEntries /\ call = [c \in Clients |-> NoCall]
      /\ spent = [p \in Pairs |-> NoHistory(MaxTime)] /\ carried = [p \in Pairs |-> {}]
  BY DEF Init
<1>2. now \in 0..MaxTime /\ DOMAIN redis = {}
  BY <1>1, QuotaAssumption DEF NoEntries
<1>3. IsHistory(NoHistory(MaxTime), MaxTime, now) /\ NoUsageInv(NoHistory(MaxTime), {}, now)
  BY <1>2, NothingSpent
<1>4. TypeOK
  <2>1. NoHistory(MaxTime) \in Histories(MaxTime)
    BY <1>3 DEF IsHistory
  <2> QED
    BY <1>1, <1>2, <2>1 DEF TypeOK
<1>5. CallInv
  BY <1>1 DEF CallInv
<1>6. \A p \in Pairs : PairInv(p)
  BY <1>1, <1>2, <1>3 DEF PairInv, HoldsUsage
<1> QED
  BY <1>4, <1>5, <1>6 DEF QuotaInv

(* Every step.                                                             *)
LEMMA NextKeepsQuotaInv ==
  ASSUME KeysApart, QuotaInv, [Next]_vars
  PROVE  QuotaInv'
<1>1. CASE Tick
  BY <1>1, TickKeeps
<1>2. ASSUME NEW p \in Pairs, NEW c \in Clients, NEW a \in Amounts,
             ResolveLimit(c, p[1], p[2], a) \/ ResolveLimitFails(c, p[1], p[2], a)
      PROVE  QuotaInv'
  BY <1>2, ResolveLimitKeeps
<1>3. ASSUME NEW p \in Pairs, ResetQuota(p[1], p[2]) PROVE QuotaInv'
  BY <1>3, ResetQuotaKeeps
<1>4. ASSUME NEW p \in Pairs, NEW limit \in NewLimits, SetLimit(p[1], p[2], limit) PROVE QuotaInv'
  BY <1>4, SetLimitKeeps
<1>5. ASSUME NEW c \in Clients, RunScript(c) \/ LoseReply(c) \/ Fail(c) PROVE QuotaInv'
  BY <1>5, RunScriptKeeps, LoseReplyKeeps, FailKeeps
<1>6. CASE UNCHANGED vars
  BY <1>6 DEF vars, QuotaInv, TypeOK, CallInv, PairInv, HoldsUsage, UsageInv, NoUsageInv, Within
<1> QED
  BY <1>1, <1>2, <1>3, <1>4, <1>5, <1>6 DEF Next

(* The inductive invariant, for keys that do not collide.                  *)
THEOREM QuotaInvAlways == KeysApart => (Spec => []QuotaInv)
<1> SUFFICES ASSUME KeysApart PROVE Spec => []QuotaInv
  OBVIOUS
<1>1. Init => QuotaInv
  BY InitQuotaInv
<1>2. QuotaInv /\ [Next]_vars => QuotaInv'
  BY NextKeepsQuotaInv
<1> QED
  BY <1>1, <1>2, PTL DEF Spec

(* The variables keep their types.                                         *)
THEOREM TypeAlways == KeysApart => (Spec => []TypeOK)
<1> SUFFICES ASSUME KeysApart PROVE Spec => []TypeOK
  OBVIOUS
<1>1. QuotaInv => TypeOK
  BY DEF QuotaInv
<1>2. Spec => []QuotaInv
  BY QuotaInvAlways
<1> QED
  BY <1>1, <1>2, PTL

(* Which keys collide: the usage key of a tenant named "limit", for a type  *)
(* of several words, and the limit key of the tenant that the type's first *)
(* word names.  Without such a tenant, or with types of one word, none do. *)
THEOREM KeysApartUnlessNamedLimit ==
  ASSUME "limit" \notin Tenants \/ \A q \in QuotaTypes : Len(q) = 1
  PROVE  KeysApart
<1> DEFINE w == "limit"
<1> SUFFICES ASSUME NEW p \in Pairs, NEW r \in Pairs, UsageKey(p) = LimitKey(r) PROVE FALSE
  BY DEF KeysApart
<1>1. IsKey(UsageKey(p), <<p[1]>>, p[2]) /\ IsKey(UsageKey(p), <<w, r[1]>>, r[2])
  BY KeysOfPair, Zenon DEF IsUsageKey, IsLimitKey
<1>2. p[1] \in Tenants /\ p[2] \in QuotaTypes /\ r[2] \in QuotaTypes
  BY DEF Pairs
<1> DEFINE a == <<p[1]>>
           b == <<w, r[1]>>
           k == UsageKey(p)
<1> HIDE DEF w
<1>3. Len(a) = 1 /\ a[1] = p[1] /\ Len(b) = 2 /\ b[1] = w
  OBVIOUS
<1> HIDE DEF a, b, k
<1>4. IsKey(k, a, p[2]) /\ IsKey(k, b, r[2])
  BY <1>1 DEF a, b, k
<1>5. p[1] = w
  <2>1. 1 \in 1..Len(a) /\ 1 \in 1..Len(b)
    BY <1>3
  <2>2. k[1] = a[1] /\ k[1] = b[1]
    BY <1>4, <2>1, Zenon DEF IsKey
  <2> QED
    BY <1>3, <2>2
<1>6. 1 + Len(p[2]) = 2 + Len(r[2])
  BY <1>3, <1>4 DEF IsKey
<1>7. CASE w \notin Tenants
  BY <1>2, <1>5, <1>7
<1>8. CASE \A q \in QuotaTypes : Len(q) = 1
  <2>1. Len(p[2]) = 1 /\ Len(r[2]) = 1
    BY <1>2, <1>8
  <2> QED
    BY <1>6, <2>1
<1> QED
  BY <1>7, <1>8 DEF w

(* Nothing that a caller was told it consumed is missing from Redis.       *)
THEOREM NeverUnderchargedAlways == KeysApart => (Spec => []NeverUndercharged)
<1> SUFFICES ASSUME KeysApart PROVE Spec => []NeverUndercharged
  OBVIOUS
<1>1. QuotaInv => NeverUndercharged
  <2> SUFFICES ASSUME QuotaInv, NEW p \in Pairs, UsageKey(p) \in DOMAIN redis
               PROVE  redis[UsageKey(p)].val >= SpentIn(p, redis[UsageKey(p)].expireAt - TTL, now)
    BY DEF NeverUndercharged, UsageKey
  <2>1. UsageInv(redis[UsageKey(p)], spent[p], carried[p], now)
    BY InvFacts DEF PairInv, HoldsUsage
  <2> QED
    BY <2>1 DEF UsageInv, SpentIn, GrantedIn, FromZero
<1>2. Spec => []QuotaInv
  BY QuotaInvAlways
<1> QED
  BY <1>1, <1>2, PTL

(* Two periods.                                                            *)
LEMMA TwoPeriods ==
  ASSUME WholeSeconds, QuotaInv, NEW p \in Pairs
  PROVE  \E limit \in LimitsIn(carried[p], now - ResetTTL + 1, now) : SpentIn(p, now - ResetTTL + 1, now) <= 2 * limit
<1> DEFINE h == spent[p]
           g == carried[p]
           n == now
           x == FromZero(n - TTL + 1)
           y == n - TTL + 1
<1>1. /\ n \in 0..MaxTime /\ n \in Nat /\ g \in Grants /\ IsHistory(h, MaxTime, n)
      /\ HoldsUsage(redis, UsageKey(p), h, g, n)
  BY InvFacts DEF PairInv
<1>2. TTL \in Nat /\ TTL # 0 /\ TTL = ResetTTL
  BY TTLType, QuotaAssumption DEF WholeSeconds
<1>3. x \in Nat /\ x <= n /\ x \in Ticks(MaxTime) /\ n \in Ticks(MaxTime) /\ n + 1 \in Ticks(MaxTime) /\ y <= x /\ y \in Int
  BY <1>1, <1>2, QuotaAssumption DEF FromZero, Ticks
<1>4. SpentIn(p, now - ResetTTL + 1, now) = h[n + 1] - h[x]
  BY <1>2 DEF SpentIn, GrantedIn
<1>5. \A t \in Ticks(MaxTime) : h[t] \in Nat
  BY <1>1, HistoryFacts
<1> HIDE DEF h, g, n, x, y
<1>6. ASSUME NEW a \in Int, NEW b \in Int, x <= a, b <= n PROVE LimitsIn(g, a, b) \subseteq LimitsIn(g, y, n)
  <2>1. y <= a
    BY <1>3, <1>6
  <2> QED
    BY <1>1, <1>3, <1>6, <2>1, LimitsInGrow
<1>7. LimitsIn(g, y, n) \subseteq Nat
  BY <1>1, LimitsInType
<1>8. \E limit \in LimitsIn(g, y, n) : h[n + 1] - h[x] <= 2 * limit
  <2>1. CASE UsageKey(p) \in DOMAIN redis
    <3> DEFINE s == redis[UsageKey(p)].expireAt - TTL
    <3>1. UsageInv(redis[UsageKey(p)], h, g, n)
      BY <1>1, <2>1, Zenon DEF HoldsUsage
    <3>2. /\ s \in Nat /\ Within(h, g, s, n + 1) /\ Within(h, g, FromZero(s - TTL), s)
          /\ redis[UsageKey(p)].expireAt \in (n + 1)..(n + TTL)
      BY <3>1 DEF UsageInv
    <3>3. s <= n /\ x <= s /\ FromZero(s - TTL) <= x /\ s \in Ticks(MaxTime) /\ (n + 1) - 1 = n /\ s \in s..(n + 1)
      <4> DEFINE e == redis[UsageKey(p)].expireAt
      <4>1. s = e - TTL /\ s \in Nat /\ e \in (n + 1)..(n + TTL) /\ n \in Nat /\ TTL \in Nat
        BY <1>2, <1>3, <3>2, TickFacts
      <4> HIDE DEF e, s
      <4>2. s <= n /\ n - TTL + 1 <= s /\ e \in Int
        BY <4>1
      <4>3. x <= s /\ FromZero(s - TTL) <= x
        BY <4>1, <4>2 DEF x, FromZero
      <4>4. s \in Ticks(MaxTime)
        BY <1>1, <4>1, <4>2, TickFacts DEF Ticks
      <4> QED
        BY <4>1, <4>2, <4>3, <4>4
    <3> HIDE DEF s
    <3>4. PICK l1 \in LimitsIn(g, s, n) : h[n + 1] - h[s] <= l1
      <4>1. \E l \in LimitsIn(g, s, (n + 1) - 1) : h[n + 1] - h[s] <= l
        BY <3>2, <3>3 DEF Within
      <4> QED
        BY <3>3, <4>1
    <3>5. PICK l2 \in LimitsIn(g, x, s - 1) : h[s] - h[x] <= l2
      <4>1. x \in FromZero(s - TTL)..s
        BY <1>2, <1>3, <3>2, <3>3 DEF FromZero
      <4> QED
        BY <3>2, <4>1 DEF Within
    <3>6. l1 \in LimitsIn(g, y, n) /\ l2 \in LimitsIn(g, y, n)
      <4>1. s \in Int /\ n \in Int /\ s - 1 \in Int /\ x \in Int /\ s - 1 <= n /\ n <= n /\ x <= x
        BY <1>1, <1>3, <3>2, <3>3
      <4> QED
        BY <1>6, <3>3, <3>4, <3>5, <4>1
    <3>7. l1 \in Nat /\ l2 \in Nat /\ h[n + 1] \in Nat /\ h[s] \in Nat /\ h[x] \in Nat
      BY <1>3, <1>5, <1>7, <3>3, <3>6
    <3>8. h[n + 1] - h[x] <= 2 * l1 \/ h[n + 1] - h[x] <= 2 * l2
      BY <3>4, <3>5, <3>7
    <3> QED
      BY <3>6, <3>8
  <2>2. CASE UsageKey(p) \notin DOMAIN redis
    <3>1. NoUsageInv(h, g, n)
      BY <1>1, <2>2, Zenon DEF HoldsUsage
    <3>2. h[n + 1] = h[n] /\ Within(h, g, FromZero(n - TTL), n)
      BY <1>2, <3>1 DEF NoUsageInv
    <3>3. x \in FromZero(n - TTL)..n
      BY <1>1, <1>2, <1>3 DEF x, FromZero
    <3>4. PICK l \in LimitsIn(g, x, n - 1) : h[n] - h[x] <= l
      BY <3>2, <3>3 DEF Within
    <3>5. l \in LimitsIn(g, y, n)
      <4>1. x \in Int /\ n - 1 \in Int /\ x <= x /\ n - 1 <= n
        BY <1>1, <1>3
      <4> QED
        BY <1>6, <3>4, <4>1
    <3>6. l \in Nat /\ h[n] \in Nat /\ h[x] \in Nat
      BY <1>3, <1>5, <1>7, <3>5
    <3>7. h[n + 1] - h[x] <= 2 * l
      BY <3>2, <3>4, <3>6
    <3> QED
      BY <3>5, <3>7
  <2> QED
    BY <2>1, <2>2
<1> QED
  BY <1>2, <1>4, <1>8 DEF g, n, y

(* In no stretch of time as long as the period are callers told of more     *)
(* than twice a limit, provided the period is a whole number of seconds.   *)
THEOREM AtMostTwiceAlways == KeysApart /\ WholeSeconds => (Spec => []AtMostTwicePerPeriod)
<1> SUFFICES ASSUME KeysApart, WholeSeconds PROVE Spec => []AtMostTwicePerPeriod
  OBVIOUS
<1>1. QuotaInv => AtMostTwicePerPeriod
  BY TwoPeriods DEF AtMostTwicePerPeriod
<1>2. Spec => []QuotaInv
  BY QuotaInvAlways
<1> QED
  BY <1>1, <1>2, PTL

(* What the script of a call leaves in its key.                            *)
LEMMA ScriptOf ==
  ASSUME QuotaInv, NEW c \in Clients, NEW p, ScriptRuns(c, p)
  PROVE  /\ call[c] # NoCall /\ p \in Pairs /\ call[c].amount \in Nat
         /\ call[c].limit \in call[c].bound /\ call[c].limit \in Nat
         /\ \/ redis' = redis
            \/ /\ Allowed(UsageKey(p), call[c].amount, call[c].limit)
               /\ redis' = Alive(Charged(UsageKey(p), call[c].amount), now)
<1>1. call[c] # NoCall /\ p = <<call[c].tenant, call[c].type>> /\ ConsumeQuotaScript(c)
  BY DEF ScriptRuns, RunScript, LoseReply
<1>2. /\ p \in Pairs /\ call[c].amount \in Nat /\ call[c].limit \in call[c].bound /\ call[c].limit \in Nat
      /\ UsageKey(p) = BuildUsageKey(call[c].tenant, call[c].type)
  BY <1>1, CallFacts DEF UsageKey
<1> QED
  BY <1>1, <1>2 DEF ConsumeQuotaScript

(* The usage after a script.                                               *)
LEMMA ValueCharged ==
  ASSUME QuotaInv, NEW k \in Keys, NEW a \in Nat, redis' = Alive(Charged(k, a), now)
  PROVE  Value(k)' = 0 \/ Value(k)' = Value(k) + a
<1>1. k \in DOMAIN redis' => redis'[k].val = Value(k) + a
  BY InvFacts, ChargeOthers
<1> QED
  BY <1>1 DEF Value

(* A script charges nothing beyond a limit that binds its call.            *)
THEOREM ChargedWithinLimitAlways == KeysApart => (Spec => ChargedWithinLimit)
<1> SUFFICES ASSUME KeysApart PROVE Spec => ChargedWithinLimit
  OBVIOUS
<1>1. QuotaInv /\ [Next]_vars => [ChargeWithinLimit]_vars
  <2> SUFFICES ASSUME QuotaInv, NEW c \in Clients, NEW p \in Pairs, ScriptRuns(c, p), redis' # redis
               PROVE  \E limit \in call[c].bound : Value(BuildUsageKey(p[1], p[2]))' <= limit
    BY DEF ChargeWithinLimit
  <2> DEFINE k == UsageKey(p)
             a == call[c].amount
             limit == call[c].limit
  <2>1. /\ a \in Nat /\ limit \in call[c].bound /\ limit \in Nat
        /\ Allowed(k, a, limit) /\ redis' = Alive(Charged(k, a), now)
    BY ScriptOf
  <2>2. k \in Keys
    BY DEF Keys, UsageKey
  <2>3. Value(k)' = 0 \/ Value(k)' = Value(k) + a
    BY <2>1, <2>2, ValueCharged
  <2>4. Value(k) + a <= limit
    BY <2>1 DEF Allowed
  <2>5. Value(k)' <= limit
    BY <2>1, <2>3, <2>4
  <2>6. Value(BuildUsageKey(p[1], p[2]))' <= limit
    BY <2>5 DEF UsageKey
  <2> QED
    BY <2>1, <2>6
<1>2. Spec => []QuotaInv
  BY QuotaInvAlways
<1> QED
  BY <1>1, <1>2, PTL DEF Spec, ChargedWithinLimit

(* The usage and the limit of a pair whose keys do not change.             *)
LEMMA OthersFrame ==
  ASSUME NEW r, \A j \in {UsageKey(r), LimitKey(r)} :
                   (j \in DOMAIN redis' <=> j \in DOMAIN redis) /\ (j \in DOMAIN redis => redis'[j] = redis[j])
  PROVE  /\ Value(BuildUsageKey(r[1], r[2]))' = Value(BuildUsageKey(r[1], r[2]))
         /\ LimitInForce(r[1], r[2])' = LimitInForce(r[1], r[2])
<1>1. Value(UsageKey(r))' = Value(UsageKey(r))
  BY DEF Value
<1>2. (LimitKey(r) \in DOMAIN redis' <=> LimitKey(r) \in DOMAIN redis)
      /\ (LimitKey(r) \in DOMAIN redis => redis'[LimitKey(r)].val = redis[LimitKey(r)].val)
  OBVIOUS
<1>3. (IF LimitKey(r) \in DOMAIN redis' THEN {redis'[LimitKey(r)].val} ELSE Configured(r[2]))
      = (IF LimitKey(r) \in DOMAIN redis THEN {redis[LimitKey(r)].val} ELSE Configured(r[2]))
  BY <1>2
<1>4. LimitInForce(r[1], r[2])' = LimitInForce(r[1], r[2])
  BY <1>3 DEF LimitInForce, LimitKey
<1> QED
  BY <1>1, <1>4 DEF UsageKey

(* A call changes the usage and the limit of no other tenant or type.      *)
THEOREM PairsIndependentAlways == KeysApart => (Spec => PairsIndependent)
<1> SUFFICES ASSUME KeysApart PROVE Spec => PairsIndependent
  OBVIOUS
<1>1. QuotaInv /\ [Next]_vars => [OthersUntouched]_vars
  <2> SUFFICES ASSUME QuotaInv, NEW p \in Pairs, CallOf(p), NEW r \in Pairs \ {p}
               PROVE  \A j \in {UsageKey(r), LimitKey(r)} :
                         (j \in DOMAIN redis' <=> j \in DOMAIN redis) /\ (j \in DOMAIN redis => redis'[j] = redis[j])
    BY OthersFrame DEF OthersUntouched
  <2>1. /\ UsageKey(r) # UsageKey(p) /\ LimitKey(r) # LimitKey(p)
        /\ UsageKey(r) # LimitKey(p) /\ LimitKey(r) # UsageKey(p)
    BY KeysDistinct DEF KeysApart
  <2>2. CASE ResetQuota(p[1], p[2])
    <3>1. redis' = Delete(redis, UsageKey(p))
      BY <2>2 DEF ResetQuota, UsageKey
    <3> QED
      BY <2>1, <3>1 DEF Delete
  <2>3. ASSUME NEW limit \in NewLimits, SetLimit(p[1], p[2], limit)
        PROVE  \A j \in {UsageKey(r), LimitKey(r)} :
                  (j \in DOMAIN redis' <=> j \in DOMAIN redis) /\ (j \in DOMAIN redis => redis'[j] = redis[j])
    <3>1. redis' = Put(redis, LimitKey(p), [val |-> limit, expireAt |-> NoExpiry])
      BY <2>3 DEF SetLimit, LimitKey
    <3> QED
      BY <2>1, <3>1 DEF Put
  <2>4. ASSUME NEW c \in Clients, ScriptRuns(c, p)
        PROVE  \A j \in {UsageKey(r), LimitKey(r)} :
                  (j \in DOMAIN redis' <=> j \in DOMAIN redis) /\ (j \in DOMAIN redis => redis'[j] = redis[j])
    <3>1. /\ call[c].amount \in Nat
          /\ \/ redis' = redis
             \/ redis' = Alive(Charged(UsageKey(p), call[c].amount), now)
      BY <2>4, ScriptOf
    <3>2. UsageKey(p) \in Keys
      BY DEF Keys, UsageKey
    <3>3. CASE redis' = redis
      BY <3>3
    <3>4. CASE redis' = Alive(Charged(UsageKey(p), call[c].amount), now)
      <4>1. \A j : j # UsageKey(p) => (j \in DOMAIN redis' <=> j \in DOMAIN redis) /\ (j \in DOMAIN redis => redis'[j] = redis[j])
        BY <3>1, <3>2, <3>4, InvFacts, ChargeOthers
      <4> QED
        BY <2>1, <4>1
    <3> QED
      BY <3>1, <3>3, <3>4
  <2> QED
    BY <2>2, <2>3, <2>4 DEF CallOf
<1>2. Spec => []QuotaInv
  BY QuotaInvAlways
<1> QED
  BY <1>1, <1>2, PTL DEF Spec, PairsIndependent

=============================================================================
