------------------------- MODULE LimiterRedisProofs -------------------------
(***************************************************************************)
(* Proofs about LimiterRedis with each of its scripts, for any number of   *)
(* keys and instances, every limit and window of whole seconds, any delay  *)
(* between the reading of a clock and its script, lost replies and scripts *)
(* sent again.                                                             *)
(*                                                                         *)
(* What Redis holds for a key bounds what its callers were told only until *)
(* the key expires, and it is dated by the clocks of the callers, while    *)
(* the limit is about the time at which they were told.  The invariants of *)
(* the three scripts relate the two.                                       *)
(***************************************************************************)
EXTENDS LimiterRedis, FiniteSetTheorems, TLAPS

(* The window is a whole number of seconds, which the code does not ensure: *)
(* int64(window.Seconds()) would make the window of Redis shorter.         *)
WholeSeconds == Window = WindowTicks

-----------------------------------------------------------------------------
(* What holds of a key with history h at tick n.                           *)

\* The second of a tick.
Sec(t) == t \div Second

(* What late calls gain in s seconds of a token bucket, in units of which a *)
(* token has WindowSeconds: their lateness, once in each window.           *)
LateRefill(s) == Limit * (Lateness * (s \div WindowSeconds))

(* The token bucket e.  Its expiry tells when it was last granted from.     *)
(* What callers were granted since a tick is paid from a full bucket, from *)
(* the refill since then and, once for each bucket that has expired since, *)
(* from the lateness of the call that began the next one.                  *)
BucketInv(e, h, n) ==
    LET granted == e.expireAt - WindowTicks
    IN  /\ e.expireAt \in (n + 1)..(n + WindowTicks) /\ granted \in Nat
        /\ e.val.tokens \in 0..Limit /\ e.val.last \in 0..Sec(granted)
        /\ \A t \in Ticks(MaxTime) : t > granted => h[t] = h[n + 1]
        /\ \A f \in 0..granted :
              (h[n + 1] - h[f]) * WindowSeconds <=
                  (Limit - e.val.tokens) * WindowSeconds + Limit * (e.val.last - Sec(f))
                  + Limit * Lateness + LateRefill(Sec(granted) - Sec(f))

NoBucketInv(h, n) ==
    \A f \in 0..n :
        (h[n + 1] - h[f]) * WindowSeconds <= Limit * (Sec(n) - Sec(f)) + LateRefill(Sec(n) - Sec(f))

(* The fixed window e: it counts what was granted since it began, and the   *)
(* window before it was within the limit.                                  *)
FixedInv(e, h, n) ==
    LET start == e.expireAt - WindowTicks
    IN  /\ e = [val |-> e.val, expireAt |-> e.expireAt]
        /\ e.expireAt \in (n + 1)..(n + WindowTicks) /\ start \in Nat
        /\ e.val \in 1..Limit
        /\ e.val >= h[n + 1] - h[start]
        /\ h[start] - h[FromZero(start - WindowTicks)] <= Limit

NoFixedInv(h, n) ==
    /\ h[n + 1] = h[n]
    /\ h[n + 1] - h[FromZero(n - WindowTicks)] <= Limit

(* The members S of the sorted set of a key.  A member has the clock        *)
(* reading of its call, at most MaxDelay before the tick of the grant.     *)
(* Members of calls that are still in progress, with the readings F, come  *)
(* from lost replies and stand for no grant yet.                           *)
Newer(S, c) == {m \in S : m[1] > c}

Counted(S, F, c) == {m \in S : m[1] > c /\ m[1] \notin F}

MembersInv(S, F, h, n) ==
    /\ S \subseteq (0..n) \X (1..Limit) /\ IsFiniteSet(S) /\ Cardinality(S) <= Limit
    /\ \A c \in (n - WindowTicks + MaxDelay)..n :
          h[n + 1] - h[FromZero(c + 1)] <= Cardinality(Counted(S, F, c - MaxDelay))

(* A set outlives the grants of its members.                                *)
ExpiryInv(e, h, n) ==
    /\ e.expireAt \in (n + 1)..(n + 2 * WindowTicks)
    /\ \A t \in Ticks(MaxTime) : t > e.expireAt - 2 * WindowTicks => h[t] = h[n + 1]

-----------------------------------------------------------------------------
(* The limiter.                                                            *)

InFlight(k) == {call[c].at : c \in {d \in Clients : call[d] # NoCall /\ call[d].key = k}}

Members(s, k) == IF k \in DOMAIN s THEN s[k].val ELSE {}

(* Redis holds s.  The key k has the history h and was last called at tick  *)
(* `last`; its calls in progress have the readings F.                      *)
StoreInv(s, k, F, last, h) ==
    /\ algorithm = "token_bucket" =>
          IF k \in DOMAIN s THEN BucketInv(s[k], h, now) ELSE NoBucketInv(h, now)
    /\ algorithm = "fixed_window" =>
          IF k \in DOMAIN s THEN FixedInv(s[k], h, now) ELSE NoFixedInv(h, now)
    /\ algorithm = "sliding_window" =>
          /\ MembersInv(Members(s, k), F, h, now)
          /\ \A m \in Members(s, k) : m[1] <= last
          /\ k \in DOMAIN s => ExpiryInv(s[k], h, now)

KeyInv(k) ==
    /\ IsHistory(admitted[k], MaxTime, now)
    /\ StoreInv(store, k, InFlight(k), lastRead[k], admitted[k])

CallRecords == [key : Keys, n : Amounts, at : Int]

(* Calls carry a reading of the clock that is not too old, and with the     *)
(* sliding window no two calls of a key the same one unless it has clashed. *)
CallsInv ==
    /\ call \in [Clients -> {NoCall} \cup CallRecords]
    /\ \A c \in Clients : call[c] # NoCall =>
          call[c].at \in 0..now /\ now - call[c].at <= MaxDelay /\ call[c].at <= lastRead[call[c].key]
    /\ algorithm = "sliding_window" =>
          \A c, d \in Clients :
             (call[c] # NoCall /\ call[d] # NoCall /\ call[c].key = call[d].key /\ call[c].at = call[d].at
              /\ call[c].key \notin clashed) => c = d

LimiterInv ==
    /\ algorithm \in Algorithms /\ now \in 0..MaxTime
    /\ DOMAIN store \subseteq Keys
    /\ lastRead \in [Keys -> Int] /\ \A k \in Keys : lastRead[k] <= now
    /\ DOMAIN admitted = Keys
    /\ CallsInv
    /\ \A k \in Keys : KeyInv(k)

-----------------------------------------------------------------------------
(* The running totals.                                                     *)

(* A new history.                                                           *)
LEMMA NoHistoryIs ==
  ASSUME NEW last \in Nat, NEW n \in 0..last
  PROVE  /\ IsHistory(NoHistory(last), last, n)
         /\ \A t \in Ticks(last) : NoHistory(last)[t] = 0
  BY DEF IsHistory, NoHistory, Histories, Ticks

(* The passing of time adds nothing to a history.                           *)
LEMMA HistoryTick ==
  ASSUME NEW last \in Nat, NEW n \in 0..last, n < last, NEW h, IsHistory(h, last, n)
  PROVE  IsHistory(h, last, n + 1) /\ h[n + 2] = h[n + 1] /\ n + 1 + 1 = n + 2 /\ n + 1 \in 0..last
<1>1. n + 2 \in Ticks(last) /\ n + 2 > n /\ n + 1 + 1 = n + 2 /\ n + 1 \in 0..last
  BY DEF Ticks
<1>2. h[n + 2] = h[n + 1]
  BY <1>1 DEF IsHistory
<1>3. \A t \in Ticks(last) : t > n + 1 => t > n
  BY DEF Ticks
<1> QED
  BY <1>1, <1>2, <1>3 DEF IsHistory

(* What a grant changes in a history.                                       *)
LEMMA HistoryGranted ==
  ASSUME NEW last \in Nat, NEW n \in 0..last, NEW h, IsHistory(h, last, n), NEW a \in Nat
  PROVE  /\ IsHistory(Granted(h, n, a), last, n)
         /\ Granted(h, n, a)[n + 1] = h[n + 1] + a
         /\ \A t \in Ticks(last) : t <= n => Granted(h, n, a)[t] = h[t]
<1> DEFINE g == Granted(h, n, a)
<1>1. h \in [Ticks(last) -> Nat] /\ Ticks(last) \subseteq Nat /\ n \in Nat /\ n + 1 \in Ticks(last) /\ 0 \in Ticks(last)
  BY DEF IsHistory, Histories, Ticks
<1>2. g \in [Ticks(last) -> Nat] /\ \A t \in Ticks(last) : g[t] = IF t > n THEN h[t] + a ELSE h[t]
  BY <1>1 DEF Granted
<1>3. \A s, t \in Ticks(last) : s <= t => g[s] <= g[t]
  <2> SUFFICES ASSUME NEW s \in Ticks(last), NEW t \in Ticks(last), s <= t PROVE g[s] <= g[t]
    OBVIOUS
  <2>1. h[s] <= h[t] /\ h[s] \in Nat /\ h[t] \in Nat /\ s \in Nat /\ t \in Nat
    BY <1>1 DEF IsHistory
  <2>2. g[s] = (IF s > n THEN h[s] + a ELSE h[s]) /\ g[t] = (IF t > n THEN h[t] + a ELSE h[t])
    BY <1>2
  <2> HIDE DEF g
  <2> QED
    BY <2>1, <2>2, <1>1
<1>4. g[0] = 0
  BY <1>1, <1>2 DEF IsHistory
<1>5. \A t \in Ticks(last) : t > n => g[t] = g[n + 1]
  BY <1>1, <1>2 DEF IsHistory
<1>6. g \in Histories(last)
  BY <1>2 DEF Histories
<1> QED
  BY <1>1, <1>2, <1>3, <1>4, <1>5, <1>6 DEF IsHistory

(* The ticks that the invariants speak of, and the totals there.            *)
LEMMA TickFacts ==
  ASSUME NEW n \in 0..MaxTime
  PROVE  /\ n \in Nat /\ n + 1 \in Ticks(MaxTime) /\ n \in Ticks(MaxTime) /\ MaxTime \in Nat
         /\ Ticks(MaxTime) \subseteq Nat
         /\ \A s \in Int : s <= n + 1 => FromZero(s) \in Ticks(MaxTime)
  BY LimiterAssumption DEF Ticks, FromZero

(* A history holds natural numbers and never falls.                        *)
LEMMA HistoryFacts ==
  ASSUME NEW n \in 0..MaxTime, NEW h, IsHistory(h, MaxTime, n)
  PROVE  /\ \A t \in Ticks(MaxTime) : h[t] \in Nat
         /\ \A s, t \in Ticks(MaxTime) : s <= t => h[s] <= h[t]
         /\ \A t \in Ticks(MaxTime) : t > n => h[t] = h[n + 1]
  BY DEF IsHistory, Histories

-----------------------------------------------------------------------------
(* Seconds and ticks.                                                      *)

(* Truncating division gives the whole part.                                *)
LEMMA Division ==
  ASSUME NEW a \in Int, NEW b \in Nat \ {0}
  PROVE  a \div b \in Int /\ (a \div b) * b <= a /\ a < (a \div b + 1) * b /\ (a >= 0 => a \div b >= 0)
  BY SMT

(* It never falls with its dividend.                                        *)
LEMMA DivisionMonotone ==
  ASSUME NEW a \in Int, NEW c \in Int, NEW b \in Nat \ {0}, a <= c
  PROVE  a \div b <= c \div b
<1> DEFINE q == a \div b
           r == c \div b
<1>1. q \in Int /\ q * b <= a /\ r \in Int /\ c < (r + 1) * b
  BY Division
<1> HIDE DEF q, r
<1>2. ASSUME q >= r + 1 PROVE FALSE
  <2>1. (r + 1) * b <= q * b
    BY <1>1, <1>2, SMT
  <2>2. (r + 1) * b \in Int /\ q * b \in Int
    BY <1>1, SMT
  <2> QED
    BY <1>1, <2>1, <2>2
<1>3. q <= r
  BY <1>1, <1>2
<1> QED
  BY <1>3 DEF q, r

(* Whole multiples of the divisor come out.                                 *)
LEMMA DivisionOfSum ==
  ASSUME NEW a \in Int, NEW m \in Int, NEW b \in Nat \ {0}
  PROVE  (a + m * b) \div b = a \div b + m
<1> DEFINE q == a \div b
           r == (a + m * b) \div b
<1>1. m * b \in Int
  BY SMT
<1>2. q \in Int /\ q * b <= a /\ a < (q + 1) * b
  BY Division
<1>3. r \in Int /\ r * b <= a + m * b /\ a + m * b < (r + 1) * b
  BY <1>1, Division
<1> HIDE DEF q, r
<1>4. ASSUME r >= q + m + 1 PROVE FALSE
  <2>1. (q + m + 1) * b <= r * b /\ (q + m + 1) * b = (q + 1) * b + m * b
    BY <1>2, <1>3, <1>4, SMT
  <2>2. (q + 1) * b \in Int /\ r * b \in Int /\ m * b \in Int /\ (q + m + 1) * b \in Int
    BY <1>2, <1>3, SMT
  <2> QED
    BY <1>2, <1>3, <2>1, <2>2
<1>5. ASSUME r <= q + m - 1 PROVE FALSE
  <2>1. (r + 1) * b <= (q + m) * b /\ (q + m) * b = q * b + m * b
    BY <1>2, <1>3, <1>5, SMT
  <2>2. (r + 1) * b \in Int /\ (q + m) * b \in Int /\ m * b \in Int /\ q * b \in Int
    BY <1>2, <1>3, SMT
  <2> QED
    BY <1>2, <1>3, <2>1, <2>2
<1>6. r = q + m
  BY <1>2, <1>3, <1>4, <1>5
<1> QED
  BY <1>6 DEF q, r

(* What the configuration gives.                                            *)
LEMMA Sizes ==
  ASSUME WholeSeconds
  PROVE  /\ WindowSeconds \in Nat \ {0} /\ WindowTicks \in Nat \ {0} /\ Second \in Nat \ {0}
         /\ WindowTicks = WindowSeconds * Second
         /\ Limit \in Nat \ {0} /\ MaxDelay \in Nat /\ Lateness \in Nat /\ MaxTime \in Nat
<1>1. Second \in Nat \ {0} /\ Window \in Nat \ {0} /\ Limit \in Nat \ {0} /\ MaxDelay \in Nat /\ MaxTime \in Nat
  BY LimiterAssumption
<1>2. WindowSeconds \in Nat
  BY <1>1, Division DEF WindowSeconds
<1>3. WindowTicks = WindowSeconds * Second
  BY DEF WindowTicks
<1>4. WindowTicks \in Nat \ {0}
  BY <1>1 DEF WholeSeconds
<1>5. WindowSeconds # 0
  BY <1>1, <1>3, <1>4
<1>6. Lateness \in Nat
  <2> DEFINE d == MaxDelay + Second - 1
  <2>1. d \in Int /\ d >= 0
    BY <1>1
  <2> HIDE DEF d
  <2>2. d \div Second \in Int /\ d \div Second >= 0
    BY <1>1, <2>1, Division
  <2> QED
    BY <2>2 DEF Lateness, d
<1> QED
  BY <1>1, <1>2, <1>3, <1>4, <1>5, <1>6

(* A later tick is in no earlier second.                                    *)
LEMMA SecMonotone ==
  ASSUME NEW a \in Nat, NEW b \in Nat, a <= b
  PROVE  Sec(a) \in Nat /\ Sec(b) \in Nat /\ Sec(a) <= Sec(b)
<1>1. Second \in Nat \ {0}
  BY LimiterAssumption
<1>2. Sec(a) \in Nat /\ Sec(b) \in Nat
  BY <1>1, Division DEF Sec
<1> QED
  BY <1>1, <1>2, DivisionMonotone DEF Sec

(* A window is WindowSeconds of them.                                       *)
LEMMA SecOfWindow ==
  ASSUME WholeSeconds, NEW a \in Nat
  PROVE  Sec(a + WindowTicks) = Sec(a) + WindowSeconds
<1>1. WindowSeconds \in Int /\ Second \in Nat \ {0} /\ WindowTicks = WindowSeconds * Second
  BY Sizes
<1>2. (a + WindowSeconds * Second) \div Second = a \div Second + WindowSeconds
  BY <1>1, DivisionOfSum
<1> QED
  BY <1>1, <1>2 DEF Sec

(* A script is at most Lateness seconds later than its reading of a clock.  *)
LEMMA SecOfLate ==
  ASSUME WholeSeconds, NEW at \in Nat, NEW n \in Nat, n - at <= MaxDelay
  PROVE  Sec(n) <= Sec(at) + Lateness
<1>1. Second \in Nat \ {0} /\ MaxDelay \in Nat /\ Lateness \in Nat
  BY Sizes
<1> DEFINE s == Lateness * Second
<1>2. s \in Nat
  BY <1>1, SMT
<1>3. s >= MaxDelay
  <2> DEFINE d == MaxDelay + Second - 1
  <2>1. d \in Int
    BY <1>1
  <2> HIDE DEF d
  <2>2. d < (d \div Second + 1) * Second
    BY <1>1, <2>1, Division
  <2>3. d < (Lateness + 1) * Second
    BY <2>2 DEF Lateness, d
  <2>4. (Lateness + 1) * Second = s + Second
    BY <1>1, SMT
  <2> HIDE DEF s
  <2> QED
    BY <1>1, <1>2, <2>3, <2>4 DEF d
<1>4. Sec(at + s) = Sec(at) + Lateness
  <2>1. (at + Lateness * Second) \div Second = at \div Second + Lateness
    <3>1. at \in Int /\ Lateness \in Int
      BY <1>1
    <3> QED
      BY <1>1, <3>1, DivisionOfSum, Zenon
  <2> QED
    BY <2>1 DEF Sec
<1> HIDE DEF s
<1>5. n <= at + s /\ at + s \in Nat
  BY <1>1, <1>2, <1>3
<1>6. Sec(n) <= Sec(at + s)
  BY <1>5, SecMonotone
<1> QED
  BY <1>4, <1>6

-----------------------------------------------------------------------------
(* The token bucket of a key.                                              *)

(* More seconds, more lateness; and that of one call for each window.       *)
LEMMA LateRefillFacts ==
  ASSUME WholeSeconds, NEW x \in Nat, NEW y \in Nat, x <= y
  PROVE  /\ LateRefill(x) \in Nat /\ LateRefill(y) \in Nat /\ LateRefill(x) <= LateRefill(y)
         /\ LateRefill(x + WindowSeconds) = LateRefill(x) + Limit * Lateness
         /\ Limit * Lateness \in Nat
<1>1. WindowSeconds \in Nat \ {0} /\ Limit \in Nat \ {0} /\ Lateness \in Nat
  BY Sizes
<1> DEFINE p == x \div WindowSeconds
           q == y \div WindowSeconds
<1>2. p \in Nat /\ q \in Nat /\ p <= q
  BY <1>1, Division, DivisionMonotone
<1>3. (x + 1 * WindowSeconds) \div WindowSeconds = p + 1
  <2>1. x \in Int /\ 1 \in Int
    OBVIOUS
  <2> QED
    BY <1>1, <2>1, DivisionOfSum, Zenon
<1>4. (x + WindowSeconds) \div WindowSeconds = p + 1
  <2>1. 1 * WindowSeconds = WindowSeconds
    BY <1>1
  <2> QED
    BY <1>3, <2>1
<1> HIDE DEF p, q
<1> DEFINE w == Limit * Lateness
<1>5. w \in Nat /\ Limit * (Lateness * p) = w * p /\ Limit * (Lateness * q) = w * q
      /\ Limit * (Lateness * (p + 1)) = w * p + w
  BY <1>1, <1>2, SMT
<1> HIDE DEF w
<1>6. w * p \in Nat /\ w * q \in Nat /\ w * p <= w * q
  BY <1>2, <1>5, SMT
<1> QED
  BY <1>4, <1>5, <1>6 DEF LateRefill, p, q, w

(* A grant of a, of which the caller is told b, is paid by the tokens and   *)
(* the whole tokens F that came in since.                                  *)
LEMMA PaidByTokens ==
  ASSUME NEW L \in Nat, NEW w \in Nat, NEW d \in Int, NEW a \in Nat, NEW b \in Nat, b <= a,
         NEW before \in Int, NEW after \in Int, NEW last \in Int, NEW u \in Int, NEW s \in Int,
         NEW F \in Int, F * w <= (u - last) * L, after + a <= before + F,
         NEW x \in Int, NEW y \in Int, x <= y,
         d * w <= (L - before) * w + L * (last - s) + x
  PROVE  (d + b) * w <= (L - after) * w + L * (u - s) + y
<1> DEFINE dw == d * w
           bw == b * w
           aw == a * w
           ew == before * w
           fw == after * w
           Lw == L * w
           Lu == L * u
           Ll == L * last
           Ls == L * s
<1>1. /\ (d + b) * w = dw + bw
      /\ (L - before) * w = Lw - ew /\ (L - after) * w = Lw - fw
      /\ L * (last - s) = Ll - Ls /\ L * (u - s) = Lu - Ls /\ (u - last) * L = Lu - Ll
  BY SMT
<1>2. /\ dw \in Int /\ bw \in Int /\ aw \in Int /\ ew \in Int /\ fw \in Int
      /\ Lw \in Int /\ Lu \in Int /\ Ll \in Int /\ Ls \in Int /\ F * w \in Int
  BY SMT
<1>3. bw <= aw
  BY SMT
<1>4. (after + a) * w <= (before + F) * w
  <2> DEFINE p == after + a
             q == before + F
  <2>1. p \in Int /\ q \in Int /\ p <= q
    OBVIOUS
  <2> HIDE DEF p, q
  <2>2. p * w <= q * w
    BY <2>1, SMT
  <2> QED
    BY <2>2 DEF p, q
<1>5. (after + a) * w = fw + aw /\ (before + F) * w = ew + F * w
  BY SMT
<1> HIDE DEF dw, bw, aw, ew, fw, Lw, Lu, Ll, Ls
<1>6. dw <= Lw - ew + (Ll - Ls) + x /\ F * w <= Lu - Ll
  BY <1>1 DEF dw
<1>7. fw + aw <= ew + F * w
  BY <1>4, <1>5
<1> DEFINE v == F * w
<1> HIDE DEF v
<1>8. dw + bw <= Lw - fw + (Lu - Ls) + y
  BY <1>2, <1>3, <1>6, <1>7 DEF v
<1> QED
  BY <1>1, <1>8

(* Time passes over a bucket that does not expire.                          *)
LEMMA BucketTick ==
  ASSUME WholeSeconds, NEW n \in 0..MaxTime, n < MaxTime, NEW h, IsHistory(h, MaxTime, n),
         NEW e, BucketInv(e, h, n), e.expireAt > n + 1
  PROVE  BucketInv(e, h, n + 1)
<1>1. h[(n + 1) + 1] = h[n + 1] /\ n \in Nat /\ WindowTicks \in Nat
  BY HistoryTick, LimiterAssumption, Sizes
<1>2. e.expireAt \in (n + 1)..(n + WindowTicks)
  BY DEF BucketInv
<1>3. e.expireAt \in ((n + 1) + 1)..((n + 1) + WindowTicks)
  BY <1>1, <1>2
<1> QED
  BY <1>1, <1>3 DEF BucketInv

(* Nothing was granted: any refill pays for it.                             *)
LEMMA NothingToPay ==
  ASSUME WholeSeconds, NEW n \in Nat, NEW f \in 0..n, NEW d, d = 0
  PROVE  d * WindowSeconds <= Limit * (Sec(n) - Sec(f)) + LateRefill(Sec(n) - Sec(f))
<1> DEFINE x == Sec(n) - Sec(f)
<1>1. x \in Nat
  BY SecMonotone
<1> HIDE DEF x
<1>2. LateRefill(x) \in Nat
  BY <1>1, LateRefillFacts
<1>3. Limit * x \in Nat /\ d * WindowSeconds = 0
  BY <1>1, Sizes, SMT
<1>4. d * WindowSeconds <= Limit * x + LateRefill(x)
  BY <1>2, <1>3
<1> QED
  BY <1>4 DEF x

(* A bucket expires a window after its last grant.                          *)
LEMMA BucketExpires ==
  ASSUME WholeSeconds, NEW n \in 0..MaxTime, n < MaxTime, NEW h, IsHistory(h, MaxTime, n),
         NEW e, BucketInv(e, h, n), ~(e.expireAt > n + 1)
  PROVE  NoBucketInv(h, n + 1)
<1> DEFINE p == n + 1
           T == e.expireAt - WindowTicks
<1>1. /\ h[p + 1] = h[n + 1] /\ n \in Nat /\ p \in Nat /\ p \in Ticks(MaxTime) /\ p + 1 \in Ticks(MaxTime)
      /\ WindowTicks \in Nat \ {0} /\ WindowSeconds \in Nat \ {0} /\ Limit \in Nat /\ Lateness \in Nat
  BY HistoryTick, LimiterAssumption, Sizes DEF Ticks
<1>2. /\ e.expireAt \in (n + 1)..(n + WindowTicks) /\ T \in Nat
      /\ e.val.tokens \in 0..Limit /\ e.val.last \in 0..Sec(T)
  BY DEF BucketInv
<1>3. p = T + WindowTicks
  BY <1>1, <1>2
<1> HIDE DEF T, p
<1>4. Sec(p) = Sec(T) + WindowSeconds /\ Sec(T) \in Nat
  BY <1>2, <1>3, SecOfWindow, SecMonotone
<1> SUFFICES ASSUME NEW f \in 0..p
             PROVE  (h[p + 1] - h[f]) * WindowSeconds <= Limit * (Sec(p) - Sec(f)) + LateRefill(Sec(p) - Sec(f))
  BY DEF NoBucketInv, p
<1>5. f \in Nat /\ f \in Ticks(MaxTime)
  BY <1>1, LimiterAssumption DEF Ticks
<1>6. h[f] \in Nat /\ h[n + 1] \in Nat
  BY <1>1, <1>5, HistoryFacts, TickFacts
<1>7. CASE f > T
  <2>1. h[f] = h[n + 1]
    BY <1>5, <1>7 DEF BucketInv, T
  <2>2. h[p + 1] - h[f] = 0
    BY <1>1, <1>6, <2>1
  <2> QED
    BY <1>1, <2>2, NothingToPay
<1>8. CASE f <= T
  <2> DEFINE x == Sec(T) - Sec(f)
             tokens == e.val.tokens
             last == e.val.last
             d == h[n + 1] - h[f]
             l == Limit * Lateness
  <2>1. x \in Nat /\ Sec(f) \in Nat
    <3>1. Sec(f) \in Nat /\ Sec(T) \in Nat /\ Sec(f) <= Sec(T)
      BY <1>2, <1>5, <1>8, SecMonotone
    <3> QED
      BY <3>1
  <2>2. d * WindowSeconds <= (Limit - tokens) * WindowSeconds + Limit * (last - Sec(f)) + l + LateRefill(x)
    <3>1. f \in 0..T
      BY <1>2, <1>5, <1>8
    <3> QED
      BY <3>1 DEF BucketInv, T
  <2>3. tokens \in Nat /\ last \in Nat /\ last <= Sec(T) /\ d \in Int
    BY <1>1, <1>2, <1>4, <1>6
  <2>4. Sec(p) - Sec(f) = x + WindowSeconds
    BY <1>1, <1>4, <2>1
  <2> HIDE DEF x, tokens, last, d
  <2>5. LateRefill(x + WindowSeconds) = LateRefill(x) + l /\ LateRefill(x) \in Nat /\ l \in Nat
    BY <2>1, LateRefillFacts
  <2> HIDE DEF l
  <2>6. last - Sec(f) <= x /\ last - Sec(f) \in Int
    BY <1>4, <2>1, <2>3 DEF x
  <2> DEFINE z == last - Sec(f)
  <2> HIDE DEF z
  <2>7. Limit * z <= Limit * x /\ Limit * z \in Int /\ Limit * x \in Int
    BY <1>1, <2>1, <2>6, SMT DEF z
  <2>8. (Limit - tokens) * WindowSeconds = Limit * WindowSeconds - tokens * WindowSeconds
        /\ tokens * WindowSeconds \in Nat /\ Limit * WindowSeconds \in Nat
        /\ Limit * (x + WindowSeconds) = Limit * x + Limit * WindowSeconds /\ d * WindowSeconds \in Int
    BY <1>1, <2>1, <2>3, SMT
  <2>9. d * WindowSeconds <= Limit * (x + WindowSeconds) + LateRefill(x + WindowSeconds)
    BY <2>2, <2>5, <2>7, <2>8 DEF z
  <2> QED
    BY <1>1, <2>4, <2>9 DEF d
<1> QED
  BY <1>2, <1>5, <1>7, <1>8

(* Time passes over the lack of a bucket.                                   *)
LEMMA NoBucketTick ==
  ASSUME WholeSeconds, NEW n \in 0..MaxTime, n < MaxTime, NEW h, IsHistory(h, MaxTime, n), NoBucketInv(h, n)
  PROVE  NoBucketInv(h, n + 1)
<1> DEFINE p == n + 1
<1>1. /\ h[p + 1] = h[n + 1] /\ n \in Nat /\ p \in Nat /\ p \in Ticks(MaxTime) /\ n <= p
      /\ WindowSeconds \in Nat \ {0} /\ Limit \in Nat
  BY HistoryTick, LimiterAssumption, Sizes DEF Ticks
<1>2. h[p] \in Nat
  BY <1>1, HistoryFacts
<1> SUFFICES ASSUME NEW f \in 0..p
             PROVE  (h[p + 1] - h[f]) * WindowSeconds <= Limit * (Sec(p) - Sec(f)) + LateRefill(Sec(p) - Sec(f))
  BY DEF NoBucketInv
<1>3. CASE f = p
  <2>1. h[p + 1] - h[f] = 0
    BY <1>1, <1>2, <1>3
  <2> HIDE DEF p
  <2> QED
    BY <1>1, <2>1, NothingToPay
<1>4. CASE f # p
  <2>1. f \in 0..n /\ f \in Nat /\ f <= n
    BY <1>1, <1>4
  <2> HIDE DEF p
  <2>2. Sec(f) \in Nat /\ Sec(n) \in Nat /\ Sec(p) \in Nat /\ Sec(f) <= Sec(n) /\ Sec(n) <= Sec(p)
    BY <1>1, <2>1, SecMonotone
  <2> DEFINE x == Sec(n) - Sec(f)
             y == Sec(p) - Sec(f)
             dw == (h[n + 1] - h[f]) * WindowSeconds
  <2>3. x \in Nat /\ y \in Nat /\ x <= y
    BY <2>2
  <2>4. dw <= Limit * x + LateRefill(x)
    BY <2>1 DEF NoBucketInv
  <2> HIDE DEF x, y
  <2>5. LateRefill(x) \in Nat /\ LateRefill(y) \in Nat /\ LateRefill(x) <= LateRefill(y)
    BY <2>3, LateRefillFacts
  <2>6. Limit * x \in Nat /\ Limit * y \in Nat /\ Limit * x <= Limit * y
    BY <1>1, <2>3, SMT
  <2>7. dw \in Int
    <3>1. h[f] \in Nat /\ h[n + 1] \in Nat
      BY <2>1, HistoryFacts, TickFacts DEF Ticks
    <3> QED
      BY <1>1, <3>1, SMT
  <2> HIDE DEF dw
  <2>8. dw <= Limit * y + LateRefill(y)
    BY <2>4, <2>5, <2>6, <2>7
  <2> QED
    BY <1>1, <2>8 DEF dw, y
<1> QED
  BY <1>3, <1>4

(* A key that was granted nothing.                                          *)
LEMMA NoBucketAtFirst ==
  ASSUME WholeSeconds, NEW n \in 0..MaxTime
  PROVE  NoBucketInv(NoHistory(MaxTime), n)
<1> DEFINE h == NoHistory(MaxTime)
<1>1. n \in Nat /\ n + 1 \in Ticks(MaxTime) /\ (\A f \in 0..n : f \in Ticks(MaxTime)) /\ MaxTime \in Nat
  BY TickFacts DEF Ticks
<1>2. \A t \in Ticks(MaxTime) : h[t] = 0
  BY <1>1, NoHistoryIs
<1> HIDE DEF h
<1>3. ASSUME NEW f \in 0..n PROVE h[n + 1] - h[f] = 0
  BY <1>1, <1>2
<1>4. NoBucketInv(h, n)
  BY <1>1, <1>3, NothingToPay DEF NoBucketInv
<1> QED
  BY <1>4 DEF h

(* The shape of a bucket that a script leaves, and what it must pay for.    *)
LEMMA BucketLeft ==
  ASSUME WholeSeconds, NEW n \in 0..MaxTime, NEW g, IsHistory(g, MaxTime, n), NEW at \in 0..n,
         NEW v, v.expireAt = n + WindowTicks, v.val.tokens \in 0..Limit, v.val.last = Sec(at),
         \A f \in 0..n : (g[n + 1] - g[f]) * WindowSeconds <=
             (Limit - v.val.tokens) * WindowSeconds + Limit * (Sec(at) - Sec(f))
             + Limit * Lateness + LateRefill(Sec(n) - Sec(f))
  PROVE  BucketInv(v, g, n)
<1>1. n \in Nat /\ WindowTicks \in Nat \ {0} /\ at \in Nat /\ at <= n
  BY TickFacts, Sizes
<1>2. v.expireAt - WindowTicks = n /\ v.expireAt \in (n + 1)..(n + WindowTicks)
  BY <1>1
<1>3. Sec(at) \in 0..Sec(n)
  <2>1. Sec(at) \in Nat /\ Sec(n) \in Nat /\ Sec(at) <= Sec(n)
    BY <1>1, SecMonotone
  <2> QED
    BY <2>1
<1>4. \A t \in Ticks(MaxTime) : t > n => g[t] = g[n + 1]
  BY HistoryFacts
<1> QED
  BY <1>1, <1>2, <1>3, <1>4 DEF BucketInv

(* The seconds since f that a late call of tick n counts too few.           *)
LEMMA LateSeconds ==
  ASSUME WholeSeconds, NEW n \in Nat, NEW at \in 0..n, n - at <= MaxDelay, NEW f \in 0..n
  PROVE  /\ Limit * (Sec(n) - Sec(f)) <= Limit * (Sec(at) - Sec(f)) + Limit * Lateness
         /\ Limit * (Sec(n) - Sec(f)) \in Nat /\ Limit * (Sec(at) - Sec(f)) \in Int /\ Limit * Lateness \in Nat
<1>1. /\ Sec(at) \in Nat /\ Sec(n) \in Nat /\ Sec(f) \in Nat /\ Sec(f) <= Sec(n)
      /\ Limit \in Nat /\ Lateness \in Nat
  BY SecMonotone, Sizes
<1>2. Sec(n) <= Sec(at) + Lateness
  BY SecOfLate
<1> DEFINE x == Sec(n) - Sec(f)
           y == Sec(at) - Sec(f)
<1>3. x \in Nat /\ y \in Int /\ x <= y + Lateness
  BY <1>1, <1>2
<1> HIDE DEF x, y
<1>4. Limit * x <= Limit * (y + Lateness) /\ Limit * (y + Lateness) = Limit * y + Limit * Lateness
      /\ Limit * x \in Nat /\ Limit * y \in Int /\ Limit * Lateness \in Nat
  BY <1>1, <1>3, SMT
<1> QED
  BY <1>4 DEF x, y

(* A new bucket grants a, of which the caller is told b.                    *)
LEMMA FirstBucket ==
  ASSUME WholeSeconds, NEW n \in 0..MaxTime, NEW h, IsHistory(h, MaxTime, n), NoBucketInv(h, n),
         NEW a \in Nat, a <= Limit, NEW b \in Nat, b <= a, NEW at \in 0..n, n - at <= MaxDelay,
         NEW g, IsHistory(g, MaxTime, n), g[n + 1] = h[n + 1] + b, \A t \in Ticks(MaxTime) : t <= n => g[t] = h[t],
         NEW v, v.expireAt = n + WindowTicks, v.val.tokens = Limit - a, v.val.last = Sec(at)
  PROVE  BucketInv(v, g, n)
<1>1. /\ n \in Nat /\ n + 1 \in Ticks(MaxTime) /\ \A f \in 0..n : f \in Ticks(MaxTime) /\ f <= n /\ f \in Nat
      /\ Limit \in Nat /\ WindowSeconds \in Nat \ {0}
  BY TickFacts, Sizes DEF Ticks
<1>2. Limit - a \in 0..Limit
  BY <1>1
<1>3. ASSUME NEW f \in 0..n
      PROVE  (g[n + 1] - g[f]) * WindowSeconds <=
                 (Limit - (Limit - a)) * WindowSeconds + Limit * (Sec(at) - Sec(f))
                 + Limit * Lateness + LateRefill(Sec(n) - Sec(f))
  <2> DEFINE d == h[n + 1] - h[f]
             x == LateRefill(Sec(n) - Sec(f))
             y == Limit * (Sec(n) - Sec(f))
             z == Limit * (Sec(at) - Sec(f))
             l == Limit * Lateness
  <2>1. h[f] \in Nat /\ h[n + 1] \in Nat /\ g[f] = h[f]
    BY <1>1, HistoryFacts
  <2>2. g[n + 1] - g[f] = d + b /\ d \in Int
    BY <2>1
  <2>3. d * WindowSeconds <= y + x
    BY DEF NoBucketInv
  <2>4. y <= z + l /\ y \in Int /\ z \in Int /\ l \in Int
    BY <1>1, LateSeconds
  <2>5. x \in Int
    <3>1. Sec(n) - Sec(f) \in Nat
      <4>1. Sec(f) \in Nat /\ Sec(n) \in Nat /\ Sec(f) <= Sec(n)
        BY <1>1, SecMonotone
      <4> QED
        BY <4>1
    <3> QED
      BY <3>1, LateRefillFacts
  <2> HIDE DEF d, x, y, z, l
  <2>6. /\ (d + b) * WindowSeconds = d * WindowSeconds + b * WindowSeconds
        /\ (Limit - (Limit - a)) * WindowSeconds = a * WindowSeconds
        /\ b * WindowSeconds <= a * WindowSeconds
        /\ d * WindowSeconds \in Int /\ b * WindowSeconds \in Int /\ a * WindowSeconds \in Int
    BY <1>1, <2>2, SMT
  <2>7. (d + b) * WindowSeconds <= (Limit - (Limit - a)) * WindowSeconds + z + l + x
    BY <2>3, <2>4, <2>5, <2>6
  <2> QED
    BY <2>2, <2>7 DEF z, l, x
<1> QED
  BY <1>1, <1>2, <1>3, BucketLeft

(* A bucket with the tokens F grants a, of which the caller is told b.      *)
LEMMA LaterBucket ==
  ASSUME WholeSeconds, NEW n \in 0..MaxTime, NEW h, IsHistory(h, MaxTime, n), NEW e, BucketInv(e, h, n),
         NEW a \in Nat, NEW b \in Nat, b <= a, NEW at \in 0..n, n - at <= MaxDelay,
         NEW g, IsHistory(g, MaxTime, n), g[n + 1] = h[n + 1] + b, \A t \in Ticks(MaxTime) : t <= n => g[t] = h[t],
         NEW F \in Int, F * WindowSeconds <= (Sec(at) - e.val.last) * Limit,
         NEW tokens \in Nat, tokens + a <= e.val.tokens + F, tokens + a <= Limit,
         NEW v, v.expireAt = n + WindowTicks, v.val.tokens = tokens, v.val.last = Sec(at)
  PROVE  BucketInv(v, g, n)
<1> DEFINE T == e.expireAt - WindowTicks
<1>1. /\ n \in Nat /\ n + 1 \in Ticks(MaxTime) /\ \A f \in 0..n : f \in Ticks(MaxTime) /\ f <= n /\ f \in Nat
      /\ Limit \in Nat /\ WindowSeconds \in Nat \ {0} /\ WindowTicks \in Nat
  BY TickFacts, Sizes DEF Ticks
<1>2. /\ T \in Nat /\ e.expireAt \in (n + 1)..(n + WindowTicks)
      /\ e.val.tokens \in 0..Limit /\ e.val.last \in 0..Sec(T)
  BY DEF BucketInv
<1>3. T <= n
  BY <1>1, <1>2
<1> HIDE DEF T
<1>4. Sec(T) \in Nat /\ Sec(n) \in Nat /\ Sec(T) <= Sec(n) /\ Sec(at) \in Nat
  BY <1>1, <1>2, <1>3, SecMonotone
<1>5. tokens \in 0..Limit
  BY <1>1
<1>6. ASSUME NEW f \in 0..n
      PROVE  (g[n + 1] - g[f]) * WindowSeconds <=
                 (Limit - tokens) * WindowSeconds + Limit * (Sec(at) - Sec(f))
                 + Limit * Lateness + LateRefill(Sec(n) - Sec(f))
  <2> DEFINE d == h[n + 1] - h[f]
             l == Limit * Lateness
             y == LateRefill(Sec(n) - Sec(f))
  <2>1. h[f] \in Nat /\ h[n + 1] \in Nat /\ g[f] = h[f]
    BY <1>1, HistoryFacts
  <2>2. g[n + 1] - g[f] = d + b /\ d \in Int
    BY <2>1
  <2>3. Sec(f) \in Nat /\ Sec(f) <= Sec(n)
    BY <1>1, SecMonotone
  <2>4. Sec(n) - Sec(f) \in Nat
    BY <1>4, <2>3
  <2>5. y \in Nat /\ l \in Nat
    BY <2>4, LateRefillFacts
  <2>6. CASE f <= T
    <3> DEFINE x == LateRefill(Sec(T) - Sec(f))
               before == e.val.tokens
               last == e.val.last
               s == Sec(f)
               u == Sec(at)
    <3>1. f \in 0..T
      BY <1>1, <1>2, <2>6
    <3>2. d * WindowSeconds <= (Limit - before) * WindowSeconds + Limit * (last - s) + l + x
      BY <3>1 DEF BucketInv, T
    <3>3. Sec(T) - Sec(f) \in Nat /\ Sec(T) - Sec(f) <= Sec(n) - Sec(f)
      <4>1. Sec(f) <= Sec(T)
        BY <1>1, <1>2, <2>6, SecMonotone
      <4> QED
        BY <1>4, <2>3, <4>1
    <3>4. x \in Nat /\ x <= y
      BY <2>4, <3>3, LateRefillFacts
    <3>5. before \in Int /\ last \in Int /\ s \in Int /\ u \in Int
      BY <1>1, <1>2, <1>4, <2>3
    <3>6. F * WindowSeconds <= (u - last) * Limit /\ tokens + a <= before + F
      OBVIOUS
    <3> HIDE DEF d, x, y, l, before, last, s, u
    <3>7. l + x \in Int /\ l + y \in Int /\ l + x <= l + y
      BY <2>5, <3>4
    <3>8. Limit * (last - s) \in Int /\ (Limit - before) * WindowSeconds \in Int
      BY <1>1, <3>5, SMT
    <3>9. d * WindowSeconds <= (Limit - before) * WindowSeconds + Limit * (last - s) + (l + x)
      BY <2>5, <3>2, <3>4, <3>8
    <3>10. (d + b) * WindowSeconds <= (Limit - tokens) * WindowSeconds + Limit * (u - s) + (l + y)
      BY <1>1, <2>2, <3>5, <3>6, <3>7, <3>9, PaidByTokens
    <3>11. (Limit - tokens) * WindowSeconds \in Int /\ Limit * (u - s) \in Int
      BY <1>1, <3>5, SMT
    <3>12. (d + b) * WindowSeconds <= (Limit - tokens) * WindowSeconds + Limit * (u - s) + l + y
      BY <2>5, <3>10, <3>11
    <3> QED
      BY <2>2, <3>12 DEF u, s, l, y
  <2>7. CASE f > T
    <3> DEFINE z == Limit * (Sec(at) - Sec(f))
               w == Limit * (Sec(n) - Sec(f))
    <3>1. d = 0
      <4>1. h[f] = h[n + 1]
        BY <1>1, <2>7 DEF BucketInv, T
      <4> QED
        BY <2>1, <4>1
    <3>2. w <= z + l /\ w \in Nat /\ z \in Int
      BY <1>1, LateSeconds
    <3>3. (d + b) * WindowSeconds <= (Limit - tokens) * WindowSeconds
      <4> DEFINE r == Limit - tokens
      <4>1. r \in Int /\ b <= r /\ d + b = b
        BY <1>1, <3>1
      <4> HIDE DEF r, d
      <4>2. b * WindowSeconds <= r * WindowSeconds
        BY <1>1, <4>1, SMT
      <4> QED
        BY <4>1, <4>2 DEF r
    <3>4. (d + b) * WindowSeconds \in Int /\ (Limit - tokens) * WindowSeconds \in Int
      BY <1>1, <2>2, SMT
    <3> HIDE DEF d, z, w, l, y
    <3>5. (d + b) * WindowSeconds <= (Limit - tokens) * WindowSeconds + z + l + y
      BY <2>5, <3>2, <3>3, <3>4
    <3> QED
      BY <2>2, <3>5 DEF z, l, y
  <2> QED
    BY <1>1, <1>2, <2>6, <2>7
<1> QED
  BY <1>5, <1>6, BucketLeft

(* What LimitHolds promises since tick f.                                   *)
LEMMA Promise ==
  ASSUME WholeSeconds, NEW s \in Nat
  PROVE  /\ Limit * (WindowSeconds + s + Lateness * (1 + s \div WindowSeconds))
                = Limit * WindowSeconds + Limit * s + Limit * Lateness + LateRefill(s)
         /\ Limit * WindowSeconds \in Nat /\ Limit * s \in Nat /\ Limit * Lateness \in Nat /\ LateRefill(s) \in Nat
<1>1. Limit \in Nat /\ WindowSeconds \in Nat \ {0} /\ Lateness \in Nat
  BY Sizes
<1> DEFINE q == s \div WindowSeconds
<1>2. q \in Nat
  BY <1>1, Division
<1> HIDE DEF q
<1>3. Limit * (WindowSeconds + s + Lateness * (1 + q))
          = Limit * WindowSeconds + Limit * s + Limit * Lateness + Limit * (Lateness * q)
  BY <1>1, <1>2, SMT
<1>4. Limit * WindowSeconds \in Nat /\ Limit * s \in Nat
  BY <1>1, SMT
<1> QED
  BY <1>3, <1>4, LateRefillFacts DEF q, LateRefill

(* A bucket keeps the promise.                                              *)
LEMMA BucketBound ==
  ASSUME WholeSeconds, NEW n \in 0..MaxTime, NEW h, IsHistory(h, MaxTime, n), NEW e, BucketInv(e, h, n),
         NEW f \in 0..n
  PROVE  (h[n + 1] - h[f]) * WindowSeconds <=
             Limit * WindowSeconds + Limit * (Sec(n) - Sec(f)) + Limit * Lateness + LateRefill(Sec(n) - Sec(f))
<1> DEFINE T == e.expireAt - WindowTicks
           d == h[n + 1] - h[f]
           y == Sec(n) - Sec(f)
           l == Limit * Lateness
<1>1. /\ n \in Nat /\ n + 1 \in Ticks(MaxTime) /\ f \in Ticks(MaxTime) /\ f <= n /\ f \in Nat
      /\ Limit \in Nat /\ WindowSeconds \in Nat \ {0} /\ WindowTicks \in Nat
  BY TickFacts, Sizes DEF Ticks
<1>2. /\ T \in Nat /\ e.expireAt \in (n + 1)..(n + WindowTicks)
      /\ e.val.tokens \in 0..Limit /\ e.val.last \in 0..Sec(T)
  BY DEF BucketInv
<1>3. T <= n
  BY <1>1, <1>2
<1> HIDE DEF T
<1>4. /\ Sec(T) \in Nat /\ Sec(n) \in Nat /\ Sec(f) \in Nat /\ Sec(T) <= Sec(n) /\ Sec(f) <= Sec(n)
  BY <1>1, <1>2, <1>3, SecMonotone
<1>5. d \in Int
  <2>1. h[f] \in Nat /\ h[n + 1] \in Nat
    BY <1>1, HistoryFacts
  <2> QED
    BY <2>1
<1>6. y \in Nat
  BY <1>4
<1>7. /\ Limit * WindowSeconds \in Nat /\ Limit * y \in Nat /\ l \in Nat /\ LateRefill(y) \in Nat
  BY <1>6, Promise
<1>8. CASE f > T
  <2>1. h[f] = h[n + 1] /\ h[f] \in Nat
    BY <1>1, <1>8, HistoryFacts DEF BucketInv, T
  <2>2. d * WindowSeconds = 0
    BY <1>1, <2>1
  <2> HIDE DEF d, y, l
  <2>3. d * WindowSeconds <= Limit * WindowSeconds + Limit * y + l + LateRefill(y)
    BY <1>7, <2>2
  <2> QED
    BY <2>3 DEF d, y, l
<1>9. CASE f <= T
  <2> DEFINE x == Sec(T) - Sec(f)
             z == e.val.last - Sec(f)
             r == Limit - e.val.tokens
  <2>1. Sec(f) <= Sec(T)
    BY <1>1, <1>2, <1>9, SecMonotone
  <2>2. x \in Nat /\ x <= y /\ z \in Int /\ z <= y /\ r \in Int /\ r <= Limit
    BY <1>1, <1>2, <1>4, <2>1
  <2>3. d * WindowSeconds <= r * WindowSeconds + Limit * z + l + LateRefill(x)
    <3>1. f \in 0..T
      BY <1>1, <1>2, <1>9
    <3> QED
      BY <3>1 DEF BucketInv, T
  <2> HIDE DEF d, l, x, y, z, r
  <2>4. LateRefill(x) \in Nat /\ LateRefill(x) <= LateRefill(y)
    BY <1>6, <2>2, LateRefillFacts
  <2>5. /\ r * WindowSeconds <= Limit * WindowSeconds /\ Limit * z <= Limit * y
        /\ r * WindowSeconds \in Int /\ Limit * z \in Int /\ d * WindowSeconds \in Int
    BY <1>1, <1>5, <1>6, <2>2, SMT
  <2>6. d * WindowSeconds <= Limit * WindowSeconds + Limit * y + l + LateRefill(y)
    BY <1>7, <2>3, <2>4, <2>5
  <2> QED
    BY <2>6 DEF d, y, l
<1> QED
  BY <1>1, <1>2, <1>8, <1>9

(* So does the lack of one.                                                 *)
LEMMA NoBucketBound ==
  ASSUME WholeSeconds, NEW n \in 0..MaxTime, NEW h, IsHistory(h, MaxTime, n), NoBucketInv(h, n), NEW f \in 0..n
  PROVE  (h[n + 1] - h[f]) * WindowSeconds <=
             Limit * WindowSeconds + Limit * (Sec(n) - Sec(f)) + Limit * Lateness + LateRefill(Sec(n) - Sec(f))
<1> DEFINE dw == (h[n + 1] - h[f]) * WindowSeconds
           y == Sec(n) - Sec(f)
<1>1. /\ n \in Nat /\ n + 1 \in Ticks(MaxTime) /\ f \in Ticks(MaxTime) /\ f <= n /\ f \in Nat
      /\ WindowSeconds \in Nat \ {0}
  BY TickFacts, Sizes DEF Ticks
<1>2. y \in Nat
  <2>1. Sec(f) \in Nat /\ Sec(n) \in Nat /\ Sec(f) <= Sec(n)
    BY <1>1, SecMonotone
  <2> QED
    BY <2>1
<1>3. dw <= Limit * y + LateRefill(y)
  BY DEF NoBucketInv
<1>4. dw \in Int
  <2>1. h[f] \in Nat /\ h[n + 1] \in Nat
    BY <1>1, HistoryFacts
  <2> QED
    BY <1>1, <2>1, SMT
<1> HIDE DEF dw, y
<1>5. /\ Limit * WindowSeconds \in Nat /\ Limit * y \in Nat /\ Limit * Lateness \in Nat /\ LateRefill(y) \in Nat
  BY <1>2, Promise
<1>6. dw <= Limit * WindowSeconds + Limit * y + Limit * Lateness + LateRefill(y)
  BY <1>3, <1>4, <1>5
<1> QED
  BY <1>6 DEF dw, y

-----------------------------------------------------------------------------
(* The fixed window of a key.                                              *)

(* Time passes over a window that does not expire.                          *)
LEMMA FixedTick ==
  ASSUME WholeSeconds, NEW n \in 0..MaxTime, n < MaxTime, NEW h, IsHistory(h, MaxTime, n),
         NEW e, FixedInv(e, h, n), e.expireAt > n + 1
  PROVE  FixedInv(e, h, n + 1)
<1>1. h[(n + 1) + 1] = h[n + 1] /\ n \in Nat /\ WindowTicks \in Nat
  BY HistoryTick, LimiterAssumption, Sizes
<1>2. e.expireAt \in (n + 1)..(n + WindowTicks)
  BY DEF FixedInv
<1>3. e.expireAt \in ((n + 1) + 1)..((n + 1) + WindowTicks)
  BY <1>1, <1>2
<1> QED
  BY <1>1, <1>3 DEF FixedInv

(* A window expires: it is the last one.                                    *)
LEMMA FixedExpires ==
  ASSUME WholeSeconds, NEW n \in 0..MaxTime, n < MaxTime, NEW h, IsHistory(h, MaxTime, n),
         NEW e, FixedInv(e, h, n), ~(e.expireAt > n + 1)
  PROVE  NoFixedInv(h, n + 1)
<1> DEFINE p == n + 1
           s == e.expireAt - WindowTicks
<1>1. h[p + 1] = h[n + 1] /\ n \in Nat /\ WindowTicks \in Nat /\ Limit \in Nat
  BY HistoryTick, LimiterAssumption, Sizes
<1>2. e.expireAt \in (n + 1)..(n + WindowTicks) /\ s \in Nat /\ e.val \in 1..Limit /\ e.val >= h[n + 1] - h[s]
  BY DEF FixedInv
<1>3. e.expireAt = p
  BY <1>1, <1>2
<1>4. FromZero(p - WindowTicks) = s /\ s <= n + 1
  BY <1>1, <1>2, <1>3 DEF FromZero
<1> HIDE DEF s
<1>5. s \in Ticks(MaxTime) /\ n + 1 \in Ticks(MaxTime)
  BY <1>1, <1>2, <1>4, TickFacts DEF Ticks
<1>6. h[s] \in Nat /\ h[n + 1] \in Nat
  BY <1>5, HistoryFacts
<1> HIDE DEF p
<1>7. h[p + 1] - h[s] <= Limit
  BY <1>1, <1>2, <1>6
<1>8. NoFixedInv(h, p)
  BY <1>1, <1>4, <1>7 DEF NoFixedInv, p
<1> QED
  BY <1>8 DEF p

(* Time passes over the lack of a window.                                   *)
LEMMA NoFixedTick ==
  ASSUME WholeSeconds, NEW n \in 0..MaxTime, n < MaxTime, NEW h, IsHistory(h, MaxTime, n), NoFixedInv(h, n)
  PROVE  NoFixedInv(h, n + 1)
<1> DEFINE p == n + 1
           a == FromZero(n - WindowTicks)
           b == FromZero(p - WindowTicks)
<1>1. h[p + 1] = h[n + 1] /\ n \in Nat /\ WindowTicks \in Nat \ {0} /\ Limit \in Nat
  BY HistoryTick, LimiterAssumption, Sizes
<1>2. a \in Ticks(MaxTime) /\ b \in Ticks(MaxTime) /\ a <= b /\ n + 1 \in Ticks(MaxTime)
  BY <1>1, TickFacts DEF Ticks, FromZero
<1>3. h[n + 1] - h[a] <= Limit
  BY DEF NoFixedInv
<1> HIDE DEF a, b, p
<1>4. h[a] \in Nat /\ h[b] \in Nat /\ h[n + 1] \in Nat /\ h[a] <= h[b]
  BY <1>2, HistoryFacts
<1>5. h[p + 1] - h[b] <= Limit
  BY <1>1, <1>3, <1>4
<1>6. NoFixedInv(h, p)
  BY <1>1, <1>5 DEF NoFixedInv, p, b
<1> QED
  BY <1>6 DEF p

(* The first request of a window, of which the caller is told b.            *)
LEMMA FirstFixed ==
  ASSUME WholeSeconds, NEW n \in 0..MaxTime, NEW h, IsHistory(h, MaxTime, n), NoFixedInv(h, n),
         NEW a \in Nat \ {0}, a <= Limit, NEW b \in Nat, b <= a,
         NEW g, g[n + 1] = h[n + 1] + b, \A t \in Ticks(MaxTime) : t <= n => g[t] = h[t],
         NEW v, v = [val |-> a, expireAt |-> n + WindowTicks]
  PROVE  FixedInv(v, g, n)
<1> DEFINE c == FromZero(n - WindowTicks)
<1>1. /\ n \in Nat /\ WindowTicks \in Nat \ {0} /\ n + 1 \in Ticks(MaxTime) /\ n \in Ticks(MaxTime) /\ MaxTime \in Nat
      /\ Limit \in Nat /\ n <= n
  BY TickFacts, Sizes
<1>2. c \in Ticks(MaxTime) /\ c <= n
  BY <1>1 DEF Ticks, FromZero
<1>3. h[n + 1] = h[n] /\ h[n + 1] - h[c] <= Limit
  BY DEF NoFixedInv
<1>4. v.expireAt - WindowTicks = n /\ v.expireAt \in (n + 1)..(n + WindowTicks) /\ v.val \in 1..Limit
  BY <1>1
<1> HIDE DEF c
<1>5. h[n] \in Nat /\ g[n] = h[n] /\ g[c] = h[c] /\ h[c] \in Nat
  BY <1>1, <1>2, HistoryFacts
<1>6. v.val >= g[n + 1] - g[n] /\ g[n] - g[c] <= Limit
  BY <1>1, <1>3, <1>5
<1> QED
  BY <1>1, <1>4, <1>6 DEF FixedInv, c

(* A later request in the window e, of which the caller is told b.          *)
LEMMA LaterFixed ==
  ASSUME WholeSeconds, NEW n \in 0..MaxTime, NEW h, IsHistory(h, MaxTime, n), NEW e, FixedInv(e, h, n),
         NEW a \in Nat, e.val + a <= Limit, NEW b \in Nat, b <= a,
         NEW g, g[n + 1] = h[n + 1] + b, \A t \in Ticks(MaxTime) : t <= n => g[t] = h[t],
         NEW v, v = [val |-> e.val + a, expireAt |-> e.expireAt]
  PROVE  FixedInv(v, g, n)
<1> DEFINE s == e.expireAt - WindowTicks
           c == FromZero(s - WindowTicks)
<1>1. /\ n \in Nat /\ WindowTicks \in Nat \ {0} /\ n + 1 \in Ticks(MaxTime) /\ n \in Ticks(MaxTime) /\ MaxTime \in Nat
      /\ Limit \in Nat
  BY TickFacts, Sizes
<1>2. /\ e.expireAt \in (n + 1)..(n + WindowTicks) /\ s \in Nat /\ e.val \in 1..Limit /\ e.val >= h[n + 1] - h[s]
      /\ h[s] - h[c] <= Limit
  BY DEF FixedInv
<1>3. s <= n /\ v.expireAt - WindowTicks = s
  BY <1>1, <1>2
<1> HIDE DEF s
<1>4. s \in Ticks(MaxTime) /\ c \in Ticks(MaxTime) /\ c <= n
  BY <1>1, <1>2, <1>3 DEF Ticks, FromZero
<1>5. g[s] = h[s] /\ g[c] = h[c] /\ h[s] \in Nat /\ h[n + 1] \in Nat
  BY <1>1, <1>3, <1>4, HistoryFacts
<1> HIDE DEF c
<1>6. v.val >= g[n + 1] - g[s] /\ g[s] - g[c] <= Limit /\ v.val \in 1..Limit
  BY <1>1, <1>2, <1>5
<1> QED
  BY <1>2, <1>3, <1>6 DEF FixedInv, c

(* Two windows cover a stretch of time that is as long as one.             *)
LEMMA FixedBound ==
  ASSUME WholeSeconds, NEW n \in 0..MaxTime, NEW h, IsHistory(h, MaxTime, n), NEW e, FixedInv(e, h, n)
  PROVE  h[n + 1] - h[FromZero(n - WindowTicks + 1)] <= 2 * Limit
<1> DEFINE s == e.expireAt - WindowTicks
           a == FromZero(n - WindowTicks + 1)
           c == FromZero(s - WindowTicks)
<1>1. /\ n \in Nat /\ WindowTicks \in Nat \ {0} /\ n + 1 \in Ticks(MaxTime) /\ MaxTime \in Nat /\ Limit \in Nat
  BY TickFacts, Sizes
<1>2. /\ e.expireAt \in (n + 1)..(n + WindowTicks) /\ s \in Nat /\ e.val \in 1..Limit /\ e.val >= h[n + 1] - h[s]
      /\ h[s] - h[c] <= Limit
  BY DEF FixedInv
<1>3. s <= n
  BY <1>1, <1>2
<1> HIDE DEF s
<1>4. s \in Ticks(MaxTime) /\ c \in Ticks(MaxTime) /\ a \in Ticks(MaxTime) /\ c <= a
  BY <1>1, <1>2, <1>3 DEF Ticks, FromZero
<1> HIDE DEF a, c
<1>5. h[s] \in Nat /\ h[n + 1] \in Nat /\ h[a] \in Nat /\ h[c] \in Nat /\ h[c] <= h[a]
  BY <1>1, <1>4, HistoryFacts
<1>6. h[n + 1] - h[a] <= 2 * Limit
  BY <1>1, <1>2, <1>5
<1> QED
  BY <1>6 DEF a

(* Without a window, the last one was within the limit.                     *)
LEMMA NoFixedBound ==
  ASSUME WholeSeconds, NEW n \in 0..MaxTime, NEW h, IsHistory(h, MaxTime, n), NoFixedInv(h, n)
  PROVE  h[n + 1] - h[FromZero(n - WindowTicks + 1)] <= 2 * Limit
<1> DEFINE a == FromZero(n - WindowTicks + 1)
           c == FromZero(n - WindowTicks)
<1>1. n \in Nat /\ WindowTicks \in Nat \ {0} /\ n + 1 \in Ticks(MaxTime) /\ MaxTime \in Nat /\ Limit \in Nat
  BY TickFacts, Sizes
<1>2. h[n + 1] - h[c] <= Limit
  BY DEF NoFixedInv
<1>3. c \in Ticks(MaxTime) /\ a \in Ticks(MaxTime) /\ c <= a
  BY <1>1 DEF Ticks, FromZero
<1> HIDE DEF a, c
<1>4. h[n + 1] \in Nat /\ h[a] \in Nat /\ h[c] \in Nat /\ h[c] <= h[a]
  BY <1>1, <1>3, HistoryFacts
<1>5. h[n + 1] - h[a] <= 2 * Limit
  BY <1>1, <1>2, <1>4
<1> QED
  BY <1>5 DEF a

(* A key that was granted nothing.                                          *)
LEMMA NoFixedAtFirst ==
  ASSUME WholeSeconds, NEW n \in 0..MaxTime
  PROVE  NoFixedInv(NoHistory(MaxTime), n)
<1> DEFINE h == NoHistory(MaxTime)
<1>1. /\ n \in Nat /\ n + 1 \in Ticks(MaxTime) /\ n \in Ticks(MaxTime) /\ MaxTime \in Nat
      /\ WindowTicks \in Nat /\ Limit \in Nat
  BY TickFacts, Sizes
<1>2. FromZero(n - WindowTicks) \in Ticks(MaxTime)
  BY <1>1 DEF Ticks, FromZero
<1>3. \A t \in Ticks(MaxTime) : h[t] = 0
  BY <1>1, NoHistoryIs
<1> HIDE DEF h
<1>4. h[n + 1] = 0 /\ h[n] = 0 /\ h[FromZero(n - WindowTicks)] = 0
  BY <1>1, <1>2, <1>3, Zenon
<1>5. NoFixedInv(h, n)
  BY <1>1, <1>4 DEF NoFixedInv
<1> QED
  BY <1>5 DEF h

-----------------------------------------------------------------------------
(* The sorted set of a key.                                                *)

Batch(at, n) == {<<at, i>> : i \in 1..n}

(* The members of one call: as many as it asks for.                         *)
LEMMA BatchSize ==
  ASSUME NEW at, NEW n \in Nat
  PROVE  IsFiniteSet(Batch(at, n)) /\ Cardinality(Batch(at, n)) = n
<1> DEFINE B == Batch(at, n)
           f == [i \in 1..n |-> <<at, i>>]
<1>1. IsFiniteSet(1..n) /\ Cardinality(1..n) = n
  BY FS_Interval
<1>2. f \in Surjection(1..n, B)
  BY DEF Surjection, Batch
<1>3. f \in Injection(1..n, B)
  <2>1. f \in [1..n -> B] /\ \A i, j \in 1..n : f[i] = f[j] => i = j
    BY DEF Batch
  <2> QED
    BY <2>1 DEF Injection, IsInjective
<1> QED
  BY <1>1, <1>2, <1>3, FS_Surjection

(* Members counted are members.                                             *)
LEMMA CountedFacts ==
  ASSUME NEW S, IsFiniteSet(S), NEW F, NEW c
  PROVE  /\ Counted(S, F, c) \in SUBSET S /\ IsFiniteSet(Counted(S, F, c))
         /\ Cardinality(Counted(S, F, c)) \in Nat /\ Cardinality(Counted(S, F, c)) <= Cardinality(S)
<1>1. Counted(S, F, c) \in SUBSET S
  BY DEF Counted
<1> QED
  BY <1>1, FS_Subset, FS_CardinalityType

(* Time passes over members.                                                *)
LEMMA MembersTick ==
  ASSUME WholeSeconds, NEW n \in 0..MaxTime, n < MaxTime, NEW h, IsHistory(h, MaxTime, n),
         NEW S, NEW F, MembersInv(S, F, h, n)
  PROVE  MembersInv(S, F, h, n + 1)
<1> DEFINE p == n + 1
<1>1. h[p + 1] = h[n + 1] /\ n \in Nat /\ MaxDelay \in Nat /\ WindowTicks \in Nat
  BY HistoryTick, LimiterAssumption, Sizes
<1>2. S \subseteq (0..n) \X (1..Limit) /\ IsFiniteSet(S) /\ Cardinality(S) <= Limit
  BY DEF MembersInv
<1>3. S \subseteq (0..p) \X (1..Limit)
  <2>1. 0..n \subseteq 0..p
    BY <1>1
  <2> HIDE DEF p
  <2> QED
    BY <1>2, <2>1
<1>4. h[n + 1] \in Nat
  BY HistoryFacts, TickFacts
<1>5. ASSUME NEW c \in (p - WindowTicks + MaxDelay)..p
      PROVE  h[p + 1] - h[FromZero(c + 1)] <= Cardinality(Counted(S, F, c - MaxDelay))
  <2>1. CASE c <= n
    <3>1. c \in (n - WindowTicks + MaxDelay)..n
      BY <1>1, <2>1
    <3> QED
      BY <1>1, <3>1 DEF MembersInv
  <2>2. CASE c = p
    <3>1. FromZero(c + 1) = p + 1
      BY <1>1, <2>2 DEF FromZero
    <3>2. Cardinality(Counted(S, F, c - MaxDelay)) \in Nat
      BY <1>2, CountedFacts
    <3> QED
      BY <1>1, <1>4, <3>1, <3>2
  <2> QED
    BY <1>1, <2>1, <2>2
<1> HIDE DEF p
<1>6. MembersInv(S, F, h, p)
  BY <1>2, <1>3, <1>5 DEF MembersInv
<1> QED
  BY <1>6 DEF p

(* No members: nothing was granted in the last window.                      *)
LEMMA NoMembers ==
  ASSUME WholeSeconds, NEW n \in 0..MaxTime, NEW h, IsHistory(h, MaxTime, n), NEW F,
         \A t \in Ticks(MaxTime) : t > n - 2 * WindowTicks => h[t] = h[n + 1]
  PROVE  MembersInv({}, F, h, n)
<1>1. /\ n \in Nat /\ n + 1 \in Ticks(MaxTime) /\ MaxTime \in Nat
      /\ MaxDelay \in Nat /\ WindowTicks \in Nat /\ Limit \in Nat
  BY TickFacts, Sizes
<1>2. IsFiniteSet({}) /\ Cardinality({}) = 0 /\ \A c : Counted({}, F, c) = {}
  BY FS_EmptySet DEF Counted
<1>3. ASSUME NEW c \in (n - WindowTicks + MaxDelay)..n PROVE h[n + 1] - h[FromZero(c + 1)] <= 0
  <2> DEFINE b == FromZero(c + 1)
  <2>1. b \in Ticks(MaxTime) /\ b > n - 2 * WindowTicks
    BY <1>1 DEF Ticks, FromZero
  <2> HIDE DEF b
  <2>2. h[b] = h[n + 1] /\ h[n + 1] \in Nat
    BY <1>1, <2>1, HistoryFacts
  <2>3. h[n + 1] - h[b] <= 0
    BY <2>2
  <2> QED
    BY <2>3 DEF b
<1>4. Cardinality({}) <= Limit /\ {} \subseteq (0..n) \X (1..Limit)
  BY <1>1, <1>2
<1>5. \A c \in (n - WindowTicks + MaxDelay)..n :
         h[n + 1] - h[FromZero(c + 1)] <= Cardinality(Counted({}, F, c - MaxDelay))
  BY <1>2, <1>3
<1> QED
  BY <1>2, <1>4, <1>5 DEF MembersInv

(* Members that are not counted can be removed.                             *)
LEMMA NewerCounted ==
  ASSUME NEW n \in Nat, NEW S, S \subseteq (0..n) \X (1..Limit), NEW F, NEW a \in Int, NEW c \in Int, a <= c
  PROVE  Counted(Newer(S, a), F, c) = Counted(S, F, c)
<1>1. \A m \in S : m[1] \in Int
  OBVIOUS
<1> QED
  BY <1>1 DEF Counted, Newer

(* Members too old to count are removed, and calls end without a grant.     *)
LEMMA TrimmedInv ==
  ASSUME WholeSeconds, NEW n \in 0..MaxTime, NEW h, IsHistory(h, MaxTime, n),
         NEW S, NEW F, MembersInv(S, F, h, n), NEW at \in Int, at <= n, NEW G, G \subseteq F
  PROVE  MembersInv(Newer(S, at - WindowTicks), G, h, n)
<1> DEFINE V == Newer(S, at - WindowTicks)
<1>1. n \in Nat /\ MaxDelay \in Nat /\ WindowTicks \in Nat /\ Limit \in Nat
  BY TickFacts, Sizes
<1>2. S \subseteq (0..n) \X (1..Limit) /\ IsFiniteSet(S) /\ Cardinality(S) <= Limit /\ V \in SUBSET S
  BY DEF MembersInv, Newer
<1>3. IsFiniteSet(V) /\ Cardinality(V) <= Cardinality(S) /\ Cardinality(V) \in Nat /\ Cardinality(S) \in Nat
  BY <1>2, FS_Subset, FS_CardinalityType
<1>4. ASSUME NEW c \in (n - WindowTicks + MaxDelay)..n
      PROVE  Counted(V, F, c - MaxDelay) = Counted(S, F, c - MaxDelay)
  <2>1. at - WindowTicks \in Int /\ c - MaxDelay \in Int /\ at - WindowTicks <= c - MaxDelay
    BY <1>1
  <2> QED
    BY <1>1, <1>2, <2>1, NewerCounted
<1>5. ASSUME NEW c \in (n - WindowTicks + MaxDelay)..n
      PROVE  h[n + 1] - h[FromZero(c + 1)] <= Cardinality(Counted(V, G, c - MaxDelay))
  <2> DEFINE x == c - MaxDelay
             b == FromZero(c + 1)
  <2>1. Counted(V, F, x) \subseteq Counted(V, G, x)
    BY DEF Counted
  <2>2. IsFiniteSet(Counted(V, G, x)) /\ Cardinality(Counted(V, G, x)) \in Nat /\ Cardinality(Counted(V, F, x)) \in Nat
    <3> HIDE DEF V
    <3> QED
      BY <1>3, CountedFacts
  <2>3. Cardinality(Counted(V, F, x)) <= Cardinality(Counted(V, G, x))
    BY <2>1, <2>2, FS_Subset
  <2>4. h[n + 1] - h[b] <= Cardinality(Counted(S, F, x))
    BY DEF MembersInv
  <2>5. h[n + 1] \in Nat /\ h[b] \in Nat
    <3>1. b \in Ticks(MaxTime) /\ n + 1 \in Ticks(MaxTime)
      BY <1>1, TickFacts DEF Ticks, FromZero
    <3> QED
      BY <3>1, HistoryFacts
  <2>6. Counted(V, F, x) = Counted(S, F, x)
    BY <1>4
  <2> HIDE DEF b, x, V
  <2>7. h[n + 1] - h[b] <= Cardinality(Counted(V, G, x))
    BY <2>2, <2>3, <2>4, <2>5, <2>6
  <2> QED
    BY <2>7 DEF b, x
<1> HIDE DEF V
<1>6. V \subseteq (0..n) \X (1..Limit) /\ Cardinality(V) <= Limit
  BY <1>1, <1>2, <1>3
<1>7. MembersInv(V, G, h, n)
  BY <1>3, <1>5, <1>6 DEF MembersInv
<1> QED
  BY <1>7 DEF V

(* A script adds a members for the reading `at` of its call.  The caller is *)
(* told of all of them, and the call ends, or of none, and it goes on.     *)
LEMMA AddedInv ==
  ASSUME WholeSeconds, NEW n \in 0..MaxTime, NEW h, IsHistory(h, MaxTime, n),
         NEW S, NEW F, MembersInv(S, F, h, n), NEW at \in 0..n, n - at <= MaxDelay, at \in F,
         NEW a \in Nat, Cardinality(Newer(S, at - WindowTicks)) + a <= Limit,
         NEW b \in Nat, NEW G, G \subseteq F, b = 0 \/ (b = a /\ at \notin G),
         NEW g, IsHistory(g, MaxTime, n), g[n + 1] = h[n + 1] + b, \A t \in Ticks(MaxTime) : t <= n => g[t] = h[t]
  PROVE  MembersInv(Newer(S, at - WindowTicks) \cup Batch(at, a), G, g, n)
<1> DEFINE V == Newer(S, at - WindowTicks)
           B == Batch(at, a)
           T == V \cup B
<1>1. /\ n \in Nat /\ at \in Int /\ at <= n /\ MaxDelay \in Nat /\ WindowTicks \in Nat /\ Limit \in Nat
      /\ n + 1 \in Ticks(MaxTime) /\ MaxTime \in Nat
  BY TickFacts, Sizes
<1>2. /\ V \subseteq (0..n) \X (1..Limit) /\ IsFiniteSet(V)
      /\ \A c \in (n - WindowTicks + MaxDelay)..n : Counted(V, F, c - MaxDelay) = Counted(S, F, c - MaxDelay)
  <2>1. F \subseteq F
    OBVIOUS
  <2>2. MembersInv(V, F, h, n)
    BY <1>1, <2>1, TrimmedInv
  <2>3. ASSUME NEW c \in (n - WindowTicks + MaxDelay)..n
        PROVE  Counted(V, F, c - MaxDelay) = Counted(S, F, c - MaxDelay)
    <3>1. at - WindowTicks \in Int /\ c - MaxDelay \in Int /\ at - WindowTicks <= c - MaxDelay
      BY <1>1
    <3>2. S \subseteq (0..n) \X (1..Limit)
      BY DEF MembersInv
    <3> QED
      BY <1>1, <3>1, <3>2, NewerCounted
  <2> HIDE DEF V
  <2> QED
    BY <2>2, <2>3 DEF MembersInv
<1>3. IsFiniteSet(B) /\ Cardinality(B) = a
  BY BatchSize
<1>4. Cardinality(V) \in Nat /\ Cardinality(V) + a <= Limit
  <2>1. Cardinality(V) + a <= Limit
    OBVIOUS
  <2> HIDE DEF V
  <2> QED
    BY <1>2, <2>1, FS_CardinalityType
<1>5. \A m \in B : m[1] = at /\ m \in (0..n) \X (1..Limit)
  <2>1. a <= Limit
    <3> HIDE DEF V
    <3> QED
      BY <1>1, <1>4
  <2>2. \A i \in 1..a : i \in 1..Limit
    BY <1>1, <2>1
  <2> QED
    BY <2>2 DEF Batch
<1> HIDE DEF V, B
<1>6. IsFiniteSet(T) /\ Cardinality(T) <= Limit /\ T \subseteq (0..n) \X (1..Limit)
  <2>1. IsFiniteSet(V \cap B) /\ Cardinality(V \cap B) \in Nat
    BY <1>2, FS_Subset, FS_CardinalityType
  <2>2. IsFiniteSet(T) /\ Cardinality(T) = Cardinality(V) + a - Cardinality(V \cap B)
    BY <1>2, <1>3, FS_Union
  <2>3. T \subseteq (0..n) \X (1..Limit)
    BY <1>2, <1>5
  <2> QED
    BY <1>1, <1>4, <2>1, <2>2, <2>3
<1> HIDE DEF T
<1>7. ASSUME NEW c \in (n - WindowTicks + MaxDelay)..n
      PROVE  g[n + 1] - g[FromZero(c + 1)] <= Cardinality(Counted(T, G, c - MaxDelay))
  <2> DEFINE x == c - MaxDelay
             f == FromZero(c + 1)
             U == Counted(V, F, x)
  <2>1. h[n + 1] - h[f] <= Cardinality(U)
    BY <1>2 DEF MembersInv
  <2>2. IsFiniteSet(U) /\ Cardinality(U) \in Nat
    BY <1>2, CountedFacts
  <2>3. IsFiniteSet(Counted(T, G, x)) /\ Cardinality(Counted(T, G, x)) \in Nat
    BY <1>6, CountedFacts
  <2>4. U \subseteq Counted(T, G, x)
    BY DEF Counted, T
  <2>5. CASE c = n
    <3>1. f = n + 1 /\ g[n + 1] \in Nat
      BY <1>1, <2>5, HistoryFacts DEF FromZero
    <3> QED
      BY <2>3, <3>1
  <2>6. CASE c # n
    <3>1. f \in Ticks(MaxTime) /\ f <= n
      BY <1>1, <2>6 DEF Ticks, FromZero
    <3>2. g[f] = h[f] /\ h[f] \in Nat /\ h[n + 1] \in Nat
      BY <1>1, <3>1, HistoryFacts
    <3>3. Cardinality(U) + b <= Cardinality(Counted(T, G, x))
      <4>1. CASE b = 0
        <5>1. Cardinality(U) <= Cardinality(Counted(T, G, x))
          BY <2>3, <2>4, FS_Subset
        <5> QED
          BY <2>2, <4>1, <5>1
      <4>2. CASE b = a /\ at \notin G
        <5>1. at > x
          BY <1>1, <2>6
        <5>2. B \subseteq Counted(T, G, x)
          BY <1>5, <4>2, <5>1 DEF Counted, T
        <5>3. U \cap B = {} /\ Cardinality({}) = 0
          BY <1>5, FS_EmptySet DEF Counted
        <5> HIDE DEF U, x
        <5>4. U \cup B \in SUBSET Counted(T, G, x)
          BY <2>4, <5>2
        <5>5. Cardinality(U \cup B) = Cardinality(U) + a
          <6>1. Cardinality(U \cup B) = Cardinality(U) + Cardinality(B) - Cardinality(U \cap B)
            BY <1>3, <2>2, FS_Union
          <6>2. Cardinality(U \cap B) = 0
            BY <5>3
          <6> QED
            BY <1>3, <2>2, <6>1, <6>2
        <5>6. Cardinality(U \cup B) <= Cardinality(Counted(T, G, x))
          BY <2>3, <5>4, FS_Subset
        <5> QED
          BY <4>2, <5>5, <5>6
      <4> QED
        BY <4>1, <4>2
    <3> HIDE DEF f, U, x
    <3>4. g[n + 1] - g[f] <= Cardinality(Counted(T, G, x))
      BY <2>1, <2>2, <2>3, <3>2, <3>3
    <3> QED
      BY <3>4 DEF f, x
  <2> QED
    BY <2>5, <2>6
<1>8. MembersInv(T, G, g, n)
  BY <1>6, <1>7 DEF MembersInv
<1> QED
  BY <1>8 DEF T, V, B

(* A call begins: none of the members has its reading.                      *)
LEMMA BegunInv ==
  ASSUME NEW n, NEW h, NEW S, NEW F, MembersInv(S, F, h, n), \A m \in S : m[1] # n
  PROVE  MembersInv(S, F \cup {n}, h, n)
<1>1. \A c : Counted(S, F \cup {n}, c) = Counted(S, F, c)
  BY DEF Counted
<1> QED
  BY <1>1 DEF MembersInv

(* Time passes over a set that does not expire.                             *)
LEMMA ExpiryTick ==
  ASSUME WholeSeconds, NEW n \in 0..MaxTime, n < MaxTime, NEW h, IsHistory(h, MaxTime, n),
         NEW e, ExpiryInv(e, h, n), e.expireAt > n + 1
  PROVE  ExpiryInv(e, h, n + 1)
<1>1. h[(n + 1) + 1] = h[n + 1] /\ n \in Nat /\ WindowTicks \in Nat
  BY HistoryTick, LimiterAssumption, Sizes
<1>2. e.expireAt \in (n + 1)..(n + 2 * WindowTicks)
  BY DEF ExpiryInv
<1>3. e.expireAt \in ((n + 1) + 1)..((n + 1) + 2 * WindowTicks)
  BY <1>1, <1>2
<1> QED
  BY <1>1, <1>3 DEF ExpiryInv

(* A set expires two windows after its last member was added.               *)
LEMMA SetExpires ==
  ASSUME WholeSeconds, NEW n \in 0..MaxTime, n < MaxTime, NEW h, IsHistory(h, MaxTime, n), NEW F,
         NEW e, ExpiryInv(e, h, n), ~(e.expireAt > n + 1)
  PROVE  MembersInv({}, F, h, n + 1)
<1> DEFINE p == n + 1
<1>1. IsHistory(h, MaxTime, p) /\ h[p + 1] = h[n + 1] /\ n \in Nat /\ p \in 0..MaxTime /\ WindowTicks \in Nat
  BY HistoryTick, LimiterAssumption, Sizes
<1>2. e.expireAt \in (n + 1)..(n + 2 * WindowTicks)
  BY DEF ExpiryInv
<1>3. e.expireAt = p
  BY <1>1, <1>2
<1>4. \A t \in Ticks(MaxTime) : t > p - 2 * WindowTicks => h[t] = h[p + 1]
  BY <1>1, <1>3 DEF ExpiryInv
<1> HIDE DEF p
<1>5. MembersInv({}, F, h, p)
  BY <1>1, <1>4, NoMembers
<1> QED
  BY <1>5 DEF p

(* The members bound what was granted in a window less the delay of a call. *)
LEMMA MembersBound ==
  ASSUME WholeSeconds, NEW n \in 0..MaxTime, NEW h, IsHistory(h, MaxTime, n), NEW S, NEW F, MembersInv(S, F, h, n),
         n - WindowTicks + MaxDelay + 1 <= n
  PROVE  h[n + 1] - h[FromZero(n - WindowTicks + MaxDelay + 1)] <= Limit
<1> DEFINE c == n - WindowTicks + MaxDelay
           f == FromZero(c + 1)
<1>1. /\ n \in Nat /\ MaxDelay \in Nat /\ WindowTicks \in Nat /\ Limit \in Nat /\ MaxTime \in Nat
      /\ n + 1 \in Ticks(MaxTime)
  BY TickFacts, Sizes
<1>2. c \in (n - WindowTicks + MaxDelay)..n /\ f \in Ticks(MaxTime)
  BY <1>1 DEF Ticks, FromZero
<1>3. h[n + 1] - h[f] <= Cardinality(Counted(S, F, c - MaxDelay))
  BY <1>2 DEF MembersInv
<1>4. IsFiniteSet(S) /\ Cardinality(S) <= Limit
  BY DEF MembersInv
<1>5. /\ Cardinality(Counted(S, F, c - MaxDelay)) <= Cardinality(S)
      /\ Cardinality(Counted(S, F, c - MaxDelay)) \in Nat /\ Cardinality(S) \in Nat
  BY <1>4, CountedFacts, FS_CardinalityType
<1>6. h[n + 1] \in Nat /\ h[f] \in Nat
  BY <1>1, <1>2, HistoryFacts
<1> HIDE DEF c, f
<1>7. h[n + 1] - h[f] <= Limit
  BY <1>1, <1>3, <1>4, <1>5, <1>6
<1> QED
  BY <1>7 DEF c, f

-----------------------------------------------------------------------------
(* The scripts.                                                            *)

SameFor(r, s, k) == (k \in DOMAIN r <=> k \in DOMAIN s) /\ (k \in DOMAIN s => r[k] = s[k])

(* Two states of Redis with the same for k.                                 *)
LEMMA SameForKeeps ==
  ASSUME NEW r, NEW s, NEW k, SameFor(r, s, k), NEW F, NEW last, NEW h, StoreInv(s, k, F, last, h)
  PROVE  StoreInv(r, k, F, last, h)
<1>1. (k \in DOMAIN r <=> k \in DOMAIN s) /\ (k \in DOMAIN s => r[k] = s[k])
  BY DEF SameFor
<1>2. Members(r, k) = Members(s, k)
  BY <1>1 DEF Members
<1>3. CASE k \in DOMAIN s
  BY <1>1, <1>2, <1>3, Zenon DEF StoreInv
<1>4. CASE k \notin DOMAIN s
  BY <1>1, <1>2, <1>4, Zenon DEF StoreInv
<1> QED
  BY <1>3, <1>4

(* What the invariant says of a key.                                        *)
LEMMA KeyFacts ==
  ASSUME WholeSeconds, LimiterInv, NEW k \in Keys
  PROVE  /\ now \in 0..MaxTime /\ now \in Nat /\ DOMAIN store \subseteq Keys
         /\ algorithm \in {"token_bucket", "fixed_window", "sliding_window"}
         /\ IsHistory(admitted[k], MaxTime, now)
         /\ StoreInv(store, k, InFlight(k), lastRead[k], admitted[k])
<1>1. now \in 0..MaxTime /\ algorithm \in Algorithms /\ KeyInv(k) /\ DOMAIN store \subseteq Keys
  BY DEF LimiterInv
<1> QED
  BY <1>1, LimiterAssumption DEF KeyInv

(* Redis holds no expired key.                                              *)
LEMMA NoneExpired ==
  ASSUME WholeSeconds, LimiterInv, NEW k \in DOMAIN store
  PROVE  store[k].expireAt > now
<1>1. k \in Keys
  BY DEF LimiterInv
<1>2. /\ now \in Nat /\ WindowTicks \in Nat /\ algorithm \in {"token_bucket", "fixed_window", "sliding_window"}
      /\ StoreInv(store, k, InFlight(k), lastRead[k], admitted[k])
  BY <1>1, KeyFacts, Sizes
<1>3. store[k].expireAt \in (now + 1)..(now + WindowTicks) \/ store[k].expireAt \in (now + 1)..(now + 2 * WindowTicks)
  BY <1>2 DEF StoreInv, BucketInv, FixedInv, ExpiryInv
<1> QED
  BY <1>2, <1>3

(* Redis after a script has set k.                                          *)
LEMMA PutAlive ==
  ASSUME \A j \in DOMAIN store : store[j].expireAt > now, NEW k, NEW e, e.expireAt > now,
         NEW after, after = Alive(Put(store, k, e), now)
  PROVE  DOMAIN after = DOMAIN store \cup {k} /\ after[k] = e /\ \A j : j # k => SameFor(after, store, j)
  BY DEF Alive, Put, SameFor

(* Redis after a script has refused a call.                                 *)
LEMMA StoreAlive ==
  ASSUME \A j \in DOMAIN store : store[j].expireAt > now
  PROVE  DOMAIN Alive(store, now) = DOMAIN store /\ \A j : SameFor(Alive(store, now), store, j)
  BY DEF Alive, SameFor

(* Redis after a script has left the members S for k.                       *)
Leaves(after, k, S, expiry) ==
    /\ DOMAIN after = (DOMAIN store \ {k}) \cup (IF S = {} THEN {} ELSE {k})
    /\ Members(after, k) = S
    /\ k \in DOMAIN after => after[k] = [val |-> S, expireAt |-> expiry]
    /\ \A j : j # k => SameFor(after, store, j)

(* Sets are not empty, and none of them has expired.                        *)
LEMMA MembersAlive ==
  ASSUME WholeSeconds, LimiterInv, NEW k, NEW S, NEW expiry, S # {} => expiry > now,
         NEW after, after = WithMembers(k, S, expiry) \/ after = Alive(WithMembers(k, S, expiry), now)
  PROVE  Leaves(after, k, S, expiry)
<1> DEFINE s == WithMembers(k, S, expiry)
<1>1. /\ DOMAIN s = (DOMAIN store \ {k}) \cup (IF S = {} THEN {} ELSE {k})
      /\ k \in DOMAIN s => s[k] = [val |-> S, expireAt |-> expiry]
      /\ \A j \in DOMAIN s : j # k => s[j] = store[j]
  BY DEF WithMembers
<1>2. \A j \in DOMAIN s : s[j].expireAt > now
  <2> HIDE DEF s
  <2> SUFFICES ASSUME NEW j \in DOMAIN s PROVE s[j].expireAt > now
    OBVIOUS
  <2>1. CASE j = k
    <3>1. S # {}
      BY <1>1, <2>1
    <3> QED
      BY <1>1, <2>1, <3>1
  <2>2. CASE j # k
    BY <1>1, <2>2, NoneExpired
  <2> QED
    BY <2>1, <2>2
<1> HIDE DEF s
<1>3. DOMAIN after = DOMAIN s /\ \A j \in DOMAIN s : after[j] = s[j]
  <2>1. after = s \/ after = Alive(s, now)
    BY DEF s
  <2> QED
    BY <1>2, <2>1 DEF Alive
<1>4. Members(after, k) = S
  BY <1>1, <1>3 DEF Members
<1> QED
  BY <1>1, <1>3, <1>4 DEF SameFor, Leaves

(* The history g is h with the b that a caller is told now.                 *)
Follows(g, h, b) ==
    /\ IsHistory(g, MaxTime, now)
    /\ g[now + 1] = h[now + 1] + b
    /\ \A t \in Ticks(MaxTime) : t <= now => g[t] = h[t]

(* The tokens that tokenBucketScript finds.                                 *)
LEMMA TokensFound ==
  ASSUME WholeSeconds, LimiterInv, NEW k \in Keys, algorithm = "token_bucket", NEW at \in Nat
  PROVE  /\ k \notin DOMAIN store => BucketTokens(k, Sec(at)) = Limit
         /\ k \in DOMAIN store =>
               \E F \in Int :
                  /\ F * WindowSeconds <= (Sec(at) - store[k].val.last) * Limit
                  /\ store[k].val.last <= Sec(at) => F >= 0
                  /\ BucketTokens(k, Sec(at)) = IF store[k].val.tokens + F > Limit THEN Limit ELSE store[k].val.tokens + F
                  /\ store[k].val.tokens \in Int
<1>1. WindowSeconds \in Nat \ {0} /\ Limit \in Nat /\ Sec(at) \in Nat
  BY Sizes, SecMonotone
<1>2. CASE k \notin DOMAIN store
  <2> DEFINE u == Sec(at)
  <2> HIDE DEF u
  <2>1. BucketTokens(k, u) = LET tokens == Limit + ((u - u) * Limit) \div WindowSeconds
                             IN  IF tokens > Limit THEN Limit ELSE tokens
    BY <1>2 DEF BucketTokens, Value
  <2>2. (u - u) * Limit = 0
    BY <1>1 DEF u
  <2>3. 0 \div WindowSeconds = 0
    BY <1>1, SMT
  <2>4. BucketTokens(k, u) = Limit
    BY <1>1, <2>1, <2>2, <2>3
  <2> QED
    BY <1>2, <2>4 DEF u
<1>3. CASE k \in DOMAIN store
  <2> DEFINE e == store[k].val
             d == (Sec(at) - e.last) * Limit
             F == d \div WindowSeconds
  <2>1. BucketInv(store[k], admitted[k], now)
    BY <1>3, KeyFacts DEF StoreInv
  <2>2. e.last \in Int /\ e.tokens \in Int
    <3> DEFINE T == store[k].expireAt - WindowTicks
    <3>1. T \in Nat /\ e.tokens \in 0..Limit /\ e.last \in 0..Sec(T)
      BY <2>1 DEF BucketInv
    <3> QED
      BY <1>1, <3>1
  <2>3. d \in Int /\ (e.last <= Sec(at) => d >= 0)
    BY <1>1, <2>2, SMT
  <2>4. BucketTokens(k, Sec(at)) = IF e.tokens + F > Limit THEN Limit ELSE e.tokens + F
    BY <1>3 DEF BucketTokens, Value
  <2> HIDE DEF e, d
  <2>5. F \in Int /\ F * WindowSeconds <= d /\ (d >= 0 => F >= 0)
    BY <1>1, <2>3, Division
  <2> QED
    BY <1>3, <2>2, <2>3, <2>4, <2>5 DEF d, e
<1> QED
  BY <1>2, <1>3

(* tokenBucketScript keeps the invariant of its key.                        *)
LEMMA BucketScriptKeeps ==
  ASSUME WholeSeconds, LimiterInv, NEW k \in Keys, algorithm = "token_bucket",
         NEW a \in Nat \ {0}, NEW at \in 0..now, now - at <= MaxDelay,
         NEW b \in Nat, NEW g, Follows(g, admitted[k], b),
         (b = 0 /\ g = admitted[k]) \/ (b = a /\ TokenBucketScript(k, a, at).allowed),
         NEW F, NEW last
  PROVE  LET after == Alive(TokenBucketScript(k, a, at).store, now)
         IN  /\ StoreInv(after, k, F, last, g) /\ DOMAIN after \subseteq Keys
             /\ \A j : j # k => SameFor(after, store, j)
<1> DEFINE h == admitted[k]
           tokens == BucketTokens(k, Sec(at))
           result == TokenBucketScript(k, a, at)
           v == [val |-> [tokens |-> tokens - a, last |-> Sec(at)], expireAt |-> now + WindowTicks]
           after == Alive(result.store, now)
<1>1. /\ now \in 0..MaxTime /\ now \in Nat /\ at \in Nat /\ DOMAIN store \subseteq Keys
      /\ IsHistory(h, MaxTime, now) /\ Limit \in Nat /\ WindowTicks \in Nat \ {0}
  BY KeyFacts, Sizes
<1>2. result = IF tokens >= a THEN [allowed |-> TRUE, store |-> Put(store, k, v)]
                              ELSE [allowed |-> FALSE, store |-> store]
  BY DEF TokenBucketScript, Stored, Sec
<1>3. \A j \in DOMAIN store : store[j].expireAt > now
  BY NoneExpired
<1>4. IF k \in DOMAIN store THEN BucketInv(store[k], h, now) ELSE NoBucketInv(h, now)
  BY KeyFacts DEF StoreInv
<1>5. CASE ~(tokens >= a)
  <2>1. result.store = store /\ ~result.allowed
    BY <1>2, <1>5
  <2>2. g = h
    BY <2>1
  <2>3. DOMAIN after = DOMAIN store /\ \A j : SameFor(after, store, j)
    BY <1>3, <2>1, StoreAlive
  <2>4. StoreInv(store, k, F, last, g)
    BY <1>4, <2>2 DEF StoreInv
  <2> HIDE DEF after
  <2>5. StoreInv(after, k, F, last, g)
    BY <2>3, <2>4, SameForKeeps
  <2> QED
    BY <1>1, <2>3, <2>5 DEF after
<1>6. CASE tokens >= a
  <2>1. result.store = Put(store, k, v)
    BY <1>2, <1>6
  <2>2. v.expireAt = now + WindowTicks /\ v.val.tokens = tokens - a /\ v.val.last = Sec(at)
    OBVIOUS
  <2> HIDE DEF v, tokens, result
  <2>3. v.expireAt > now
    BY <1>1, <2>2
  <2>4. DOMAIN after = DOMAIN store \cup {k} /\ after[k] = v /\ \A j : j # k => SameFor(after, store, j)
    <3>1. after = Alive(Put(store, k, v), now)
      BY <2>1
    <3> HIDE DEF after
    <3> QED
      BY <1>3, <2>3, <3>1, PutAlive
  <2>5. b <= a
    OBVIOUS
  <2>6. IsHistory(g, MaxTime, now) /\ g[now + 1] = h[now + 1] + b /\ \A t \in Ticks(MaxTime) : t <= now => g[t] = h[t]
    BY DEF Follows
  <2>7. BucketInv(v, g, now)
    <3>1. CASE k \notin DOMAIN store
      <4>1. tokens = Limit
        BY <1>1, <3>1, TokensFound DEF tokens
      <4>2. NoBucketInv(h, now) /\ a <= Limit /\ v.val.tokens = Limit - a
        BY <1>1, <1>4, <1>6, <2>2, <3>1, <4>1
      <4> HIDE DEF h
      <4> QED
        BY <1>1, <2>2, <2>5, <2>6, <4>2, FirstBucket
    <3>2. CASE k \in DOMAIN store
      <4> DEFINE e == store[k]
      <4>1. BucketInv(e, h, now)
        BY <1>4, <3>2
      <4>2. PICK R \in Int :
               /\ R * WindowSeconds <= (Sec(at) - e.val.last) * Limit
               /\ tokens = IF e.val.tokens + R > Limit THEN Limit ELSE e.val.tokens + R
               /\ e.val.tokens \in Int
        BY <1>1, <3>2, TokensFound DEF tokens
      <4> HIDE DEF e, h
      <4>3. tokens \in Int /\ tokens <= Limit /\ tokens <= e.val.tokens + R
        BY <1>1, <4>2
      <4> DEFINE left == tokens - a
      <4>4. left \in Nat /\ left + a <= e.val.tokens + R /\ left + a <= Limit /\ v.val.tokens = left
        BY <1>1, <1>6, <2>2, <4>3
      <4> HIDE DEF left
      <4> QED
        BY <1>1, <2>2, <2>5, <2>6, <4>1, <4>2, <4>4, LaterBucket
    <3> QED
      BY <3>1, <3>2
  <2> HIDE DEF after
  <2>8. StoreInv(after, k, F, last, g)
    BY <2>4, <2>7 DEF StoreInv
  <2> QED
    BY <1>1, <2>4, <2>8 DEF after, result
<1> QED
  BY <1>5, <1>6

(* fixedWindowScript keeps the invariant of its key.                        *)
LEMMA FixedScriptKeeps ==
  ASSUME WholeSeconds, LimiterInv, NEW k \in Keys, algorithm = "fixed_window",
         NEW a \in Nat \ {0}, NEW b \in Nat, NEW g, Follows(g, admitted[k], b),
         (b = 0 /\ g = admitted[k]) \/ (b = a /\ FixedWindowScript(k, a).allowed),
         NEW F, NEW last
  PROVE  LET after == Alive(FixedWindowScript(k, a).store, now)
         IN  /\ StoreInv(after, k, F, last, g) /\ DOMAIN after \subseteq Keys
             /\ \A j : j # k => SameFor(after, store, j)
<1> DEFINE h == admitted[k]
           count == Value(k, 0)
           result == FixedWindowScript(k, a)
           v == IF count = 0 THEN [val |-> a, expireAt |-> now + WindowTicks]
                             ELSE [store[k] EXCEPT !.val = count + a]
           after == Alive(result.store, now)
<1>1. /\ now \in 0..MaxTime /\ now \in Nat /\ DOMAIN store \subseteq Keys
      /\ IsHistory(h, MaxTime, now) /\ Limit \in Nat /\ WindowTicks \in Nat \ {0}
  BY KeyFacts, Sizes
<1>2. result = IF count + a <= Limit THEN [allowed |-> TRUE, store |-> Put(store, k, v)]
                                     ELSE [allowed |-> FALSE, store |-> store]
  BY DEF FixedWindowScript, Within, Stored
<1>3. \A j \in DOMAIN store : store[j].expireAt > now
  BY NoneExpired
<1>4. IF k \in DOMAIN store THEN FixedInv(store[k], h, now) ELSE NoFixedInv(h, now)
  BY KeyFacts DEF StoreInv
<1>5. CASE ~(count + a <= Limit)
  <2>1. result.store = store /\ ~result.allowed
    BY <1>2, <1>5
  <2>2. g = h
    BY <2>1
  <2>3. DOMAIN after = DOMAIN store /\ \A j : SameFor(after, store, j)
    BY <1>3, <2>1, StoreAlive
  <2>4. StoreInv(store, k, F, last, g)
    BY <1>4, <2>2 DEF StoreInv
  <2> HIDE DEF after
  <2>5. StoreInv(after, k, F, last, g)
    BY <2>3, <2>4, SameForKeeps
  <2> QED
    BY <1>1, <2>3, <2>5 DEF after
<1>6. CASE count + a <= Limit
  <2>1. result.store = Put(store, k, v)
    BY <1>2, <1>6
  <2>2. b <= a
    OBVIOUS
  <2>3. g[now + 1] = h[now + 1] + b /\ \A t \in Ticks(MaxTime) : t <= now => g[t] = h[t]
    BY DEF Follows
  <2>4. FixedInv(v, g, now) /\ v.expireAt > now
    <3>1. CASE k \notin DOMAIN store
      <4>1. count = 0 /\ a <= Limit
        BY <1>1, <1>6, <3>1 DEF Value
      <4>2. v = [val |-> a, expireAt |-> now + WindowTicks] /\ NoFixedInv(h, now)
        BY <1>4, <3>1, <4>1
      <4> HIDE DEF v, h
      <4>3. FixedInv(v, g, now)
        BY <1>1, <2>2, <2>3, <4>1, <4>2, FirstFixed
      <4> QED
        BY <1>1, <4>2, <4>3
    <3>2. CASE k \in DOMAIN store
      <4> DEFINE e == store[k]
      <4>1. FixedInv(e, h, now) /\ count = e.val
        BY <1>4, <3>2 DEF Value
      <4>2. e.val \in 1..Limit /\ e = [val |-> e.val, expireAt |-> e.expireAt] /\ e.expireAt > now
        BY <1>3, <3>2, <4>1 DEF FixedInv
      <4>3. v = [val |-> e.val + a, expireAt |-> e.expireAt]
        <5>1. count # 0
          BY <1>1, <4>1, <4>2
        <5>2. v = [e EXCEPT !.val = e.val + a]
          BY <4>1, <5>1
        <5> HIDE DEF e, v
        <5> QED
          BY <4>2, <5>2
      <4>4. e.val + a <= Limit
        BY <1>6, <4>1
      <4> HIDE DEF v, h, e
      <4>5. FixedInv(v, g, now)
        BY <1>1, <2>2, <2>3, <4>1, <4>3, <4>4, LaterFixed
      <4> QED
        BY <4>2, <4>3, <4>5
    <3> QED
      BY <3>1, <3>2
  <2> HIDE DEF v, result
  <2>5. DOMAIN after = DOMAIN store \cup {k} /\ after[k] = v /\ \A j : j # k => SameFor(after, store, j)
    <3>1. after = Alive(Put(store, k, v), now)
      BY <2>1
    <3> HIDE DEF after
    <3> QED
      BY <1>3, <2>4, <3>1, PutAlive
  <2> HIDE DEF after
  <2>6. StoreInv(after, k, F, last, g)
    BY <2>4, <2>5 DEF StoreInv
  <2> QED
    BY <1>1, <2>5, <2>6 DEF after, result
<1> QED
  BY <1>5, <1>6

(* Removing members that are too old, for a script that refuses, for        *)
(* Remaining or after a call that ends.                                    *)
LEMMA TrimKeeps ==
  ASSUME WholeSeconds, LimiterInv, NEW k \in Keys, algorithm = "sliding_window", NEW at \in Int, at <= now,
         NEW G, G \subseteq InFlight(k),
         NEW after, after \in {WithMembers(k, Trimmed(k, at), store[k].expireAt),
                               Alive(WithMembers(k, Trimmed(k, at), store[k].expireAt), now)}
  PROVE  /\ StoreInv(after, k, G, lastRead[k], admitted[k]) /\ DOMAIN after \subseteq Keys
         /\ \A j : j # k => SameFor(after, store, j)
<1> DEFINE h == admitted[k]
           S == Members(store, k)
           V == Newer(S, at - WindowTicks)
           expiry == store[k].expireAt
<1>1. now \in 0..MaxTime /\ DOMAIN store \subseteq Keys /\ IsHistory(h, MaxTime, now)
  BY KeyFacts
<1>2. /\ MembersInv(S, InFlight(k), h, now) /\ \A m \in S : m[1] <= lastRead[k]
      /\ k \in DOMAIN store => ExpiryInv(store[k], h, now)
  BY KeyFacts DEF StoreInv
<1>3. Trimmed(k, at) = V
  BY DEF Trimmed, Value, Members, Newer
<1>4. \A j \in DOMAIN store : store[j].expireAt > now
  BY NoneExpired
<1>5. V \subseteq S /\ (V # {} => k \in DOMAIN store)
  BY DEF Newer, Members
<1>6. V # {} => expiry > now
  BY <1>4, <1>5
<1> HIDE DEF V, S, h
<1>7. MembersInv(V, G, h, now)
  BY <1>1, <1>2, TrimmedInv DEF V
<1>8. Leaves(after, k, V, expiry)
  <2>1. after = WithMembers(k, V, expiry) \/ after = Alive(WithMembers(k, V, expiry), now)
    BY <1>3
  <2> HIDE DEF expiry
  <2> QED
    BY <1>6, <2>1, MembersAlive
<1>9. k \in DOMAIN after => ExpiryInv(after[k], h, now)
  <2> SUFFICES ASSUME k \in DOMAIN after PROVE ExpiryInv(after[k], h, now)
    OBVIOUS
  <2>1. k \in DOMAIN store
    BY <1>5, <1>8 DEF Leaves
  <2>2. after[k].expireAt = store[k].expireAt
    BY <1>8 DEF Leaves
  <2>3. ExpiryInv(store[k], h, now)
    BY <1>2, <2>1
  <2> QED
    BY <2>2, <2>3 DEF ExpiryInv
<1>10. \A m \in V : m[1] <= lastRead[k]
  BY <1>2, <1>5
<1>11. StoreInv(after, k, G, lastRead[k], h)
  BY <1>7, <1>8, <1>9, <1>10 DEF StoreInv, Leaves
<1>12. DOMAIN after \subseteq Keys
  BY <1>1, <1>8 DEF Leaves
<1> QED
  BY <1>8, <1>11, <1>12 DEF h, Leaves

(* slidingWindowScript keeps the invariant of its key.                      *)
LEMMA SlidingScriptKeeps ==
  ASSUME WholeSeconds, LimiterInv, NEW k \in Keys, algorithm = "sliding_window",
         NEW a \in Nat \ {0}, NEW at \in 0..now, now - at <= MaxDelay, at \in InFlight(k), at <= lastRead[k],
         NEW b \in Nat, NEW g, Follows(g, admitted[k], b), NEW G, G \subseteq InFlight(k),
         (b = 0 /\ g = admitted[k]) \/ (b = a /\ SlidingWindowScript(k, a, at).allowed /\ at \notin G)
  PROVE  LET after == Alive(SlidingWindowScript(k, a, at).store, now)
         IN  /\ StoreInv(after, k, G, lastRead[k], g) /\ DOMAIN after \subseteq Keys
             /\ \A j : j # k => SameFor(after, store, j)
<1> DEFINE h == admitted[k]
           S == Members(store, k)
           V == Newer(S, at - WindowTicks)
           B == Batch(at, a)
           T == V \cup B
           expiry == now + 2 * WindowTicks
           result == SlidingWindowScript(k, a, at)
           after == Alive(result.store, now)
<1>1. /\ now \in 0..MaxTime /\ now \in Nat /\ at \in Int /\ at <= now /\ DOMAIN store \subseteq Keys
      /\ IsHistory(h, MaxTime, now) /\ Limit \in Nat /\ WindowTicks \in Nat \ {0}
  BY KeyFacts, Sizes
<1>2. Trimmed(k, at) = V
  BY DEF Trimmed, Value, Members, Newer
<1>3. /\ result.allowed <=> Cardinality(V) + a <= Limit
      /\ result.store = IF Cardinality(V) + a <= Limit THEN WithMembers(k, T, expiry)
                        ELSE WithMembers(k, Trimmed(k, at), store[k].expireAt)
  BY <1>2 DEF SlidingWindowScript, Within, Batch
<1>4. CASE ~(Cardinality(V) + a <= Limit)
  <2>1. after = Alive(WithMembers(k, Trimmed(k, at), store[k].expireAt), now) /\ g = h
    BY <1>3, <1>4
  <2> HIDE DEF after, h
  <2>2. /\ StoreInv(after, k, G, lastRead[k], admitted[k]) /\ DOMAIN after \subseteq Keys
        /\ \A j : j # k => SameFor(after, store, j)
    BY <1>1, <2>1, TrimKeeps
  <2> QED
    BY <2>1, <2>2 DEF after, h
<1>5. CASE Cardinality(V) + a <= Limit
  <2>1. after = Alive(WithMembers(k, T, expiry), now)
    BY <1>3, <1>5
  <2>2. expiry > now
    BY <1>1
  <2> HIDE DEF after, expiry, T
  <2>3. Leaves(after, k, T, expiry)
    BY <2>1, <2>2, MembersAlive
  <2>4. MembersInv(S, InFlight(k), h, now) /\ \A m \in S : m[1] <= lastRead[k]
    BY KeyFacts DEF StoreInv
  <2>5. IsHistory(g, MaxTime, now) /\ g[now + 1] = h[now + 1] + b /\ \A t \in Ticks(MaxTime) : t <= now => g[t] = h[t]
    BY DEF Follows
  <2>6. MembersInv(T, G, g, now)
    <3>1. b = 0 \/ (b = a /\ at \notin G)
      OBVIOUS
    <3> HIDE DEF S, h
    <3>2. MembersInv(Newer(S, at - WindowTicks) \cup Batch(at, a), G, g, now)
      BY <1>1, <1>5, <2>4, <2>5, <3>1, AddedInv
    <3> QED
      BY <3>2 DEF T
  <2>7. \A m \in T : m[1] <= lastRead[k]
    BY <2>4 DEF T, Newer, Batch
  <2>8. k \in DOMAIN after => ExpiryInv(after[k], g, now)
    <3> SUFFICES ASSUME k \in DOMAIN after PROVE ExpiryInv(after[k], g, now)
      OBVIOUS
    <3>1. after[k].expireAt = now + 2 * WindowTicks
      BY <2>3 DEF Leaves, expiry
    <3>2. after[k].expireAt \in (now + 1)..(now + 2 * WindowTicks) /\ after[k].expireAt - 2 * WindowTicks = now
      BY <1>1, <3>1
    <3>3. \A t \in Ticks(MaxTime) : t > now => g[t] = g[now + 1]
      BY <1>1, <2>5, HistoryFacts
    <3> QED
      BY <3>2, <3>3 DEF ExpiryInv
  <2>9. StoreInv(after, k, G, lastRead[k], g)
    BY <2>3, <2>6, <2>7, <2>8 DEF StoreInv, Leaves
  <2> QED
    BY <1>1, <2>3, <2>9 DEF after, Leaves
<1> QED
  BY <1>4, <1>5

-----------------------------------------------------------------------------
(* The steps of the limiter.                                               *)

(* A call in progress.                                                      *)
LEMMA CallFacts ==
  ASSUME LimiterInv, NEW c \in Clients, call[c] # NoCall
  PROVE  /\ call[c] \in CallRecords /\ call[c].key \in Keys /\ call[c].n \in Nat \ {0}
         /\ call[c].at \in 0..now /\ now - call[c].at <= MaxDelay /\ call[c].at <= lastRead[call[c].key]
         /\ call[c].at \in InFlight(call[c].key)
<1>1. call[c] \in CallRecords
  BY DEF LimiterInv, CallsInv
<1>2. call[c].key \in Keys /\ call[c].n \in Amounts
  BY <1>1 DEF CallRecords
<1>3. call[c].at \in 0..now /\ now - call[c].at <= MaxDelay /\ call[c].at <= lastRead[call[c].key]
  BY DEF LimiterInv, CallsInv
<1> QED
  BY <1>1, <1>2, <1>3, LimiterAssumption DEF InFlight

(* A call that ends without a grant leaves members that now count.          *)
LEMMA FewerInFlight ==
  ASSUME WholeSeconds, NEW h, NEW k, now \in 0..MaxTime, IsHistory(h, MaxTime, now),
         NEW s, NEW F, NEW G, G \subseteq F, NEW last, StoreInv(s, k, F, last, h)
  PROVE  StoreInv(s, k, G, last, h)
<1> DEFINE S == Members(s, k)
<1>1. CASE algorithm = "sliding_window"
  <2>1. MembersInv(S, F, h, now)
    BY <1>1 DEF StoreInv
  <2> HIDE DEF S
  <2>2. /\ now \in Nat /\ MaxDelay \in Nat /\ WindowTicks \in Nat /\ Limit \in Nat /\ MaxTime \in Nat
        /\ now + 1 \in Ticks(MaxTime)
    BY TickFacts, Sizes
  <2>3. IsFiniteSet(S)
    BY <2>1 DEF MembersInv
  <2>4. ASSUME NEW c \in (now - WindowTicks + MaxDelay)..now
        PROVE  h[now + 1] - h[FromZero(c + 1)] <= Cardinality(Counted(S, G, c - MaxDelay))
    <3> DEFINE x == c - MaxDelay
               f == FromZero(c + 1)
    <3>1. Counted(S, F, x) \in SUBSET Counted(S, G, x)
      BY DEF Counted
    <3>2. /\ IsFiniteSet(Counted(S, G, x)) /\ Cardinality(Counted(S, G, x)) \in Nat
          /\ Cardinality(Counted(S, F, x)) \in Nat
      BY <2>3, CountedFacts
    <3>3. Cardinality(Counted(S, F, x)) <= Cardinality(Counted(S, G, x))
      BY <3>1, <3>2, FS_Subset
    <3>4. h[now + 1] - h[f] <= Cardinality(Counted(S, F, x))
      BY <2>1 DEF MembersInv
    <3>5. f \in Ticks(MaxTime)
      BY <2>2 DEF Ticks, FromZero
    <3> HIDE DEF f, x
    <3>6. h[now + 1] \in Nat /\ h[f] \in Nat
      BY <2>2, <3>5, HistoryFacts
    <3>7. h[now + 1] - h[f] <= Cardinality(Counted(S, G, x))
      BY <3>2, <3>3, <3>4, <3>6
    <3> QED
      BY <3>7 DEF f, x
  <2>5. MembersInv(S, G, h, now)
    BY <2>1, <2>4 DEF MembersInv
  <2> QED
    BY <1>1, <2>5 DEF StoreInv, S
<1>2. CASE algorithm # "sliding_window"
  BY <1>2 DEF StoreInv
<1> QED
  BY <1>1, <1>2

(* What holds of the key j in the next state, at the same tick.             *)
LEMMA KeyKept ==
  ASSUME algorithm' = algorithm, now' = now, NEW j, IsHistory(admitted'[j], MaxTime, now),
         StoreInv(store', j, InFlight(j)', lastRead'[j], admitted'[j])
  PROVE  KeyInv(j)'
<1>1. StoreInv(store, j, InFlight(j), lastRead[j], admitted[j])'
  BY DEF StoreInv
<1> QED
  BY <1>1 DEF KeyInv

(* The caller c of k is told of b, and then has the history g: nothing, and *)
(* the call may go on; or all it asked for, and it is not among the calls  *)
(* with the readings G.                                                    *)
ToldOf(c, k, b, g, G) ==
    /\ Follows(g, admitted[k], b)
    /\ \/ b = 0 /\ g = admitted[k]
       \/ /\ b = call[c].n /\ Script(k, call[c].n, call[c].at).allowed
          /\ algorithm = "sliding_window" => call[c].at \notin G

(* The script of any of the algorithms.                                     *)
LEMMA ScriptKeepsKey ==
  ASSUME WholeSeconds, LimiterInv, NEW c \in Clients, call[c] # NoCall, NEW k \in Keys, k = call[c].key,
         NEW b \in Nat, NEW g, NEW G, G \subseteq InFlight(k), ToldOf(c, k, b, g, G),
         NEW after, after = Alive(Script(k, call[c].n, call[c].at).store, now)
  PROVE  /\ StoreInv(after, k, G, lastRead[k], g) /\ DOMAIN after \subseteq Keys
         /\ \A j : j # k => SameFor(after, store, j)
<1> DEFINE a == call[c].n
           at == call[c].at
<1>1. a \in Nat \ {0} /\ at \in 0..now /\ now - at <= MaxDelay /\ at <= lastRead[k] /\ at \in InFlight(k)
  BY CallFacts
<1>2. algorithm \in {"token_bucket", "fixed_window", "sliding_window"} /\ Follows(g, admitted[k], b)
  BY KeyFacts DEF ToldOf
<1> HIDE DEF a, at
<1>3. CASE algorithm = "token_bucket"
  <2>1. Script(k, a, at) = TokenBucketScript(k, a, at)
    BY <1>3 DEF Script
  <2>2. (b = 0 /\ g = admitted[k]) \/ (b = a /\ TokenBucketScript(k, a, at).allowed)
    BY <2>1 DEF a, at, ToldOf
  <2>3. after = Alive(TokenBucketScript(k, a, at).store, now)
    BY <2>1 DEF a, at
  <2> QED
    BY <1>1, <1>2, <1>3, <2>2, <2>3, BucketScriptKeeps
<1>4. CASE algorithm = "fixed_window"
  <2>1. Script(k, a, at) = FixedWindowScript(k, a)
    BY <1>4 DEF Script
  <2>2. (b = 0 /\ g = admitted[k]) \/ (b = a /\ FixedWindowScript(k, a).allowed)
    BY <2>1 DEF a, at, ToldOf
  <2>3. after = Alive(FixedWindowScript(k, a).store, now)
    BY <2>1 DEF a, at
  <2> QED
    BY <1>1, <1>2, <1>4, <2>2, <2>3, FixedScriptKeeps
<1>5. CASE algorithm = "sliding_window"
  <2>1. Script(k, a, at) = SlidingWindowScript(k, a, at)
    BY <1>5 DEF Script
  <2>2. (b = 0 /\ g = admitted[k]) \/ (b = a /\ SlidingWindowScript(k, a, at).allowed /\ at \notin G)
    BY <1>5, <2>1 DEF a, at, ToldOf
  <2>3. after = Alive(SlidingWindowScript(k, a, at).store, now)
    BY <2>1 DEF a, at
  <2> QED
    BY <1>1, <1>2, <1>5, <2>2, <2>3, SlidingScriptKeeps
<1> QED
  BY <1>2, <1>3, <1>4, <1>5

(* The calls after the call of c has ended.                                 *)
LEMMA EndedCall ==
  ASSUME LimiterInv, NEW c \in Clients, call[c] # NoCall, call' = [call EXCEPT ![c] = NoCall],
         UNCHANGED <<algorithm, now, lastRead, clashed>>, NEW k, k = call[c].key
  PROVE  /\ CallsInv' /\ \A j : InFlight(j)' \subseteq InFlight(j)
         /\ algorithm = "sliding_window" /\ k \notin clashed => call[c].at \notin InFlight(k)'
<1>1. call \in [Clients -> {NoCall} \cup CallRecords]
  BY DEF LimiterInv, CallsInv
<1>2. call' \in [Clients -> {NoCall} \cup CallRecords] /\ call'[c] = NoCall /\ \A d \in Clients : d # c => call'[d] = call[d]
  BY <1>1
<1>3. \A d \in Clients : call'[d] # NoCall => d # c /\ call'[d] = call[d]
  BY <1>2
<1>4. CallsInv'
  <2>1. \A d \in Clients : call'[d] # NoCall =>
           call'[d].at \in 0..now' /\ now' - call'[d].at <= MaxDelay /\ call'[d].at <= lastRead'[call'[d].key]
    BY <1>3 DEF LimiterInv, CallsInv
  <2>2. algorithm' = "sliding_window" =>
           \A e, d \in Clients :
              (call'[e] # NoCall /\ call'[d] # NoCall /\ call'[e].key = call'[d].key /\ call'[e].at = call'[d].at
               /\ call'[e].key \notin clashed') => e = d
    BY <1>3 DEF LimiterInv, CallsInv
  <2> QED
    BY <1>2, <2>1, <2>2 DEF CallsInv
<1>5. \A j : InFlight(j)' \subseteq InFlight(j)
  BY <1>3 DEF InFlight
<1>6. ASSUME algorithm = "sliding_window", k \notin clashed, call[c].at \in InFlight(k)' PROVE FALSE
  <2>1. PICK d \in Clients : call'[d] # NoCall /\ call'[d].key = call[c].key /\ call'[d].at = call[c].at
    BY <1>6 DEF InFlight
  <2>2. d # c /\ call[d] # NoCall /\ call[d].key = call[c].key /\ call[d].at = call[c].at
    BY <1>3, <2>1
  <2> QED
    BY <1>6, <2>2 DEF LimiterInv, CallsInv
<1> QED
  BY <1>4, <1>5, <1>6

(* Redis runs the script of c, whose caller is told of it or not.           *)
LEMMA ScriptKeeps ==
  ASSUME WholeSeconds, LimiterInv, NEW c \in Clients, call[c] # NoCall, NEW k \in Keys, k = call[c].key,
         store' = Alive(Script(k, call[c].n, call[c].at).store, now), UNCHANGED <<algorithm, now, lastRead>>,
         CallsInv', \A j : InFlight(j)' \subseteq InFlight(j),
         DOMAIN admitted' = Keys, \A j \in Keys : j # k => admitted'[j] = admitted[j],
         NEW b \in Nat, ToldOf(c, k, b, admitted'[k], InFlight(k)')
  PROVE  LimiterInv'
<1>1. /\ StoreInv(store', k, InFlight(k)', lastRead[k], admitted'[k]) /\ DOMAIN store' \subseteq Keys
      /\ \A j : j # k => SameFor(store', store, j)
  <2>1. InFlight(k)' \subseteq InFlight(k)
    OBVIOUS
  <2> QED
    BY <2>1, ScriptKeepsKey
<1>2. ASSUME NEW j \in Keys PROVE KeyInv(j)'
  <2>1. CASE j = k
    <3>1. IsHistory(admitted'[k], MaxTime, now)
      BY DEF Follows, ToldOf
    <3> QED
      BY <1>1, <2>1, <3>1, KeyKept
  <2>2. CASE j # k
    <3>1. /\ now \in 0..MaxTime /\ IsHistory(admitted[j], MaxTime, now)
          /\ StoreInv(store, j, InFlight(j), lastRead[j], admitted[j])
      BY KeyFacts
    <3>2. SameFor(store', store, j) /\ InFlight(j)' \subseteq InFlight(j)
      BY <1>1, <2>2
    <3>3. StoreInv(store', j, InFlight(j), lastRead[j], admitted[j])
      BY <3>1, <3>2, SameForKeeps
    <3>4. StoreInv(store', j, InFlight(j)', lastRead[j], admitted[j])
      BY <3>1, <3>2, <3>3, FewerInFlight
    <3> QED
      BY <2>2, <3>1, <3>4, KeyKept
  <2> QED
    BY <2>1, <2>2
<1> QED
  BY <1>1, <1>2 DEF LimiterInv

(* The history of nobody having been told anything.                         *)
LEMMA FollowsItself ==
  ASSUME NEW h, now \in 0..MaxTime, IsHistory(h, MaxTime, now)
  PROVE  Follows(h, h, 0)
<1>1. h[now + 1] \in Nat
  BY HistoryFacts, TickFacts
<1> QED
  BY <1>1 DEF Follows

(* RunScript keeps the invariant.                                           *)
LEMMA RunScriptKeeps ==
  ASSUME WholeSeconds, LimiterInv, NEW c \in Clients, RunScript(c)
  PROVE  LimiterInv'
<1> SUFFICES ASSUME NEW k, k = call[c].key PROVE LimiterInv'
  OBVIOUS
<1> DEFINE a == call[c].n
           result == Script(k, a, call[c].at)
           h == admitted[k]
<1>1. /\ call[c] # NoCall /\ store' = Alive(result.store, now) /\ call' = [call EXCEPT ![c] = NoCall]
      /\ UNCHANGED <<algorithm, now, lastRead, clashed>>
      /\ admitted' = IF result.allowed /\ k \notin clashed THEN [admitted EXCEPT ![k] = Granted(@, now, a)]
                     ELSE admitted
  BY DEF RunScript
<1>2. k \in Keys /\ a \in Nat \ {0}
  BY <1>1, CallFacts
<1>3. /\ CallsInv' /\ \A j : InFlight(j)' \subseteq InFlight(j)
      /\ algorithm = "sliding_window" /\ k \notin clashed => call[c].at \notin InFlight(k)'
  BY <1>1, EndedCall
<1>4. now \in 0..MaxTime /\ IsHistory(h, MaxTime, now) /\ DOMAIN admitted = Keys
  BY <1>2, KeyFacts DEF LimiterInv
<1>5. CASE result.allowed /\ k \notin clashed
  <2>1. /\ DOMAIN admitted' = Keys /\ (\A j \in Keys : j # k => admitted'[j] = admitted[j])
        /\ admitted'[k] = Granted(h, now, a)
    <3> HIDE DEF a, result
    <3> QED
      BY <1>1, <1>2, <1>4, <1>5 DEF h
  <2>2. Follows(admitted'[k], h, a)
    <3> HIDE DEF h, a
    <3>1. /\ IsHistory(Granted(h, now, a), MaxTime, now) /\ Granted(h, now, a)[now + 1] = h[now + 1] + a
          /\ \A t \in Ticks(MaxTime) : t <= now => Granted(h, now, a)[t] = h[t]
      <4>1. MaxTime \in Nat /\ a \in Nat
        BY <1>2, LimiterAssumption
      <4> QED
        BY <1>4, <4>1, HistoryGranted
    <3> QED
      BY <2>1, <3>1 DEF Follows
  <2>3. ToldOf(c, k, a, admitted'[k], InFlight(k)')
    BY <1>3, <1>5, <2>2 DEF ToldOf
  <2> QED
    BY <1>1, <1>2, <1>3, <2>1, <2>3, ScriptKeeps
<1>6. CASE ~(result.allowed /\ k \notin clashed)
  <2>1. admitted' = admitted
    BY <1>1, <1>6
  <2>2. Follows(admitted'[k], h, 0) /\ 0 \in Nat
    BY <1>4, <2>1, FollowsItself
  <2>3. ToldOf(c, k, 0, admitted'[k], InFlight(k)')
    BY <2>1, <2>2 DEF ToldOf
  <2> QED
    BY <1>1, <1>2, <1>3, <1>4, <2>1, <2>2, <2>3, ScriptKeeps
<1> QED
  BY <1>5, <1>6

(* LoseReply keeps the invariant.                                           *)
LEMMA LoseReplyKeeps ==
  ASSUME WholeSeconds, LimiterInv, NEW c \in Clients, LoseReply(c)
  PROVE  LimiterInv'
<1> SUFFICES ASSUME NEW k, k = call[c].key PROVE LimiterInv'
  OBVIOUS
<1>1. /\ call[c] # NoCall /\ store' = Alive(Script(k, call[c].n, call[c].at).store, now)
      /\ UNCHANGED <<algorithm, now, call, lastRead, clashed, admitted>>
  BY DEF LoseReply
<1>2. k \in Keys
  BY <1>1, CallFacts
<1>3. CallsInv' /\ \A j : InFlight(j)' \subseteq InFlight(j)
  BY <1>1 DEF LimiterInv, CallsInv, InFlight
<1>4. now \in 0..MaxTime /\ IsHistory(admitted[k], MaxTime, now) /\ DOMAIN admitted' = Keys
  BY <1>1, <1>2, KeyFacts DEF LimiterInv
<1>5. Follows(admitted'[k], admitted[k], 0) /\ 0 \in Nat
  BY <1>1, <1>4, FollowsItself
<1>6. ToldOf(c, k, 0, admitted'[k], InFlight(k)')
  BY <1>1, <1>5 DEF ToldOf
<1> QED
  BY <1>1, <1>2, <1>3, <1>4, <1>5, <1>6, ScriptKeeps

(* Fail keeps the invariant.                                                *)
LEMMA FailKeeps ==
  ASSUME WholeSeconds, LimiterInv, NEW c \in Clients, Fail(c)
  PROVE  LimiterInv'
<1>1. /\ call[c] # NoCall /\ call' = [call EXCEPT ![c] = NoCall]
      /\ UNCHANGED <<algorithm, now, store, lastRead, clashed, admitted>>
  BY DEF Fail
<1>2. CallsInv' /\ \A j : InFlight(j)' \subseteq InFlight(j)
  <2> SUFFICES ASSUME NEW k, k = call[c].key PROVE CallsInv' /\ \A j : InFlight(j)' \subseteq InFlight(j)
    OBVIOUS
  <2> QED
    BY <1>1, EndedCall
<1>3. ASSUME NEW j \in Keys PROVE KeyInv(j)'
  <2>1. /\ now \in 0..MaxTime /\ IsHistory(admitted[j], MaxTime, now)
        /\ StoreInv(store, j, InFlight(j), lastRead[j], admitted[j])
    BY KeyFacts
  <2>2. StoreInv(store, j, InFlight(j)', lastRead[j], admitted[j])
    BY <1>2, <2>1, FewerInFlight
  <2> QED
    BY <1>1, <2>1, <2>2, KeyKept
<1> QED
  BY <1>1, <1>2, <1>3 DEF LimiterInv

(* Time passes over a key.                                                  *)
LEMMA KeyTick ==
  ASSUME WholeSeconds, LimiterInv, now < MaxTime, NEW k \in Keys,
         now' = now + 1, store' = Alive(store, now + 1), UNCHANGED <<algorithm, call, lastRead, admitted>>
  PROVE  KeyInv(k)'
<1> DEFINE h == admitted[k]
<1>1. /\ now \in 0..MaxTime /\ IsHistory(h, MaxTime, now) /\ StoreInv(store, k, InFlight(k), lastRead[k], h)
      /\ algorithm \in {"token_bucket", "fixed_window", "sliding_window"}
  BY KeyFacts
<1>2. IsHistory(h, MaxTime, now + 1)
  BY <1>1, HistoryTick, LimiterAssumption
<1>3. /\ k \in DOMAIN store' <=> (k \in DOMAIN store /\ store[k].expireAt > now + 1)
      /\ k \in DOMAIN store' => store'[k] = store[k]
  BY DEF Alive
<1>4. InFlight(k)' = InFlight(k) /\ h' = h
  BY DEF InFlight
<1> DEFINE e == store[k]
<1>5. ASSUME algorithm = "token_bucket"
      PROVE  IF k \in DOMAIN store' THEN BucketInv(store'[k], h, now + 1) ELSE NoBucketInv(h, now + 1)
  <2>1. IF k \in DOMAIN store THEN BucketInv(e, h, now) ELSE NoBucketInv(h, now)
    BY <1>1, <1>5 DEF StoreInv
  <2> HIDE DEF h, e
  <2>2. CASE k \notin DOMAIN store
    BY <1>1, <1>3, <2>1, <2>2, NoBucketTick
  <2>3. CASE k \in DOMAIN store /\ e.expireAt > now + 1
    BY <1>1, <1>3, <2>1, <2>3, BucketTick DEF e
  <2>4. CASE k \in DOMAIN store /\ ~(e.expireAt > now + 1)
    <3>1. NoBucketInv(h, now + 1)
      BY <1>1, <2>1, <2>4, BucketExpires
    <3> QED
      BY <1>3, <2>4, <3>1 DEF e
  <2> QED
    BY <2>2, <2>3, <2>4
<1>6. ASSUME algorithm = "fixed_window"
      PROVE  IF k \in DOMAIN store' THEN FixedInv(store'[k], h, now + 1) ELSE NoFixedInv(h, now + 1)
  <2>1. IF k \in DOMAIN store THEN FixedInv(e, h, now) ELSE NoFixedInv(h, now)
    BY <1>1, <1>6 DEF StoreInv
  <2> HIDE DEF h, e
  <2>2. CASE k \notin DOMAIN store
    BY <1>1, <1>3, <2>1, <2>2, NoFixedTick
  <2>3. CASE k \in DOMAIN store /\ e.expireAt > now + 1
    BY <1>1, <1>3, <2>1, <2>3, FixedTick DEF e
  <2>4. CASE k \in DOMAIN store /\ ~(e.expireAt > now + 1)
    <3>1. NoFixedInv(h, now + 1)
      BY <1>1, <2>1, <2>4, FixedExpires
    <3> QED
      BY <1>3, <2>4, <3>1 DEF e
  <2> QED
    BY <2>2, <2>3, <2>4
<1>7. ASSUME algorithm = "sliding_window"
      PROVE  /\ MembersInv(Members(store', k), InFlight(k), h, now + 1)
             /\ \A m \in Members(store', k) : m[1] <= lastRead[k]
             /\ k \in DOMAIN store' => ExpiryInv(store'[k], h, now + 1)
  <2> DEFINE S == Members(store, k)
  <2>1. /\ MembersInv(S, InFlight(k), h, now) /\ \A m \in S : m[1] <= lastRead[k]
        /\ k \in DOMAIN store => ExpiryInv(e, h, now)
    BY <1>1, <1>7 DEF StoreInv
  <2> HIDE DEF h, e
  <2>2. CASE k \in DOMAIN store => e.expireAt > now + 1
    <3>1. Members(store', k) = S
      BY <1>3, <2>2 DEF Members, e
    <3> HIDE DEF S
    <3>2. MembersInv(S, InFlight(k), h, now + 1)
      BY <1>1, <2>1, MembersTick
    <3>3. k \in DOMAIN store' => ExpiryInv(e, h, now + 1)
      BY <1>1, <1>3, <2>1, <2>2, ExpiryTick
    <3> QED
      BY <1>3, <2>1, <3>1, <3>2, <3>3 DEF e
  <2>3. CASE k \in DOMAIN store /\ ~(e.expireAt > now + 1)
    <3>1. k \notin DOMAIN store' /\ Members(store', k) = {}
      BY <1>3, <2>3 DEF Members, e
    <3>2. MembersInv({}, InFlight(k), h, now + 1)
      BY <1>1, <2>1, <2>3, SetExpires
    <3> QED
      BY <3>1, <3>2
  <2> QED
    BY <2>2, <2>3
<1>8. StoreInv(store, k, InFlight(k), lastRead[k], h)'
  <2>1. /\ algorithm' = "token_bucket" =>
              IF k \in DOMAIN store' THEN BucketInv(store'[k], h', now') ELSE NoBucketInv(h', now')
        /\ algorithm' = "fixed_window" =>
              IF k \in DOMAIN store' THEN FixedInv(store'[k], h', now') ELSE NoFixedInv(h', now')
    BY <1>4, <1>5, <1>6
  <2>2. algorithm' = "sliding_window" =>
              /\ MembersInv(Members(store', k), InFlight(k)', h', now')
              /\ \A m \in Members(store', k) : m[1] <= lastRead'[k]
              /\ k \in DOMAIN store' => ExpiryInv(store'[k], h', now')
    BY <1>4, <1>7
  <2> HIDE DEF h, e
  <2> QED
    BY <2>1, <2>2 DEF StoreInv
<1> QED
  BY <1>2, <1>4, <1>8 DEF KeyInv

(* Tick keeps the invariant.                                                *)
LEMMA TickKeeps ==
  ASSUME WholeSeconds, LimiterInv, Tick
  PROVE  LimiterInv'
<1>1. /\ now < MaxTime /\ now' = now + 1 /\ store' = Alive(store, now + 1)
      /\ UNCHANGED <<algorithm, call, lastRead, clashed, admitted>>
      /\ \A c \in Clients : call[c] # NoCall => now - call[c].at < MaxDelay
  BY DEF Tick
<1>2. now \in 0..MaxTime /\ now \in Nat /\ MaxTime \in Nat /\ MaxDelay \in Nat
  BY LimiterAssumption DEF LimiterInv
<1>3. CallsInv'
  <2>1. ASSUME NEW c \in Clients, call[c] # NoCall
        PROVE  call[c].at \in 0..(now + 1) /\ now + 1 - call[c].at <= MaxDelay /\ call[c].at <= lastRead[call[c].key]
    <3>1. call[c].at \in 0..now /\ now - call[c].at < MaxDelay /\ call[c].at <= lastRead[call[c].key]
      BY <1>1, <2>1 DEF LimiterInv, CallsInv
    <3> QED
      BY <1>2, <3>1
  <2> QED
    BY <1>1, <2>1 DEF LimiterInv, CallsInv
<1>4. ASSUME NEW k \in Keys PROVE KeyInv(k)'
  BY <1>1, KeyTick
<1>5. DOMAIN store' \subseteq Keys
  BY <1>1 DEF Alive, LimiterInv
<1>6. lastRead' \in [Keys -> Int] /\ \A k \in Keys : lastRead'[k] <= now'
  <2>1. lastRead \in [Keys -> Int] /\ \A k \in Keys : lastRead[k] <= now
    BY DEF LimiterInv
  <2> QED
    BY <1>1, <1>2, <2>1
<1>7. now' \in 0..MaxTime
  BY <1>1, <1>2
<1> QED
  BY <1>1, <1>3, <1>4, <1>5, <1>6, <1>7 DEF LimiterInv

\* The next call of k will have the reading of an earlier one.
Clashes(k) == algorithm = "sliding_window" /\ lastRead[k] = now

(* The calls after a call of k has begun.                                  *)
LEMMA BegunCall ==
  ASSUME LimiterInv, NEW c \in Clients, NEW k \in Keys, NEW n \in Amounts, Start(c, k, n)
  PROVE  /\ CallsInv' /\ InFlight(k)' = InFlight(k) \cup {now}
         /\ \A j : j # k => InFlight(j)' = InFlight(j)
         /\ algorithm = "sliding_window" /\ ~Clashes(k) => lastRead[k] < now
         /\ lastRead' \in [Keys -> Int] /\ lastRead'[k] = now /\ \A j \in Keys : j # k => lastRead'[j] = lastRead[j]
<1> DEFINE r == [key |-> k, n |-> n, at |-> now]
<1>1. /\ call[c] = NoCall /\ call' = [call EXCEPT ![c] = r] /\ lastRead' = [lastRead EXCEPT ![k] = now]
      /\ clashed' = IF Clashes(k) THEN clashed \cup {k} ELSE clashed
      /\ UNCHANGED <<algorithm, now, store>>
  BY DEF Start, Clashes
<1>2. /\ call \in [Clients -> {NoCall} \cup CallRecords] /\ now \in 0..MaxTime /\ now \in Nat /\ MaxDelay \in Nat
      /\ lastRead \in [Keys -> Int] /\ \A j \in Keys : lastRead[j] <= now
  BY LimiterAssumption DEF LimiterInv, CallsInv
<1>3. r \in CallRecords /\ r.key = k /\ r.at = now
  BY <1>2 DEF CallRecords
<1>4. r # NoCall
  <2>1. "at" \in DOMAIN r
    OBVIOUS
  <2>2. "at" \notin DOMAIN NoCall
    BY DEF NoCall
  <2> HIDE DEF r
  <2> QED
    BY <2>1, <2>2
<1> HIDE DEF r
<1>5. call' \in [Clients -> {NoCall} \cup CallRecords] /\ call'[c] = r /\ \A d \in Clients : d # c => call'[d] = call[d]
  BY <1>1, <1>2, <1>3
<1>6. lastRead' \in [Keys -> Int] /\ lastRead'[k] = now /\ \A j \in Keys : j # k => lastRead'[j] = lastRead[j]
  BY <1>1, <1>2
<1>7. algorithm = "sliding_window" /\ ~Clashes(k) => lastRead[k] < now
  <2> SUFFICES ASSUME algorithm = "sliding_window", ~Clashes(k) PROVE lastRead[k] < now
    OBVIOUS
  <2>1. lastRead[k] # now /\ lastRead[k] \in Int /\ lastRead[k] <= now
    BY <1>2 DEF Clashes
  <2> QED
    BY <1>2, <2>1
<1>8. \A d \in Clients : call[d] # NoCall =>
         /\ d # c /\ call[d].key \in Keys /\ call[d].at \in 0..now /\ now - call[d].at <= MaxDelay
         /\ call[d].at <= lastRead[call[d].key]
  BY <1>1, CallFacts
<1>9. \A d \in Clients : call'[d] # NoCall =>
         call'[d].at \in 0..now' /\ now' - call'[d].at <= MaxDelay /\ call'[d].at <= lastRead'[call'[d].key]
  <2> SUFFICES ASSUME NEW d \in Clients, call'[d] # NoCall
               PROVE  call'[d].at \in 0..now /\ now - call'[d].at <= MaxDelay /\ call'[d].at <= lastRead'[call'[d].key]
    BY <1>1
  <2>1. CASE d = c
    <3>1. call'[d].key = k /\ call'[d].at = now
      BY <1>3, <1>5, <2>1
    <3> QED
      BY <1>2, <1>6, <3>1
  <2>2. CASE d # c
    <3>1. call'[d] = call[d] /\ call[d] # NoCall
      BY <1>5, <2>2
    <3>2. /\ call[d].key \in Keys /\ call[d].at \in 0..now /\ now - call[d].at <= MaxDelay
          /\ call[d].at <= lastRead[call[d].key]
      BY <1>8, <3>1
    <3>3. call[d].at <= lastRead'[call[d].key]
      <4>1. CASE call[d].key = k
        BY <1>2, <1>6, <3>2, <4>1
      <4>2. CASE call[d].key # k
        BY <1>6, <3>2, <4>2
      <4> QED
        BY <4>1, <4>2
    <3> QED
      BY <3>1, <3>2, <3>3
  <2> QED
    BY <2>1, <2>2
<1>10. ASSUME algorithm' = "sliding_window", NEW d \in Clients, NEW e \in Clients, call'[d] # NoCall, call'[e] # NoCall,
              call'[d].key = call'[e].key, call'[d].at = call'[e].at, call'[d].key \notin clashed'
       PROVE  d = e
  <2>1. ASSUME NEW f \in Clients, call[f] # NoCall, call[f].key = k, k \notin clashed' PROVE call[f].at # now
    <3>1. lastRead[k] < now /\ lastRead[k] \in Int
      BY <1>1, <1>2, <1>7, <1>10, <2>1
    <3> QED
      BY <1>2, <1>8, <2>1, <3>1
  <2>2. CASE d = c \/ e = c
    <3>1. ASSUME NEW f \in Clients, f # c, call'[f] # NoCall, call'[f].key = k, call'[f].at = now PROVE k \in clashed'
      BY <1>5, <2>1, <3>1
    <3> QED
      BY <1>3, <1>5, <1>10, <2>2, <3>1
  <2>3. CASE d # c /\ e # c
    <3>1. call'[d] = call[d] /\ call'[e] = call[e] /\ algorithm = "sliding_window" /\ call[d].key \notin clashed
      BY <1>1, <1>5, <1>10, <2>3
    <3> QED
      BY <1>10, <3>1 DEF LimiterInv, CallsInv
  <2> QED
    BY <2>2, <2>3
<1>11. CallsInv'
  BY <1>5, <1>9, <1>10 DEF CallsInv
<1>12. InFlight(k)' = InFlight(k) \cup {now}
  BY <1>1, <1>3, <1>4, <1>5 DEF InFlight
<1>13. \A j : j # k => InFlight(j)' = InFlight(j)
  BY <1>1, <1>3, <1>5 DEF InFlight
<1> QED
  BY <1>6, <1>7, <1>11, <1>12, <1>13

(* What Redis holds for a key, with a history of nothing.                  *)
LEMMA ForgottenInv ==
  ASSUME now \in 0..MaxTime, algorithm = "sliding_window", NEW k, NEW F, NEW G, NEW last, NEW h,
         StoreInv(store, k, F, last, h), last <= now, last \in Int
  PROVE  StoreInv(store, k, G, now, NoHistory(MaxTime)) /\ IsHistory(NoHistory(MaxTime), MaxTime, now)
<1> DEFINE none == NoHistory(MaxTime)
           S == Members(store, k)
<1>1. /\ IsHistory(none, MaxTime, now) /\ (\A t \in Ticks(MaxTime) : none[t] = 0)
      /\ now \in Nat /\ now + 1 \in Ticks(MaxTime)
  BY NoHistoryIs, TickFacts, LimiterAssumption
<1>2. /\ MembersInv(S, F, h, now) /\ (\A m \in S : m[1] <= last)
      /\ k \in DOMAIN store => ExpiryInv(store[k], h, now)
  BY DEF StoreInv
<1>3. S \subseteq (0..now) \X (1..Limit) /\ IsFiniteSet(S) /\ Cardinality(S) <= Limit
  BY <1>2 DEF MembersInv
<1> HIDE DEF none, S
<1>4. \A c \in Int : none[now + 1] - none[FromZero(c + 1)] <= Cardinality(Counted(S, G, c - MaxDelay))
                    \/ c > now
  <2> SUFFICES ASSUME NEW c \in Int, ~(c > now)
               PROVE  none[now + 1] - none[FromZero(c + 1)] <= Cardinality(Counted(S, G, c - MaxDelay))
    OBVIOUS
  <2>1. FromZero(c + 1) \in Ticks(MaxTime)
    BY <1>1, LimiterAssumption DEF FromZero, Ticks
  <2>2. none[now + 1] = 0 /\ none[FromZero(c + 1)] = 0
    BY <1>1, <2>1
  <2>3. Counted(S, G, c - MaxDelay) \subseteq S
    BY DEF Counted
  <2>4. Cardinality(Counted(S, G, c - MaxDelay)) \in Nat
    BY <1>3, <2>3, FS_Subset, FS_CardinalityType
  <2> QED
    BY <2>2, <2>4
<1>5. MembersInv(S, G, none, now)
  <2>1. \A c \in (now - WindowTicks + MaxDelay)..now : c \in Int /\ ~(c > now)
    BY <1>1
  <2> QED
    BY <1>3, <1>4, <2>1 DEF MembersInv
<1>6. \A m \in S : m[1] <= now
  BY <1>1, <1>3
<1>7. k \in DOMAIN store => ExpiryInv(store[k], none, now)
  BY <1>1, <1>2 DEF ExpiryInv
<1>8. StoreInv(store, k, G, now, none)
  BY <1>5, <1>6, <1>7 DEF StoreInv, S
<1> QED
  BY <1>1, <1>8 DEF none

(* Start keeps the invariant.                                               *)
LEMMA StartKeeps ==
  ASSUME WholeSeconds, LimiterInv, NEW c \in Clients, NEW k \in Keys, NEW n \in Amounts, Start(c, k, n)
  PROVE  LimiterInv'
<1>1. /\ UNCHANGED <<algorithm, now, store>>
      /\ admitted' = IF Clashes(k) THEN [admitted EXCEPT ![k] = NoHistory(MaxTime)] ELSE admitted
  BY DEF Start, Clashes
<1>2. /\ CallsInv' /\ InFlight(k)' = InFlight(k) \cup {now}
      /\ \A j : j # k => InFlight(j)' = InFlight(j)
      /\ algorithm = "sliding_window" /\ ~Clashes(k) => lastRead[k] < now
      /\ lastRead' \in [Keys -> Int] /\ lastRead'[k] = now /\ \A j \in Keys : j # k => lastRead'[j] = lastRead[j]
  BY BegunCall
<1>3. /\ DOMAIN admitted = Keys /\ DOMAIN admitted' = Keys
      /\ admitted'[k] = IF Clashes(k) THEN NoHistory(MaxTime) ELSE admitted[k]
      /\ \A j \in Keys : j # k => admitted'[j] = admitted[j]
  BY <1>1 DEF LimiterInv
<1>4. ASSUME NEW j \in Keys PROVE KeyInv(j)'
  <2>1. /\ now \in 0..MaxTime /\ now \in Nat /\ IsHistory(admitted[j], MaxTime, now)
        /\ StoreInv(store, j, InFlight(j), lastRead[j], admitted[j])
    BY KeyFacts
  <2>2. CASE j # k
    BY <1>1, <1>2, <1>3, <2>1, <2>2, KeyKept
  <2>3. CASE j = k /\ Clashes(k)
    <3>1. algorithm = "sliding_window" /\ lastRead[k] \in Int /\ lastRead[k] <= now
      BY <2>3 DEF Clashes, LimiterInv
    <3>2. /\ StoreInv(store, k, InFlight(k) \cup {now}, now, NoHistory(MaxTime))
          /\ IsHistory(NoHistory(MaxTime), MaxTime, now)
      BY <2>1, <2>3, <3>1, ForgottenInv
    <3> QED
      BY <1>1, <1>2, <1>3, <2>1, <2>3, <3>2, KeyKept
  <2>4. CASE j = k /\ ~Clashes(k)
    <3> DEFINE h == admitted[k]
               S == Members(store, k)
    <3>1. CASE algorithm = "sliding_window"
      <4>1. MembersInv(S, InFlight(k), h, now) /\ (\A m \in S : m[1] <= lastRead[k])
        BY <2>1, <2>4, <3>1 DEF StoreInv
      <4>2. lastRead[k] \in Int /\ lastRead[k] < now
        BY <1>2, <2>4, <3>1 DEF LimiterInv
      <4>3. \A m \in S : m[1] \in Int
        <5> HIDE DEF S
        <5>1. S \subseteq (0..now) \X (1..Limit)
          BY <4>1 DEF MembersInv
        <5> QED
          BY <2>1, <5>1
      <4> HIDE DEF S, h
      <4>4. \A m \in S : m[1] # now /\ m[1] <= now
        BY <2>1, <4>1, <4>2, <4>3
      <4>5. MembersInv(S, InFlight(k) \cup {now}, h, now)
        BY <4>1, <4>4, BegunInv
      <4>6. StoreInv(store, k, InFlight(k) \cup {now}, now, h)
        BY <2>1, <2>4, <3>1, <4>4, <4>5 DEF StoreInv, S, h
      <4> QED
        BY <1>1, <1>2, <1>3, <2>1, <2>4, <4>6, KeyKept DEF h
    <3>2. CASE algorithm # "sliding_window"
      <4>1. StoreInv(store, k, InFlight(k) \cup {now}, now, h)
        BY <2>1, <2>4, <3>2 DEF StoreInv
      <4> QED
        BY <1>1, <1>2, <1>3, <2>1, <2>4, <4>1, KeyKept
    <3> QED
      BY <3>1, <3>2
  <2> QED
    BY <2>2, <2>3, <2>4
<1>5. \A j \in Keys : lastRead'[j] <= now'
  <2>1. now \in Nat /\ \A j \in Keys : lastRead[j] <= now
    BY LimiterAssumption DEF LimiterInv
  <2> QED
    BY <1>1, <1>2, <2>1
<1> QED
  BY <1>1, <1>2, <1>3, <1>4, <1>5 DEF LimiterInv

(* A key that Redis does not hold and that was granted nothing.             *)
LEMMA NothingGranted ==
  ASSUME WholeSeconds, now \in 0..MaxTime, NEW s, NEW k, k \notin DOMAIN s, NEW F, NEW last
  PROVE  IsHistory(NoHistory(MaxTime), MaxTime, now) /\ StoreInv(s, k, F, last, NoHistory(MaxTime))
<1> DEFINE h == NoHistory(MaxTime)
<1>1. IsHistory(h, MaxTime, now) /\ \A t \in Ticks(MaxTime) : h[t] = 0
  BY NoHistoryIs, LimiterAssumption
<1>2. NoBucketInv(h, now) /\ NoFixedInv(h, now)
  BY NoBucketAtFirst, NoFixedAtFirst
<1>3. now + 1 \in Ticks(MaxTime)
  BY TickFacts
<1> HIDE DEF h
<1>4. MembersInv({}, F, h, now)
  <2>1. \A t \in Ticks(MaxTime) : t > now - 2 * WindowTicks => h[t] = h[now + 1]
    BY <1>1, <1>3
  <2> QED
    BY <1>1, <2>1, NoMembers
<1>5. Members(s, k) = {}
  BY DEF Members
<1>6. StoreInv(s, k, F, last, h)
  BY <1>2, <1>4, <1>5 DEF StoreInv
<1> QED
  BY <1>1, <1>6 DEF h

(* TrimForRemaining keeps the invariant.                                    *)
LEMMA TrimForRemainingKeeps ==
  ASSUME WholeSeconds, LimiterInv, NEW k \in Keys, TrimForRemaining(k)
  PROVE  LimiterInv'
<1>1. /\ algorithm = "sliding_window" /\ store' = WithMembers(k, Trimmed(k, now), store[k].expireAt)
      /\ UNCHANGED <<algorithm, now, call, lastRead, clashed, admitted>>
  BY DEF TrimForRemaining
<1>2. now \in Int /\ now <= now /\ InFlight(k) \subseteq InFlight(k)
  BY KeyFacts
<1>3. /\ StoreInv(store', k, InFlight(k), lastRead[k], admitted[k]) /\ DOMAIN store' \subseteq Keys
      /\ \A j : j # k => SameFor(store', store, j)
  BY <1>1, <1>2, TrimKeeps
<1>4. \A j : InFlight(j)' = InFlight(j)
  BY <1>1 DEF InFlight
<1>5. ASSUME NEW j \in Keys PROVE KeyInv(j)'
  <2>1. IsHistory(admitted[j], MaxTime, now) /\ StoreInv(store, j, InFlight(j), lastRead[j], admitted[j])
    BY KeyFacts
  <2>2. StoreInv(store', j, InFlight(j), lastRead[j], admitted[j])
    BY <1>3, <2>1, SameForKeeps
  <2> QED
    BY <1>1, <1>4, <2>1, <2>2, KeyKept
<1>6. CallsInv'
  BY <1>1 DEF LimiterInv, CallsInv
<1> QED
  BY <1>1, <1>3, <1>5, <1>6 DEF LimiterInv

(* Reset keeps the invariant.                                               *)
LEMMA ResetKeeps ==
  ASSUME WholeSeconds, LimiterInv, NEW k \in Keys, Reset(k)
  PROVE  LimiterInv'
<1>1. /\ store' = Delete(store, k) /\ admitted' = [admitted EXCEPT ![k] = NoHistory(MaxTime)]
      /\ UNCHANGED <<algorithm, now, call, lastRead, clashed>>
  BY DEF Reset
<1>2. now \in 0..MaxTime /\ DOMAIN admitted = Keys /\ DOMAIN store \subseteq Keys
  BY DEF LimiterInv
<1>3. k \notin DOMAIN store' /\ DOMAIN store' \subseteq Keys /\ \A j : j # k => SameFor(store', store, j)
  BY <1>1, <1>2 DEF Delete, SameFor
<1>4. /\ DOMAIN admitted' = Keys /\ admitted'[k] = NoHistory(MaxTime)
      /\ \A j \in Keys : j # k => admitted'[j] = admitted[j]
  BY <1>1, <1>2
<1>5. \A j : InFlight(j)' = InFlight(j)
  BY <1>1 DEF InFlight
<1>6. ASSUME NEW j \in Keys PROVE KeyInv(j)'
  <2>1. CASE j = k
    BY <1>1, <1>2, <1>3, <1>4, <2>1, NothingGranted, KeyKept
  <2>2. CASE j # k
    <3>1. IsHistory(admitted[j], MaxTime, now) /\ StoreInv(store, j, InFlight(j), lastRead[j], admitted[j])
      BY KeyFacts
    <3>2. StoreInv(store', j, InFlight(j), lastRead[j], admitted[j])
      BY <1>3, <2>2, <3>1, SameForKeeps
    <3> QED
      BY <1>1, <1>4, <1>5, <2>2, <3>1, <3>2, KeyKept
  <2> QED
    BY <2>1, <2>2
<1>7. CallsInv'
  BY <1>1 DEF LimiterInv, CallsInv
<1> QED
  BY <1>1, <1>3, <1>4, <1>6, <1>7 DEF LimiterInv

(* Every step of the limiter keeps the invariant.                           *)
LEMMA NextKeepsLimiterInv ==
  ASSUME WholeSeconds, LimiterInv, [Next]_vars
  PROVE  LimiterInv'
<1>1. CASE Tick
  BY <1>1, TickKeeps
<1>2. ASSUME NEW c \in Clients, NEW k \in Keys, NEW n \in Amounts, Start(c, k, n) PROVE LimiterInv'
  BY <1>2, StartKeeps
<1>3. ASSUME NEW c \in Clients, RunScript(c) \/ LoseReply(c) \/ Fail(c) PROVE LimiterInv'
  BY <1>3, RunScriptKeeps, LoseReplyKeeps, FailKeeps
<1>4. ASSUME NEW k \in Keys, TrimForRemaining(k) \/ Reset(k) PROVE LimiterInv'
  BY <1>4, TrimForRemainingKeeps, ResetKeeps
<1>5. CASE UNCHANGED vars
  <2>1. UNCHANGED <<algorithm, now, store, call, lastRead, clashed, admitted>>
    BY <1>5 DEF vars
  <2>2. \A j : InFlight(j)' = InFlight(j)
    BY <2>1 DEF InFlight
  <2>3. ASSUME NEW j \in Keys PROVE KeyInv(j)'
    BY <2>1, <2>2, KeyFacts, KeyKept
  <2>4. CallsInv'
    BY <2>1 DEF LimiterInv, CallsInv
  <2> QED
    BY <2>1, <2>3, <2>4 DEF LimiterInv
<1> QED
  BY <1>1, <1>2, <1>3, <1>4, <1>5 DEF Next

(* A Redis without keys.                                                    *)
LEMMA InitLimiterInv ==
  ASSUME WholeSeconds, Init
  PROVE  LimiterInv
<1>1. now \in 0..MaxTime /\ now = 0 /\ DOMAIN store = {} /\ algorithm \in Algorithms
  BY LimiterAssumption DEF Init, NoEntries
<1>2. \A c \in Clients : call[c] = NoCall
  BY DEF Init
<1>3. call \in [Clients -> {NoCall} \cup CallRecords]
  BY DEF Init
<1>4. CallsInv
  BY <1>2, <1>3 DEF CallsInv
<1>5. lastRead \in [Keys -> Int] /\ (\A k \in Keys : lastRead[k] <= now) /\ DOMAIN admitted = Keys
  BY <1>1 DEF Init
<1>6. ASSUME NEW k \in Keys PROVE KeyInv(k)
  <2>1. admitted[k] = NoHistory(MaxTime)
    BY DEF Init
  <2> QED
    BY <1>1, <2>1, NothingGranted DEF KeyInv
<1> QED
  BY <1>1, <1>4, <1>5, <1>6 DEF LimiterInv

(* The invariant of the limiter: what Redis holds for a key covers what its *)
(* callers were told, for each of the scripts of AllowN, whatever replies  *)
(* are lost and scripts sent again, late or not.                           *)
THEOREM LimiterInvAlways == WholeSeconds => (Spec => []LimiterInv)
<1> SUFFICES ASSUME WholeSeconds PROVE Spec => []LimiterInv
  OBVIOUS
<1>1. LimiterInv /\ [Next]_vars => LimiterInv'
  BY NextKeepsLimiterInv
<1>2. Init => LimiterInv
  BY InitLimiterInv
<1> QED
  BY <1>1, <1>2, PTL DEF Spec

-----------------------------------------------------------------------------
(* What callers may rely on.                                               *)

(* The invariant bounds what the callers of a key were told.               *)
LEMMA InvLimitHolds ==
  ASSUME WholeSeconds, LimiterInv
  PROVE  LimitHolds
<1> SUFFICES ASSUME NEW k \in Keys
             PROVE  CASE algorithm = "fixed_window"   -> AdmittedSince(k, now - Window + 1) <= 2 * Limit
                      [] algorithm = "sliding_window" ->
                            k \notin clashed => AdmittedSince(k, now - Window + MaxDelay + 1) <= Limit
                      [] algorithm = "token_bucket"   ->
                            \A from \in 0..now :
                                LET elapsed == now \div Second - from \div Second
                                IN  AdmittedSince(k, from) * WindowSeconds
                                        <= Limit * (WindowSeconds + elapsed + Lateness * (1 + elapsed \div WindowSeconds))
  BY DEF LimitHolds
<1> DEFINE h == admitted[k]
<1>1. /\ now \in 0..MaxTime /\ now \in Nat /\ IsHistory(h, MaxTime, now)
      /\ StoreInv(store, k, InFlight(k), lastRead[k], h)
      /\ algorithm \in {"token_bucket", "fixed_window", "sliding_window"}
  BY KeyFacts
<1>2. WindowTicks = Window /\ WindowTicks \in Nat \ {0} /\ Limit \in Nat /\ MaxDelay \in Nat /\ WindowSeconds \in Nat \ {0}
  BY Sizes DEF WholeSeconds
<1>3. ASSUME algorithm = "fixed_window" PROVE AdmittedSince(k, now - Window + 1) <= 2 * Limit
  <2>1. IF k \in DOMAIN store THEN FixedInv(store[k], h, now) ELSE NoFixedInv(h, now)
    BY <1>1, <1>3 DEF StoreInv
  <2>2. h[now + 1] - h[FromZero(now - WindowTicks + 1)] <= 2 * Limit
    <3> HIDE DEF h
    <3> QED
      BY <1>1, <2>1, FixedBound, NoFixedBound
  <2>3. ~(now - Window + 1 > now)
    BY <1>1, <1>2
  <2> QED
    BY <1>2, <2>2, <2>3 DEF AdmittedSince, GrantedIn
<1>4. ASSUME algorithm = "sliding_window" PROVE AdmittedSince(k, now - Window + MaxDelay + 1) <= Limit
  <2> DEFINE f == now - Window + MaxDelay + 1
  <2>1. CASE f > now
    BY <1>2, <2>1 DEF AdmittedSince
  <2>2. CASE ~(f > now)
    <3>1. MembersInv(Members(store, k), InFlight(k), h, now)
      BY <1>1, <1>4 DEF StoreInv
    <3>2. now - WindowTicks + MaxDelay + 1 <= now
      BY <1>1, <1>2, <2>2
    <3> HIDE DEF h
    <3>3. h[now + 1] - h[FromZero(now - WindowTicks + MaxDelay + 1)] <= Limit
      BY <1>1, <3>1, <3>2, MembersBound
    <3> QED
      BY <1>2, <2>2, <3>3 DEF AdmittedSince, GrantedIn, h
  <2> QED
    BY <2>1, <2>2
<1>5. ASSUME algorithm = "token_bucket", NEW from \in 0..now
      PROVE  LET elapsed == now \div Second - from \div Second
             IN  AdmittedSince(k, from) * WindowSeconds
                     <= Limit * (WindowSeconds + elapsed + Lateness * (1 + elapsed \div WindowSeconds))
  <2> DEFINE s == Sec(now) - Sec(from)
  <2>1. IF k \in DOMAIN store THEN BucketInv(store[k], h, now) ELSE NoBucketInv(h, now)
    BY <1>1, <1>5 DEF StoreInv
  <2>2. (h[now + 1] - h[from]) * WindowSeconds <=
            Limit * WindowSeconds + Limit * s + Limit * Lateness + LateRefill(s)
    <3> HIDE DEF h
    <3> QED
      BY <1>1, <2>1, BucketBound, NoBucketBound
  <2>3. s \in Nat
    <3>1. Sec(now) \in Nat /\ Sec(from) \in Nat /\ Sec(from) <= Sec(now)
      BY <1>1, SecMonotone
    <3> QED
      BY <3>1
  <2>4. AdmittedSince(k, from) = h[now + 1] - h[from]
    <3>1. from \in Nat /\ ~(from > now)
      BY <1>1
    <3>2. FromZero(from) = from
      BY <3>1 DEF FromZero
    <3> QED
      BY <3>1, <3>2 DEF AdmittedSince, GrantedIn
  <2> HIDE DEF s, h
  <2>5. AdmittedSince(k, from) * WindowSeconds <= Limit * (WindowSeconds + s + Lateness * (1 + s \div WindowSeconds))
    BY <2>2, <2>3, <2>4, Promise
  <2> QED
    BY <2>5 DEF s, Sec
<1> QED
  BY <1>1, <1>3, <1>4, <1>5

(* AllowN: however many instances share Redis, whatever replies are lost   *)
(* and scripts sent again, the callers of a key are never told yes more    *)
(* often than the fixed window, the sliding window, as long as no two of   *)
(* its calls read the same millisecond, or the token bucket promises.      *)
THEOREM LimitHoldsAlways == WholeSeconds => (Spec => []LimitHolds)
<1> SUFFICES ASSUME WholeSeconds PROVE Spec => []LimitHolds
  OBVIOUS
<1>1. LimiterInv => LimitHolds
  BY InvLimitHolds
<1> QED
  BY <1>1, LimiterInvAlways, PTL

(* Remaining tells what a call would be granted now.                       *)
LEMMA InvRemainingExact ==
  ASSUME WholeSeconds, LimiterInv
  PROVE  RemainingExact
<1> SUFFICES ASSUME NEW k \in Keys
             PROVE  /\ Remaining(k) > 0 => Script(k, Remaining(k), now).allowed
                    /\ algorithm # "token_bucket" => ~Script(k, Remaining(k) + 1, now).allowed
  BY DEF RemainingExact
<1>1. /\ now \in 0..MaxTime /\ now \in Nat /\ StoreInv(store, k, InFlight(k), lastRead[k], admitted[k])
      /\ algorithm \in {"token_bucket", "fixed_window", "sliding_window"} /\ Limit \in Nat /\ WindowTicks \in Nat
  BY KeyFacts, Sizes
<1>2. CASE algorithm = "token_bucket"
  <2> DEFINE tokens == BucketTokens(k, Sec(now))
  <2>1. Remaining(k) = Value(k, [tokens |-> Limit]).tokens
    BY <1>2 DEF Remaining
  <2>2. tokens >= Remaining(k)
    <3>1. CASE k \notin DOMAIN store
      <4>1. tokens = Limit
        BY <1>1, <1>2, <3>1, TokensFound
      <4>2. Remaining(k) = Limit
        BY <2>1, <3>1 DEF Value
      <4> QED
        BY <1>1, <4>1, <4>2
    <3>2. CASE k \in DOMAIN store
      <4> DEFINE e == store[k]
                 T == e.expireAt - WindowTicks
      <4>1. BucketInv(e, admitted[k], now)
        BY <1>1, <1>2, <3>2 DEF StoreInv
      <4>2. /\ T \in Nat /\ e.expireAt \in (now + 1)..(now + WindowTicks)
            /\ e.val.tokens \in 0..Limit /\ e.val.last \in 0..Sec(T)
        BY <4>1 DEF BucketInv
      <4>3. T <= now
        BY <1>1, <4>2
      <4> HIDE DEF T
      <4>4. Sec(T) \in Nat /\ Sec(now) \in Nat /\ Sec(T) <= Sec(now)
        BY <1>1, <4>2, <4>3, SecMonotone
      <4>5. e.val.last <= Sec(now)
        BY <4>2, <4>4
      <4>6. PICK F \in Int :
               /\ e.val.last <= Sec(now) => F >= 0
               /\ tokens = IF e.val.tokens + F > Limit THEN Limit ELSE e.val.tokens + F
        BY <1>1, <1>2, <3>2, TokensFound
      <4>7. Remaining(k) = e.val.tokens
        BY <2>1, <3>2 DEF Value
      <4> HIDE DEF e, tokens
      <4> QED
        BY <1>1, <4>2, <4>5, <4>6, <4>7
    <3> QED
      BY <3>1, <3>2
  <2>3. Script(k, Remaining(k), now).allowed <=> tokens >= Remaining(k)
    <3> DEFINE n == Remaining(k)
    <3> HIDE DEF n
    <3>1. Script(k, n, now) = TokenBucketScript(k, n, now)
      BY <1>2 DEF Script
    <3>2. TokenBucketScript(k, n, now).allowed <=> tokens >= n
      BY DEF TokenBucketScript, Sec
    <3> QED
      BY <3>1, <3>2 DEF n
  <2> QED
    BY <1>2, <2>2, <2>3
<1>3. CASE algorithm = "fixed_window"
  <2> DEFINE count == Value(k, 0)
  <2>1. count \in Int
    <3>1. CASE k \notin DOMAIN store
      BY <3>1 DEF Value
    <3>2. CASE k \in DOMAIN store
      <4>1. store[k].val \in 1..Limit
        BY <1>1, <1>3, <3>2 DEF StoreInv, FixedInv
      <4> QED
        BY <1>1, <3>2, <4>1 DEF Value
    <3> QED
      BY <3>1, <3>2
  <2>2. Remaining(k) = Limit - count
    BY <1>3 DEF Remaining
  <2>3. \A n : Script(k, n, now).allowed <=> count + n <= Limit
    BY <1>3 DEF Script, FixedWindowScript, Within
  <2> HIDE DEF count
  <2> QED
    BY <1>1, <2>1, <2>2, <2>3
<1>4. CASE algorithm = "sliding_window"
  <2> DEFINE S == Members(store, k)
             V == Newer(S, now - WindowTicks)
             count == Cardinality(V)
  <2>1. Trimmed(k, now) = V
    BY DEF Trimmed, Value, Members, Newer
  <2>2. IsFiniteSet(S) /\ V \in SUBSET S
    BY <1>1, <1>4 DEF StoreInv, MembersInv, Newer
  <2>3. count \in Nat
    <3> HIDE DEF S, V
    <3> QED
      BY <2>2, FS_Subset, FS_CardinalityType
  <2>4. Remaining(k) = Limit - count
    BY <1>4, <2>1 DEF Remaining
  <2>5. \A n : Script(k, n, now).allowed <=> count + n <= Limit
    BY <1>4, <2>1 DEF Script, SlidingWindowScript, Within
  <2> HIDE DEF count
  <2> QED
    BY <1>1, <2>3, <2>4, <2>5
<1> QED
  BY <1>1, <1>2, <1>3, <1>4

(* Remaining, "the number of remaining requests in the current window":    *)
(* AllowN grants as many at once and, with the two window algorithms, not  *)
(* one more, whatever else the instances of the limiter are doing.         *)
THEOREM RemainingExactAlways == WholeSeconds => (Spec => []RemainingExact)
<1> SUFFICES ASSUME WholeSeconds PROVE Spec => []RemainingExact
  OBVIOUS
<1>1. LimiterInv => RemainingExact
  BY InvRemainingExact
<1> QED
  BY <1>1, LimiterInvAlways, PTL

=============================================================================
