---------------------------- MODULE LimiterRedis ----------------------------
(***************************************************************************)
(* The Redis rate limiter (adapters/limiter-redis): service instances that *)
(* share one Redis.  AllowN reads the clock of its instance, then Redis    *)
(* runs one Lua script; other calls come between the two.  A reply may be  *)
(* lost after the script ran: go-redis then sends the script again, or     *)
(* AllowN returns an error.                                                *)
(*                                                                         *)
(* A tick is a millisecond; Second ticks are a second.  Redis is external: *)
(* a key with an expiry is gone when its time has come, and EXPIRE with 0  *)
(* deletes it at once.                                                     *)
(***************************************************************************)
EXTENDS Integers, FiniteSets, GoMap, History

CONSTANTS
    Algorithms,     \* the values of Config.Algorithm considered
    Keys,
    Clients,        \* calls that run at the same time
    Amounts,        \* the n of AllowN; n <= 0 is an error
    Limit,          \* LimiterRedis.limit
    Window,         \* LimiterRedis.window, in ticks
    Second,         \* 1000
    MaxDelay,       \* bound: ticks from the reading of the clock to the script
    MaxTime         \* bound: the last tick

ASSUME LimiterAssumption ==
    /\ Algorithms \subseteq {"token_bucket", "fixed_window", "sliding_window"}
    /\ Limit \in Nat \ {0} /\ Window \in Nat \ {0} /\ Second \in Nat \ {0}
    /\ Amounts \subseteq Nat \ {0}
    /\ MaxDelay \in Nat /\ MaxTime \in Nat

VARIABLES
    algorithm,  \* LimiterRedis.algorithm, which New sets
    now,
    store,      \* the keys in Redis: val and expireAt
    call,       \* the calls in progress, with the clock reading that they send
    lastRead,   \* history: when the clock was last read for a key
    clashed,    \* history: the keys of which two calls of the sliding window have read
                \* the same millisecond
    admitted    \* history: what the callers of a key were told they may do before each
                \* tick, as long as it has not clashed

vars == <<algorithm, now, store, call, lastRead, clashed, admitted>>

NoCall == [key |-> "none"]

(* int64(lr.window.Seconds()) truncates.                                   *)
WindowSeconds == Window \div Second

MutantSecondsAsTicks == WindowSeconds

WindowTicks == WindowSeconds * Second

TypeOK ==
    /\ algorithm \in Algorithms
    /\ now \in 0..MaxTime
    /\ DOMAIN store \subseteq Keys
    /\ \A k \in DOMAIN store :
          /\ store[k].expireAt \in (now + 1)..(now + 2 * WindowTicks)
          /\ store[k].val \in
                CASE algorithm = "token_bucket"   -> [tokens : 0..Limit, last : 0..(now \div Second)]
                  [] algorithm = "fixed_window"   -> 1..Limit
                  [] algorithm = "sliding_window" -> SUBSET ((0..now) \X (1..Limit))
    /\ \A c \in Clients : call[c] # NoCall => call[c] \in [key : Keys, n : Amounts, at : (now - MaxDelay)..now]
    /\ lastRead \in [Keys -> -1..now] /\ clashed \subseteq Keys
    /\ admitted \in [Keys -> Histories(MaxTime)]

Init ==
    /\ algorithm \in Algorithms
    /\ now = 0
    /\ store = NoEntries
    /\ call = [c \in Clients |-> NoCall]
    /\ lastRead = [k \in Keys |-> -1] /\ clashed = {}
    /\ admitted = [k \in Keys |-> NoHistory(MaxTime)]

(* Redis without the keys that are expired at t.                           *)
Alive(keys, t) == [k \in {j \in DOMAIN keys : keys[j].expireAt > t} |-> keys[k]]

Tick ==
    /\ now < MaxTime
    /\ \A c \in Clients : call[c] # NoCall => now - call[c].at < MaxDelay
    /\ now' = now + 1
    /\ store' = Alive(store, now + 1)
    /\ UNCHANGED <<algorithm, call, lastRead, clashed, admitted>>

(* AllowN up to the call of the script.                                    *)
Start(c, k, n) ==
    /\ call[c] = NoCall
    /\ call' = [call EXCEPT ![c] = [key |-> k, n |-> n, at |-> now]]
    /\ lastRead' = [lastRead EXCEPT ![k] = now]
    /\ IF algorithm = "sliding_window" /\ lastRead[k] = now
       THEN clashed' = clashed \cup {k} /\ admitted' = [admitted EXCEPT ![k] = NoHistory(MaxTime)]
       ELSE UNCHANGED <<clashed, admitted>>
    /\ UNCHANGED <<algorithm, now, store>>

-----------------------------------------------------------------------------
(* The scripts.  Each gives its answer and the value and expiry that it     *)
(* leaves for the key.                                                     *)

Value(k, default) == IF k \in DOMAIN store THEN store[k].val ELSE default

Stored(value, ttl) == [val |-> value, expireAt |-> now + ttl]

(* tokenBucketScript: whole tokens, refilled at grants only.               *)
BucketTokens(k, unix) ==
    LET bucket == Value(k, [tokens |-> Limit, last |-> unix])
        tokens == bucket.tokens + ((unix - bucket.last) * Limit) \div WindowSeconds
    IN  IF tokens > Limit THEN Limit ELSE tokens

MutantKeepsLastUpdate(k, n, at) ==
    LET tokens == BucketTokens(k, at \div Second)
    IN  IF tokens >= n
        THEN [allowed |-> TRUE,
              store |-> Put(store, k, Stored([tokens |-> tokens - n, last |-> Value(k, [last |-> at \div Second]).last],
                                             WindowTicks))]
        ELSE [allowed |-> FALSE, store |-> store]

TokenBucketScript(k, n, at) ==
    LET tokens == BucketTokens(k, at \div Second)
    IN  IF tokens >= n
        THEN [allowed |-> TRUE,
              store |-> Put(store, k, Stored([tokens |-> tokens - n, last |-> at \div Second], WindowTicks))]
        ELSE [allowed |-> FALSE, store |-> store]

(* The test of the two window scripts.                                     *)
Within(count, n) == count + n <= Limit

(* fixedWindowScript: the first request of a window sets its expiry.       *)
FixedWindowScript(k, n) ==
    LET count == Value(k, 0)
    IN  IF Within(count, n)
        THEN [allowed |-> TRUE,
              store |-> Put(store, k, IF count = 0 THEN Stored(n, WindowTicks)
                                      ELSE [store[k] EXCEPT !.val = count + n])]
        ELSE [allowed |-> FALSE, store |-> store]

(* slidingWindowScript: a sorted set of members "now:i" with score now;     *)
(* Redis drops a set that becomes empty.                                   *)
MutantTrimmedStrictly(k, at) == {m \in Value(k, {}) : m[1] > at - WindowTicks + 1}

Trimmed(k, at) == {m \in Value(k, {}) : m[1] > at - WindowTicks}

WithMembers(k, members, expiry) ==
    [j \in (DOMAIN store \ {k}) \cup (IF members = {} THEN {} ELSE {k}) |->
        IF j = k THEN [val |-> members, expireAt |-> expiry] ELSE store[j]]

SlidingWindowScript(k, n, at) ==
    LET members == Trimmed(k, at)
        allowed == Within(Cardinality(members), n)
    IN  [allowed |-> allowed,
         store |-> IF allowed
                   THEN WithMembers(k, members \cup {<<at, i>> : i \in 1..n}, now + 2 * WindowTicks)
                   ELSE WithMembers(k, members, store[k].expireAt)]

Script(k, n, at) ==
    CASE algorithm = "token_bucket"   -> TokenBucketScript(k, n, at)
      [] algorithm = "fixed_window"   -> FixedWindowScript(k, n)
      [] algorithm = "sliding_window" -> SlidingWindowScript(k, n, at)

(* Redis runs the script and AllowN returns its answer.                    *)
RunScript(c) ==
    LET k == call[c].key
        result == Script(k, call[c].n, call[c].at)
    IN  /\ call[c] # NoCall
        /\ store' = Alive(result.store, now)
        /\ admitted' = IF result.allowed /\ k \notin clashed
                       THEN [admitted EXCEPT ![k] = Granted(@, now, call[c].n)]
                       ELSE admitted
        /\ call' = [call EXCEPT ![c] = NoCall]
        /\ UNCHANGED <<algorithm, now, lastRead, clashed>>

(* Redis runs the script and the reply is lost; the call goes on.          *)
LoseReply(c) ==
    /\ call[c] # NoCall
    /\ store' = Alive(Script(call[c].key, call[c].n, call[c].at).store, now)
    /\ UNCHANGED <<algorithm, now, call, lastRead, clashed, admitted>>

(* AllowN returns an error.                                                *)
Fail(c) ==
    /\ call[c] # NoCall
    /\ call' = [call EXCEPT ![c] = NoCall]
    /\ UNCHANGED <<algorithm, now, store, lastRead, clashed, admitted>>

(* The first of the two commands of Remaining for a sliding window.        *)
TrimForRemaining(k) ==
    /\ algorithm = "sliding_window"
    /\ store' = WithMembers(k, Trimmed(k, now), store[k].expireAt)
    /\ UNCHANGED <<algorithm, now, call, lastRead, clashed, admitted>>

MutantRemainingUntrimmed(k) ==
    Limit - IF algorithm = "sliding_window" THEN Cardinality(Value(k, {})) ELSE 0

Remaining(k) ==
    CASE algorithm = "token_bucket"   -> Value(k, [tokens |-> Limit]).tokens
      [] algorithm = "fixed_window"   -> Limit - Value(k, 0)
      [] algorithm = "sliding_window" -> Limit - Cardinality(Trimmed(k, now))

(* Reset: DEL.                                                             *)
Reset(k) ==
    /\ store' = Delete(store, k)
    /\ admitted' = [admitted EXCEPT ![k] = NoHistory(MaxTime)]
    /\ UNCHANGED <<algorithm, now, call, lastRead, clashed>>

Next ==
    \/ Tick
    \/ \E c \in Clients, k \in Keys, n \in Amounts : Start(c, k, n)
    \/ \E c \in Clients : RunScript(c) \/ LoseReply(c) \/ Fail(c)
    \/ \E k \in Keys : TrimForRemaining(k) \/ Reset(k)

Spec == Init /\ [][Next]_vars

-----------------------------------------------------------------------------
(* What a key was admitted from tick `from` until now.                     *)
AdmittedSince(k, from) == IF from > now THEN 0 ELSE GrantedIn(admitted[k], from, now)

(* The seconds by which a script may be late.                              *)
Lateness == (MaxDelay + Second - 1) \div Second

(* Whatever replies are lost and scripts sent again, late or not, callers   *)
(* are never told yes more often than the algorithm promises.  Fixed       *)
(* window: at most twice the limit in the time of a window.  Sliding       *)
(* window: at most the limit in a window shortened by the delay of a       *)
(* script, which counts its request too early; but nothing is said of a    *)
(* key of which two calls have read the same millisecond, since their      *)
(* members have the same names and count once.  Token bucket: never more   *)
(* than a full bucket and what comes in; a late script that finds the      *)
(* bucket expired dates a full one back and gains its lateness again, but  *)
(* that needs a window without a grant.                                    *)
LimitHolds ==
    \A k \in Keys :
        CASE algorithm = "fixed_window"   -> AdmittedSince(k, now - Window + 1) <= 2 * Limit
          [] algorithm = "sliding_window" ->
                k \notin clashed => AdmittedSince(k, now - Window + MaxDelay + 1) <= Limit
          [] algorithm = "token_bucket"   ->
                \A from \in 0..now :
                    LET elapsed == now \div Second - from \div Second
                    IN  AdmittedSince(k, from) * WindowSeconds
                            <= Limit * (WindowSeconds + elapsed + Lateness * (1 + elapsed \div WindowSeconds))

(* ports/limiter.go: Remaining is "the number of remaining requests in the  *)
(* current window": as many are allowed now and, in the two window         *)
(* algorithms, not one more.                                               *)
RemainingExact ==
    \A k \in Keys :
        /\ Remaining(k) > 0 => Script(k, Remaining(k), now).allowed
        /\ algorithm # "token_bucket" => ~Script(k, Remaining(k) + 1, now).allowed

=============================================================================
