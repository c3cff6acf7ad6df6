--------------------------- MODULE LimiterMemory ---------------------------
(***************************************************************************)
(* The in-memory rate limiter, adapters/limiter-memory: the facade of      *)
(* limiter-memory.go over the token bucket of module TokenBucket and the   *)
(* two window algorithms, fixed_window.go and sliding_window.go.           *)
(* NewLimiterMemory builds one of the three; `algorithm` is its choice.    *)
(* Every method runs under one mutex and is one action here; time passes   *)
(* between them in ticks.                                                  *)
(***************************************************************************)
EXTENDS TokenBucket, History, GoMap, FiniteSets

CONSTANTS
    Algorithms,         \* the values of Config.Algorithm considered
    Limit,              \* FixedWindow.limit, SlidingWindow.limit
    WindowSize,         \* FixedWindow.windowSize, SlidingWindow.windowSize
    WindowCleanupAge,   \* 24 * time.Hour
    IntMax              \* math.MaxInt64

ASSUME AlgorithmAssumption == Algorithms \subseteq {"bucket", "fixed", "sliding"}
ASSUME LimitAssumption == Limit \in Nat \ {0} /\ IntMax \in Nat /\ Limit <= IntMax
ASSUME WindowAssumption == {WindowSize, WindowCleanupAge} \subseteq Nat \ {0} /\ Amounts \subseteq 1..IntMax

VARIABLES
    algorithm,          \* LimiterMemory.algo
    windows,            \* FixedWindow.windows, a function on the keys present
    requests,           \* SlidingWindow.requests, a function on the keys present
    admitted            \* history: what a window algorithm allowed each key

limiterVars == <<bucketVars, algorithm, windows, requests, admitted>>

(* int64 addition of two non-negative values.                              *)
AddInt64(a, b) == IF a + b > IntMax THEN a + b - 2 * (IntMax + 1) ELSE a + b

LimiterTypeOK ==
    /\ algorithm \in Algorithms
    /\ BucketTypeOK
    /\ DOMAIN windows \subseteq Keys
    /\ \A k \in DOMAIN windows :
          windows[k] \in [count : 0..Limit, windowEnd : 0..(MaxTime + WindowSize), lastAccess : 0..now]
    /\ DOMAIN requests \subseteq Keys
    /\ \A k \in DOMAIN requests :
          /\ requests[k] \in [timestamps : SUBSET ((0..now) \X (1..Limit)), lastRead : 0..now]
          /\ Cardinality(requests[k].timestamps) <= Limit
    /\ algorithm # "bucket" => tokens = NoEntries
    /\ algorithm # "fixed" => windows = NoEntries
    /\ algorithm # "sliding" => requests = NoEntries
    /\ admitted \in [Keys -> Histories(MaxTime)]

(* NewLimiterMemory: an algorithm with no keys.                            *)
LimiterInit ==
    /\ algorithm \in Algorithms
    /\ BucketInit
    /\ windows = NoEntries
    /\ requests = NoEntries
    /\ admitted = [k \in Keys |-> NoHistory(MaxTime)]

Tick == BucketTick /\ UNCHANGED <<algorithm, windows, requests, admitted>>

(* What the two window algorithms do around a decision.                    *)
Charge(k, n, allowed) ==
    /\ lastCleanupTime' = IF CleanupDue THEN now ELSE lastCleanupTime
    /\ admitted' = IF allowed THEN [admitted EXCEPT ![k] = Granted(@, now, n)] ELSE admitted
    /\ UNCHANGED <<algorithm, now, tokens, debt>>

-----------------------------------------------------------------------------
(* The fixed window.                                                       *)

(* cleanup: the windows of keys not used for WindowCleanupAge are dropped. *)
MutantCleanupAll == NoEntries

FixedCleanup == [k \in {j \in DOMAIN windows : windows[j].lastAccess >= now - WindowCleanupAge} |-> windows[k]]

KeptWindows == IF CleanupDue THEN FixedCleanup ELSE windows

(* The window that a request of k counts in: the present one until it has   *)
(* expired, then a new one.                                                *)
MutantCountNotReset(ws, k) ==
    [count |-> IF k \in DOMAIN ws THEN ws[k].count ELSE 0,
     windowEnd |-> IF k \in DOMAIN ws /\ now <= ws[k].windowEnd THEN ws[k].windowEnd ELSE now + WindowSize,
     lastAccess |-> now]

CurrentWindow(ws, k) ==
    IF k \in DOMAIN ws /\ now <= ws[k].windowEnd THEN ws[k]
    ELSE [count |-> 0, windowEnd |-> now + WindowSize, lastAccess |-> now]

(* The two tests of AllowN: the limit not reached, and not exceeded by n.   *)
MutantFitsIgnoresN(k, n) == CurrentWindow(KeptWindows, k).count < Limit

FixedAdmits(k, n) ==
    LET count == CurrentWindow(KeptWindows, k).count
    IN  count < Limit /\ AddInt64(count, n) <= Limit

FixedAllowN(k, n) ==
    /\ algorithm = "fixed"
    /\ windows' = Put(KeptWindows, k, [CurrentWindow(KeptWindows, k) EXCEPT
                                          !.lastAccess = now,
                                          !.count = IF FixedAdmits(k, n) THEN AddInt64(@, n) ELSE @])
    /\ Charge(k, n, FixedAdmits(k, n))
    /\ UNCHANGED requests

FixedRemaining(k) ==
    IF k \in DOMAIN windows /\ now <= windows[k].windowEnd THEN Limit - windows[k].count ELSE Limit

FixedReset(k) ==
    /\ algorithm = "fixed"
    /\ windows' = Delete(windows, k)
    /\ admitted' = [admitted EXCEPT ![k] = NoHistory(MaxTime)]
    /\ UNCHANGED <<bucketVars, algorithm, requests>>

-----------------------------------------------------------------------------
(* The sliding window.  The slice of timestamps, which is only filtered,     *)
(* counted and appended to, is a set of them, numbered to tell equal ones  *)
(* apart.                                                                  *)

(* cleanup: the history of keys not used for WindowCleanupAge is dropped.  *)
SlidingCleanup == [k \in {j \in DOMAIN requests : requests[j].lastRead >= now - WindowCleanupAge} |-> requests[k]]

KeptRequests == IF CleanupDue THEN SlidingCleanup ELSE requests

(* The timestamps of k that are inside the window, which is open at its     *)
(* old end: a request WindowSize ago no longer counts.                     *)
MutantDropsOneTickEarly(reqs, k) ==
    IF k \in DOMAIN reqs THEN {ts \in reqs[k].timestamps : ts[1] > now - WindowSize + 1} ELSE {}

ValidTimestamps(reqs, k) ==
    IF k \in DOMAIN reqs THEN {ts \in reqs[k].timestamps : ts[1] > now - WindowSize} ELSE {}

SlidingAdmits(k, n) ==
    LET count == Cardinality(ValidTimestamps(KeptRequests, k))
    IN  count < Limit /\ AddInt64(count, n) <= Limit

SlidingAllowN(k, n) ==
    LET valid == ValidTimestamps(KeptRequests, k)
    IN  /\ algorithm = "sliding"
        /\ requests' = Put(KeptRequests, k,
                           [timestamps |-> IF SlidingAdmits(k, n)
                                           THEN valid \cup {<<now, Cardinality(valid) + i>> : i \in 1..n}
                                           ELSE valid,
                            lastRead |-> now])
        /\ Charge(k, n, SlidingAdmits(k, n))
        /\ UNCHANGED windows

SlidingRemaining(k) == Limit - Cardinality(ValidTimestamps(requests, k))

SlidingReset(k) ==
    /\ algorithm = "sliding"
    /\ requests' = Delete(requests, k)
    /\ admitted' = [admitted EXCEPT ![k] = NoHistory(MaxTime)]
    /\ UNCHANGED <<bucketVars, algorithm, windows>>

-----------------------------------------------------------------------------
(* LimiterMemory: every method is passed on to the algorithm.              *)
TokenAllowN(k, n) ==
    /\ algorithm = "bucket"
    /\ BucketAllowN(k, n)
    /\ UNCHANGED <<algorithm, windows, requests, admitted>>

AllowN(k, n) == TokenAllowN(k, n) \/ FixedAllowN(k, n) \/ SlidingAllowN(k, n)

(* The answer that AllowN gives.                                           *)
Admits(k, n) ==
    CASE algorithm = "bucket"  -> Available(IF CleanupDue THEN BucketCleanup ELSE tokens, k) >= n * Token
      [] algorithm = "fixed"   -> FixedAdmits(k, n)
      [] algorithm = "sliding" -> SlidingAdmits(k, n)

Remaining(k) ==
    CASE algorithm = "bucket"  -> BucketRemaining(k)
      [] algorithm = "fixed"   -> FixedRemaining(k)
      [] algorithm = "sliding" -> SlidingRemaining(k)

TokenReset(k) ==
    /\ algorithm = "bucket"
    /\ BucketReset(k)
    /\ UNCHANGED <<algorithm, windows, requests, admitted>>

Reset(k) == TokenReset(k) \/ FixedReset(k) \/ SlidingReset(k)

LimiterNext ==
    \/ Tick
    \/ \E k \in Keys, n \in Amounts : AllowN(k, n)
    \/ \E k \in Keys : Reset(k)

LimiterSpec == LimiterInit /\ [][LimiterNext]_limiterVars

-----------------------------------------------------------------------------
AdmittedIn(k, from, to) == GrantedIn(admitted[k], from, to)

(* No stretch of time as long as a window sees a key admitted more than the  *)
(* limit with the sliding window, or more than twice the limit with the    *)
(* fixed one, which may be used up at the end of one window and at the     *)
(* start of the next; whatever expiry, refusals, other keys and the        *)
(* cleanup of idle ones do.                                                *)
WindowLimitHolds ==
    \A k \in Keys :
        /\ algorithm = "fixed" => AdmittedIn(k, now - WindowSize, now) <= 2 * Limit
        /\ algorithm = "sliding" => AdmittedIn(k, now - WindowSize + 1, now) <= Limit

(* Nothing is refused that would have fitted: what Remaining says is the     *)
(* limit less what the key was admitted inside its open window, through    *)
(* expiry, refused requests, cleanup and reset; a bucket admits what       *)
(* Remaining says and no more.                                             *)
RemainingExact ==
    \A k \in Keys :
        /\ algorithm = "sliding" => Remaining(k) = Limit - AdmittedIn(k, now - WindowSize + 1, now)
        /\ (algorithm = "fixed" /\ k \in DOMAIN windows /\ now <= windows[k].windowEnd) =>
               Remaining(k) = Limit - AdmittedIn(k, windows[k].windowEnd - WindowSize, now)
        /\ algorithm = "bucket" => \A n \in Amounts : Admits(k, n) <=> n <= Remaining(k)

OthersUntouched ==
    \A j, k \in Keys : \A n \in Amounts : (j # k /\ AllowN(j, n)) => Remaining(k)' = Remaining(k)

(* A request of one key, with the cleanup it may trigger, never changes     *)
(* what another key has left.                                              *)
KeysIndependent == [][OthersUntouched]_limiterVars

=============================================================================
