------------------------------ MODULE History ------------------------------
(***************************************************************************)
(* What the specifications of the limiters and of the quota managers       *)
(* remember of the past: the running total of what was granted before each *)
(* tick, so that what was granted in a stretch of time is a difference.    *)
(***************************************************************************)
EXTENDS Integers

(* The totals before each of the ticks 0..last and after the last one.     *)
Ticks(last) == 0..(last + 1)

Histories(last) == [Ticks(last) -> Nat]

NoHistory(last) == [t \in Ticks(last) |-> 0]

(* n is granted at a tick: every later total is higher by n.               *)
Granted(h, tick, n) == [t \in DOMAIN h |-> IF t > tick THEN h[t] + n ELSE h[t]]

FromZero(t) == IF t < 0 THEN 0 ELSE t

(* What was granted from tick `from`, possibly before 0, to tick `to`.     *)
GrantedIn(h, from, to) == h[to + 1] - h[FromZero(from)]

(* The history h of ticks 0..last as it is at tick n: it starts at 0, never *)
(* falls, and has not changed since n.                                     *)
IsHistory(h, last, n) ==
    /\ h \in Histories(last)
    /\ h[0] = 0
    /\ \A a, b \in Ticks(last) : a <= b => h[a] <= h[b]
    /\ \A t \in Ticks(last) : t > n => h[t] = h[n + 1]

=============================================================================
