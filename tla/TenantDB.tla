------------------------------ MODULE TenantDB ------------------------------
(***************************************************************************)
(* The tenant-aware database handle of package tenantkit: DB and Tx of     *)
(* wrap.go, called by several goroutines that share one query cache        *)
(* (query_cache.go) and one pool of argument slices (slicePool).           *)
(*                                                                         *)
(* A call of Query, QueryRow or Exec, on the DB or on a Tx (Begin keeps no *)
(* tenant, and Tx repeats the methods of DB), goes through                 *)
(*   idle -> lookup -> count -> exec              on a cache hit           *)
(*   idle -> lookup -> count -> rewrite -> append -> put -> exec           *)
(*                                                on a cache miss          *)
(* where other goroutines may run between any two steps.  A statement that *)
(* needs no filter goes from idle to exec with the caller's own arguments. *)
(*                                                                         *)
(* A pooled slice keeps its backing array in mem.  The rewriters return a  *)
(* slice of that array, and their deferred putArgsSlice gives the array    *)
(* back to the pool at the same moment: from then on both the goroutine    *)
(* and the pool have it.                                                   *)
(***************************************************************************)
EXTENDS TenantRewrite, QueryCache

CONSTANTS
    CallContexts,   \* the contexts that callers pass, a subset of Contexts
    Methods,        \* a subset of {"Query", "QueryRow", "Exec"}
    Style,          \* DB.placeholderStyle
    Arrays,         \* backing arrays of pooled slices
    NoArray,
    SliceCap        \* capacity of a pooled slice; slicePool.New makes 8

ASSUME NoArrayAssumption == NoArray \notin Arrays
ASSUME SliceCapAssumption == SliceCap \in Nat
ASSUME StyleAssumption == Style \in Styles
ASSUME QueriesAssumption == \A s \in Queries : IsStatement(Style, s)
ASSUME CallContextsAssumption == CallContexts \subseteq Contexts

VARIABLES
    pool,       \* the idle arrays of slicePool
    mem,        \* the contents of the arrays
    pc,         \* where a goroutine is in its call
    call,       \* the call: method, statement, context
    marks,      \* the markers of the statement to execute
    args,       \* the slice with its arguments
    held,       \* the array that a rewriter took from the pool
    todo,       \* the segments that it still has to append
    last        \* the result of its last call

(* What injectTenantFilter stores for a statement.                         *)
CachedForm(s) == [marks |-> RewriteMarks(Style, s), argCount |-> TenantArgCount(s)]

CachedForms == [marks : Seq(Nat), argCount : Nat]

ASSUME TransformIsRewrite == \A s \in Queries : Transform(s) = CachedForm(s)

poolVars == <<pool, mem>>
callVars == <<pc, call, marks, args, held, todo>>
vars == <<entries, hits, misses, pending, pool, mem, pc, call, marks, args, held, todo, last>>

-----------------------------------------------------------------------------
(* Slices.  A slice either has its own values or is the first len values   *)
(* of a pooled array.                                                      *)
OwnSlice(values) == [arr |-> NoArray, len |-> Len(values), vals |-> values]

PooledSlice(a, n) == [arr |-> a, len |-> n, vals |-> <<>>]

SliceValues(m, sl) ==
    IF sl.arr = NoArray THEN sl.vals ELSE [i \in 1..sl.len |-> m[sl.arr][i]]

ZeroArray == [i \in 1..SliceCap |-> NoTenant]

(* append(slice, seg...), with the arrays in m: in place while it fits the  *)
(* array, else into a new array with a copy of what the slice held.        *)
Grows(sl, seg) == sl.arr = NoArray \/ sl.len + Len(seg) > SliceCap

AppendSlice(m, sl, seg) ==
    IF Grows(sl, seg) THEN OwnSlice(SliceValues(m, sl) \o seg)
    ELSE PooledSlice(sl.arr, sl.len + Len(seg))

AppendMem(m, sl, seg) ==
    IF Grows(sl, seg) THEN m
    ELSE [m EXCEPT ![sl.arr] =
            [i \in 1..SliceCap |->
                IF i > sl.len /\ i <= sl.len + Len(seg) THEN seg[i - sl.len] ELSE @[i]]]

NoCall == [method |-> "none"]

NoResult == [outcome |-> "none"]

Init ==
    /\ CacheInit
    /\ pool = {}
    /\ mem = [a \in Arrays |-> ZeroArray]
    /\ pc = [g \in Goroutines |-> "idle"]
    /\ call = [g \in Goroutines |-> NoCall]
    /\ marks = [g \in Goroutines |-> <<>>]
    /\ args = [g \in Goroutines |-> OwnSlice(<<>>)]
    /\ held = [g \in Goroutines |-> NoArray]
    /\ todo = [g \in Goroutines |-> <<>>]
    /\ last = [g \in Goroutines |-> NoResult]

(* A call that fails before it reaches the database.  Query and Exec return *)
(* the error; QueryRow hands out a zero sql.Row, which carries none.       *)
Failure(method) == [outcome |-> "failed", err |-> method # "QueryRow"]

Executed(c, bound) == [outcome |-> "executed", stmt |-> c.stmt, ctx |-> c.ctx, bound |-> bound]

(* DB.Query, DB.QueryRow, DB.Exec and their Tx counterparts up to the       *)
(* decision of the interceptor.                                            *)
Call(g, m, s, ctx) ==
    /\ pc[g] = "idle"
    /\ LET decision == ShouldFilter(ctx, s)
           next == [pc EXCEPT ![g] = CASE decision = "tenant_table_access" -> "lookup"
                                       [] decision = "missing_tenant" -> "idle"
                                       [] OTHER -> "exec"]
       IN  /\ pc' = next
           /\ last' = [last EXCEPT ![g] = IF decision = "missing_tenant" THEN Failure(m) ELSE NoResult]
           /\ call' = [call EXCEPT ![g] = IF next[g] = "idle" THEN NoCall
                                          ELSE [method |-> m, stmt |-> s, ctx |-> ctx]]
           /\ marks' = [marks EXCEPT ![g] = IF next[g] = "exec" THEN UserMarkers(s) ELSE <<>>]
           /\ args' = [args EXCEPT ![g] = OwnSlice(IF next[g] = "exec" THEN CallArgs(s) ELSE <<>>)]
    /\ UNCHANGED <<entries, hits, misses, pending, pool, mem, held, todo>>

(* injectTenantFilter: the lookup.  A hit gives the cached markers and      *)
(* arguments in a new slice.                                               *)
CacheLookup(g) ==
    LET s == call[g].stmt
        entry == entries[HashQuery(s)].result
    IN  /\ pc[g] = "lookup"
        /\ GetLookup(g, s)
        /\ marks' = [marks EXCEPT ![g] = IF Found(s) THEN entry.marks ELSE <<>>]
        /\ args' = [args EXCEPT ![g] =
                      OwnSlice(IF Found(s) THEN HitArgs(Style, s, entry.argCount, GetTenant(call[g].ctx)) ELSE <<>>)]
        /\ pc' = [pc EXCEPT ![g] = "count"]
        /\ UNCHANGED <<pool, mem, call, held, todo, last>>

CacheCount(g) ==
    /\ pc[g] = "count"
    /\ pc' = [pc EXCEPT ![g] = IF pending[g] = "hit" THEN "exec" ELSE "rewrite"]
    /\ GetCount(g)
    /\ UNCHANGED <<pool, mem, call, marks, args, held, todo, last>>

(* A statement the rewriters leave as it is: another kind of statement      *)
(* (not cached), a SELECT with no table to filter, an INSERT with the      *)
(* tenant column (both cached).                                            *)
RewriteUnchanged(g) ==
    LET s == call[g].stmt
    IN  /\ pc[g] = "rewrite"
        /\ \/ s.op \in {"OTHER", "SELECT"} /\ TenantArgCount(s) = 0
           \/ s.op = "INSERT" /\ s.columns /\ s.hasTenant
        /\ marks' = [marks EXCEPT ![g] = UserMarkers(s)]
        /\ args' = [args EXCEPT ![g] = OwnSlice(CallArgs(s))]
        /\ pc' = [pc EXCEPT ![g] = IF s.op = "OTHER" THEN "exec" ELSE "put"]
        /\ UNCHANGED <<entries, hits, misses, pending, pool, mem, call, held, todo, last>>

(* injectInsertFilter, in a new slice; an INSERT without column list fails. *)
RewriteInsert(g) ==
    LET s == call[g].stmt
    IN  /\ pc[g] = "rewrite"
        /\ s.op = "INSERT" /\ s.columns /\ ~s.hasTenant
        /\ marks' = [marks EXCEPT ![g] = RewriteMarks(Style, s)]
        /\ args' = [args EXCEPT ![g] = OwnSlice(InsertArgs(s, GetTenant(call[g].ctx)))]
        /\ pc' = [pc EXCEPT ![g] = "put"]
        /\ UNCHANGED <<entries, hits, misses, pending, pool, mem, call, held, todo, last>>

RejectInsert(g) ==
    /\ pc[g] = "rewrite"
    /\ call[g].stmt.op = "INSERT" /\ ~call[g].stmt.columns
    /\ pc' = [pc EXCEPT ![g] = "idle"]
    /\ last' = [last EXCEPT ![g] = Failure(call[g].method)]
    /\ call' = [call EXCEPT ![g] = NoCall]
    /\ UNCHANGED <<entries, hits, misses, pending, pool, mem, marks, args, held, todo>>

InUse(a) == \E g \in Goroutines : held[g] = a \/ args[g].arr = a

(* getArgsSlice returns an idle array of the pool or makes a new one.      *)
MutantGetKeepsInPool(a) ==
    /\ \/ a \in pool /\ mem' = mem
       \/ a \notin pool /\ ~InUse(a) /\ mem' = [mem EXCEPT ![a] = ZeroArray]
    /\ pool' = pool

MutantGetNeverNew(a) == a \in pool /\ mem' = mem /\ pool' = pool \ {a}

GetArgsSlice(a) ==
    /\ \/ a \in pool /\ mem' = mem
       \/ a \notin pool /\ ~InUse(a) /\ mem' = [mem EXCEPT ![a] = ZeroArray]
    /\ pool' = pool \ {a}

(* injectSelectFilter, injectUpdateFilter, injectDeleteFilter up to the     *)
(* slice they build the arguments in.                                      *)
TakeSlice(g, a) ==
    LET s == call[g].stmt
    IN  /\ pc[g] = "rewrite"
        /\ s.op \in {"SELECT", "UPDATE", "DELETE"} /\ TenantArgCount(s) > 0
        /\ GetArgsSlice(a)
        /\ held' = [held EXCEPT ![g] = a]
        /\ args' = [args EXCEPT ![g] = PooledSlice(a, 0)]
        /\ marks' = [marks EXCEPT ![g] = RewriteMarks(Style, s)]
        /\ todo' = [todo EXCEPT ![g] = MissSegments(Style, s, GetTenant(call[g].ctx))]
        /\ pc' = [pc EXCEPT ![g] = "append"]
        /\ UNCHANGED <<entries, hits, misses, pending, call, last>>

AppendSegment(g) ==
    /\ pc[g] = "append" /\ todo[g] # <<>>
    /\ mem' = AppendMem(mem, args[g], Head(todo[g]))
    /\ args' = [args EXCEPT ![g] = AppendSlice(mem, args[g], Head(todo[g]))]
    /\ todo' = [todo EXCEPT ![g] = Tail(todo[g])]
    /\ UNCHANGED <<entries, hits, misses, pending, pool, pc, call, marks, held, last>>

(* The rewriter returns the slice; its deferred putArgsSlice returns the    *)
(* array to the pool.                                                      *)
MutantReturnsCleared(g) ==
    /\ pc[g] = "append" /\ todo[g] = <<>>
    /\ held' = [held EXCEPT ![g] = NoArray]
    /\ pool' = pool \cup {held'[g]}
    /\ pc' = [pc EXCEPT ![g] = "put"]
    /\ UNCHANGED <<entries, hits, misses, pending, mem, call, marks, args, todo, last>>

ReturnSlice(g) ==
    /\ pc[g] = "append" /\ todo[g] = <<>>
    /\ pool' = pool \cup {held[g]}
    /\ held' = [held EXCEPT ![g] = NoArray]
    /\ pc' = [pc EXCEPT ![g] = "put"]
    /\ UNCHANGED <<entries, hits, misses, pending, mem, call, marks, args, todo, last>>

(* argCount: the arguments that the rewriter added.                        *)
MutantCountAllArgs(sl, s) == sl.len

AddedArgs(sl, s) == sl.len - NumArgs(s)

(* queryCache.Put with the markers and the number of arguments added.      *)
CachePut(g) ==
    LET s == call[g].stmt
    IN  /\ pc[g] = "put"
        /\ Put(s, [marks |-> marks[g], argCount |-> AddedArgs(args[g], s)])
        /\ pc' = [pc EXCEPT ![g] = "exec"]
        /\ UNCHANGED <<pool, mem, call, marks, args, held, todo, last>>

(* database/sql executes the statement with the values that the slice       *)
(* holds now.                                                              *)
Execute(g) ==
    /\ pc[g] = "exec"
    /\ last' = [last EXCEPT ![g] = Executed(call[g], Bind(Style, marks[g], SliceValues(mem, args[g])))]
    /\ pc' = [pc EXCEPT ![g] = "idle"]
    /\ call' = [call EXCEPT ![g] = NoCall]
    /\ marks' = [marks EXCEPT ![g] = <<>>]
    /\ args' = [args EXCEPT ![g] = OwnSlice(<<>>)]
    /\ UNCHANGED <<entries, hits, misses, pending, pool, mem, held, todo>>

(* DB.ClearQueryCache, by any goroutine at any time.                       *)
ClearQueryCache ==
    /\ Clear
    /\ UNCHANGED <<pool, mem, pc, call, marks, args, held, todo, last>>

(* sync.Pool may drop an idle array at a garbage collection.               *)
PoolDrop(a) ==
    /\ a \in pool
    /\ pool' = pool \ {a}
    /\ UNCHANGED <<entries, hits, misses, pending, mem, pc, call, marks, args, held, todo, last>>

Step(g) ==
    \/ CacheLookup(g) \/ CacheCount(g)
    \/ RewriteUnchanged(g) \/ RewriteInsert(g) \/ RejectInsert(g)
    \/ \E a \in Arrays : TakeSlice(g, a)
    \/ AppendSegment(g) \/ ReturnSlice(g) \/ CachePut(g) \/ Execute(g)

Next ==
    \/ \E g \in Goroutines, m \in Methods, s \in Queries, ctx \in CallContexts : Call(g, m, s, ctx)
    \/ \E g \in Goroutines : Step(g)
    \/ ClearQueryCache
    \/ \E a \in Arrays : PoolDrop(a)

Spec == Init /\ [][Next]_vars

(* A goroutine inside a call keeps running: nothing in the path waits.     *)
FairSpec == Spec /\ \A g \in Goroutines : WF_vars(Step(g))

-----------------------------------------------------------------------------
Slices ==
    [arr : Arrays \cup {NoArray}, len : Nat, vals : Seq(Nat \cup Tenants \cup {NoTenant})]

Calls == [method : Methods, stmt : Queries, ctx : CallContexts]

TypeOK ==
    /\ CacheTypeOK
    /\ pool \subseteq Arrays
    /\ mem \in [Arrays -> [1..SliceCap -> Nat \cup Tenants \cup {NoTenant}]]
    /\ pc \in [Goroutines -> {"idle", "lookup", "count", "rewrite", "append", "put", "exec"}]
    /\ call \in [Goroutines -> Calls \cup {NoCall}]
    /\ marks \in [Goroutines -> Seq(Nat)]
    /\ args \in [Goroutines -> Slices]
    /\ \A g \in Goroutines : args[g].arr # NoArray => args[g].len <= SliceCap
    /\ held \in [Goroutines -> Arrays \cup {NoArray}]
    /\ todo \in [Goroutines -> Seq(Seq(Nat \cup Tenants))]
    /\ DOMAIN last = Goroutines

(* The decision of ShouldFilter survives rewriting, caching and pooling:    *)
(* whatever ran before, a statement that reaches the database binds one    *)
(* value of the caller's own tenant for each tenant table it names, and    *)
(* every user marker its own argument.  Statements that the rewriters do   *)
(* not cover are left out, but not what they do to others.                 *)
ScopedToTenant ==
    \A g \in Goroutines :
        (last[g].outcome = "executed" /\ Covered(Style, last[g].stmt)) =>
            last[g].bound = ExpectedBinding(last[g].stmt, last[g].ctx)

(* What holds with any number of goroutines: a call about to execute with   *)
(* a slice of its own (a cache hit, an INSERT, more arguments than a       *)
(* pooled slice takes, a statement left alone) is scoped to its tenant.    *)
OwnSliceScoped ==
    \A g \in Goroutines :
        (pc[g] = "exec" /\ args[g].arr = NoArray /\ Covered(Style, call[g].stmt)) =>
            Bind(Style, marks[g], args[g].vals) = ExpectedBinding(call[g].stmt, call[g].ctx)

(* getArgsSlice hands an array to one rewriter at a time: while a rewriter  *)
(* fills it, no other rewriter has it and the pool does not offer it.      *)
HeldExclusively ==
    \A g \in Goroutines :
        held[g] # NoArray =>
            /\ held[g] \notin pool
            /\ \A h \in Goroutines \ {g} : held[h] # held[g]

(* The handle implements the specification of a scoped database, in which   *)
(* a call is one answer that depends on the call alone and always comes.   *)
Abstract == INSTANCE ScopedDB WITH Stmts <- Queries, request <- call, answer <- last

ImplementsScopedDB == Abstract!FairSpec

=============================================================================
