-------------------------------- MODULE Sqlx --------------------------------
(***************************************************************************)
(* The sqlx adapter (adapters/sqlx): DB and Tx of adapter.go and           *)
(* transaction.go, called by several goroutines.                           *)
(*                                                                         *)
(* A call decides whether to enforce, rewrites the text and builds the     *)
(* arguments in one step (Enforce), and database/sql reads them when it    *)
(* has a connection (Execute).  The arguments of a call are a slice of     *)
(* an array of the caller: f(ctx, q, a, b) passes an array of exactly that *)
(* length, and f(ctx, q, batch[0:2]...) one with room behind the slice,    *)
(* which append fills in place.                                            *)
(***************************************************************************)
EXTENDS Naturals, Sequences

CONSTANTS
    Goroutines,
    Tenants, NoTenant,
    SkipTables,     \* Config.SkipTables
    Arrays,         \* arrays of the callers
    ArrayLen,       \* their lengths
    Calls,          \* the calls that the program makes
    TxContexts,     \* the contexts that it begins transactions with
    SurplusIgnored  \* whether the driver ignores a value without a marker, as SQLite's

(***************************************************************************)
(* A statement s has                                                       *)
(*   insert     TRUE if its first keyword is INSERT                        *)
(*   listed     INSERT: TRUE if it has a column list and VALUES (...)      *)
(*   where      TRUE if it has a WHERE part                                *)
(*   head, tail the number of ? before and after the place where the       *)
(*              tenant belongs: after WHERE, before ORDER BY or LIMIT, at  *)
(*              the end of the first VALUES (...)                          *)
(*   words      the parts of its text that matter, "*" among them          *)
(***************************************************************************)
NumArgs(s) == s.head + s.tail

IsStatement(s) ==
    /\ {s.insert, s.listed, s.where} \subseteq BOOLEAN
    /\ s.head \in Nat /\ s.tail \in Nat

Contexts == [tenant : Tenants \cup {NoTenant}, skip : BOOLEAN]

(* Query stands for QueryContext, QueryxContext, GetContext, SelectContext. *)
(* Promoted stands for the methods of the embedded sqlx.DB and sqlx.Tx that *)
(* the adapter does not define: Select, Get, Exec, QueryRowContext, ...    *)
Methods == {"Query", "QueryRowx", "Exec", "NamedExec", "Promoted"}

(* DB, its copy WithoutTenant(), and a transaction.                        *)
Receivers == {"db", "without", "tx"}

(* A call: who makes it, on what, and the slice arr[from..to] it passes.   *)
IsCall(c) ==
    /\ c.by \in Goroutines /\ c.on \in Receivers /\ c.method \in Methods
    /\ c.ctx \in Contexts
    /\ IsStatement(c.stmt)
    /\ c.arr \in Arrays /\ c.from \in Nat \ {0} /\ c.to \in 0..ArrayLen[c.arr]
    /\ c.to + 1 - c.from = NumArgs(c.stmt)

\* The value that the caller put into cell i of an array.
CallerValue(a, i) == <<a, i>>

\* The rows that a statement without tenant condition uses; no value of a cell.
Everyone == <<"every tenant", 0>>

ASSUME ArraysAssumption == ArrayLen \in [Arrays -> Nat]
ASSUME EveryoneAssumption == Everyone \notin Tenants
ASSUME CallsAssumption == \A c \in Calls : IsCall(c)
ASSUME NoTenantAssumption == NoTenant \notin Tenants
ASSUME TxContextsAssumption == TxContexts \subseteq Contexts
ASSUME SurplusAssumption == SurplusIgnored \in BOOLEAN

VARIABLES
    mem,        \* the contents of the callers' arrays
    tx,         \* a transaction: whether it is open, the context of BeginTxx, its skipTables
    cur,        \* the call of a goroutine between Call and Execute
    touched     \* whose rows the statements of the transaction have used that are
                \* bound as the adapter means it (Bindable)

vars == <<mem, tx, cur, touched>>

Idle == [pc |-> "idle"]

NoTx == [open |-> FALSE]

Init ==
    /\ mem = [a \in Arrays |-> [i \in 1..ArrayLen[a] |-> CallerValue(a, i)]]
    /\ tx = NoTx
    /\ cur = [g \in Goroutines |-> Idle]
    /\ touched = {}

-----------------------------------------------------------------------------
(* The tables that DB and WithoutTenant() skip.                            *)
SkipTablesOf(handle) == IF handle = "without" THEN {"*"} ELSE SkipTables

(* shouldSkip: the flag of SkipTenant, or a text that contains the name of  *)
(* a table to skip.                                                        *)
ShouldSkip(handle, ctx, s) == ctx.skip \/ s.words \cap SkipTablesOf(handle) # {}

Repeat(v, n) == [i \in 1..n |-> v]

UserMarks(s) == Repeat("user", NumArgs(s))

(* injectTenantCondition and injectTenantIntoInsert: the markers of the     *)
(* rewritten text.  An INSERT without column list or VALUES stays as it is.*)
ScopedMarks(s) == Repeat("user", s.head) \o <<"tenant">> \o Repeat("user", s.tail)

InsertMarks(s) == IF s.listed THEN ScopedMarks(s) ELSE UserMarks(s)

(* The place of the tenant among the arguments: behind the ? before WHERE,  *)
(* or behind all of them.                                                  *)
MutantPositionAtEnd(s) == NumArgs(s)

PlaceholderPos(s) == IF s.where THEN s.head ELSE NumArgs(s)

-----------------------------------------------------------------------------
(* Slices: a part of a caller's array, or values in an array of their own.  *)
OwnSlice(vals) == [arr |-> {}, from |-> 1, to |-> Len(vals), vals |-> vals]

CallerSlice(c, to) == [arr |-> {c.arr}, from |-> c.from, to |-> to, vals |-> <<>>]

SliceValues(sl) ==
    IF sl.arr = {} THEN sl.vals
    ELSE SubSeq(mem[CHOOSE a \in sl.arr : TRUE], sl.from, sl.to)

PassedValues(c) == SubSeq(mem[c.arr], c.from, c.to)

(* insertArgAtPosition: a copy with the tenant at its place.               *)
InsertArgAtPosition(c, pos, tenant) ==
    LET vals == PassedValues(c)
    IN  OwnSlice(SubSeq(vals, 1, pos) \o <<tenant>> \o SubSeq(vals, pos + 1, Len(vals)))

(* append(args, tenantID): in place when the array has room.               *)
HasRoom(c) == c.to < ArrayLen[c.arr]

AppendArg(c, tenant) ==
    IF HasRoom(c) THEN CallerSlice(c, c.to + 1) ELSE OwnSlice(PassedValues(c) \o <<tenant>>)

AppendMem(c, tenant) == IF HasRoom(c) THEN [mem EXCEPT ![c.arr][c.to + 1] = tenant] ELSE mem

-----------------------------------------------------------------------------
(* What a call hands to database/sql: the markers of its text and its       *)
(* arguments; with it the call and the handle and context that decided.    *)
Sent(c, handle, ctx, marks, args) ==
    [pc |-> "send", call |-> c, handle |-> handle, ctx |-> ctx, rows |-> TRUE, marks |-> marks, args |-> args]

(* The query that QueryRowxContext sends when it has no tenant: no rows.    *)
NoRows(c, handle, ctx) == [Sent(c, handle, ctx, <<>>, OwnSlice(<<>>)) EXCEPT !.rows = FALSE]

AsPassed(c, handle, ctx) == Sent(c, handle, ctx, UserMarks(c.stmt), CallerSlice(c, c.to))

WithCondition(c, handle, ctx) ==
    Sent(c, handle, ctx, ScopedMarks(c.stmt), InsertArgAtPosition(c, PlaceholderPos(c.stmt), ctx.tenant))

(* ExecContext of an INSERT: the tenant is appended even when the text      *)
(* stays as it was.                                                        *)
MutantAppendsIfListed(c, handle, ctx) ==
    Sent(c, handle, ctx, InsertMarks(c.stmt),
         IF c.stmt.listed THEN AppendArg(c, ctx.tenant) ELSE CallerSlice(c, c.to))

WithValue(c, handle, ctx) ==
    Sent(c, handle, ctx, InsertMarks(c.stmt), AppendArg(c, ctx.tenant))

(* The methods of DB and of Tx, which differ in the context that decides.   *)
(* Without tenant they return an error, but for QueryRowxContext.          *)
Enforce(c, handle, ctx) ==
    LET skip == ShouldSkip(handle, ctx, c.stmt)
        missing == ~skip /\ ctx.tenant = NoTenant
        inserts == ~skip /\ ~missing /\ c.method = "Exec" /\ c.stmt.insert
    IN  /\ cur[c.by] = Idle
        /\ cur' = [cur EXCEPT ![c.by] =
                     CASE missing /\ c.method = "QueryRowx" -> NoRows(c, handle, ctx)
                       [] missing /\ c.method # "QueryRowx" -> Idle
                       [] skip -> AsPassed(c, handle, ctx)
                       [] inserts -> WithValue(c, handle, ctx)
                       [] OTHER -> IF c.method = "NamedExec" THEN AsPassed(c, handle, ctx)
                                   ELSE WithCondition(c, handle, ctx)]
        /\ mem' = IF inserts THEN AppendMem(c, ctx.tenant) ELSE mem
        /\ UNCHANGED <<tx, touched>>

DBCall(c) == c.on # "tx" /\ c.method # "Promoted" /\ Enforce(c, c.on, c.ctx)

(* BeginTxx asks for no tenant; the transaction keeps its context.         *)
BeginTxx(handle, ctx) ==
    /\ ~tx.open
    /\ tx' = [open |-> TRUE, handle |-> handle, ctx |-> ctx]
    /\ UNCHANGED <<mem, cur, touched>>

(* The methods of Tx use the context of BeginTxx for the tenant and for the *)
(* skip flag, whatever context the call gives.                             *)
MutantContextOfCall(c) == c.ctx

TxContext(c) == tx.ctx

TxCall(c) == c.on = "tx" /\ tx.open /\ c.method # "Promoted" /\ Enforce(c, tx.handle, TxContext(c))

(* A promoted method asks for no tenant and sends what it is given.        *)
PromotedCall(c) ==
    /\ c.method = "Promoted" /\ cur[c.by] = Idle
    /\ \/ c.on # "tx" /\ cur' = [cur EXCEPT ![c.by] = AsPassed(c, c.on, c.ctx)]
       \/ c.on = "tx" /\ tx.open /\ cur' = [cur EXCEPT ![c.by] = AsPassed(c, tx.handle, tx.ctx)]
    /\ UNCHANGED <<mem, tx, touched>>

(* Commit and Rollback; a call on the transaction that has not reached the  *)
(* database yet gets sql.ErrTxDone.                                        *)
End ==
    /\ tx.open
    /\ tx' = NoTx
    /\ touched' = {}
    /\ cur' = [g \in Goroutines |-> IF cur[g] # Idle /\ cur[g].call.on = "tx" THEN Idle ELSE cur[g]]
    /\ UNCHANGED mem

-----------------------------------------------------------------------------
(* The database takes a statement with one value per marker, or more if the *)
(* driver ignores the rest, that is SQL, which an INSERT with a condition  *)
(* at its end is not.                                                      *)
Accepted(r) ==
    /\ \/ Len(r.marks) = Len(SliceValues(r.args))
       \/ SurplusIgnored /\ Len(r.marks) < Len(SliceValues(r.args))
    /\ ~(r.call.stmt.insert /\ r.call.method \in {"Query", "QueryRowx"})

(* Whose rows it uses, with the values that the slice holds now.           *)
UsedBy(r) ==
    LET places == {i \in DOMAIN r.marks : r.marks[i] = "tenant"}
    IN  CASE places # {} -> {SliceValues(r.args)[i] : i \in places}
          [] places = {} /\ r.rows -> {Everyone}
          [] places = {} /\ ~r.rows -> {}

(* The statements whose tenant marker comes where the arguments expect it:  *)
(* a ? behind the place of the tenant needs a WHERE before it, and an      *)
(* INSERT, whose tenant is the last argument, has none.  The adapter does  *)
(* not ask for this: LIMIT ? without WHERE and ON CONFLICT ... ? are not.  *)
Covered(s) == s.tail = 0 \/ (s.where /\ ~s.insert)

(* The calls that write the tenant behind their slice.                     *)
Writers == {d \in Calls : d.method = "Exec" /\ d.stmt.insert /\ HasRoom(d)}

(* No call of another goroutine writes the cell that c puts the tenant in,  *)
(* and none at all writes into the slice that c passes.  Both are up to    *)
(* the callers.                                                            *)
TenantOwn(c) == \A d \in Writers : (d.arr = c.arr /\ d.to = c.to) => d.by = c.by

Undisturbed(c) == \A d \in Writers : d.arr = c.arr => d.to + 1 \notin c.from..c.to

Bindable(c) == Covered(c.stmt) /\ TenantOwn(c)

Execute(g) ==
    LET r == cur[g]
        counts == r.call.on = "tx" /\ Accepted(r) /\ Bindable(r.call)
    IN  /\ r # Idle
        /\ touched' = IF counts THEN touched \cup UsedBy(r) ELSE touched
        /\ cur' = [cur EXCEPT ![g] = Idle]
        /\ UNCHANGED <<mem, tx>>

Next ==
    \/ \E c \in Calls : DBCall(c) \/ TxCall(c) \/ PromotedCall(c)
    \/ \E handle \in {"db", "without"}, ctx \in TxContexts : BeginTxx(handle, ctx)
    \/ End
    \/ \E g \in Goroutines : Execute(g)

Spec == Init /\ [][Next]_vars

-----------------------------------------------------------------------------
(* The context and the handle that a call is to be decided by: its own, or  *)
(* those of BeginTxx.                                                      *)
MeantContext(c) == IF c.on = "tx" THEN tx.ctx ELSE c.ctx

MeantHandle(c) == IF c.on = "tx" THEN tx.handle ELSE c.on

(* What marker i of a statement has to get: the tenant, or the value that   *)
(* the caller put into its slice for it.                                   *)
MeantValue(r, i) ==
    LET c == r.call
        behind == \E j \in 1..i : r.marks[j] = "tenant"
    IN  IF r.marks[i] = "tenant" THEN MeantContext(c).tenant
        ELSE CallerValue(c.arr, c.from + i - (IF behind THEN 2 ELSE 1))

(* When database/sql reads the arguments of an accepted statement, whatever *)
(* other calls have appended meanwhile: the tenant marker gets the tenant  *)
(* of the context if the statement is covered and no other goroutine       *)
(* appends at the same cell, and every marker gets its own value if, also, *)
(* no call appends into the slice.                                         *)
BoundAsMeant ==
    \A g \in Goroutines :
        LET r == cur[g]
            c == r.call
        IN  (r # Idle /\ Accepted(r) /\ Bindable(c)) =>
                /\ UsedBy(r) \subseteq {MeantContext(c).tenant, Everyone}
                /\ Undisturbed(c) => \A i \in DOMAIN r.marks : SliceValues(r.args)[i] = MeantValue(r, i)

(* A transaction uses the rows of one tenant, the one of BeginTxx, whatever *)
(* contexts its calls give: no statement of it is for a second tenant.     *)
TxOneTenant == tx.open => touched \subseteq {tx.ctx.tenant, Everyone}

(* A statement that the database accepts without a tenant condition was     *)
(* asked for: by the flag of its context, in a transaction the one of      *)
(* BeginTxx, by a table to skip, by WithoutTenant, by NamedExecContext,    *)
(* which leaves the tenant to the caller, or by a method that is not the   *)
(* adapter's.  An INSERT that the adapter cannot rewrite is not accepted,  *)
(* having one argument too many, unless the driver ignores that.           *)
UnscopedOnRequest ==
    \A g \in Goroutines :
        LET r == cur[g]
            c == r.call
        IN  (r # Idle /\ Accepted(r) /\ UsedBy(r) = {Everyone}) =>
                \/ MeantContext(c).skip
                \/ c.stmt.words \cap SkipTables # {}
                \/ MeantHandle(c) = "without"
                \/ c.method = "NamedExec" /\ MeantContext(c).tenant # NoTenant
                \/ c.method = "Promoted"

=============================================================================
