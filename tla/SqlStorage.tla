----------------------------- MODULE SqlStorage -----------------------------
(***************************************************************************)
(* The database/sql storage adapter (adapters/sql): the calls of Storage   *)
(* and Transaction, the enforcer they pass every statement through, and    *)
(* the contexts they derive.  Package database/sql is external: a finished *)
(* context closes the rows and rolls back the transaction it was given to, *)
(* in a goroutine of its own, some time later.                             *)
(***************************************************************************)
EXTENDS Naturals

CONSTANTS
    Txs,            \* transactions that a program begins
    Stmts,          \* statements: op, and dangerous if ValidateQuery refuses it
    Tenants, NoTenant,
    QueryTimeout,   \* TRUE if Config.QueryTimeout > 0; the default is 30 seconds
    Deadlines,      \* whether the contexts of the callers have a deadline, a subset of BOOLEAN
    RowCount,       \* rows that a query returns
    MaxWrites       \* bound: statements executed in a transaction

ASSUME BoundsAssumption == RowCount \in Nat /\ MaxWrites \in Nat /\ QueryTimeout \in BOOLEAN
ASSUME NoTenantAssumption == NoTenant \notin Tenants
ASSUME DeadlinesAssumption == Deadlines \subseteq BOOLEAN

VARIABLES
    tx,         \* the transactions, with the channel Transaction.done
    cursor      \* the rows that a caller is reading, and the transaction they belong to

vars == <<tx, cursor>>

Methods == {"Query", "QueryRow", "QueryRowWithError", "Exec"}

Contexts == [tenant : Tenants \cup {NoTenant}, deadline : Deadlines]

NewTx == [db |-> "none", ctxDone |-> FALSE, expired |-> FALSE, deadline |-> FALSE,
          done |-> FALSE, writes |-> 0, ended |-> "none"]

NoCursor == [open |-> FALSE, ctxDone |-> FALSE, expired |-> FALSE, deadline |-> FALSE,
             tx |-> {}, unread |-> 0, lost |-> FALSE]

TypeOK ==
    /\ tx \in [Txs -> [db : {"none", "active", "committed", "rolledback"},
                       ctxDone : BOOLEAN, expired : BOOLEAN, deadline : BOOLEAN, done : BOOLEAN,
                       writes : 0..MaxWrites, ended : {"none", "ok", "error", "panic"}]]
    /\ \A i \in Txs : tx[i].done <=> tx[i].ended # "none"
    /\ cursor \in [open : BOOLEAN, ctxDone : BOOLEAN, expired : BOOLEAN, deadline : BOOLEAN,
                   tx : SUBSET Txs, unread : 0..RowCount, lost : BOOLEAN]

Init ==
    /\ tx = [i \in Txs |-> NewTx]
    /\ cursor = NoCursor

(* Every call derives a context with the default timeout when the caller's  *)
(* has no deadline, and cancels it when it returns (defer cancel()).       *)
MutantNeverCancelled(ctx) == FALSE

MutantAlwaysCancelled(ctx) == QueryTimeout

CancelledOnReturn(ctx) == ~ctx.deadline /\ QueryTimeout

(* EnforceQuery with ValidateQuery and rewriteQuery: only SELECT, UPDATE    *)
(* and DELETE get a tenant condition.                                      *)
EnforceQuery(ctx, s) ==
    IF ctx.tenant = NoTenant \/ s.dangerous THEN "error"
    ELSE IF s.op \in {"SELECT", "UPDATE", "DELETE"} THEN "scoped"
    ELSE "unscoped"

(* The statement that is sent belongs to the context of its call, and so do *)
(* its rows.  A refused QueryRow sends a query without rows in its place.  *)
Sends(m, ctx, s) == EnforceQuery(ctx, s) # "error" \/ m = "QueryRow"

RowsOf(ctx, s, owner) ==
    [open |-> TRUE, ctxDone |-> CancelledOnReturn(ctx), expired |-> FALSE, deadline |-> ctx.deadline,
     tx |-> owner, unread |-> IF EnforceQuery(ctx, s) = "error" THEN 0 ELSE RowCount, lost |-> FALSE]

(* Storage.Query, QueryRow, QueryRowWithError and Exec.                    *)
Call(m, ctx, s) ==
    /\ m = "Exec" \/ ~cursor.open
    /\ cursor' = IF Sends(m, ctx, s) /\ m # "Exec" THEN RowsOf(ctx, s, {}) ELSE cursor
    /\ UNCHANGED tx

(* The caller reads the rows and closes them at the end.                   *)
ReadRow ==
    /\ cursor.open
    /\ cursor' = IF cursor.unread = 0 THEN NoCursor ELSE [cursor EXCEPT !.unread = @ - 1]
    /\ UNCHANGED tx

(* database/sql closes rows whose context, or whose transaction, is done.   *)
CloseRows ==
    /\ cursor.open
    /\ cursor.ctxDone \/ \E i \in cursor.tx : tx[i].ctxDone \/ tx[i].db # "active"
    /\ cursor' = [cursor EXCEPT !.open = FALSE, !.lost = cursor.unread > 0]
    /\ UNCHANGED tx

(* The deadline of a caller passes.                                        *)
RowsDeadline ==
    /\ cursor.open /\ cursor.deadline /\ ~cursor.expired
    /\ cursor' = [cursor EXCEPT !.expired = TRUE, !.ctxDone = TRUE]
    /\ UNCHANGED tx

(* Storage.Begin: the transaction belongs to the derived context.          *)
Begin(i, ctx) ==
    /\ tx[i].db = "none"
    /\ tx' = [tx EXCEPT ![i].db = "active", ![i].ctxDone = CancelledOnReturn(ctx), ![i].deadline = ctx.deadline]
    /\ UNCHANGED cursor

TxDeadline(i) ==
    /\ tx[i].db = "active" /\ tx[i].deadline /\ ~tx[i].expired
    /\ tx' = [tx EXCEPT ![i].expired = TRUE, ![i].ctxDone = TRUE]
    /\ UNCHANGED cursor

(* database/sql rolls back a transaction whose context is done.            *)
AwaitDone(i) ==
    /\ tx[i].db = "active" /\ tx[i].ctxDone
    /\ tx' = [tx EXCEPT ![i].db = "rolledback"]
    /\ UNCHANGED cursor

(* Transaction.Query, QueryRow, QueryRowWithError and Exec.  A transaction  *)
(* that is over answers with sql.ErrTxDone.                                *)
TxCall(i, m, ctx, s) ==
    LET sent == Sends(m, ctx, s) /\ tx[i].db = "active"
    IN  /\ tx[i].db # "none" /\ tx[i].writes < MaxWrites
        /\ m = "Exec" \/ ~cursor.open
        /\ tx' = [tx EXCEPT ![i].writes = IF sent THEN @ + 1 ELSE @]
        /\ cursor' = IF sent /\ m # "Exec" THEN RowsOf(ctx, s, {i}) ELSE cursor

(* close(t.done) panics when the channel is closed; Transaction.tx is never *)
(* set to nil, so nothing stops a second call before that.                 *)
MutantClosedIgnoresError(t, err) ==
    [t EXCEPT !.done = TRUE, !.ended = IF t.done THEN "panic" ELSE "ok"]

MutantClosedKeepsOpen(t, err) ==
    [t EXCEPT !.ended = IF t.done THEN "panic" ELSE IF err THEN "error" ELSE "ok"]

Closed(t, err) ==
    [t EXCEPT !.done = TRUE, !.ended = IF t.done THEN "panic" ELSE IF err THEN "error" ELSE "ok"]

(* Commit: sql.Tx.Commit fails when the transaction or its context is done. *)
Commit(i) ==
    LET fails == tx[i].db # "active" \/ tx[i].ctxDone
    IN  /\ tx[i].db # "none" /\ tx[i].ended # "panic"
        /\ tx' = [tx EXCEPT ![i] =
                    Closed([tx[i] EXCEPT !.db = IF fails THEN @ ELSE "committed"], fails)]
        /\ UNCHANGED cursor

MutantRollbackUnchecked(i) ==
    /\ tx[i].db # "none" /\ tx[i].ended # "panic"
    /\ tx' = [tx EXCEPT ![i] = Closed([tx[i] EXCEPT !.db = "rolledback"], FALSE)]
    /\ UNCHANGED cursor

Rollback(i) ==
    LET fails == tx[i].db # "active"
    IN  /\ tx[i].db # "none" /\ tx[i].ended # "panic"
        /\ tx' = [tx EXCEPT ![i] =
                    Closed([tx[i] EXCEPT !.db = IF fails THEN @ ELSE "rolledback"], fails)]
        /\ UNCHANGED cursor

Next ==
    \/ \E m \in Methods, ctx \in Contexts, s \in Stmts :
          \/ Call(m, ctx, s)
          \/ \E i \in Txs : TxCall(i, m, ctx, s)
    \/ ReadRow \/ CloseRows \/ RowsDeadline
    \/ \E i \in Txs, ctx \in Contexts : Begin(i, ctx)
    \/ \E i \in Txs : TxDeadline(i) \/ AwaitDone(i) \/ Commit(i) \/ Rollback(i)

Spec == Init /\ [][Next]_vars

(* Time passes, and the goroutines of database/sql act on a context that is *)
(* done.  Nothing is assumed of the program.                               *)
FairSpec ==
    /\ Spec
    /\ WF_vars(RowsDeadline) /\ WF_vars(CloseRows)
    /\ \A i \in Txs : WF_vars(TxDeadline(i)) /\ WF_vars(AwaitDone(i))

-----------------------------------------------------------------------------
(* What a program learns of its transaction is true: while the deadline     *)
(* races with its Commit and its Rollback, a first call that reports       *)
(* success has ended the transaction, and one that is committed has been   *)
(* reported as a success.                                                  *)
EndReported ==
    \A i \in Txs :
        /\ tx[i].ended = "ok" => tx[i].db \in {"committed", "rolledback"}
        /\ tx[i].db = "committed" => tx[i].ended \in {"ok", "panic"}

(* A transaction that is over stays as it ended, and runs nothing more.     *)
EndedStaysEnded ==
    [][\A i \in Txs : tx[i].db \in {"committed", "rolledback"} =>
          tx'[i].db = tx[i].db /\ tx'[i].writes = tx[i].writes]_vars

(* A program that forgets its transaction or its rows does not keep their   *)
(* connection for ever: the caller's deadline or QueryTimeout ends them.   *)
ConnectionsReleased ==
    /\ \A i \in Txs : tx[i].db = "active" ~> tx[i].db # "active"
    /\ cursor.open ~> ~cursor.open

(* A caller that brings its own deadline has until then: while it has not   *)
(* passed, the first Commit of its transaction succeeds, whatever the      *)
(* timeouts that the statements of the transaction derived for themselves. *)
CommitHonoursDeadline ==
    [][\A i \in Txs :
          (Commit(i) /\ tx[i].deadline /\ ~tx[i].done /\ ~tx[i].expired) => tx'[i].ended = "ok"]_vars

(* Rows are lost to a caller with its own deadline only when that deadline  *)
(* has passed, or when the transaction that they belong to is over.        *)
RowsHonourDeadline ==
    cursor.lost => \/ ~cursor.deadline \/ cursor.expired
                   \/ \E i \in cursor.tx : tx[i].ctxDone \/ tx[i].db # "active"

=============================================================================
