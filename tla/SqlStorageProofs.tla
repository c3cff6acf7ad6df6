-------------------------- MODULE SqlStorageProofs --------------------------
(***************************************************************************)
(* Proofs about SqlStorage for any transactions, statements, contexts and  *)
(* numbers of rows.                                                        *)
(***************************************************************************)
EXTENDS SqlStorage, TLAPS

TxRecords == [db : {"none", "active", "committed", "rolledback"},
              ctxDone : BOOLEAN, expired : BOOLEAN, deadline : BOOLEAN, done : BOOLEAN,
              writes : 0..MaxWrites, ended : {"none", "ok", "error", "panic"}]

CursorRecords == [open : BOOLEAN, ctxDone : BOOLEAN, expired : BOOLEAN, deadline : BOOLEAN,
                  tx : SUBSET Txs, unread : 0..RowCount, lost : BOOLEAN]

(* What holds of each transaction on its own: Closed sets done and ended     *)
(* together; what was reported is true; and a context that brought its own *)
(* deadline is done only when that has passed, so that until then only the *)
(* program can have ended the transaction.                                 *)
TxOK(t) ==
    /\ t \in TxRecords
    /\ t.done <=> t.ended # "none"
    /\ t.ended = "ok" => t.db \in {"committed", "rolledback"}
    /\ t.db = "committed" => t.ended \in {"ok", "panic"}
    /\ t.db = "none" => ~t.done
    /\ (t.deadline /\ ~t.expired) => ~t.ctxDone
    /\ (t.db = "rolledback" /\ ~t.done) => t.ctxDone

TxInv == tx \in [Txs -> TxRecords] /\ \A i \in Txs : TxOK(tx[i])

(* Rows belong to a transaction that has begun, and those of a caller with  *)
(* its own deadline are cut short only by that deadline or by the end of   *)
(* their transaction.                                                      *)
CursorInv ==
    /\ cursor \in CursorRecords
    /\ \A i \in cursor.tx : tx[i].db # "none"
    /\ (cursor.deadline /\ ~cursor.expired) => ~cursor.ctxDone
    /\ RowsHonourDeadline

StorageInv == TxInv /\ CursorInv

-----------------------------------------------------------------------------
(* A step of one transaction: it does not come back from its end, its        *)
(* context stays done, and it runs nothing once it is over.                *)
Advances(t, u) ==
    /\ t.db # "none" => u.db # "none"
    /\ t.ctxDone => u.ctxDone \/ t.db = "none"
    /\ t.db # "none" /\ t.db # "active" => u.db = t.db /\ u.writes = t.writes

TxStep(i, u) ==
    /\ tx' = [tx EXCEPT ![i] = u]
    /\ TxOK(u) /\ Advances(tx[i], u)

(* Begin, the deadline and the goroutine of database/sql.                   *)
LEMMA BeginStep ==
  ASSUME StorageInv, NEW i \in Txs, NEW ctx \in Contexts, Begin(i, ctx)
  PROVE  \E u \in TxRecords : TxStep(i, u)
<1> DEFINE u == [tx[i] EXCEPT !.db = "active", !.ctxDone = CancelledOnReturn(ctx), !.deadline = ctx.deadline]
<1>1. tx[i] \in TxRecords /\ TxOK(tx[i]) /\ tx[i].db = "none"
  BY DEF StorageInv, TxInv, Begin
<1>2. ctx.deadline \in BOOLEAN /\ CancelledOnReturn(ctx) = (~ctx.deadline /\ QueryTimeout)
  BY DeadlinesAssumption DEF Contexts, CancelledOnReturn
<1>3. tx' = [tx EXCEPT ![i] = u]
  BY DEF Begin, StorageInv, TxInv
<1>4. u \in TxRecords /\ TxOK(u) /\ Advances(tx[i], u)
  BY <1>1, <1>2, BoundsAssumption DEF TxRecords, TxOK, Advances
<1> QED
  BY <1>3, <1>4 DEF TxStep

(* The deadline of a transaction only ends its context.                    *)
LEMMA TxDeadlineStep ==
  ASSUME StorageInv, NEW i \in Txs, TxDeadline(i)
  PROVE  \E u \in TxRecords : TxStep(i, u)
<1> DEFINE u == [tx[i] EXCEPT !.expired = TRUE, !.ctxDone = TRUE]
<1>1. tx[i] \in TxRecords /\ TxOK(tx[i])
  BY DEF StorageInv, TxInv
<1>2. tx' = [tx EXCEPT ![i] = u]
  BY DEF TxDeadline, StorageInv, TxInv
<1>3. u \in TxRecords /\ TxOK(u) /\ Advances(tx[i], u)
  BY <1>1 DEF TxRecords, TxOK, Advances
<1> QED
  BY <1>2, <1>3 DEF TxStep

(* database/sql rolls a transaction back when its context is done.         *)
LEMMA AwaitDoneStep ==
  ASSUME StorageInv, NEW i \in Txs, AwaitDone(i)
  PROVE  \E u \in TxRecords : TxStep(i, u)
<1> DEFINE u == [tx[i] EXCEPT !.db = "rolledback"]
<1>1. tx[i] \in TxRecords /\ TxOK(tx[i]) /\ tx[i].db = "active" /\ tx[i].ctxDone
  BY DEF StorageInv, TxInv, AwaitDone
<1>2. tx' = [tx EXCEPT ![i] = u]
  BY DEF AwaitDone
<1>3. u \in TxRecords /\ TxOK(u) /\ Advances(tx[i], u)
  BY <1>1 DEF TxRecords, TxOK, Advances
<1> QED
  BY <1>2, <1>3 DEF TxStep

(* Commit and Rollback: the first one reports what it did.                 *)
LEMMA CommitStep ==
  ASSUME StorageInv, NEW i \in Txs, Commit(i)
  PROVE  \E u \in TxRecords : TxStep(i, u)
<1> DEFINE fails == tx[i].db # "active" \/ tx[i].ctxDone
           v == [tx[i] EXCEPT !.db = IF fails THEN @ ELSE "committed"]
           u == Closed(v, fails)
<1>1. tx[i] \in TxRecords /\ TxOK(tx[i]) /\ tx[i].db # "none" /\ tx[i].ended # "panic"
  BY DEF StorageInv, TxInv, Commit
<1>2. tx' = [tx EXCEPT ![i] = u]
  BY DEF Commit
<1>3. u \in TxRecords /\ TxOK(u) /\ Advances(tx[i], u)
  BY <1>1 DEF TxRecords, TxOK, Advances, Closed
<1> QED
  BY <1>2, <1>3 DEF TxStep

(* Rollback ends a transaction that is active and reports any other.       *)
LEMMA RollbackStep ==
  ASSUME StorageInv, NEW i \in Txs, Rollback(i)
  PROVE  \E u \in TxRecords : TxStep(i, u)
<1> DEFINE fails == tx[i].db # "active"
           v == [tx[i] EXCEPT !.db = IF fails THEN @ ELSE "rolledback"]
           u == Closed(v, fails)
<1>1. tx[i] \in TxRecords /\ TxOK(tx[i]) /\ tx[i].db # "none" /\ tx[i].ended # "panic"
  BY DEF StorageInv, TxInv, Rollback
<1>2. tx' = [tx EXCEPT ![i] = u]
  BY DEF Rollback
<1>3. u \in TxRecords /\ TxOK(u) /\ Advances(tx[i], u)
  BY <1>1 DEF TxRecords, TxOK, Advances, Closed
<1> QED
  BY <1>2, <1>3 DEF TxStep

(* A statement of a transaction runs only while it is active.              *)
LEMMA TxCallStep ==
  ASSUME StorageInv, NEW i \in Txs, NEW m \in Methods, NEW ctx \in Contexts, NEW s \in Stmts,
         TxCall(i, m, ctx, s)
  PROVE  \E u \in TxRecords : TxStep(i, u)
<1> DEFINE sent == Sends(m, ctx, s) /\ tx[i].db = "active"
           u == [tx[i] EXCEPT !.writes = IF sent THEN @ + 1 ELSE @]
<1>1. tx[i] \in TxRecords /\ TxOK(tx[i]) /\ tx[i].writes < MaxWrites
  BY DEF StorageInv, TxInv, TxCall
<1>2. tx' = [tx EXCEPT ![i] = u]
  BY DEF TxCall
<1>3. u \in TxRecords /\ TxOK(u) /\ Advances(tx[i], u)
  BY <1>1, BoundsAssumption DEF TxRecords, TxOK, Advances
<1> QED
  BY <1>2, <1>3 DEF TxStep

-----------------------------------------------------------------------------
(* A step of one transaction keeps all of them in order.                   *)
LEMMA TxStepKeepsTxInv ==
  ASSUME StorageInv, NEW i \in Txs, NEW u \in TxRecords, TxStep(i, u)
  PROVE  TxInv' /\ \A j \in Txs : Advances(tx[j], tx'[j])
<1>1. tx \in [Txs -> TxRecords] /\ \A j \in Txs : TxOK(tx[j])
  BY DEF StorageInv, TxInv
<1>2. tx' \in [Txs -> TxRecords] /\ tx'[i] = u /\ \A j \in Txs \ {i} : tx'[j] = tx[j]
  BY <1>1 DEF TxStep
<1> QED
  BY <1>1, <1>2 DEF TxStep, TxInv, Advances

(* What a step of the transactions leaves true of rows that stay open.      *)
LEMMA RowsSurvive ==
  ASSUME StorageInv, \A j \in Txs : Advances(tx[j], tx'[j]), UNCHANGED cursor
  PROVE  CursorInv'
<1>1. \A j \in cursor.tx : j \in Txs /\ tx[j].db # "none"
  BY DEF StorageInv, CursorInv, CursorRecords
<1>2. \A j \in cursor.tx : /\ tx'[j].db # "none"
                           /\ tx[j].ctxDone => tx'[j].ctxDone
                           /\ tx[j].db # "active" => tx'[j].db # "active"
  BY <1>1 DEF Advances
<1> QED
  BY <1>2 DEF StorageInv, CursorInv, RowsHonourDeadline

(* The rows of a new query belong to its context.                           *)
LEMMA NewRows ==
  ASSUME NEW ctx \in Contexts, NEW s \in Stmts, NEW owner \in SUBSET Txs,
         cursor' = RowsOf(ctx, s, owner), \A i \in owner : tx'[i].db # "none"
  PROVE  CursorInv'
<1>1. ctx.deadline \in BOOLEAN /\ CancelledOnReturn(ctx) = (~ctx.deadline /\ QueryTimeout)
  BY DeadlinesAssumption DEF Contexts, CancelledOnReturn
<1>2. RowsOf(ctx, s, owner) \in CursorRecords
  BY <1>1, BoundsAssumption DEF RowsOf, CursorRecords
<1> QED
  BY <1>1, <1>2 DEF RowsOf, CursorInv, RowsHonourDeadline

(* Every operation of the storage keeps the invariant.                     *)
LEMMA NextKeepsStorageInv ==
  ASSUME StorageInv, [Next]_vars
  PROVE  StorageInv' /\ \A j \in Txs : Advances(tx[j], tx'[j])
<1> USE DEF StorageInv
<1>1. ASSUME NEW i \in Txs, NEW u \in TxRecords, TxStep(i, u), UNCHANGED cursor
      PROVE  StorageInv' /\ \A j \in Txs : Advances(tx[j], tx'[j])
  BY <1>1, TxStepKeepsTxInv, RowsSurvive
<1>2. ASSUME UNCHANGED tx
      PROVE  TxInv' /\ \A j \in Txs : Advances(tx[j], tx'[j])
  BY <1>2 DEF TxInv, Advances
<1>3. ASSUME NEW m \in Methods, NEW ctx \in Contexts, NEW s \in Stmts, Call(m, ctx, s)
      PROVE  StorageInv' /\ \A j \in Txs : Advances(tx[j], tx'[j])
  <2>1. UNCHANGED tx /\ (cursor' = RowsOf(ctx, s, {}) \/ UNCHANGED cursor)
    BY <1>3 DEF Call
  <2>2. CASE cursor' = RowsOf(ctx, s, {})
    BY <1>2, <2>1, <2>2, NewRows
  <2>3. CASE UNCHANGED cursor
    BY <1>2, <2>1, <2>3, RowsSurvive
  <2> QED
    BY <2>1, <2>2, <2>3
<1>4. ASSUME NEW i \in Txs, NEW m \in Methods, NEW ctx \in Contexts, NEW s \in Stmts, TxCall(i, m, ctx, s)
      PROVE  StorageInv' /\ \A j \in Txs : Advances(tx[j], tx'[j])
  <2>1. TxInv' /\ \A j \in Txs : Advances(tx[j], tx'[j])
    BY <1>4, TxCallStep, TxStepKeepsTxInv
  <2>2. tx[i].db # "none" /\ (cursor' = RowsOf(ctx, s, {i}) \/ UNCHANGED cursor)
    BY <1>4 DEF TxCall
  <2>3. CASE cursor' = RowsOf(ctx, s, {i})
    <3>1. tx'[i].db # "none"
      BY <2>1, <2>2 DEF Advances
    <3> QED
      BY <2>1, <2>3, <3>1, NewRows
  <2>4. CASE UNCHANGED cursor
    BY <2>1, <2>4, RowsSurvive
  <2> QED
    BY <2>2, <2>3, <2>4
<1>5. CASE ReadRow
  <2>1. CASE cursor.unread = 0
    <3>1. UNCHANGED tx /\ cursor' = NoCursor
      BY <1>5, <2>1 DEF ReadRow
    <3>2. CursorInv'
      BY <3>1, BoundsAssumption DEF CursorInv, CursorRecords, NoCursor, RowsHonourDeadline
    <3> QED
      BY <1>2, <3>1, <3>2
  <2>2. CASE cursor.unread # 0
    <3>1. UNCHANGED tx /\ cursor' = [cursor EXCEPT !.unread = @ - 1]
      BY <1>5, <2>2 DEF ReadRow
    <3>2. CursorInv'
      BY <2>2, <3>1, BoundsAssumption DEF CursorInv, CursorRecords, RowsHonourDeadline
    <3> QED
      BY <1>2, <3>1, <3>2
  <2> QED
    BY <2>1, <2>2
<1>6. CASE CloseRows
  <2>0. (cursor.unread > 0) \in BOOLEAN
    BY DEF CursorInv, CursorRecords
  <2>1. PICK lost \in BOOLEAN : cursor' = [cursor EXCEPT !.open = FALSE, !.lost = lost]
    BY <1>6, <2>0, Zenon DEF CloseRows
  <2>2. /\ cursor \in CursorRecords
        /\ cursor' \in CursorRecords
        /\ cursor'.tx = cursor.tx /\ cursor'.deadline = cursor.deadline
        /\ cursor'.expired = cursor.expired /\ cursor'.ctxDone = cursor.ctxDone
    BY <2>1 DEF CursorInv, CursorRecords
  <2>3. CursorInv'
    BY <1>6, <2>2 DEF CloseRows, CursorInv, RowsHonourDeadline
  <2> QED
    BY <1>2, <1>6, <2>3 DEF CloseRows
<1>7. CASE RowsDeadline
  <2>1. CursorInv'
    BY <1>7 DEF RowsDeadline, CursorInv, CursorRecords, RowsHonourDeadline
  <2> QED
    BY <1>2, <1>7, <2>1 DEF RowsDeadline
<1>8. ASSUME NEW i \in Txs, NEW ctx \in Contexts, Begin(i, ctx)
      PROVE  StorageInv' /\ \A j \in Txs : Advances(tx[j], tx'[j])
  BY <1>1, <1>8, BeginStep DEF Begin
<1>9. ASSUME NEW i \in Txs, TxDeadline(i) \/ AwaitDone(i) \/ Commit(i) \/ Rollback(i)
      PROVE  StorageInv' /\ \A j \in Txs : Advances(tx[j], tx'[j])
  <2>1. UNCHANGED cursor
    BY <1>9 DEF TxDeadline, AwaitDone, Commit, Rollback
  <2> QED
    BY <1>1, <1>9, <2>1, TxDeadlineStep, AwaitDoneStep, CommitStep, RollbackStep
<1>10. CASE UNCHANGED vars
  BY <1>2, <1>10, RowsSurvive DEF vars
<1> QED
  BY <1>3, <1>4, <1>5, <1>6, <1>7, <1>8, <1>9, <1>10 DEF Next

(* The inductive invariant: what Closed reports is true, and a context with   *)
(* its caller's own deadline is done only when that has passed.            *)
THEOREM StorageInvAlways == Spec => []StorageInv
<1>1. Init => StorageInv
  BY BoundsAssumption DEF Init, StorageInv, TxInv, TxOK, TxRecords, NewTx, CursorInv, CursorRecords, NoCursor,
                          RowsHonourDeadline
<1>2. StorageInv /\ [Next]_vars => StorageInv'
  BY NextKeepsStorageInv
<1> QED
  BY <1>1, <1>2, PTL DEF Spec

(* Transactions and rows keep their types, and the channel done is closed    *)
(* exactly when Commit or Rollback has reported.                           *)
THEOREM TypeAlways == Spec => []TypeOK
<1>1. StorageInv => TypeOK
  BY DEF StorageInv, TxInv, TxOK, TxRecords, CursorInv, CursorRecords, TypeOK
<1> QED
  BY <1>1, StorageInvAlways, PTL

(* What Commit and Rollback report is what happened to the transaction.      *)
THEOREM EndReportedAlways == Spec => []EndReported
<1>1. StorageInv => EndReported
  BY DEF StorageInv, TxInv, TxOK, EndReported
<1> QED
  BY <1>1, StorageInvAlways, PTL

(* Rows are cut short only by the caller's own deadline or the end of their  *)
(* transaction, never by the deadline of QueryTimeout.                     *)
THEOREM RowsHonourDeadlineAlways == Spec => []RowsHonourDeadline
  BY StorageInvAlways, PTL DEF StorageInv, CursorInv

(* A transaction that is over stays as it ended, and Transaction.Exec and      *)
(* the query methods run nothing more in it.                               *)
THEOREM EndedStaysEndedAlways == Spec => EndedStaysEnded
<1>1. StorageInv /\ [Next]_vars =>
        [\A i \in Txs : tx[i].db \in {"committed", "rolledback"} =>
            tx'[i].db = tx[i].db /\ tx'[i].writes = tx[i].writes]_vars
  BY NextKeepsStorageInv DEF Advances
<1> QED
  BY <1>1, StorageInvAlways, PTL DEF Spec, EndedStaysEnded

(* Until its own deadline the first Commit of a transaction succeeds.          *)
THEOREM CommitHonoursDeadlineAlways == Spec => CommitHonoursDeadline
<1>1. StorageInv /\ [Next]_vars =>
        [\A i \in Txs :
            (Commit(i) /\ tx[i].deadline /\ ~tx[i].done /\ ~tx[i].expired) => tx'[i].ended = "ok"]_vars
  <2> SUFFICES ASSUME StorageInv, NEW i \in Txs, Commit(i), tx[i].deadline, ~tx[i].done, ~tx[i].expired
               PROVE  tx'[i].ended = "ok"
    OBVIOUS
  <2>1. tx[i] \in TxRecords /\ TxOK(tx[i]) /\ tx[i].db # "none"
    BY DEF StorageInv, TxInv, Commit
  <2>2. ~tx[i].ctxDone /\ tx[i].db = "active"
    BY <2>1 DEF TxOK, TxRecords
  <2>3. tx'[i] = Closed([tx[i] EXCEPT !.db = "committed"], FALSE)
    BY <2>1, <2>2 DEF Commit, StorageInv, TxInv
  <2> QED
    BY <2>1, <2>3 DEF Closed, TxRecords
<1> QED
  BY <1>1, StorageInvAlways, PTL DEF Spec, CommitHonoursDeadline

=============================================================================
