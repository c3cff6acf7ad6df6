----------------------------- MODULE SqlxProofs -----------------------------
(***************************************************************************)
(* Proofs about Sqlx for any goroutines, tenants, arrays and calls.        *)
(***************************************************************************)
EXTENDS Sqlx, SequenceTheorems, TLAPS

(* What the cells of the arrays hold: what the caller put there, or a      *)
(* tenant that an append has left behind.                                  *)
Cells == Tenants \cup (Arrays \X (Nat \ {0}))

(* A cell holds what the caller put there unless some call appends there.   *)
MemInv ==
    /\ mem \in [Arrays -> Seq(Cells)]
    /\ \A a \in Arrays : Len(mem[a]) = ArrayLen[a]
    /\ \A a \in Arrays : \A i \in 1..ArrayLen[a] :
          (\A d \in Writers : d.arr = a => d.to + 1 # i) => mem[a][i] = CallerValue(a, i)

TxInv ==
    \/ tx = NoTx /\ touched = {}
    \/ /\ tx.open
       /\ tx.handle \in {"db", "without"} /\ tx.ctx \in Contexts
       /\ touched \subseteq {tx.ctx.tenant, Everyone}

-----------------------------------------------------------------------------
(* The statements that a call may hand over.                               *)
\* The query without rows.
Rowless(r) == ~r.rows /\ r.marks = <<>> /\ r.args = OwnSlice(<<>>)

\* The text and the arguments of the caller, which was asked for.
Unscoped(r) ==
    /\ r.rows
    /\ r.marks = UserMarks(r.call.stmt) /\ r.args = CallerSlice(r.call, r.call.to)
    /\ \/ ShouldSkip(r.handle, r.ctx, r.call.stmt)
       \/ r.call.method = "NamedExec" /\ r.ctx.tenant # NoTenant
       \/ r.call.method = "Promoted"

\* The value that the caller passes as its argument i.
OwnValue(c, i) == CallerValue(c.arr, c.from + i - 1)

\* A value list of the markers of a scoped text as it is meant.
ScopedValues(r, vals) ==
    \A i \in 1..(NumArgs(r.call.stmt) + 1) :
        vals[i] = IF i <= r.call.stmt.head THEN OwnValue(r.call, i)
                  ELSE IF i = r.call.stmt.head + 1 THEN r.ctx.tenant
                  ELSE OwnValue(r.call, i - 1)

\* The tenant at its place in an array of the adapter.
Copied(r) ==
    /\ r.rows /\ r.ctx.tenant \in Tenants
    /\ r.marks = ScopedMarks(r.call.stmt)
    /\ r.args.arr = {} /\ r.args.vals \in Seq(Cells)
    /\ Len(r.args.vals) = NumArgs(r.call.stmt) + 1
    /\ Covered(r.call.stmt) =>
          /\ r.args.vals[r.call.stmt.head + 1] = r.ctx.tenant
          /\ Undisturbed(r.call) => ScopedValues(r, r.args.vals)

\* One value more than markers.
Refused(r) ==
    /\ r.rows /\ r.marks = UserMarks(r.call.stmt)
    /\ \/ /\ r.args.arr = {} /\ Len(r.args.vals) = NumArgs(r.call.stmt) + 1
          /\ Undisturbed(r.call) => \A i \in 1..NumArgs(r.call.stmt) : r.args.vals[i] = OwnValue(r.call, i)
       \/ r.args = CallerSlice(r.call, r.call.to + 1) /\ HasRoom(r.call)

\* The tenant in the cell of the caller's array behind the slice.
InPlace(r, m) ==
    /\ r.rows /\ r.ctx.tenant \in Tenants
    /\ r.marks = ScopedMarks(r.call.stmt) /\ r.call.stmt.insert
    /\ r.args = CallerSlice(r.call, r.call.to + 1) /\ HasRoom(r.call)
    /\ TenantOwn(r.call) => m[r.call.arr][r.call.to + 1] = r.ctx.tenant

IsSent(r, m, t) ==
    /\ r.pc = "send"
    /\ r.call \in Calls /\ r.ctx \in Contexts
    /\ Rowless(r) \/ Unscoped(r) \/ Copied(r) \/ Refused(r) \/ InPlace(r, m)
    /\ r.call.on = "tx" => t.open /\ r.ctx = t.ctx /\ r.handle = t.handle
    /\ r.call.on # "tx" => r.ctx = r.call.ctx /\ r.handle = r.call.on

CurInv ==
    /\ DOMAIN cur = Goroutines
    /\ \A g \in Goroutines : cur[g] = Idle \/ (IsSent(cur[g], mem, tx) /\ cur[g].call.by = g)

SqlxInv == MemInv /\ TxInv /\ CurInv

-----------------------------------------------------------------------------
(* Sequences: a value put into one, and the markers of a text.             *)
Inserted(vals, pos, t) == SubSeq(vals, 1, pos) \o <<t>> \o SubSeq(vals, pos + 1, Len(vals))

\* Its value i.
InsertedAt(vals, pos, t, i) == IF i <= pos THEN vals[i] ELSE IF i = pos + 1 THEN t ELSE vals[i - 1]

(* The tenant stands where it was inserted, the other values around it.    *)
LEMMA InsertedValue ==
  ASSUME NEW S, NEW vals \in Seq(S), NEW pos \in 0..Len(vals), NEW t \in S
  PROVE  /\ Inserted(vals, pos, t) \in Seq(S) /\ Len(Inserted(vals, pos, t)) = Len(vals) + 1
         /\ Inserted(vals, pos, t)[pos + 1] = t
         /\ \A i \in 1..(Len(vals) + 1) : Inserted(vals, pos, t)[i] = InsertedAt(vals, pos, t, i)
<1> DEFINE n == Len(vals)
           b == SubSeq(vals, 1, pos)
           u == <<t>>
           a == b \o u
           e == SubSeq(vals, pos + 1, n)
<1>0. n \in Nat /\ pos \in Nat /\ pos <= n
  BY LenProperties
<1>1. b \in Seq(S) /\ Len(b) = pos /\ \A i \in 1..pos : b[i] = vals[i]
  BY SubSeqProperties, ElementOfSeq
<1>2. e \in Seq(S) /\ Len(e) = n - pos /\ \A i \in 1..(n - pos) : e[i] = vals[pos + i]
  <2>1. \A i \in (pos + 1)..n : vals[i] \in S
    BY <1>0, ElementOfSeq
  <2>2. /\ e \in Seq(S) /\ Len(e) = IF pos + 1 <= n THEN n - (pos + 1) + 1 ELSE 0
        /\ \A i \in 1..(n - (pos + 1) + 1) : e[i] = vals[pos + 1 + i - 1]
    BY <2>1, <1>0, SubSeqProperties
  <2>3. n - (pos + 1) + 1 = n - pos /\ (IF pos + 1 <= n THEN n - (pos + 1) + 1 ELSE 0) = n - pos
    BY <1>0
  <2>4. \A i \in 1..(n - pos) : pos + 1 + i - 1 = pos + i
    BY <1>0
  <2>5. \A i \in 1..(n - pos) : e[i] = vals[pos + 1 + i - 1]
    BY <2>2, <2>3
  <2> HIDE DEF e, n
  <2> QED
    BY <2>2, <2>3, <2>4, <2>5
<1>3. u \in Seq(S) /\ Len(u) = 1 /\ u[1] = t
  OBVIOUS
<1>4. Inserted(vals, pos, t) = a \o e
  BY DEF Inserted
<1> HIDE DEF n, b, u, e
<1>5. a \in Seq(S) /\ Len(a) = pos + 1 /\ \A i \in 1..(pos + 1) : a[i] = IF i <= pos THEN b[i] ELSE u[i - pos]
  <2>1. /\ a \in Seq(S) /\ Len(a) = Len(b) + Len(u)
        /\ \A i \in 1..(Len(b) + Len(u)) : a[i] = IF i <= Len(b) THEN b[i] ELSE u[i - Len(b)]
    BY <1>1, <1>3, ConcatProperties
  <2> HIDE DEF a
  <2> QED
    BY <1>1, <1>3, <2>1
<1>6. a[pos + 1] = t /\ \A i \in 1..pos : a[i] = vals[i]
  <2>1. pos + 1 \in 1..(pos + 1) /\ ~(pos + 1 <= pos) /\ pos + 1 - pos = 1
    BY <1>0
  <2>2. a[pos + 1] = u[pos + 1 - pos]
    BY <1>5, <2>1
  <2>3. \A i \in 1..pos : a[i] = b[i]
    BY <1>0, <1>5
  <2> QED
    BY <1>1, <1>3, <2>1, <2>2, <2>3
<1> HIDE DEF a
<1>7. /\ a \o e \in Seq(S)
      /\ Len(a \o e) = Len(a) + Len(e)
      /\ \A i \in 1..(Len(a) + Len(e)) : (a \o e)[i] = IF i <= Len(a) THEN a[i] ELSE e[i - Len(a)]
  BY <1>2, <1>5, ConcatProperties
<1>8. Len(a) + Len(e) = n + 1
  BY <1>0, <1>2, <1>5
<1>9. ASSUME NEW i \in 1..(n + 1)
      PROVE  (a \o e)[i] = IF i <= pos THEN vals[i] ELSE IF i = pos + 1 THEN t ELSE vals[i - 1]
  <2>1. CASE i <= pos + 1
    BY <1>0, <1>5, <1>6, <1>7, <1>8, <2>1
  <2>2. CASE ~(i <= pos + 1)
    <3>1. i - (pos + 1) \in 1..(n - pos) /\ pos + (i - (pos + 1)) = i - 1
      BY <1>0, <2>2
    <3>2. (a \o e)[i] = e[i - (pos + 1)]
      BY <1>5, <1>7, <1>8, <2>2
    <3>3. e[i - (pos + 1)] = vals[i - 1]
      BY <1>2, <3>1
    <3> QED
      BY <1>0, <2>2, <3>2, <3>3
  <2> QED
    BY <2>1, <2>2
<1>10. (a \o e)[pos + 1] = t
  <2>1. pos + 1 \in 1..(n + 1) /\ ~(pos + 1 <= pos)
    BY <1>0
  <2> QED
    BY <1>9, <2>1
<1>11. Inserted(vals, pos, t) \in Seq(S) /\ Len(Inserted(vals, pos, t)) = n + 1
  BY <1>4, <1>7, <1>8
<1> QED
  BY <1>4, <1>9, <1>10, <1>11 DEF n, InsertedAt

(* A tenant inserted behind the last value is appended.                    *)
LEMMA InsertedAtEnd ==
  ASSUME NEW S, NEW vals \in Seq(S), NEW t \in S
  PROVE  Inserted(vals, Len(vals), t) = vals \o <<t>>
<1>1. SubSeq(vals, 1, Len(vals)) = vals /\ SubSeq(vals, Len(vals) + 1, Len(vals)) = <<>>
  BY SubSeqFull, SubSeqEmpty, LenProperties
<1>2. vals \o <<t>> \in Seq(S)
  BY ConcatProperties
<1> QED
  BY <1>1, <1>2, ConcatEmptySeq DEF Inserted

(* A statement as the caller wrote it has no marker of the tenant.         *)
LEMMA MarksOfUser ==
  ASSUME NEW s, IsStatement(s)
  PROVE  /\ UserMarks(s) \in Seq({"user"}) /\ Len(UserMarks(s)) = NumArgs(s)
         /\ \A i \in DOMAIN UserMarks(s) : UserMarks(s)[i] # "tenant"
         /\ DOMAIN UserMarks(s) = 1..NumArgs(s)
  BY DEF UserMarks, Repeat, IsStatement, NumArgs

(* A scoped statement has one, behind the markers of its head.             *)
LEMMA MarksOfScoped ==
  ASSUME NEW s, IsStatement(s)
  PROVE  /\ Len(ScopedMarks(s)) = NumArgs(s) + 1
         /\ {i \in DOMAIN ScopedMarks(s) : ScopedMarks(s)[i] = "tenant"} = {s.head + 1}
<1>0. s.head \in Nat /\ s.tail \in Nat
  BY DEF IsStatement
<1> DEFINE M == {"user", "tenant"}
           h == Repeat("user", s.head)
           e == Repeat("user", s.tail)
<1>1. h \in Seq(M) /\ Len(h) = s.head /\ \A i \in 1..s.head : h[i] = "user"
  BY <1>0 DEF Repeat
<1>2. e \in Seq(M) /\ Len(e) = s.tail /\ \A i \in 1..s.tail : e[i] = "user"
  BY <1>0 DEF Repeat
<1>3. <<"tenant">> \in Seq(M) /\ Len(<<"tenant">>) = 1 /\ <<"tenant">>[1] = "tenant"
  OBVIOUS
<1> HIDE DEF h, e
<1>4. /\ h \o <<"tenant">> \in Seq(M) /\ Len(h \o <<"tenant">>) = s.head + 1
      /\ \A i \in 1..(s.head + 1) : (h \o <<"tenant">>)[i] = "tenant" <=> i = s.head + 1
  BY <1>0, <1>1, <1>3, ConcatProperties
<1> DEFINE w == h \o <<"tenant">>
           n == s.head + 1 + s.tail
<1>5. ScopedMarks(s) = w \o e
  BY DEF ScopedMarks, h, e
<1>6. w \in Seq(M) /\ Len(w) = s.head + 1 /\ \A i \in 1..(s.head + 1) : w[i] = "tenant" <=> i = s.head + 1
  BY <1>4
<1> HIDE DEF w, M
<1>7. /\ w \o e \in Seq(M) /\ Len(w \o e) = Len(w) + Len(e)
      /\ \A i \in 1..(Len(w) + Len(e)) : (w \o e)[i] = IF i <= Len(w) THEN w[i] ELSE e[i - Len(w)]
  BY <1>2, <1>6, ConcatProperties
<1>8. Len(w) + Len(e) = n /\ n \in Nat
  BY <1>0, <1>2, <1>6
<1>9. ASSUME NEW i \in 1..n PROVE (w \o e)[i] = "tenant" <=> i = s.head + 1
  <2>1. CASE i <= s.head + 1
    BY <1>0, <2>1, <1>6, <1>7, <1>8
  <2>2. CASE ~(i <= s.head + 1)
    <3>1. i - (s.head + 1) \in 1..s.tail
      BY <1>0, <2>2
    <3>2. (w \o e)[i] = e[i - (s.head + 1)]
      BY <1>6, <1>7, <1>8, <2>2
    <3> QED
      BY <1>0, <1>2, <2>2, <3>1, <3>2
  <2> QED
    BY <2>1, <2>2
<1>10. DOMAIN (w \o e) = 1..n
  BY <1>7, <1>8, LenProperties
<1>11. s.head + 1 \in 1..n /\ n = NumArgs(s) + 1
  BY <1>0 DEF NumArgs
<1> HIDE DEF n
<1> QED
  BY <1>5, <1>7, <1>8, <1>9, <1>10, <1>11

(* The tenant belongs to the same place in the text and in the arguments,   *)
(* if the statement is covered.                                            *)
LEMMA PlaceOfTenant ==
  ASSUME NEW c \in Calls
  PROVE  /\ IsStatement(c.stmt) /\ NumArgs(c.stmt) \in Nat
         /\ c.stmt.head \in 0..NumArgs(c.stmt)
         /\ PlaceholderPos(c.stmt) \in 0..NumArgs(c.stmt)
         /\ Covered(c.stmt) => /\ PlaceholderPos(c.stmt) = c.stmt.head
                               /\ c.stmt.insert => c.stmt.head = NumArgs(c.stmt)
<1>1. IsCall(c)
  BY CallsAssumption
<1> QED
  BY <1>1 DEF IsCall, IsStatement, Covered, PlaceholderPos, NumArgs

(* A part of an array.                                                     *)
LEMMA PartOfArray ==
  ASSUME MemInv, NEW a \in Arrays, NEW from \in Nat \ {0}, NEW to \in Nat, from <= to + 1, to <= ArrayLen[a]
  PROVE  /\ SubSeq(mem[a], from, to) \in Seq(Cells)
         /\ Len(SubSeq(mem[a], from, to)) = to + 1 - from
         /\ \A i \in 1..(to + 1 - from) : SubSeq(mem[a], from, to)[i] = mem[a][from + i - 1]
<1>1. mem[a] \in Seq(Cells) /\ Len(mem[a]) = ArrayLen[a] /\ ArrayLen[a] \in Nat
  BY ArraysAssumption DEF MemInv
<1>2. \A i \in from..to : mem[a][i] \in Cells
  BY <1>1, ElementOfSeq
<1>3. /\ SubSeq(mem[a], from, to) \in Seq(Cells)
      /\ Len(SubSeq(mem[a], from, to)) = IF from <= to THEN to - from + 1 ELSE 0
      /\ \A i \in 1..(to - from + 1) : SubSeq(mem[a], from, to)[i] = mem[a][from + i - 1]
  BY <1>2, SubSeqProperties
<1>4. to - from + 1 = to + 1 - from
  OBVIOUS
<1> QED
  BY <1>3, <1>4

(* The slice of a call in terms of its array.                              *)
LEMMA SliceOfCall ==
  ASSUME NEW c \in Calls
  PROVE  /\ c.arr \in Arrays /\ ArrayLen[c.arr] \in Nat
         /\ c.from \in Nat \ {0} /\ c.to \in Nat /\ c.to <= ArrayLen[c.arr]
         /\ c.to + 1 - c.from = NumArgs(c.stmt) /\ NumArgs(c.stmt) \in Nat
<1>1. IsCall(c)
  BY CallsAssumption
<1> QED
  BY <1>1, ArraysAssumption DEF IsCall, IsStatement, NumArgs

(* A slice that nobody appends into holds what its caller put there.       *)
LEMMA UndisturbedCells ==
  ASSUME MemInv, NEW c \in Calls, Undisturbed(c), NEW i \in 1..NumArgs(c.stmt)
  PROVE  mem[c.arr][c.from + i - 1] = OwnValue(c, i)
<1>1. c.from + i - 1 \in c.from..c.to /\ c.from + i - 1 \in 1..ArrayLen[c.arr]
  BY SliceOfCall
<1> DEFINE k == c.from + i - 1
<1>2. \A d \in Writers : d.arr = c.arr => d.to + 1 # k
  BY <1>1 DEF Undisturbed
<1>3. k \in 1..ArrayLen[c.arr] /\ c.arr \in Arrays
  BY <1>1, SliceOfCall
<1> HIDE DEF k
<1>4. mem[c.arr][k] = CallerValue(c.arr, k)
  BY <1>2, <1>3 DEF MemInv
<1> QED
  BY <1>4 DEF k, OwnValue

(* What a caller passes.                                                   *)
LEMMA Passed ==
  ASSUME MemInv, NEW c \in Calls
  PROVE  /\ PassedValues(c) \in Seq(Cells) /\ Len(PassedValues(c)) = NumArgs(c.stmt)
         /\ Undisturbed(c) => \A i \in 1..NumArgs(c.stmt) : PassedValues(c)[i] = OwnValue(c, i)
<1>1. /\ PassedValues(c) \in Seq(Cells)
      /\ Len(PassedValues(c)) = c.to + 1 - c.from
      /\ \A i \in 1..(c.to + 1 - c.from) : PassedValues(c)[i] = mem[c.arr][c.from + i - 1]
  BY SliceOfCall, PartOfArray DEF PassedValues
<1>2. \A i \in 1..NumArgs(c.stmt) : PassedValues(c)[i] = mem[c.arr][c.from + i - 1]
  BY <1>1, SliceOfCall
<1>3. Len(PassedValues(c)) = NumArgs(c.stmt)
  BY <1>1, SliceOfCall
<1> QED
  BY <1>1, <1>2, <1>3, UndisturbedCells

(* The tenant inserted at its marker gives the values that are meant.      *)
LEMMA InsertedIsMeant ==
  ASSUME MemInv, NEW r, r.call \in Calls, Undisturbed(r.call), r.ctx.tenant \in Cells
  PROVE  ScopedValues(r, Inserted(PassedValues(r.call), r.call.stmt.head, r.ctx.tenant))
<1> DEFINE c == r.call
           vals == PassedValues(c)
           h == c.stmt.head
           t == r.ctx.tenant
           n == NumArgs(c.stmt)
<1>1. vals \in Seq(Cells) /\ Len(vals) = n /\ \A i \in 1..n : vals[i] = OwnValue(c, i)
  BY Passed
<1>2. h \in 0..n /\ n \in Nat /\ t \in Cells
  BY PlaceOfTenant
<1>3. ScopedValues(r, Inserted(vals, h, t)) <=>
        \A i \in 1..(n + 1) : Inserted(vals, h, t)[i] =
            IF i <= h THEN OwnValue(c, i) ELSE IF i = h + 1 THEN t ELSE OwnValue(c, i - 1)
  BY DEF ScopedValues
<1> HIDE DEF c, vals, h, t, n
<1>4. \A i \in 1..(n + 1) : Inserted(vals, h, t)[i] =
          IF i <= h THEN vals[i] ELSE IF i = h + 1 THEN t ELSE vals[i - 1]
  <2>1. h \in 0..Len(vals)
    BY <1>1, <1>2
  <2>2. \A i \in 1..(Len(vals) + 1) : Inserted(vals, h, t)[i] = InsertedAt(vals, h, t, i)
    BY <1>1, <1>2, <2>1, InsertedValue
  <2> QED
    BY <1>1, <2>2 DEF InsertedAt
<1>5. \A i \in 1..(n + 1) : /\ i <= h => vals[i] = OwnValue(c, i)
                            /\ (~(i <= h) /\ i # h + 1) => vals[i - 1] = OwnValue(c, i - 1)
  BY <1>1, <1>2
<1>6. ScopedValues(r, Inserted(vals, h, t))
  BY <1>3, <1>4, <1>5
<1> QED
  BY <1>6 DEF c, vals, h, t

-----------------------------------------------------------------------------
(* What the database gets of each kind of statement.                       *)
LEMMA CallerValues ==
  ASSUME NEW c, NEW to
  PROVE  SliceValues(CallerSlice(c, to)) = SubSeq(mem[c.arr], c.from, to)
<1>1. CallerSlice(c, to).arr = {c.arr} /\ {c.arr} # {}
  BY DEF CallerSlice
<1>2. (CHOOSE a \in {c.arr} : TRUE) = c.arr
  OBVIOUS
<1> QED
  BY <1>1, <1>2 DEF SliceValues, CallerSlice

CallerExtended(c) == SliceValues(CallerSlice(c, c.to + 1))

(* The caller's slice, longer by the cell behind it.                       *)
LEMMA ExtendedValues ==
  ASSUME MemInv, NEW c \in Calls, HasRoom(c)
  PROVE  /\ CallerExtended(c) \in Seq(Cells) /\ Len(CallerExtended(c)) = NumArgs(c.stmt) + 1
         /\ CallerExtended(c)[NumArgs(c.stmt) + 1] = mem[c.arr][c.to + 1]
         /\ Undisturbed(c) => \A i \in 1..NumArgs(c.stmt) : CallerExtended(c)[i] = OwnValue(c, i)
<1>1. /\ c.arr \in Arrays /\ c.from \in Nat \ {0} /\ c.to \in Nat /\ ArrayLen[c.arr] \in Nat
      /\ c.to + 1 - c.from = NumArgs(c.stmt) /\ NumArgs(c.stmt) \in Nat /\ c.to < ArrayLen[c.arr]
  BY SliceOfCall DEF HasRoom
<1>2. PICK n \in Nat : n = c.to + 1
  BY <1>1
<1>3. CallerExtended(c) = SubSeq(mem[c.arr], c.from, n)
  BY <1>2, CallerValues DEF CallerExtended
<1>4. n + 1 - c.from = NumArgs(c.stmt) + 1 /\ c.from <= n + 1 /\ n <= ArrayLen[c.arr]
  BY <1>1, <1>2
<1>5. /\ CallerExtended(c) \in Seq(Cells) /\ Len(CallerExtended(c)) = NumArgs(c.stmt) + 1
      /\ \A i \in 1..(NumArgs(c.stmt) + 1) : CallerExtended(c)[i] = mem[c.arr][c.from + i - 1]
  <2>1. /\ SubSeq(mem[c.arr], c.from, n) \in Seq(Cells)
        /\ Len(SubSeq(mem[c.arr], c.from, n)) = n + 1 - c.from
        /\ \A i \in 1..(n + 1 - c.from) : SubSeq(mem[c.arr], c.from, n)[i] = mem[c.arr][c.from + i - 1]
    BY <1>1, <1>4, PartOfArray
  <2> QED
    BY <1>3, <1>4, <2>1
<1>6. NumArgs(c.stmt) + 1 \in 1..(NumArgs(c.stmt) + 1) /\ c.from + (NumArgs(c.stmt) + 1) - 1 = c.to + 1
  BY <1>1
<1>7. CallerExtended(c)[NumArgs(c.stmt) + 1] = mem[c.arr][c.to + 1]
  BY <1>5, <1>6
<1>8. \A i \in 1..NumArgs(c.stmt) : CallerExtended(c)[i] = mem[c.arr][c.from + i - 1]
  BY <1>1, <1>5
<1> QED
  BY <1>5, <1>7, <1>8, UndisturbedCells

(* No value in an array stands for all tenants.                            *)
LEMMA CellIsNotEveryone == Everyone \notin Cells
<1>1. \A p \in Arrays \X (Nat \ {0}) : p[2] \in Nat \ {0}
  OBVIOUS
<1>2. Everyone[2] = 0
  BY DEF Everyone
<1> QED
  BY <1>1, <1>2, EveryoneAssumption DEF Cells

(* An INSERT that stays as it is gets a value too many, and uses every row  *)
(* where the driver ignores that.                                          *)
LEMMA RefusedUses ==
  ASSUME MemInv, NEW r, r.call \in Calls, Refused(r)
  PROVE  /\ UsedBy(r) = {Everyone} /\ (~SurplusIgnored => ~Accepted(r))
         /\ Undisturbed(r.call) =>
               \A i \in 1..NumArgs(r.call.stmt) : SliceValues(r.args)[i] = OwnValue(r.call, i)
<1>1. Len(r.marks) = NumArgs(r.call.stmt) /\ NumArgs(r.call.stmt) \in Nat
  BY PlaceOfTenant, MarksOfUser DEF Refused
<1>2. /\ Len(SliceValues(r.args)) = NumArgs(r.call.stmt) + 1
      /\ Undisturbed(r.call) => \A i \in 1..NumArgs(r.call.stmt) : SliceValues(r.args)[i] = OwnValue(r.call, i)
  <2>1. CASE r.args = CallerSlice(r.call, r.call.to + 1) /\ HasRoom(r.call)
    BY <2>1, ExtendedValues DEF CallerExtended
  <2>2. CASE ~(r.args = CallerSlice(r.call, r.call.to + 1) /\ HasRoom(r.call))
    BY <2>2 DEF Refused, SliceValues
  <2> QED
    BY <2>1, <2>2
<1>3. {i \in DOMAIN r.marks : r.marks[i] = "tenant"} = {}
  BY PlaceOfTenant, MarksOfUser DEF Refused
<1>4. UsedBy(r) = {Everyone}
  BY <1>3 DEF UsedBy, Refused
<1> QED
  BY <1>1, <1>2, <1>4 DEF Accepted

(* A statement with a marker for the tenant uses the rows of the value there.*)
LEMMA ScopedUses ==
  ASSUME NEW r, r.call \in Calls, r.marks = ScopedMarks(r.call.stmt)
  PROVE  UsedBy(r) = {SliceValues(r.args)[r.call.stmt.head + 1]}
<1>1. {i \in DOMAIN r.marks : r.marks[i] = "tenant"} = {r.call.stmt.head + 1}
  BY PlaceOfTenant, MarksOfScoped
<1> QED
  BY <1>1 DEF UsedBy

(* A copied slice binds a value of a cell, the tenant of the context if the *)
(* statement is covered.                                                   *)
LEMMA CopiedUses ==
  ASSUME NEW r, r.call \in Calls, Copied(r)
  PROVE  /\ UsedBy(r) # {Everyone}
         /\ Covered(r.call.stmt) => UsedBy(r) = {r.ctx.tenant}
<1>1. UsedBy(r) = {r.args.vals[r.call.stmt.head + 1]}
  BY ScopedUses DEF Copied, SliceValues
<1>2. r.call.stmt.head + 1 \in 1..Len(r.args.vals)
  BY PlaceOfTenant DEF Copied
<1>3. r.args.vals[r.call.stmt.head + 1] \in Cells
  BY <1>2, ElementOfSeq DEF Copied
<1> QED
  BY <1>1, <1>3, CellIsNotEveryone DEF Copied

(* So does an append in place, if nobody else appends there.               *)
LEMMA InPlaceUses ==
  ASSUME MemInv, NEW r, r.call \in Calls, InPlace(r, mem)
  PROVE  /\ UsedBy(r) # {Everyone}
         /\ Bindable(r.call) => UsedBy(r) = {r.ctx.tenant}
<1> DEFINE n == NumArgs(r.call.stmt)
           vals == SliceValues(r.args)
<1>1. vals \in Seq(Cells) /\ Len(vals) = n + 1 /\ vals[n + 1] = mem[r.call.arr][r.call.to + 1]
  BY ExtendedValues DEF InPlace, CallerExtended
<1>2. UsedBy(r) = {vals[r.call.stmt.head + 1]}
  BY ScopedUses DEF InPlace
<1>3. r.call.stmt.head + 1 \in 1..Len(vals) /\ (Covered(r.call.stmt) => r.call.stmt.head = n)
  BY <1>1, PlaceOfTenant DEF InPlace
<1> HIDE DEF n, vals
<1>4. vals[r.call.stmt.head + 1] \in Cells
  BY <1>1, <1>3, ElementOfSeq
<1> QED
  BY <1>1, <1>2, <1>3, <1>4, CellIsNotEveryone DEF InPlace, Bindable

(* The values of a slice with the tenant appended are the ones that are     *)
(* meant.                                                                  *)
LEMMA InPlaceIsMeant ==
  ASSUME MemInv, NEW r, r.call \in Calls, InPlace(r, mem), Bindable(r.call), Undisturbed(r.call)
  PROVE  ScopedValues(r, SliceValues(r.args))
<1> DEFINE c == r.call
           n == NumArgs(c.stmt)
           vals == SliceValues(r.args)
<1>1. /\ vals[n + 1] = mem[c.arr][c.to + 1]
      /\ \A i \in 1..n : vals[i] = OwnValue(c, i)
  BY ExtendedValues DEF InPlace, CallerExtended
<1>2. mem[c.arr][c.to + 1] = r.ctx.tenant /\ c.stmt.head = n /\ n \in Nat
  BY PlaceOfTenant DEF InPlace, Bindable
<1> HIDE DEF n, vals
<1>3. \A i \in 1..(n + 1) : vals[i] = IF i <= n THEN OwnValue(c, i)
                                       ELSE IF i = n + 1 THEN r.ctx.tenant ELSE OwnValue(c, i - 1)
  BY <1>1, <1>2
<1> QED
  BY <1>2, <1>3 DEF ScopedValues, n, vals

(* A statement without a marker of the tenant uses every row.              *)
LEMMA UnscopedUses ==
  ASSUME NEW r, r.call \in Calls, Unscoped(r)
  PROVE  UsedBy(r) = {Everyone}
<1>1. {i \in DOMAIN r.marks : r.marks[i] = "tenant"} = {}
  BY PlaceOfTenant, MarksOfUser DEF Unscoped
<1> QED
  BY <1>1 DEF UsedBy, Unscoped

(* The query without rows uses none.                                       *)
LEMMA RowlessUses ==
  ASSUME NEW r, Rowless(r)
  PROVE  UsedBy(r) = {}
<1>1. {i \in DOMAIN r.marks : r.marks[i] = "tenant"} = {}
  BY DEF Rowless
<1> QED
  BY <1>1 DEF UsedBy, Rowless

(* The markers of a text as it was get the values that the caller passes.  *)
LEMMA UserMeant ==
  ASSUME NEW r, r.call \in Calls, r.marks = UserMarks(r.call.stmt),
         \A i \in 1..NumArgs(r.call.stmt) : SliceValues(r.args)[i] = OwnValue(r.call, i)
  PROVE  \A i \in DOMAIN r.marks : SliceValues(r.args)[i] = MeantValue(r, i)
<1> DEFINE c == r.call
           n == NumArgs(c.stmt)
<1>1. /\ DOMAIN r.marks = 1..n /\ n \in Nat /\ c.from \in Nat
      /\ \A i \in 1..n : r.marks[i] # "tenant"
  BY PlaceOfTenant, SliceOfCall, MarksOfUser
<1>2. ASSUME NEW i \in 1..n PROVE MeantValue(r, i) = OwnValue(c, i)
  <2>1. ~\E j \in 1..i : r.marks[j] = "tenant"
    BY <1>1
  <2> QED
    BY <1>1, <2>1 DEF MeantValue, OwnValue
<1> QED
  BY <1>1, <1>2

(* Those of a scoped text get them with the tenant at its place.           *)
LEMMA ScopedMeant ==
  ASSUME NEW r, r.call \in Calls, r.marks = ScopedMarks(r.call.stmt), r.ctx = MeantContext(r.call),
         ScopedValues(r, SliceValues(r.args))
  PROVE  \A i \in DOMAIN r.marks : SliceValues(r.args)[i] = MeantValue(r, i)
<1> DEFINE c == r.call
           n == NumArgs(c.stmt)
           h == c.stmt.head
<1>1. n \in Nat /\ h \in 0..n /\ c.from \in Nat
  BY PlaceOfTenant, SliceOfCall
<1>2. DOMAIN r.marks = 1..(n + 1) /\ {i \in DOMAIN r.marks : r.marks[i] = "tenant"} = {h + 1}
  BY PlaceOfTenant, MarksOfScoped
<1>3. \A i \in 1..(n + 1) : r.marks[i] = "tenant" <=> i = h + 1
  BY <1>2
<1>4. ASSUME NEW i \in 1..(n + 1)
      PROVE  MeantValue(r, i) = IF i <= h THEN OwnValue(c, i) ELSE IF i = h + 1 THEN r.ctx.tenant
                                ELSE OwnValue(c, i - 1)
  <2>1. (\E j \in 1..i : r.marks[j] = "tenant") <=> h + 1 <= i
    BY <1>1, <1>3
  <2> DEFINE behind == \E j \in 1..i : r.marks[j] = "tenant"
  <2>2. MeantValue(r, i) = IF r.marks[i] = "tenant" THEN r.ctx.tenant
                           ELSE CallerValue(c.arr, c.from + i - (IF behind THEN 2 ELSE 1))
    BY DEF MeantValue
  <2> HIDE DEF behind
  <2>3. behind <=> h + 1 <= i
    BY <2>1 DEF behind
  <2>4. c.from + i - 2 = c.from + (i - 1) - 1
    BY <1>1
  <2> QED
    BY <1>1, <1>3, <2>2, <2>3, <2>4 DEF OwnValue
<1> QED
  BY <1>2, <1>4 DEF ScopedValues

-----------------------------------------------------------------------------
(* The context and the handle of a waiting statement are the ones that are  *)
(* to decide it.                                                           *)
LEMMA SentByMeant ==
  ASSUME SqlxInv, NEW g \in Goroutines, cur[g] # Idle
  PROVE  /\ MemInv /\ IsSent(cur[g], mem, tx) /\ cur[g].call \in Calls
         /\ cur[g].ctx = MeantContext(cur[g].call) /\ cur[g].handle = MeantHandle(cur[g].call)
  BY DEF SqlxInv, CurInv, IsSent, MeantContext, MeantHandle

(* The invariant implies the three properties.                             *)
LEMMA InvBoundAsMeant ==
  ASSUME SqlxInv
  PROVE  BoundAsMeant
<1> SUFFICES ASSUME NEW g \in Goroutines, cur[g] # Idle, Bindable(cur[g].call)
             PROVE  /\ UsedBy(cur[g]) \subseteq {MeantContext(cur[g].call).tenant, Everyone}
                    /\ Undisturbed(cur[g].call) =>
                          \A i \in DOMAIN cur[g].marks : SliceValues(cur[g].args)[i] = MeantValue(cur[g], i)
  BY DEF BoundAsMeant
<1> DEFINE r == cur[g]
<1>1. MemInv /\ IsSent(r, mem, tx) /\ r.call \in Calls /\ r.ctx = MeantContext(r.call)
  BY SentByMeant
<1> DEFINE Meant == \A i \in DOMAIN r.marks : SliceValues(r.args)[i] = MeantValue(r, i)
<1> HIDE DEF r
<1>2. Bindable(r.call) /\ Covered(r.call.stmt)
  BY DEF r, Bindable
<1>3. CASE Rowless(r)
  <2>1. UsedBy(r) = {} /\ DOMAIN r.marks = {}
    BY <1>3, RowlessUses DEF Rowless
  <2> QED
    BY <2>1 DEF r
<1>4. CASE Unscoped(r)
  <2>1. UsedBy(r) = {Everyone} /\ r.marks = UserMarks(r.call.stmt)
    BY <1>1, <1>4, UnscopedUses DEF Unscoped
  <2>2. ASSUME Undisturbed(r.call) PROVE Meant
    <3>1. SliceValues(r.args) = PassedValues(r.call)
      BY <1>4, CallerValues DEF Unscoped, PassedValues
    <3>2. \A i \in 1..NumArgs(r.call.stmt) : SliceValues(r.args)[i] = OwnValue(r.call, i)
      BY <1>1, <2>2, <3>1, Passed
    <3> QED
      BY <1>1, <2>1, <3>2, UserMeant
  <2> QED
    BY <2>1, <2>2 DEF r
<1>5. CASE Copied(r)
  <2>1. UsedBy(r) = {r.ctx.tenant}
    BY <1>1, <1>2, <1>5, CopiedUses
  <2>2. r.marks = ScopedMarks(r.call.stmt) /\ SliceValues(r.args) = r.args.vals
    BY <1>5 DEF Copied, SliceValues
  <2>3. ASSUME Undisturbed(r.call) PROVE Meant
    <3>1. ScopedValues(r, SliceValues(r.args))
      BY <1>2, <1>5, <2>2, <2>3 DEF Copied
    <3> QED
      BY <1>1, <2>2, <3>1, ScopedMeant
  <2> QED
    BY <1>1, <2>1, <2>3 DEF r
<1>6. CASE Refused(r)
  <2>1. /\ UsedBy(r) = {Everyone} /\ r.marks = UserMarks(r.call.stmt)
        /\ Undisturbed(r.call) =>
              \A i \in 1..NumArgs(r.call.stmt) : SliceValues(r.args)[i] = OwnValue(r.call, i)
    BY <1>1, <1>6, RefusedUses DEF Refused
  <2>2. ASSUME Undisturbed(r.call) PROVE Meant
    BY <1>1, <2>1, <2>2, UserMeant
  <2> QED
    BY <2>1, <2>2 DEF r
<1>7. CASE InPlace(r, mem)
  <2>1. UsedBy(r) = {r.ctx.tenant} /\ r.marks = ScopedMarks(r.call.stmt)
    BY <1>1, <1>2, <1>7, InPlaceUses DEF InPlace
  <2>2. ASSUME Undisturbed(r.call) PROVE Meant
    <3>1. ScopedValues(r, SliceValues(r.args))
      BY <1>1, <1>2, <1>7, <2>2, InPlaceIsMeant
    <3> QED
      BY <1>1, <2>1, <3>1, ScopedMeant
  <2> QED
    BY <1>1, <2>1, <2>2 DEF r
<1> QED
  BY <1>1, <1>3, <1>4, <1>5, <1>6, <1>7 DEF IsSent

(* Of the statements that a call hands over, those without a tenant.       *)
LEMMA InvUnscopedOnRequest ==
  ASSUME SqlxInv, ~SurplusIgnored
  PROVE  UnscopedOnRequest
<1> SUFFICES ASSUME NEW g \in Goroutines, cur[g] # Idle, Accepted(cur[g]), UsedBy(cur[g]) = {Everyone}
             PROVE  \/ MeantContext(cur[g].call).skip
                    \/ cur[g].call.stmt.words \cap SkipTables # {}
                    \/ MeantHandle(cur[g].call) = "without"
                    \/ cur[g].call.method = "NamedExec" /\ MeantContext(cur[g].call).tenant # NoTenant
                    \/ cur[g].call.method = "Promoted"
  BY DEF UnscopedOnRequest
<1>1. MemInv /\ IsSent(cur[g], mem, tx) /\ cur[g].call \in Calls
  BY SentByMeant
<1>2. cur[g].ctx = MeantContext(cur[g].call) /\ cur[g].handle = MeantHandle(cur[g].call)
  BY SentByMeant
<1>3. Unscoped(cur[g])
  BY <1>1, RowlessUses, CopiedUses, RefusedUses, InPlaceUses DEF IsSent
<1> QED
  BY <1>2, <1>3 DEF Unscoped, ShouldSkip, SkipTablesOf

(* What a transaction has used is within what the invariant records.       *)
LEMMA InvTxOneTenant ==
  ASSUME SqlxInv
  PROVE  TxOneTenant
  BY DEF SqlxInv, TxInv, TxOneTenant, NoTx

-----------------------------------------------------------------------------
(* The steps.                                                              *)
LEMMA InitSqlxInv == Init => SqlxInv
<1> SUFFICES ASSUME Init PROVE SqlxInv
  OBVIOUS
<1>1. \A a \in Arrays : ArrayLen[a] \in Nat
  BY ArraysAssumption
<1>2. ASSUME NEW a \in Arrays
      PROVE  /\ mem[a] \in Seq(Cells) /\ Len(mem[a]) = ArrayLen[a]
             /\ \A i \in 1..ArrayLen[a] : mem[a][i] = CallerValue(a, i)
  <2>1. mem[a] = [i \in 1..ArrayLen[a] |-> CallerValue(a, i)]
    BY DEF Init
  <2>2. \A i \in 1..ArrayLen[a] : CallerValue(a, i) \in Cells
    BY <1>1 DEF Cells, CallerValue
  <2>3. mem[a] \in [1..ArrayLen[a] -> Cells]
    BY <2>1, <2>2
  <2> QED
    BY <1>1, <2>1, <2>3
<1>3. MemInv
  BY <1>2 DEF Init, MemInv
<1> QED
  BY <1>3 DEF Init, SqlxInv, TxInv, CurInv

(* A call of another goroutine leaves a waiting statement as it is: if it   *)
(* appends at the same cell, the cell is not the waiting call's own.       *)
LEMMA OthersKeepSent ==
  ASSUME SqlxInv, NEW c \in Writers, NEW g \in Goroutines, g # c.by, cur[g] # Idle,
         NEW t \in Tenants, mem' = [mem EXCEPT ![c.arr][c.to + 1] = t]
  PROVE  IsSent(cur[g], mem', tx)
<1>1. IsSent(cur[g], mem, tx) /\ cur[g].call.by = g /\ cur[g].call \in Calls
  BY DEF SqlxInv, CurInv, IsSent
<1> DEFINE d == cur[g].call
<1>2. /\ d.arr \in Arrays /\ d.to \in Nat /\ c.arr \in Arrays /\ c.to \in Nat
      /\ mem \in [Arrays -> Seq(Cells)]
  BY <1>1, SliceOfCall DEF Writers, SqlxInv, MemInv
<1>3. ASSUME InPlace(cur[g], mem) PROVE InPlace(cur[g], mem')
  <2> SUFFICES ASSUME TenantOwn(d)
               PROVE  mem'[d.arr][d.to + 1] = mem[d.arr][d.to + 1]
    BY <1>3 DEF InPlace
  <2>1. d.arr # c.arr \/ d.to # c.to
    BY <1>1 DEF TenantOwn
  <2>2. CASE d.arr # c.arr
    BY <1>2, <2>2
  <2>3. CASE d.arr = c.arr /\ d.to # c.to
    <3>1. mem'[c.arr] = [mem[c.arr] EXCEPT ![c.to + 1] = t] /\ d.to + 1 # c.to + 1
      BY <1>2, <2>3
    <3> QED
      BY <1>2, <2>3, <3>1
  <2> QED
    BY <2>1, <2>2, <2>3
<1> QED
  BY <1>1, <1>3 DEF IsSent

(* append writes into the cell behind the slice of a call.                 *)
LEMMA AppendKeepsMemInv ==
  ASSUME MemInv, NEW c \in Writers, NEW t \in Tenants, mem' = [mem EXCEPT ![c.arr][c.to + 1] = t]
  PROVE  MemInv' /\ mem'[c.arr][c.to + 1] = t
<1>1. c.arr \in Arrays /\ c.to \in Nat /\ ArrayLen[c.arr] \in Nat /\ c.to < ArrayLen[c.arr]
  BY SliceOfCall DEF Writers, HasRoom
<1>2. mem[c.arr] \in Seq(Cells) /\ Len(mem[c.arr]) = ArrayLen[c.arr] /\ t \in Cells
  BY <1>1 DEF MemInv, Cells
<1>3. mem'[c.arr] = [mem[c.arr] EXCEPT ![c.to + 1] = t] /\ \A a \in Arrays \ {c.arr} : mem'[a] = mem[a]
  BY <1>1 DEF MemInv
<1>4. /\ mem'[c.arr] \in Seq(Cells) /\ Len(mem'[c.arr]) = ArrayLen[c.arr]
      /\ mem'[c.arr][c.to + 1] = t
      /\ \A i \in 1..ArrayLen[c.arr] : i # c.to + 1 => mem'[c.arr][i] = mem[c.arr][i]
  BY <1>1, <1>2, <1>3
<1>5. DOMAIN mem' = Arrays /\ mem' = [a \in Arrays |-> mem'[a]]
  BY DEF MemInv
<1>6. \A a \in Arrays : mem'[a] \in Seq(Cells) /\ Len(mem'[a]) = ArrayLen[a]
  BY <1>3, <1>4 DEF MemInv
<1>7. mem' \in [Arrays -> Seq(Cells)]
  BY <1>5, <1>6
<1>8. ASSUME NEW a \in Arrays, NEW i \in 1..ArrayLen[a], \A d \in Writers : d.arr = a => d.to + 1 # i
      PROVE  mem'[a][i] = CallerValue(a, i)
  <2>1. mem[a][i] = CallerValue(a, i)
    BY <1>8 DEF MemInv
  <2>2. CASE a = c.arr
    BY <1>4, <1>8, <2>1, <2>2
  <2>3. CASE a # c.arr
    BY <1>3, <2>1, <2>3
  <2> QED
    BY <2>2, <2>3
<1> QED
  BY <1>4, <1>6, <1>7, <1>8 DEF MemInv

(* The context and the handle that a call on a receiver is decided by.     *)
Decides(c, handle, ctx) ==
    /\ c.on = "tx" => tx.open /\ ctx = tx.ctx /\ handle = tx.handle
    /\ c.on # "tx" => ctx = c.ctx /\ handle = c.on

(* What a call hands over is of one of the kinds.                          *)
LEMMA EnforceSends ==
  ASSUME SqlxInv, NEW c \in Calls, NEW STATE handle, NEW STATE ctx, ctx \in Contexts,
         Enforce(c, handle, ctx), Decides(c, handle, ctx), c.method # "Promoted",
         cur'[c.by] # Idle
  PROVE  IsSent(cur'[c.by], mem', tx) /\ cur'[c.by].call = c
<1> DEFINE skip == ShouldSkip(handle, ctx, c.stmt)
           missing == ~skip /\ ctx.tenant = NoTenant
           inserts == ~skip /\ ~missing /\ c.method = "Exec" /\ c.stmt.insert
<1>1. c.by \in Goroutines /\ DOMAIN cur = Goroutines
  BY CallsAssumption DEF IsCall, SqlxInv, CurInv
<1>2. /\ cur' = [cur EXCEPT ![c.by] =
                     CASE missing /\ c.method = "QueryRowx" -> NoRows(c, handle, ctx)
                       [] missing /\ c.method # "QueryRowx" -> Idle
                       [] skip -> AsPassed(c, handle, ctx)
                       [] inserts -> WithValue(c, handle, ctx)
                       [] OTHER -> IF c.method = "NamedExec" THEN AsPassed(c, handle, ctx)
                                   ELSE WithCondition(c, handle, ctx)]
      /\ mem' = IF inserts THEN AppendMem(c, ctx.tenant) ELSE mem
  BY DEF Enforce
<1> DEFINE r == cur'[c.by]
<1>3. \/ missing /\ r = NoRows(c, handle, ctx)
      \/ missing /\ r = Idle
      \/ skip /\ r = AsPassed(c, handle, ctx)
      \/ inserts /\ r = WithValue(c, handle, ctx)
      \/ ~skip /\ ~missing /\ c.method = "NamedExec" /\ r = AsPassed(c, handle, ctx)
      \/ ~skip /\ ~missing /\ ~inserts /\ r = WithCondition(c, handle, ctx)
  <2> HIDE DEF skip
  <2> QED
    BY <1>1, <1>2
<1>4. ~inserts => mem' = mem
  BY <1>2
<1>5. inserts => mem' = AppendMem(c, ctx.tenant)
  BY <1>2
<1>6. ctx.tenant \in Tenants \cup {NoTenant}
  BY DEF Contexts
<1>7. CASE missing /\ r = NoRows(c, handle, ctx)
  <2>1. r.pc = "send" /\ r.call = c /\ r.ctx = ctx /\ r.handle = handle /\ Rowless(r)
    BY <1>7 DEF NoRows, Sent, Rowless
  <2> QED
    BY <2>1 DEF IsSent, Decides
<1>8. CASE (skip \/ (~missing /\ c.method = "NamedExec")) /\ r = AsPassed(c, handle, ctx)
  <2>1. r.pc = "send" /\ r.call = c /\ r.ctx = ctx /\ r.handle = handle /\ Unscoped(r)
    BY <1>8 DEF AsPassed, Sent, Unscoped
  <2> QED
    BY <2>1 DEF IsSent, Decides
<1>9. CASE ~skip /\ ~missing /\ r = WithCondition(c, handle, ctx)
  <2> DEFINE vals == PassedValues(c)
             pos == PlaceholderPos(c.stmt)
             t == ctx.tenant
             w == Inserted(vals, pos, t)
  <2>1. /\ r.pc = "send" /\ r.call = c /\ r.ctx = ctx /\ r.handle = handle
        /\ r.rows /\ r.marks = ScopedMarks(c.stmt)
        /\ r.args = InsertArgAtPosition(c, pos, t)
    BY <1>9 DEF WithCondition, Sent
  <2>2. t \in Tenants /\ t \in Cells
    BY <1>6, <1>9 DEF Cells
  <2>3. vals \in Seq(Cells) /\ Len(vals) = NumArgs(c.stmt) /\ pos \in 0..Len(vals)
    BY Passed, PlaceOfTenant DEF SqlxInv
  <2>4. r.args.arr = {} /\ r.args.vals = w
    <3>1. r.args = OwnSlice(w)
      BY <2>1 DEF InsertArgAtPosition, Inserted
    <3> QED
      BY <3>1 DEF OwnSlice
  <2>5. w \in Seq(Cells) /\ Len(w) = NumArgs(c.stmt) + 1 /\ w[pos + 1] = t
    <3> HIDE DEF vals, pos, t
    <3>1. /\ Inserted(vals, pos, t) \in Seq(Cells) /\ Len(Inserted(vals, pos, t)) = Len(vals) + 1
          /\ Inserted(vals, pos, t)[pos + 1] = t
      <4>1. vals \in Seq(Cells) /\ pos \in 0..Len(vals) /\ t \in Cells
        BY <2>2, <2>3
      <4> HIDE DEF w
      <4> QED
        BY <4>1, InsertedValue
    <3> QED
      BY <2>3, <3>1
  <2>6. ASSUME Covered(c.stmt)
        PROVE  w[c.stmt.head + 1] = t /\ (Undisturbed(c) => ScopedValues(r, w))
    <3>1. pos = c.stmt.head
      BY <2>6, PlaceOfTenant
    <3>2. Undisturbed(c) => ScopedValues(r, Inserted(PassedValues(r.call), r.call.stmt.head, r.ctx.tenant))
      BY <2>1, <2>2, InsertedIsMeant DEF SqlxInv
    <3> QED
      BY <2>1, <2>5, <3>1, <3>2
  <2> HIDE DEF w, t
  <2>7. Copied(r)
    BY <2>1, <2>2, <2>4, <2>5, <2>6 DEF Copied, t
  <2> QED
    BY <2>1, <2>7 DEF IsSent, Decides
<1>10. CASE inserts /\ r = WithValue(c, handle, ctx)
  <2> DEFINE n == NumArgs(c.stmt)
             vals == PassedValues(c)
             t == ctx.tenant
             w == vals \o <<t>>
  <2>1. /\ r.pc = "send" /\ r.call = c /\ r.ctx = ctx /\ r.handle = handle
        /\ r.rows /\ r.marks = InsertMarks(c.stmt)
        /\ r.args = AppendArg(c, t)
    BY <1>10 DEF WithValue, Sent
  <2>2. t \in Tenants /\ t \in Cells
    BY <1>6, <1>10 DEF Cells
  <2>3. vals \in Seq(Cells) /\ Len(vals) = n /\ n \in Nat
    BY Passed, PlaceOfTenant DEF SqlxInv
  <2>4. w = Inserted(vals, n, t)
    <3> HIDE DEF vals, t, n
    <3> QED
      BY <2>2, <2>3, InsertedAtEnd
  <2>5. /\ w \in Seq(Cells) /\ Len(w) = n + 1 /\ w[n + 1] = t
        /\ \A i \in 1..n : w[i] = vals[i]
    <3> HIDE DEF vals, t, n
    <3>1. <<t>> \in Seq(Cells) /\ Len(<<t>>) = 1 /\ <<t>>[1] = t
      BY <2>2
    <3>2. /\ w \in Seq(Cells) /\ Len(w) = n + 1
          /\ \A i \in 1..(n + 1) : w[i] = IF i <= n THEN vals[i] ELSE <<t>>[i - n]
      BY <2>3, <3>1, ConcatProperties
    <3> HIDE DEF w
    <3>3. n + 1 \in 1..(n + 1) /\ ~(n + 1 <= n) /\ n + 1 - n = 1
      BY <2>3
    <3> QED
      BY <2>3, <3>1, <3>2, <3>3
  <2>6. c.stmt.insert /\ (HasRoom(c) => c \in Writers)
    BY <1>10 DEF Writers
  <2>7. CASE HasRoom(c)
    <3>1. r.args = CallerSlice(c, c.to + 1)
      BY <2>1, <2>7 DEF AppendArg
    <3>2. mem'[c.arr][c.to + 1] = t
      BY <1>5, <1>10, <2>2, <2>6, <2>7, AppendKeepsMemInv DEF AppendMem, SqlxInv
    <3>3. CASE c.stmt.listed
      <4>1. InPlace(r, mem')
        BY <2>1, <2>2, <2>6, <2>7, <3>1, <3>2, <3>3 DEF InPlace, InsertMarks
      <4> QED
        BY <2>1, <4>1 DEF IsSent, Decides
    <3>4. CASE ~c.stmt.listed
      <4>1. Refused(r)
        BY <2>1, <2>7, <3>1, <3>4 DEF Refused, InsertMarks
      <4> QED
        BY <2>1, <4>1 DEF IsSent, Decides
    <3> QED
      BY <3>3, <3>4
  <2>8. CASE ~HasRoom(c)
    <3>1. r.args.arr = {} /\ r.args.vals = w
      BY <2>1, <2>8 DEF AppendArg, OwnSlice
    <3>2. CASE c.stmt.listed
      <4>1. r.marks = ScopedMarks(c.stmt)
        BY <2>1, <3>2 DEF InsertMarks
      <4>2. ASSUME Covered(c.stmt)
            PROVE  w[c.stmt.head + 1] = t /\ (Undisturbed(c) => ScopedValues(r, w))
        <5>1. n = c.stmt.head
          BY <2>6, <4>2, PlaceOfTenant
        <5>2. Undisturbed(c) =>
                ScopedValues(r, Inserted(PassedValues(r.call), r.call.stmt.head, r.ctx.tenant))
          BY <2>1, <2>2, InsertedIsMeant DEF SqlxInv
        <5>3. Inserted(PassedValues(r.call), r.call.stmt.head, r.ctx.tenant) = w
          BY <2>1, <2>4, <5>1
        <5> QED
          BY <2>5, <5>1, <5>2, <5>3
      <4> HIDE DEF w, t
      <4>3. Copied(r)
        BY <2>1, <2>2, <2>5, <3>1, <4>1, <4>2 DEF Copied, t
      <4> QED
        BY <2>1, <4>3 DEF IsSent, Decides
    <3>3. CASE ~c.stmt.listed
      <4>1. Undisturbed(c) => \A i \in 1..n : vals[i] = OwnValue(c, i)
        BY Passed DEF SqlxInv
      <4> HIDE DEF w, vals
      <4>2. Refused(r)
        BY <2>1, <2>5, <3>1, <3>3, <4>1 DEF Refused, InsertMarks
      <4> QED
        BY <2>1, <4>2 DEF IsSent, Decides
    <3> QED
      BY <3>2, <3>3
  <2> QED
    BY <2>7, <2>8
<1> HIDE DEF skip
<1> QED
  BY <1>3, <1>7, <1>8, <1>9, <1>10

(* A call in any of the ways that the adapter treats it.                   *)
LEMMA EnforceKeepsSqlxInv ==
  ASSUME SqlxInv, NEW c \in Calls, NEW STATE handle, NEW STATE ctx, ctx \in Contexts,
         Enforce(c, handle, ctx), Decides(c, handle, ctx), c.method # "Promoted"
  PROVE  SqlxInv'
<1>1. c.by \in Goroutines /\ DOMAIN cur = Goroutines
  BY CallsAssumption DEF IsCall, SqlxInv, CurInv
<1>2. UNCHANGED <<tx, touched>> /\ cur[c.by] = Idle
  BY DEF Enforce
<1>3. DOMAIN cur' = Goroutines /\ \A g \in Goroutines \ {c.by} : cur'[g] = cur[g]
  BY <1>1 DEF Enforce
<1>4. \/ mem' = mem
      \/ ctx.tenant \in Tenants /\ c \in Writers /\ mem' = [mem EXCEPT ![c.arr][c.to + 1] = ctx.tenant]
  BY DEF Enforce, AppendMem, Contexts, Writers
<1>5. MemInv'
  <2>1. CASE mem' = mem
    BY <2>1 DEF SqlxInv, MemInv
  <2>2. CASE ctx.tenant \in Tenants /\ c \in Writers /\ mem' = [mem EXCEPT ![c.arr][c.to + 1] = ctx.tenant]
    BY <2>2, AppendKeepsMemInv DEF SqlxInv
  <2> QED
    BY <1>4, <2>1, <2>2
<1>6. TxInv'
  BY <1>2 DEF SqlxInv, TxInv
<1>7. ASSUME NEW g \in Goroutines, cur'[g] # Idle
      PROVE  IsSent(cur'[g], mem', tx) /\ cur'[g].call.by = g
  <2>1. CASE g = c.by
    BY <1>7, <2>1, EnforceSends
  <2>2. CASE g # c.by
    <3>1. cur'[g] = cur[g] /\ cur[g] # Idle
      BY <1>3, <1>7, <2>2
    <3>2. IsSent(cur[g], mem, tx) /\ cur[g].call.by = g
      BY <3>1 DEF SqlxInv, CurInv
    <3>3. IsSent(cur[g], mem', tx)
      BY <1>4, <2>2, <3>1, <3>2, OthersKeepSent
    <3> QED
      BY <3>1, <3>2, <3>3
  <2> QED
    BY <2>1, <2>2
<1>8. CurInv'
  BY <1>2, <1>3, <1>7 DEF CurInv
<1> QED
  BY <1>5, <1>6, <1>8 DEF SqlxInv

(* A promoted method hands over the text and the slice of its caller.      *)
LEMMA PromotedKeepsSqlxInv ==
  ASSUME SqlxInv, NEW c \in Calls, PromotedCall(c)
  PROVE  SqlxInv'
<1>1. c.by \in Goroutines /\ DOMAIN cur = Goroutines /\ c.ctx \in Contexts
  BY CallsAssumption DEF IsCall, SqlxInv, CurInv
<1>2. UNCHANGED <<mem, tx, touched>> /\ c.method = "Promoted"
  BY DEF PromotedCall
<1>3. DOMAIN cur' = Goroutines /\ \A g \in Goroutines \ {c.by} : cur'[g] = cur[g]
  BY <1>1 DEF PromotedCall
<1>4. \/ c.on # "tx" /\ cur'[c.by] = AsPassed(c, c.on, c.ctx)
      \/ c.on = "tx" /\ tx.open /\ cur'[c.by] = AsPassed(c, tx.handle, tx.ctx)
  BY <1>1 DEF PromotedCall
<1>5. tx.open => tx.ctx \in Contexts
  BY DEF SqlxInv, TxInv, NoTx
<1> DEFINE r == cur'[c.by]
<1>6. r.pc = "send" /\ r.call = c /\ Unscoped(r)
  BY <1>2, <1>4 DEF AsPassed, Sent, Unscoped
<1>7. /\ r.ctx \in Contexts
      /\ c.on = "tx" => tx.open /\ r.ctx = tx.ctx /\ r.handle = tx.handle
      /\ c.on # "tx" => r.ctx = c.ctx /\ r.handle = c.on
  BY <1>1, <1>4, <1>5 DEF AsPassed, Sent
<1> HIDE DEF r
<1>8. IsSent(r, mem, tx) /\ r.call.by = c.by
  BY <1>6, <1>7 DEF IsSent
<1>9. CurInv'
  BY <1>2, <1>3, <1>8 DEF SqlxInv, CurInv, r
<1> QED
  BY <1>2, <1>9 DEF SqlxInv, TxInv, MemInv

(* A transaction begins when none is open: no statement waits for it.      *)
LEMMA BeginKeepsSqlxInv ==
  ASSUME SqlxInv, NEW handle \in {"db", "without"}, NEW ctx \in TxContexts, BeginTxx(handle, ctx)
  PROVE  SqlxInv'
<1>1. UNCHANGED <<mem, cur, touched>> /\ ~tx.open
  BY DEF BeginTxx
<1>2. tx'.open /\ tx'.handle \in {"db", "without"} /\ tx'.ctx \in Contexts /\ touched' = {}
  BY TxContextsAssumption DEF BeginTxx, SqlxInv, TxInv
<1>3. \A g \in Goroutines : cur[g] # Idle => cur[g].call.on # "tx"
  BY <1>1 DEF SqlxInv, CurInv, IsSent
<1>4. CurInv'
  BY <1>1, <1>3 DEF SqlxInv, CurInv, IsSent
<1> QED
  BY <1>1, <1>2, <1>4 DEF SqlxInv, TxInv, MemInv

(* The end of a transaction, with the calls on it.                         *)
LEMMA EndKeepsSqlxInv ==
  ASSUME SqlxInv, End
  PROVE  SqlxInv'
<1>1. tx' = NoTx /\ touched' = {} /\ mem' = mem
  BY DEF End
<1>2. \A g \in Goroutines : cur'[g] # Idle => cur'[g] = cur[g] /\ cur[g].call.on # "tx"
  BY DEF End
<1>3. CurInv'
  BY <1>1, <1>2 DEF SqlxInv, CurInv, IsSent, End
<1> QED
  BY <1>1, <1>3 DEF SqlxInv, TxInv, MemInv

(* What an accepted statement of the transaction uses is of its tenant.    *)
LEMMA ExecuteKeepsSqlxInv ==
  ASSUME SqlxInv, NEW g \in Goroutines, Execute(g)
  PROVE  SqlxInv'
<1>1. UNCHANGED <<mem, tx>> /\ cur[g] # Idle /\ cur' = [cur EXCEPT ![g] = Idle]
  BY DEF Execute
<1>2. MemInv /\ IsSent(cur[g], mem, tx) /\ cur[g].call \in Calls
  BY <1>1 DEF SqlxInv, CurInv, IsSent
<1>3. ASSUME cur[g].call.on = "tx", Bindable(cur[g].call)
      PROVE  UsedBy(cur[g]) \subseteq {tx.ctx.tenant, Everyone}
  <2>1. cur[g].ctx = tx.ctx
    BY <1>2, <1>3 DEF IsSent
  <2>2. \/ UsedBy(cur[g]) = {}
        \/ UsedBy(cur[g]) = {Everyone}
        \/ UsedBy(cur[g]) = {cur[g].ctx.tenant}
    BY <1>2, <1>3, RowlessUses, UnscopedUses, CopiedUses, RefusedUses, InPlaceUses DEF IsSent, Bindable
  <2> QED
    BY <2>1, <2>2
<1>4. touched' \subseteq touched \cup {tx.ctx.tenant, Everyone} /\ (~tx.open => touched' = touched)
  BY <1>2, <1>3 DEF Execute, IsSent
<1>5. TxInv'
  BY <1>1, <1>4 DEF SqlxInv, TxInv, NoTx
<1>6. CurInv'
  BY <1>1 DEF SqlxInv, CurInv
<1> QED
  BY <1>1, <1>5, <1>6 DEF SqlxInv, MemInv

(* Every step of the adapter keeps the invariant.                          *)
LEMMA StepKeepsSqlxInv == SqlxInv /\ [Next]_vars => SqlxInv'
<1> SUFFICES ASSUME SqlxInv, [Next]_vars PROVE SqlxInv'
  OBVIOUS
<1>1. ASSUME NEW c \in Calls, DBCall(c) PROVE SqlxInv'
  <2>1. c.ctx \in Contexts
    BY CallsAssumption DEF IsCall
  <2> QED
    BY <1>1, <2>1, EnforceKeepsSqlxInv DEF DBCall, Decides
<1>2. ASSUME NEW c \in Calls, TxCall(c) PROVE SqlxInv'
  <2>1. tx.ctx \in Contexts /\ tx.open
    BY <1>2 DEF TxCall, SqlxInv, TxInv, NoTx
  <2> QED
    BY <1>2, <2>1, EnforceKeepsSqlxInv DEF TxCall, TxContext, Decides
<1>3. ASSUME UNCHANGED vars PROVE SqlxInv'
  BY <1>3 DEF vars, SqlxInv, MemInv, TxInv, CurInv
<1> QED
  BY <1>1, <1>2, <1>3, PromotedKeepsSqlxInv, BeginKeepsSqlxInv, EndKeepsSqlxInv, ExecuteKeepsSqlxInv DEF Next

(* The invariant of the adapter holds in every reachable state.            *)
THEOREM SqlxInvAlways == Spec => []SqlxInv
  BY InitSqlxInv, StepKeepsSqlxInv, PTL DEF Spec

(* database/sql always binds the tenant of the context that decides a call, *)
(* if its statement is covered and no other goroutine appends at the same  *)
(* cell, and the caller's values in their places, if also no call appends  *)
(* into the slice that it passes; whatever else is appended meanwhile.     *)
THEOREM BoundAsMeantAlways == Spec => []BoundAsMeant
  BY SqlxInvAlways, InvBoundAsMeant, PTL

(* A transaction uses the rows of the tenant of BeginTxx only.             *)
THEOREM TxOneTenantAlways == Spec => []TxOneTenant
  BY SqlxInvAlways, InvTxOneTenant, PTL

(* With a driver that refuses a value without marker, no method of the      *)
(* adapter gets a statement accepted without tenant condition unless that  *)
(* was asked for.                                                          *)
THEOREM UnscopedOnRequestAlways == ~SurplusIgnored => (Spec => []UnscopedOnRequest)
<1> SUFFICES ASSUME ~SurplusIgnored PROVE Spec => []UnscopedOnRequest
  OBVIOUS
<1>1. SqlxInv => UnscopedOnRequest
  BY InvUnscopedOnRequest
<1> QED
  BY <1>1, SqlxInvAlways, PTL

=============================================================================
