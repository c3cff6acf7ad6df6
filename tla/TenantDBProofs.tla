--------------------------- MODULE TenantDBProofs ---------------------------
(***************************************************************************)
(* Proofs about TenantDB and the two modules that it is made of: the       *)
(* rewriting of statements, with any number of tables and markers and in   *)
(* every placeholder style; the query cache, for every hash function,      *)
(* colliding ones included, and every size; and the handle, for any number *)
(* of goroutines, statements and arrays.                                   *)
(***************************************************************************)
EXTENDS TenantDB, SequenceTheorems, FiniteSetTheorems, WellFoundedInduction, TLAPS

(* Part 1: the rewriting of statements, TenantRewrite.                     *)

(* A finite set of numbers has a highest one: among the sets of what lies   *)
(* above a member, a smallest one is empty.                                *)
LEMMA HighestExists ==
  ASSUME NEW E, IsFiniteSet(E), E \subseteq Nat, E # {}
  PROVE  \E m \in E : \A x \in E : x <= m
<1> DEFINE Above(e) == {x \in E : x > e}
           T == {Above(e) : e \in E}
           R == StrictSubsetOrdering(E)
           F == FiniteSubsetsOf(E)
<1>1. IsWellFoundedOn(R, F)
  BY FS_StrictSubsetOrderingWellFounded
<1>2. T \subseteq F
  BY FS_Subset DEF FiniteSubsetsOf
<1>3. T # {}
  OBVIOUS
<1>4. PICK u \in T : \A y \in T : ~(<<y, u>> \in R)
  <2> HIDE DEF R, F, T
  <2> QED
    BY <1>1, <1>2, <1>3, WFMin
<1>5. PICK m \in E : u = Above(m)
  OBVIOUS
<1>6. ASSUME NEW x \in E, ~(x <= m) PROVE FALSE
  <2>1. x \in Nat /\ m \in Nat /\ x > m
    BY <1>6
  <2>2. x \in u /\ x \notin Above(x)
    BY <1>5, <2>1
  <2>3. ASSUME NEW y \in Above(x) PROVE y \in u
    BY <1>5, <2>1
  <2>4. <<Above(x), u>> \in R
    BY <2>2, <2>3 DEF StrictSubsetOrdering
  <2> QED
    BY <1>4, <2>4
<1> QED
  BY <1>6

(* Two sequences in a row.                                                 *)
LEMMA ConcatTwo ==
  ASSUME NEW S, NEW a \in Seq(S), NEW b \in Seq(S)
  PROVE  /\ a \o b \in Seq(S)
         /\ Len(a) \in Nat /\ Len(b) \in Nat
         /\ Len(a \o b) = Len(a) + Len(b)
         /\ DOMAIN (a \o b) = 1..(Len(a) + Len(b))
         /\ \A i \in 1..Len(a) : (a \o b)[i] = a[i]
         /\ \A i \in 1..Len(b) : (a \o b)[Len(a) + i] = b[i]
<1>1. Len(a) \in Nat /\ Len(b) \in Nat
  BY LenProperties
<1>2. /\ a \o b \in Seq(S) /\ Len(a \o b) = Len(a) + Len(b)
      /\ \A i \in 1..Len(a) + Len(b) : (a \o b)[i] = IF i <= Len(a) THEN a[i] ELSE b[i - Len(a)]
  BY ConcatProperties
<1>3. ASSUME NEW i \in 1..Len(a) PROVE (a \o b)[i] = a[i]
  <2>1. i \in 1..Len(a) + Len(b) /\ i <= Len(a)
    BY <1>1
  <2> QED
    BY <1>2, <2>1
<1>4. ASSUME NEW i \in 1..Len(b) PROVE (a \o b)[Len(a) + i] = b[i]
  <2>1. Len(a) + i \in 1..Len(a) + Len(b) /\ ~(Len(a) + i <= Len(a)) /\ (Len(a) + i) - Len(a) = i
    BY <1>1
  <2> QED
    BY <1>2, <2>1
<1>5. DOMAIN (a \o b) = 1..(Len(a) + Len(b))
  BY <1>2, LenProperties
<1> QED
  BY <1>1, <1>2, <1>3, <1>4, <1>5

(* Three sequences in a row.                                               *)
LEMMA ConcatThree ==
  ASSUME NEW S, NEW a \in Seq(S), NEW b \in Seq(S), NEW c \in Seq(S)
  PROVE  /\ a \o b \o c \in Seq(S)
         /\ Len(a \o b \o c) = Len(a) + Len(b) + Len(c)
         /\ \A i \in 1..Len(a) : (a \o b \o c)[i] = a[i]
         /\ \A i \in 1..Len(b) : (a \o b \o c)[Len(a) + i] = b[i]
         /\ \A i \in 1..Len(c) : (a \o b \o c)[Len(a) + Len(b) + i] = c[i]
<1> DEFINE d == a \o b
<1>1. /\ d \in Seq(S) /\ Len(d) = Len(a) + Len(b) /\ Len(a) \in Nat /\ Len(b) \in Nat
      /\ \A i \in 1..Len(a) : d[i] = a[i]
      /\ \A i \in 1..Len(b) : d[Len(a) + i] = b[i]
  BY ConcatTwo
<1> HIDE DEF d
<1>2. /\ d \o c \in Seq(S) /\ Len(d \o c) = Len(d) + Len(c) /\ Len(c) \in Nat
      /\ \A i \in 1..Len(d) : (d \o c)[i] = d[i]
      /\ \A i \in 1..Len(c) : (d \o c)[Len(d) + i] = c[i]
  <2>1. d \in Seq(S) /\ c \in Seq(S)
    BY <1>1
  <2> QED
    BY <2>1, ConcatTwo
<1>3. ASSUME NEW i \in 1..Len(a) PROVE (d \o c)[i] = a[i]
  <2>1. i \in 1..Len(d)
    BY <1>1
  <2> QED
    BY <1>1, <1>2, <2>1
<1>4. ASSUME NEW i \in 1..Len(b) PROVE (d \o c)[Len(a) + i] = b[i]
  <2>1. Len(a) + i \in 1..Len(d)
    BY <1>1
  <2> QED
    BY <1>1, <1>2, <2>1
<1>5. \A i \in 1..Len(c) : (d \o c)[Len(a) + Len(b) + i] = c[i]
  BY <1>1, <1>2, Zenon
<1>6. Len(d \o c) = Len(a) + Len(b) + Len(c)
  BY <1>1, <1>2
<1> QED
  BY <1>2, <1>3, <1>4, <1>5, <1>6 DEF d

(* The two parts of a concatenation.                                       *)
LEMMA PartsOfConcat ==
  ASSUME NEW S, NEW a \in Seq(S), NEW b \in Seq(S)
  PROVE  /\ SubSeq(a \o b, 1, Len(a)) = a
         /\ SubSeq(a \o b, Len(a) + 1, Len(a \o b)) = b
<1> DEFINE d == a \o b
           p == Len(a)
           q == Len(b)
<1>1. /\ d \in Seq(S) /\ p \in Nat /\ q \in Nat /\ Len(d) = p + q
      /\ \A i \in 1..p : d[i] = a[i]
      /\ \A i \in 1..q : d[p + i] = b[i]
  BY ConcatTwo
<1>2. Len(a) = p /\ Len(b) = q
  OBVIOUS
<1> HIDE DEF d, p, q
<1>3. \A i \in 1..(p + q) : d[i] \in S
  BY <1>1, ElementOfSeq
<1>4. SubSeq(d, 1, p) = a
  <2>1. \A i \in 1..p : d[i] \in S
    BY <1>1, <1>3
  <2>2. /\ SubSeq(d, 1, p) \in Seq(S)
        /\ Len(SubSeq(d, 1, p)) = IF 1 <= p THEN p - 1 + 1 ELSE 0
        /\ \A i \in 1..(p - 1 + 1) : SubSeq(d, 1, p)[i] = d[1 + i - 1]
    BY <1>1, <2>1, SubSeqProperties
  <2>3. Len(SubSeq(d, 1, p)) = p /\ \A i \in 1..p : SubSeq(d, 1, p)[i] = a[i]
    BY <1>1, <2>2
  <2> QED
    BY <1>2, <2>2, <2>3, SeqEqual
<1>5. SubSeq(d, p + 1, p + q) = b
  <2> DEFINE m == p + 1
             n == p + q
  <2>1. /\ m \in Int /\ n \in Int
        /\ (IF m <= n THEN n - m + 1 ELSE 0) = q /\ n - m + 1 = q
        /\ \A i \in 1..q : m + i - 1 = p + i
        /\ \A i \in m..n : d[i] \in S
    BY <1>1, <1>3
  <2> HIDE DEF m, n
  <2>2. /\ SubSeq(d, m, n) \in Seq(S)
        /\ Len(SubSeq(d, m, n)) = IF m <= n THEN n - m + 1 ELSE 0
        /\ \A i \in 1..(n - m + 1) : SubSeq(d, m, n)[i] = d[m + i - 1]
    BY <2>1, SubSeqProperties
  <2>3. Len(SubSeq(d, m, n)) = q /\ \A i \in 1..q : SubSeq(d, m, n)[i] = b[i]
    BY <1>1, <2>1, <2>2
  <2>4. SubSeq(d, m, n) = b
    BY <1>2, <2>2, <2>3, SeqEqual
  <2> QED
    BY <2>4 DEF m, n
<1> QED
  BY <1>1, <1>4, <1>5 DEF d, p, q

-----------------------------------------------------------------------------
(* Markers and arguments of a statement.                                   *)
LEMMA MarkersType ==
  ASSUME NEW style, NEW s, IsStatement(style, s)
  PROVE  /\ s.pre \in Seq(Nat) /\ s.post \in Seq(Nat)
         /\ Len(s.pre) \in Nat /\ Len(s.post) \in Nat
         /\ UserMarkers(s) \in Seq(Nat)
         /\ Len(UserMarkers(s)) = Len(s.pre) + Len(s.post)
         /\ DOMAIN UserMarkers(s) = 1..(Len(s.pre) + Len(s.post))
         /\ \A i \in 1..Len(s.pre) : UserMarkers(s)[i] = s.pre[i]
         /\ \A i \in 1..Len(s.post) : UserMarkers(s)[Len(s.pre) + i] = s.post[i]
         /\ \A i \in DOMAIN UserMarkers(s) : UserMarkers(s)[i] \in Nat \ {0}
<1> DEFINE N == Nat \ {0}
<1>1. s.pre \in Seq(N) /\ s.post \in Seq(N)
  BY DEF IsStatement
<1> HIDE DEF N
<1>2. /\ UserMarkers(s) \in Seq(N)
      /\ Len(s.pre) \in Nat /\ Len(s.post) \in Nat
      /\ Len(UserMarkers(s)) = Len(s.pre) + Len(s.post)
      /\ DOMAIN UserMarkers(s) = 1..(Len(s.pre) + Len(s.post))
      /\ \A i \in 1..Len(s.pre) : UserMarkers(s)[i] = s.pre[i]
      /\ \A i \in 1..Len(s.post) : UserMarkers(s)[Len(s.pre) + i] = s.post[i]
  <2> DEFINE a == s.pre
             b == s.post
  <2>1. a \in Seq(N) /\ b \in Seq(N)
    BY <1>1
  <2>2. UserMarkers(s) = a \o b
    BY DEF UserMarkers
  <2> HIDE DEF a, b
  <2>3. /\ a \o b \in Seq(N)
        /\ Len(a) \in Nat /\ Len(b) \in Nat
        /\ Len(a \o b) = Len(a) + Len(b)
        /\ DOMAIN (a \o b) = 1..(Len(a) + Len(b))
        /\ \A i \in 1..Len(a) : (a \o b)[i] = a[i]
        /\ \A i \in 1..Len(b) : (a \o b)[Len(a) + i] = b[i]
    BY <2>1, ConcatTwo
  <2> QED
    BY <2>2, <2>3 DEF a, b
<1>7. \A i \in DOMAIN UserMarkers(s) : UserMarkers(s)[i] \in N
  BY <1>2, ElementOfSeq
<1>8. s.pre \in Seq(Nat) /\ s.post \in Seq(Nat) /\ UserMarkers(s) \in Seq(Nat)
  BY <1>1, <1>2, SeqMonotonic DEF N
<1> QED
  BY <1>2, <1>7, <1>8 DEF N

(* The elements of a sequence are finitely many.                           *)
LEMMA ElementsFinite ==
  ASSUME NEW S, NEW seq \in Seq(S)
  PROVE  IsFiniteSet(Elements(seq))
<1>1. IsFiniteSet(1..Len(seq)) /\ DOMAIN seq = 1..Len(seq)
  BY FS_Interval, LenProperties
<1>2. seq \in Surjection(DOMAIN seq, Elements(seq))
  BY DEF Surjection, Elements
<1> QED
  BY <1>1, <1>2, FS_Surjection

(* The caller passes as many arguments as the highest marker says.         *)
LEMMA HighestOf ==
  ASSUME NEW used, NEW h, h = (CHOOSE n \in used : \A m \in used : m <= n),
         \E n \in used : \A m \in used : m <= n
  PROVE  h \in used /\ \A m \in used : m <= h
  OBVIOUS

(* The markers of a statement number its arguments.                        *)
LEMMA ArgsType ==
  ASSUME NEW style, NEW s, IsStatement(style, s)
  PROVE  /\ NumArgs(s) \in Nat
         /\ \A i \in DOMAIN UserMarkers(s) : UserMarkers(s)[i] \in 1..NumArgs(s)
         /\ CallArgs(s) \in Seq(Nat) /\ Len(CallArgs(s)) = NumArgs(s)
         /\ DOMAIN CallArgs(s) = 1..NumArgs(s)
         /\ \A k \in 1..NumArgs(s) : CallArgs(s)[k] = k
<1> DEFINE u == UserMarkers(s)
           used == Elements(u)
<1>1. u \in Seq(Nat) /\ \A i \in DOMAIN u : u[i] \in Nat \ {0}
  BY MarkersType
<1>2. NumArgs(s) = IF used = {} THEN 0 ELSE CHOOSE n \in used : \A m \in used : m <= n
  BY DEF NumArgs
<1> HIDE DEF u
<1>3. IsFiniteSet(used)
  BY <1>1, ElementsFinite
<1>4. /\ \A i \in DOMAIN u : u[i] \in used
      /\ used \subseteq Nat \ {0}
  BY <1>1 DEF Elements
<1> HIDE DEF used
<1>5. NumArgs(s) \in Nat /\ \A m \in used : m \in 1..NumArgs(s)
  <2> DEFINE h == NumArgs(s)
  <2> SUFFICES h \in Nat /\ \A m \in used : m \in 1..h
    OBVIOUS
  <2>1. h = IF used = {} THEN 0 ELSE CHOOSE n \in used : \A m \in used : m <= n
    BY <1>2
  <2> HIDE DEF h
  <2>2. CASE used = {}
    BY <2>1, <2>2
  <2>3. CASE used # {}
    <3>1. \E n \in used : \A m \in used : m <= n
      BY <1>3, <1>4, <2>3, HighestExists
    <3>2. h \in used /\ \A m \in used : m <= h
      BY <2>1, <2>3, <3>1, HighestOf
    <3> QED
      BY <1>4, <3>2
  <2> QED
    BY <2>2, <2>3
<1>6. \A i \in DOMAIN u : u[i] \in 1..NumArgs(s)
  BY <1>4, <1>5
<1>7. /\ CallArgs(s) \in Seq(Nat) /\ Len(CallArgs(s)) = NumArgs(s)
      /\ DOMAIN CallArgs(s) = 1..NumArgs(s)
      /\ \A k \in 1..NumArgs(s) : CallArgs(s)[k] = k
  <2> DEFINE n == NumArgs(s)
             w == [i \in 1..n |-> i]
  <2>1. n \in Nat /\ CallArgs(s) = w
    BY <1>5 DEF CallArgs
  <2> HIDE DEF n
  <2>2. w \in Seq(Nat) /\ Len(w) = n /\ DOMAIN w = 1..n /\ \A k \in 1..n : w[k] = k
    BY <2>1
  <2> QED
    BY <2>1, <2>2 DEF n
<1> QED
  BY <1>5, <1>6, <1>7 DEF u

(* The ? of a statement are as many as its arguments.                      *)
LEMMA QuestionArgs ==
  ASSUME NEW s, IsStatement("question", s)
  PROVE  /\ NumArgs(s) = Len(s.pre) + Len(s.post)
         /\ CallArgs(s) = UserMarkers(s)
<1> DEFINE u == UserMarkers(s)
           n == Len(s.pre) + Len(s.post)
           used == Elements(u)
           h == NumArgs(s)
<1>1. /\ DOMAIN u = 1..n /\ n \in Nat
      /\ u \in Seq(Nat) /\ Len(u) = n
  <2>1. DOMAIN u = 1..n /\ u \in Seq(Nat) /\ Len(u) = n
    BY MarkersType
  <2>2. n \in Nat
    <3> DEFINE p == Len(s.pre)
               q == Len(s.post)
    <3>1. p \in Nat /\ q \in Nat
      BY MarkersType
    <3> HIDE DEF p, q
    <3>2. p + q \in Nat
      BY <3>1
    <3> QED
      BY <3>2 DEF p, q
  <2> QED
    BY <2>1, <2>2
<1>2. \A i \in DOMAIN u : u[i] = i
  BY DEF IsStatement
<1>3. h \in Nat /\ \A i \in DOMAIN u : u[i] \in 1..h
  BY ArgsType
<1>4. h = IF used = {} THEN 0 ELSE CHOOSE k \in used : \A m \in used : m <= k
  BY DEF NumArgs
<1>5. CallArgs(s) = [i \in 1..h |-> i]
  BY DEF CallArgs
<1> HIDE DEF u, n, h
<1>6. used = 1..n
  BY <1>1, <1>2 DEF Elements
<1> HIDE DEF used
<1>7. h = n
  <2>1. CASE n = 0
    BY <1>4, <1>6, <2>1
  <2>2. CASE n # 0
    <3>1. n \in used /\ (\A m \in used : m <= n) /\ used # {}
      BY <1>1, <1>6, <2>2
    <3>2. h \in used
      BY <1>4, <3>1, HighestOf
    <3>3. n <= h
      BY <1>1, <1>2, <1>3, <1>6, <3>1
    <3> QED
      BY <1>1, <1>3, <1>6, <3>2, <3>3
  <2> QED
    BY <2>1, <2>2
<1>8. u = [i \in 1..n |-> i]
  BY <1>1, <1>2
<1> QED
  BY <1>5, <1>7, <1>8 DEF u, n, h

(* A statement that is left as it is binds every argument to its marker.   *)
LEMMA UnfilteredBinds ==
  ASSUME NEW style \in Styles, NEW s, IsStatement(style, s)
  PROVE  Bind(style, UserMarkers(s), CallArgs(s)) = UserMarkers(s)
<1> DEFINE u == UserMarkers(s)
           w == CallArgs(s)
           n == NumArgs(s)
<1>1. /\ DOMAIN w = 1..n /\ \A k \in 1..n : w[k] = k
      /\ \A i \in DOMAIN u : u[i] \in 1..n
  BY ArgsType
<1>2. style = "question" => \A i \in DOMAIN u : u[i] = i
  BY DEF IsStatement
<1>3. u \in Seq(Nat)
  BY MarkersType
<1> HIDE DEF u, w, n
<1>4. u = [i \in DOMAIN u |-> u[i]]
  BY <1>3
<1>5. \A i \in DOMAIN u : Bind(style, u, w)[i] = u[i]
  BY <1>1, <1>2 DEF Bind
<1>6. Bind(style, u, w) = [i \in DOMAIN u |-> Bind(style, u, w)[i]]
  BY DEF Bind
<1>7. Bind(style, u, w) = u
  BY <1>4, <1>5, <1>6
<1> QED
  BY <1>7 DEF u, w

-----------------------------------------------------------------------------
(* What a rewrite adds.                                                    *)
LEMMA CountType ==
  ASSUME NEW style, NEW s, IsStatement(style, s)
  PROVE  TenantArgCount(s) \in Nat
<1>1. IsFiniteSet(TablesToFilter(s))
  <2>1. TablesToFilter(s) \subseteq DOMAIN s.refs
    BY DEF TablesToFilter, FilterTenantTables, ExtractAllTables
  <2> QED
    BY <2>1, FS_Subset DEF IsStatement
<1>2. Cardinality(TablesToFilter(s)) \in Nat
  BY <1>1, FS_CardinalityType
<1> QED
  BY <1>2 DEF TenantArgCount, IsStatement, Operations

(* It adds one value for each tenant table that a covered statement names. *)
LEMMA CoveredCount ==
  ASSUME NEW style, NEW s, IsStatement(style, s), Covered(style, s)
  PROVE  TenantArgCount(s) = ScopeCount(s)
<1>1. CASE s.op = "SELECT"
  <2>1. TablesToFilter(s) = FilterTenantTables(s.refs) /\ FilterTenantTables(s.sub) = {}
    BY <1>1 DEF Covered
  <2>2. ScopeCount(s) = Cardinality(TablesToFilter(s)) + Cardinality({})
    BY <1>1, <2>1 DEF ScopeCount
  <2>3. Cardinality({}) = 0
    BY FS_EmptySet
  <2>4. TenantArgCount(s) = Cardinality(TablesToFilter(s)) /\ TenantArgCount(s) \in Nat
    BY <1>1, CountType DEF TenantArgCount
  <2> DEFINE n == Cardinality(TablesToFilter(s))
  <2>5. n \in Nat
    BY <2>4
  <2> HIDE DEF n
  <2>6. n + 0 = n
    BY <2>5
  <2> QED
    BY <2>2, <2>3, <2>4, <2>6 DEF n
<1>2. CASE s.op # "SELECT"
  BY <1>2 DEF TenantArgCount, ScopeCount, Covered, IsStatement, Operations
<1> QED
  BY <1>1, <1>2

(* ? are bound by position: a text with as many ? as values binds them.    *)
LEMMA QuestionBinds ==
  ASSUME NEW S, NEW w \in Seq(S), NEW m, DOMAIN m = 1..Len(w)
  PROVE  Bind("question", m, w) = w
<1>1. DOMAIN w = 1..Len(w) /\ w = [i \in 1..Len(w) |-> w[i]]
  BY LenProperties
<1>2. Bind("question", m, w) = [i \in 1..Len(w) |-> w[i]]
  BY <1>1 DEF Bind
<1> QED
  BY <1>1, <1>2

(* n markers of one kind.                                                  *)
LEMMA RepeatType ==
  ASSUME NEW v, NEW n \in Nat
  PROVE  /\ Repeat(v, n) \in Seq({v}) /\ Len(Repeat(v, n)) = n
         /\ \A i \in 1..n : Repeat(v, n)[i] = v
  BY DEF Repeat

(* The numbers of the markers that the rewriting adds.                     *)
LEMMA TenantMarksType ==
  ASSUME NEW next \in Nat \ {0}, NEW n \in Nat
  PROVE  /\ TenantMarks(next, n) \in Seq(Nat) /\ Len(TenantMarks(next, n)) = n
         /\ \A i \in 1..n : TenantMarks(next, n)[i] = next + i - 1
<1>1. TenantMarks(next, n) \in [1..n -> Nat]
  BY DEF TenantMarks
<1> QED
  BY <1>1 DEF TenantMarks

-----------------------------------------------------------------------------
(* With ?: the text has a marker for every value.                          *)
LEMMA QuestionMarks ==
  ASSUME NEW s, IsStatement("question", s)
  PROVE  DOMAIN RewriteMarks("question", s) = 1..(Len(s.pre) + TenantArgCount(s) + Len(s.post))
<1> DEFINE n == TenantArgCount(s)
           a == s.pre
           b == s.post
           u == UserMarkers(s)
           k == CountPlaceholders("question", s)
           R == RewriteMarks("question", s)
<1>1. n \in Nat /\ a \in Seq(Nat) /\ b \in Seq(Nat) /\ u \in Seq(Nat) /\ Len(u) = Len(a) + Len(b)
  BY CountType, MarkersType
<1>2. k = Len(u)
  BY DEF CountPlaceholders
<1>3. /\ s.op = "INSERT" => R = TenantMarks(1, n) \o [i \in DOMAIN u |-> u[i] + 0]
      /\ s.op # "INSERT" => R = a \o TenantMarks(k + 1, n) \o b
  BY DEF RewriteMarks
<1>4. s.op = "INSERT" => a = <<>>
  BY DEF IsStatement
<1> SUFFICES DOMAIN R = 1..(Len(a) + n + Len(b))
  OBVIOUS
<1> HIDE DEF n, a, b, u, k, R
<1>5. k + 1 \in Nat \ {0} /\ Len(a) \in Nat /\ Len(b) \in Nat /\ Len(u) \in Nat /\ DOMAIN u = 1..Len(u)
  BY <1>1, <1>2, LenProperties
<1>6. CASE s.op = "INSERT"
  <2> DEFINE w == [i \in DOMAIN u |-> u[i] + 0]
  <2>1. w \in Seq(Nat) /\ Len(w) = Len(b)
    <3>1. w \in [1..Len(u) -> Nat]
      BY <1>1, <1>5
    <3> QED
      BY <1>1, <1>4, <1>5, <1>6, <3>1
  <2>2. TenantMarks(1, n) \in Seq(Nat) /\ Len(TenantMarks(1, n)) = n
    BY <1>1, TenantMarksType
  <2>3. R = TenantMarks(1, n) \o w
    BY <1>3, <1>6
  <2> HIDE DEF w
  <2>4. DOMAIN R = 1..(n + Len(w))
    BY <2>1, <2>2, <2>3, ConcatTwo
  <2>5. Len(a) + n + Len(b) = n + Len(w)
    BY <1>1, <1>4, <1>5, <1>6, <2>1
  <2> QED
    BY <2>4, <2>5
<1>7. CASE s.op # "INSERT"
  <2> DEFINE m == TenantMarks(k + 1, n)
  <2>1. m \in Seq(Nat) /\ Len(m) = n
    BY <1>1, <1>5, TenantMarksType
  <2>2. R = a \o m \o b
    BY <1>3, <1>7
  <2> HIDE DEF m
  <2>3. a \o m \o b \in Seq(Nat) /\ Len(a \o m \o b) = Len(a) + Len(m) + Len(b)
    <3>1. a \in Seq(Nat) /\ m \in Seq(Nat) /\ b \in Seq(Nat)
      BY <1>1, <2>1
    <3> QED
      BY <3>1, ConcatThree
  <2>4. DOMAIN R = 1..Len(R) /\ Len(R) = Len(a) + n + Len(b)
    <3>1. R \in Seq(Nat) /\ Len(R) = Len(a) + n + Len(b)
      BY <2>1, <2>2, <2>3
    <3> QED
      BY <3>1, LenProperties
  <2> QED
    BY <2>4
<1> QED
  BY <1>6, <1>7

(* With ?: the values are those of the text, in its order.                 *)
LEMMA QuestionValues ==
  ASSUME NEW s, IsStatement("question", s), Covered("question", s), NEW t
  PROVE  /\ HitArgs("question", s, TenantArgCount(s), t) = ScopedBinding(s, t)
         /\ ScopedBinding(s, t) \in Seq(Nat \cup {t})
         /\ Len(ScopedBinding(s, t)) = Len(s.pre) + TenantArgCount(s) + Len(s.post)
<1> DEFINE n == TenantArgCount(s)
           a == s.pre
           b == s.post
           r == Repeat(t, n)
           S == Nat \cup {t}
           c == SetArgCount(s)
           H == HitArgs("question", s, n, t)
           B == ScopedBinding(s, t)
<1>1. n \in Nat /\ a \in Seq(Nat) /\ b \in Seq(Nat)
  BY CountType, MarkersType
<1>2. CallArgs(s) = a \o b
  BY QuestionArgs DEF UserMarkers
<1>3. B = a \o r \o b
  BY CoveredCount DEF ScopedBinding
<1>4. /\ s.op = "UPDATE" => H = SubSeq(a \o b, 1, c) \o r \o SubSeq(a \o b, c + 1, Len(a \o b))
      /\ s.op # "UPDATE" => H = r \o (a \o b)
  BY <1>2 DEF HitArgs
<1>5. s.op = "UPDATE" => c = Len(a)
  <2>1. CASE s.where
    BY <2>1 DEF SetArgCount
  <2>2. CASE ~s.where /\ s.op = "UPDATE"
    <3>1. b = <<>>
      BY <2>2 DEF IsStatement
    <3>2. UserMarkers(s) = a
      BY <1>1, <3>1, ConcatEmptySeq DEF UserMarkers
    <3> QED
      BY <2>2, <3>2 DEF SetArgCount
  <2> QED
    BY <2>1, <2>2
<1>6. s.op # "UPDATE" => a = <<>>
  BY DEF IsStatement, Covered, Operations
<1>7. r \in Seq({t}) /\ Len(r) = n
  BY <1>1, RepeatType
<1> SUFFICES H = B /\ B \in Seq(S) /\ Len(B) = Len(a) + n + Len(b)
  OBVIOUS
<1> HIDE DEF n, a, b, r, c, H, B
<1>8. a \in Seq(S) /\ b \in Seq(S) /\ r \in Seq(S)
  BY <1>1, <1>7, SeqMonotonic
<1> HIDE DEF S
<1>9. B \in Seq(S) /\ Len(B) = Len(a) + n + Len(b)
  <2>1. a \o r \o b \in Seq(S) /\ Len(a \o r \o b) = Len(a) + Len(r) + Len(b)
    BY <1>8, ConcatThree
  <2> QED
    BY <1>3, <1>7, <2>1
<1>10. CASE s.op = "UPDATE"
  <2>1. SubSeq(a \o b, 1, Len(a)) = a /\ SubSeq(a \o b, Len(a) + 1, Len(a \o b)) = b
    BY <1>8, PartsOfConcat
  <2>2. H = SubSeq(a \o b, 1, Len(a)) \o r \o SubSeq(a \o b, Len(a) + 1, Len(a \o b))
    BY <1>4, <1>5, <1>10
  <2>3. H = B
    BY <1>3, <2>1, <2>2
  <2> QED
    BY <1>9, <2>3
<1>11. CASE s.op # "UPDATE"
  <2>1. a = <<>> /\ <<>> \o b = b /\ <<>> \o r = r
    BY <1>6, <1>8, <1>11, ConcatEmptySeq
  <2> QED
    BY <1>3, <1>4, <1>9, <1>11, <2>1
<1> QED
  BY <1>9, <1>10, <1>11

(* With $N: the values of the caller come first, and the numbers of the     *)
(* tenant markers continue where the caller's end.                         *)
LEMMA DollarBinds ==
  ASSUME NEW s, IsStatement("dollar", s), Covered("dollar", s), s.op # "INSERT", NEW t
  PROVE  Bind("dollar", RewriteMarks("dollar", s), HitArgs("dollar", s, TenantArgCount(s), t))
            = ScopedBinding(s, t)
<1> DEFINE n == TenantArgCount(s)
           h == NumArgs(s)
           a == s.pre
           b == s.post
           u == UserMarkers(s)
           r == Repeat(t, n)
           m == TenantMarks(h + 1, n)
           x == CallArgs(s)
           p == Len(a)
           q == Len(b)
<1>1. RewriteMarks("dollar", s) = a \o m \o b /\ HitArgs("dollar", s, n, t) = x \o r
  BY DEF RewriteMarks, CountPlaceholders, HitArgs
<1>2. ScopedBinding(s, t) = a \o r \o b
  BY CoveredCount DEF ScopedBinding
<1>3. n \in Nat /\ a \in Seq(Nat) /\ b \in Seq(Nat) /\ p \in Nat /\ q \in Nat
  BY CountType, MarkersType
<1>4. /\ DOMAIN u = 1..(p + q)
      /\ \A i \in 1..p : u[i] = a[i]
      /\ \A i \in 1..q : u[p + i] = b[i]
  <2>1. DOMAIN u = 1..(p + q)
    BY MarkersType
  <2>2. \A i \in 1..p : u[i] = a[i]
    BY MarkersType
  <2>3. \A i \in 1..q : u[p + i] = b[i]
    BY MarkersType, Zenon
  <2> QED
    BY <2>1, <2>2, <2>3, Zenon
<1>5. /\ h \in Nat /\ x \in Seq(Nat) /\ Len(x) = h
      /\ \A k \in 1..h : x[k] = k
      /\ \A i \in DOMAIN u : u[i] \in 1..h
  BY ArgsType
<1> SUFFICES Bind("dollar", a \o m \o b, x \o r) = a \o r \o b
  BY <1>1, <1>2
<1>6. Len(a) = p /\ Len(b) = q
  OBVIOUS
<1> HIDE DEF n, h, a, b, u, x, p, q
<1>7. r \in Seq({t}) /\ Len(r) = n /\ \A i \in 1..n : r[i] = t
  BY <1>3, RepeatType
<1>8. m \in Seq(Nat) /\ Len(m) = n /\ \A i \in 1..n : m[i] = (h + 1) + i - 1
  <2>1. h + 1 \in Nat \ {0}
    BY <1>5
  <2> QED
    BY <1>3, <2>1, TenantMarksType
<1> DEFINE S == Nat \cup {t}
<1> HIDE DEF r, m
<1>9. a \in Seq(S) /\ b \in Seq(S) /\ r \in Seq(S) /\ x \in Seq(S)
  <2>1. Nat \subseteq S /\ {t} \subseteq S
    OBVIOUS
  <2>2. a \in Seq(Nat) /\ b \in Seq(Nat) /\ r \in Seq({t}) /\ x \in Seq(Nat)
    BY <1>3, <1>5, <1>7
  <2> HIDE DEF S
  <2> QED
    BY <2>1, <2>2, SeqMonotonic
<1> HIDE DEF S
<1>10. \A i \in 1..p : a[i] \in 1..h
  <2>1. \A i \in 1..p : i \in 1..(p + q)
    BY <1>3
  <2> QED
    BY <1>4, <1>5, <2>1
<1>11. \A i \in 1..q : b[i] \in 1..h
  <2>1. \A i \in 1..q : p + i \in 1..(p + q)
    BY <1>3
  <2> QED
    BY <1>4, <1>5, <2>1
<1> DEFINE vals == x \o r
           whole == a \o m \o b
           w == a \o r \o b
<1>12. /\ DOMAIN vals = 1..(h + n)
       /\ \A k \in 1..h : vals[k] = k
       /\ \A i \in 1..n : vals[h + i] = t
  <2>1. /\ DOMAIN vals = 1..(Len(x) + Len(r))
        /\ \A k \in 1..Len(x) : vals[k] = x[k]
        /\ \A i \in 1..Len(r) : vals[Len(x) + i] = r[i]
    <3>1. x \in Seq(S) /\ r \in Seq(S)
      BY <1>9
    <3> QED
      BY <3>1, ConcatTwo
  <2> HIDE DEF vals
  <2> QED
    BY <1>5, <1>7, <2>1
<1>13. /\ whole \in Seq(Nat) /\ Len(whole) = p + n + q
       /\ \A i \in 1..p : whole[i] = a[i]
       /\ \A i \in 1..n : whole[p + i] = m[i]
       /\ \A i \in 1..q : whole[p + n + i] = b[i]
  <2>1. a \in Seq(Nat) /\ m \in Seq(Nat) /\ b \in Seq(Nat)
    BY <1>3, <1>8
  <2>2. /\ whole \in Seq(Nat) /\ Len(whole) = Len(a) + Len(m) + Len(b)
        /\ \A i \in 1..Len(a) : whole[i] = a[i]
        /\ \A i \in 1..Len(m) : whole[Len(a) + i] = m[i]
        /\ \A i \in 1..Len(b) : whole[Len(a) + Len(m) + i] = b[i]
    <3> DEFINE N == Nat
    <3>1. a \in Seq(N) /\ m \in Seq(N) /\ b \in Seq(N)
      BY <2>1
    <3> HIDE DEF N
    <3>2. /\ whole \in Seq(N) /\ Len(whole) = Len(a) + Len(m) + Len(b)
          /\ \A i \in 1..Len(a) : whole[i] = a[i]
          /\ \A i \in 1..Len(m) : whole[Len(a) + i] = m[i]
          /\ \A i \in 1..Len(b) : whole[Len(a) + Len(m) + i] = b[i]
      BY <3>1, ConcatThree
    <3> QED
      BY <3>2 DEF N
  <2> HIDE DEF whole
  <2> QED
    BY <1>6, <1>8, <2>2
<1>14. /\ w \in Seq(S) /\ Len(w) = p + n + q
       /\ \A i \in 1..p : w[i] = a[i]
       /\ \A i \in 1..n : w[p + i] = r[i]
       /\ \A i \in 1..q : w[p + n + i] = b[i]
  <2>1. a \in Seq(S) /\ r \in Seq(S) /\ b \in Seq(S)
    BY <1>9
  <2>2. /\ w \in Seq(S) /\ Len(w) = Len(a) + Len(r) + Len(b)
        /\ \A i \in 1..Len(a) : w[i] = a[i]
        /\ \A i \in 1..Len(r) : w[Len(a) + i] = r[i]
        /\ \A i \in 1..Len(b) : w[Len(a) + Len(r) + i] = b[i]
    BY <2>1, ConcatThree
  <2> HIDE DEF w
  <2> QED
    BY <1>6, <1>7, <2>2
<1> HIDE DEF vals, whole, w
<1>15. /\ DOMAIN whole = 1..(p + n + q)
       /\ w = [i \in 1..(p + n + q) |-> w[i]]
  BY <1>13, <1>14, LenProperties
<1> DEFINE At(i) == IF whole[i] \in DOMAIN vals THEN vals[whole[i]] ELSE NoTenant
<1>16. ASSUME NEW i \in 1..(p + n + q) PROVE At(i) = w[i]
  <2>1. CASE i \in 1..p
    <3>1. whole[i] = a[i] /\ w[i] = a[i] /\ a[i] \in 1..h
      BY <1>10, <1>13, <1>14, <2>1
    <3>2. whole[i] \in DOMAIN vals /\ vals[whole[i]] = a[i]
      BY <1>3, <1>5, <1>12, <3>1
    <3> QED
      BY <3>1, <3>2
  <2>2. CASE i - p \in 1..n
    <3>1. PICK j \in 1..n : i = p + j
      BY <1>3, <2>2
    <3>2. whole[i] = h + j /\ w[i] = t
      BY <1>5, <1>7, <1>8, <1>13, <1>14, <3>1
    <3>3. h + j \in 1..(h + n)
      BY <1>3, <1>5
    <3> QED
      BY <1>12, <3>2, <3>3
  <2>3. CASE i - (p + n) \in 1..q
    <3>1. PICK j \in 1..q : i = p + n + j
      BY <1>3, <2>3
    <3>2. whole[i] = b[j] /\ w[i] = b[j] /\ b[j] \in 1..h
      BY <1>11, <1>13, <1>14, <3>1
    <3>3. whole[i] \in DOMAIN vals /\ vals[whole[i]] = b[j]
      BY <1>3, <1>5, <1>12, <3>2
    <3> QED
      BY <3>2, <3>3
  <2> QED
    BY <1>3, <2>1, <2>2, <2>3
<1>17. Bind("dollar", whole, vals) = [i \in 1..(p + n + q) |-> At(i)]
  BY <1>15 DEF Bind
<1>18. Bind("dollar", whole, vals) = w
  BY <1>15, <1>16, <1>17
<1> QED
  BY <1>18 DEF whole, vals, w

(* INSERT with $N, as injectInsertFilter builds it: the tenant is $1, and    *)
(* the numbers of the caller are moved up to make room.                    *)
LEMMA DollarInsertBinds ==
  ASSUME NEW s, IsStatement("dollar", s), s.op = "INSERT", NEW t
  PROVE  Bind("dollar", RewriteMarks("dollar", s), InsertArgs(s, t)) = ScopedBinding(s, t)
<1> DEFINE n == TenantArgCount(s)
           h == NumArgs(s)
           u == UserMarkers(s)
           r == Repeat(t, n)
           m == TenantMarks(1, n)
           x == CallArgs(s)
           q == Len(u)
           v == [i \in DOMAIN u |-> u[i] + n]
<1>1. n \in {0, 1}
  BY DEF TenantArgCount
<1>2. u \in Seq(Nat)
  BY MarkersType
<1>3. /\ h \in Nat /\ x \in Seq(Nat) /\ Len(x) = h
      /\ \A k \in 1..h : x[k] = k
      /\ \A i \in DOMAIN u : u[i] \in 1..h
  BY ArgsType
<1>4. RewriteMarks("dollar", s) = m \o v
  <2>1. (IF "dollar" = "dollar" /\ n = 1 THEN 1 ELSE 0) = n
    BY <1>1
  <2> QED
    BY <2>1 DEF RewriteMarks
<1>5. InsertArgs(s, t) = r \o x
  BY DEF InsertArgs
<1>6. ScopedBinding(s, t) = r \o u
  <2>1. s.pre = <<>> /\ n = ScopeCount(s)
    BY DEF IsStatement, TenantArgCount, ScopeCount
  <2>2. ScopedBinding(s, t) = <<>> \o r \o s.post
    BY <2>1 DEF ScopedBinding
  <2>3. s.post \in Seq(Nat) /\ r \in Seq({t})
    BY <1>1, MarkersType, RepeatType
  <2>4. <<>> \o s.post = s.post
    BY <2>3, ConcatEmptySeq
  <2>5. <<>> \o r = r
    BY <2>3, ConcatEmptySeq
  <2>6. u = <<>> \o s.post
    BY <2>1 DEF UserMarkers
  <2> QED
    BY <2>2, <2>4, <2>5, <2>6
<1> SUFFICES Bind("dollar", m \o v, r \o x) = r \o u
  BY <1>4, <1>5, <1>6
<1> HIDE DEF n, h, u, x
<1>7. q \in Nat /\ DOMAIN u = 1..q
  BY <1>2, LenProperties
<1>8. r \in Seq({t}) /\ Len(r) = n /\ \A i \in 1..n : r[i] = t
  <2>1. n \in Nat
    BY <1>1
  <2> QED
    BY <2>1, RepeatType, Zenon
<1>9. m \in Seq(Nat) /\ Len(m) = n /\ \A i \in 1..n : m[i] = i
  <2>1. m \in Seq(Nat) /\ Len(m) = n /\ \A i \in 1..n : m[i] = 1 + i - 1
    BY <1>1, TenantMarksType
  <2> HIDE DEF m
  <2> QED
    BY <1>1, <2>1
<1>10. v \in Seq(Nat) /\ Len(v) = q /\ \A i \in 1..q : v[i] = u[i] + n
  <2>1. \A i \in 1..q : u[i] + n \in Nat
    BY <1>1, <1>3, <1>7
  <2>2. v \in [1..q -> Nat]
    BY <1>7, <2>1
  <2> HIDE DEF q
  <2> QED
    BY <1>7, <2>2
<1>11. Len(u) = q
  OBVIOUS
<1> DEFINE S == Nat \cup {t}
<1> HIDE DEF r, m, v, q
<1>12. u \in Seq(S) /\ r \in Seq(S) /\ x \in Seq(S)
  <2>1. Nat \subseteq S /\ {t} \subseteq S
    OBVIOUS
  <2>2. u \in Seq(Nat) /\ r \in Seq({t}) /\ x \in Seq(Nat)
    BY <1>2, <1>3, <1>8
  <2> HIDE DEF S
  <2> QED
    BY <2>1, <2>2, SeqMonotonic
<1> HIDE DEF S
<1> DEFINE vals == r \o x
           whole == m \o v
           w == r \o u
<1>13. /\ DOMAIN vals = 1..(n + h)
       /\ \A i \in 1..n : vals[i] = t
       /\ \A k \in 1..h : vals[n + k] = k
  <2>1. /\ DOMAIN vals = 1..(Len(r) + Len(x))
        /\ \A i \in 1..Len(r) : vals[i] = r[i]
        /\ \A k \in 1..Len(x) : vals[Len(r) + k] = x[k]
    <3>1. x \in Seq(S) /\ r \in Seq(S)
      BY <1>12
    <3> QED
      BY <3>1, ConcatTwo
  <2> HIDE DEF vals
  <2> QED
    BY <1>3, <1>8, <2>1
<1>14. /\ DOMAIN whole = 1..(n + q)
       /\ \A i \in 1..n : whole[i] = i
       /\ \A i \in 1..q : whole[n + i] = u[i] + n
  <2>1. /\ DOMAIN whole = 1..(Len(m) + Len(v))
        /\ \A i \in 1..Len(m) : whole[i] = m[i]
        /\ \A i \in 1..Len(v) : whole[Len(m) + i] = v[i]
    <3>1. m \in Seq(Nat) /\ v \in Seq(Nat)
      BY <1>9, <1>10
    <3> QED
      BY <3>1, ConcatTwo
  <2> HIDE DEF whole
  <2> QED
    BY <1>9, <1>10, <2>1
<1>15. /\ w = [i \in 1..(n + q) |-> w[i]]
       /\ \A i \in 1..n : w[i] = t
       /\ \A i \in 1..q : w[n + i] = u[i]
  <2>1. /\ w \in Seq(S) /\ DOMAIN w = 1..(Len(r) + Len(u))
        /\ \A i \in 1..Len(r) : w[i] = r[i]
        /\ \A i \in 1..Len(u) : w[Len(r) + i] = u[i]
    <3>1. r \in Seq(S) /\ u \in Seq(S)
      BY <1>12
    <3> QED
      BY <3>1, ConcatTwo
  <2> HIDE DEF w
  <2>2. w = [i \in DOMAIN w |-> w[i]]
    BY <2>1, LenProperties
  <2> QED
    BY <1>8, <1>11, <2>1, <2>2
<1> HIDE DEF vals, whole, w
<1> DEFINE At(i) == IF whole[i] \in DOMAIN vals THEN vals[whole[i]] ELSE NoTenant
<1>16. ASSUME NEW i \in 1..(n + q) PROVE At(i) = w[i]
  <2>1. CASE i \in 1..n
    <3>1. i \in 1..(n + h)
      BY <1>1, <1>3, <2>1
    <3> QED
      BY <1>13, <1>14, <1>15, <2>1, <3>1
  <2>2. CASE i - n \in 1..q
    <3>1. PICK j \in 1..q : i = n + j
      BY <1>1, <1>7, <2>2
    <3>2. whole[i] = u[j] + n /\ w[i] = u[j] /\ u[j] \in 1..h
      BY <1>3, <1>7, <1>14, <1>15, <3>1
    <3>3. u[j] + n = n + u[j] /\ u[j] + n \in 1..(n + h)
      BY <1>1, <1>3, <3>2
    <3> QED
      BY <1>13, <3>2, <3>3
  <2> QED
    BY <1>1, <1>7, <2>1, <2>2
<1>17. Bind("dollar", whole, vals) = [i \in 1..(n + q) |-> At(i)]
  BY <1>14 DEF Bind
<1>18. Bind("dollar", whole, vals) = w
  BY <1>15, <1>16, <1>17
<1> QED
  BY <1>18 DEF whole, vals, w

-----------------------------------------------------------------------------
(* The statements for which a cache hit builds the arguments that the text  *)
(* of the miss expects: all but an INSERT that got $1 for its tenant, whose *)
(* hits append the tenant.                                                 *)
HitsAsMissed(style, s) == style = "dollar" /\ s.op = "INSERT" => s.hasTenant

(* A rewritten statement binds one value of the tenant for each tenant      *)
(* table it names and every marker of the caller its own argument: with    *)
(* the arguments of injectTenantFilter on a hit, which are also those of   *)
(* the SELECT, UPDATE and DELETE rewriters, and with those of              *)
(* injectInsertFilter.                                                     *)
THEOREM RewriteBindsScoped ==
  ASSUME NEW style \in {"question", "dollar"}, NEW s, IsStatement(style, s), Covered(style, s), NEW t
  PROVE  /\ HitsAsMissed(style, s) =>
               Bind(style, RewriteMarks(style, s), HitArgs(style, s, TenantArgCount(s), t)) = ScopedBinding(s, t)
         /\ s.op = "INSERT" =>
               Bind(style, RewriteMarks(style, s), InsertArgs(s, t)) = ScopedBinding(s, t)
<1>1. CASE style = "question"
  <2> DEFINE w == ScopedBinding(s, t)
             n == Len(s.pre) + TenantArgCount(s) + Len(s.post)
             m == RewriteMarks("question", s)
  <2>1. w \in Seq(Nat \cup {t}) /\ Len(w) = n /\ HitArgs("question", s, TenantArgCount(s), t) = w
    BY <1>1, QuestionValues
  <2>2. DOMAIN m = 1..n
    BY <1>1, QuestionMarks
  <2>3. Bind("question", m, w) = w
    <3> HIDE DEF w, n, m
    <3> QED
      BY <2>1, <2>2, QuestionBinds
  <2>4. s.op = "INSERT" => InsertArgs(s, t) = HitArgs("question", s, TenantArgCount(s), t)
    BY DEF InsertArgs, HitArgs
  <2> QED
    BY <1>1, <2>1, <2>3, <2>4
<1>2. CASE style = "dollar" /\ s.op # "INSERT"
  BY <1>2, DollarBinds
<1>3. CASE style = "dollar" /\ s.op = "INSERT"
  <2>1. Bind(style, RewriteMarks(style, s), InsertArgs(s, t)) = ScopedBinding(s, t)
    BY <1>3, DollarInsertBinds
  <2>2. ASSUME s.hasTenant PROVE HitArgs(style, s, TenantArgCount(s), t) = InsertArgs(s, t)
    <3>1. TenantArgCount(s) = 0
      BY <1>3, <2>2 DEF TenantArgCount
    <3>2. Repeat(t, 0) = <<>>
      BY DEF Repeat
    <3>3. CallArgs(s) \in Seq(Nat)
      BY ArgsType
    <3>4. CallArgs(s) \o <<>> = CallArgs(s) /\ <<>> \o CallArgs(s) = CallArgs(s)
      BY <3>3, ConcatEmptySeq
    <3>5. HitArgs(style, s, 0, t) = CallArgs(s) \o <<>> /\ InsertArgs(s, t) = <<>> \o CallArgs(s)
      BY <1>3, <3>1, <3>2 DEF HitArgs, InsertArgs
    <3> QED
      BY <3>1, <3>4, <3>5
  <2> QED
    BY <1>3, <2>1, <2>2 DEF HitsAsMissed
<1> QED
  BY <1>1, <1>2, <1>3

-----------------------------------------------------------------------------
(* The text of a rewritten statement has numbers for markers.              *)
LEMMA RewriteMarksType ==
  ASSUME NEW style \in Styles, NEW s, IsStatement(style, s)
  PROVE  RewriteMarks(style, s) \in Seq(Nat)
<1> DEFINE n == TenantArgCount(s)
           u == UserMarkers(s)
           c == CountPlaceholders(style, s) + 1
           k == IF style = "dollar" /\ n = 1 THEN 1 ELSE 0
<1>1. n \in Nat /\ k \in Nat
  BY CountType
<1>2. s.pre \in Seq(Nat) /\ s.post \in Seq(Nat) /\ u \in Seq(Nat)
  BY MarkersType
<1>3. c \in Nat \ {0}
  <2>1. CountPlaceholders(style, s) \in Nat
    BY <1>2, ArgsType, LenProperties DEF CountPlaceholders, Styles
  <2> QED
    BY <2>1
<1>4. RewriteMarks(style, s) = IF s.op = "INSERT" THEN TenantMarks(1, n) \o [i \in DOMAIN u |-> u[i] + k]
                               ELSE s.pre \o TenantMarks(c, n) \o s.post
  BY DEF RewriteMarks
<1> HIDE DEF n, u, c, k
<1>5. TenantMarks(1, n) \in Seq(Nat) /\ TenantMarks(c, n) \in Seq(Nat)
  BY <1>1, <1>3, TenantMarksType
<1>6. [i \in DOMAIN u |-> u[i] + k] \in Seq(Nat)
  <2>1. DOMAIN u = 1..Len(u) /\ Len(u) \in Nat /\ \A i \in 1..Len(u) : u[i] \in Nat
    BY <1>2, LenProperties, ElementOfSeq
  <2>2. [i \in DOMAIN u |-> u[i] + k] \in [1..Len(u) -> Nat]
    BY <1>1, <2>1
  <2> QED
    BY <2>1, <2>2
<1>7. TenantMarks(1, n) \o [i \in DOMAIN u |-> u[i] + k] \in Seq(Nat)
  BY <1>5, <1>6, ConcatProperties
<1>8. s.pre \o TenantMarks(c, n) \o s.post \in Seq(Nat)
  BY <1>2, <1>5, ConcatThree
<1> QED
  BY <1>4, <1>7, <1>8

(* A rewrite that adds nothing is the statement itself.                    *)
LEMMA NothingAdded ==
  ASSUME NEW style \in Styles, NEW s, IsStatement(style, s), TenantArgCount(s) = 0, NEW t
  PROVE  /\ RewriteMarks(style, s) = UserMarkers(s)
         /\ InsertArgs(s, t) = CallArgs(s)
         /\ s.op # "UPDATE" => HitArgs(style, s, 0, t) = CallArgs(s)
<1> DEFINE u == UserMarkers(s)
           x == CallArgs(s)
           c == CountPlaceholders(style, s) + 1
<1>1. s.pre \in Seq(Nat) /\ s.post \in Seq(Nat) /\ u \in Seq(Nat)
  BY MarkersType
<1>2. x \in Seq(Nat)
  BY ArgsType
<1>3. TenantMarks(1, 0) = <<>> /\ TenantMarks(c, 0) = <<>> /\ Repeat(t, 0) = <<>>
  <2>1. 1..0 = {}
    OBVIOUS
  <2>2. TenantMarks(1, 0) = [i \in {} |-> 1 + i - 1] /\ TenantMarks(c, 0) = [i \in {} |-> c + i - 1]
    BY <2>1 DEF TenantMarks
  <2>3. Repeat(t, 0) = [i \in {} |-> t]
    BY <2>1 DEF Repeat
  <2>4. [i \in {} |-> 1 + i - 1] = <<>> /\ [i \in {} |-> c + i - 1] = <<>> /\ [i \in {} |-> t] = <<>>
    BY SMT
  <2> QED
    BY <2>2, <2>3, <2>4
<1>4. RewriteMarks(style, s) = IF s.op = "INSERT" THEN TenantMarks(1, 0) \o [i \in DOMAIN u |-> u[i] + 0]
                               ELSE s.pre \o TenantMarks(c, 0) \o s.post
  <2>1. (IF style = "dollar" /\ 0 = 1 THEN 1 ELSE 0) = 0
    OBVIOUS
  <2> QED
    BY <2>1 DEF RewriteMarks
<1>5. InsertArgs(s, t) = Repeat(t, 0) \o x
  BY DEF InsertArgs
<1>6. s.op # "UPDATE" => HitArgs(style, s, 0, t) \in {Repeat(t, 0) \o x, x \o Repeat(t, 0)}
  BY DEF HitArgs, Styles
<1>7. UserMarkers(s) = s.pre \o s.post
  BY DEF UserMarkers
<1> HIDE DEF u, x, c
<1>8. [i \in DOMAIN u |-> u[i] + 0] = u
  <2>1. DOMAIN u = 1..Len(u) /\ \A i \in DOMAIN u : u[i] \in Nat
    BY <1>1, LenProperties, ElementOfSeq
  <2>2. \A i \in DOMAIN u : u[i] + 0 = u[i]
    BY <2>1
  <2>3. u = [i \in DOMAIN u |-> u[i]]
    BY <1>1
  <2> QED
    BY <2>2, <2>3
<1>9. <<>> \o u = u /\ s.pre \o <<>> = s.pre
  BY <1>1, ConcatEmptySeq
<1>10. <<>> \o x = x /\ x \o <<>> = x
  BY <1>2, ConcatEmptySeq
<1>11. RewriteMarks(style, s) = UserMarkers(s)
  BY <1>3, <1>4, <1>7, <1>8, <1>9 DEF u
<1> QED
  BY <1>3, <1>5, <1>6, <1>10, <1>11 DEF x

(* The segments that a rewriter appends, in a row.  There are at most three. *)
Joined(segs) ==
    CASE Len(segs) = 0 -> <<>>
      [] Len(segs) = 1 -> segs[1]
      [] Len(segs) = 2 -> segs[1] \o segs[2]
      [] OTHER -> segs[1] \o (segs[2] \o segs[3])

(* The first part of the arguments, before the place of the tenant.        *)
LEMMA SplitArgs ==
  ASSUME NEW s, IsStatement("question", s)
  PROVE  /\ SubSeq(CallArgs(s), 1, SetArgCount(s)) \in Seq(Nat)
         /\ SubSeq(CallArgs(s), SetArgCount(s) + 1, Len(CallArgs(s))) \in Seq(Nat)
         /\ Len(SubSeq(CallArgs(s), 1, SetArgCount(s)))
              + Len(SubSeq(CallArgs(s), SetArgCount(s) + 1, Len(CallArgs(s)))) = NumArgs(s)
<1> DEFINE x == CallArgs(s)
           c == SetArgCount(s)
           n == NumArgs(s)
           p == Len(s.pre)
           q == Len(s.post)
<1>1. x \in Seq(Nat) /\ Len(x) = n /\ n \in Nat
  BY ArgsType
<1>2. p \in Nat /\ q \in Nat /\ Len(UserMarkers(s)) = p + q /\ n = p + q
  BY MarkersType, QuestionArgs
<1>3. c \in {p, p + q}
  BY <1>2 DEF SetArgCount
<1> HIDE DEF x, c, n, p, q
<1>4. c \in 0..n
  BY <1>2, <1>3
<1>5. \A i \in 1..n : x[i] \in Nat
  BY <1>1, ElementOfSeq
<1>6. SubSeq(x, 1, c) \in Seq(Nat) /\ Len(SubSeq(x, 1, c)) = c
  BY <1>1, <1>4, <1>5
<1>7. SubSeq(x, c + 1, n) \in Seq(Nat) /\ Len(SubSeq(x, c + 1, n)) = n - c
  BY <1>1, <1>4, <1>5
<1>8. c + (n - c) = n
  BY <1>1, <1>4
<1> QED
  BY <1>1, <1>6, <1>7, <1>8 DEF x, c, n

(* The arguments of a cache hit with n tenant values.                      *)
LEMMA HitArgsType ==
  ASSUME NEW style \in Styles, NEW s, IsStatement(style, s), NEW n \in Nat, NEW t
  PROVE  /\ HitArgs(style, s, n, t) \in Seq(Nat \cup {t})
         /\ Len(HitArgs(style, s, n, t)) = NumArgs(s) + n
<1> DEFINE S == Nat \cup {t}
           x == CallArgs(s)
           r == Repeat(t, n)
           a == SubSeq(x, 1, SetArgCount(s))
           b == SubSeq(x, SetArgCount(s) + 1, Len(x))
           h == NumArgs(s)
<1>1. Seq(Nat) \subseteq Seq(S) /\ Seq({t}) \subseteq Seq(S)
  <2>1. Nat \subseteq S /\ {t} \subseteq S
    OBVIOUS
  <2> HIDE DEF S
  <2> QED
    BY <2>1, SeqMonotonic
<1>2. x \in Seq(Nat) /\ Len(x) = h /\ h \in Nat
  BY ArgsType
<1>3. r \in Seq({t}) /\ Len(r) = n
  BY RepeatType
<1>4. style = "question" => a \in Seq(Nat) /\ b \in Seq(Nat) /\ Len(a) + Len(b) = h
  BY SplitArgs
<1>5. HitArgs(style, s, n, t) =
        CASE style = "question" /\ s.op = "UPDATE" -> a \o r \o b
          [] style = "question" /\ s.op # "UPDATE" -> r \o x
          [] style # "question" -> x \o r
  BY DEF HitArgs
<1> HIDE DEF S, x, r, a, b, h
<1>6. r \in Seq(S) /\ x \in Seq(S)
  BY <1>1, <1>2, <1>3
<1>7. CASE style = "question" /\ s.op = "UPDATE"
  <2>1. a \in Seq(S) /\ b \in Seq(S)
    BY <1>1, <1>4, <1>7
  <2>2. a \o r \o b \in Seq(S) /\ Len(a \o r \o b) = Len(a) + Len(r) + Len(b)
    BY <1>6, <2>1, ConcatThree
  <2>3. Len(a) \in Nat /\ Len(b) \in Nat
    BY <2>1, LenProperties
  <2>4. Len(a) + Len(r) + Len(b) = h + n
    BY <1>3, <1>4, <1>7, <2>3
  <2> QED
    BY <1>5, <1>7, <2>2, <2>4 DEF S, h
<1>8. CASE style = "question" /\ s.op # "UPDATE"
  <2>1. r \o x \in Seq(S) /\ Len(r \o x) = Len(r) + Len(x)
    BY <1>6, ConcatTwo
  <2>2. Len(r) + Len(x) = h + n
    BY <1>2, <1>3
  <2> QED
    BY <1>5, <1>8, <2>1, <2>2 DEF S, h
<1>9. CASE style # "question"
  <2>1. x \o r \in Seq(S) /\ Len(x \o r) = Len(x) + Len(r)
    BY <1>6, ConcatTwo
  <2>2. Len(x) + Len(r) = h + n
    BY <1>2, <1>3
  <2> QED
    BY <1>5, <1>9, <2>1, <2>2 DEF S, h
<1> QED
  BY <1>7, <1>8, <1>9

(* The arguments of a new INSERT, and when a hit builds the same ones.     *)
LEMMA InsertArgsType ==
  ASSUME NEW style \in Styles, NEW s, IsStatement(style, s), s.op = "INSERT", NEW t
  PROVE  /\ InsertArgs(s, t) \in Seq(Nat \cup {t})
         /\ Len(InsertArgs(s, t)) = NumArgs(s) + TenantArgCount(s)
         /\ (style = "question" \/ s.hasTenant) =>
               InsertArgs(s, t) = HitArgs(style, s, TenantArgCount(s), t)
<1> DEFINE n == TenantArgCount(s)
<1>1. n \in Nat
  BY CountType
<1>2. InsertArgs(s, t) = HitArgs("question", s, n, t)
  BY DEF InsertArgs, HitArgs
<1>3. InsertArgs(s, t) \in Seq(Nat \cup {t}) /\ Len(InsertArgs(s, t)) = NumArgs(s) + n
  <2> DEFINE S == Nat \cup {t}
             x == CallArgs(s)
             r == Repeat(t, n)
             h == NumArgs(s)
  <2>1. Nat \subseteq S /\ {t} \subseteq S
    OBVIOUS
  <2>2. x \in Seq(Nat) /\ Len(x) = h /\ h \in Nat
    BY ArgsType
  <2>3. r \in Seq({t}) /\ Len(r) = n
    BY <1>1, RepeatType
  <2>4. InsertArgs(s, t) = r \o x
    BY DEF InsertArgs
  <2> HIDE DEF S, x, r, h, n
  <2>5. r \in Seq(S) /\ x \in Seq(S)
    BY <2>1, <2>2, <2>3, SeqMonotonic
  <2>6. r \o x \in Seq(S) /\ Len(r \o x) = Len(r) + Len(x)
    BY <2>5, ConcatTwo
  <2>7. Len(r) + Len(x) = h + n
    BY <1>1, <2>2, <2>3
  <2> QED
    BY <2>4, <2>6, <2>7 DEF S, h
<1>4. s.hasTenant => InsertArgs(s, t) = HitArgs(style, s, n, t)
  <2>1. s.hasTenant => n = 0
    BY DEF TenantArgCount
  <2> QED
    BY <2>1, NothingAdded
<1> QED
  BY <1>2, <1>3, <1>4

(* What a rewriter appends on a miss is what a hit would build.            *)
LEMMA SegmentsJoin ==
  ASSUME NEW style \in Styles, NEW s, IsStatement(style, s), NEW t
  PROVE  /\ MissSegments(style, s, t) \in Seq(Seq(Nat \cup {t}))
         /\ Len(MissSegments(style, s, t)) <= 3
         /\ Joined(MissSegments(style, s, t)) = HitArgs(style, s, TenantArgCount(s), t)
<1> DEFINE S == Nat \cup {t}
           n == TenantArgCount(s)
           x == CallArgs(s)
           r == Repeat(t, n)
           a == SubSeq(x, 1, SetArgCount(s))
           b == SubSeq(x, SetArgCount(s) + 1, Len(x))
<1>1. Seq(Nat) \subseteq Seq(S) /\ Seq({t}) \subseteq Seq(S)
  <2>1. Nat \subseteq S /\ {t} \subseteq S
    OBVIOUS
  <2> HIDE DEF S
  <2> QED
    BY <2>1, SeqMonotonic
<1>2. x \in Seq(S)
  BY <1>1, ArgsType
<1>3. r \in Seq(S)
  <2>1. n \in Nat
    BY CountType
  <2>2. r \in Seq({t})
    BY <2>1, RepeatType, Zenon
  <2> QED
    BY <1>1, <2>2
<1>4. style = "question" => a \in Seq(S) /\ b \in Seq(S)
  BY <1>1, SplitArgs
<1>5. HitArgs(style, s, n, t) =
        CASE style = "question" /\ s.op = "UPDATE" -> a \o r \o b
          [] style = "question" /\ s.op # "UPDATE" -> r \o x
          [] style # "question" -> x \o r
  BY DEF HitArgs
<1>6. MissSegments(style, s, t) =
        CASE style = "question" /\ s.op = "UPDATE" -> <<a, r, b>>
          [] style = "question" /\ s.op # "UPDATE" -> <<r, x>>
          [] style # "question" -> <<x, r>>
  BY DEF MissSegments
<1> HIDE DEF S, x, r, a, b, n
<1>7. \A c \in Seq(S), d \in Seq(S) :
        <<c, d>> \in Seq(Seq(S)) /\ Len(<<c, d>>) <= 3 /\ Joined(<<c, d>>) = c \o d
  BY DEF Joined
<1>8. \A c \in Seq(S), d \in Seq(S), e \in Seq(S) :
        <<c, d, e>> \in Seq(Seq(S)) /\ Len(<<c, d, e>>) <= 3 /\ Joined(<<c, d, e>>) = c \o (d \o e)
  BY DEF Joined
<1>9. CASE style = "question" /\ s.op = "UPDATE"
  <2>1. a \o r \o b = a \o (r \o b)
    BY <1>3, <1>4, <1>9, ConcatAssociative
  <2>2. HitArgs(style, s, n, t) = a \o (r \o b) /\ MissSegments(style, s, t) = <<a, r, b>>
    BY <1>5, <1>6, <1>9, <2>1
  <2>3. /\ <<a, r, b>> \in Seq(Seq(S)) /\ Len(<<a, r, b>>) <= 3
        /\ Joined(<<a, r, b>>) = a \o (r \o b)
    BY <1>3, <1>4, <1>8, <1>9, Zenon
  <2> QED
    BY <2>2, <2>3 DEF S, n
<1>10. CASE style = "question" /\ s.op # "UPDATE"
  BY <1>2, <1>3, <1>5, <1>6, <1>7, <1>10 DEF S, n
<1>11. CASE style # "question"
  BY <1>2, <1>3, <1>5, <1>6, <1>7, <1>11 DEF S, n
<1> QED
  BY <1>9, <1>10, <1>11

(* Appending the next segment leaves the rest to do.                       *)
LEMMA JoinedStep ==
  ASSUME NEW S, NEW w \in Seq(Seq(S)), w # <<>>, Len(w) <= 3
  PROVE  /\ Head(w) \in Seq(S) /\ Tail(w) \in Seq(Seq(S)) /\ Len(Tail(w)) <= 3
         /\ Joined(Tail(w)) \in Seq(S)
         /\ Joined(w) = Head(w) \o Joined(Tail(w))
<1> DEFINE v == Tail(w)
           n == Len(w)
<1>1. n \in Nat /\ n # 0 /\ n <= 3
  BY EmptySeq, LenProperties
<1>2. n \in {1, 2, 3}
  <2> HIDE DEF n
  <2> QED
    BY <1>1
<1>3. Head(w) = w[1]
  BY HeadTailProperties
<1>4. v \in Seq(Seq(S)) /\ Len(v) = n - 1
  BY HeadTailProperties
<1>5. \A i \in 1..Len(v) : v[i] = w[i + 1]
  BY HeadTailProperties
<1>6. \A i \in 1..n : w[i] \in Seq(S)
  BY ElementOfSeq
<1>7. Len(w) = n
  OBVIOUS
<1> HIDE DEF v, n
<1>8. w[1] \in Seq(S) /\ Len(v) <= 3
  BY <1>2, <1>4, <1>6
<1>9. Joined(v) \in Seq(S) /\ Joined(w) = w[1] \o Joined(v)
  <2>1. CASE n = 1
    <3>1. w[1] \o <<>> = w[1] /\ <<>> \in Seq(S)
      BY <1>8, ConcatEmptySeq
    <3>2. Len(v) = 0
      BY <1>4, <2>1
    <3> QED
      BY <1>7, <2>1, <3>1, <3>2 DEF Joined
  <2>2. CASE n = 2
    <3>1. Len(v) = 1
      BY <1>4, <2>2
    <3>2. v[1] = w[2] /\ w[2] \in Seq(S)
      BY <1>5, <1>6, <2>2, <3>1
    <3> QED
      BY <1>7, <2>2, <3>1, <3>2 DEF Joined
  <2>3. CASE n = 3
    <3>1. Len(v) = 2
      BY <1>4, <2>3
    <3>2. v[1] = w[2] /\ v[2] = w[3] /\ w[2] \in Seq(S) /\ w[3] \in Seq(S)
      BY <1>5, <1>6, <2>3, <3>1
    <3>3. w[2] \o w[3] \in Seq(S)
      BY <3>2, ConcatProperties
    <3> QED
      BY <1>7, <2>3, <3>1, <3>2, <3>3 DEF Joined
  <2> QED
    BY <1>2, <2>1, <2>2, <2>3
<1> QED
  BY <1>3, <1>4, <1>8, <1>9 DEF v

-----------------------------------------------------------------------------
(* Part 2: the query cache, QueryCache.                                    *)

(* CacheBounded is not inductive by itself: the cardinality of what         *)
(* evictHalf keeps is only known for a finite set of hashes.               *)
BoundedInv == IsFiniteSet(DOMAIN entries) /\ CacheBounded

(* Half of a cache size is a number below the size.                         *)
LEMMA HalfIsLess == MaxSize \div 2 \in Nat /\ MaxSize \div 2 < MaxSize
  BY MaxSizeAssumption, SMT

(* What Put keeps before it inserts is finite and leaves room for one more. *)
LEMMA SurvivorsLeaveRoom ==
  ASSUME BoundedInv, NEW kept \in Survivors
  PROVE  /\ kept \subseteq DOMAIN entries
         /\ IsFiniteSet(kept)
         /\ Cardinality(kept) + 1 <= MaxSize
<1>1. Cardinality(DOMAIN entries) \in Nat
  BY FS_CardinalityType DEF BoundedInv
<1>2. CASE Cardinality(DOMAIN entries) >= MaxSize
  <2>1. kept \in SUBSET DOMAIN entries /\ Cardinality(kept) = MaxSize \div 2
    BY <1>2 DEF Survivors
  <2>2. IsFiniteSet(kept)
    BY <2>1, FS_Subset DEF BoundedInv
  <2> QED
    BY <2>1, <2>2, HalfIsLess, MaxSizeAssumption
<1>3. CASE ~(Cardinality(DOMAIN entries) >= MaxSize)
  <2>1. kept = DOMAIN entries
    BY <1>3 DEF Survivors
  <2> QED
    BY <2>1, <1>1, <1>3, MaxSizeAssumption DEF BoundedInv
<1> QED
  BY <1>2, <1>3

(* The domain of the map after Put.                                         *)
LEMMA PutDomain ==
  ASSUME NEW q \in Queries, NEW r, Put(q, r)
  PROVE  \E kept \in Survivors :
            /\ DOMAIN entries' = kept \cup {HashQuery(q)}
            /\ entries' = [h \in kept \cup {HashQuery(q)} |->
                              IF h = HashQuery(q) THEN NewEntry(q, r) ELSE entries[h]]
  BY DEF Put

(* A Put, with the eviction before it, leaves a finite cache within its     *)
(* size.                                                                   *)
LEMMA PutKeepsBound ==
  ASSUME BoundedInv, NEW q \in Queries, NEW r, Put(q, r)
  PROVE  BoundedInv'
<1>1. PICK kept \in Survivors : DOMAIN entries' = kept \cup {HashQuery(q)}
  BY PutDomain
<1>2. IsFiniteSet(kept) /\ Cardinality(kept) + 1 <= MaxSize /\ Cardinality(kept) \in Nat
  BY SurvivorsLeaveRoom, FS_CardinalityType
<1>3. /\ IsFiniteSet(kept \cup {HashQuery(q)})
      /\ \/ Cardinality(kept \cup {HashQuery(q)}) = Cardinality(kept)
         \/ Cardinality(kept \cup {HashQuery(q)}) = Cardinality(kept) + 1
  BY <1>2, FS_AddElement
<1> QED
  BY <1>1, <1>2, <1>3, MaxSizeAssumption DEF BoundedInv, CacheBounded

(* The cache never holds more than MaxSize entries.  Every step of every    *)
(* goroutine either leaves the map alone, empties it, or is a Put.         *)
THEOREM CacheBoundedAlways == CacheSpec => []CacheBounded
<1>1. CacheInit => BoundedInv
  <2> SUFFICES ASSUME CacheInit PROVE BoundedInv
    OBVIOUS
  <2>1. DOMAIN entries = {}
    BY DEF CacheInit
  <2> QED
    BY <2>1, FS_EmptySet, MaxSizeAssumption DEF BoundedInv, CacheBounded
<1>2. BoundedInv /\ [CacheNext]_cacheVars => BoundedInv'
  <2> SUFFICES ASSUME BoundedInv, [CacheNext]_cacheVars PROVE BoundedInv'
    OBVIOUS
  <2>1. CASE UNCHANGED entries
    BY <2>1 DEF BoundedInv, CacheBounded
  <2>2. CASE \E g \in Goroutines, q \in Queries : GetLookup(g, q)
    BY <2>1, <2>2 DEF GetLookup
  <2>3. CASE \E g \in Goroutines : GetCount(g)
    BY <2>1, <2>3 DEF GetCount
  <2>4. CASE \E q \in Queries : Put(q, Transform(q))
    BY <2>4, PutKeepsBound
  <2>5. CASE Clear
    <3>1. DOMAIN entries' = {}
      BY <2>5 DEF Clear
    <3> QED
      BY <3>1, FS_EmptySet, MaxSizeAssumption DEF BoundedInv, CacheBounded
  <2> QED
    BY <2>1, <2>2, <2>3, <2>4, <2>5 DEF CacheNext, cacheVars
<1>3. BoundedInv => CacheBounded
  BY DEF BoundedInv
<1> QED
  BY <1>1, <1>2, <1>3, PTL DEF CacheSpec

(* What Get may return for a hash is the transformation of a statement with *)
(* this hash, whatever other goroutines put, evict or clear meanwhile.     *)
THEOREM CacheCoherentAlways == CacheSpec => []CacheCoherent
<1>1. CacheInit => CacheCoherent
  BY DEF CacheInit, CacheCoherent
<1>2. CacheCoherent /\ [CacheNext]_cacheVars => CacheCoherent'
  <2> SUFFICES ASSUME CacheCoherent, [CacheNext]_cacheVars PROVE CacheCoherent'
    OBVIOUS
  <2>1. CASE UNCHANGED entries
    BY <2>1 DEF CacheCoherent
  <2>2. CASE \E g \in Goroutines, q \in Queries : GetLookup(g, q)
    BY <2>1, <2>2 DEF GetLookup
  <2>3. CASE \E g \in Goroutines : GetCount(g)
    BY <2>1, <2>3 DEF GetCount
  <2>4. ASSUME NEW q \in Queries, Put(q, Transform(q)) PROVE CacheCoherent'
    <3>1. PICK kept \in Survivors :
             /\ DOMAIN entries' = kept \cup {HashQuery(q)}
             /\ entries' = [h \in kept \cup {HashQuery(q)} |->
                   IF h = HashQuery(q) THEN NewEntry(q, Transform(q)) ELSE entries[h]]
      BY <2>4, PutDomain
    <3>2. kept \subseteq DOMAIN entries
      BY DEF Survivors
    <3> QED
      BY <3>1, <3>2 DEF CacheCoherent, NewEntry
  <2>5. CASE Clear
    BY <2>5 DEF Clear, CacheCoherent
  <2> QED
    BY <2>1, <2>2, <2>3, <2>4, <2>5 DEF CacheNext, cacheVars
<1> QED
  BY <1>1, <1>2, PTL DEF CacheSpec

(* A counter wraps within its range.                                        *)
LEMMA CounterType ==
  ASSUME NEW c \in 0..(CounterMod - 1)
  PROVE  IncUint64(c) \in 0..(CounterMod - 1)
<1>1. c + 1 \in Nat /\ CounterMod \in Nat \ {0}
  BY CounterModAssumption
<1>2. \A n \in Nat, m \in Nat \ {0} : n % m \in 0..(m - 1)
  BY SMT
<1> QED
  BY <1>1, <1>2 DEF IncUint64

(* Entries are well formed and filed under hashes of statements, and the    *)
(* counters that wrap stay in range, although Get counts after it unlocks. *)
THEOREM CacheTypeAlways == CacheSpec => []CacheTypeOK
<1>1. CacheInit => CacheTypeOK
  BY CounterModAssumption DEF CacheInit, CacheTypeOK
<1>2. CacheTypeOK /\ [CacheNext]_cacheVars => CacheTypeOK'
  <2> SUFFICES ASSUME CacheTypeOK, [CacheNext]_cacheVars PROVE CacheTypeOK'
    OBVIOUS
  <2>1. ASSUME NEW g \in Goroutines, NEW q \in Queries, GetLookup(g, q) PROVE CacheTypeOK'
    BY <2>1 DEF GetLookup, CacheTypeOK
  <2>2. ASSUME NEW g \in Goroutines, GetCount(g) PROVE CacheTypeOK'
    BY <2>2, CounterType DEF GetCount, CacheTypeOK
  <2>3. ASSUME NEW q \in Queries, Put(q, Transform(q)) PROVE CacheTypeOK'
    <3>1. PICK kept \in Survivors :
             /\ DOMAIN entries' = kept \cup {HashQuery(q)}
             /\ entries' = [h \in kept \cup {HashQuery(q)} |->
                   IF h = HashQuery(q) THEN NewEntry(q, Transform(q)) ELSE entries[h]]
      BY <2>3, PutDomain
    <3>2. kept \subseteq DOMAIN entries
      BY DEF Survivors
    <3>3. NewEntry(q, Transform(q)) \in CacheEntry
      BY TransformAssumption DEF NewEntry, CacheEntry
    <3>4. HashQuery(q) \in Hashes
      BY DEF Hashes
    <3>5. UNCHANGED <<hits, misses, pending>>
      BY <2>3 DEF Put
    <3> QED
      BY <3>1, <3>2, <3>3, <3>4, <3>5 DEF CacheTypeOK
  <2>4. CASE Clear
    BY <2>4, CounterModAssumption DEF Clear, CacheTypeOK
  <2>5. CASE UNCHANGED cacheVars
    BY <2>5 DEF cacheVars, CacheTypeOK
  <2> QED
    BY <2>1, <2>2, <2>3, <2>4, <2>5 DEF CacheNext
<1> QED
  BY <1>1, <1>2, PTL DEF CacheSpec

-----------------------------------------------------------------------------
(* Part 3: the handle and its transactions, TenantDB.                      *)

HeldType == held \in [Goroutines -> Arrays \cup {NoArray}]

HeldInv == HeldType /\ HeldExclusively

(* getArgsSlice gives an array that nobody holds: those of the pool are     *)
(* held by nobody, and a new one is not in use.                            *)
LEMMA TakeSliceKeepsHeld ==
  ASSUME HeldInv, NEW g \in Goroutines, NEW a \in Arrays, TakeSlice(g, a)
  PROVE  HeldInv'
<1>1. /\ pool' = pool \ {a}
      /\ held' = [held EXCEPT ![g] = a]
      /\ a \in pool \/ ~InUse(a)
  BY DEF TakeSlice, GetArgsSlice
<1>2. \A h \in Goroutines : held[h] # a
  BY <1>1, NoArrayAssumption DEF HeldInv, HeldExclusively, InUse
<1> QED
  BY <1>1, <1>2 DEF HeldInv, HeldType, HeldExclusively

(* putArgsSlice: the array goes to the pool, and its rewriter lets it go.   *)
LEMMA ReturnSliceKeepsHeld ==
  ASSUME HeldInv, NEW g \in Goroutines, ReturnSlice(g), held[g] # NoArray
  PROVE  HeldInv'
<1>1. pool' = pool \cup {held[g]} /\ held' = [held EXCEPT ![g] = NoArray]
  BY DEF ReturnSlice
<1>2. \A h \in Goroutines \ {g} : held[h] # held[g]
  BY DEF HeldInv, HeldExclusively
<1> QED
  BY <1>1, <1>2 DEF HeldInv, HeldType, HeldExclusively

(* A rewriter that is appending holds an array: what ReturnSlice needs, as  *)
(* it would put NoArray into the pool otherwise.                           *)
AppendingHolds == \A g \in Goroutines : pc[g] = "append" => held[g] # NoArray

PcType == pc \in [Goroutines -> {"idle", "lookup", "count", "rewrite", "append", "put", "exec"}]

PoolInv == HeldInv /\ PcType /\ AppendingHolds

(* Steps that touch neither the pool nor who holds what.                    *)
LEMMA OtherStepsKeepHeld ==
  ASSUME HeldInv, UNCHANGED held, pool' \subseteq pool
  PROVE  HeldInv'
  BY DEF HeldInv, HeldType, HeldExclusively

(* A step of one goroutine to another place than "append".                  *)
LEMMA LeavingAppend ==
  ASSUME PcType, AppendingHolds, UNCHANGED held, NEW g \in Goroutines,
         NEW c \in {"idle", "lookup", "count", "rewrite", "put", "exec"}, pc' = [pc EXCEPT ![g] = c]
  PROVE  PcType' /\ AppendingHolds'
  BY DEF PcType, AppendingHolds

(* The steps of a goroutine inside a call, one by one.                      *)
LEMMA StepKeepsPoolInv ==
  ASSUME PoolInv, NEW g \in Goroutines, Step(g)
  PROVE  PoolInv'
<1> USE DEF PoolInv
<1>1. CASE CacheLookup(g)
  <2>1. UNCHANGED <<held, pool>> /\ pc' = [pc EXCEPT ![g] = "count"]
    BY <1>1 DEF CacheLookup
  <2> QED
    BY <2>1, OtherStepsKeepHeld, LeavingAppend
<1>2. CASE CacheCount(g)
  <2>1. UNCHANGED <<held, pool>> /\ \E c \in {"exec", "rewrite"} : pc' = [pc EXCEPT ![g] = c]
    BY <1>2 DEF CacheCount
  <2> QED
    BY <2>1, OtherStepsKeepHeld, LeavingAppend
<1>3. CASE RewriteUnchanged(g)
  <2>1. UNCHANGED <<held, pool>> /\ \E c \in {"exec", "put"} : pc' = [pc EXCEPT ![g] = c]
    BY <1>3 DEF RewriteUnchanged
  <2> QED
    BY <2>1, OtherStepsKeepHeld, LeavingAppend
<1>4. CASE RewriteInsert(g)
  <2>1. UNCHANGED <<held, pool>> /\ pc' = [pc EXCEPT ![g] = "put"]
    BY <1>4 DEF RewriteInsert
  <2> QED
    BY <2>1, OtherStepsKeepHeld, LeavingAppend
<1>5. CASE RejectInsert(g)
  <2>1. UNCHANGED <<held, pool>> /\ pc' = [pc EXCEPT ![g] = "idle"]
    BY <1>5 DEF RejectInsert
  <2> QED
    BY <2>1, OtherStepsKeepHeld, LeavingAppend
<1>6. ASSUME NEW a \in Arrays, TakeSlice(g, a) PROVE PoolInv'
  <2>1. HeldInv'
    BY <1>6, TakeSliceKeepsHeld
  <2>2. held' = [held EXCEPT ![g] = a] /\ pc' = [pc EXCEPT ![g] = "append"]
    BY <1>6 DEF TakeSlice
  <2> QED
    BY <2>1, <2>2, NoArrayAssumption DEF PcType, AppendingHolds, HeldInv, HeldType
<1>7. CASE AppendSegment(g)
  <2>1. UNCHANGED <<held, pool, pc>>
    BY <1>7 DEF AppendSegment
  <2> QED
    BY <2>1, OtherStepsKeepHeld DEF PcType, AppendingHolds
<1>8. CASE ReturnSlice(g)
  <2>1. held[g] # NoArray
    BY <1>8 DEF ReturnSlice, AppendingHolds
  <2>2. HeldInv'
    BY <1>8, <2>1, ReturnSliceKeepsHeld
  <2>3. held' = [held EXCEPT ![g] = NoArray] /\ pc' = [pc EXCEPT ![g] = "put"]
    BY <1>8 DEF ReturnSlice
  <2> QED
    BY <2>2, <2>3 DEF PcType, AppendingHolds, HeldInv, HeldType
<1>9. CASE CachePut(g)
  <2>1. UNCHANGED <<held, pool>> /\ pc' = [pc EXCEPT ![g] = "exec"]
    BY <1>9 DEF CachePut
  <2> QED
    BY <2>1, OtherStepsKeepHeld, LeavingAppend
<1>10. CASE Execute(g)
  <2>1. UNCHANGED <<held, pool>> /\ pc' = [pc EXCEPT ![g] = "idle"]
    BY <1>10 DEF Execute
  <2> QED
    BY <2>1, OtherStepsKeepHeld, LeavingAppend
<1> QED
  BY <1>1, <1>2, <1>3, <1>4, <1>5, <1>6, <1>7, <1>8, <1>9, <1>10 DEF Step

(* Any step of the handle.                                                 *)
LEMMA NextKeepsPoolInv ==
  ASSUME PoolInv, [Next]_vars
  PROVE  PoolInv'
<1>1. ASSUME NEW g \in Goroutines, NEW m \in Methods, NEW s \in Queries, NEW ctx \in CallContexts,
             Call(g, m, s, ctx)
      PROVE PoolInv'
  <2>1. UNCHANGED <<held, pool>> /\ \E c \in {"lookup", "idle", "exec"} : pc' = [pc EXCEPT ![g] = c]
    BY <1>1 DEF Call
  <2> QED
    BY <2>1, OtherStepsKeepHeld, LeavingAppend DEF PoolInv
<1>2. ASSUME NEW g \in Goroutines, Step(g) PROVE PoolInv'
  BY <1>2, StepKeepsPoolInv
<1>3. ASSUME UNCHANGED <<held, pc>>, pool' \subseteq pool PROVE PoolInv'
  BY <1>3, OtherStepsKeepHeld DEF PoolInv, PcType, AppendingHolds
<1>4. CASE ClearQueryCache
  BY <1>3, <1>4 DEF ClearQueryCache
<1>5. CASE \E a \in Arrays : PoolDrop(a)
  BY <1>3, <1>5 DEF PoolDrop
<1>6. CASE UNCHANGED vars
  BY <1>3, <1>6 DEF vars
<1> QED
  BY <1>1, <1>2, <1>4, <1>5, <1>6 DEF Next

(* Two rewriters never fill the same array: getArgsSlice hands it out once  *)
(* until putArgsSlice returns it.                                          *)
THEOREM HeldExclusivelyAlways == Spec => []HeldExclusively
<1>1. Init => PoolInv
  BY DEF Init, PoolInv, HeldInv, HeldType, HeldExclusively, PcType, AppendingHolds
<1>2. PoolInv /\ [Next]_vars => PoolInv'
  BY NextKeepsPoolInv
<1>3. PoolInv => HeldExclusively
  BY DEF PoolInv, HeldInv
<1> QED
  BY <1>1, <1>2, <1>3, PTL DEF Spec

-----------------------------------------------------------------------------
Values == Nat \cup Tenants \cup {NoTenant}

(* A goroutine that is inside a call has a statement and a context.        *)
LEMMA CallFacts ==
  ASSUME TypeOK, NEW g \in Goroutines, call[g] # NoCall
  PROVE  /\ call[g] \in Calls /\ call[g].stmt \in Queries
         /\ IsStatement(Style, call[g].stmt) /\ Style \in Styles
         /\ GetTenant(call[g].ctx) \in Tenants \cup {NoTenant}
         /\ ShouldFilter(call[g].ctx, call[g].stmt) = "tenant_table_access" =>
               GetTenant(call[g].ctx) \in Tenants
<1>1. call[g] \in Calls
  BY DEF TypeOK
<1>2. call[g].stmt \in Queries /\ call[g].ctx \in Contexts
  BY <1>1, CallContextsAssumption DEF Calls
<1>3. GetTenant(call[g].ctx) \in Tenants \cup {NoTenant}
  BY <1>2 DEF Contexts, GetTenant
<1>4. ShouldFilter(call[g].ctx, call[g].stmt) = "tenant_table_access" => GetTenant(call[g].ctx) # NoTenant
  BY DEF ShouldFilter
<1> QED
  BY <1>1, <1>2, <1>3, <1>4, QueriesAssumption, StyleAssumption

(* A slice with its own values, and the pooled ones.                       *)
LEMMA OwnSliceType ==
  ASSUME NEW S, S \subseteq Values, NEW v \in Seq(S)
  PROVE  /\ OwnSlice(v) \in Slices
         /\ OwnSlice(v).arr = NoArray /\ OwnSlice(v).len = Len(v) /\ OwnSlice(v).vals = v
<1>1. v \in Seq(Values) /\ Len(v) \in Nat
  BY SeqMonotonic, LenProperties
<1> QED
  BY <1>1 DEF OwnSlice, Slices, Values

(* A slice of an array of the pool.                                        *)
LEMMA PooledSliceType ==
  ASSUME NEW a \in Arrays, NEW n \in Nat
  PROVE  /\ PooledSlice(a, n) \in Slices
         /\ PooledSlice(a, n).arr = a /\ PooledSlice(a, n).len = n
<1>1. <<>> \in Seq(Nat \cup Tenants \cup {NoTenant})
  BY EmptySeq
<1> QED
  BY <1>1 DEF PooledSlice, Slices

(* append into an array with room for the segment.                         *)
Filled(m, a, n, seg) ==
    [m EXCEPT ![a] = [i \in 1..SliceCap |->
        IF i > n /\ i <= n + Len(seg) THEN seg[i - n] ELSE @[i]]]

(* Appending within the capacity leaves what was there.                    *)
LEMMA AppendInPlace ==
  ASSUME NEW V, NEW m \in [Arrays -> [1..SliceCap -> V]], NEW a \in Arrays, NEW n \in Nat,
         NEW seg \in Seq(V), n + Len(seg) <= SliceCap
  PROVE  /\ Filled(m, a, n, seg) \in [Arrays -> [1..SliceCap -> V]]
         /\ \A i \in 1..n : Filled(m, a, n, seg)[a][i] = m[a][i]
         /\ \A i \in 1..Len(seg) : Filled(m, a, n, seg)[a][n + i] = seg[i]
         /\ \A b \in Arrays \ {a} : Filled(m, a, n, seg)[b] = m[b]
<1> DEFINE m2 == Filled(m, a, n, seg)
           k == Len(seg)
           c == SliceCap
           old == m[a]
           new == [i \in 1..c |-> IF i > n /\ i <= n + k THEN seg[i - n] ELSE old[i]]
<1>1. m2 = [m EXCEPT ![a] = new]
  BY DEF Filled
<1>2. old \in [1..c -> V] /\ c \in Nat
  BY SliceCapAssumption
<1>3. k \in Nat /\ DOMAIN seg = 1..k /\ \A i \in 1..k : seg[i] \in V
  BY LenProperties, ElementOfSeq
<1>4. n + k <= c
  OBVIOUS
<1> HIDE DEF k, c, old, m2
<1>5. new \in [1..c -> V]
  <2> SUFFICES ASSUME NEW i \in 1..c
               PROVE  (IF i > n /\ i <= n + k THEN seg[i - n] ELSE old[i]) \in V
    OBVIOUS
  <2>1. i > n /\ i <= n + k => i - n \in 1..k
    BY <1>2, <1>3
  <2> QED
    BY <1>2, <1>3, <2>1
<1>6. \A i \in 1..n : new[i] = old[i]
  BY <1>2, <1>3, <1>4
<1>7. \A i \in 1..k : new[n + i] = seg[i]
  <2> SUFFICES ASSUME NEW i \in 1..k PROVE new[n + i] = seg[i]
    OBVIOUS
  <2>1. n + i \in 1..c /\ n + i > n /\ n + i <= n + k /\ (n + i) - n = i
    BY <1>2, <1>3, <1>4
  <2> QED
    BY <2>1
<1> HIDE DEF new
<1>8. m2[a] = new /\ m2 \in [Arrays -> [1..c -> V]] /\ \A b \in Arrays \ {a} : m2[b] = m[b]
  BY <1>1, <1>5 DEF c
<1> QED
  BY <1>6, <1>7, <1>8 DEF k, c, old, m2

-----------------------------------------------------------------------------
(* The invariant.  Only one goroutine uses the handle.                     *)
Alone == \A g, h \in Goroutines : g = h

(* The statements that injectTenantFilter caches: it knows their keyword,   *)
(* and does not refuse them.                                               *)
Cacheable(s) == s.op # "OTHER" /\ (s.op = "INSERT" => s.columns)

(* Get does not compare the statement with the one that an entry was made  *)
(* for: two statements with one hash would share an entry.                 *)
HashInjective == \A q, s \in Queries : HashQuery(q) = HashQuery(s) => q = s

(* A hit appends the tenant to the arguments of a statement with $N, but    *)
(* an INSERT that was rewritten expects it in front.                       *)
HitsLikeMisses ==
    \A s \in Queries : (Style = "dollar" /\ s.op = "INSERT" /\ s.columns) => s.hasTenant

(* What the handle relies on: ? or $N, no two statements with one hash, no *)
(* cached INSERT with $N and a tenant to add.                              *)
Faithful == Style # "colon" /\ HashInjective /\ HitsLikeMisses

(* A QueryRow that fails returns a sql.Row without an error, although the  *)
(* comments in it say that Scan will report one.                           *)
ErrorsReported == "QueryRow" \notin Methods

Filtered(g) == ShouldFilter(call[g].ctx, call[g].stmt) = "tenant_table_access"

(* The arguments of a rewritten statement.                                 *)
FinalArgs(s, t) ==
    IF s.op = "INSERT" THEN InsertArgs(s, t) ELSE HitArgs(Style, s, TenantArgCount(s), t)

(* A goroutine has the rewritten text, and what it has of the arguments    *)
(* with what it will append are the arguments of that text.  Once its      *)
(* array is back in the pool, this is so only if nobody else can take it.  *)
Prepared(g) ==
    LET s == call[g].stmt
    IN  /\ marks[g] = RewriteMarks(Style, s)
        /\ args[g].len + Len(Joined(todo[g])) = NumArgs(s) + TenantArgCount(s)
        /\ (args[g].arr = NoArray \/ pc[g] = "append" \/ Alone) =>
              SliceValues(mem, args[g]) \o Joined(todo[g]) = FinalArgs(s, GetTenant(call[g].ctx))

GoroutineInv(g) ==
    /\ pc[g] = "idle" <=> call[g] = NoCall
    /\ pc[g] # "append" => held[g] = NoArray /\ todo[g] = <<>>
    /\ args[g].arr = NoArray => args[g].len = Len(args[g].vals)
    /\ pc[g] \in {"lookup", "count", "rewrite", "append", "put"} => Filtered(g)
    /\ (pc[g] = "count" /\ pending[g] = "hit") =>
          (Faithful => Prepared(g) /\ Cacheable(call[g].stmt))
    /\ pc[g] = "append" =>
          /\ args[g].arr \in {NoArray, held[g]}
          /\ call[g].stmt.op \in {"SELECT", "UPDATE", "DELETE"}
          /\ Len(todo[g]) <= 3
          /\ Prepared(g)
    /\ pc[g] = "put" => Prepared(g) /\ Cacheable(call[g].stmt)
    /\ pc[g] = "exec" =>
          IF Filtered(g)
          THEN (Faithful /\ call[g].stmt.op # "OTHER") => Prepared(g) /\ Cacheable(call[g].stmt)
          ELSE args[g] = OwnSlice(CallArgs(call[g].stmt)) /\ marks[g] = UserMarkers(call[g].stmt)

CacheInv == CacheCoherent /\ \A h \in DOMAIN entries : Cacheable(entries[h].originalQuery)

DBInv == TypeOK /\ CacheInv /\ \A g \in Goroutines : GoroutineInv(g)

(* What a step of another goroutine leaves alone.                          *)
Untouched(h) ==
    /\ pc'[h] = pc[h] /\ call'[h] = call[h] /\ marks'[h] = marks[h] /\ args'[h] = args[h]
    /\ held'[h] = held[h] /\ todo'[h] = todo[h] /\ pending'[h] = pending[h]
    /\ (args[h].arr # NoArray /\ (pc[h] = "append" \/ Alone)) => mem'[args[h].arr] = mem[args[h].arr]

(* A step that touches nothing of a goroutine keeps what it relies on.     *)
LEMMA FrameKeeps ==
  ASSUME NEW h \in Goroutines, GoroutineInv(h), Untouched(h)
  PROVE  GoroutineInv(h)'
<1>1. (args[h].arr = NoArray \/ pc[h] = "append" \/ Alone) =>
        SliceValues(mem', args'[h]) = SliceValues(mem, args[h])
  BY DEF Untouched, SliceValues
<1>2. Prepared(h) => Prepared(h)'
  BY <1>1 DEF Untouched, Prepared
<1>3. Filtered(h)' = Filtered(h)
  BY DEF Untouched, Filtered
<1> QED
  BY <1>2, <1>3 DEF Untouched, GoroutineInv, OwnSlice

(* append, in place or into a new array.                                   *)
LEMMA AppendFacts ==
  ASSUME NEW m \in [Arrays -> [1..SliceCap -> Values]], NEW sl \in Slices,
         sl.arr = NoArray => sl.len = Len(sl.vals), sl.arr # NoArray => sl.len <= SliceCap,
         NEW seg \in Seq(Nat \cup Tenants), NEW s2, s2 = AppendSlice(m, sl, seg),
         NEW m2, m2 = AppendMem(m, sl, seg)
  PROVE  /\ m2 \in [Arrays -> [1..SliceCap -> Values]]
         /\ s2 \in Slices
         /\ s2.arr \in {NoArray, sl.arr}
         /\ s2.arr = NoArray => s2.len = Len(s2.vals)
         /\ s2.arr # NoArray => s2.len <= SliceCap
         /\ s2.len = sl.len + Len(seg)
         /\ SliceValues(m, sl) \in Seq(Values) /\ Len(SliceValues(m, sl)) = sl.len
         /\ SliceValues(m2, s2) = SliceValues(m, sl) \o seg
         /\ \A b \in Arrays : b # sl.arr => m2[b] = m[b]
<1> DEFINE n == sl.len
           a == sl.arr
           v == SliceValues(m, sl)
           k == Len(seg)
<1>1. n \in Nat /\ a \in Arrays \cup {NoArray} /\ sl.vals \in Seq(Values)
  BY DEF Slices, Values
<1>2. seg \in Seq(Values) /\ k \in Nat
  <2>1. Nat \cup Tenants \subseteq Values
    BY DEF Values
  <2> QED
    BY <2>1, SeqMonotonic, LenProperties
<1>3. v \in Seq(Values) /\ Len(v) = n
  <2>1. CASE a = NoArray
    BY <1>1, <2>1 DEF SliceValues
  <2>2. CASE a # NoArray
    <3>1. n <= SliceCap /\ SliceCap \in Nat
      BY <2>2, SliceCapAssumption
    <3>2. m[a] \in [1..SliceCap -> Values]
      BY <1>1, <2>2
    <3>3. v = [i \in 1..n |-> m[a][i]]
      BY <2>2 DEF SliceValues
    <3> HIDE DEF n, a, v
    <3>4. v \in [1..n -> Values]
      BY <1>1, <3>1, <3>2, <3>3
    <3> QED
      BY <1>1, <3>4
  <2> QED
    BY <2>1, <2>2
<1>4. CASE Grows(sl, seg)
  <2>1. m2 = m /\ s2 = OwnSlice(v \o seg)
    BY <1>4 DEF AppendMem, AppendSlice
  <2> HIDE DEF v, n, a, k
  <2>2. v \o seg \in Seq(Values) /\ Len(v \o seg) = n + k
    <3>1. Len(v \o seg) = Len(v) + Len(seg) /\ v \o seg \in Seq(Values)
      BY <1>2, <1>3, ConcatTwo
    <3> QED
      BY <1>3, <3>1 DEF k
  <2> DEFINE z == v \o seg
  <2>3. OwnSlice(z) \in Slices /\ OwnSlice(z).arr = NoArray /\ OwnSlice(z).len = Len(z) /\ OwnSlice(z).vals = z
    <3>1. z \in Seq(Values)
      BY <2>2
    <3> HIDE DEF z
    <3> QED
      BY <3>1, OwnSliceType
  <2>4. SliceValues(m2, s2) = z
    BY <2>1, <2>3 DEF SliceValues
  <2> HIDE DEF z
  <2>5. Len(z) = n + k
    BY <2>2 DEF z
  <2> QED
    BY <1>3, <2>1, <2>3, <2>4, <2>5 DEF z, v, n, k
<1>5. CASE ~Grows(sl, seg)
  <2>1. a \in Arrays /\ n + k <= SliceCap
    BY <1>1, <1>2, <1>5, SliceCapAssumption DEF Grows
  <2>2. m2 = Filled(m, a, n, seg)
    BY <1>5 DEF AppendMem, Filled
  <2>3. s2 = PooledSlice(a, n + k)
    BY <1>5 DEF AppendSlice
  <2>4. a # NoArray
    BY <2>1, NoArrayAssumption
  <2>5. v = [i \in 1..n |-> m[a][i]]
    BY <2>4 DEF SliceValues
  <2> HIDE DEF n, a, v, k
  <2>6. n + k \in Nat
    BY <1>1, <1>2
  <2>7. s2 \in Slices /\ s2.arr = a /\ s2.len = n + k
    BY <2>1, <2>3, <2>6, PooledSliceType
  <2>8. SliceValues(m2, s2) = [i \in 1..(n + k) |-> m2[a][i]]
    BY <2>4, <2>7 DEF SliceValues
  <2>9. /\ m2 \in [Arrays -> [1..SliceCap -> Values]]
        /\ \A i \in 1..n : m2[a][i] = m[a][i]
        /\ \A i \in 1..k : m2[a][n + i] = seg[i]
        /\ \A b \in Arrays \ {a} : m2[b] = m[b]
    <3>1. a \in Arrays /\ n \in Nat /\ seg \in Seq(Values) /\ n + Len(seg) <= SliceCap
      BY <1>1, <1>2, <2>1 DEF k
    <3> QED
      BY <2>2, <3>1, AppendInPlace DEF k
  <2> DEFINE y == SliceValues(m2, s2)
             z == v \o seg
  <2>10. /\ z = [i \in 1..(n + k) |-> z[i]]
         /\ \A i \in 1..n : z[i] = v[i]
         /\ \A i \in 1..k : z[n + i] = seg[i]
    <3>1. /\ z \in Seq(Values) /\ DOMAIN z = 1..(Len(v) + Len(seg))
          /\ \A i \in 1..Len(v) : z[i] = v[i]
          /\ \A i \in 1..Len(seg) : z[Len(v) + i] = seg[i]
      BY <1>2, <1>3, ConcatTwo
    <3> HIDE DEF z
    <3>2. \A d : z \in Seq(Values) /\ DOMAIN z = d => z = [i \in d |-> z[i]]
      OBVIOUS
    <3> QED
      BY <1>3, <3>1, <3>2 DEF k
  <2> HIDE DEF y, z
  <2>11. y = [i \in 1..(n + k) |-> m2[a][i]] /\ \A i \in 1..n : v[i] = m[a][i]
    BY <2>5, <2>8 DEF y
  <2>12. \A i \in 1..(n + k) : m2[a][i] = z[i]
    <3> SUFFICES ASSUME NEW i \in 1..(n + k) PROVE m2[a][i] = z[i]
      OBVIOUS
    <3>1. CASE i \in 1..n
      BY <2>9, <2>10, <2>11, <3>1
    <3>2. CASE i \notin 1..n
      <4>1. PICK j \in 1..k : i = n + j
        <5>1. i - n \in 1..k /\ i = n + (i - n)
          BY <1>1, <1>2, <3>2
        <5> QED
          BY <5>1
      <4> QED
        BY <2>9, <2>10, <4>1
    <3> QED
      BY <3>1, <3>2
  <2>13. y = z
    BY <2>10, <2>11, <2>12
  <2> QED
    BY <1>3, <2>1, <2>4, <2>7, <2>9, <2>13 DEF a, n, v, k, y, z
<1> QED
  BY <1>4, <1>5


-----------------------------------------------------------------------------
(* A call is told apart from no call.                                      *)
LEMMA CallIsNotNoCall == \A m, s, ctx : [method |-> m, stmt |-> s, ctx |-> ctx] # NoCall
  BY DEF NoCall

(* A step of one goroutine, put together.                                  *)
LEMMA StepOfOne ==
  ASSUME DBInv, NEW g \in Goroutines, TypeOK', CacheInv', GoroutineInv(g)',
         \A h \in Goroutines \ {g} : Untouched(h)
  PROVE  DBInv'
  BY FrameKeeps DEF DBInv

(* The cache keeps its entries.                                            *)
LEMMA CacheInvKept ==
  ASSUME CacheInv, entries' = entries
  PROVE  CacheInv'
  BY DEF CacheInv, CacheCoherent

(* The parts of the type invariant that a step leaves alone.               *)
LEMMA CacheTypeKept ==
  ASSUME CacheTypeOK, UNCHANGED <<entries, hits, misses, pending>>
  PROVE  CacheTypeOK'
  BY DEF CacheTypeOK

(* A call comes in.                                                        *)
LEMMA CallKeeps ==
  ASSUME DBInv, NEW g \in Goroutines, NEW m \in Methods, NEW s \in Queries, NEW ctx \in CallContexts,
         Call(g, m, s, ctx)
  PROVE  DBInv'
<1> DEFINE decision == ShouldFilter(ctx, s)
           c == [method |-> m, stmt |-> s, ctx |-> ctx]
<1>1. TypeOK /\ GoroutineInv(g) /\ pc[g] = "idle" /\ CacheInv
  BY DEF DBInv, Call
<1>2. IsStatement(Style, s) /\ Style \in Styles
  BY QueriesAssumption, StyleAssumption
<1>3. UserMarkers(s) \in Seq(Nat) /\ CallArgs(s) \in Seq(Nat) /\ <<>> \in Seq(Nat)
  BY <1>2, MarkersType, ArgsType, EmptySeq
<1>4. Nat \subseteq Values
  BY DEF Values
<1>5. /\ OwnSlice(CallArgs(s)) \in Slices /\ OwnSlice(<<>>) \in Slices
      /\ OwnSlice(CallArgs(s)).arr = NoArray /\ OwnSlice(<<>>).arr = NoArray
      /\ OwnSlice(CallArgs(s)).len = Len(OwnSlice(CallArgs(s)).vals)
      /\ OwnSlice(<<>>).len = Len(OwnSlice(<<>>).vals)
  BY <1>3, <1>4, OwnSliceType
<1>6. c \in Calls /\ c # NoCall
  BY CallIsNotNoCall DEF Calls
<1>7. UNCHANGED <<entries, hits, misses, pending, pool, mem, held, todo>>
  BY DEF Call
<1>8. \E p \in {"idle", "lookup", "exec"}, sl \in {OwnSlice(CallArgs(s)), OwnSlice(<<>>)} :
        /\ pc' = [pc EXCEPT ![g] = p]
        /\ call' = [call EXCEPT ![g] = IF p = "idle" THEN NoCall ELSE c]
        /\ marks' = [marks EXCEPT ![g] = IF p = "exec" THEN UserMarkers(s) ELSE <<>>]
        /\ args' = [args EXCEPT ![g] = sl]
        /\ DOMAIN last' = DOMAIN last
        /\ p = "exec" => sl = OwnSlice(CallArgs(s))
        /\ p = "lookup" <=> decision = "tenant_table_access"
  <2>1. pc \in [Goroutines -> {"idle", "lookup", "count", "rewrite", "append", "put", "exec"}]
    BY <1>1 DEF TypeOK
  <2>2. CASE decision = "tenant_table_access"
    BY <2>1, <2>2 DEF Call
  <2>3. CASE decision = "missing_tenant"
    BY <2>1, <2>3 DEF Call
  <2>4. CASE decision \notin {"tenant_table_access", "missing_tenant"}
    BY <2>1, <2>4 DEF Call
  <2> QED
    BY <2>2, <2>3, <2>4
<1> HIDE DEF c, decision
<1>9. TypeOK'
  <2>1. CacheTypeOK'
    BY <1>1, <1>7, CacheTypeKept DEF TypeOK
  <2> QED
    BY <1>1, <1>3, <1>5, <1>6, <1>7, <1>8, <2>1 DEF TypeOK
<1>10. GoroutineInv(g)'
  <2>1. held[g] = NoArray /\ todo[g] = <<>>
    BY <1>1 DEF GoroutineInv
  <2>2. call'[g] = c => Filtered(g)' = (decision = "tenant_table_access")
    BY DEF Filtered, c, decision
  <2>3. /\ call'[g] = IF pc'[g] = "idle" THEN NoCall ELSE c
        /\ pc'[g] \in {"idle", "lookup", "exec"} /\ (pc'[g] = "lookup" <=> decision = "tenant_table_access")
        /\ args'[g].arr = NoArray /\ args'[g].len = Len(args'[g].vals)
        /\ pc'[g] = "exec" => args'[g] = OwnSlice(CallArgs(s)) /\ marks'[g] = UserMarkers(s)
        /\ held'[g] = NoArray /\ todo'[g] = <<>>
    BY <1>1, <1>5, <1>7, <1>8, <2>1 DEF TypeOK
  <2>4. c.stmt = s
    BY DEF c
  <2> QED
    BY <1>6, <2>2, <2>3, <2>4 DEF GoroutineInv, OwnSlice
<1>11. \A h \in Goroutines \ {g} : Untouched(h)
  BY <1>1, <1>7, <1>8 DEF TypeOK, Untouched
<1> QED
  BY <1>1, <1>7, <1>9, <1>10, <1>11, CacheInvKept, StepOfOne

(* A slice with its own values and nothing left to append.                 *)
LEMMA OwnValues ==
  ASSUME NEW v \in Seq(Values), NEW m
  PROVE  /\ SliceValues(m, OwnSlice(v)) \o Joined(<<>>) = v
         /\ OwnSlice(v).len + Len(Joined(<<>>)) = Len(v)
<1>1. Joined(<<>>) = <<>> /\ Len(<<>>) = 0
  BY DEF Joined
<1>2. OwnSlice(v).arr = NoArray /\ OwnSlice(v).len = Len(v) /\ OwnSlice(v).vals = v
  BY DEF OwnSlice
<1>3. v \o <<>> = v /\ Len(v) \in Nat
  BY ConcatEmptySeq, LenProperties
<1> QED
  BY <1>1, <1>2, <1>3 DEF SliceValues

(* The arguments of a rewritten statement are as many as its markers say.  *)
LEMMA FinalArgsType ==
  ASSUME NEW s, IsStatement(Style, s), Style \in Styles, NEW t \in Tenants \cup {NoTenant}
  PROVE  /\ FinalArgs(s, t) \in Seq(Values)
         /\ Len(FinalArgs(s, t)) = NumArgs(s) + TenantArgCount(s)
<1>1. TenantArgCount(s) \in Nat
  BY CountType
<1>2. FinalArgs(s, t) \in Seq(Nat \cup {t}) /\ Len(FinalArgs(s, t)) = NumArgs(s) + TenantArgCount(s)
  <2>1. CASE s.op = "INSERT"
    BY <2>1, InsertArgsType DEF FinalArgs
  <2>2. CASE s.op # "INSERT"
    <3>1. FinalArgs(s, t) = HitArgs(Style, s, TenantArgCount(s), t)
      BY <2>2 DEF FinalArgs
    <3> QED
      BY <1>1, <3>1, HitArgsType
  <2> QED
    BY <2>1, <2>2
<1>3. Nat \cup {t} \subseteq Values
  BY DEF Values
<1>4. Seq(Nat \cup {t}) \subseteq Seq(Values)
  BY <1>3, SeqMonotonic
<1> QED
  BY <1>2, <1>4

(* What a lookup finds for a statement: its own rewritten form, if no other *)
(* statement has its hash, and then the arguments are those of a miss.     *)
LEMMA HitFacts ==
  ASSUME CacheTypeOK, CacheInv, NEW s \in Queries, Found(s), NEW t \in Tenants \cup {NoTenant}
  PROVE  LET e == entries[HashQuery(s)].result
         IN  /\ e.marks \in Seq(Nat) /\ e.argCount \in Nat
             /\ HitArgs(Style, s, e.argCount, t) \in Seq(Values)
             /\ Faithful => /\ Cacheable(s) /\ e.marks = RewriteMarks(Style, s)
                            /\ HitArgs(Style, s, e.argCount, t) = FinalArgs(s, t)
<1> DEFINE h == HashQuery(s)
           e == entries[h].result
           q == entries[h].originalQuery
<1>1. h \in DOMAIN entries
  BY DEF Found
<1>2. q \in Queries /\ HashQuery(q) = h /\ e = Transform(q) /\ Cacheable(q)
  BY <1>1 DEF CacheTypeOK, CacheEntry, CacheInv, CacheCoherent
<1>3. e.marks = RewriteMarks(Style, q) /\ e.argCount = TenantArgCount(q)
  BY <1>2, TransformIsRewrite DEF CachedForm
<1>4. IsStatement(Style, q) /\ IsStatement(Style, s) /\ Style \in Styles
  BY <1>2, QueriesAssumption, StyleAssumption
<1>5. e.marks \in Seq(Nat) /\ e.argCount \in Nat
  BY <1>3, <1>4, RewriteMarksType, CountType
<1>6. HitArgs(Style, s, e.argCount, t) \in Seq(Values)
  <2>1. HitArgs(Style, s, e.argCount, t) \in Seq(Nat \cup {t})
    <3> DEFINE n == e.argCount
    <3>1. n \in Nat
      BY <1>5
    <3> HIDE DEF n
    <3>2. HitArgs(Style, s, n, t) \in Seq(Nat \cup {t})
      BY <1>4, <3>1, HitArgsType
    <3> QED
      BY <3>2 DEF n
  <2>2. Nat \cup {t} \subseteq Values
    BY DEF Values
  <2>3. Seq(Nat \cup {t}) \subseteq Seq(Values)
    BY <2>2, SeqMonotonic
  <2> QED
    BY <2>1, <2>3
<1>7. ASSUME Faithful
      PROVE  /\ Cacheable(s) /\ e.marks = RewriteMarks(Style, s)
             /\ HitArgs(Style, s, e.argCount, t) = FinalArgs(s, t)
  <2>1. q = s
    BY <1>2, <1>7 DEF Faithful, HashInjective
  <2>2. Cacheable(s) /\ e.marks = RewriteMarks(Style, s) /\ e.argCount = TenantArgCount(s)
    BY <1>2, <1>3, <2>1
  <2>3. CASE s.op = "INSERT"
    <3>1. Style = "question" \/ s.hasTenant
      BY <1>4, <1>7, <2>2, <2>3 DEF Faithful, HitsLikeMisses, Cacheable, Styles
    <3>2. InsertArgs(s, t) = HitArgs(Style, s, TenantArgCount(s), t)
      BY <1>4, <2>3, <3>1, InsertArgsType
    <3> QED
      BY <2>2, <2>3, <3>2 DEF FinalArgs
  <2>4. CASE s.op # "INSERT"
    BY <2>2, <2>4 DEF FinalArgs
  <2> QED
    BY <2>2, <2>3, <2>4
<1> QED
  BY <1>5, <1>6, <1>7

(* The lookup in the cache, with or without a hit.                         *)
LEMMA CacheLookupKeeps ==
  ASSUME DBInv, NEW g \in Goroutines, CacheLookup(g)
  PROVE  DBInv'
<1> DEFINE s == call[g].stmt
           t == GetTenant(call[g].ctx)
           e == entries[HashQuery(s)].result
           v == IF Found(s) THEN HitArgs(Style, s, e.argCount, t) ELSE <<>>
           k == IF Found(s) THEN e.marks ELSE <<>>
           f == IF Found(s) THEN "hit" ELSE "miss"
<1>1. TypeOK /\ CacheTypeOK /\ GoroutineInv(g) /\ CacheInv /\ pc[g] = "lookup"
  BY DEF DBInv, TypeOK, CacheLookup
<1>2. call[g] # NoCall /\ Filtered(g) /\ held[g] = NoArray /\ todo[g] = <<>>
  BY <1>1 DEF GoroutineInv
<1>3. s \in Queries /\ IsStatement(Style, s) /\ Style \in Styles /\ t \in Tenants \cup {NoTenant}
  BY <1>1, <1>2, CallFacts
<1>4. /\ pending' = [pending EXCEPT ![g] = f] /\ UNCHANGED <<entries, hits, misses>>
      /\ marks' = [marks EXCEPT ![g] = k]
      /\ args' = [args EXCEPT ![g] = OwnSlice(v)]
      /\ pc' = [pc EXCEPT ![g] = "count"]
      /\ UNCHANGED <<pool, mem, call, held, todo, last>>
  BY DEF CacheLookup, GetLookup
<1>5. <<>> \in Seq(Nat) /\ <<>> \in Seq(Values)
  BY EmptySeq
<1>6. k \in Seq(Nat) /\ v \in Seq(Values)
  BY <1>1, <1>3, <1>5, HitFacts
<1>7. (f = "hit" /\ Faithful) => Cacheable(s) /\ k = RewriteMarks(Style, s) /\ v = FinalArgs(s, t)
  BY <1>1, <1>3, HitFacts
<1>8. f \in {"hit", "miss"}
  OBVIOUS
<1> HIDE DEF k, v, f
<1>9. OwnSlice(v) \in Slices /\ OwnSlice(v).arr = NoArray /\ OwnSlice(v).len = Len(OwnSlice(v).vals)
  BY <1>6, OwnSliceType
<1>10. TypeOK'
  <2>1. CacheTypeOK'
    BY <1>1, <1>4, <1>8 DEF CacheTypeOK
  <2> QED
    BY <1>1, <1>4, <1>6, <1>9, <2>1 DEF TypeOK
<1>11. /\ pc'[g] = "count" /\ call'[g] = call[g] /\ marks'[g] = k /\ args'[g] = OwnSlice(v)
       /\ held'[g] = NoArray /\ todo'[g] = <<>> /\ pending'[g] = f
  BY <1>1, <1>2, <1>4 DEF TypeOK, CacheTypeOK
<1>12. (f = "hit" /\ Faithful) => Prepared(g)'
  <2> SUFFICES ASSUME f = "hit", Faithful PROVE Prepared(g)'
    OBVIOUS
  <2>1. SliceValues(mem', OwnSlice(v)) \o Joined(<<>>) = v /\ OwnSlice(v).len + Len(Joined(<<>>)) = Len(v)
    BY <1>6, OwnValues
  <2>2. Len(v) = NumArgs(s) + TenantArgCount(s)
    BY <1>3, <1>7, FinalArgsType
  <2> QED
    BY <1>7, <1>11, <2>1, <2>2 DEF Prepared
<1>13. GoroutineInv(g)'
  <2>1. Filtered(g)'
    BY <1>2, <1>11 DEF Filtered
  <2> QED
    BY <1>2, <1>7, <1>9, <1>11, <1>12, <2>1 DEF GoroutineInv
<1>14. \A h \in Goroutines \ {g} : Untouched(h)
  BY <1>1, <1>4 DEF TypeOK, CacheTypeOK, Untouched
<1> QED
  BY <1>1, <1>4, <1>10, <1>13, <1>14, CacheInvKept, StepOfOne

(* The cache counts the hit or the miss.                                   *)
LEMMA CacheCountKeeps ==
  ASSUME DBInv, NEW g \in Goroutines, CacheCount(g)
  PROVE  DBInv'
<1> DEFINE p == IF pending[g] = "hit" THEN "exec" ELSE "rewrite"
<1>1. TypeOK /\ CacheTypeOK /\ GoroutineInv(g) /\ CacheInv /\ pc[g] = "count"
  BY DEF DBInv, TypeOK, CacheCount
<1>2. /\ pc' = [pc EXCEPT ![g] = p]
      /\ pending' = [pending EXCEPT ![g] = "none"]
      /\ UNCHANGED <<pool, mem, call, marks, args, held, todo, last, entries>>
  BY DEF CacheCount, GetCount
<1>3. CacheTypeOK'
  <2>1. hits' \in {hits, IncUint64(hits)} /\ misses' \in {misses, IncUint64(misses)}
    BY DEF CacheCount, GetCount
  <2>2. hits \in 0..(CounterMod - 1) /\ misses \in 0..(CounterMod - 1)
    BY <1>1 DEF CacheTypeOK
  <2>3. hits' \in 0..(CounterMod - 1) /\ misses' \in 0..(CounterMod - 1)
    BY <2>1, <2>2, CounterType
  <2> QED
    BY <1>1, <1>2, <2>3 DEF CacheTypeOK
<1>4. TypeOK'
  BY <1>1, <1>2, <1>3 DEF TypeOK
<1>5. /\ pc'[g] = p /\ call'[g] = call[g] /\ marks'[g] = marks[g] /\ args'[g] = args[g]
      /\ held'[g] = held[g] /\ todo'[g] = todo[g] /\ pending'[g] = "none" /\ mem' = mem
  BY <1>1, <1>2 DEF TypeOK, CacheTypeOK
<1>6. Filtered(g) /\ Filtered(g)'
  BY <1>1, <1>5 DEF Filtered, GoroutineInv
<1>7. Prepared(g) => Prepared(g)'
  BY <1>1, <1>5 DEF Prepared
<1>8. GoroutineInv(g)'
  BY <1>1, <1>5, <1>6, <1>7 DEF GoroutineInv
<1>9. \A h \in Goroutines \ {g} : Untouched(h)
  BY <1>1, <1>2 DEF TypeOK, CacheTypeOK, Untouched
<1> QED
  BY <1>1, <1>2, <1>4, <1>8, <1>9, CacheInvKept, StepOfOne

(* A rewriter that returns a new slice.                                    *)
LEMMA OwnRewriteKeeps ==
  ASSUME DBInv, NEW g \in Goroutines, pc[g] = "rewrite",
         NEW STATE k, k \in Seq(Nat), NEW STATE v, v \in Seq(Values),
         NEW STATE p, p \in {"put", "exec"}, p = "exec" => call[g].stmt.op = "OTHER",
         p = "put" => /\ Cacheable(call[g].stmt) /\ k = RewriteMarks(Style, call[g].stmt)
                      /\ v = FinalArgs(call[g].stmt, GetTenant(call[g].ctx)),
         pc' = [pc EXCEPT ![g] = p], marks' = [marks EXCEPT ![g] = k],
         args' = [args EXCEPT ![g] = OwnSlice(v)],
         UNCHANGED <<entries, hits, misses, pending, pool, mem, call, held, todo, last>>
  PROVE  DBInv'
<1>1. TypeOK /\ GoroutineInv(g) /\ CacheInv
  BY DEF DBInv
<1>2. call[g] # NoCall /\ Filtered(g) /\ held[g] = NoArray /\ todo[g] = <<>>
  BY <1>1 DEF GoroutineInv
<1>3. OwnSlice(v) \in Slices /\ OwnSlice(v).arr = NoArray /\ OwnSlice(v).len = Len(OwnSlice(v).vals)
  BY OwnSliceType
<1>4. TypeOK'
  <2>1. CacheTypeOK'
    BY <1>1, CacheTypeKept DEF TypeOK
  <2> QED
    BY <1>1, <1>3, <2>1 DEF TypeOK
<1>5. /\ pc'[g] = p /\ call'[g] = call[g] /\ marks'[g] = k /\ args'[g] = OwnSlice(v)
      /\ held'[g] = NoArray /\ todo'[g] = <<>>
  BY <1>1, <1>2 DEF TypeOK
<1>6. p = "put" => Prepared(g)'
  <2> SUFFICES ASSUME p = "put" PROVE Prepared(g)'
    OBVIOUS
  <2>1. SliceValues(mem', OwnSlice(v)) \o Joined(<<>>) = v /\ OwnSlice(v).len + Len(Joined(<<>>)) = Len(v)
    BY OwnValues
  <2>2. Len(v) = NumArgs(call[g].stmt) + TenantArgCount(call[g].stmt)
    BY <1>1, <1>2, CallFacts, FinalArgsType
  <2> QED
    BY <1>5, <2>1, <2>2 DEF Prepared
<1>7. GoroutineInv(g)'
  <2>1. Filtered(g)'
    BY <1>2, <1>5 DEF Filtered
  <2> QED
    BY <1>2, <1>3, <1>5, <1>6, <2>1 DEF GoroutineInv
<1>8. \A h \in Goroutines \ {g} : Untouched(h)
  BY <1>1 DEF TypeOK, Untouched
<1> QED
  BY <1>1, <1>4, <1>7, <1>8, CacheInvKept, StepOfOne

(* A statement that the rewriters leave as it is.                          *)
LEMMA RewriteUnchangedKeeps ==
  ASSUME DBInv, NEW g \in Goroutines, RewriteUnchanged(g)
  PROVE  DBInv'
<1> DEFINE s == call[g].stmt
           t == GetTenant(call[g].ctx)
           p == IF s.op = "OTHER" THEN "exec" ELSE "put"
<1>1. /\ pc[g] = "rewrite" /\ pc' = [pc EXCEPT ![g] = p]
      /\ marks' = [marks EXCEPT ![g] = UserMarkers(s)]
      /\ args' = [args EXCEPT ![g] = OwnSlice(CallArgs(s))]
      /\ UNCHANGED <<entries, hits, misses, pending, pool, mem, call, held, todo, last>>
  BY DEF RewriteUnchanged
<1>2. \/ s.op \in {"OTHER", "SELECT"} /\ TenantArgCount(s) = 0
      \/ s.op = "INSERT" /\ s.columns /\ s.hasTenant
  BY DEF RewriteUnchanged
<1>3. TypeOK /\ call[g] # NoCall
  BY <1>1 DEF DBInv, GoroutineInv
<1>4. IsStatement(Style, s) /\ Style \in Styles
  BY <1>3, CallFacts
<1>5. TenantArgCount(s) = 0
  BY <1>2 DEF TenantArgCount
<1>6. UserMarkers(s) = RewriteMarks(Style, s) /\ CallArgs(s) = FinalArgs(s, t)
  BY <1>2, <1>4, <1>5, NothingAdded DEF FinalArgs
<1>7. UserMarkers(s) \in Seq(Nat) /\ CallArgs(s) \in Seq(Values)
  <2>1. UserMarkers(s) \in Seq(Nat) /\ CallArgs(s) \in Seq(Nat)
    BY <1>4, MarkersType, ArgsType
  <2>2. Nat \subseteq Values
    BY DEF Values
  <2> QED
    BY <2>1, <2>2, SeqMonotonic
<1>8. p \in {"put", "exec"} /\ (p = "exec" => s.op = "OTHER") /\ (p = "put" => Cacheable(s))
  BY <1>2 DEF Cacheable
<1> HIDE DEF p
<1> QED
  BY <1>1, <1>6, <1>7, <1>8, OwnRewriteKeeps

(* The rewriting of an INSERT.                                             *)
LEMMA RewriteInsertKeeps ==
  ASSUME DBInv, NEW g \in Goroutines, RewriteInsert(g)
  PROVE  DBInv'
<1> DEFINE s == call[g].stmt
           t == GetTenant(call[g].ctx)
<1>1. /\ pc[g] = "rewrite" /\ s.op = "INSERT" /\ s.columns
      /\ pc' = [pc EXCEPT ![g] = "put"]
      /\ marks' = [marks EXCEPT ![g] = RewriteMarks(Style, s)]
      /\ args' = [args EXCEPT ![g] = OwnSlice(InsertArgs(s, t))]
      /\ UNCHANGED <<entries, hits, misses, pending, pool, mem, call, held, todo, last>>
  BY DEF RewriteInsert
<1>2. TypeOK /\ call[g] # NoCall
  BY <1>1 DEF DBInv, GoroutineInv
<1>3. IsStatement(Style, s) /\ Style \in Styles /\ t \in Tenants \cup {NoTenant}
  BY <1>2, CallFacts
<1>4. InsertArgs(s, t) = FinalArgs(s, t)
  BY <1>1 DEF FinalArgs
<1>5. FinalArgs(s, t) \in Seq(Values) /\ RewriteMarks(Style, s) \in Seq(Nat)
  BY <1>3, FinalArgsType, RewriteMarksType
<1>6. Cacheable(s)
  BY <1>1 DEF Cacheable
<1> QED
  BY <1>1, <1>4, <1>5, <1>6, OwnRewriteKeeps

(* The end of a call.                                                      *)
LEMMA EndOfCallKeeps ==
  ASSUME DBInv, NEW g \in Goroutines, pc[g] \in {"rewrite", "exec"}, pc' = [pc EXCEPT ![g] = "idle"],
         call' = [call EXCEPT ![g] = NoCall], DOMAIN last' = DOMAIN last,
         marks' \in {marks, [marks EXCEPT ![g] = <<>>]}, args' \in {args, [args EXCEPT ![g] = OwnSlice(<<>>)]},
         UNCHANGED <<entries, hits, misses, pending, pool, mem, held, todo>>
  PROVE  DBInv'
<1>1. TypeOK /\ GoroutineInv(g) /\ CacheInv
  BY DEF DBInv
<1>2. held[g] = NoArray /\ todo[g] = <<>> /\ (args[g].arr = NoArray => args[g].len = Len(args[g].vals))
  BY <1>1 DEF GoroutineInv
<1>3. /\ OwnSlice(<<>>) \in Slices /\ OwnSlice(<<>>).arr = NoArray /\ <<>> \in Seq(Nat)
      /\ OwnSlice(<<>>).len = Len(OwnSlice(<<>>).vals)
  <2>1. <<>> \in Seq(Values) /\ <<>> \in Seq(Nat)
    BY EmptySeq
  <2> QED
    BY <2>1, OwnSliceType
<1>4. TypeOK'
  <2>1. CacheTypeOK'
    BY <1>1, CacheTypeKept DEF TypeOK
  <2> QED
    BY <1>1, <1>3, <2>1 DEF TypeOK
<1>5. /\ pc'[g] = "idle" /\ call'[g] = NoCall /\ held'[g] = NoArray /\ todo'[g] = <<>>
      /\ args'[g].arr = NoArray => args'[g].len = Len(args'[g].vals)
  BY <1>1, <1>2, <1>3 DEF TypeOK
<1>6. GoroutineInv(g)'
  BY <1>5 DEF GoroutineInv
<1>7. \A h \in Goroutines \ {g} : Untouched(h)
  BY <1>1 DEF TypeOK, Untouched
<1> QED
  BY <1>1, <1>4, <1>6, <1>7, CacheInvKept, StepOfOne

(* The array that a rewriter takes is cleared only if nobody uses it.      *)
LEMMA TakeSliceKeeps ==
  ASSUME DBInv, PoolInv, NEW g \in Goroutines, NEW a \in Arrays, TakeSlice(g, a)
  PROVE  DBInv'
<1> DEFINE s == call[g].stmt
           t == GetTenant(call[g].ctx)
           w == MissSegments(Style, s, t)
           k == RewriteMarks(Style, s)
<1>1. /\ pc[g] = "rewrite" /\ s.op \in {"SELECT", "UPDATE", "DELETE"}
      /\ mem' = mem \/ (~InUse(a) /\ mem' = [mem EXCEPT ![a] = ZeroArray])
      /\ pool' = pool \ {a}
      /\ held' = [held EXCEPT ![g] = a]
      /\ args' = [args EXCEPT ![g] = PooledSlice(a, 0)]
      /\ marks' = [marks EXCEPT ![g] = k]
      /\ todo' = [todo EXCEPT ![g] = w]
      /\ pc' = [pc EXCEPT ![g] = "append"]
      /\ UNCHANGED <<entries, hits, misses, pending, call, last>>
  BY DEF TakeSlice, GetArgsSlice
<1>2. TypeOK /\ GoroutineInv(g) /\ CacheInv
  BY DEF DBInv
<1>3. call[g] # NoCall /\ Filtered(g)
  BY <1>1, <1>2 DEF GoroutineInv
<1>4. IsStatement(Style, s) /\ Style \in Styles /\ t \in Tenants
  BY <1>2, <1>3, CallFacts DEF Filtered
<1>5. /\ w \in Seq(Seq(Nat \cup {t})) /\ Len(w) <= 3
      /\ Joined(w) = HitArgs(Style, s, TenantArgCount(s), t)
  BY <1>4, SegmentsJoin
<1>6. w \in Seq(Seq(Nat \cup Tenants))
  <2>1. Nat \cup {t} \subseteq Nat \cup Tenants
    BY <1>4
  <2>2. Seq(Nat \cup {t}) \subseteq Seq(Nat \cup Tenants)
    BY <2>1, SeqMonotonic
  <2>3. Seq(Seq(Nat \cup {t})) \subseteq Seq(Seq(Nat \cup Tenants))
    <3> DEFINE A == Seq(Nat \cup {t})
               B == Seq(Nat \cup Tenants)
    <3>1. A \subseteq B
      BY <2>2
    <3> HIDE DEF A, B
    <3>2. Seq(A) \subseteq Seq(B)
      BY <3>1, SeqMonotonic
    <3> QED
      BY <3>2 DEF A, B
  <2> QED
    BY <1>5, <2>3
<1>7. k \in Seq(Nat)
  BY <1>4, RewriteMarksType
<1>8. FinalArgs(s, t) = Joined(w)
  BY <1>1, <1>5 DEF FinalArgs
<1>9. Joined(w) \in Seq(Values) /\ Len(Joined(w)) = NumArgs(s) + TenantArgCount(s)
  BY <1>4, <1>8, FinalArgsType
<1> HIDE DEF w, k
<1>10. PooledSlice(a, 0) \in Slices /\ PooledSlice(a, 0).arr = a /\ PooledSlice(a, 0).len = 0
  BY PooledSliceType
<1>11. mem' \in [Arrays -> [1..SliceCap -> Nat \cup Tenants \cup {NoTenant}]]
  <2>1. ZeroArray \in [1..SliceCap -> Nat \cup Tenants \cup {NoTenant}]
    BY DEF ZeroArray
  <2> QED
    BY <1>1, <1>2, <2>1 DEF TypeOK
<1>12. TypeOK'
  <2>1. CacheTypeOK'
    BY <1>1, <1>2, CacheTypeKept DEF TypeOK
  <2>2. 0 <= SliceCap
    BY SliceCapAssumption
  <2> QED
    BY <1>1, <1>2, <1>6, <1>7, <1>10, <1>11, <2>1, <2>2 DEF TypeOK
<1>13. /\ pc'[g] = "append" /\ call'[g] = call[g] /\ marks'[g] = k /\ args'[g] = PooledSlice(a, 0)
       /\ held'[g] = a /\ todo'[g] = w
  BY <1>1, <1>2 DEF TypeOK
<1>14. Prepared(g)'
  <2>1. SliceValues(mem', PooledSlice(a, 0)) = <<>>
    <3>1. a # NoArray
      BY NoArrayAssumption
    <3>2. SliceValues(mem', PooledSlice(a, 0)) = [i \in 1..0 |-> mem'[a][i]]
      BY <1>10, <3>1 DEF SliceValues
    <3> QED
      BY <3>2
  <2>2. <<>> \o Joined(w) = Joined(w)
    BY <1>9, ConcatEmptySeq
  <2>3. 0 + Len(Joined(w)) = Len(Joined(w))
    BY <1>9, LenProperties
  <2> QED
    BY <1>8, <1>9, <1>10, <1>13, <2>1, <2>2, <2>3 DEF Prepared, k
<1>15. GoroutineInv(g)'
  <2>1. Filtered(g)'
    BY <1>3, <1>13 DEF Filtered
  <2> QED
    BY <1>1, <1>3, <1>5, <1>10, <1>13, <1>14, <2>1, NoArrayAssumption DEF GoroutineInv, w
<1>16. ASSUME NEW h \in Goroutines \ {g} PROVE Untouched(h)
  <2>1. args[h].arr # NoArray => mem'[args[h].arr] = mem[args[h].arr]
    BY <1>1, <1>2 DEF TypeOK, Slices, InUse
  <2> QED
    BY <1>1, <1>2, <2>1 DEF TypeOK, Untouched
<1> QED
  BY <1>1, <1>2, <1>12, <1>15, <1>16, CacheInvKept, StepOfOne

(* A rewriter appends to its own array, and nobody else holds it.          *)
LEMMA AppendSegmentKeeps ==
  ASSUME DBInv, PoolInv, NEW g \in Goroutines, AppendSegment(g)
  PROVE  DBInv'
<1> DEFINE s == call[g].stmt
           t == GetTenant(call[g].ctx)
           w == todo[g]
           sl == args[g]
           u == Tail(w)
           seg == Head(w)
           sl2 == AppendSlice(mem, sl, seg)
<1>1. /\ pc[g] = "append" /\ w # <<>>
      /\ mem' = AppendMem(mem, sl, seg)
      /\ args' = [args EXCEPT ![g] = sl2]
      /\ todo' = [todo EXCEPT ![g] = u]
      /\ UNCHANGED <<entries, hits, misses, pending, pool, pc, call, marks, held, last>>
  BY DEF AppendSegment
<1>2. TypeOK /\ GoroutineInv(g) /\ CacheInv
  BY DEF DBInv
<1>3. /\ call[g] # NoCall /\ Filtered(g) /\ sl.arr \in {NoArray, held[g]} /\ Len(w) <= 3 /\ Prepared(g)
      /\ s.op \in {"SELECT", "UPDATE", "DELETE"} /\ (sl.arr = NoArray => sl.len = Len(sl.vals))
  BY <1>1, <1>2 DEF GoroutineInv
<1>4. /\ w \in Seq(Seq(Nat \cup Tenants)) /\ sl \in Slices /\ (sl.arr # NoArray => sl.len <= SliceCap)
      /\ mem \in [Arrays -> [1..SliceCap -> Values]] /\ held[g] \in Arrays \cup {NoArray}
  BY <1>2 DEF TypeOK, Values
<1>5. /\ seg \in Seq(Nat \cup Tenants) /\ u \in Seq(Seq(Nat \cup Tenants)) /\ Len(u) <= 3
      /\ Joined(u) \in Seq(Nat \cup Tenants) /\ Joined(w) = seg \o Joined(u)
  <2>1. w \in Seq(Seq(Nat \cup Tenants)) /\ w # <<>> /\ Len(w) <= 3
    BY <1>1, <1>3, <1>4
  <2> HIDE DEF w
  <2> QED
    BY <2>1, JoinedStep
<1>6. /\ mem' \in [Arrays -> [1..SliceCap -> Values]]
      /\ sl2 \in Slices
      /\ sl2.arr \in {NoArray, sl.arr}
      /\ sl2.arr = NoArray => sl2.len = Len(sl2.vals)
      /\ sl2.arr # NoArray => sl2.len <= SliceCap
      /\ sl2.len = sl.len + Len(seg)
      /\ SliceValues(mem, sl) \in Seq(Values) /\ Len(SliceValues(mem, sl)) = sl.len
      /\ SliceValues(mem', sl2) = SliceValues(mem, sl) \o seg
      /\ \A b \in Arrays : b # sl.arr => mem'[b] = mem[b]
  <2>1. /\ mem \in [Arrays -> [1..SliceCap -> Values]] /\ sl \in Slices
        /\ sl.arr = NoArray => sl.len = Len(sl.vals)
        /\ sl.arr # NoArray => sl.len <= SliceCap
        /\ seg \in Seq(Nat \cup Tenants) /\ sl2 = AppendSlice(mem, sl, seg) /\ mem' = AppendMem(mem, sl, seg)
    BY <1>1, <1>3, <1>4, <1>5
  <2> HIDE DEF sl, seg, sl2
  <2> QED
    BY <2>1, AppendFacts
<1>7. /\ call'[g] = call[g] /\ marks'[g] = marks[g] /\ args'[g] = sl2 /\ todo'[g] = u
      /\ pc'[g] = "append" /\ held'[g] = held[g]
  BY <1>1, <1>2 DEF TypeOK
<1>8. TypeOK'
  <2>1. CacheTypeOK'
    BY <1>1, <1>2, CacheTypeKept DEF TypeOK
  <2> HIDE DEF sl2, u
  <2> QED
    BY <1>1, <1>2, <1>5, <1>6, <2>1 DEF TypeOK, Values
<1>9. Prepared(g)'
  <2> DEFINE v == SliceValues(mem, sl)
             n == sl.len
             j == Joined(u)
             v2 == SliceValues(mem', sl2)
  <2>1. /\ marks[g] = RewriteMarks(Style, s)
        /\ n + Len(Joined(w)) = NumArgs(s) + TenantArgCount(s)
        /\ v \o Joined(w) = FinalArgs(s, t)
    BY <1>1, <1>3 DEF Prepared
  <2>2. seg \in Seq(Values) /\ j \in Seq(Values) /\ v \in Seq(Values) /\ n \in Nat
    <3>1. Nat \cup Tenants \subseteq Values
      BY DEF Values
    <3>2. Seq(Nat \cup Tenants) \subseteq Seq(Values)
      BY <3>1, SeqMonotonic
    <3> QED
      BY <1>4, <1>5, <1>6, <3>2 DEF Slices
  <2>3. v2 = v \o seg /\ sl2.len = n + Len(seg) /\ Joined(w) = seg \o j
    BY <1>5, <1>6
  <2> HIDE DEF v, n, j, v2, seg, sl2, w, u
  <2>4. Len(seg \o j) = Len(seg) + Len(j) /\ Len(seg) \in Nat /\ Len(j) \in Nat
    BY <2>2, ConcatTwo
  <2>5. v2 \o j = FinalArgs(s, t)
    <3>1. (v \o seg) \o j = v \o (seg \o j)
      BY <2>2, ConcatAssociative
    <3> QED
      BY <2>1, <2>3, <3>1
  <2>6. sl2.len + Len(j) = n + Len(Joined(w))
    BY <2>2, <2>3, <2>4
  <2> QED
    BY <1>7, <2>1, <2>5, <2>6 DEF Prepared, v2, j
<1>10. GoroutineInv(g)'
  <2>1. Filtered(g)'
    BY <1>3, <1>7 DEF Filtered
  <2>2. sl2.arr \in {NoArray, held[g]}
    BY <1>3, <1>6
  <2> HIDE DEF sl2, u
  <2> QED
    BY <1>3, <1>5, <1>6, <1>7, <1>9, <2>1, <2>2 DEF GoroutineInv
<1>11. ASSUME NEW h \in Goroutines \ {g} PROVE Untouched(h)
  <2>1. (args[h].arr # NoArray /\ pc[h] = "append") => args[h].arr # sl.arr
    <3>1. GoroutineInv(h) /\ held[g] # NoArray /\ held[h] # held[g]
      BY <1>1 DEF DBInv, PoolInv, AppendingHolds, HeldInv, HeldExclusively
    <3> QED
      BY <1>3, <3>1 DEF GoroutineInv
  <2>2. ~Alone
    BY DEF Alone
  <2>3. args[h].arr \in Arrays \cup {NoArray}
    BY <1>2 DEF TypeOK, Slices
  <2>4. (args[h].arr # NoArray /\ (pc[h] = "append" \/ Alone)) => mem'[args[h].arr] = mem[args[h].arr]
    BY <1>6, <2>1, <2>2, <2>3
  <2> HIDE DEF sl2, u
  <2> QED
    BY <1>1, <1>2, <2>4 DEF TypeOK, Untouched
<1> QED
  BY <1>1, <1>2, <1>8, <1>10, <1>11, CacheInvKept, StepOfOne

(* The slice goes back to the pool.                                        *)
LEMMA ReturnSliceKeeps ==
  ASSUME DBInv, PoolInv, NEW g \in Goroutines, ReturnSlice(g)
  PROVE  DBInv'
<1>1. /\ pc[g] = "append" /\ todo[g] = <<>>
      /\ pool' = pool \cup {held[g]}
      /\ held' = [held EXCEPT ![g] = NoArray]
      /\ pc' = [pc EXCEPT ![g] = "put"]
      /\ UNCHANGED <<entries, hits, misses, pending, mem, call, marks, args, todo, last>>
  BY DEF ReturnSlice
<1>2. TypeOK /\ GoroutineInv(g) /\ CacheInv
  BY DEF DBInv
<1>3. held[g] # NoArray /\ Filtered(g) /\ Prepared(g) /\ call[g] # NoCall
  BY <1>1, <1>2 DEF GoroutineInv, PoolInv, AppendingHolds
<1>4. TypeOK'
  <2>1. CacheTypeOK'
    BY <1>1, <1>2, CacheTypeKept DEF TypeOK
  <2> QED
    BY <1>1, <1>2, <1>3, <2>1 DEF TypeOK
<1>5. /\ pc'[g] = "put" /\ held'[g] = NoArray /\ UNCHANGED <<call, marks, args, todo, mem>>
  BY <1>1, <1>2 DEF TypeOK
<1>6. Prepared(g)' /\ Filtered(g)'
  BY <1>1, <1>3, <1>5 DEF Prepared, Filtered
<1>7. Cacheable(call[g].stmt)
  BY <1>1, <1>2 DEF GoroutineInv, Cacheable
<1>8. GoroutineInv(g)'
  BY <1>1, <1>2, <1>3, <1>5, <1>6, <1>7 DEF GoroutineInv
<1>9. \A h \in Goroutines \ {g} : Untouched(h)
  BY <1>1, <1>2 DEF TypeOK, Untouched
<1> QED
  BY <1>1, <1>2, <1>4, <1>8, <1>9, CacheInvKept, StepOfOne

(* What is cached is the rewritten form of the statement: the arguments     *)
(* that were added are those of the tenant.                                *)
LEMMA CachePutKeeps ==
  ASSUME DBInv, NEW g \in Goroutines, CachePut(g)
  PROVE  /\ DBInv'
         /\ call[g].stmt \in Queries /\ Put(call[g].stmt, Transform(call[g].stmt))
<1> DEFINE s == call[g].stmt
           r == [marks |-> marks[g], argCount |-> AddedArgs(args[g], s)]
<1>1. /\ pc[g] = "put" /\ Put(s, r) /\ pc' = [pc EXCEPT ![g] = "exec"]
      /\ UNCHANGED <<pool, mem, call, marks, args, held, todo, last>>
  BY DEF CachePut
<1>2. TypeOK /\ CacheTypeOK /\ GoroutineInv(g) /\ CacheInv
  BY DEF DBInv, TypeOK
<1>3. Prepared(g) /\ Cacheable(s) /\ Filtered(g) /\ todo[g] = <<>> /\ held[g] = NoArray /\ call[g] # NoCall
  BY <1>1, <1>2 DEF GoroutineInv
<1>4. s \in Queries /\ IsStatement(Style, s)
  BY <1>2, <1>3, CallFacts
<1>5. r = CachedForm(s)
  <2> DEFINE n == args[g].len
             a == NumArgs(s)
             b == TenantArgCount(s)
  <2>1. n \in Nat /\ a \in Nat /\ b \in Nat
    BY <1>2, <1>4, ArgsType, CountType DEF TypeOK, Slices
  <2>2. Joined(<<>>) = <<>> /\ Len(<<>>) = 0
    BY DEF Joined
  <2>3. marks[g] = RewriteMarks(Style, s) /\ n + 0 = a + b
    BY <1>3, <2>2 DEF Prepared
  <2>4. AddedArgs(args[g], s) = n - a
    BY DEF AddedArgs
  <2> HIDE DEF n, a, b
  <2>5. n - a = b
    BY <2>1, <2>3
  <2> QED
    BY <2>3, <2>4, <2>5 DEF CachedForm, b
<1>6. Put(s, Transform(s))
  BY <1>1, <1>4, <1>5, TransformIsRewrite
<1>7. PICK kept \in Survivors :
         /\ DOMAIN entries' = kept \cup {HashQuery(s)}
         /\ entries' = [h \in kept \cup {HashQuery(s)} |->
                           IF h = HashQuery(s) THEN NewEntry(s, Transform(s)) ELSE entries[h]]
  BY <1>4, <1>6, PutDomain
<1>8. kept \subseteq DOMAIN entries
  BY DEF Survivors
<1>9. UNCHANGED <<hits, misses, pending>>
  BY <1>6 DEF Put
<1>10. /\ DOMAIN entries' \subseteq Hashes
       /\ \A h \in DOMAIN entries' : entries'[h] \in CacheEntry
  BY <1>2, <1>4, <1>7, <1>8, TransformAssumption DEF CacheTypeOK, CacheEntry, NewEntry, Hashes
<1>11. CacheInv'
  BY <1>2, <1>3, <1>7, <1>8 DEF CacheInv, CacheCoherent, NewEntry
<1>12. TypeOK'
  <2>1. CacheTypeOK'
    BY <1>2, <1>9, <1>10 DEF CacheTypeOK
  <2> QED
    BY <1>1, <1>2, <2>1 DEF TypeOK
<1>13. pc'[g] = "exec" /\ UNCHANGED <<call, marks, args, held, todo, mem>>
  BY <1>1, <1>2 DEF TypeOK
<1>14. Prepared(g)' /\ Filtered(g)'
  BY <1>1, <1>3, <1>13 DEF Prepared, Filtered
<1>15. GoroutineInv(g)'
  BY <1>2, <1>3, <1>13, <1>14 DEF GoroutineInv
<1>16. \A h \in Goroutines \ {g} : Untouched(h)
  BY <1>1, <1>2, <1>9 DEF TypeOK, Untouched
<1> QED
  BY <1>4, <1>6, <1>11, <1>12, <1>15, <1>16, StepOfOne

(* The steps of a goroutine inside a call, one by one.                      *)
LEMMA StepKeepsDBInv ==
  ASSUME DBInv, PoolInv, NEW g \in Goroutines, Step(g)
  PROVE  DBInv'
<1>1. CASE CacheLookup(g)
  BY <1>1, CacheLookupKeeps
<1>2. CASE CacheCount(g)
  BY <1>2, CacheCountKeeps
<1>3. CASE RewriteUnchanged(g)
  BY <1>3, RewriteUnchangedKeeps
<1>4. CASE RewriteInsert(g)
  BY <1>4, RewriteInsertKeeps
<1>5. CASE RejectInsert(g)
  BY <1>5, EndOfCallKeeps DEF RejectInsert
<1>6. CASE \E a \in Arrays : TakeSlice(g, a)
  BY <1>6, TakeSliceKeeps
<1>7. CASE AppendSegment(g)
  BY <1>7, AppendSegmentKeeps
<1>8. CASE ReturnSlice(g)
  BY <1>8, ReturnSliceKeeps
<1>9. CASE CachePut(g)
  BY <1>9, CachePutKeeps
<1>10. CASE Execute(g)
  BY <1>10, EndOfCallKeeps DEF Execute
<1> QED
  BY <1>1, <1>2, <1>3, <1>4, <1>5, <1>6, <1>7, <1>8, <1>9, <1>10 DEF Step

(* Steps that no goroutine's call takes part in.                           *)
LEMMA OutsideKeeps ==
  ASSUME DBInv, CacheTypeOK', CacheInv', pool' \subseteq pool, UNCHANGED pending,
         UNCHANGED <<mem, pc, call, marks, args, held, todo, last>>
  PROVE  DBInv'
<1>1. TypeOK'
  BY DEF DBInv, TypeOK
<1>2. \A h \in Goroutines : Untouched(h) /\ GoroutineInv(h)
  BY DEF DBInv, Untouched
<1> QED
  BY <1>1, <1>2, FrameKeeps DEF DBInv

(* The invariant holds from the start, for any number of goroutines.       *)
THEOREM DBInvAlways == Spec => [](DBInv /\ PoolInv)
<1>1. Init => DBInv
  <2> SUFFICES ASSUME Init PROVE DBInv
    OBVIOUS
  <2>1. <<>> \in Seq(Nat) /\ <<>> \in Seq(Values) /\ <<>> \in Seq(Seq(Nat \cup Tenants))
    BY EmptySeq
  <2>2. OwnSlice(<<>>) \in Slices /\ OwnSlice(<<>>).arr = NoArray /\ OwnSlice(<<>>).len = Len(OwnSlice(<<>>).vals)
    BY <2>1, OwnSliceType
  <2>3. CacheTypeOK /\ CacheInv
    BY CounterModAssumption DEF Init, CacheInit, CacheTypeOK, CacheInv, CacheCoherent
  <2>4. TypeOK
    BY <2>1, <2>2, <2>3 DEF Init, TypeOK, ZeroArray
  <2>5. \A g \in Goroutines : GoroutineInv(g)
    BY <2>2 DEF Init, GoroutineInv
  <2> QED
    BY <2>3, <2>4, <2>5 DEF DBInv
<1>2. Init => PoolInv
  BY DEF Init, PoolInv, HeldInv, HeldType, HeldExclusively, PcType, AppendingHolds
<1>3. DBInv /\ PoolInv /\ [Next]_vars => DBInv'
  <2> SUFFICES ASSUME DBInv, PoolInv, [Next]_vars PROVE DBInv'
    OBVIOUS
  <2>1. CASE \E g \in Goroutines, m \in Methods, s \in Queries, ctx \in CallContexts : Call(g, m, s, ctx)
    BY <2>1, CallKeeps
  <2>2. CASE \E g \in Goroutines : Step(g)
    BY <2>2, StepKeepsDBInv
  <2>3. CacheTypeOK /\ CacheInv
    BY DEF DBInv, TypeOK
  <2>4. CASE ClearQueryCache
    <3>1. CacheTypeOK' /\ CacheInv'
      BY <2>3, <2>4, CounterModAssumption DEF ClearQueryCache, Clear, CacheTypeOK, CacheInv, CacheCoherent
    <3> QED
      BY <2>4, <3>1, OutsideKeeps DEF ClearQueryCache, Clear
  <2>5. CASE \E a \in Arrays : PoolDrop(a)
    <3>1. CacheTypeOK' /\ CacheInv'
      BY <2>3, <2>5, CacheTypeKept, CacheInvKept DEF PoolDrop
    <3> QED
      BY <2>5, <3>1, OutsideKeeps DEF PoolDrop
  <2>6. CASE UNCHANGED vars
    <3>1. CacheTypeOK' /\ CacheInv'
      BY <2>3, <2>6, CacheTypeKept, CacheInvKept DEF vars
    <3> QED
      BY <2>6, <3>1, OutsideKeeps DEF vars
  <2> QED
    BY <2>1, <2>2, <2>4, <2>5, <2>6 DEF Next
<1>4. PoolInv /\ [Next]_vars => PoolInv'
  BY NextKeepsPoolInv
<1> QED
  BY <1>1, <1>2, <1>3, <1>4, PTL DEF Spec

(* The type invariant.                                                     *)
THEOREM TypeAlways == Spec => []TypeOK
<1>1. DBInv /\ PoolInv => TypeOK
  BY DEF DBInv
<1> QED
  BY <1>1, DBInvAlways, PTL

(* A goroutine about to execute, with the arguments of its text in its      *)
(* slice, binds what it should.                                            *)
LEMMA ReadyBinds ==
  ASSUME Faithful, DBInv, NEW g \in Goroutines, pc[g] = "exec", Covered(Style, call[g].stmt),
         args[g].arr = NoArray \/ Alone
  PROVE  Bind(Style, marks[g], SliceValues(mem, args[g])) = ExpectedBinding(call[g].stmt, call[g].ctx)
<1> DEFINE s == call[g].stmt
           t == GetTenant(call[g].ctx)
           v == SliceValues(mem, args[g])
<1>1. TypeOK /\ GoroutineInv(g)
  BY DEF DBInv
<1>2. call[g] # NoCall /\ todo[g] = <<>>
  BY <1>1 DEF GoroutineInv
<1>3. IsStatement(Style, s) /\ Style \in Styles /\ s \in Queries /\ t \in Tenants \cup {NoTenant}
  BY <1>1, <1>2, CallFacts
<1>4. Style \in {"question", "dollar"}
  BY <1>3 DEF Faithful, Styles
<1>5. CASE ~Filtered(g)
  <2>1. args[g] = OwnSlice(CallArgs(s)) /\ marks[g] = UserMarkers(s)
    BY <1>1, <1>5 DEF GoroutineInv
  <2>2. v = CallArgs(s)
    BY <2>1 DEF SliceValues, OwnSlice
  <2>3. ExpectedBinding(s, call[g].ctx) = UserMarkers(s)
    BY <1>5 DEF Filtered, ExpectedBinding
  <2> QED
    BY <1>3, <2>1, <2>2, <2>3, UnfilteredBinds
<1>6. CASE Filtered(g)
  <2>1. s.op # "OTHER"
    BY DEF Covered
  <2>2. Prepared(g) /\ Cacheable(s)
    BY <1>1, <1>6, <2>1 DEF GoroutineInv
  <2>3. marks[g] = RewriteMarks(Style, s) /\ v \o Joined(<<>>) = FinalArgs(s, t)
    BY <1>2, <2>2 DEF Prepared
  <2>4. v = FinalArgs(s, t)
    <3>1. v \in Seq(Values)
      <4>1. args[g] \in Slices /\ mem \in [Arrays -> [1..SliceCap -> Values]]
        BY <1>1 DEF TypeOK, Values
      <4>2. args[g].arr = NoArray => args[g].len = Len(args[g].vals)
        BY <1>1 DEF GoroutineInv
      <4>3. args[g].arr # NoArray => args[g].len <= SliceCap
        BY <1>1 DEF TypeOK
      <4>4. <<>> \in Seq(Nat \cup Tenants)
        BY EmptySeq
      <4> QED
        BY <4>1, <4>2, <4>3, <4>4, AppendFacts
    <3>2. Joined(<<>>) = <<>>
      BY DEF Joined
    <3> HIDE DEF v
    <3> QED
      BY <2>3, <3>1, <3>2, ConcatEmptySeq
  <2>5. ExpectedBinding(s, call[g].ctx) = ScopedBinding(s, t)
    BY <1>6 DEF Filtered, ExpectedBinding
  <2>6. CASE s.op = "INSERT"
    <3>1. Bind(Style, RewriteMarks(Style, s), InsertArgs(s, t)) = ScopedBinding(s, t)
      BY <1>3, <1>4, <2>6, RewriteBindsScoped
    <3> QED
      BY <2>3, <2>4, <2>5, <2>6, <3>1 DEF FinalArgs
  <2>7. CASE s.op # "INSERT"
    <3>1. HitsAsMissed(Style, s)
      BY <2>7 DEF HitsAsMissed
    <3>2. Bind(Style, RewriteMarks(Style, s), HitArgs(Style, s, TenantArgCount(s), t)) = ScopedBinding(s, t)
      BY <1>3, <1>4, <3>1, RewriteBindsScoped
    <3> QED
      BY <2>3, <2>4, <2>5, <2>7, <3>2 DEF FinalArgs
  <2> QED
    BY <2>6, <2>7
<1> QED
  BY <1>5, <1>6

(* OwnSliceScoped, for any number of goroutines: what a call executes with *)
(* a slice of its own binds the tenant of its own context.                 *)
THEOREM OwnSliceScopedAlways == Faithful => (Spec => []OwnSliceScoped)
<1>1. Faithful /\ DBInv => OwnSliceScoped
  <2> SUFFICES ASSUME Faithful, DBInv, NEW g \in Goroutines,
                      pc[g] = "exec", args[g].arr = NoArray, Covered(Style, call[g].stmt)
               PROVE  Bind(Style, marks[g], args[g].vals) = ExpectedBinding(call[g].stmt, call[g].ctx)
    BY DEF OwnSliceScoped
  <2>1. SliceValues(mem, args[g]) = args[g].vals
    BY DEF SliceValues
  <2> QED
    BY <2>1, ReadyBinds
<1>2. Faithful => (Spec => []OwnSliceScoped)
  <2> SUFFICES ASSUME Faithful PROVE Spec => []OwnSliceScoped
    OBVIOUS
  <2>1. DBInv /\ PoolInv => OwnSliceScoped
    BY <1>1
  <2> QED
    BY <2>1, DBInvAlways, PTL
<1> QED
  BY <1>2

(* ScopedToTenant, for a handle that one goroutine uses.                   *)
THEOREM ScopedToTenantAlways == (Faithful /\ Alone) => (Spec => []ScopedToTenant)
<1> SUFFICES ASSUME Faithful, Alone PROVE Spec => []ScopedToTenant
  OBVIOUS
<1>1. Init => ScopedToTenant
  BY DEF Init, ScopedToTenant, NoResult
<1>2. DBInv /\ ScopedToTenant /\ [Next]_vars => ScopedToTenant'
  <2> SUFFICES ASSUME DBInv, ScopedToTenant, [Next]_vars PROVE ScopedToTenant'
    OBVIOUS
  <2>1. DOMAIN last = Goroutines
    BY DEF DBInv, TypeOK
  <2>2. CASE UNCHANGED last
    BY <2>2 DEF ScopedToTenant
  <2>3. ASSUME NEW g \in Goroutines, NEW r, last' = [last EXCEPT ![g] = r],
               (r.outcome = "executed" /\ Covered(Style, r.stmt)) => r.bound = ExpectedBinding(r.stmt, r.ctx)
        PROVE  ScopedToTenant'
    BY <2>1, <2>3 DEF ScopedToTenant
  <2>4. ASSUME NEW g \in Goroutines, Execute(g) PROVE ScopedToTenant'
    <3> DEFINE r == Executed(call[g], Bind(Style, marks[g], SliceValues(mem, args[g])))
    <3>1. last' = [last EXCEPT ![g] = r] /\ pc[g] = "exec"
      BY <2>4 DEF Execute
    <3>2. r.stmt = call[g].stmt /\ r.ctx = call[g].ctx /\ r.bound = Bind(Style, marks[g], SliceValues(mem, args[g]))
      BY DEF Executed
    <3>3. Covered(Style, r.stmt) => r.bound = ExpectedBinding(r.stmt, r.ctx)
      BY <3>1, <3>2, ReadyBinds
    <3> HIDE DEF r
    <3> QED
      BY <2>3, <3>1, <3>3
  <2>5. ASSUME NEW g \in Goroutines, RejectInsert(g) PROVE ScopedToTenant'
    <3> DEFINE r == Failure(call[g].method)
    <3>1. last' = [last EXCEPT ![g] = r]
      BY <2>5 DEF RejectInsert
    <3>2. r.outcome # "executed"
      BY DEF Failure
    <3> HIDE DEF r
    <3> QED
      BY <2>3, <3>1, <3>2
  <2>6. ASSUME NEW g \in Goroutines, NEW m \in Methods, NEW s \in Queries, NEW ctx \in CallContexts,
               Call(g, m, s, ctx)
        PROVE  ScopedToTenant'
    <3>1. \E r \in {Failure(m), NoResult} : last' = [last EXCEPT ![g] = r]
      BY <2>6 DEF Call
    <3> QED
      BY <2>3, <3>1 DEF Failure, NoResult
  <2>7. ASSUME NEW g \in Goroutines, Step(g) PROVE ScopedToTenant'
    <3>1. UNCHANGED last \/ RejectInsert(g) \/ Execute(g)
      BY <2>7 DEF Step, CacheLookup, CacheCount, RewriteUnchanged, RewriteInsert, TakeSlice,
                  AppendSegment, ReturnSlice, CachePut
    <3> QED
      BY <2>2, <2>4, <2>5, <3>1
  <2>8. CASE ClearQueryCache \/ (\E a \in Arrays : PoolDrop(a)) \/ UNCHANGED vars
    BY <2>2, <2>8 DEF ClearQueryCache, PoolDrop, vars
  <2> QED
    BY <2>6, <2>7, <2>8 DEF Next
<1> QED
  BY <1>1, <1>2, DBInvAlways, PTL DEF Spec

-----------------------------------------------------------------------------
(* The handle uses the cache as QueryCache describes it: it looks up,       *)
(* counts, clears, and stores nothing but the rewritten form of a          *)
(* statement.                                                              *)
THEOREM HandleUsesCache == Spec => CacheSpec
<1>1. Init => CacheInit
  BY DEF Init
<1>2. DBInv /\ [Next]_vars => [CacheNext]_cacheVars
  <2> SUFFICES ASSUME DBInv, [Next]_vars PROVE [CacheNext]_cacheVars
    OBVIOUS
  <2>1. ASSUME NEW g \in Goroutines, CacheLookup(g) PROVE CacheNext
    <3>1. TypeOK /\ call[g] # NoCall
      BY <2>1 DEF CacheLookup, DBInv, GoroutineInv
    <3>2. call[g].stmt \in Queries
      BY <3>1, CallFacts
    <3> QED
      BY <2>1, <3>2 DEF CacheLookup, CacheNext
  <2>2. ASSUME NEW g \in Goroutines, CacheCount(g) PROVE CacheNext
    BY <2>2 DEF CacheCount, CacheNext
  <2>3. ASSUME NEW g \in Goroutines, CachePut(g) PROVE CacheNext
    BY <2>3, CachePutKeeps DEF CacheNext
  <2>4. CASE ClearQueryCache
    BY <2>4 DEF ClearQueryCache, CacheNext
  <2>5. ASSUME NEW g \in Goroutines, Step(g) PROVE CacheNext \/ UNCHANGED cacheVars
    <3>1. CacheLookup(g) \/ CacheCount(g) \/ CachePut(g) \/ UNCHANGED cacheVars
      BY <2>5 DEF Step, RewriteUnchanged, RewriteInsert, RejectInsert, TakeSlice, AppendSegment,
                  ReturnSlice, Execute, cacheVars
    <3> QED
      BY <2>1, <2>2, <2>3, <3>1
  <2>6. ASSUME NEW g \in Goroutines, NEW m \in Methods, NEW s \in Queries, NEW ctx \in CallContexts,
               Call(g, m, s, ctx)
        PROVE  UNCHANGED cacheVars
    BY <2>6 DEF Call, cacheVars
  <2>7. CASE (\E a \in Arrays : PoolDrop(a)) \/ UNCHANGED vars
    BY <2>7 DEF PoolDrop, vars, cacheVars
  <2> QED
    BY <2>4, <2>5, <2>6, <2>7 DEF Next
<1> QED
  BY <1>1, <1>2, DBInvAlways, PTL DEF Spec, CacheSpec

(* The cache of the handle holds its bound, however many goroutines share  *)
(* it.                                                                     *)
THEOREM HandleCacheBounded == Spec => []CacheBounded
  BY HandleUsesCache, CacheBoundedAlways, PTL

-----------------------------------------------------------------------------
(* The scoped database of ScopedDB has the operators of TenantRewrite.      *)
LEMMA SameDecision ==
  \A ctx, s : Abstract!ShouldFilter(ctx, s) = ShouldFilter(ctx, s)
  BY DEF Abstract!ShouldFilter, Abstract!IsSystemQuery, Abstract!ShouldBypass, Abstract!ExtractTables,
         Abstract!Elements, Abstract!GetTenant, ShouldFilter, IsSystemQuery, ShouldBypass, ExtractTables,
         Elements, GetTenant

(* The two specifications agree on what a call is to bind.                 *)
LEMMA SameBinding ==
  \A ctx, s : Abstract!ExpectedBinding(s, ctx) = ExpectedBinding(s, ctx)
<1> SUFFICES ASSUME NEW ctx, NEW s PROVE Abstract!ExpectedBinding(s, ctx) = ExpectedBinding(s, ctx)
  OBVIOUS
<1>1. Abstract!ShouldFilter(ctx, s) = ShouldFilter(ctx, s)
  BY SameDecision
<1>2. Abstract!FilterTenantTables(s.refs) = FilterTenantTables(s.refs)
  BY DEF Abstract!FilterTenantTables, FilterTenantTables
<1>3. Abstract!FilterTenantTables(s.sub) = FilterTenantTables(s.sub)
  BY DEF Abstract!FilterTenantTables, FilterTenantTables
<1>4. Abstract!ScopeCount(s) = ScopeCount(s)
  <2>1. \A S : Abstract!Cardinality(S) = Cardinality(S)
    BY DEF Abstract!Cardinality, Cardinality
  <2> QED
    BY <1>2, <1>3, <2>1 DEF Abstract!ScopeCount, ScopeCount
<1>5. Abstract!GetTenant(ctx) = GetTenant(ctx)
  BY DEF Abstract!GetTenant, GetTenant
<1>6. Abstract!ScopedBinding(s, GetTenant(ctx)) = ScopedBinding(s, GetTenant(ctx))
  BY <1>4 DEF Abstract!ScopedBinding, ScopedBinding, Abstract!Repeat, Repeat
<1>7. Abstract!UserMarkers(s) = UserMarkers(s)
  BY DEF Abstract!UserMarkers, UserMarkers
<1> QED
  BY <1>1, <1>5, <1>6, <1>7 DEF Abstract!ExpectedBinding, ExpectedBinding

(* The steps of the handle that a caller sees.                             *)
LEMMA CallIsRequest ==
  ASSUME ErrorsReported, DBInv, NEW g \in Goroutines, NEW m \in Methods, NEW s \in Queries,
         NEW ctx \in CallContexts, Call(g, m, s, ctx)
  PROVE  Abstract!Next
<1>1. TypeOK /\ pc[g] = "idle" /\ call[g] = NoCall
  BY DEF DBInv, GoroutineInv, Call
<1>2. pc \in [Goroutines -> {"idle", "lookup", "count", "rewrite", "append", "put", "exec"}]
      /\ call \in [Goroutines -> Calls \cup {NoCall}]
  BY <1>1 DEF TypeOK
<1>3. call[g] = Abstract!NoRequest
  BY <1>1 DEF NoCall, Abstract!NoRequest
<1>4. CASE ShouldFilter(ctx, s) = "missing_tenant"
  <2>1. call' = [call EXCEPT ![g] = NoCall] /\ last' = [last EXCEPT ![g] = Failure(m)]
    BY <1>2, <1>4 DEF Call
  <2>2. call' = call
    BY <1>1, <1>2, <2>1
  <2>3. m # "QueryRow"
    BY DEF ErrorsReported
  <2>4. Failure(m) = Abstract!Refused
    BY <2>3 DEF Failure, Abstract!Refused
  <2>5. Abstract!Refuse(g, s, ctx)
    BY <1>3, <1>4, <2>1, <2>2, <2>4, SameDecision DEF Abstract!Refuse
  <2> QED
    BY <2>5 DEF Abstract!Next
<1>5. CASE ShouldFilter(ctx, s) # "missing_tenant"
  <2>1. /\ call' = [call EXCEPT ![g] = [method |-> m, stmt |-> s, ctx |-> ctx]]
        /\ last' = [last EXCEPT ![g] = NoResult]
    BY <1>2, <1>5 DEF Call
  <2>2. Abstract!Request(g, m, s, ctx)
    BY <1>3, <1>5, <2>1, SameDecision DEF Abstract!Request, Abstract!NoAnswer, NoResult
  <2> QED
    BY <2>2 DEF Abstract!Next
<1> QED
  BY <1>4, <1>5

(* The execution of a statement is an answer of the abstract handle.       *)
LEMMA ExecuteIsAnswer ==
  ASSUME Faithful, Alone, \A s \in Queries : Covered(Style, s), DBInv,
         NEW g \in Goroutines, Execute(g)
  PROVE  Abstract!Next
<1> DEFINE c == call[g]
           b == Bind(Style, marks[g], SliceValues(mem, args[g]))
<1>1. TypeOK /\ GoroutineInv(g) /\ pc[g] = "exec"
  BY DEF DBInv, Execute
<1>2. c # NoCall
  BY <1>1 DEF GoroutineInv
<1>3. c.stmt \in Queries
  BY <1>1, <1>2, CallFacts
<1>4. b = ExpectedBinding(c.stmt, c.ctx)
  BY <1>1, <1>3, ReadyBinds
<1>5. ~(ShouldFilter(c.ctx, c.stmt) = "tenant_table_access" /\ c.stmt.op = "INSERT" /\ ~c.stmt.columns)
  BY <1>1 DEF GoroutineInv, Filtered, Cacheable
<1>6. last' = [last EXCEPT ![g] = Executed(c, b)] /\ call' = [call EXCEPT ![g] = NoCall]
  BY DEF Execute
<1>7. Abstract!AnswerTo(c) = [outcome |-> "executed", stmt |-> c.stmt, ctx |-> c.ctx, bound |-> b]
  BY <1>4, <1>5, SameDecision, SameBinding DEF Abstract!AnswerTo
<1> HIDE DEF c, b
<1>8. Executed(c, b) = Abstract!AnswerTo(c)
  BY <1>7 DEF Executed
<1>9. Abstract!Answer(g)
  BY <1>2, <1>6, <1>8 DEF Abstract!Answer, Abstract!NoRequest, NoCall, c
<1> QED
  BY <1>9 DEF Abstract!Next

(* So is the refusal of an INSERT without columns.                         *)
LEMMA RejectIsAnswer ==
  ASSUME ErrorsReported, DBInv, NEW g \in Goroutines, RejectInsert(g)
  PROVE  Abstract!Next
<1> DEFINE c == call[g]
<1>1. GoroutineInv(g) /\ pc[g] = "rewrite" /\ c.stmt.op = "INSERT" /\ ~c.stmt.columns
  BY DEF DBInv, RejectInsert
<1>2. c # NoCall /\ ShouldFilter(c.ctx, c.stmt) = "tenant_table_access"
  BY <1>1 DEF GoroutineInv, Filtered
<1>3. last' = [last EXCEPT ![g] = Failure(c.method)] /\ call' = [call EXCEPT ![g] = NoCall]
  BY DEF RejectInsert
<1>4. Abstract!AnswerTo(c) = Abstract!Refused
  BY <1>1, <1>2, SameDecision DEF Abstract!AnswerTo
<1>a. c.method \in Methods
  BY <1>2 DEF DBInv, TypeOK, Calls
<1>b. c.method # "QueryRow"
  BY <1>a DEF ErrorsReported
<1>5. Abstract!Refused = Failure(c.method)
  BY <1>b DEF Abstract!Refused, Failure
<1> HIDE DEF c
<1>6. Abstract!Answer(g)
  BY <1>2, <1>3, <1>4, <1>5 DEF Abstract!Answer, Abstract!NoRequest, NoCall, c
<1> QED
  BY <1>6 DEF Abstract!Next

(* The safety part of ImplementsScopedDB: a handle that one goroutine uses *)
(* with statements that the rewriters cover, and with methods that report  *)
(* an error, answers every call as the scoped database does.               *)
THEOREM HandleIsScoped ==
  (Faithful /\ Alone /\ ErrorsReported /\ \A s \in Queries : Covered(Style, s)) => (Spec => Abstract!Spec)
<1> SUFFICES ASSUME Faithful, Alone, ErrorsReported, \A s \in Queries : Covered(Style, s)
             PROVE  Spec => Abstract!Spec
  OBVIOUS
<1>1. Init => Abstract!Init
  BY DEF Init, Abstract!Init, NoCall, Abstract!NoRequest, NoResult, Abstract!NoAnswer
<1>2. DBInv /\ [Next]_vars => [Abstract!Next]_(Abstract!abstractVars)
  <2> SUFFICES ASSUME DBInv, [Next]_vars PROVE Abstract!Next \/ UNCHANGED <<call, last>>
    BY DEF Abstract!abstractVars
  <2>1. ASSUME NEW g \in Goroutines, Step(g) PROVE Abstract!Next \/ UNCHANGED <<call, last>>
    <3>1. UNCHANGED <<call, last>> \/ RejectInsert(g) \/ Execute(g)
      BY <2>1 DEF Step, CacheLookup, CacheCount, RewriteUnchanged, RewriteInsert, TakeSlice,
                  AppendSegment, ReturnSlice, CachePut
    <3> QED
      BY <3>1, ExecuteIsAnswer, RejectIsAnswer
  <2>2. CASE ClearQueryCache \/ (\E a \in Arrays : PoolDrop(a)) \/ UNCHANGED vars
    BY <2>2 DEF ClearQueryCache, PoolDrop, vars
  <2> QED
    BY <2>1, <2>2, CallIsRequest DEF Next
<1> QED
  BY <1>1, <1>2, DBInvAlways, PTL DEF Spec, Abstract!Spec

=============================================================================
