--------------------------- MODULE TenantRewrite ---------------------------
(***************************************************************************)
(* The pure part of package tenantkit: the two-rule decision of the        *)
(* interceptor (interceptor.go, system_detector.go, table_extractor.go,    *)
(* context.go) and the rewriting of a statement (wrap.go).                 *)
(*                                                                         *)
(* SQL text is abstracted to what decides where a tenant value ends up:    *)
(* the kind of statement, the tables it names and its bind markers in the  *)
(* order of the text.  A user argument is represented by its own number,   *)
(* so the arguments of a call are <<1, 2, ..., n>>.                        *)
(***************************************************************************)
EXTENDS Naturals, Sequences, FiniteSets

CONSTANTS
    TenantTables,   \* Config.TenantTables
    Tenants,        \* the tenant identifiers in use
    NoTenant        \* the empty tenant identifier

ASSUME NoTenantAssumption == NoTenant \notin Tenants /\ NoTenant \notin Nat
ASSUME TenantsAssumption == \A t \in Tenants : t \notin Nat

(***************************************************************************)
(* A statement s has                                                       *)
(*   op        its first keyword; "OTHER" is any other one (WITH, MERGE)   *)
(*   system    TRUE if IsSystemQuery recognises it                         *)
(*   refs      the tables of its FROM/JOIN, INTO or UPDATE part, in order  *)
(*   comma     TRUE if refs are written as a list without aliases: a, b    *)
(*   sub       the tables named only inside a subquery of the WHERE part   *)
(*   where     TRUE if it has a WHERE part                                 *)
(*   pre, post the argument numbers of its bind markers before and after   *)
(*             the place where a tenant condition (or value) belongs       *)
(*   columns   INSERT: TRUE if it has a column list and VALUES             *)
(*   hasTenant INSERT: TRUE if that list already has the tenant column     *)
(***************************************************************************)
Operations == {"SELECT", "UPDATE", "DELETE", "INSERT", "OTHER"}

Elements(seq) == {seq[i] : i \in DOMAIN seq}

UserMarkers(s) == s.pre \o s.post

\* The arguments the caller passes with s: one for each number in its markers.
NumArgs(s) ==
    LET used == Elements(UserMarkers(s))
    IN  IF used = {} THEN 0 ELSE CHOOSE n \in used : \A m \in used : m <= n

CallArgs(s) == [i \in 1..NumArgs(s) |-> i]

(* What SQL says of a statement: numbers count from 1, the ? are numbered   *)
(* in the order of the text, only the SET part of an UPDATE and the head   *)
(* of a SELECT have markers before the WHERE part, and nothing comes after *)
(* the SET part of an UPDATE without WHERE.                                *)
IsStatement(style, s) ==
    /\ s.op \in Operations
    /\ {s.system, s.comma, s.where, s.columns, s.hasTenant} \subseteq BOOLEAN
    /\ IsFiniteSet(DOMAIN s.refs) /\ IsFiniteSet(DOMAIN s.sub)
    /\ s.pre \in Seq(Nat \ {0}) /\ s.post \in Seq(Nat \ {0})
    /\ style = "question" => \A i \in DOMAIN UserMarkers(s) : UserMarkers(s)[i] = i
    /\ s.op \in {"DELETE", "INSERT"} => s.pre = <<>>
    /\ (s.op = "UPDATE" /\ ~s.where) => s.post = <<>>

-----------------------------------------------------------------------------
(* The tenant of a Go context: the string of WithTenant, or else the       *)
(* domain.Context put there by the HTTP middleware.                        *)

Contexts == [withTenant : Tenants \cup {NoTenant},
             domain     : Tenants \cup {NoTenant},
             bypass     : BOOLEAN]

GetTenant(ctx) == IF ctx.withTenant # NoTenant THEN ctx.withTenant ELSE ctx.domain

ShouldBypass(ctx) == ctx.bypass

IsSystemQuery(s) == s.system

(* ExtractTables: every table of the text, those of subqueries included.   *)
ExtractTables(s) == Elements(s.refs) \cup Elements(s.sub)

(* ShouldFilter: system query, explicit bypass, no tenant table, no tenant, *)
(* in that order; only the last outcome asks for a rewritten statement.    *)
ShouldFilter(ctx, s) ==
    IF IsSystemQuery(s) THEN "system_query"
    ELSE IF ShouldBypass(ctx) THEN "explicit_bypass"
    ELSE IF ExtractTables(s) \cap TenantTables = {} THEN "no_tenant_tables"
    ELSE IF GetTenant(ctx) = NoTenant THEN "missing_tenant"
    ELSE "tenant_table_access"

-----------------------------------------------------------------------------
(* Markers of a rewritten statement.  A marker has the number written in    *)
(* the text; ? markers have none and take their position.                  *)

Styles == {"question", "dollar", "colon"}

(* countPlaceholders: the highest $N, the number of ?, and 0 for :N.       *)
MutantCountBeforeWhere(style, s) == Len(s.pre)

CountPlaceholders(style, s) ==
    CASE style = "dollar"   -> NumArgs(s)
      [] style = "question" -> Len(UserMarkers(s))
      [] style = "colon"    -> 0

Repeat(v, n) == [i \in 1..n |-> v]

TenantMarks(next, n) == [i \in 1..n |-> next + i - 1]

(* extractAllTables: the tables that SELECT may get a condition for.  Only *)
(* the text between the first FROM and WHERE is searched, and a list a, b  *)
(* parses as one table named "a,", which no configured name equals.        *)
ExtractAllTables(s) == IF s.comma THEN <<>> ELSE s.refs

\* The tenant tables in a list of tables, by their places in it.
FilterTenantTables(refs) == {i \in DOMAIN refs : refs[i] \in TenantTables}

TablesToFilter(s) == FilterTenantTables(ExtractAllTables(s))

(* The number of markers a rewrite adds.                                   *)
TenantArgCount(s) ==
    CASE s.op = "SELECT" -> Cardinality(TablesToFilter(s))
      [] s.op \in {"UPDATE", "DELETE"} -> 1
      [] s.op = "INSERT" -> IF s.hasTenant THEN 0 ELSE 1
      [] OTHER -> 0

(* The markers of the rewritten text, in order.  A tenant condition comes   *)
(* first in the WHERE part with numbers after the existing ones; the       *)
(* tenant value of an INSERT comes first with number 1 and the existing    *)
(* $N are renumbered (renumberPlaceholders leaves the other styles alone). *)
RewriteMarks(style, s) ==
    LET n == TenantArgCount(s)
        shift == IF style = "dollar" /\ n = 1 THEN 1 ELSE 0
    IN  IF s.op = "INSERT"
        THEN TenantMarks(1, n) \o [i \in DOMAIN UserMarkers(s) |-> UserMarkers(s)[i] + shift]
        ELSE s.pre \o TenantMarks(CountPlaceholders(style, s) + 1, n) \o s.post

(* setArgCount: the ? before WHERE, or all of them when there is no WHERE.  *)
MutantSetArgCountAll(s) == Len(UserMarkers(s))

SetArgCount(s) == IF s.where THEN Len(s.pre) ELSE Len(UserMarkers(s))

(* The segments that the rewrite appends to the argument slice, in order:  *)
(* injectSelectFilter, injectUpdateFilter, injectDeleteFilter on a cache   *)
(* miss.                                                                   *)
MissSegments(style, s, tenant) ==
    LET args == CallArgs(s)
        tenants == Repeat(tenant, TenantArgCount(s))
    IN  CASE style = "question" /\ s.op = "UPDATE" ->
               <<SubSeq(args, 1, SetArgCount(s)), tenants,
                 SubSeq(args, SetArgCount(s) + 1, Len(args))>>
          [] style = "question" /\ s.op # "UPDATE" -> <<tenants, args>>
          [] style # "question" -> <<args, tenants>>

(* injectInsertFilter: the tenant value goes in front, in a new slice.     *)
InsertArgs(s, tenant) == Repeat(tenant, TenantArgCount(s)) \o CallArgs(s)

(* injectTenantFilter on a cache hit: the arguments for a cached statement *)
(* with argCount tenant markers, in a new slice.                           *)
HitArgs(style, s, argCount, tenant) ==
    LET args == CallArgs(s)
        tenants == Repeat(tenant, argCount)
    IN  CASE style = "question" /\ s.op = "UPDATE" ->
               SubSeq(args, 1, SetArgCount(s)) \o tenants
               \o SubSeq(args, SetArgCount(s) + 1, Len(args))
          [] style = "question" /\ s.op # "UPDATE" -> tenants \o args
          [] style # "question" -> args \o tenants

-----------------------------------------------------------------------------
(* How a database binds a slice of values to the markers of a statement:    *)
(* ? by position, $N and :N by number.                                     *)
Bind(style, marks, vals) ==
    [i \in DOMAIN marks |->
        LET n == IF style = "question" THEN i ELSE marks[i]
        IN  IF n \in DOMAIN vals THEN vals[n] ELSE NoTenant]

(* The reference: what a correctly scoped statement binds, in the order of  *)
(* the text.  One tenant value for each tenant table that a SELECT names,  *)
(* one for the other statements, and every user marker its own argument.   *)
ScopeCount(s) ==
    CASE s.op = "SELECT" ->
            Cardinality(FilterTenantTables(s.refs)) + Cardinality(FilterTenantTables(s.sub))
      [] s.op = "INSERT" /\ s.hasTenant -> 0
      [] OTHER -> 1

ScopedBinding(s, tenant) == s.pre \o Repeat(tenant, ScopeCount(s)) \o s.post

(* The statements whose tenant tables the rewriters find, and whose tenant  *)
(* markers come where the rewriters assume them.  Not covered: WITH and    *)
(* other keywords, tenant tables in a list a, b or in a subquery only, and *)
(* with ? a marker before the WHERE part of a SELECT.                      *)
Covered(style, s) ==
    /\ s.op # "OTHER"
    /\ s.op = "SELECT" =>
          /\ TablesToFilter(s) = FilterTenantTables(s.refs) /\ FilterTenantTables(s.sub) = {}
          /\ style = "question" => s.pre = <<>>

(* What a call has to bind: a statement that needs no filter runs as it is. *)
ExpectedBinding(s, ctx) ==
    IF ShouldFilter(ctx, s) = "tenant_table_access"
    THEN ScopedBinding(s, GetTenant(ctx))
    ELSE UserMarkers(s)

=============================================================================
