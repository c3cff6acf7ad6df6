------------------------------- MODULE MCSqlx -------------------------------
(***************************************************************************)
(* An instance of Sqlx for TLC.  Goroutine g1 makes every kind of call:    *)
(* it inserts a batch of four values two at a time, passes slices of a     *)
(* list with room that g2 also passes, and lists of exactly the arguments. *)
(***************************************************************************)
EXTENDS Sqlx

CONSTANTS g1, g2, t1, t2

Base == [insert |-> FALSE, listed |-> FALSE, where |-> TRUE, head |-> 0, tail |-> 1, words |-> {"users"}]

\* SELECT * FROM users WHERE id = ?
SelectOne == [Base EXCEPT !.words = {"*", "users"}]
\* SELECT id FROM users LIMIT ?, which is not covered
SelectSome == [Base EXCEPT !.where = FALSE]
\* UPDATE users SET name = ? WHERE id = ?
UpdateOne == [Base EXCEPT !.head = 1]
\* UPDATE users SET plan = ?
UpdateAll == [Base EXCEPT !.where = FALSE, !.head = 1, !.tail = 0]
\* DELETE FROM users
DeleteAll == [UpdateAll EXCEPT !.head = 0]
\* UPDATE migrations SET version = ?
Migration == [UpdateAll EXCEPT !.words = {"migrations"}]
\* INSERT INTO users (name, mail) VALUES (?, ?)
InsertTwo == [Base EXCEPT !.insert = TRUE, !.listed = TRUE, !.where = FALSE, !.head = 2, !.tail = 0]
\* INSERT INTO users (name) VALUES (?)
InsertOne == [InsertTwo EXCEPT !.head = 1]
\* INSERT INTO users VALUES (?, ?)
InsertBare == [InsertTwo EXCEPT !.listed = FALSE]

MCSkipTables == {"migrations"}

MCArrays == {"batch", "shared", "none", "one", "two"}

MCArrayLen == [batch |-> 4, shared |-> 2, none |-> 0, one |-> 1, two |-> 2]

For(t) == [tenant |-> t, skip |-> FALSE]

Skipping(t) == [tenant |-> t, skip |-> TRUE]

MCTxContexts == {For(t1), For(t2), For(NoTenant), Skipping(t1)}

Call(g, on, ctx, m, s, a, from, to) ==
    [by |-> g, on |-> on, ctx |-> ctx, method |-> m, stmt |-> s, arr |-> a, from |-> from, to |-> to]

MCCalls ==
    UNION {
      { Call(g1, on, ctx, "Query", SelectOne, "one", 1, 1),
        Call(g1, on, ctx, "Query", SelectSome, "one", 1, 1),
        Call(g1, on, ctx, "Promoted", SelectOne, "one", 1, 1),
        Call(g1, on, ctx, "QueryRowx", SelectOne, "one", 1, 1),
        Call(g1, on, ctx, "QueryRowx", DeleteAll, "none", 1, 0),
        Call(g1, on, ctx, "Query", InsertTwo, "two", 1, 2),
        Call(g1, on, ctx, "Exec", UpdateOne, "two", 1, 2),
        Call(g1, on, ctx, "Exec", UpdateAll, "shared", 1, 1),
        Call(g1, on, ctx, "Exec", Migration, "one", 1, 1),
        Call(g1, on, ctx, "Exec", InsertTwo, "batch", 1, 2),
        Call(g1, on, ctx, "Exec", InsertTwo, "batch", 3, 4),
        Call(g1, on, ctx, "Exec", InsertTwo, "two", 1, 2),
        Call(g1, on, ctx, "Exec", InsertBare, "two", 1, 2),
        Call(g1, on, ctx, "NamedExec", InsertOne, "one", 1, 1),
        Call(g1, on, ctx, "Exec", InsertOne, "shared", 1, 1),
        Call(g2, on, ctx, "Exec", InsertOne, "shared", 1, 1),
        Call(g2, on, ctx, "Exec", UpdateOne, "two", 1, 2) } : on \in {"db", "tx"}, ctx \in MCTxContexts }
    \cup
      { Call(g1, "without", For(t1), m, SelectOne, "one", 1, 1) : m \in {"Query", "QueryRowx"} }
    \cup
      { Call(g1, "without", For(t1), "Exec", s, "one", 1, 1) : s \in {UpdateAll, Migration} }

=============================================================================
