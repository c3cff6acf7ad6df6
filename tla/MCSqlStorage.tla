---------------------------- MODULE MCSqlStorage ----------------------------
(***************************************************************************)
(* Instances of SqlStorage for TLC.                                        *)
(***************************************************************************)
EXTENDS SqlStorage

Stmt(op) == [op |-> op, dangerous |-> FALSE]

MCStmts == {Stmt("SELECT"), Stmt("INSERT"), [op |-> "OTHER", dangerous |-> TRUE]}

=============================================================================
