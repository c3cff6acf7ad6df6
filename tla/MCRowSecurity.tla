--------------------------- MODULE MCRowSecurity ---------------------------
(***************************************************************************)
(* An instance of RowSecurity for TLC.                                     *)
(***************************************************************************)
EXTENDS RowSecurity, TLC

\* Nothing tells requests or tenants apart.
Symmetry == Permutations(Requests) \cup Permutations(Tenants)

=============================================================================
