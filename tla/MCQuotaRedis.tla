---------------------------- MODULE MCQuotaRedis ----------------------------
(***************************************************************************)
(* Instances of QuotaRedis for TLC: two tenants, one of them named like    *)
(* the word that limit keys begin with, and one configured type.           *)
(***************************************************************************)
EXTENDS QuotaRedis, TLC

MCQuotaTypes == {<<"daily">>}

MCDefaultLimits == [q \in {<<"daily">>} |-> 2]

ClientSymmetry == Permutations(Clients)

=============================================================================
