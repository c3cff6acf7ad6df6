--------------------------- MODULE MCQuotaMemory ---------------------------
(***************************************************************************)
(* Instances of QuotaMemory for TLC: one registered type of quota and one  *)
(* that only SetLimit registers, with a shorter period.                    *)
(***************************************************************************)
EXTENDS QuotaMemory

CONSTANTS t1, t2

MCTenants == {t1, t2}

MCPairs == {<<t1, "daily">>, <<t1, "rows">>, <<t2, "daily">>}

MCDefaultLimits == [q \in {"daily"} |-> 2]

MCPeriod == [q \in QuotaTypes |-> IF q = "daily" THEN 2 ELSE 1]

=============================================================================
