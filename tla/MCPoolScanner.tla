---------------------------- MODULE MCPoolScanner ----------------------------
(* A token with pools of two venues, and one that is excluded.             *)
EXTENDS PoolScanner

MCPools    == {"pump", "clmm"}
MCAccounts == MCPools \cup {"barred"}
MCTokenOf  == [p \in Accounts |-> "T"]
MCVenueOf  == [p \in Accounts |-> IF p = "pump" THEN "pumpswap" ELSE "raydium"]
MCStart    == [p \in Accounts |-> [open |-> TRUE, price |-> 1, liquid |-> TRUE]]
MCMostOf   == [v \in Venues |-> 1]
=============================================================================
