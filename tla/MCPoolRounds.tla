----------------------------- MODULE MCPoolRounds -----------------------------
(* Two tokens for one place: the first has a spare pool, and one that does *)
(* not always trade enough.                                                *)
EXTENDS PoolRounds

MCPools    == {"p1", "m1", "m2", "q1", "n1"}
MCTokenOf  == [p \in MCPools |-> IF p \in {"q1", "n1"} THEN "B" ELSE "A"]
MCVenueOf  == [p \in MCPools |-> IF p \in {"p1", "q1"} THEN "pumpswap" ELSE "meteora"]
MCMostOf   == [v \in Venues |-> 2]

Reading(l, t) == [liquidity |-> l, trades |-> t]
MCReadings == [p \in MCPools |-> IF p = "p1" THEN {Reading(2, 3), Reading(2, 1)} ELSE {Reading(2, 3)}]
=============================================================================
