--------------------------- MODULE MCMarketState ---------------------------
(* MarketState with two pools of different venues: a Pump or PumpSwap pool *)
(* and one of another venue.                                               *)
EXTENDS MarketState, TLC

CONSTANTS p1, p2

(* Two reserves after the first, so that an answer of the RPC may be newer *)
(* than a queued update and older than the chain.                          *)
MCMaxVersion == [k \in {"pool", "vault"} |-> IF k = "pool" THEN 1 ELSE 2]

MCPools == {p1, p2}
MCVenueChoices ==
    {(p1 :> "pump") @@ (p2 :> "meteora"), (p1 :> "pumpswap") @@ (p2 :> "raydium"),
     (p1 :> "pumpswap") @@ (p2 :> "whirlpool")}
=============================================================================
