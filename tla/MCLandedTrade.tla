--------------------------- MODULE MCLandedTrade ---------------------------
(* Four arrays of two bins, prices falling from 2 to 1; the start has the  *)
(* bins filled but for the second array, or mostly empty.                  *)
EXTENDS LandedTrade

MCPrices == [b \in 0..7 |-> 8 - b \div 2]
MCDepths == {[b \in 0..7 |-> IF b < 1 THEN -11 ELSE IF b \in {2, 3} THEN 0 ELSE 11],
             [b \in 0..7 |-> IF b = 1 THEN 21 ELSE IF b \in {2, 6} THEN 11 ELSE 0]}
=============================================================================
