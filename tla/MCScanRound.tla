----------------------------- MODULE MCScanRound -----------------------------
(* Two tokens and an excluded one, three paths.  One unit of adjustment is *)
(* as large as the steps between profits, so that feedback matters.        *)
EXTENDS ScanRound

MCTokens   == {"busy", "quiet", "stable"}
MCVenuesOf == [t \in MCTokens |-> {"pumpswap", "clmm", "meteora"}]
MCPaths    == 1..3
MCTokenOf  == <<"busy", "busy", "quiet">>

Profile(l, a) == [sol |-> TRUE, trades5 |-> 2, trades15 |-> 2, volume5 |-> 2, volume15 |-> 2,
                  liquidity |-> l, age |-> a]
MCProfiles == {Profile(2, 1), Profile(2, 4), Profile(3, 3)}

(* Falling earns more with the larger size at a lower rate; Unread has no  *)
(* exact quote; Hopeless is far below any threshold.                       *)
Falling  == [spot |-> <<1, 2>>, exact |-> <<3, 2>>]
Fair     == [spot |-> <<2, 3>>, exact |-> <<3, 3>>]
Even     == [spot |-> <<1, 1>>, exact |-> <<1, 1>>]
Unread   == [spot |-> <<0, 1>>, exact |-> <<>>]
Hopeless == [spot |-> <<-3, -2>>, exact |-> <<-3, -3>>]
MCOffers == <<{Falling, Even, Unread}, {Even}, {Fair, Hopeless}>>

MCNearBest == -2
MCPoorBest == -4
=============================================================================
