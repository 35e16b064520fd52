----------------------------- MODULE MCSendPath -----------------------------
(* SendPath with two tables of two places and three plans: one that fits   *)
(* in the free places and is rebuilt, one that needs more than the tables  *)
(* hold and can be split, and one that needs no table.                     *)
EXTENDS SendPath, TLC

CONSTANTS a, b, c, d, x, y, z

MCAddresses == {a, b, c, d}
MCPlans     == {x, y, z}
MCNeeds     == (x :> <<a, b, c>>) @@ (y :> <<b, c, d>>) @@ (z :> <<a>>)
MCSlack     == (x :> 1) @@ (y :> 0) @@ (z :> 1)
MCHasSetup  == (x :> FALSE) @@ (y :> TRUE) @@ (z :> FALSE)
MCHasWindow == (x :> TRUE) @@ (y :> TRUE) @@ (z :> TRUE)
MCFirstTable == (1 :> <<>>) @@ (2 :> <<d>>)
=============================================================================
