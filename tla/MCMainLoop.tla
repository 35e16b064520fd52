----------------------------- MODULE MCMainLoop -----------------------------
(* MainLoop with one pump market and two others over two tokens: enough    *)
(* for a reload that adds, removes, swaps and empties a side.              *)
EXTENDS MainLoop, TLC

CONSTANTS p1, r1, r2, t1, t2

MCMarkets  == {p1, r1, r2}
MCVenue    == (p1 :> "pump") @@ (r1 :> "raydium") @@ (r2 :> "meteora")
MCSnapshots == {{p1, r1}, {p1, r2}, {r2}}
(* One content with three markets, so that a backlog lies between the     *)
(* watermarks.                                                             *)
MCSnapshotsWide == {{p1, r1, r2}}
MCTokens   == {t1, t2}
MCTokenOf  == (p1 :> t1) @@ (r1 :> t1) @@ (r2 :> t2)
=============================================================================
