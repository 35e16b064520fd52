--------------------------- MODULE MCAccountStream ---------------------------
(* AccountStream on a small instance: two accounts over a channel of one   *)
(* or two places, so that the overflow buffer fills, flushes partly and is *)
(* lost with the stream.                                                   *)
EXTENDS AccountStream

CONSTANTS a1, a2

MCAccounts == {a1, a2}
=============================================================================
