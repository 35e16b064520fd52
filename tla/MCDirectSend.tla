---------------------------- MODULE MCDirectSend ----------------------------
(* One token, one pair of pools of each family.                            *)
EXTENDS DirectSend

(* Any window may be short of liquidity or too large, as the market moves. *)
AnySize == [w \in Base..MaxWindow |-> {"liquidity", "large"}]

(* The bitmap extension is missing, or has no effect, below three arrays;  *)
(* from three on the transaction locks too many accounts.                  *)
BitmapOrLocks == [w \in Base..MaxWindow |-> IF w < 3 THEN {"bitmap"} ELSE {"locks"}]

(* Any window may lock too many accounts as well, miss the bitmap          *)
(* extension, or want more keys.                                           *)
AnyError == [w \in Base..MaxWindow |-> AnySize[w] \cup {"locks", "bitmap", "keys"}]
=============================================================================
