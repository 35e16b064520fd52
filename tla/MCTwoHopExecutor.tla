-------------------------- MODULE MCTwoHopExecutor --------------------------
(* TwoHopExecutor with amounts of two bits: the sum of a balance and a     *)
(* minimum profit passes the largest amount.                               *)
EXTENDS TwoHopExecutor
=============================================================================
