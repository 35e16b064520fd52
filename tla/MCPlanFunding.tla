--------------------------- MODULE MCPlanFunding ---------------------------
(* Every builder, two transactions in the air, trades that lose and trades *)
(* that gain.                                                              *)
EXTENDS PlanFunding

Changes == {-1, 1}
=============================================================================
