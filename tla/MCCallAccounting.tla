--------------------------- MODULE MCCallAccounting ---------------------------
(* Two tasks and two request keys: the same request twice, or different ones   *)
(* at the last call of the budget.                                             *)
EXTENDS CallAccounting, TLC

===============================================================================
