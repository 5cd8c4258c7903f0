----------------------------- MODULE MCPlanReview -----------------------------
(* Small instances of PlanReview: two steps of two tools, one approval group. *)
EXTENDS PlanReview, TLC
TwoTools == <<"t1", "t2">>
OneTool  == <<"t1", "t1">>
Both     == {1, 2}
Symmetry == Permutations(Args)
===============================================================================
