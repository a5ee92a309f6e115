----------------------------- MODULE MCPlanStore -----------------------------
(* Two previewed plans, three apply requests, one restart. *)
EXTENDS PlanStore

CONSTANTS p1, p2, q1, q2, q3
=============================================================================
