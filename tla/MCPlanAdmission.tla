-------------------------- MODULE MCPlanAdmission --------------------------
(***************************************************************************)
(* Small instances of PlanAdmission.                                       *)
(***************************************************************************)
EXTENDS PlanAdmission, TLC

CONSTANTS r1, r2
=============================================================================
