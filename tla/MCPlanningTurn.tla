--------------------------- MODULE MCPlanningTurn ---------------------------
(* Small instances of PlanningTurn: a command returns a plan in order, one   *)
(* whose coverage begins late, one that is too long, one reviewed too late,  *)
(* or one that does not answer its activation.                               *)
EXTENDS PlanningTurn

Offer(from, through, review, faithful) ==
    [from |-> from, through |-> through, review |-> review, faithful |-> faithful]

MCOffers ==
    {Offer(1, 3, 2, TRUE), Offer(3, 5, 2, TRUE), Offer(0, 4, 2, TRUE),
     Offer(1, 3, 3, TRUE), Offer(1, 3, 2, FALSE)}
=============================================================================
