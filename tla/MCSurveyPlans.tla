---------------------------- MODULE MCSurveyPlans ----------------------------
(* SurveyPlans on small instances: one active area, one plan, room for one *)
(* more plan.                                                              *)
EXTENDS SurveyPlans, TLC

CONSTANTS area, plan, copy, w1, w2

MCLinesFor == "north" :> {"coarse"}

ActiveArea == area :> [boundary |-> "north", status |-> "active"]

DraftPlan == plan :> [area |-> area, lines |-> "coarse", plan_state |-> "draft",
                      version |-> 1]

Symmetry == Permutations({w1, w2})

=============================================================================
