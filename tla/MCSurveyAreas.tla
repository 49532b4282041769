---------------------------- MODULE MCSurveyAreas ----------------------------
(* The active area the seed leaves behind and room for one more.           *)
EXTENDS SurveyAreas, TLC

CONSTANTS demo, a1, w1, w2

DemoArea == demo :> [boundary |-> "north", status |-> "active", version |-> 1]

EmptyTable == <<>>

Symmetry == Permutations({w1, w2})

=============================================================================
