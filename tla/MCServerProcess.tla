--------------------------- MODULE MCServerProcess ---------------------------
(***************************************************************************)
(* ServerProcess with the two accounts the demo survey needs, two clients, *)
(* and room for two requests at once.                                      *)
(***************************************************************************)
EXTENDS ServerProcess, TLC

CONSTANTS k1, k2

\* One client keeps sending, the other makes its entry one too many.
Sends == (k1 :> 2) @@ (k2 :> 1)

TwoAccounts == <<"planner", "processor">>

RoleOf == ("planner" :> "survey_planner") @@ ("processor" :> "data_processor")

\* The processor is given another role, or its access is taken away.
Alterations ==
    {[role |-> "survey_planner", active |-> TRUE], [role |-> "data_processor", active |-> FALSE]}

=============================================================================
