----------------------------- MODULE Lifecycles -----------------------------
(***************************************************************************)
(* The states of the four persistent entities and the moves the services   *)
(* accept between them.  A move table is a set of pairs <<from, to>>.      *)
(***************************************************************************)
EXTENDS Naturals

RunStates == {"imported", "quality_checked", "processing", "processed",
              "rejected", "superseded"}

RunMoves == {<<"imported", "quality_checked">>, <<"imported", "rejected">>,
             <<"quality_checked", "processing">>, <<"quality_checked", "rejected">>,
             <<"processing", "processed">>, <<"processing", "rejected">>,
             <<"processed", "superseded">>}

GapStates == {"detected", "reviewed", "accepted", "false_positive",
              "resurveyed", "closed"}

GapMoves == {<<"detected", "reviewed">>,
             <<"reviewed", "accepted">>, <<"reviewed", "false_positive">>,
             <<"accepted", "resurveyed">>,
             <<"false_positive", "closed">>, <<"resurveyed", "closed">>}

PlanStates == {"draft", "locked"}

AreaStatuses == {"draft", "active", "archived"}

NavigationQualities == {"good", "degraded", "invalid"}

\* RunState.CanTransition and GapState.CanTransition: membership in the table.
CanTransition(moves, from, target) == <<from, target>> \in moves

(***************************************************************************)
(* Neither table has a cycle: RunRank and GapRank grow along every move.   *)
(* A row that shows the state a request read earlier is therefore the row  *)
(* it read, which is what makes "WHERE run_state = ?" a sound test for "no *)
(* one has written since".                                                 *)
(***************************************************************************)
RunRank == [s \in RunStates |->
              CASE s = "imported"        -> 0
                [] s = "quality_checked" -> 1
                [] s = "processing"      -> 2
                [] s = "processed"       -> 3
                [] OTHER                 -> 4]

GapRank == [s \in GapStates |->
              CASE s = "detected"   -> 0
                [] s = "reviewed"   -> 1
                [] s = "accepted"   -> 2
                [] s = "resurveyed" -> 3
                [] s = "false_positive" -> 3
                [] OTHER            -> 4]

=============================================================================
