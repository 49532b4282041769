------------------------------ MODULE MCRunsDesk ------------------------------
(***************************************************************************)
(* RunsDesk with one run that was there and one that is imported meanwhile *)
(* by this desk or another and pushes the first off the page, and two      *)
(* requests under way at once.                                             *)
(***************************************************************************)
EXTENDS RunsDesk, TLC

OldestFirst == ("old" :> 1) @@ ("new" :> 2)

=============================================================================
