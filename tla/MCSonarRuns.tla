----------------------------- MODULE MCSonarRuns -----------------------------
(***************************************************************************)
(* SonarRuns with a locked and a draft plan and a run that has been        *)
(* superseded before the server was started.  Two uploads carry one track  *)
(* and differ in what is not hashed, the code and the navigation; the      *)
(* third is the body of the old run again.                                 *)
(***************************************************************************)
EXTENDS SonarRuns, TLC

CONSTANTS p1, p2, i1, i2, m1, m2, r1, r2, old

OldUpload == [plan |-> p1, track |-> "t1", code |-> "c1", nav |-> "good"]

RaceUploads ==
    {OldUpload,
     [plan |-> p2, track |-> "t2", code |-> "c2", nav |-> "good"],
     [plan |-> p2, track |-> "t2", code |-> "c3", nav |-> "invalid"]}

OnePlanLocked == (p1 :> "locked") @@ (p2 :> "draft")

SupersededRun == old :> [upload |-> OldUpload, run_state |-> "superseded", version |-> 5]

RaceSymmetry ==
    Permutations({i1, i2}) \cup Permutations({m1, m2}) \cup Permutations({r1, r2})

=============================================================================
