-------------------------- MODULE MCCoverageReview --------------------------
(***************************************************************************)
(* CoverageReview on small instances.  The boundary "strip" is too thin    *)
(* for a coarse grid.                                                      *)
(***************************************************************************)
EXTENDS CoverageReview, TLC

CONSTANTS a1, a2, r1, r2, g1, g2, d1, d2, v1, v2

AllProcessed == [r \in Runs |-> "processed"]

OneRunOutdated == [r \in Runs |-> IF r = r1 THEN "processing" ELSE "superseded"]

InOneArea == [r \in Runs |-> a1]

RunsApart == (r1 :> a1) @@ (r2 :> a2)

StartAreas == [a \in Areas |-> [boundary |-> "strip", resolution |-> "fine"]]

StripIsTooThin == {<<"strip", "coarse">>}

NoGaps == <<>>

\* A gap that nobody has reviewed yet.
OneGap ==
    g1 :> [input |-> [area |-> a1, sources |-> {r1}, algorithm |-> "grid",
                      resolution |-> "fine", boundary |-> "strip"],
           explanation |-> <<>>, gap_state |-> "detected", version |-> 1]

(***************************************************************************)
(* In characters: the heading of a review note has 6, the note itself 8 to *)
(* 600.  The explanation of a new gap has 47 to 57.                        *)
(***************************************************************************)
Lengths == [note \in Notes |-> CASE note = "longest" -> 606
                                 [] note = "long"    -> 540
                                 [] OTHER            -> 14]

Symmetry == Permutations({d1, d2}) \cup Permutations({v1, v2})

=============================================================================
