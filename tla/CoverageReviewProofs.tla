------------------------- MODULE CoverageReviewProofs -------------------------
(***************************************************************************)
(* Theorems about CoverageReview, for any number of areas, runs, gaps and  *)
(* workers, any notes and any versions that reviewers quote: types; gaps   *)
(* rest on processed runs; one input has one gap; no note is lost; the     *)
(* interleaved statements add up to atomic creations and moves             *)
(* (VersionedRecords); and the audit trail is complete.                    *)
(***************************************************************************)
EXTENDS CoverageReview, SequenceTheorems, TLAPS

\* What each request in flight refers to exists, and is filled in as far as
\* the handler has come.
RequestsOK ==
    /\ \A d \in Detectors :
          /\ detections[d].pc # "idle" => detections[d].input \in Input
          /\ detections[d].pc = "audit" => detections[d].gap \in DOMAIN gaps
    /\ \A v \in Reviewers :
          reviews[v].pc # "idle" => /\ reviews[v].gap \in DOMAIN gaps
                                    /\ reviews[v].target \in GapStates
                                    /\ reviews[v].expected \in ExpectedVersions
                                    /\ reviews[v].note \in Notes
                                    /\ reviews[v].before \in Gap
    /\ \A v \in Reviewers :
          reviews[v].pc = "audit" => reviews[v].after \in Nat \ {0}

TypeInv == TypeOK /\ RequestsOK

\* The tables and the requests have their types from the start.
LEMMA TypeInit == Init => TypeInv
  BY SeedAssumption
  DEF Init, TypeInv, TypeOK, RequestsOK, DetectRequest, ReviewRequest, DetectAnswer,
      NoDetection, NoReview

\* What a detection inserts is a row.
LEMMA NewGapIsGap ==
  ASSUME NEW input \in Input
  PROVE  NewGap(input) \in Gap
<1>1. << >> \in Seq(Notes)
  OBVIOUS
<1> QED
  BY <1>1 DEF NewGap, Gap, GapStates

\* What an insert does to the table and to the request that makes it.
Inserted(d, id) ==
    /\ gaps' = [known \in DOMAIN gaps \cup {id} |->
                   IF known = id THEN NewGap(detections[d].input) ELSE gaps[known]]
    /\ detections' = [detections EXCEPT ![d].pc = "audit", ![d].gap = id]

\* A detection works on an input that exists.
LEMMA ReadIsInput ==
  ASSUME TypeInv, NEW a \in Areas, NEW sources \in SUBSET Runs \ {{}},
         NEW algorithm \in Algorithms, NEW requested \in Resolutions \cup {Nothing}
  PROVE  [area |-> a, sources |-> sources, algorithm |-> algorithm,
          resolution |-> Chosen(requested, areas[a]),
          boundary |-> areas[a].boundary] \in Input
<1>1. areas[a] \in Area
  BY DEF TypeInv, TypeOK
<1>2. Chosen(requested, areas[a]) \in Resolutions /\ areas[a].boundary \in Boundaries
  BY <1>1 DEF Chosen, Area
<1> QED
  BY <1>2 DEF Input

\* A detection worker's step keeps the types.
LEMMA TypeDetectStep ==
  ASSUME TypeInv, NEW d \in Detectors, DetectStep(d)
  PROVE  TypeInv'
<1> USE DEF TypeInv, TypeOK, RequestsOK, DetectRequest
<1>1. ASSUME NEW a \in Areas, NEW sources \in SUBSET Runs \ {{}},
             NEW algorithm \in Algorithms, NEW requested \in Resolutions \cup {Nothing},
             DetectReadsArea(d, a, sources, algorithm, requested)
      PROVE  TypeInv'
  <2> DEFINE input == [area |-> a, sources |-> sources, algorithm |-> algorithm,
                       resolution |-> Chosen(requested, areas[a]),
                       boundary |-> areas[a].boundary]
  <2>1. input \in Input
    BY ReadIsInput
  <2>2. /\ detections' = [detections EXCEPT ![d] =
              [pc |-> "runs", gap |-> Nothing, answer |-> "none", input |-> input]]
        /\ UNCHANGED <<areas, runs, gaps, audits, reviews, lapses>>
    BY <1>1 DEF DetectReadsArea
  <2> HIDE DEF input
  <2> QED
    BY <2>1, <2>2
<1>2. CASE DetectReadsRuns(d)
  BY <1>2 DEF DetectReadsRuns
<1>3. CASE DetectRefused(d)
  BY <1>3 DEF DetectRefused, NoDetection, DetectAnswer
<1>4. CASE DetectFindsExisting(d)
  BY <1>4 DEF DetectFindsExisting, DetectAnswer
<1>5. CASE DetectComputes(d)
  BY <1>5 DEF DetectComputes, NoDetection, DetectAnswer
<1>6. CASE DetectInserts(d)
  <2>1. PICK id \in GapIds \ DOMAIN gaps : Inserted(d, id)
    BY <1>6 DEF DetectInserts, Inserted
  <2>2. NewGap(detections[d].input) \in Gap
    BY <1>6, NewGapIsGap DEF DetectInserts
  <2>3. /\ DOMAIN gaps' = DOMAIN gaps \cup {id}
        /\ gaps' \in [DOMAIN gaps' -> Gap]
    BY <2>1, <2>2 DEF Inserted
  <2>4. /\ detections' \in [Detectors -> DetectRequest]
        /\ detections'[d].gap = id /\ detections'[d].input = detections[d].input
        /\ \A e \in Detectors \ {d} : detections'[e] = detections[e]
    BY <2>1 DEF Inserted
  <2>5. UNCHANGED <<areas, runs, audits, reviews, lapses>> /\ detections[d].pc = "insert"
    BY <1>6 DEF DetectInserts
  <2> HIDE DEF DetectRequest
  <2> QED
    BY <2>3, <2>4, <2>5
<1>7. CASE DetectDuplicates(d)
  BY <1>7 DEF DetectDuplicates, DetectAnswer
<1>8. CASE DetectAudits(d)
  BY <1>8 DEF DetectAudits, DetectAnswer, AuditEvent, DetectEvent, NewGap
<1>9. CASE DetectFails(d)
  BY <1>9 DEF DetectFails, NoDetection, DetectAnswer
<1> QED
  BY <1>1, <1>2, <1>3, <1>4, <1>5, <1>6, <1>7, <1>8, <1>9 DEF DetectStep

\* What the UPDATE of a review writes, field by field.
LEMMA ReviewedIsGap ==
  ASSUME TypeInv, NEW v \in Reviewers, reviews[v].pc = "update"
  PROVE  \E id \in DOMAIN gaps :
            /\ id = reviews[v].gap
            /\ Reviewed(reviews[v]) \in Gap
            /\ Reviewed(reviews[v]) =
                  [input |-> gaps[id].input, gap_state |-> reviews[v].target,
                   explanation |-> Append(reviews[v].before.explanation, reviews[v].note),
                   version |-> gaps[id].version + 1]
<1>1. PICK id \in DOMAIN gaps : id = reviews[v].gap
  BY DEF TypeInv, RequestsOK
<1>2. /\ gaps[id] \in Gap /\ reviews[v].before \in Gap
      /\ reviews[v].note \in Notes /\ reviews[v].target \in GapStates
  BY DEF TypeInv, TypeOK, RequestsOK
<1>3. Append(reviews[v].before.explanation, reviews[v].note) \in Seq(Notes)
  BY <1>2, AppendProperties DEF Gap
<1>4. Reviewed(reviews[v]) =
         [input |-> gaps[id].input, gap_state |-> reviews[v].target,
          explanation |-> Append(reviews[v].before.explanation, reviews[v].note),
          version |-> gaps[id].version + 1]
  BY <1>1 DEF Reviewed, NewExplanation
<1>5. Reviewed(reviews[v]) \in Gap
  BY <1>2, <1>3, <1>4 DEF Gap
<1> QED
  BY <1>1, <1>4, <1>5

\* A review worker's step keeps the types.
LEMMA TypeReviewStep ==
  ASSUME TypeInv, NEW v \in Reviewers, ReviewStep(v)
  PROVE  TypeInv'
<1> USE DEF TypeInv, TypeOK, RequestsOK, ReviewRequest
<1>1. ASSUME NEW id \in GapIds, NEW target \in GapStates,
             NEW expected \in ExpectedVersions, NEW note \in Notes,
             ReviewReads(v, id, target, expected, note)
      PROVE  TypeInv'
  BY <1>1 DEF ReviewReads
<1>2. ASSUME NEW id \in GapIds, NEW target \in GapStates, ReviewRefused(v, id, target)
      PROVE  TypeInv'
  BY <1>2 DEF ReviewRefused, vars
<1>3. CASE ReviewUpdates(v)
  <2>1. reviews[v].gap \in DOMAIN gaps /\ Reviewed(reviews[v]) \in Gap
    BY <1>3, ReviewedIsGap DEF ReviewUpdates
  <2>2. DOMAIN gaps' = DOMAIN gaps /\ gaps' \in [DOMAIN gaps' -> Gap]
    BY <1>3, <2>1 DEF ReviewUpdates
  <2>3. /\ reviews' \in [Reviewers -> ReviewRequest]
        /\ \A field \in {"gap", "target", "expected", "note", "before", "after"} :
              reviews'[v][field] = reviews[v][field]
        /\ \A w \in Reviewers \ {v} : reviews'[w] = reviews[w]
    BY <1>3 DEF ReviewUpdates
  <2>4. /\ UNCHANGED <<areas, runs, audits, detections, lapses>>
        /\ reviews[v].pc = "update" /\ reviews'[v].pc = "reread"
    BY <1>3 DEF ReviewUpdates
  <2> HIDE DEF ReviewRequest
  <2> QED
    BY <2>2, <2>3, <2>4
<1>4. CASE ReviewConflicts(v) \/ ReviewTooLong(v)
  BY <1>4 DEF ReviewConflicts, ReviewTooLong, NoReview
<1>5. CASE ReviewRereads(v)
  <2>1. gaps[reviews[v].gap].version \in Nat \ {0}
    BY <1>5 DEF ReviewRereads, Gap
  <2> DEFINE request == [reviews[v] EXCEPT !.pc = "audit",
                                           !.after = gaps[reviews[v].gap].version]
  <2>2. /\ request \in ReviewRequest
        /\ request.after = gaps[reviews[v].gap].version
        /\ \A field \in {"gap", "target", "expected", "note", "before"} :
              request[field] = reviews[v][field]
    BY <2>1
  <2>3. reviews' = [reviews EXCEPT ![v] = request]
    BY <1>5 DEF ReviewRereads
  <2>4. /\ UNCHANGED <<areas, runs, gaps, audits, detections, lapses>>
        /\ reviews[v].pc = "reread"
    BY <1>5 DEF ReviewRereads
  <2> HIDE DEF ReviewRequest, request
  <2> QED
    BY <2>1, <2>2, <2>3, <2>4
<1>6. CASE ReviewAudits(v)
  <2>1. ReviewEvent(reviews[v]) \in AuditEvent
    BY <1>6 DEF ReviewAudits, ReviewEvent, AuditEvent, Gap
  <2> QED
    BY <1>6, <2>1 DEF ReviewAudits, NoReview
<1>7. CASE ReviewFails(v)
  <2>1. lapses' \subseteq GapIds \X Nat
    <3>1. reviews[v].gap \in GapIds /\ reviews[v].before.version \in Nat
      BY <1>7 DEF ReviewFails, Gap
    <3> QED
      BY <1>7, <3>1 DEF ReviewFails
  <2> QED
    BY <1>7, <2>1 DEF ReviewFails, NoReview
<1> QED
  BY <1>1, <1>2, <1>3, <1>4, <1>5, <1>6, <1>7 DEF ReviewStep

\* Changes of areas and runs, and steps that change nothing, keep the types.
LEMMA TypeElsewhere ==
  ASSUME TypeInv,
         \/ \E a \in Areas, boundary \in Boundaries, resolution \in Resolutions :
               AreaRevised(a, boundary, resolution)
         \/ \E r \in Runs, target \in RunStates : RunMoved(r, target)
         \/ UNCHANGED vars
  PROVE  TypeInv'
  BY DEF TypeInv, TypeOK, RequestsOK, AreaRevised, RunMoved, vars, Area

\* The types, and what requests refer to, hold in every behaviour.
THEOREM TypeInvariant == Spec => []TypeInv
<1>1. TypeInv /\ [Next]_vars => TypeInv'
  BY TypeDetectStep, TypeReviewStep, TypeElsewhere DEF Next
<1> QED
  BY TypeInit, <1>1, PTL DEF Spec

\* Every table and every request in flight has its type, in every behaviour of
\* the detection and review handlers.
THEOREM TypeCorrect == Spec => []TypeOK
<1>1. TypeInv => TypeOK
  BY DEF TypeInv
<1> QED
  BY <1>1, TypeInvariant, PTL

-----------------------------------------------------------------------------
(***************************************************************************)
(* What steps leave alone.                                                 *)
(***************************************************************************)
\* A detection step leaves areas, runs, reviews and every existing row alone.
LEMMA DetectStepFrame ==
  ASSUME TypeInv, NEW d \in Detectors, DetectStep(d)
  PROVE  /\ UNCHANGED <<areas, runs, reviews>>
         /\ DOMAIN gaps \subseteq DOMAIN gaps'
         /\ \A id \in DOMAIN gaps : gaps'[id] = gaps[id]
         /\ gaps' = gaps \/ DetectInserts(d)
         /\ \A e \in Detectors \ {d} : detections'[e] = detections[e]
<1> USE DEF TypeInv, TypeOK
<1>1. ASSUME NEW a \in Areas, NEW sources \in SUBSET Runs \ {{}},
             NEW algorithm \in Algorithms, NEW requested \in Resolutions \cup {Nothing},
             DetectReadsArea(d, a, sources, algorithm, requested)
      PROVE  /\ UNCHANGED <<areas, runs, reviews, gaps>>
             /\ \A e \in Detectors \ {d} : detections'[e] = detections[e]
  BY <1>1 DEF DetectReadsArea
<1>2. CASE DetectReadsRuns(d) \/ DetectRefused(d) \/ DetectFindsExisting(d) \/ DetectComputes(d)
  BY <1>2 DEF DetectReadsRuns, DetectRefused, DetectFindsExisting, DetectComputes
<1>3. CASE DetectInserts(d)
  BY <1>3 DEF DetectInserts
<1>4. CASE DetectDuplicates(d) \/ DetectAudits(d) \/ DetectFails(d)
  BY <1>4 DEF DetectDuplicates, DetectAudits, DetectFails
<1> QED
  BY <1>1, <1>2, <1>3, <1>4 DEF DetectStep

\* A review step leaves areas, runs, detections and every gap's input alone.
LEMMA ReviewStepFrame ==
  ASSUME TypeInv, NEW v \in Reviewers, ReviewStep(v)
  PROVE  /\ UNCHANGED <<areas, runs, detections>>
         /\ DOMAIN gaps' = DOMAIN gaps
         /\ \A id \in DOMAIN gaps : gaps'[id].input = gaps[id].input
         /\ gaps' = gaps \/ ReviewUpdates(v)
<1> USE DEF TypeInv, TypeOK
<1>1. ASSUME NEW id \in GapIds, NEW target \in GapStates,
             NEW expected \in ExpectedVersions, NEW note \in Notes,
             ReviewReads(v, id, target, expected, note)
      PROVE  UNCHANGED <<areas, runs, detections, gaps>>
  BY <1>1 DEF ReviewReads
<1>2. ASSUME NEW id \in GapIds, NEW target \in GapStates, ReviewRefused(v, id, target)
      PROVE  UNCHANGED <<areas, runs, detections, gaps>>
  BY <1>2 DEF ReviewRefused, vars
<1>3. CASE ReviewUpdates(v)
  BY <1>3 DEF ReviewUpdates, Reviewed
<1>4. CASE ReviewConflicts(v) \/ ReviewTooLong(v) \/ ReviewRereads(v) \/ ReviewAudits(v)
           \/ ReviewFails(v)
  BY <1>4 DEF ReviewConflicts, ReviewTooLong, ReviewRereads, ReviewAudits, ReviewFails
<1> QED
  BY <1>1, <1>2, <1>3, <1>4 DEF ReviewStep

-----------------------------------------------------------------------------
(***************************************************************************)
(* Evidence rests on processed runs: the check is made two statements      *)
(* before the insert, and no transition undoes what it established.        *)
(***************************************************************************)
\* All sources are runs of the area and have been processed.
Sound(input) == \A r \in input.sources : RunArea[r] = input.area /\ runs[r] \in Finished

SourcesInv ==
    /\ \A id \in DOMAIN gaps : Sound(gaps[id].input)
    /\ \A d \in Detectors :
          detections[d].pc \in {"lookup", "insert"} => Sound(detections[d].input)

\* A detection step keeps SourcesInv.
LEMMA SourcesDetectStep ==
  ASSUME TypeInv, SourcesInv, NEW d \in Detectors, DetectStep(d)
  PROVE  SourcesInv'
<1> DEFINE RequestSound == detections'[d].pc \in {"lookup", "insert"}
                              => Sound(detections'[d].input)
<1>1. /\ runs' = runs
      /\ \A id \in DOMAIN gaps : gaps'[id] = gaps[id]
      /\ \A e \in Detectors \ {d} : detections'[e] = detections[e]
      /\ gaps' = gaps \/ DetectInserts(d)
  BY DetectStepFrame
<1>2. RequestSound
  <2> USE DEF TypeInv, TypeOK, DetectRequest
  <2>1. ASSUME NEW a \in Areas, NEW sources \in SUBSET Runs \ {{}},
               NEW algorithm \in Algorithms, NEW requested \in Resolutions \cup {Nothing},
               DetectReadsArea(d, a, sources, algorithm, requested)
        PROVE  RequestSound
    BY <2>1 DEF DetectReadsArea
  <2>2. CASE DetectReadsRuns(d)
    BY <2>2 DEF DetectReadsRuns, Usable, Sound, Finished
  <2>3. CASE DetectComputes(d)
    BY <2>3 DEF DetectComputes, NoDetection, DetectAnswer, SourcesInv
  <2>4. CASE DetectInserts(d)
    <3>1. PICK id \in GapIds \ DOMAIN gaps :
             detections' = [detections EXCEPT ![d].pc = "audit", ![d].gap = id]
      BY <2>4 DEF DetectInserts
    <3>2. detections'[d].pc = "audit"
      BY <3>1
    <3> QED
      BY <3>2
  <2>5. CASE DetectFindsExisting(d)
    <3>1. PICK id \in DOMAIN gaps :
             detections' = [detections EXCEPT ![d] =
                               DetectAnswer("existing", detections[d].input, id)]
      BY <2>5 DEF DetectFindsExisting
    <3> QED
      BY <3>1 DEF DetectAnswer
  <2>6. CASE DetectRefused(d) \/ DetectDuplicates(d) \/ DetectAudits(d) \/ DetectFails(d)
    BY <2>6 DEF DetectRefused, DetectDuplicates, DetectAudits, DetectFails,
                NoDetection, DetectAnswer
  <2> QED
    BY <2>1, <2>2, <2>3, <2>4, <2>5, <2>6 DEF DetectStep
<1>3. \A id \in DOMAIN gaps' : Sound(gaps'[id].input)
  <2>1. CASE gaps' = gaps
    BY <2>1 DEF SourcesInv
  <2>2. CASE DetectInserts(d)
    <3>1. PICK id \in GapIds \ DOMAIN gaps : Inserted(d, id)
      BY <2>2 DEF DetectInserts, Inserted
    <3>2. /\ DOMAIN gaps' = DOMAIN gaps \cup {id}
          /\ gaps'[id].input = detections[d].input
      BY <3>1 DEF Inserted, NewGap
    <3>3. Sound(detections[d].input)
      BY <2>2 DEF DetectInserts, SourcesInv
    <3> QED
      BY <1>1, <3>2, <3>3 DEF SourcesInv
  <2> QED
    BY <1>1, <2>1, <2>2
<1> QED
  BY <1>1, <1>2, <1>3 DEF SourcesInv, Sound

\* A gap rests on processed runs of its area in every reachable state.
THEOREM EvidenceIsProcessed == Spec => []GapsRestOnProcessedRuns
<1>1. Init => SourcesInv
  BY SeedAssumption DEF Init, SourcesInv, Sound, NoDetection, DetectAnswer
<1>2. ASSUME TypeInv, SourcesInv, [Next]_vars
      PROVE  SourcesInv'
  <2>1. ASSUME NEW d \in Detectors, DetectStep(d)
        PROVE  SourcesInv'
    BY <1>2, <2>1, SourcesDetectStep
  <2>2. ASSUME NEW v \in Reviewers, ReviewStep(v)
        PROVE  SourcesInv'
    BY <1>2, <2>2, ReviewStepFrame DEF SourcesInv, Sound
  <2>3. ASSUME NEW r \in Runs, NEW target \in RunStates, RunMoved(r, target)
        PROVE  SourcesInv'
    <3>1. \A other \in Runs : runs[other] \in Finished => runs'[other] \in Finished
      BY <1>2, <2>3 DEF RunMoved, CanTransition, RunMoves, Finished, TypeInv, TypeOK
    <3>2. /\ \A id \in DOMAIN gaps : gaps[id].input.sources \subseteq Runs
          /\ \A d \in Detectors : detections[d].pc # "idle"
                => detections[d].input.sources \subseteq Runs
      BY <1>2 DEF TypeInv, TypeOK, RequestsOK, Gap, Input
    <3> QED
      BY <1>2, <2>3, <3>1, <3>2 DEF RunMoved, SourcesInv, Sound
  <2>4. CASE \/ \E a \in Areas, boundary \in Boundaries, resolution \in Resolutions :
                  AreaRevised(a, boundary, resolution)
             \/ UNCHANGED vars
    BY <1>2, <2>4 DEF AreaRevised, vars, SourcesInv, Sound
  <2> QED
    BY <1>2, <2>1, <2>2, <2>3, <2>4 DEF Next
<1>3. SourcesInv => GapsRestOnProcessedRuns
  BY DEF SourcesInv, Sound, GapsRestOnProcessedRuns
<1> QED
  BY <1>1, <1>2, <1>3, TypeInvariant, PTL DEF Spec

-----------------------------------------------------------------------------
(***************************************************************************)
(* One input, one gap: the unique index makes hashes distinct, and each    *)
(* successful answer names the gap that carries the hash of the request.   *)
(***************************************************************************)
\* The request knows its gap: it inserted it, or was answered with it.
KnowsGap(d) ==
    \/ detections[d].pc = "audit"
    \/ detections[d].answer \in {"detected", "existing"}

HashesDiffer ==
    \A id \in DOMAIN gaps : \A other \in DOMAIN gaps \ {id} :
        StableInputHash(gaps[id].input) # StableInputHash(gaps[other].input)

HashInv ==
    /\ HashesDiffer
    /\ \A d \in Detectors : KnowsGap(d) => /\ detections[d].gap \in DOMAIN gaps
                                           /\ SameHash(detections[d].gap, detections[d].input)

\* A detection that leaves the table alone keeps HashInv if its own request
\* only claims a gap that carries its hash.
LEMMA HashRequestStep ==
  ASSUME TypeInv, HashInv, NEW d \in Detectors, gaps' = gaps,
         \A e \in Detectors \ {d} : detections'[e] = detections[e],
         KnowsGap(d)' => /\ detections'[d].gap \in DOMAIN gaps
                         /\ SameHash(detections'[d].gap, detections'[d].input)
  PROVE  HashInv'
  BY DEF HashInv, HashesDiffer, KnowsGap, SameHash

\* The insert adds a row whose hash no row had.
LEMMA HashInserts ==
  ASSUME TypeInv, HashInv, NEW d \in Detectors, DetectInserts(d)
  PROVE  HashInv'
<1>1. PICK id \in GapIds \ DOMAIN gaps : Inserted(d, id)
  BY DEF DetectInserts, Inserted
<1>2. /\ DOMAIN gaps' = DOMAIN gaps \cup {id}
      /\ gaps'[id].input = detections[d].input
      /\ \A known \in DOMAIN gaps : gaps'[known] = gaps[known]
  BY <1>1 DEF Inserted, NewGap
<1>3. /\ detections'[d].gap = id /\ detections'[d].input = detections[d].input
      /\ \A e \in Detectors \ {d} : detections'[e] = detections[e]
  BY <1>1 DEF Inserted, TypeInv, TypeOK, DetectRequest
<1>4. \A known \in DOMAIN gaps :
         StableInputHash(gaps[known].input) # StableInputHash(detections[d].input)
  BY DEF DetectInserts, Insertable, SameHash
<1>5. HashesDiffer'
  BY <1>2, <1>4 DEF HashInv, HashesDiffer
<1>6. ASSUME NEW e \in Detectors, KnowsGap(e)'
      PROVE  detections'[e].gap \in DOMAIN gaps'
             /\ SameHash(detections[e].gap, detections[e].input)'
  BY <1>2, <1>3, <1>6 DEF HashInv, KnowsGap, SameHash
<1> QED
  BY <1>5, <1>6 DEF HashInv

\* Every step of a detection keeps HashInv.
LEMMA HashDetectStep ==
  ASSUME TypeInv, HashInv, NEW d \in Detectors, DetectStep(d)
  PROVE  HashInv'
<1> USE DEF TypeInv, TypeOK
<1>1. ASSUME NEW a \in Areas, NEW sources \in SUBSET Runs \ {{}},
             NEW algorithm \in Algorithms, NEW requested \in Resolutions \cup {Nothing},
             DetectReadsArea(d, a, sources, algorithm, requested)
      PROVE  HashInv'
  BY <1>1, HashRequestStep DEF DetectReadsArea, KnowsGap
<1>2. CASE DetectReadsRuns(d)
  <2>1. /\ detections'[d].pc = "lookup" /\ detections'[d].answer = detections[d].answer
        /\ detections'[d].gap = detections[d].gap
        /\ detections'[d].input = detections[d].input
    BY <1>2 DEF DetectReadsRuns, DetectRequest
  <2> QED
    BY <1>2, <2>1, HashRequestStep DEF DetectReadsRuns, HashInv, KnowsGap
<1>3. CASE DetectRefused(d) \/ DetectDuplicates(d) \/ DetectFails(d)
  <2>1. gaps' = gaps /\ \A e \in Detectors \ {d} : detections'[e] = detections[e]
    BY <1>3 DEF DetectRefused, DetectDuplicates, DetectFails
  <2>2. detections'[d].pc = "idle" /\ detections'[d].answer \in {"none", "duplicate"}
    BY <1>3 DEF DetectRefused, DetectDuplicates, DetectFails, NoDetection, DetectAnswer
  <2> QED
    BY <2>1, <2>2, HashRequestStep DEF KnowsGap
<1>4. CASE DetectFindsExisting(d)
  <2>1. PICK id \in DOMAIN gaps :
          /\ SameHash(id, detections[d].input)
          /\ detections' = [detections EXCEPT ![d] =
                               DetectAnswer("existing", detections[d].input, id)]
    BY <1>4 DEF DetectFindsExisting
  <2>2. detections'[d].gap = id /\ detections'[d].input = detections[d].input
    BY <2>1 DEF DetectAnswer
  <2> QED
    BY <1>4, <2>1, <2>2, HashRequestStep DEF DetectFindsExisting
<1>5. CASE DetectComputes(d)
  <2>1. gaps' = gaps /\ \A e \in Detectors \ {d} : detections'[e] = detections[e]
    BY <1>5 DEF DetectComputes
  <2>2. CASE Computable(detections[d].input)
    <3>1. /\ detections'[d].pc = "insert" /\ detections'[d].answer = detections[d].answer
          /\ detections'[d].gap = detections[d].gap
          /\ detections'[d].input = detections[d].input
      BY <1>5, <2>2 DEF DetectComputes, DetectRequest
    <3> QED
      BY <2>1, <3>1, HashRequestStep DEF HashInv, KnowsGap
  <2>3. CASE ~Computable(detections[d].input)
    <3>1. detections'[d].pc = "idle" /\ detections'[d].answer = "none"
      BY <1>5, <2>3 DEF DetectComputes, NoDetection, DetectAnswer
    <3> QED
      BY <2>1, <3>1, HashRequestStep DEF KnowsGap
  <2> QED
    BY <2>2, <2>3
<1>6. CASE DetectInserts(d)
  BY <1>6, HashInserts
<1>7. CASE DetectAudits(d)
  <2>1. detections'[d].gap = detections[d].gap /\ detections'[d].input = detections[d].input
    BY <1>7 DEF DetectAudits, DetectAnswer
  <2> QED
    BY <1>7, <2>1, HashRequestStep DEF DetectAudits, HashInv, KnowsGap
<1> QED
  BY <1>1, <1>2, <1>3, <1>4, <1>5, <1>6, <1>7 DEF DetectStep

\* Two successful answers to requests with one hash name one gap.
THEOREM InputsHaveOneGap == Spec => []OneInputOneGap
<1>1. Init => HashInv
  BY SeedAssumption DEF Init, HashInv, HashesDiffer, KnowsGap, NoDetection, DetectAnswer
<1>2. ASSUME TypeInv, HashInv, [Next]_vars
      PROVE  HashInv'
  <2>1. ASSUME NEW d \in Detectors, DetectStep(d)
        PROVE  HashInv'
    BY <1>2, <2>1, HashDetectStep
  <2>2. ASSUME NEW v \in Reviewers, ReviewStep(v)
        PROVE  HashInv'
    <3>1. /\ detections' = detections /\ DOMAIN gaps' = DOMAIN gaps
          /\ \A id \in DOMAIN gaps : gaps'[id].input = gaps[id].input
      BY <1>2, <2>2, ReviewStepFrame
    <3> QED
      BY <1>2, <3>1 DEF HashInv, HashesDiffer, KnowsGap, SameHash
  <2>3. CASE \/ \E a \in Areas, boundary \in Boundaries, resolution \in Resolutions :
                   AreaRevised(a, boundary, resolution)
             \/ \E r \in Runs, target \in RunStates : RunMoved(r, target)
             \/ UNCHANGED vars
    <3>1. UNCHANGED <<gaps, detections>>
      BY <2>3 DEF AreaRevised, RunMoved, vars
    <3> QED
      BY <1>2, <3>1 DEF HashInv, HashesDiffer, KnowsGap, SameHash
  <2> QED
    BY <1>2, <2>1, <2>2, <2>3 DEF Next
<1>3. HashInv => OneInputOneGap
  <2> SUFFICES ASSUME HashInv, NEW d \in Detectors,
                      detections[d].answer \in {"detected", "existing"}
               PROVE  /\ \A field \in {"area", "sources", "algorithm", "resolution"} :
                            gaps[detections[d].gap].input[field] = detections[d].input[field]
                      /\ \A e \in Detectors :
                            /\ detections[e].answer \in {"detected", "existing"}
                            /\ StableInputHash(detections[e].input)
                                  = StableInputHash(detections[d].input)
                            => detections[e].gap = detections[d].gap
    BY DEF OneInputOneGap
  <2>1. /\ detections[d].gap \in DOMAIN gaps
        /\ SameHash(detections[d].gap, detections[d].input)
    BY DEF HashInv, KnowsGap
  <2>2. \A field \in {"area", "sources", "algorithm", "resolution"} :
           gaps[detections[d].gap].input[field] = detections[d].input[field]
    BY <2>1 DEF SameHash, StableInputHash
  <2>3. ASSUME NEW e \in Detectors, detections[e].answer \in {"detected", "existing"},
               StableInputHash(detections[e].input) = StableInputHash(detections[d].input)
        PROVE  detections[e].gap = detections[d].gap
    <3>1. /\ detections[e].gap \in DOMAIN gaps
          /\ SameHash(detections[e].gap, detections[e].input)
      BY <2>3 DEF HashInv, KnowsGap
    <3> QED
      BY <2>1, <2>3, <3>1 DEF HashInv, HashesDiffer, SameHash
  <2> QED
    BY <2>2, <2>3
<1> QED
  BY <1>1, <1>2, <1>3, TypeInvariant, PTL DEF Spec

-----------------------------------------------------------------------------
(***************************************************************************)
(* Reviews: the row a review has read either still is the row of the       *)
(* table, or the gap has gone on to a higher version and further along     *)
(* its lifecycle.  The UPDATE, which compares the state, therefore only    *)
(* goes through on the row the new explanation was composed from.          *)
(***************************************************************************)
RowIsAsRead(v) ==
    \/ gaps[reviews[v].gap] = reviews[v].before
    \/ /\ gaps[reviews[v].gap].version > reviews[v].before.version
       /\ GapRank[gaps[reviews[v].gap].gap_state] > GapRank[reviews[v].before.gap_state]

\* The request is about to write what it composed from the row it read, on a
\* move the handler has checked.
Pending(v) ==
    /\ RowIsAsRead(v)
    /\ reviews[v].before.input = gaps[reviews[v].gap].input
    /\ CanTransition(GapMoves, reviews[v].before.gap_state, reviews[v].target)

RaceInv == \A v \in Reviewers : reviews[v].pc = "update" => Pending(v)

\* The lifecycle has no cycle: every move raises the rank.
LEMMA MovesRaiseRank ==
  ASSUME NEW from \in GapStates, NEW target \in GapStates,
         CanTransition(GapMoves, from, target)
  PROVE  GapRank[target] > GapRank[from]
  BY DEF CanTransition, GapMoves, GapStates, GapRank

\* Ranks can be compared.
LEMMA RankIsNatural ==
  ASSUME NEW state \in GapStates
  PROVE  GapRank[state] \in Nat
  BY DEF GapStates, GapRank

\* What the UPDATE does to the row: a later version, further along, with one
\* note more than the row it replaces.
LEMMA UpdateGoesOn ==
  ASSUME TypeInv, RaceInv, NEW v \in Reviewers, ReviewUpdates(v)
  PROVE  \E id \in DOMAIN gaps :
            /\ id = reviews[v].gap
            /\ gaps[id] = reviews[v].before
            /\ gaps'[id].input = gaps[id].input
            /\ gaps'[id].explanation = Append(gaps[id].explanation, reviews[v].note)
            /\ gaps'[id].gap_state = reviews[v].target
            /\ gaps'[id].version = gaps[id].version + 1
            /\ CanTransition(GapMoves, gaps[id].gap_state, reviews[v].target)
            /\ GapRank[gaps'[id].gap_state] > GapRank[gaps[id].gap_state]
            /\ \A other \in DOMAIN gaps \ {id} : gaps'[other] = gaps[other]
<1>1. reviews[v].pc = "update"
  BY DEF ReviewUpdates
<1>2. PICK id \in DOMAIN gaps :
        /\ id = reviews[v].gap
        /\ Reviewed(reviews[v]) =
              [input |-> gaps[id].input, gap_state |-> reviews[v].target,
               explanation |-> Append(reviews[v].before.explanation, reviews[v].note),
               version |-> gaps[id].version + 1]
  BY <1>1, ReviewedIsGap
<1>3. /\ gaps[id] \in Gap /\ reviews[v].before \in Gap /\ reviews[v].target \in GapStates
  BY <1>1 DEF TypeInv, TypeOK, RequestsOK
<1>4. gaps[id] = reviews[v].before
  <2>1. GapRank[reviews[v].before.gap_state] \in Nat
    BY <1>3, RankIsNatural DEF Gap
  <2>2. ~(GapRank[gaps[id].gap_state] > GapRank[reviews[v].before.gap_state])
    BY <1>2, <2>1 DEF ReviewUpdates, GapMatches
  <2> QED
    BY <1>1, <1>2, <2>2 DEF RaceInv, Pending, RowIsAsRead
<1>5. CanTransition(GapMoves, gaps[id].gap_state, reviews[v].target)
  BY <1>1, <1>4 DEF RaceInv, Pending
<1>6. GapRank[reviews[v].target] > GapRank[gaps[id].gap_state]
  BY <1>3, <1>5, MovesRaiseRank DEF Gap
<1>7. /\ gaps'[id] = Reviewed(reviews[v])
      /\ \A other \in DOMAIN gaps \ {id} : gaps'[other] = gaps[other]
  BY <1>2 DEF ReviewUpdates, TypeInv, TypeOK
<1>8. /\ gaps'[id].input = gaps[id].input
      /\ gaps'[id].explanation = Append(gaps[id].explanation, reviews[v].note)
      /\ gaps'[id].gap_state = reviews[v].target
      /\ gaps'[id].version = gaps[id].version + 1
  BY <1>2, <1>4, <1>7
<1>9. GapRank[gaps'[id].gap_state] > GapRank[gaps[id].gap_state]
  BY <1>6, <1>8
<1> QED
  BY <1>2, <1>4, <1>5, <1>7, <1>8, <1>9, Zenon

\* A review starts by reading the row it will write.
LEMMA RaceReads ==
  ASSUME TypeInv, RaceInv, NEW v \in Reviewers, NEW id \in GapIds, NEW target \in GapStates,
         NEW expected \in ExpectedVersions, NEW note \in Notes,
         ReviewReads(v, id, target, expected, note)
  PROVE  RaceInv'
<1>1. /\ reviews'[v] = [pc |-> "update", gap |-> id, target |-> target,
                        expected |-> expected, note |-> note, before |-> gaps[id],
                        after |-> 0]
      /\ \A w \in Reviewers \ {v} : reviews'[w] = reviews[w]
      /\ gaps' = gaps
  BY DEF ReviewReads, TypeInv, TypeOK
<1>2. Pending(v)'
  BY <1>1 DEF ReviewReads, Pending, RowIsAsRead
<1> QED
  BY <1>1, <1>2 DEF RaceInv, Pending, RowIsAsRead

\* The UPDATE of one review moves the row on for all of them.
LEMMA RaceUpdates ==
  ASSUME TypeInv, RaceInv, NEW v \in Reviewers, ReviewUpdates(v)
  PROVE  RaceInv'
<1>1. PICK id \in DOMAIN gaps :
        /\ id = reviews[v].gap
        /\ gaps'[id].input = gaps[id].input
        /\ gaps'[id].gap_state = reviews[v].target
        /\ gaps'[id].version = gaps[id].version + 1
        /\ GapRank[gaps'[id].gap_state] > GapRank[gaps[id].gap_state]
        /\ \A other \in DOMAIN gaps \ {id} : gaps'[other] = gaps[other]
  BY UpdateGoesOn
<1>2. reviews'[v].pc = "reread" /\ \A w \in Reviewers \ {v} : reviews'[w] = reviews[w]
  BY DEF ReviewUpdates, TypeInv, TypeOK, ReviewRequest
<1>3. /\ gaps[id].version \in Nat /\ GapRank[gaps[id].gap_state] \in Nat
      /\ GapRank[gaps'[id].gap_state] \in Nat
  <2>1. gaps[id] \in Gap /\ gaps'[id].gap_state \in GapStates
    BY <1>1 DEF TypeInv, TypeOK, RequestsOK, ReviewUpdates
  <2> QED
    BY <2>1, RankIsNatural DEF Gap
<1>4. ASSUME NEW w \in Reviewers \ {v}, reviews[w].pc = "update"
      PROVE  Pending(w)'
  <2>1. /\ reviews[w].gap \in DOMAIN gaps
        /\ reviews[w].before.version \in Nat
        /\ GapRank[reviews[w].before.gap_state] \in Nat
    BY <1>4, RankIsNatural DEF TypeInv, RequestsOK, Gap
  <2>2. Pending(w)
    BY <1>4 DEF RaceInv
  <2>3. CASE reviews[w].gap = id
    BY <1>1, <1>2, <1>3, <2>1, <2>2, <2>3 DEF Pending, RowIsAsRead
  <2>4. CASE reviews[w].gap # id
    BY <1>1, <1>2, <2>1, <2>2, <2>4 DEF Pending, RowIsAsRead
  <2> QED
    BY <2>3, <2>4
<1> QED
  BY <1>2, <1>4 DEF RaceInv

\* Every other statement of a review leaves the table alone.
LEMMA RaceOther ==
  ASSUME TypeInv, RaceInv, NEW v \in Reviewers,
         \/ ReviewConflicts(v) \/ ReviewTooLong(v) \/ ReviewRereads(v)
         \/ ReviewAudits(v) \/ ReviewFails(v)
  PROVE  RaceInv'
<1>1. gaps' = gaps /\ \A w \in Reviewers \ {v} : reviews'[w] = reviews[w]
  BY DEF ReviewConflicts, ReviewTooLong, ReviewRereads, ReviewAudits, ReviewFails,
         TypeInv, TypeOK
<1>2. reviews'[v].pc # "update"
  <2>1. CASE ReviewRereads(v)
    BY <2>1 DEF ReviewRereads, TypeInv, TypeOK, ReviewRequest
  <2>2. CASE ReviewConflicts(v) \/ ReviewTooLong(v) \/ ReviewAudits(v) \/ ReviewFails(v)
    BY <2>2 DEF ReviewConflicts, ReviewTooLong, ReviewAudits, ReviewFails, NoReview,
                TypeInv, TypeOK
  <2> QED
    BY <2>1, <2>2
<1> QED
  BY <1>1, <1>2 DEF RaceInv, Pending, RowIsAsRead

\* Reviews read, race and write as RaceInv says, in every behaviour.
THEOREM RaceInvariant == Spec => []RaceInv
<1>1. Init => RaceInv
  BY DEF Init, NoReview, RaceInv
<1>2. ASSUME TypeInv, RaceInv, [Next]_vars
      PROVE  RaceInv'
  <2>1. ASSUME NEW d \in Detectors, DetectStep(d)
        PROVE  RaceInv'
    <3>1. reviews' = reviews /\ \A id \in DOMAIN gaps : gaps'[id] = gaps[id]
      BY <1>2, <2>1, DetectStepFrame
    <3>2. \A v \in Reviewers : reviews[v].pc # "idle" => reviews[v].gap \in DOMAIN gaps
      BY <1>2 DEF TypeInv, RequestsOK
    <3> QED
      BY <1>2, <3>1, <3>2 DEF RaceInv, Pending, RowIsAsRead
  <2>2. ASSUME NEW v \in Reviewers, ReviewStep(v)
        PROVE  RaceInv'
    <3>1. ASSUME NEW id \in GapIds, NEW target \in GapStates, ReviewRefused(v, id, target)
          PROVE  RaceInv'
      BY <1>2, <3>1 DEF ReviewRefused, vars, RaceInv, Pending, RowIsAsRead
    <3> QED
      BY <1>2, <2>2, <3>1, RaceReads, RaceUpdates, RaceOther DEF ReviewStep
  <2>3. CASE \/ \E a \in Areas, boundary \in Boundaries, resolution \in Resolutions :
                   AreaRevised(a, boundary, resolution)
             \/ \E r \in Runs, target \in RunStates : RunMoved(r, target)
             \/ UNCHANGED vars
    <3>1. UNCHANGED <<gaps, reviews>>
      BY <2>3 DEF AreaRevised, RunMoved, vars
    <3> QED
      BY <1>2, <3>1 DEF RaceInv, Pending, RowIsAsRead
  <2> QED
    BY <1>2, <2>1, <2>2, <2>3 DEF Next
<1> QED
  BY <1>1, <1>2, TypeInvariant, PTL DEF Spec

-----------------------------------------------------------------------------
(***************************************************************************)
(* What follows for reviewers.                                             *)
(***************************************************************************)
\* A step changes the table only by an insert, an UPDATE of a review, or not at
\* all; the rows an insert finds stay as they are.
LEMMA TableSteps ==
  ASSUME TypeInv, [Next]_vars
  PROVE  \/ gaps' = gaps
         \/ \E d \in Detectors : DetectInserts(d) /\ DetectStep(d)
         \/ \E v \in Reviewers : ReviewUpdates(v) /\ ReviewStep(v)
<1>1. ASSUME NEW d \in Detectors, DetectStep(d)
      PROVE  gaps' = gaps \/ DetectInserts(d)
  BY <1>1, DetectStepFrame
<1>2. ASSUME NEW v \in Reviewers, ReviewStep(v)
      PROVE  gaps' = gaps \/ ReviewUpdates(v)
  BY <1>2, ReviewStepFrame
<1>3. CASE \/ \E a \in Areas, boundary \in Boundaries, resolution \in Resolutions :
                 AreaRevised(a, boundary, resolution)
           \/ \E r \in Runs, target \in RunStates : RunMoved(r, target)
           \/ UNCHANGED vars
  BY <1>3 DEF AreaRevised, RunMoved, vars
<1> QED
  BY <1>1, <1>2, <1>3 DEF Next

\* Whoever moves a gap on adds a note to the explanation the gap has, and
\* drops none.
THEOREM NotesStay == Spec => NotesAreKept
<1>1. ASSUME TypeInv, RaceInv, [Next]_vars, NEW id \in DOMAIN gaps,
             gaps'[id].version # gaps[id].version
      PROVE  \E v \in Reviewers :
                /\ reviews[v].gap = id
                /\ gaps'[id].explanation = Append(gaps[id].explanation, reviews[v].note)
  <2>1. ASSUME NEW d \in Detectors, DetectStep(d)
        PROVE  FALSE
    BY <1>1, <2>1, DetectStepFrame
  <2>2. PICK v \in Reviewers : ReviewUpdates(v)
    BY <1>1, <2>1, TableSteps
  <2>3. PICK row \in DOMAIN gaps :
          /\ row = reviews[v].gap
          /\ gaps'[row].explanation = Append(gaps[row].explanation, reviews[v].note)
          /\ \A other \in DOMAIN gaps \ {row} : gaps'[other] = gaps[other]
    BY <1>1, <2>2, UpdateGoesOn
  <2>4. row = id
    BY <1>1, <2>3
  <2> QED
    BY <2>3, <2>4
<1>2. TypeInv /\ RaceInv /\ [Next]_vars
      => [\A id \in DOMAIN gaps :
             gaps'[id].version # gaps[id].version
             => \E v \in Reviewers :
                   /\ reviews[v].gap = id
                   /\ gaps'[id].explanation = Append(gaps[id].explanation, reviews[v].note)]_vars
  BY <1>1
<1> QED
  BY <1>2, TypeInvariant, RaceInvariant, PTL DEF Spec, NotesAreKept

\* A conflict answered to a reviewer that quoted the version it read means that
\* another reviewer has moved the gap on.
THEOREM ConflictsMeanProgress == Spec => ConflictMeansProgress
<1>1. ASSUME TypeInv, RaceInv, NEW v \in Reviewers, ReviewConflicts(v),
             reviews[v].expected = reviews[v].before.version
      PROVE  gaps[reviews[v].gap].version > reviews[v].before.version
  BY <1>1 DEF RaceInv, Pending, RowIsAsRead, ReviewConflicts, GapMatches
<1>2. TypeInv /\ RaceInv /\ [Next]_vars
      => [\A v \in Reviewers :
             /\ ReviewConflicts(v)
             /\ reviews[v].expected = reviews[v].before.version
             => gaps[reviews[v].gap].version > reviews[v].before.version]_vars
  BY <1>1
<1> QED
  BY <1>2, TypeInvariant, RaceInvariant, PTL DEF Spec, ConflictMeansProgress

-----------------------------------------------------------------------------
(***************************************************************************)
(* The refinement.                                                         *)
(***************************************************************************)
\* An insert is a creation.
LEMMA InsertIsCreate ==
  ASSUME TypeInv, NEW d \in Detectors, DetectInserts(d)
  PROVE  Ledger!Next
<1>1. PICK id \in GapIds \ DOMAIN gaps : Inserted(d, id)
  BY DEF DetectInserts, Inserted
<1>2. /\ DOMAIN gaps' = DOMAIN gaps \cup {id}
      /\ gaps'[id] = NewGap(detections[d].input)
      /\ \A known \in DOMAIN gaps : gaps'[known] = gaps[known]
  BY <1>1 DEF Inserted
<1>3. Ledger!Create(id)
  BY <1>1, <1>2 DEF Ledger!Create, Ledger!Others, NewGap
<1> QED
  BY <1>3 DEF Ledger!Next

\* A matching UPDATE is a move along the lifecycle that freezes the input.
LEMMA UpdateIsWrite ==
  ASSUME TypeInv, RaceInv, NEW v \in Reviewers, ReviewUpdates(v), ReviewStep(v)
  PROVE  Ledger!Next
<1>1. PICK id \in DOMAIN gaps :
        /\ gaps'[id].input = gaps[id].input
        /\ gaps'[id].gap_state = reviews[v].target
        /\ gaps'[id].version = gaps[id].version + 1
        /\ CanTransition(GapMoves, gaps[id].gap_state, reviews[v].target)
        /\ \A other \in DOMAIN gaps \ {id} : gaps'[other] = gaps[other]
  BY UpdateGoesOn
<1>2. DOMAIN gaps' = DOMAIN gaps
  BY ReviewStepFrame
<1>3. <<gaps[id].gap_state, gaps'[id].gap_state>> \in GapMoves
  BY <1>1 DEF CanTransition
<1>4. Ledger!Write(id)
  BY <1>1, <1>2, <1>3 DEF Ledger!Write, Ledger!Others
<1>5. id \in GapIds
  BY DEF TypeInv, TypeOK
<1> QED
  BY <1>4, <1>5 DEF Ledger!Next

\* A gap is a record with a state and a positive version.
LEMMA InitIsLedgerInit ==
  ASSUME Init
  PROVE  Ledger!Init
<1>1. TypeInv
  BY TypeInit
<1> QED
  BY <1>1 DEF Ledger!Init, TypeInv, TypeOK, Gap

\* All detections and reviews together implement the abstract table of gaps.
THEOREM GapsImplementLedger == Spec => ImplementsLedger
<1>1. ASSUME TypeInv, RaceInv, [Next]_vars
      PROVE  Ledger!Next \/ UNCHANGED gaps
  BY <1>1, TableSteps, InsertIsCreate, UpdateIsWrite
<1>2. TypeInv /\ RaceInv /\ [Next]_vars
      => [Ledger!Next]_[id \in DOMAIN gaps |-> [body |-> gaps[id].input,
                                                state |-> gaps[id].gap_state,
                                                version |-> gaps[id].version]]
  BY <1>1
<1>3. Init => Ledger!Init
  BY InitIsLedgerInit
<1> QED
  BY <1>2, <1>3, TypeInvariant, RaceInvariant, PTL
  DEF Spec, ImplementsLedger, Ledger!Spec

-----------------------------------------------------------------------------
(***************************************************************************)
(* The audit trail of the gaps is complete, for any number of workers: for *)
(* each detection and each version replaced there is an event, or one      *)
(* request that still owes it, or the lapse of the request that owed it.   *)
(***************************************************************************)
DetectionAccounted(id) ==
    \/ Told("coverage.detect", id, 0)
    \/ \E d \in Detectors : detections[d].pc = "audit" /\ detections[d].gap = id

\* The review has replaced version n of the gap and is about to tell of it, with
\* a later version that it has read again or is still to read.
Owes(v, id, n) ==
    /\ reviews[v].gap = id
    /\ reviews[v].before.version = n
    /\ \/ reviews[v].pc = "reread" /\ gaps[id].version > n
       \/ reviews[v].pc = "audit" /\ reviews[v].after \in n + 1 .. gaps[id].version

VersionAccounted(id, n) ==
    \/ Told("coverage.transition", id, n)
    \/ \E v \in Reviewers : Owes(v, id, n)

AccountInv ==
    \A id \in DOMAIN gaps :
        /\ id \notin DOMAIN SeedGaps => DetectionAccounted(id)
        /\ \A n \in FirstVersion(id) .. gaps[id].version - 1 : VersionAccounted(id, n)

\* A gap starts at a positive version.
LEMMA FirstVersionPositive ==
  ASSUME NEW id
  PROVE  FirstVersion(id) \in Nat \ {0}
  BY SeedAssumption DEF FirstVersion, Gap

\* No event is removed, and no lapse forgotten.
LEMMA TrailGrows ==
  ASSUME TypeInv, [Next]_vars
  PROVE  audits \subseteq audits' /\ lapses \subseteq lapses'
<1>1. ASSUME NEW d \in Detectors, DetectStep(d)
      PROVE  audits \subseteq audits' /\ lapses \subseteq lapses'
  BY <1>1 DEF DetectStep, DetectReadsArea, DetectReadsRuns, DetectRefused, DetectFindsExisting,
              DetectComputes, DetectInserts, DetectDuplicates, DetectAudits, DetectFails
<1>2. ASSUME NEW v \in Reviewers, ReviewStep(v)
      PROVE  audits \subseteq audits' /\ lapses \subseteq lapses'
  BY <1>2 DEF ReviewStep, ReviewReads, ReviewRefused, ReviewUpdates, ReviewConflicts,
              ReviewTooLong, ReviewRereads, ReviewAudits, ReviewFails, vars
<1>3. CASE \/ \E a \in Areas, boundary \in Boundaries, resolution \in Resolutions :
                 AreaRevised(a, boundary, resolution)
           \/ \E r \in Runs, target \in RunStates : RunMoved(r, target)
           \/ UNCHANGED vars
  BY <1>3 DEF AreaRevised, RunMoved, vars
<1> QED
  BY <1>1, <1>2, <1>3 DEF Next

\* The version of a gap only grows.
LEMMA VersionsGrow ==
  ASSUME TypeInv, RaceInv, [Next]_vars, NEW id \in DOMAIN gaps
  PROVE  /\ gaps[id].version \in Nat \ {0}
         /\ gaps'[id].version \in Nat \ {0}
         /\ gaps'[id].version >= gaps[id].version
<1>1. gaps[id].version \in Nat \ {0}
  BY DEF TypeInv, TypeOK, Gap
<1>2. CASE gaps'[id] = gaps[id]
  BY <1>1, <1>2
<1>3. ASSUME NEW d \in Detectors, DetectInserts(d), DetectStep(d)
      PROVE  gaps'[id] = gaps[id]
  BY <1>3, DetectStepFrame
<1>4. ASSUME NEW v \in Reviewers, ReviewUpdates(v)
      PROVE  gaps'[id] = gaps[id] \/ gaps'[id].version = gaps[id].version + 1
  BY <1>4, UpdateGoesOn
<1>5. CASE gaps'[id].version = gaps[id].version + 1
  BY <1>1, <1>5
<1> QED
  BY <1>2, <1>3, <1>4, <1>5, TableSteps

\* What has been told stays told.
LEMMA ToldStays ==
  ASSUME TypeInv, RaceInv, [Next]_vars, NEW id \in DOMAIN gaps, NEW action, NEW n \in Nat,
         Told(action, id, n)
  PROVE  Told(action, id, n)'
<1>1. audits \subseteq audits' /\ lapses \subseteq lapses'
  BY TrailGrows
<1>2. CASE <<id, n>> \in lapses
  BY <1>1, <1>2 DEF Told
<1>3. CASE \E event \in audits :
              /\ event.action = action /\ event.gap = id /\ event.before = n
              /\ event.after \in n + 1 .. gaps[id].version
  <2>1. PICK event \in audits :
              /\ event.action = action /\ event.gap = id /\ event.before = n
              /\ event.after \in n + 1 .. gaps[id].version
    BY <1>3
  <2>2. event.after \in n + 1 .. gaps'[id].version
    BY <2>1, VersionsGrow
  <2> QED
    BY <1>1, <2>1, <2>2 DEF Told
<1> QED
  BY <1>2, <1>3 DEF Told

-----------------------------------------------------------------------------
(***************************************************************************)
(* Detections.                                                             *)
(***************************************************************************)
\* A detection keeps the account of every detection: a lapse is noted.
LEMMA DetectKeepsDetections ==
  ASSUME TypeInv, RaceInv, NEW d \in Detectors, DetectStep(d), NEW id \in DOMAIN gaps,
         DetectionAccounted(id)
  PROVE  DetectionAccounted(id)'
<1>1. /\ gaps'[id] = gaps[id]
      /\ \A e \in Detectors \ {d} : detections'[e] = detections[e]
  BY DetectStepFrame
<1>2. CASE Told("coverage.detect", id, 0)
  BY <1>2, ToldStays DEF DetectionAccounted, Next
<1>3. CASE \E e \in Detectors \ {d} : detections[e].pc = "audit" /\ detections[e].gap = id
  BY <1>1, <1>3 DEF DetectionAccounted
<1>4. CASE detections[d].pc = "audit" /\ detections[d].gap = id
  <2>1. DetectAudits(d) \/ DetectFails(d)
    BY <1>4 DEF DetectStep, DetectReadsArea, DetectReadsRuns, DetectRefused,
                DetectFindsExisting, DetectComputes, DetectInserts, DetectDuplicates
  <2>2. CASE DetectAudits(d)
    <3>1. PICK event \in audits' : event = DetectEvent(detections[d])
      BY <2>2 DEF DetectAudits
    <3>2. /\ event.action = "coverage.detect" /\ event.gap = id
          /\ event.before = 0 /\ event.after = 1
      BY <1>4, <3>1 DEF DetectEvent, NewGap
    <3>3. event.after \in 0 + 1 .. gaps'[id].version
      BY <1>1, <3>2, VersionsGrow DEF Next
    <3> QED
      BY <3>2, <3>3 DEF DetectionAccounted, Told
  <2>3. CASE DetectFails(d)
    BY <1>4, <2>3 DEF DetectFails, DetectionAccounted, Told
  <2> QED
    BY <2>1, <2>2, <2>3
<1> QED
  BY <1>2, <1>3, <1>4 DEF DetectionAccounted

\* A detection keeps the account of every version: it touches neither the
\* reviews nor the rows they wrote.
LEMMA DetectKeepsVersions ==
  ASSUME TypeInv, RaceInv, NEW d \in Detectors, DetectStep(d), NEW id \in DOMAIN gaps,
         NEW n \in Nat, VersionAccounted(id, n)
  PROVE  VersionAccounted(id, n)'
<1>1. reviews' = reviews /\ gaps'[id] = gaps[id]
  BY DetectStepFrame
<1>2. CASE Told("coverage.transition", id, n)
  BY <1>2, ToldStays DEF VersionAccounted, Next
<1>3. CASE \E v \in Reviewers : Owes(v, id, n)
  BY <1>1, <1>3 DEF VersionAccounted, Owes
<1> QED
  BY <1>2, <1>3 DEF VersionAccounted

\* Every step of a detection keeps the accounts.
LEMMA AccountDetectStep ==
  ASSUME TypeInv, RaceInv, AccountInv, NEW d \in Detectors, DetectStep(d)
  PROVE  AccountInv'
<1>1. /\ DOMAIN gaps \subseteq DOMAIN gaps'
      /\ \A id \in DOMAIN gaps : gaps'[id] = gaps[id]
      /\ gaps' = gaps \/ DetectInserts(d)
  BY DetectStepFrame
<1>2. ASSUME NEW id \in DOMAIN gaps
      PROVE  /\ id \notin DOMAIN SeedGaps => DetectionAccounted(id)'
             /\ \A n \in FirstVersion(id) .. gaps'[id].version - 1 : VersionAccounted(id, n)'
  <2>1. id \notin DOMAIN SeedGaps => DetectionAccounted(id)'
    BY <1>2, DetectKeepsDetections DEF AccountInv
  <2>2. ASSUME NEW n \in FirstVersion(id) .. gaps'[id].version - 1
        PROVE  VersionAccounted(id, n)'
    <3>1. n \in Nat
      BY <2>2, FirstVersionPositive
    <3>2. VersionAccounted(id, n)
      BY <1>1, <1>2, <2>2 DEF AccountInv
    <3> QED
      BY <3>1, <3>2, DetectKeepsVersions
  <2> QED
    BY <2>1, <2>2
<1>3. ASSUME NEW id \in DOMAIN gaps' \ DOMAIN gaps
      PROVE  /\ id \notin DOMAIN SeedGaps => DetectionAccounted(id)'
             /\ \A n \in FirstVersion(id) .. gaps'[id].version - 1 : VersionAccounted(id, n)'
  <2>1. DetectInserts(d)
    BY <1>1, <1>3
  <2>2. PICK new \in GapIds \ DOMAIN gaps : Inserted(d, new)
    BY <2>1 DEF DetectInserts, Inserted
  <2>3. new = id /\ gaps'[id].version = 1
    BY <1>3, <2>2 DEF Inserted, NewGap
  <2>4. detections'[d].pc = "audit" /\ detections'[d].gap = id
    BY <2>2, <2>3 DEF Inserted, TypeInv, TypeOK, DetectRequest
  <2>5. FirstVersion(id) \in Nat \ {0}
    BY FirstVersionPositive
  <2>6. FirstVersion(id) .. gaps'[id].version - 1 = {}
    BY <2>3, <2>5
  <2> QED
    BY <2>4, <2>6 DEF DetectionAccounted
<1> QED
  BY <1>2, <1>3 DEF AccountInv, FirstVersion

-----------------------------------------------------------------------------
(***************************************************************************)
(* Reviews.                                                                *)
(***************************************************************************)
\* A review keeps the account of every version: a lapse is noted.
LEMMA ReviewKeepsVersions ==
  ASSUME TypeInv, RaceInv, NEW v \in Reviewers, ReviewStep(v), NEW id \in DOMAIN gaps,
         NEW n \in Nat, VersionAccounted(id, n)
  PROVE  VersionAccounted(id, n)'
<1>1. \A w \in Reviewers \ {v} : reviews'[w] = reviews[w]
  BY DEF ReviewStep, ReviewReads, ReviewRefused, ReviewUpdates, ReviewConflicts, ReviewTooLong,
         ReviewRereads, ReviewAudits, ReviewFails, vars, TypeInv, TypeOK
<1>2. /\ gaps[id].version \in Nat /\ gaps'[id].version \in Nat
      /\ gaps'[id].version >= gaps[id].version
  BY VersionsGrow DEF Next
<1>3. CASE Told("coverage.transition", id, n)
  BY <1>3, ToldStays DEF VersionAccounted, Next
<1>4. ASSUME NEW w \in Reviewers \ {v}, Owes(w, id, n)
      PROVE  VersionAccounted(id, n)'
  <2>1. Owes(w, id, n)'
    BY <1>1, <1>2, <1>4 DEF Owes
  <2> QED
    BY <2>1 DEF VersionAccounted
<1>5. CASE Owes(v, id, n)
  <2>1. ReviewRereads(v) \/ ReviewAudits(v) \/ ReviewFails(v) \/ UNCHANGED vars
    BY <1>5 DEF Owes, ReviewStep, ReviewReads, ReviewRefused, ReviewUpdates, ReviewConflicts,
                ReviewTooLong
  <2>2. CASE ReviewRereads(v)
    <3>1. /\ reviews'[v].pc = "audit" /\ reviews'[v].gap = id
          /\ reviews'[v].before.version = n
          /\ reviews'[v].after = gaps[id].version
          /\ gaps' = gaps /\ gaps[id].version > n
      BY <1>5, <2>2 DEF Owes, ReviewRereads, TypeInv, TypeOK, ReviewRequest
    <3>2. Owes(v, id, n)'
      BY <1>2, <3>1 DEF Owes
    <3> QED
      BY <3>2 DEF VersionAccounted
  <2>3. CASE ReviewAudits(v)
    <3>1. PICK event \in audits' : event = ReviewEvent(reviews[v])
      BY <2>3 DEF ReviewAudits
    <3>2. /\ event.action = "coverage.transition" /\ event.gap = id /\ event.before = n
          /\ event.after \in n + 1 .. gaps[id].version /\ gaps' = gaps
      BY <1>5, <2>3, <3>1 DEF Owes, ReviewAudits, ReviewEvent
    <3> QED
      BY <3>2 DEF VersionAccounted, Told
  <2>4. CASE ReviewFails(v)
    <3>1. <<id, n>> \in lapses'
      BY <1>5, <2>4 DEF Owes, ReviewFails
    <3> QED
      BY <3>1 DEF VersionAccounted, Told
  <2>5. CASE UNCHANGED vars
    <3>1. Owes(v, id, n)'
      BY <1>5, <2>5 DEF Owes, vars
    <3> QED
      BY <3>1 DEF VersionAccounted
  <2> QED
    BY <2>1, <2>2, <2>3, <2>4, <2>5
<1> QED
  BY <1>3, <1>4, <1>5 DEF VersionAccounted

\* Every step of a review keeps the accounts; its UPDATE makes it owe the event
\* of the version it replaces.
LEMMA AccountReviewStep ==
  ASSUME TypeInv, RaceInv, AccountInv, NEW v \in Reviewers, ReviewStep(v)
  PROVE  AccountInv'
<1>1. /\ detections' = detections /\ DOMAIN gaps' = DOMAIN gaps
      /\ gaps' = gaps \/ ReviewUpdates(v)
  BY ReviewStepFrame
<1>2. ASSUME NEW id \in DOMAIN gaps, NEW n \in FirstVersion(id) .. gaps'[id].version - 1
      PROVE  VersionAccounted(id, n)'
  <2>1. n \in Nat /\ FirstVersion(id) \in Nat
    BY <1>2, FirstVersionPositive
  <2>2. CASE n \in FirstVersion(id) .. gaps[id].version - 1
    BY <1>2, <2>1, <2>2, ReviewKeepsVersions DEF AccountInv
  <2>3. CASE n \notin FirstVersion(id) .. gaps[id].version - 1
    <3>1. gaps'[id] # gaps[id]
      BY <1>2, <2>3
    <3>2. ReviewUpdates(v)
      BY <1>1, <3>1
    <3>3. PICK row \in DOMAIN gaps :
            /\ row = reviews[v].gap
            /\ gaps[row] = reviews[v].before
            /\ gaps'[row].version = gaps[row].version + 1
            /\ \A other \in DOMAIN gaps \ {row} : gaps'[other] = gaps[other]
      BY <3>2, UpdateGoesOn
    <3>4. row = id
      BY <1>2, <3>1, <3>3
    <3>5. gaps[id].version \in Nat
      BY <1>2 DEF TypeInv, TypeOK, Gap
    <3>6. n = gaps[id].version /\ gaps'[id].version > n
      BY <1>2, <2>1, <2>3, <3>3, <3>4, <3>5
    <3>7. /\ reviews'[v].pc = "reread" /\ reviews'[v].gap = id
          /\ reviews'[v].before.version = n
      BY <3>2, <3>3, <3>4, <3>6 DEF ReviewUpdates, TypeInv, TypeOK, ReviewRequest
    <3> QED
      BY <3>6, <3>7 DEF VersionAccounted, Owes
  <2> QED
    BY <2>2, <2>3
<1>3. ASSUME NEW id \in DOMAIN gaps, id \notin DOMAIN SeedGaps
      PROVE  DetectionAccounted(id)'
  <2>1. DetectionAccounted(id)
    BY <1>3 DEF AccountInv
  <2>2. Told("coverage.detect", id, 0) => Told("coverage.detect", id, 0)'
    BY <1>3, ToldStays DEF Next
  <2> QED
    BY <1>1, <2>1, <2>2 DEF DetectionAccounted
<1> QED
  BY <1>1, <1>2, <1>3 DEF AccountInv, FirstVersion

-----------------------------------------------------------------------------
\* In every behaviour every detection and every version replaced is told of by
\* an event, by a request that is about to make one, or by the lapse of one.
THEOREM AccountInvariant == Spec => []AccountInv
<1>1. Init => AccountInv
  BY SeedAssumption DEF Init, AccountInv, FirstVersion, Gap
<1>2. ASSUME TypeInv, RaceInv, AccountInv, [Next]_vars
      PROVE  AccountInv'
  <2>1. CASE \/ \E a \in Areas, boundary \in Boundaries, resolution \in Resolutions :
                   AreaRevised(a, boundary, resolution)
             \/ \E r \in Runs, target \in RunStates : RunMoved(r, target)
             \/ UNCHANGED vars
    <3>1. UNCHANGED <<gaps, audits, detections, reviews, lapses>>
      BY <2>1 DEF AreaRevised, RunMoved, vars
    <3>2. \A id : DetectionAccounted(id) => DetectionAccounted(id)'
      BY <3>1 DEF DetectionAccounted, Told
    <3>3. \A id, n : Told("coverage.transition", id, n) => Told("coverage.transition", id, n)'
      BY <3>1 DEF Told
    <3>4. \A id, n : (\E v \in Reviewers : Owes(v, id, n)) => (\E v \in Reviewers : Owes(v, id, n)')
      BY <3>1 DEF Owes
    <3>5. \A id, n : VersionAccounted(id, n) => VersionAccounted(id, n)'
      BY <3>3, <3>4 DEF VersionAccounted
    <3> QED
      BY <1>2, <3>1, <3>2, <3>5 DEF AccountInv, FirstVersion
  <2> QED
    BY <1>2, <2>1, AccountDetectStep, AccountReviewStep DEF Next
<1> QED
  BY <1>1, <1>2, TypeInvariant, RaceInvariant, PTL DEF Spec

\* With no request in flight, the events of a gap account for its detection and
\* for each of its versions, save for the one event of each request that ended
\* between its write and its event.
THEOREM AuditTrailIsComplete == Spec => []AuditTrailComplete
<1>1. AccountInv => AuditTrailComplete
  BY DEF AccountInv, AuditTrailComplete, Quiescent, DetectionAccounted, VersionAccounted, Owes
<1> QED
  BY <1>1, AccountInvariant, PTL

=============================================================================
