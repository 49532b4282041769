---------------------------- MODULE CoverageReview ----------------------------
(***************************************************************************)
(* CoverageGapService: detection computes from an area and a set of        *)
(* processed runs what was left uncovered and keeps the result as a gap;   *)
(* reviewers then move the gap along its lifecycle, each adding a note.    *)
(*                                                                         *)
(* As in SonarRuns, a request is a sequence of separately committed        *)
(* statements that interleave with those of other requests, and can end    *)
(* between any two.  Detection reads the area, then the runs, then looks   *)
(* for a gap with the same input hash, and checks nothing again when it    *)
(* inserts.  The updates of areas and the transitions of runs that go on   *)
(* meanwhile are single steps here; SurveyAreas and SonarRuns have them    *)
(* statement by statement.                                                 *)
(***************************************************************************)
EXTENDS Naturals, Sequences, Lifecycles

LOCAL INSTANCE Functions

CONSTANTS
    Areas,             \* the rows of survey_areas
    Boundaries,        \* the boundaries an area can get
    Resolutions,       \* target resolutions, in the area or in the request
    Infeasible,        \* the pairs <<boundary, resolution>> no grid fits
    Runs,              \* the rows of sonar_runs
    RunArea,           \* the area of each run's plan
    Algorithms,        \* algorithm versions
    GapIds,            \* primary keys of coverage_gaps
    Notes,             \* review notes
    NoteLength,        \* what a note adds to the explanation, in characters
    BaseLength,        \* length of the explanation of a new gap
    Capacity,          \* size of the column coverage_gaps.explanation
    ExpectedVersions,  \* the versions reviewers quote
    Detectors,         \* workers serving POST /coverage-gaps/detect
    Reviewers,         \* workers serving POST /coverage-gaps/:id/transition
    SeedAreas,         \* the areas as the database holds them at start
    SeedRunStates,     \* the state of each run at start
    SeedGaps,          \* the gaps as the database holds them at start
    Nothing            \* a value that is no row, id, input or note

Area == [boundary: Boundaries, resolution: Resolutions]

(***************************************************************************)
(* What a result is computed from.  Sources are runs; the hash holds their *)
(* checksums, which are unique.  It does not hold the boundary.            *)
(***************************************************************************)
Input == [area: Areas, sources: SUBSET Runs \ {{}}, algorithm: Algorithms,
          resolution: Resolutions, boundary: Boundaries]

StableInputHash(input) ==
    <<input.area, input.algorithm, input.sources, input.resolution>>

Gap == [input: Input, explanation: Seq(Notes), gap_state: GapStates,
        version: Nat \ {0}]

ASSUME RunAreaAssumption == RunArea \in [Runs -> Areas]

ASSUME NoteAssumption ==
    /\ NoteLength \in [Notes -> Nat \ {0}]
    /\ BaseLength \in Nat
    /\ Capacity \in Nat

ASSUME ExpectedVersionsAssumption == ExpectedVersions \subseteq Nat \ {0}

ASSUME NothingAssumption ==
    Nothing \notin GapIds \cup Input \cup Gap \cup Notes \cup Resolutions

\* The runs that have been processed: superseding a run does not undo that.
Finished == {"processed", "superseded"}

\* What the database holds when the server starts: gaps have different input
\* hashes and were computed from processed runs of their area.
ASSUME SeedAssumption ==
    /\ SeedAreas \in [Areas -> Area]
    /\ SeedRunStates \in [Runs -> RunStates]
    /\ DOMAIN SeedGaps \subseteq GapIds
    /\ SeedGaps \in [DOMAIN SeedGaps -> Gap]
    /\ \A id \in DOMAIN SeedGaps :
          /\ \A r \in SeedGaps[id].input.sources :
                /\ RunArea[r] = SeedGaps[id].input.area
                /\ SeedRunStates[r] \in Finished
          /\ \A other \in DOMAIN SeedGaps \ {id} :
                StableInputHash(SeedGaps[id].input) # StableInputHash(SeedGaps[other].input)

VARIABLES
    areas,        \* survey_areas, as far as detection reads it
    runs,         \* run_state of each row of sonar_runs
    gaps,         \* coverage_gaps: a function from the existing ids to rows
    audits,       \* the audit_events about gaps
    detections,   \* the detection worker's request
    reviews,      \* the review worker's request
    lapses        \* the events that requests owed when they ended: <<gap,
                  \* version replaced>>, or version 0 for that of a detection

vars == <<areas, runs, gaps, audits, detections, reviews, lapses>>

-----------------------------------------------------------------------------
(***************************************************************************)
(* Requests: "pc" names the statement the request executes next.           *)
(***************************************************************************)
DetectRequest == [pc: {"idle", "runs", "lookup", "insert", "audit"},
                  input: Input \cup {Nothing}, gap: GapIds \cup {Nothing},
                  answer: {"none", "detected", "existing", "duplicate"}]

ReviewRequest == [pc: {"idle", "update", "reread", "audit"},
                  gap: GapIds \cup {Nothing}, target: GapStates \cup {Nothing},
                  expected: ExpectedVersions \cup {Nothing},
                  note: Notes \cup {Nothing}, before: Gap \cup {Nothing},
                  after: Nat]

DetectAnswer(answer, input, gap) ==
    [pc |-> "idle", input |-> input, gap |-> gap, answer |-> answer]

NoDetection == DetectAnswer("none", Nothing, Nothing)

NoReview == [pc |-> "idle", gap |-> Nothing, target |-> Nothing,
             expected |-> Nothing, note |-> Nothing, before |-> Nothing,
             after |-> 0]

\* A snapshot in an event is represented by its version, 0 for no snapshot.
AuditEvent == [action: {"coverage.detect", "coverage.transition"}, gap: GapIds,
               before: Nat, after: Nat \ {0}]

Init ==
    /\ areas = SeedAreas
    /\ runs = SeedRunStates
    /\ gaps = SeedGaps
    /\ audits = {}
    /\ detections = [d \in Detectors |-> NoDetection]
    /\ reviews = [v \in Reviewers |-> NoReview]
    /\ lapses = {}

-----------------------------------------------------------------------------
(***************************************************************************)
(* POST /coverage-gaps/detect                                              *)
(***************************************************************************)
\* A request without a resolution takes the one of the area.
Chosen(requested, area) == IF requested = Nothing THEN area.resolution ELSE requested

DetectReadsArea(d, a, sources, algorithm, requested) ==
    /\ detections[d].pc = "idle"
    /\ detections' = [detections EXCEPT ![d] =
          [pc |-> "runs", gap |-> Nothing, answer |-> "none",
           input |-> [area |-> a, sources |-> sources, algorithm |-> algorithm,
                      resolution |-> Chosen(requested, areas[a]),
                      boundary |-> areas[a].boundary]]]
    /\ UNCHANGED <<areas, runs, gaps, audits, reviews, lapses>>

\* Mutant: runs that are still being processed are taken.
Usable_AnyState(input) == \A r \in input.sources : RunArea[r] = input.area

\* Every source is a processed run of the area.
Usable(input) ==
    \A r \in input.sources : RunArea[r] = input.area /\ runs[r] = "processed"

DetectReadsRuns(d) ==
    /\ detections[d].pc = "runs"
    /\ Usable(detections[d].input)
    /\ detections' = [detections EXCEPT ![d].pc = "lookup"]
    /\ UNCHANGED <<areas, runs, gaps, audits, reviews, lapses>>

DetectRefused(d) ==
    /\ detections[d].pc = "runs"
    /\ ~Usable(detections[d].input)
    /\ detections' = [detections EXCEPT ![d] = NoDetection]
    /\ UNCHANGED <<areas, runs, gaps, audits, reviews, lapses>>

SameHash(id, input) == StableInputHash(gaps[id].input) = StableInputHash(input)

DetectFindsExisting(d) ==
    /\ detections[d].pc = "lookup"
    /\ \E id \in DOMAIN gaps :
          /\ SameHash(id, detections[d].input)
          /\ detections' = [detections EXCEPT ![d] =
                               DetectAnswer("existing", detections[d].input, id)]
    /\ UNCHANGED <<areas, runs, gaps, audits, reviews, lapses>>

\* The result is computed from what was read; no statement is executed.
Computable(input) == <<input.boundary, input.resolution>> \notin Infeasible

DetectComputes(d) ==
    /\ detections[d].pc = "lookup"
    /\ \A id \in DOMAIN gaps : ~SameHash(id, detections[d].input)
    /\ detections' = [detections EXCEPT ![d] =
          IF Computable(detections[d].input)
          THEN [detections[d] EXCEPT !.pc = "insert"]
          ELSE NoDetection]
    /\ UNCHANGED <<areas, runs, gaps, audits, reviews, lapses>>

\* Mutant: input_hash without its unique index.
Insertable_Always(input) == TRUE

\* The unique index idx_gap_idempotency.
Insertable(input) == \A id \in DOMAIN gaps : ~SameHash(id, input)

NewGap(input) ==
    [input |-> input, explanation |-> <<>>, gap_state |-> "detected", version |-> 1]

DetectInserts(d) ==
    /\ detections[d].pc = "insert"
    /\ Insertable(detections[d].input)
    /\ \E id \in GapIds \ DOMAIN gaps :
          /\ gaps' = [known \in DOMAIN gaps \cup {id} |->
                         IF known = id THEN NewGap(detections[d].input) ELSE gaps[known]]
          /\ detections' = [detections EXCEPT ![d].pc = "audit", ![d].gap = id]
    /\ UNCHANGED <<areas, runs, audits, reviews, lapses>>

DetectDuplicates(d) ==
    /\ detections[d].pc = "insert"
    /\ ~Insertable(detections[d].input)
    /\ detections' = [detections EXCEPT ![d] = DetectAnswer("duplicate", Nothing, Nothing)]
    /\ UNCHANGED <<areas, runs, gaps, audits, reviews, lapses>>

\* The event holds the row as inserted, whatever became of it since.
DetectEvent(request) ==
    [action |-> "coverage.detect", gap |-> request.gap, before |-> 0,
     after |-> NewGap(request.input).version]

DetectAudits(d) ==
    /\ detections[d].pc = "audit"
    /\ audits' = audits \cup {DetectEvent(detections[d])}
    /\ detections' = [detections EXCEPT ![d] =
          DetectAnswer("detected", detections[d].input, detections[d].gap)]
    /\ UNCHANGED <<areas, runs, gaps, reviews, lapses>>

\* A statement fails, or the process dies: the request ends where it stands.
DetectFails(d) ==
    /\ detections[d].pc # "idle"
    /\ detections' = [detections EXCEPT ![d] = NoDetection]
    /\ lapses' = IF detections[d].pc = "audit" THEN lapses \cup {<<detections[d].gap, 0>>}
                 ELSE lapses
    /\ UNCHANGED <<areas, runs, gaps, audits, reviews>>

-----------------------------------------------------------------------------
(***************************************************************************)
(* POST /coverage-gaps/:id/transition                                      *)
(***************************************************************************)
ReviewReads(v, id, target, expected, note) ==
    /\ reviews[v].pc = "idle"
    /\ id \in DOMAIN gaps
    /\ CanTransition(GapMoves, gaps[id].gap_state, target)
    /\ reviews' = [reviews EXCEPT ![v] =
          [pc |-> "update", gap |-> id, target |-> target, expected |-> expected,
           note |-> note, before |-> gaps[id], after |-> 0]]
    /\ UNCHANGED <<areas, runs, gaps, audits, detections, lapses>>

ReviewRefused(v, id, target) ==
    /\ reviews[v].pc = "idle"
    /\ id \in DOMAIN gaps => ~CanTransition(GapMoves, gaps[id].gap_state, target)
    /\ UNCHANGED vars

\* Mutants: the state is left out of the condition; the version is compared
\* with the value it is about to get.
GapMatches_AnyState(request) == gaps[request.gap].version = request.expected

GapMatches_NextVersion(request) ==
    /\ gaps[request.gap].version + 1 = request.expected
    /\ gaps[request.gap].gap_state = request.before.gap_state

\* The condition of the UPDATE: id, version and gap_state.
GapMatches(request) ==
    /\ gaps[request.gap].version = request.expected
    /\ gaps[request.gap].gap_state = request.before.gap_state

\* The explanation was composed from the row as read.
NewExplanation(request) == Append(request.before.explanation, request.note)

TextLength(explanation) ==
    BaseLength + FoldFunction(LAMBDA note, sum : NoteLength[note] + sum, 0, explanation)

Fits(explanation) == TextLength(explanation) <= Capacity

Reviewed(request) ==
    [input |-> gaps[request.gap].input, explanation |-> NewExplanation(request),
     gap_state |-> request.target, version |-> gaps[request.gap].version + 1]

ReviewUpdates(v) ==
    /\ reviews[v].pc = "update"
    /\ GapMatches(reviews[v])
    /\ Fits(NewExplanation(reviews[v]))
    /\ gaps' = [gaps EXCEPT ![reviews[v].gap] = Reviewed(reviews[v])]
    /\ reviews' = [reviews EXCEPT ![v].pc = "reread"]
    /\ UNCHANGED <<areas, runs, audits, detections, lapses>>

ReviewConflicts(v) ==
    /\ reviews[v].pc = "update"
    /\ ~GapMatches(reviews[v])
    /\ reviews' = [reviews EXCEPT ![v] = NoReview]
    /\ UNCHANGED <<areas, runs, gaps, audits, detections, lapses>>

\* Postgres refuses a text that is longer than the column.
ReviewTooLong(v) ==
    /\ reviews[v].pc = "update"
    /\ ~Fits(NewExplanation(reviews[v]))
    /\ reviews' = [reviews EXCEPT ![v] = NoReview]
    /\ UNCHANGED <<areas, runs, gaps, audits, detections, lapses>>

\* Mutant: the row is not fetched again after the UPDATE.
ReviewRereads_Skipped(v) ==
    /\ reviews[v].pc = "reread"
    /\ reviews' = [reviews EXCEPT ![v].pc = "audit"]
    /\ UNCHANGED <<areas, runs, gaps, audits, detections, lapses>>

\* The row is fetched again to be returned and audited: by now it may be a
\* version that another reviewer has written.
ReviewRereads(v) ==
    /\ reviews[v].pc = "reread"
    /\ reviews' = [reviews EXCEPT ![v].pc = "audit",
                                  ![v].after = gaps[reviews[v].gap].version]
    /\ UNCHANGED <<areas, runs, gaps, audits, detections, lapses>>

\* Mutant: both snapshots are taken after the write.
ReviewEvent_AfterOnly(request) ==
    [action |-> "coverage.transition", gap |-> request.gap,
     before |-> request.after, after |-> request.after]

ReviewEvent(request) ==
    [action |-> "coverage.transition", gap |-> request.gap,
     before |-> request.before.version, after |-> request.after]

ReviewAudits(v) ==
    /\ reviews[v].pc = "audit"
    /\ audits' = audits \cup {ReviewEvent(reviews[v])}
    /\ reviews' = [reviews EXCEPT ![v] = NoReview]
    /\ UNCHANGED <<areas, runs, gaps, detections, lapses>>

ReviewFails(v) ==
    /\ reviews[v].pc # "idle"
    /\ reviews' = [reviews EXCEPT ![v] = NoReview]
    /\ lapses' = IF reviews[v].pc = "update" THEN lapses
                 ELSE lapses \cup {<<reviews[v].gap, reviews[v].before.version>>}
    /\ UNCHANGED <<areas, runs, gaps, audits, detections>>

-----------------------------------------------------------------------------
\* SurveyAreaService.Update, as far as detection can see it.
AreaRevised(a, boundary, resolution) ==
    /\ areas' = [areas EXCEPT ![a] = [boundary |-> boundary, resolution |-> resolution]]
    /\ UNCHANGED <<runs, gaps, audits, detections, reviews, lapses>>

\* SonarRunService.Transition, as far as detection can see it.
RunMoved(r, target) ==
    /\ CanTransition(RunMoves, runs[r], target)
    /\ runs' = [runs EXCEPT ![r] = target]
    /\ UNCHANGED <<areas, gaps, audits, detections, reviews, lapses>>

DetectStep(d) ==
    \/ \E a \in Areas, sources \in SUBSET Runs \ {{}}, algorithm \in Algorithms,
          requested \in Resolutions \cup {Nothing} :
             DetectReadsArea(d, a, sources, algorithm, requested)
    \/ DetectReadsRuns(d)
    \/ DetectRefused(d)
    \/ DetectFindsExisting(d)
    \/ DetectComputes(d)
    \/ DetectInserts(d)
    \/ DetectDuplicates(d)
    \/ DetectAudits(d)
    \/ DetectFails(d)

ReviewStep(v) ==
    \/ \E id \in GapIds, target \in GapStates, expected \in ExpectedVersions, note \in Notes :
             ReviewReads(v, id, target, expected, note)
    \/ \E id \in GapIds, target \in GapStates : ReviewRefused(v, id, target)
    \/ ReviewUpdates(v)
    \/ ReviewConflicts(v)
    \/ ReviewTooLong(v)
    \/ ReviewRereads(v)
    \/ ReviewAudits(v)
    \/ ReviewFails(v)

Next ==
    \/ \E d \in Detectors : DetectStep(d)
    \/ \E v \in Reviewers : ReviewStep(v)
    \/ \E a \in Areas, boundary \in Boundaries, resolution \in Resolutions :
          AreaRevised(a, boundary, resolution)
    \/ \E r \in Runs, target \in RunStates : RunMoved(r, target)

Spec == Init /\ [][Next]_vars

-----------------------------------------------------------------------------
(***************************************************************************)
(* Properties                                                              *)
(***************************************************************************)
TypeOK ==
    /\ areas \in [Areas -> Area]
    /\ runs \in [Runs -> RunStates]
    /\ DOMAIN gaps \subseteq GapIds
    /\ gaps \in [DOMAIN gaps -> Gap]
    /\ audits \subseteq AuditEvent
    /\ detections \in [Detectors -> DetectRequest]
    /\ reviews \in [Reviewers -> ReviewRequest]
    /\ lapses \subseteq GapIds \X Nat

\* A gap is evidence about its own area, from runs that were processed, and
\* whatever becomes of a run between the check and the insert, and after it,
\* cannot take that back.
GapsRestOnProcessedRuns ==
    \A id \in DOMAIN gaps : \A r \in gaps[id].input.sources :
        RunArea[r] = gaps[id].input.area /\ runs[r] \in Finished

\* Detection is idempotent by input hash as clients see it: successful answers
\* to requests with one hash name one gap, and that gap has the area, the runs,
\* the algorithm and the resolution that were asked for.
OneInputOneGap ==
    \A d \in Detectors :
        detections[d].answer \in {"detected", "existing"}
        => /\ \A field \in {"area", "sources", "algorithm", "resolution"} :
                 gaps[detections[d].gap].input[field] = detections[d].input[field]
           /\ \A e \in Detectors :
                 /\ detections[e].answer \in {"detected", "existing"}
                 /\ StableInputHash(detections[e].input) = StableInputHash(detections[d].input)
                 => detections[e].gap = detections[d].gap

\* No review note is lost: the explanation was composed from the row that was
\* read, and the UPDATE only goes through on that very row.
NotesAreKept ==
    [][\A id \in DOMAIN gaps :
          gaps'[id].version # gaps[id].version
          => \E v \in Reviewers :
                /\ reviews[v].gap = id
                /\ gaps'[id].explanation = Append(gaps[id].explanation, reviews[v].note)]_vars

\* A reviewer who quoted the version it read is refused with a conflict only
\* because another reviewer has moved the gap on.
ConflictMeansProgress ==
    [][\A v \in Reviewers :
          /\ ReviewConflicts(v)
          /\ reviews[v].expected = reviews[v].before.version
          => gaps[reviews[v].gap].version > reviews[v].before.version]_vars

Quiescent ==
    /\ \A d \in Detectors : detections[d].pc = "idle"
    /\ \A v \in Reviewers : reviews[v].pc = "idle"

FirstVersion(id) == IF id \in DOMAIN SeedGaps THEN SeedGaps[id].version ELSE 1

\* An event shows the version that was replaced and a later one that the gap
\* has had since, or the event is lost.
Told(action, id, version) ==
    \/ <<id, version>> \in lapses
    \/ \E event \in audits :
          /\ event.action = action /\ event.gap = id /\ event.before = version
          /\ event.after \in version + 1 .. gaps[id].version

\* Once every request is answered, the audit events of a gap account for its
\* detection and for each of its versions, save for the one event of each
\* request that ended between its write and its event: such a request takes no
\* other event along, and racing reviewers lose and blur none.
AuditTrailComplete ==
    Quiescent =>
        \A id \in DOMAIN gaps :
            /\ id \notin DOMAIN SeedGaps => Told("coverage.detect", id, 0)
            /\ \A version \in FirstVersion(id) .. gaps[id].version - 1 :
                  Told("coverage.transition", id, version)

\* The gaps table behaves as a table of versioned records: what a result was
\* computed from never changes, and a gap takes one decision of its lifecycle
\* after the other, so accepted and false_positive exclude each other.
Ledger == INSTANCE VersionedRecords WITH
    Ids <- GapIds, States <- GapStates, Initial <- "detected",
    Edges <- GapMoves, Mutable <- {}, FirstVersions <- {1},
    table <- [id \in DOMAIN gaps |-> [body |-> gaps[id].input,
                                      state |-> gaps[id].gap_state,
                                      version |-> gaps[id].version]]

ImplementsLedger == Ledger!Spec

-----------------------------------------------------------------------------
(***************************************************************************)
(* What the documentation says and the code does not do                    *)
(***************************************************************************)
\* A gap that is answered as the earlier result of the same input was computed
\* from that input, the boundary included (gb-532.md: runs are intersected with
\* the area's boundary, and the result carries the hash of its input).
ExistingAnswersAreCurrent ==
    \A d \in Detectors :
        detections[d].answer = "existing"
        => gaps[detections[d].gap].input = detections[d].input

\* The review of a gap can be carried on to "closed" (gb-532.md: the state flow
\* of CoverageGap): some note still fits into the explanation.
ReviewsCanBeFinished ==
    \A id \in DOMAIN gaps :
        gaps[id].gap_state # "closed"
        => \E note \in Notes : Fits(Append(gaps[id].explanation, note))

=============================================================================
