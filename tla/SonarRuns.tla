------------------------------ MODULE SonarRuns ------------------------------
(***************************************************************************)
(* SonarRunService: the import of recorded tracks against locked plans and *)
(* the transitions of a run's lifecycle, as the server executes them for   *)
(* many clients at once.                                                   *)
(*                                                                         *)
(* Every repository call is a statement of its own, committed on its own:  *)
(* there is no transaction around a service method.  A request therefore   *)
(* advances one statement at a time, and the statements of different       *)
(* requests interleave freely.  A request can also end between any two of  *)
(* its statements, because a statement failed or the process died.         *)
(*                                                                         *)
(* An element of Imports or Moves is a worker that serves one request      *)
(* after another; its record holds the handler's local variables.          *)
(***************************************************************************)
EXTENDS Naturals, Lifecycles

CONSTANTS
    Plans,             \* the rows of transect_plans
    Codes,             \* run codes clients choose
    Tracks,            \* track, swath and times: the hashed part of a body
    SoundTracks,       \* the tracks that parse and end after they started
    Uploads,           \* the bodies of POST /runs/import
    RunIds,            \* primary keys of sonar_runs
    ExpectedVersions,  \* the versions clients quote
    Imports,           \* workers serving POST /runs/import
    Moves,             \* workers serving POST /runs/:id/transition
    SeedPlans,         \* the plans as the database holds them at start
    SeedRuns,          \* the runs as the database holds them at start
    Nothing            \* a value that is no row, id or snapshot

Row == [upload: Uploads, run_state: RunStates, version: Nat \ {0}]

(***************************************************************************)
(* checksumRun hashes track, plan, swath and times.  The run code and the  *)
(* navigation quality are not part of it.                                  *)
(***************************************************************************)
checksumRun(upload) == <<upload.plan, upload.track>>

ASSUME UploadsAssumption ==
    /\ SoundTracks \subseteq Tracks
    /\ Uploads \subseteq [plan: Plans, track: Tracks, code: Codes,
                          nav: NavigationQualities]

ASSUME ExpectedVersionsAssumption == ExpectedVersions \subseteq Nat \ {0}

ASSUME NothingAssumption == Nothing \notin RunIds /\ Nothing \notin Row

\* What the database holds when the server starts: an unlocked plan has no
\* runs, no two runs share a checksum, bad navigation is not processed.
ASSUME SeedAssumption ==
    /\ SeedPlans \in [Plans -> PlanStates]
    /\ DOMAIN SeedRuns \subseteq RunIds
    /\ SeedRuns \in [DOMAIN SeedRuns -> Row]
    /\ \A id \in DOMAIN SeedRuns :
          /\ SeedPlans[SeedRuns[id].upload.plan] = "locked"
          /\ SeedRuns[id].upload.nav = "invalid"
                => SeedRuns[id].run_state \in {"imported", "rejected"}
          /\ \A other \in DOMAIN SeedRuns \ {id} :
                checksumRun(SeedRuns[id].upload) # checksumRun(SeedRuns[other].upload)

VARIABLES
    plans,     \* plan_state of each row of transect_plans
    runs,      \* sonar_runs: a function from the existing ids to rows
    audits,    \* the audit_events about runs
    imports,   \* the import worker's request
    moves,     \* the transition worker's request
    lapses     \* the events that requests owed when they ended: <<run, version
               \* replaced>>, or version 0 for the event of an import

vars == <<plans, runs, audits, imports, moves, lapses>>

-----------------------------------------------------------------------------
(***************************************************************************)
(* Requests.  "pc" names the statement the request executes next; a worker *)
(* that is idle shows the answer of its last request.                      *)
(***************************************************************************)
ImportRequest == [pc: {"idle", "lookup", "insert", "audit", "reread"},
                  upload: Uploads \cup {Nothing}, run: RunIds \cup {Nothing},
                  answer: {"none", "created", "existing", "duplicate"}]

MoveRequest == [pc: {"idle", "update", "reread", "audit"},
                run: RunIds \cup {Nothing}, target: RunStates \cup {Nothing},
                expected: ExpectedVersions \cup {Nothing},
                before: Row \cup {Nothing}, after: Row \cup {Nothing}]

ImportAnswer(answer, upload, run) ==
    [pc |-> "idle", upload |-> upload, run |-> run, answer |-> answer]

NoImport == ImportAnswer("none", Nothing, Nothing)

NoMove == [pc |-> "idle", run |-> Nothing, target |-> Nothing, expected |-> Nothing,
           before |-> Nothing, after |-> Nothing]

AuditEvent == [action: {"run.import", "run.transition"}, run: RunIds,
               before: Row \cup {Nothing}, after: Row]

Init ==
    /\ plans = SeedPlans
    /\ runs = SeedRuns
    /\ audits = {}
    /\ imports = [i \in Imports |-> NoImport]
    /\ moves = [m \in Moves |-> NoMove]
    /\ lapses = {}

-----------------------------------------------------------------------------
(***************************************************************************)
(* POST /runs/import                                                       *)
(***************************************************************************)
\* Mutant: the plan's state is not looked at.
Importable_AnyPlan(upload) == upload.track \in SoundTracks

Importable(upload) == plans[upload.plan] = "locked" /\ upload.track \in SoundTracks

\* The plan is read and the body validated; the plan is not read again.
ImportReadsPlan(i, upload) ==
    /\ imports[i].pc = "idle"
    /\ Importable(upload)
    /\ imports' = [imports EXCEPT ![i] =
          [pc |-> "lookup", upload |-> upload, run |-> Nothing, answer |-> "none"]]
    /\ UNCHANGED <<plans, runs, audits, moves, lapses>>

ImportRefused(i, upload) ==
    /\ imports[i].pc = "idle"
    /\ ~Importable(upload)
    /\ UNCHANGED vars

SameTrack(id, upload) == checksumRun(runs[id].upload) = checksumRun(upload)

ImportFindsExisting(i) ==
    /\ imports[i].pc = "lookup"
    /\ \E id \in DOMAIN runs :
          /\ SameTrack(id, imports[i].upload)
          /\ imports' = [imports EXCEPT ![i] =
                            ImportAnswer("existing", imports[i].upload, id)]
    /\ UNCHANGED <<plans, runs, audits, moves, lapses>>

ImportFindsNone(i) ==
    /\ imports[i].pc = "lookup"
    /\ \A id \in DOMAIN runs : ~SameTrack(id, imports[i].upload)
    /\ imports' = [imports EXCEPT ![i].pc = "insert"]
    /\ UNCHANGED <<plans, runs, audits, moves, lapses>>

\* Mutant: source_checksum without its unique index.
Insertable_CodeOnly(upload) == \A id \in DOMAIN runs : runs[id].upload.code # upload.code

\* The unique indexes on run_code and source_checksum.
Insertable(upload) ==
    \A id \in DOMAIN runs : ~SameTrack(id, upload) /\ runs[id].upload.code # upload.code

NewRow(upload) == [upload |-> upload, run_state |-> "imported", version |-> 1]

ImportInserts(i) ==
    /\ imports[i].pc = "insert"
    /\ Insertable(imports[i].upload)
    /\ \E id \in RunIds \ DOMAIN runs :
          /\ runs' = [known \in DOMAIN runs \cup {id} |->
                         IF known = id THEN NewRow(imports[i].upload) ELSE runs[known]]
          /\ imports' = [imports EXCEPT ![i].pc = "audit", ![i].run = id]
    /\ UNCHANGED <<plans, audits, moves, lapses>>

ImportDuplicates(i) ==
    /\ imports[i].pc = "insert"
    /\ ~Insertable(imports[i].upload)
    /\ imports' = [imports EXCEPT ![i] =
                      ImportAnswer("duplicate", imports[i].upload, Nothing)]
    /\ UNCHANGED <<plans, runs, audits, moves, lapses>>

\* The event holds the row as inserted, whatever became of it since.
ImportEvent(i) ==
    [action |-> "run.import", run |-> imports[i].run,
     before |-> Nothing, after |-> NewRow(imports[i].upload)]

ImportAudits(i) ==
    /\ imports[i].pc = "audit"
    /\ audits' = audits \cup {ImportEvent(i)}
    /\ imports' = [imports EXCEPT ![i].pc = "reread"]
    /\ UNCHANGED <<plans, runs, moves, lapses>>

ImportAnswers(i) ==
    /\ imports[i].pc = "reread"
    /\ imports' = [imports EXCEPT ![i] =
                      ImportAnswer("created", imports[i].upload, imports[i].run)]
    /\ UNCHANGED <<plans, runs, audits, moves, lapses>>

\* A statement fails, or the process dies: the request ends where it stands.
ImportFails(i) ==
    /\ imports[i].pc # "idle"
    /\ imports' = [imports EXCEPT ![i] = NoImport]
    /\ lapses' = IF imports[i].pc = "audit" THEN lapses \cup {<<imports[i].run, 0>>}
                 ELSE lapses
    /\ UNCHANGED <<plans, runs, audits, moves>>

-----------------------------------------------------------------------------
(***************************************************************************)
(* POST /runs/:id/transition                                               *)
(***************************************************************************)
\* Mutant: the navigation quality is not looked at.
Acceptable_AnyNavigation(row, target, reasoned) ==
    CanTransition(RunMoves, row.run_state, target) /\ (target = "rejected" => reasoned)

\* The checks made on the row as read; "reasoned": the reason has 4 bytes.
Acceptable(row, target, reasoned) ==
    /\ CanTransition(RunMoves, row.run_state, target)
    /\ ~(target = "quality_checked" /\ row.upload.nav = "invalid")
    /\ target = "rejected" => reasoned

MoveReads(m, id, target, expected, reasoned) ==
    /\ moves[m].pc = "idle"
    /\ id \in DOMAIN runs
    /\ Acceptable(runs[id], target, reasoned)
    /\ moves' = [moves EXCEPT ![m] =
          [pc |-> "update", run |-> id, target |-> target, expected |-> expected,
           before |-> runs[id], after |-> Nothing]]
    /\ UNCHANGED <<plans, runs, audits, imports, lapses>>

MoveRefused(m, id, target, reasoned) ==
    /\ moves[m].pc = "idle"
    /\ id \in DOMAIN runs => ~Acceptable(runs[id], target, reasoned)
    /\ UNCHANGED vars

\* Mutants: the state is left out of the condition; the version is compared
\* with the value it is about to get.
RowMatches_AnyState(request) == runs[request.run].version = request.expected

RowMatches_NextVersion(request) ==
    /\ runs[request.run].version + 1 = request.expected
    /\ runs[request.run].run_state = request.before.run_state

\* The condition of the UPDATE: id, version and run_state.  What the handler
\* does not use after it is cleared.
RowMatches(request) ==
    /\ runs[request.run].version = request.expected
    /\ runs[request.run].run_state = request.before.run_state

MoveUpdates(m) ==
    /\ moves[m].pc = "update"
    /\ RowMatches(moves[m])
    /\ runs' = [runs EXCEPT ![moves[m].run] =
          [upload |-> runs[moves[m].run].upload, run_state |-> moves[m].target,
           version |-> runs[moves[m].run].version + 1]]
    /\ moves' = [moves EXCEPT ![m] =
          [moves[m] EXCEPT !.pc = "reread", !.target = Nothing, !.expected = Nothing]]
    /\ UNCHANGED <<plans, audits, imports, lapses>>

MoveConflicts(m) ==
    /\ moves[m].pc = "update"
    /\ ~RowMatches(moves[m])
    /\ moves' = [moves EXCEPT ![m] = NoMove]
    /\ UNCHANGED <<plans, runs, audits, imports, lapses>>

\* Mutant: the row is not fetched again after the UPDATE.
MoveRereads_Skipped(m) ==
    /\ moves[m].pc = "reread"
    /\ moves' = [moves EXCEPT ![m].pc = "audit"]
    /\ UNCHANGED <<plans, runs, audits, imports, lapses>>

\* The row is fetched again to be returned and audited: by now it may be a
\* version that another request has written.
MoveRereads(m) ==
    /\ moves[m].pc = "reread"
    /\ moves' = [moves EXCEPT ![m].pc = "audit", ![m].after = runs[moves[m].run]]
    /\ UNCHANGED <<plans, runs, audits, imports, lapses>>

\* Mutant: both snapshots are taken after the write.
MoveEvent_AfterOnly(m) ==
    [action |-> "run.transition", run |-> moves[m].run,
     before |-> moves[m].after, after |-> moves[m].after]

MoveEvent(m) ==
    [action |-> "run.transition", run |-> moves[m].run,
     before |-> moves[m].before, after |-> moves[m].after]

MoveAudits(m) ==
    /\ moves[m].pc = "audit"
    /\ audits' = audits \cup {MoveEvent(m)}
    /\ moves' = [moves EXCEPT ![m] = NoMove]
    /\ UNCHANGED <<plans, runs, imports, lapses>>

MoveFails(m) ==
    /\ moves[m].pc # "idle"
    /\ moves' = [moves EXCEPT ![m] = NoMove]
    /\ lapses' = IF moves[m].pc = "update" THEN lapses
                 ELSE lapses \cup {<<moves[m].run, moves[m].before.version>>}
    /\ UNCHANGED <<plans, runs, audits, imports>>

-----------------------------------------------------------------------------
\* TransectPlanService.Lock, as far as a run can see it: one conditional update.
LockPlan(p) ==
    /\ plans[p] = "draft"
    /\ plans' = [plans EXCEPT ![p] = "locked"]
    /\ UNCHANGED <<runs, audits, imports, moves, lapses>>

ImportStep(i) ==
    \/ \E upload \in Uploads : ImportReadsPlan(i, upload)
    \/ \E upload \in Uploads : ImportRefused(i, upload)
    \/ ImportFindsExisting(i)
    \/ ImportFindsNone(i)
    \/ ImportInserts(i)
    \/ ImportDuplicates(i)
    \/ ImportAudits(i)
    \/ ImportAnswers(i)
    \/ ImportFails(i)

MoveStep(m) ==
    \/ \E id \in RunIds, target \in RunStates \ {"imported"},
          expected \in ExpectedVersions, reasoned \in BOOLEAN :
             MoveReads(m, id, target, expected, reasoned)
    \/ \E id \in RunIds, target \in RunStates \ {"imported"}, reasoned \in BOOLEAN :
          MoveRefused(m, id, target, reasoned)
    \/ MoveUpdates(m)
    \/ MoveConflicts(m)
    \/ MoveRereads(m)
    \/ MoveAudits(m)
    \/ MoveFails(m)

Next ==
    \/ \E i \in Imports : ImportStep(i)
    \/ \E m \in Moves : MoveStep(m)
    \/ \E p \in Plans : LockPlan(p)

Spec == Init /\ [][Next]_vars

-----------------------------------------------------------------------------
(***************************************************************************)
(* Properties                                                              *)
(***************************************************************************)
TypeOK ==
    /\ plans \in [Plans -> PlanStates]
    /\ DOMAIN runs \subseteq RunIds
    /\ runs \in [DOMAIN runs -> Row]
    /\ audits \subseteq AuditEvent
    /\ imports \in [Imports -> ImportRequest]
    /\ moves \in [Moves -> MoveRequest]
    /\ lapses \subseteq RunIds \X Nat

\* A run never belongs to a plan that is still a draft, although the plan is
\* checked before the insert and not with it: the check cannot go stale,
\* because no statement takes a plan out of "locked".
RunsOnLockedPlans ==
    \A id \in DOMAIN runs : plans[runs[id].upload.plan] = "locked"

\* A track recorded with invalid navigation is never quality checked, and so
\* never processed nor used for coverage, however the versions clients quote
\* and the transitions they race for fall out.
InvalidNavigationIsNeverUsed ==
    \A id \in DOMAIN runs :
        runs[id].upload.nav = "invalid" => runs[id].run_state \in {"imported", "rejected"}

\* Import is idempotent as clients see it: two successful answers to bodies
\* with one checksum name one run, also when the requests ran at once.
OneTrackOneRun ==
    \A i, j \in Imports :
        /\ imports[i].answer \in {"created", "existing"}
        /\ imports[j].answer \in {"created", "existing"}
        /\ checksumRun(imports[i].upload) = checksumRun(imports[j].upload)
        => imports[i].run = imports[j].run

\* A request that quotes the version it read is refused with a conflict only
\* because some other request has moved the run on: of clients racing for a
\* run, one always gets through.
ConflictMeansProgress ==
    [][\A m \in Moves :
          /\ MoveConflicts(m)
          /\ moves[m].expected = moves[m].before.version
          => runs[moves[m].run].version > moves[m].before.version]_vars

\* The audit trail tells of each replaced version once: no second transition
\* event of a run shows a "before" snapshot an earlier event already showed.
VersionReplacedOnce ==
    [][\A m \in Moves :
          MoveAudits(m)
          => \A event \in audits :
                event.action = "run.transition" /\ event.run = moves[m].run
                => event.before.version # moves[m].before.version]_vars

Quiescent ==
    /\ \A i \in Imports : imports[i].pc = "idle"
    /\ \A m \in Moves : moves[m].pc = "idle"

FirstVersion(id) == IF id \in DOMAIN SeedRuns THEN SeedRuns[id].version ELSE 1

Audited(id) ==
    /\ id \notin DOMAIN SeedRuns =>
          \/ <<id, 0>> \in lapses
          \/ \E event \in audits : event.action = "run.import" /\ event.run = id
    /\ \A v \in FirstVersion(id) .. runs[id].version - 1 :
          \/ <<id, v>> \in lapses
          \/ \E event \in audits :
                /\ event.action = "run.transition" /\ event.run = id
                /\ event.before.version = v

\* Once every request is answered, the audit events of a run account for its
\* import and for each of its versions, save for the one event of each request
\* that ended between its write and its event: such a request takes no other
\* event along, and no interleaving loses or blurs one.
AuditTrailComplete == Quiescent => \A id \in DOMAIN runs : Audited(id)

\* The runs table behaves as a table of versioned records with frozen bodies:
\* atomic creations and moves along the lifecycle, nothing else.
Ledger == INSTANCE VersionedRecords WITH
    Ids <- RunIds, States <- RunStates, Initial <- "imported",
    Edges <- RunMoves, Mutable <- {}, FirstVersions <- {1},
    table <- [id \in DOMAIN runs |-> [body |-> runs[id].upload,
                                      state |-> runs[id].run_state,
                                      version |-> runs[id].version]]

ImplementsLedger == Ledger!Spec

=============================================================================
