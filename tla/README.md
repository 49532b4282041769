# Sonar Survey Coverage Planner: specifications

TLA+ models of the planner's server and of one of its browser pages,
model-checked with TLC, with theorems checked by TLAPS. The models follow
`backend/internal`, `backend/cmd` and `frontend/src`; where a model leaves
something out, this file says so.

## 1. The system

The planner records where a survey must look (areas), how ships should sail
(plans of transect lines), where they did sail (sonar runs) and what was left
uncovered (coverage gaps). A React client talks to a Gin server; each handler
calls one service method; services call repositories; each repository call is
one SQL statement, committed on its own. Go serves every request in a goroutine
of its own, nothing in the services takes a lock, and there is no transaction
around a service method. What keeps concurrent requests apart is therefore only

* the optimistic update `UPDATE ... WHERE id = ? AND version = ? [AND state = ?]`,
* unique indexes (run code, track checksum, area code, input hash),
* the shape of the lifecycles, which have no way back.

| Component | State | Operations that change it | What makes it correct |
|---|---|---|---|
| Survey areas (`service/survey_area.go`) | boundary, status, version | Create, Update (also archives) | no lost update; nothing after archiving |
| Transect plans (`service/transect_plan.go`) | area, lines, state, version | Create, Generate, Update, Lock, Copy | locked plans frozen; what is locked is what the client saw; no plans for archived areas |
| Sonar runs (`service/sonar_run.go`) | plan, track, quality, state, version | Import, Transition | lifecycle respected under races; one run per track; only on locked plans; bad navigation never used |
| Coverage gaps (`service/coverage_gap.go`) | area, runs, ratios, input hash, state, version | Detect, Transition | one gap per input; evidence belongs to its input; one review decision |
| Audit trail (`service/audit.go`) | append-only events | Record, last writing statement of each mutating request | every version told of, once |
| Geometry (`geometry/coverage.go`) | none | CalculateCoverage, ParsePolygon, ... | covered, uncovered and outside cells add up; the gap box holds every uncovered cell |
| Rate limiter (`middleware/audit.go`) | count and start of a window per client | Middleware | a bound on what is admitted in less than a window's time; refusals are deserved; eviction is not felt |
| Startup (`config/config.go`, `cmd/server/main.go`) | accounts and demo rows; the process | migrate, seed, listen, shut down | the demo survey is whole unless a start died in the middle of it; no torn start blocks a later one |
| Access (`service/auth.go`, `middleware/rbac.go`) | users, tokens | Login, Parse, RBAC | what an administrator takes from a user stays taken |
| Browser stores (`frontend/src/stores`) | lists and a selected item | fetch, select, import, transition, ... | a decision is carried out on what was shown; evidence is that of the selected run; the progress bar ends |

Components interact through the database alone: Import reads a plan that Lock
writes; Create and Generate read an area that Update archives; Detect reads
areas and runs. No component calls another one's mutating operation, except
Generate, which ends in a call of Create. Before all of them stand the token
check, the limiter and the role check, whose memory is that of the process and
is lost with it, while users, rows and tokens outlive it. The browser knows of
all this only what answers have told it, in the order they arrived.

What is hard to test here: two requests on one row between the read and the
write of each; a check that is stale when the write happens; the second read
after a write, which may show somebody else's version; a request that ends
between its write and its audit event; the same request sent twice at once; a
process that dies between two rows of the seed; a reading of the clock that is
used later than a younger one; an answer that arrives after the next selection.
`PROJECT.json` lists these hazards with their lines.

## 2. The modules

| Module | Models |
|---|---|
| `Lifecycles` | states and transition tables of runs, gaps, plans and areas (`constants/`) |
| `VersionedRecords` | abstract: a table of versioned records, written atomically along a lifecycle |
| `SonarRuns` | Import and Transition of runs; Lock of plans as one step |
| `SurveyPlans` | Create, Generate, Update, Lock, Copy of plans; Update of areas as one step |
| `SurveyAreas` | Create and Update of areas |
| `CoverageReview` | Detect and Transition of coverage gaps; Update of areas and Transition of runs as one step each |
| `CoverageGrid` | the geometry: the lines Generate draws, the analysis of CalculateCoverage, the recommended line |
| `FixedWindows` | abstract: a limiter with one window per key that is never forgotten |
| `RateLimiter` | the limiter: late readings, window reset, eviction |
| `ServerProcess` | start, seed, serving, stop and crash of the server; token, limiter and role check of the import route. It extends `RateLimiter`, which is its memory |
| `RunsDesk` | the browser's store of runs and the page that calls it, against a table of runs others write to |
| `MCSonarRuns`, `MCSurveyPlans`, `MCSurveyAreas`, `MCCoverageReview`, `MCCoverageGrid`, `MCServerProcess`, `MCRunsDesk` | the small instances TLC checks |
| `SonarRunsProofs` | theorems about `SonarRuns`: types, races of requests, the refinement, the audit trail |
| `CoverageReviewProofs` | theorems about `CoverageReview`: types, evidence, races, the refinement, the audit trail |
| `SurveyAreasProofs`, `SurveyPlansProofs` | theorems about `SurveyAreas` and `SurveyPlans`: types, lost updates, the refinement, the audit trail |
| `CoverageGridProofs` | theorems about `CoverageGrid`: types, the result of the loop, recommended and generated lines |
| `CoverageGridShapes` | theorems about `CoverageGrid` and the shape of boundaries: the area of whole cells, the inside of convex rings; and the lemmas about sums they rest on |
| `ServerProcessProofs` | theorems about `RateLimiter` and `ServerProcess`: bursts, refusals, eviction, seed, access, types |
| `RunsDeskProofs` | theorems about `RunsDesk`: types, decisions, evidence, the progress bar |

The modules of the four tables share what they read of each other as single
steps: `SonarRuns` has the lock of a plan, `SurveyPlans` the update of an area,
`CoverageReview` the update of an area and the transition of a run. Each of
these steps is one statement in the code (a committed UPDATE), so nothing is
lost: the statements before it in its own handler only decide whether it comes.

**How a module corresponds to the code.** A worker (`Imports`, `Moves`,
`Workers`) is a goroutine serving one request after another. Its record holds
the handler's local variables; `pc` names the statement it executes next. An
action is what happens from one database statement to the next: the statement
itself, and the computation and early returns up to the next one. So
`MoveReads` is `Get` with all the checks of `Transition` (sonar_run.go:90-112),
`MoveUpdates` and `MoveConflicts` are the two outcomes of the conditional
UPDATE, `MoveRereads` is the `Get` at the end of the repository's `Transition`,
`MoveAudits` the insert of the audit event. Requests that change nothing
(refused by a check) are steps that leave everything as it is. A request can
end between any two statements (`ImportFails`, `MoveFails`, `Fail`): the
statement failed or the process died; the models do not tell these apart
because no service state outlives a request.

| Code | Model |
|---|---|
| row of `sonar_runs` | `runs[id] = [upload, run_state, version]` |
| request body of an import | an element of `Uploads`: plan, track (with swath and times), code, navigation quality |
| sha256 of `checksumRun` | the pair of plan and track: equal exactly when the hashed fields are |
| unique indexes | `Insertable` |
| `WHERE id = ? AND version = ? AND run_state = ?` | `RowMatches`, `LockMatches` |
| `WHERE id = ? AND version = ?` | `UpdateMatches` (plans), `Matches` (areas) |
| audit event with snapshots | `AuditEvent`; in `SurveyPlans`, `SurveyAreas` and `CoverageReview` a snapshot is represented by its version |
| `input_hash` | `StableInputHash`: area, algorithm, sources, resolution; runs stand for their unique checksums |
| `WHERE id = ? AND version = ? AND gap_state = ?` | `GapMatches` |
| `explanation` of a gap | the sequence of the review notes appended to it; `TextLength` is its length |
| float64 point, polygon, line | pairs of integers, sequences of rings, sequences of points |
| the nested loop over rows and columns | `Scan`, one step per cell, `cell` counting row by row |
| running minima and maxima, starting at infinity | `box`, starting at `Nothing` |
| versions clients quote | `ExpectedVersions`; in `SurveyPlans` and `SurveyAreas` `VersionSlack` relates them to the row |
| `l.clients`, a map | `clients`, a function whose domain are the keys the map holds |
| a request between `time.Now()` and `l.mu.Lock()` | an entry of `asking`, with its reading `now` |
| from `l.mu.Lock()` to `l.mu.Unlock()`, the cleaning included | `Count` |
| where `main` and `seed` have got to | `phase`, `seedStep`, `account` |
| `FirstOrCreate`, `count > 0`, `db.Create` of `seed` | `SeedsAccount`, `SeedCounts`, `SeedInserts` |
| tokens in clients' hands; the claims of one in a request's context | `known`; `claims` |
| a promise of the store that is not settled | an entry of `requests`: `sent`, `written` by the server but not read again, `answered` but not arrived |
| `items`, `selected`, `quality`, `loading` of the zustand store | the same |

**What is abstracted.** A body is a model value of what the code looks at:
whether it parses, which plan, which track. Numbers in bodies, names, times,
users and request ids play no part in any decision modelled. Audit events are a
set: equal events of equal requests are one element. Rows of `survey_areas` keep
no area code, so the refusal of a second area with one code is not modelled (it
changes nothing). Reads that change nothing (List, Quality, Summary) have no
action. GORM saves the associations of a copied plan with
`ON CONFLICT DO NOTHING`, so a copy writes nothing but its own row.

In `CoverageReview` what the grid computes is a function of the input, and only
whether it can be computed at all (`Infeasible`) changes what the handler does.
The input a gap was computed from includes the boundary, as the computation
does; its hash does not, as the code's does not. The coordinate system is
constant. `Idempotency-Key` is checked for its length and written to the audit
event, nothing looks it up, so it is not modelled. Areas are not looked at for
being archived, because `Detect` does not. A note counts with the 6 characters
of its heading; `BaseLength` is 51, the usual length of the text a new gap
starts with. `ReviewTooLong` is the refusal of Postgres, which the deployment
uses; SQLite does not enforce the size of the column. The column sizes and the
bounds of the DTOs are the code's.

In `CoverageGrid` comparisons are exact: each quotient and square root of the
code is multiplied out or squared. Which cells rounding in float64 would move
across a line is out of reach. Coordinates are multiples of half a cell where
the code needs halves (`EvenAssumption`). The number of filtered fragments,
which only goes into the wording of the explanation, and lengths of tracks are
left out. `FlyRecommendation` is not code: it is the crew that surveys the gap
along the recommended line, as the lifecycle state `resurveyed` expects, with a
swath as wide as the shorter side of the box. One run of a resurvey is added to
the tracks and the analysis is made again.

In `ServerProcess` a token is what its claims say: signature, password and the
eight hours until it expires are left out, so a token is good for ever, which
allows more than the code does. Of the three limiters and the routes behind them
the import route stands for all. `AltersUser` is not code: no handler changes a
user, but `Parse` looks the account up for the day an administrator does. The
token check and the reading of the clock are one step, `Enter`: a user who is
altered between the two is `overtaken`, as one who is altered after both. The
limiter, the role check and the start of the handler are another, `Passes`,
because the limiter alone touches what others can see. The handler then runs
(`handling`) until it `Returns`; what it does is the subject of the other
modules. `Shutdown` closes the listener but not the connections on which a request
is being read or served: such requests still come in, are served and let time
pass while the server is draining. `Drained` waits for all of them, whether at
the limiter or in their handlers. The delay of a request between its reading
and the mutex is at most `MaxDelay`, which is at most one window, a minute in the
code. `forgotten`, `recent`, `granted`, `overtaken` and `torn` are histories: no
action's guard looks at them. Histories forget with a process what it had
admitted, as its clients' counts are. `recent` has for each key the admissions
of the last windows, with their readings and a number that tells two of one time
apart.

In `RunsDesk` the rest of the system is the table `SonarRuns` implements:
`OthersWrite` is any write another desk may cause. What the server answers a
transition or a new import is read after the write, in a statement of its own
(`Rereads`). The list is its first page, newest first: `Listed` says so of a
sequence of rows, for the order `Rank` and a page of `PageSize` rows (100 in the
code). A request that gets no answer, or an error, or whose connection is
closed after it was served, ends in `Fails`. The page's timer and its messages
are left out. The stores of gaps and plans have the same shape with fewer calls.

**Clients.** Any body may be sent at any time, twice, and concurrently. In
`SonarRuns` any version of `ExpectedVersions` may be quoted, in the right state
or not. In `SurveyPlans` and `SurveyAreas`, `VersionSlack = 0` restricts the
quoted version to those that exist when the server reads the row, as the browser
does, which quotes what an answer showed it. `VersionSlack = 1` allows one
version more: a client can infer the version that its other request, still in
flight, will produce, and the API takes it.

### The abstract specifications

`VersionedRecords` says what readers of a table may rely on: every change is
one atomic creation or one atomic move of one record along an edge of its
lifecycle with the version raised by exactly one; records are never deleted; a
body is frozen outside the states in `Mutable`. Each of the four table modules instantiates it (`Ledger`) with a refinement mapping from its table, and the
property `ImplementsLedger` says that all the interleaved reads, checks, writes
and failures of the requests add up to just such steps. For plans this includes
that a locked plan is never written again, for areas the same of archived ones,
and for runs that no race takes an edge missing in `run_state.go`.

`FixedWindows` says what a client may expect of the limiter: one window per key,
in which each request counts or, a whole window after its start, opens the next.
It has no map to clean and no order of readings. `RateLimiter` implements it with
the refinement mapping that looks an evicted key up in the history `forgotten`
(`ImplementsFixedWindows`).

## 3. The runs

| Run | Instance | Question and answer |
|---|---|---|
| `RunRaces` | 2 import and 2 transition workers, 3 bodies of which two share a track and one is invalid, 1 plan locked and 1 draft, 1 older run at its end, versions 1-3 | Can a run land on a draft plan, one track get two runs, or a run leave its lifecycle or its audit trail, while requests interleave? No. |
| `AreaRaces` | 2 workers, 1 area, 2 boundaries, versions below 4, 1 failure | Are updates lost, or archived areas changed? No. |
| `PlanRaces` | 2 workers, 1 plan and room for 1 more, versions below 3, 1 failure | Are revisions lost, or locked plans changed? No. |
| `ServerProcess` | 2 accounts, 2 clients, 2 requests at once, capacity 1, window and delay 1, times 0-3, a map cleaned above 1 entry, one client that goes on after its first refusal and one that does not, 1 alteration, 1 crash of a start in a row | Do crashes, late readings, evictions and old tokens give anybody more than he has, or keep the server from starting or stopping? No. |
| `RunsDesk` | 1 desk with 2 requests at once, 2 runs of which one is new, 2 target states, a page of one row, versions up to 3 | Is a decision carried out on another row than was shown, or other evidence shown than was asked for? No to the first; no to the second as long as selections do not overlap. |
| `PlanPipelined` | `PlanRaces` with `VersionSlack = 1` | Are locked plans frozen for every version a client may quote? **No.** |
| `PlanArchived` | `PlanRaces` | Do archived areas take no plans? **No.** |
| `CoverageDetect` | 2 detection workers, 2 areas, 2 runs, 2 boundaries, 2 resolutions, room for 2 gaps | Can one input get two gaps, or a gap rest on a run that was never processed, while areas and runs change? No. |
| `CoverageReviews` | 2 reviewers, 1 detection worker, 1 run, room for 1 gap, versions 1-4, a short and the longest note | Do racing reviewers lose notes, or take two decisions? No. |
| `CoverageStale` | 1 detection worker, 1 area, 2 boundaries | Was an existing gap computed from the input it is answered for? **No.** |
| `ReviewStuck` | 1 reviewer, notes of 14, 540 and 606 characters | Can each review be carried on to its end? **No.** |
| `CoverageGrid` | 15 boundaries, 2 cell sizes, 6 surveys flown by hand and 32 plans to be generated | Do classification, area, gap box, generated lines and recommended line fit each other? Yes. |

The properties, and why they are not obvious:

* `RunsOnLockedPlans`: three statements lie between the check of the plan and the
  insert. As plans are never unlocked this comes down to the check being made.
* `OneTrackOneRun`: about answers, not rows. Both requests may have looked the
  checksum up before either inserted.
* `InvalidNavigationIsNeverUsed`: whatever path a run takes, the one guard that
  looks at the quality lies on it. No request changes the quality of a run, so
  it is of no consequence that the UPDATE does not repeat it.
* `ConflictMeansProgress`: a `VERSION_CONFLICT` for a client that quoted the
  version it read means that another request has succeeded, so clients that
  retry cannot all fail for ever without the row moving on.
* `VersionReplacedOnce`, `AuditTrailComplete`: the "before" snapshot is read
  before the write and the "after" snapshot by a second read after it. "After"
  may be a later version; "before" always is the version replaced, and the
  trail accounts for every version. A request that ends between its write and
  its event takes that one event along (`lapses` has its row and version) and no
  other. `CoverageReview` says in addition that "after" is a version the gap has
  had since the one replaced.
* `WriteReplacesWhatWasRead`, `UpdateReplacesWhatWasRead`: no lost update, and
  what a client locks is what it looked at.
* `ImplementsLedger` of `SurveyPlans` and `SurveyAreas`: a locked plan and an
  archived area are never written. The state is not in the condition of the
  UPDATE; for versions that exist when the row is read, the version stands in
  for it. `LockedPlansAreFrozen` is the same for plans alone, which
  `PlanPipelined` refutes when other versions may be quoted.
* `GapsRestOnProcessedRuns`: the runs are checked two statements before the
  insert. Superseded runs count, as they have been processed: that a run can be
  superseded before the insert is not prevented. The property holds because no transition leads from processed back; superseded
  is the only way on.
* `OneInputOneGap`: about answers again, across the lookup, the computation and
  the insert of two detections.
* `NotesAreKept`: the whole explanation is written back, composed from the row
  as read. It is the state in the condition of the UPDATE that makes this safe
  for every version a client may quote, since the lifecycle has no way back.
* `ResultIsOfTheWholeGrid`: what the loop accumulates is what a definition over
  the whole set of cells says: number of cells inside, covered and covered
  twice, and the smallest box around the uncovered ones.
* `InsideMeansInside`: the parity of crossings against the sides of edges, for
  convex rings in both directions, closed and open, with holes. A ring is
  `Convex` if all corners are on one side of each edge and no stretch is gone
  twice: around a ring that is gone round twice each crossing comes in a pair,
  and the code counts its inside as outside.
* `AreaIsThatOfTheCells`: `area_square_m` of a gap is `PolygonArea` times a
  share of cells. Shoelace and sampling know nothing of each other; on a
  boundary of whole cells (holes and reentrant corners included) they agree,
  where its rings are `Simple`, so that they go round each centre once at most
  and in one direction, and `Nested`, so that holes are inside and apart.
* `PlannedSurveyReachesFarSide`: composes `Generate` with `CalculateCoverage`.
  The lines start half a spacing inside and stop before the far side, so a strip
  below half a spacing can stay uncovered there, and nothing else.
* `RecommendationClosesGap`: composes the recommended line with the analysis
  that follows the resurvey.
* `BurstBound`: twice the capacity in less than a window's time is what fixed
  windows allow at best; with readings late at the mutex a third window takes
  part, but never with the request that opened it.
* `RefusalIsDeserved`: who waits a window is not refused for what was before it,
  in whatever order the readings met the window.
* `ImplementsFixedWindows`: the request that cleans the map comes with a reading
  of its own, which may be older than others', and evicts other clients' entries.
* `DemoIsWhole`: across any sequence of starts that crash or are stopped. It says
  both that the survey is complete when no start died in the middle of it, and
  that it stays torn for good when one did.
* `RevocationTakesHold`: the token says one thing, the users table another, and
  the seed of every start has an opinion on the accounts as well.
* `StartsAndStopsComplete`: liveness. What a start that died has left never makes
  the next one fail for ever, and a stop is carried out although a request at the
  limiter or a handler need not end. What becomes of a handler's work when the ten
  seconds are over is not part of it: that is a request that ended early, in the
  other modules.
* `DecisionIsOnWhatWasShown`: the row a button acts on can be older than the list
  next to it, and answers of other calls replace it meanwhile.
* `EvidenceIsOfTheSelected`: between selection and answer lie failures, refreshes
  and imports that select as well.
* `SpinnerEnds`: liveness, for every way a refresh can end.
* `TypeOK`: one type invariant per module; it also says that every version is
  positive, every running request refers to existing rows, the demo rows come in
  their order, and (`RunsDesk`) that no run is on the list twice.

**Bounds.** Two workers of the kind in question are enough for every race of two
requests. A run has at most four versions on its longest path to the state in
which its data count (imported, quality_checked, processing, processed), so
quoting versions 1 to 3 takes a new run there along every edge; the one edge on
from there, to superseded, is of the same kind, and the older run is at its end
already. Plans and areas can be revised
without end: `MaxVersion` cuts the quoted versions, one revision and one lock,
or three updates, being what two workers need to overtake each other.
`PlanIds` with room for one more plan ends in `TableFull`, the only
action that is an artefact of the bound. `MaxFailures` counts requests that end
early; `SonarRuns` and `CoverageReview` need no such bound. All four remember in
`lapses` the events that were lost by it. Symmetry is over workers and over new run ids, for invariants and
action properties; no run with a liveness property has any.

Four versions take a gap from detection to its end (detected, reviewed,
accepted, resurveyed; what has been closed is quoted by nobody). Two areas with
a run each make sources of the wrong area possible, a run still being processed
and one already superseded make all answers to the check possible; the second
boundary and resolution are what an update can change, one of their four
combinations has no grid. `CoverageGrid` runs over boundaries on and off the
grid, in both directions, open and closed, with holes, reentrant corners and
slanted edges, three that no survey should have but the parser takes (a hole
that is one point, a hole outside, a ring that encloses a part twice), and four
that are refused: without area, with too few corners,
without a cell centre inside, and with more than `MaxCells` cells (the code's
limit of 60000 is 50 here). The surveys have a track of one point, a bent one,
one that crosses itself in two lines, two that overlap, one that covers
everything and one that covers nothing. The plans have both directions, with
headings at both ends of their ranges, spacings that divide the side and that do
not, and one above it.

In `ServerProcess` capacity and window are 1, so that the second request of a
window is refused and times 0 to 3 hold three windows, each of which a late
reading can meet; with the map cleaned above one entry, the second client's
request evicts the first one's entry, two windows after its start at the
earliest (`MaxTime` is what makes this happen). `MaxCount` is where a client
gives up sending in a window: one goes on after it was refused, the other's
entry is there to make the map one too many, and to be evicted itself. `MaxCrashes` bounds
failures of a start in a row, not in all: without it a server that always dies
in its seed need not ever serve. One alteration gives or takes a role at every
moment of a request. Two requests on the desk are enough for every overlap of two
answers; with versions up to 3 a run can be moved on by another desk and by this
one, and the new run pushes the old one off the page of one row while its
evidence is open. `Targets` are the two states an imported run can go to; the
guards treat all states alike.

**Fairness.** The runs of the tables and of the geometry assume none: their
properties are about what may not happen, and a client may leave a request
unsent. `ConflictMeansProgress` says as a safety property what can be said of
progress there. Two specifications state weak fairness, for their liveness
properties and no more than the code and its deployment give:

* `ServerProcess`: a start from `off`, because compose restarts a container that
  has died (`restart: unless-stopped`); the statements of `main` from seed to
  `ListenAndServe`, which one goroutine executes in order; and the end of
  `Shutdown`, which returns when no request is left or after ten seconds. Not
  fair: requests, the handlers, an operator's start after a stop, time, logins.
* `RunsDesk`: the end of each request, with an answer or without
  (`WF_vars(Ends(s))`, one per slot), because the server closes a connection
  after its write timeout (`main.go:52`) and `fetch` then rejects. That a request
  succeeds is not assumed.

**Deadlock** is checked in every run of a table module and of `RunsDesk`: an idle
worker can always be sent a request. `CoverageGrid` is a computation and ends
with its answer. `ServerProcess` has a clock that stops at its bound.

## 4. Findings

* **A locked plan can be overwritten** (`PlanPipelined`). Revision read: draft,
  version 1; lock written: locked, version 2; revision written, quoting 2.
  Repeating `plan_state = 'draft'` in the condition of `Update`, as `Transition`
  has it, would repair it. The updates of areas have the same shape.
* **Archived areas gain plans** (`PlanArchived`). By `Copy`, which never looks
  at the area, or by an archive between the check and the insert of `Create`.
* **An answer of an older boundary** (`CoverageStale`). The input hash leaves the
  boundary out. After an area was given another boundary, detection with the
  same runs finds the old gap and answers it with `idempotent: true`.
* **A review that cannot be finished** (`ReviewStuck`). `explanation` has 1200
  characters, each note may have 600. Two long notes leave no room for the
  shortest third, and a gap needs up to four transitions to be closed.

Not runs of their own, but worth knowing:

* A change can be without an audit event: `gb-532.md:52` asks for transactions
  around writes to several tables and `gb-532.md:68` for snapshots of every
  change, but write and event are separate commits (`sonar_run.go:112/116`,
  `:67/71`, and alike for areas, plans and gaps). `AuditTrailComplete` is stated
  up to `lapses`, the very events that were lost by it: row and version. Such a
  request may cost its own event, and the property says that it costs no other.
* Of two imports of one body at once, both may find no checksum, and then the
  loser of the unique index is answered 409 `DUPLICATE_RESOURCE` and not, as a
  later retry is, with the existing run (`ImportDuplicates`); detection is alike
  (`DetectDuplicates`). `OneTrackOneRun` and `OneInputOneGap` are stated for
  successful answers for this reason.
* A demo survey that was torn by a crash is never completed: `seed` only counts
  areas. `DemoIsWhole` says so (`torn`).
* `README.md:182` advises, after `VERSION_CONFLICT`, to refresh the list and try
  again. The refresh keeps the selected row as it was (`sonar-run-store.ts:8`), so
  the buttons go on quoting the old version until the row is clicked. No harm is
  done (`DecisionIsOnWhatWasShown`), but the advice does not help by itself.
* When a selection is made while another request that sets what is shown is under
  way, the later answer wins: evidence of one run can appear under another. Hence
  `overlapped` in `EvidenceIsOfTheSelected`.
* The stores of plans and areas put a new row in front of the list without
  looking whether a refresh has brought it already; the store of runs looks. The
  mutant `WithImported_Always` of `RunsDesk` shows what comes of it: a row twice.
* `ParsePolygon` and `validatePolygon` take rings that overlap themselves and
  holes that lie outside the exterior or overlap each other. `PolygonArea` then
  is not the area of what `polygonContains` counts, and the reported area of a gap
  is off by as much; no document promises otherwise. `Simple`, `Nested` and the
  second half of `Convex` say which boundaries are meant. Without them
  `AreaIsThatOfTheCells` and `InsideMeansInside` are false, as TLC shows on the
  three boundaries mentioned above and on a ring gone round twice.
* A late 401 clears the session of a login that has succeeded since
  (`client.ts:16`).

## 5. The proofs

TLAPS checks the theorems below for every value of the constants: any number of
workers, rows, plans, areas, bodies and notes, any versions that clients quote,
any accounts, clients, capacity and window, any polygons, cell sizes, surveys
and headings, any runs, page size and requests of a desk.
The only assumptions are the named `ASSUME`s of the modules: the constants have
their types, and what the database holds at the start is what the programs
could have left there. Those of the geometry: a boundary has a ring
(`BoundaryAssumption`, which the parser sees to), cell size and spacing are even
(`EvenAssumption`, a choice of the unit, so that centres are integers), a survey
has finitely many runs and at least one (`RunsAssumption`; `Detect` refuses
none). Those of the desk: the order of the list tells every two runs apart
(`DeskAssumption`, the code orders by `started_at` and then `id`).
`NothingAssumption` says of each module that what stands for an absent value is
none of the values.

| Theorem | Module | Property |
|---|---|---|
| `TypeCorrect` | `SonarRunsProofs` | `TypeOK` |
| `RunsStayOnLockedPlans` | `SonarRunsProofs` | `RunsOnLockedPlans` |
| `ConflictsMeanProgress` | `SonarRunsProofs` | `ConflictMeansProgress` |
| `InvalidNavigationStaysOut` | `SonarRunsProofs` | `InvalidNavigationIsNeverUsed` |
| `EventsAreNotRepeated` | `SonarRunsProofs` | `VersionReplacedOnce` |
| `AuditTrailIsComplete` | `SonarRunsProofs` | `AuditTrailComplete` |
| `TracksHaveOneRun` | `SonarRunsProofs` | `OneTrackOneRun` |
| `RunsImplementLedger` | `SonarRunsProofs` | `ImplementsLedger` |
| `TypeCorrect` | `CoverageReviewProofs` | `TypeOK` |
| `EvidenceIsProcessed` | `CoverageReviewProofs` | `GapsRestOnProcessedRuns` |
| `InputsHaveOneGap` | `CoverageReviewProofs` | `OneInputOneGap` |
| `NotesStay` | `CoverageReviewProofs` | `NotesAreKept` |
| `ConflictsMeanProgress` | `CoverageReviewProofs` | `ConflictMeansProgress` |
| `GapsImplementLedger` | `CoverageReviewProofs` | `ImplementsLedger` |
| `AuditTrailIsComplete` | `CoverageReviewProofs` | `AuditTrailComplete` |
| `TypeCorrect` | `SurveyAreasProofs` | `TypeOK` |
| `UpdatesAreNotLost` * | `SurveyAreasProofs` | `UpdateReplacesWhatWasRead` |
| `AreasImplementLedger` * | `SurveyAreasProofs` | `ImplementsLedger` |
| `AuditTrailIsComplete` * | `SurveyAreasProofs` | `AuditTrailComplete` |
| `TypeCorrect` | `SurveyPlansProofs` | `TypeOK` |
| `RevisionsAreNotLost` * | `SurveyPlansProofs` | `WriteReplacesWhatWasRead` |
| `PlansImplementLedger` * | `SurveyPlansProofs` | `ImplementsLedger` |
| `LockedPlansStay` * | `SurveyPlansProofs` | `LockedPlansAreFrozen` |
| `AuditTrailIsComplete` * | `SurveyPlansProofs` | `AuditTrailComplete` |
| `TypeCorrect` | `CoverageGridProofs` | `TypeOK` |
| `ResultCorrect` | `CoverageGridProofs` | `ResultIsOfTheWholeGrid` |
| `RecommendationCorrect` | `CoverageGridProofs` | `RecommendationClosesGap` |
| `PlanReachesFarSide` | `CoverageGridProofs` | `PlannedSurveyReachesFarSide` |
| `AreaCorrect` | `CoverageGridShapes` | `AreaIsThatOfTheCells` |
| `InsideCorrect` | `CoverageGridShapes` | `InsideMeansInside` |
| `BurstsAreBounded` | `ServerProcessProofs` | `BurstBound`, of the limiter alone |
| `RefusalsAreDeserved` | `ServerProcessProofs` | `RefusalIsDeserved`, of the limiter alone |
| `ServerLimitsAreKept` | `ServerProcessProofs` | `BurstBound` and `RefusalIsDeserved` |
| `EvictionIsNotFelt` | `ServerProcessProofs` | `ImplementsFixedWindows`, of the limiter alone |
| `ServerEvictionIsNotFelt` | `ServerProcessProofs` | `ImplementsFixedWindows` |
| `ServerTypes` | `ServerProcessProofs` | `TypeOK` |
| `DemoSurveyIsWhole` | `ServerProcessProofs` | `DemoIsWhole` |
| `RevocationIsFinal` | `ServerProcessProofs` | `RevocationTakesHold` |
| `TypeCorrect` | `RunsDeskProofs` | `TypeOK` |
| `DecisionsAreOnWhatWasShown` | `RunsDeskProofs` | `DecisionIsOnWhatWasShown` |
| `EvidenceIsRight` | `RunsDeskProofs` | `EvidenceIsOfTheSelected` |
| `SpinnerIsOfARefresh` | `RunsDeskProofs` | the safety half of `SpinnerEnds`: while the bar is shown, a refresh is under way |

A theorem with an asterisk assumes `VersionSlack = 0`: clients quote versions
that exist, as the runs `AreaRaces` and `PlanRaces` have it. Without this
assumption they are false: `PlanPipelined` is the counterexample to
`LockedPlansStay`.

So every property of the passing runs is proved but two, the liveness properties
`StartsAndStopsComplete` and `SpinnerEnds`.

The argument, in `SonarRuns` and `CoverageReview`:

* **`TypeInv`** is `TypeOK` with what the requests refer to: the row a request
  has read exists, its fields are filled in as far as the handler has come.
  `TypeOK` alone is not inductive, because a later statement uses what an
  earlier one filled in.
* **`RaceInv`** is the heart. A request that is about to write has read a row
  that either still is the row of the table, or the table shows a higher version
  *and* a state further along the lifecycle. The second half needs an order of
  the states, `RunRank` and `GapRank`, which every move raises
  (`MovesRaiseRank`). The UPDATE compares the state: a row that shows the state
  the request read is of no higher rank, so it is the very row it read
  (`MatchIsReadRow`, `UpdateGoesOn`). The version the client quoted plays no
  part. From this follow the theorems on conflicts, navigation, notes and, with
  the checks made on the row read, the refinement.
* **`LockedInv`, `SourcesInv`** carry a check from the statement that makes it to
  the insert that relies on it. Both are inductive because the state checked has
  no way back: `locked` has none, from `processed` leads only `superseded`.
* **`TrackInv`, `HashInv`**: unique keys differ, and each request that knows its
  row knows the one with its key.
* **`AccountInv`**: for each version of a row that was replaced there is an
  event, or a request that still owes it, or the lapse of the request that owed
  it. That the version written over is the one read, which is what the event
  shows, comes from `RaceInv`. For gaps the event also shows a later version: the
  one the second read finds is higher than the one replaced (`Owes`), and stays
  one the gap has had (`VersionsGrow`, `ToldStays`). **`ClaimInv`** adds for runs
  that no two requests owe, and no event and request stand for, the same
  version.

In `SurveyAreas` and `SurveyPlans` the condition of the UPDATE does not repeat
the state, so the order of the states is of no use, and the version takes its place:

* **`RaceInv`** says of a request that is about to write that the version it
  quotes is at most that of the row it read, and that either this still is the
  row of the table or the table's has a higher version; and that the row it read
  was open to the write. Versions that match are therefore equal to that of the
  row read, and the row is that row (`MatchIsReadRow`). With `VersionSlack = 1`
  the first half fails, and with it all that follows.
* **`AccountInv`** is the account of the audit trail. For plans it counts
  exactly: what is told of, what is still owed and what has lapsed make up an
  interval without a gap, from the version a plan started with (`Starts`), which for a copy is that
  of its source, to the one before its own (`ChainsGrow`, `ChainsStart`).
  `NothingAssumption` says that the absent row is none of the rows.

In `CoverageGrid`:

* Least and greatest members. The box is a matter of minima and maxima of finite
  sets. That every finite, nonempty set of integers has them is the one induction
  needed (`ExtremesExist`). It is made without the library's induction theorem:
  the subsets of a finite set are well founded under inclusion, so among the
  subsets without a least member there would be a smallest, and taking one more
  member away from that gives a contradiction.
* **`GridInv`** is the invariant of the loop: after `cell` cells the counts are the
  cardinalities of the sets of inside, uncovered and twice covered cells among the
  first `cell`, and the box is the smallest around those uncovered ones
  (`IsBoxOf`). `ResultIsOfTheWholeGrid` is what it says when the loop is at its
  end. It speaks of the survey as it is, so the steps that fly a line and start
  over are part of it (`SameGaps`).
* **`ClosedInv`**: once the resurvey is part of the survey, no cell is uncovered.
  Every uncovered cell lies in the box; the recommended line runs along the middle
  of it, half the shorter side from either edge, which is what the swath reaches
  (`RecommendedCovers`, with the distance to a segment multiplied out in
  `BesideHorizontal` and `BesideVertical`).
* **`PlanInv`**: the generated plan is flown as drawn. A centre inside the boundary
  is not beyond its far side, because no edge crosses to the right of all corners
  (`NotBeyond`); up to half a spacing before the far side there is a line within
  half a spacing of it (`LineWithinHalfSpacing`); and along a line a centre is not
  beyond its ends.

In `CoverageGridShapes`, where `GridInv` reduces both properties to statements about
one boundary:

* Sums. `ringArea` and the area of the holes are folds over a set of indices of any
  size, and a fold is a table with an entry for each subset (`IsTable`). On finite
  sets such a table exists and is unique (`TableExists`, `TableIsUnique`); from this
  follow the usual laws (`SumOfBoth`, `SumsExchange`, `DifferencesCancel`, ...).
  The induction is made without an operator as a parameter, as in `ExtremesExist`,
  with the *set* of subsets for which a claim is good in the place of a predicate
  (`BySmaller`, `ByMembers`).
* **The area.** An edge along sides of cells adds to the shoelace sum twice the size
  of each cell to the left of it, with the sign of its direction, and a difference of
  a term of its two ends (`CrossOfEdge`). Around a ring the differences cancel. The
  very same cells are those whose line to the right the edge crosses
  (`TurnsOfEdge`). Exchanging the two sums, over edges and over cells, the area is
  the sum over the cells of how often the ring goes round them (`RingAreaByTurns`),
  and for a simple ring this is the number of cells it contains
  (`AreaOfSimpleRing`, which needs that parity and winding number agree,
  `WindingOfRing`). Holes that are apart and inside are taken off one by one
  (`WithoutParts`).
* **Convex rings.** An edge counts as a crossing if it rises past the height of the
  point and the point is on its left, or falls and the point is on its right
  (`CrossesBySide`). A ring that rises past a height falls past it as well
  (`RisesAndFalls`, from `RoundTheRing`: going round, nobody leaves a set of corners
  for good), and a convex ring does so once each: two edges that rise past one
  height would lie on one line and go the same way (`PassesOnce`). So a point is
  counted as inside exactly if it is between the two edges (`CrossingsOfConvex`).
  Between them it is, as a positive combination of their ends, on the side of each
  edge where the corners are, hence not beyond (`OnTheSideOfCorners`). And a point
  that the ring does not rise past is not within, because directions in half a
  plane that always turn the same way do not come back (`HalfPlane`).

In `RateLimiter` and `ServerProcess`:

* **`PlacesInv`** is what bursts and refusals have in common. Each recent admission
  of a key has a *place*: a window and a number in it from 1 to the capacity. No
  two have the same; windows of one key start at least a window apart; a reading is
  less than a window and a delay after the start of its window, and that of number
  1 at most a delay. The places exist, no variable holds them
  (`HasPlaces`). Admissions less than a window old then lie in at most three
  windows, the numbers in which map one to one into as many integers as the bound
  allows (`PlacesBoundBursts`). As long as it matters, every number the current
  entry has given out is still the place of a recent admission, so a refusal has a
  full window of them behind it (`PlacesBackRefusals`).
* **`LimiterInv`**: a waiting request's reading is at most `MaxDelay` old, and an
  evicted window started more than two windows ago. As the delay is at most one
  window (`DelayAssumption`), whoever comes next with a key that was evicted has a
  reading past the end of the window that was forgotten, and opens one where the
  abstract limiter does. Each step of the server is a step of the
  limiter or leaves it alone (`ProcessStepsTheLimiter`).
* **`SeedInv`** relates `seedStep` to the rows that are there: what a start has
  inserted itself, and what it has found (`Found`). It needs `torn` on both sides,
  because a start that finds a torn survey goes on to serve.
* **`AccessInv`**: what an account was granted last is what its row says, if it
  has one, and what its first row will say, if not; the claims of a request that
  was not overtaken are those of an active row. The seed keeps it because
  `FirstOrCreate` leaves an existing row alone.

In `RunsDesk`:

* **`DeskInv`**: whatever row the store holds or an answer brings, the table has it
  or a higher version (`KnownRow`), and each list has a run once. A button quotes
  the version of the row it was shown with; if the UPDATE finds this version, the
  row is the one shown.
* **`EvidenceInv`**: unless requests that choose what is shown overlapped, there is
  at most one such request under way, and it is about the selected run.
* **`SpinnerHasRequest`**: while the bar is shown some request is for the list. It is
  inductive by itself: whichever of several refreshes ends first takes the bar back.

What TLC alone checks: liveness (`StartsAndStopsComplete`, `SpinnerEnds`), since
fairness is a matter of `ENABLED`, which this prover does not reach. For
`SpinnerEnds`, `SpinnerIsOfARefresh` proves what has to be true for the end of
requests to be the end of the bar.

## 6. The plan

Done are all modules of section 2 with their runs, and the theorems of section 5.
What would come next, in this order:

1. The four counts of an area's summary, for the moments they belong to.
2. Rounding: by how much a float64 quotient may move a centre across an edge, and
   which of the counts this can change.
3. `InsideMeansInside` for rings that are simple but not convex, against the winding
   number instead of the sides of edges.

## 7. Not modelled

* Cryptography, password hashes, token formats and expiry: libraries' work.
* Routing, JSON binding, error envelopes, request ids, recovery from panics: they
  keep no state and decide nothing between requests.
* List and filter queries, and the four counts of an area's summary, which only
  inform.
* GeoJSON parsing and the rounding of floating-point geometry; the product
  `columns*rows` before its comparison, whose overflow takes coordinates no survey
  has.
* The other browser stores, which do less than the one of runs in the same way;
  the session, one value; rendering.

`PROJECT.json` lists every component with its status.
