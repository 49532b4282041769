----------------------------- MODULE SurveyPlans -----------------------------
(***************************************************************************)
(* TransectPlanService: plans of transect lines are drawn in areas that    *)
(* are not archived, by hand or generated from the boundary, revised as    *)
(* drafts, locked for good, and copied into new drafts.                    *)
(*                                                                         *)
(* As in SonarRuns, a request is a sequence of separately committed        *)
(* statements.  Every handler checks the state of the row it read, but the *)
(* UPDATE of a revision is conditional on id and version alone; only the   *)
(* UPDATE that locks a plan also repeats the state.  The areas are as in   *)
(* SurveyAreas, whose updates appear here as single steps.                 *)
(*                                                                         *)
(* VersionSlack says which versions clients quote.  0: only versions that  *)
(* already exist when the server reads the row, as a client does that      *)
(* quotes what it was shown.  1: also the version that a request still in  *)
(* flight is about to produce, which the API accepts as well.              *)
(***************************************************************************)
EXTENDS Naturals, Lifecycles

CONSTANTS
    AreaIds,       \* the rows of survey_areas
    PlanIds,       \* primary keys of transect_plans
    Boundaries,    \* the boundaries areas have
    Lines,         \* what a revision of a plan can set
    LinesFor,      \* boundary -> the lines Generate can draw in it
    Workers,       \* workers serving the writes under /plans
    MaxVersion,    \* bound: clients quote versions below it
    MaxFailures,   \* bound: requests that end before their last statement
    VersionSlack,  \* how far ahead of the row read a quoted version may be
    SeedAreas,     \* the areas as the database holds them at start
    SeedPlans,     \* the plans as the database holds them at start
    Nothing        \* a value that is no row or id

Area == [boundary: Boundaries, status: AreaStatuses]

PlanRow == [area: AreaIds, lines: Lines, plan_state: PlanStates, version: Nat \ {0}]

ASSUME BoundsAssumption ==
    MaxVersion \in Nat /\ MaxFailures \in Nat /\ VersionSlack \in Nat

ASSUME LinesForAssumption == LinesFor \in [Boundaries -> SUBSET Lines]

ASSUME SeedAssumption ==
    /\ SeedAreas \in [AreaIds -> Area]
    /\ DOMAIN SeedPlans \subseteq PlanIds /\ SeedPlans \in [DOMAIN SeedPlans -> PlanRow]

ASSUME NothingAssumption == Nothing \notin PlanRow

VARIABLES
    areas,      \* boundary and status of each row of survey_areas
    plans,      \* transect_plans: a function from the existing ids to rows
    audits,     \* the audit_events about plans
    requests,   \* the request each worker serves
    failures,   \* how many requests have ended early
    lapses      \* the events that they owed when they ended: <<plan, version of
                \* the row read>>, or version 0 for that of a creation

vars == <<areas, plans, audits, requests, failures, lapses>>

-----------------------------------------------------------------------------
(***************************************************************************)
(* Requests.  "row" is the plan as read, the "before" of the audit event;  *)
(* "new" is the plan to be inserted or, after an UPDATE, as fetched again. *)
(* What a handler no longer uses is cleared.                               *)
(***************************************************************************)
Request == [pc: {"idle", "create", "insert", "update", "lock", "reread", "audit"},
            id: PlanIds \cup {Nothing}, area: AreaIds \cup {Nothing},
            row: PlanRow \cup {Nothing}, new: PlanRow \cup {Nothing},
            lines: Lines \cup {Nothing}, expected: Nat \cup {Nothing}]

NoRequest == [pc |-> "idle", id |-> Nothing, area |-> Nothing, row |-> Nothing,
              new |-> Nothing, lines |-> Nothing, expected |-> Nothing]

\* A snapshot in an event is represented by its version, 0 for no snapshot.
AuditEvent == [id: PlanIds, before: Nat, after: Nat \ {0}]

Init ==
    /\ areas = SeedAreas
    /\ plans = SeedPlans
    /\ audits = {}
    /\ requests = [w \in Workers |-> NoRequest]
    /\ failures = 0
    /\ lapses = {}

-----------------------------------------------------------------------------
(***************************************************************************)
(* New plans: created by hand, generated, or copied                        *)
(***************************************************************************)
\* Generate reads the boundary, draws its lines and calls Create.
GenerateReadsArea(w, area, lines) ==
    /\ requests[w].pc = "idle"
    /\ lines \in LinesFor[areas[area].boundary]
    /\ requests' = [requests EXCEPT ![w] =
          [NoRequest EXCEPT !.pc = "create", !.area = area, !.lines = lines]]
    /\ UNCHANGED <<areas, plans, audits, failures, lapses>>

\* Create serves a request of its own or goes on with a generated plan.
Creating(w, area, lines) ==
    \/ requests[w].pc = "idle"
    \/ /\ requests[w].pc = "create"
       /\ requests[w].area = area /\ requests[w].lines = lines

Inserting(row, new) == [NoRequest EXCEPT !.pc = "insert", !.row = row, !.new = new]

NewPlan(area, lines) ==
    [area |-> area, lines |-> lines, plan_state |-> "draft", version |-> 1]

CreateReadsArea(w, area, lines) ==
    /\ Creating(w, area, lines)
    /\ areas[area].status # "archived"
    /\ requests' = [requests EXCEPT ![w] = Inserting(Nothing, NewPlan(area, lines))]
    /\ UNCHANGED <<areas, plans, audits, failures, lapses>>

\* The area is archived: generated lines are dropped.
CreateRefused(w, area, lines) ==
    /\ Creating(w, area, lines)
    /\ areas[area].status = "archived"
    /\ requests' = [requests EXCEPT ![w] = NoRequest]
    /\ UNCHANGED <<areas, plans, audits, failures, lapses>>

CopyOf(source) == [source EXCEPT !.plan_state = "draft", !.version = source.version + 1]

\* Any plan can be copied, whatever its state and that of its area.
CopyReadsPlan(w, id) ==
    /\ requests[w].pc = "idle"
    /\ requests' = [requests EXCEPT ![w] = Inserting(plans[id], CopyOf(plans[id]))]
    /\ UNCHANGED <<areas, plans, audits, failures, lapses>>

Insert(w) ==
    /\ requests[w].pc = "insert"
    /\ \E id \in PlanIds \ DOMAIN plans :
          /\ plans' = [known \in DOMAIN plans \cup {id} |->
                          IF known = id THEN requests[w].new ELSE plans[known]]
          /\ requests' = [requests EXCEPT ![w] =
                             [requests[w] EXCEPT !.pc = "audit", !.id = id]]
    /\ UNCHANGED <<areas, audits, failures, lapses>>

\* Bound: PlanIds is used up, and the INSERT fails for that reason alone.
TableFull(w) ==
    /\ requests[w].pc = "insert" /\ PlanIds \subseteq DOMAIN plans
    /\ requests' = [requests EXCEPT ![w] = NoRequest]
    /\ UNCHANGED <<areas, plans, audits, failures, lapses>>

-----------------------------------------------------------------------------
(***************************************************************************)
(* Revisions and the lock                                                  *)
(***************************************************************************)
Quotable(row, expected) ==
    expected <= row.version + VersionSlack /\ expected < MaxVersion

\* Mutant: the state of the plan is not looked at.
Draft_Always(row) == row.plan_state \in PlanStates

Draft(row) == row.plan_state = "draft"

UpdateReadsPlan(w, id, lines, expected) ==
    /\ requests[w].pc = "idle"
    /\ Draft(plans[id]) /\ Quotable(plans[id], expected)
    /\ requests' = [requests EXCEPT ![w] =
          [NoRequest EXCEPT !.pc = "update", !.id = id, !.row = plans[id],
                            !.lines = lines, !.expected = expected]]
    /\ UNCHANGED <<areas, plans, audits, failures, lapses>>

LockReadsPlan(w, id, expected) ==
    /\ requests[w].pc = "idle"
    /\ Draft(plans[id]) /\ Quotable(plans[id], expected)
    /\ requests' = [requests EXCEPT ![w] =
          [NoRequest EXCEPT !.pc = "lock", !.id = id, !.row = plans[id],
                            !.expected = expected]]
    /\ UNCHANGED <<areas, plans, audits, failures, lapses>>

\* No such plan, or a locked one: nothing changes.
RevisionRefused(w, id) ==
    /\ requests[w].pc = "idle"
    /\ id \in DOMAIN plans => ~Draft(plans[id])
    /\ UNCHANGED vars

\* Mutant: the UPDATE takes any version.
UpdateMatches_AnyVersion(request) == plans[request.id].version \in Nat

\* The condition of the UPDATE that revises: id and version.
UpdateMatches(request) == plans[request.id].version = request.expected

\* The condition of the UPDATE that locks: id, version and state.
LockMatches(request) ==
    plans[request.id].version = request.expected /\ plans[request.id].plan_state = "draft"

Written(request) ==
    [request EXCEPT !.pc = "reread", !.lines = Nothing, !.expected = Nothing]

Update(w) ==
    /\ requests[w].pc = "update"
    /\ UpdateMatches(requests[w])
    /\ plans' = [plans EXCEPT ![requests[w].id] =
          [plans[requests[w].id] EXCEPT !.lines = requests[w].lines,
                                        !.version = plans[requests[w].id].version + 1]]
    /\ requests' = [requests EXCEPT ![w] = Written(requests[w])]
    /\ UNCHANGED <<areas, audits, failures, lapses>>

Lock(w) ==
    /\ requests[w].pc = "lock"
    /\ LockMatches(requests[w])
    /\ plans' = [plans EXCEPT ![requests[w].id] =
          [plans[requests[w].id] EXCEPT !.plan_state = "locked",
                                        !.version = plans[requests[w].id].version + 1]]
    /\ requests' = [requests EXCEPT ![w] = Written(requests[w])]
    /\ UNCHANGED <<areas, audits, failures, lapses>>

Conflict(w) ==
    /\ \/ requests[w].pc = "update" /\ ~UpdateMatches(requests[w])
       \/ requests[w].pc = "lock" /\ ~LockMatches(requests[w])
    /\ requests' = [requests EXCEPT ![w] = NoRequest]
    /\ UNCHANGED <<areas, plans, audits, failures, lapses>>

Reread(w) ==
    /\ requests[w].pc = "reread"
    /\ requests' = [requests EXCEPT ![w] =
          [requests[w] EXCEPT !.pc = "audit", !.new = plans[requests[w].id]]]
    /\ UNCHANGED <<areas, plans, audits, failures, lapses>>

-----------------------------------------------------------------------------
\* The version of the row that was read: of the plan whose row was replaced, or
\* of the source of a copy; 0 if the plan was created with no row before it.
Replaced(request) == IF request.row = Nothing THEN 0 ELSE request.row.version

\* Mutant: the event is made with the row that was read alone.
Event_NoAfter(request) ==
    [id |-> request.id, before |-> Replaced(request), after |-> 0]

\* Mutant: both snapshots are taken after the write.
Event_AfterOnly(request) ==
    [id |-> request.id, before |-> request.new.version, after |-> request.new.version]

\* The audit event of any of the five writes.
Event(request) ==
    [id |-> request.id,
     before |-> Replaced(request),
     after |-> request.new.version]

Audit(w) ==
    /\ requests[w].pc = "audit"
    /\ audits' = audits \cup {Event(requests[w])}
    /\ requests' = [requests EXCEPT ![w] = NoRequest]
    /\ UNCHANGED <<areas, plans, failures, lapses>>

\* A statement fails, or the process dies: the request ends where it stands.
Fail(w) ==
    /\ requests[w].pc # "idle" /\ failures < MaxFailures
    /\ requests' = [requests EXCEPT ![w] = NoRequest]
    /\ failures' = failures + 1
    /\ lapses' = IF requests[w].pc \in {"reread", "audit"}
                 THEN lapses \cup {<<requests[w].id, Replaced(requests[w])>>}
                 ELSE lapses
    /\ UNCHANGED <<areas, plans, audits>>

\* SurveyAreaService.Update, as far as a plan can see it.
AreaChanges(area, values) ==
    /\ areas[area].status # "archived"
    /\ areas' = [areas EXCEPT ![area] = values]
    /\ UNCHANGED <<plans, audits, requests, failures, lapses>>

Step(w) ==
    \/ \E area \in AreaIds, lines \in Lines : GenerateReadsArea(w, area, lines)
    \/ \E area \in AreaIds, lines \in Lines : CreateReadsArea(w, area, lines)
    \/ \E area \in AreaIds, lines \in Lines : CreateRefused(w, area, lines)
    \/ \E id \in DOMAIN plans : CopyReadsPlan(w, id)
    \/ Insert(w)
    \/ TableFull(w)
    \/ \E id \in DOMAIN plans, lines \in Lines, expected \in 1 .. MaxVersion :
          UpdateReadsPlan(w, id, lines, expected)
    \/ \E id \in DOMAIN plans, expected \in 1 .. MaxVersion : LockReadsPlan(w, id, expected)
    \/ \E id \in PlanIds : RevisionRefused(w, id)
    \/ Update(w)
    \/ Lock(w)
    \/ Conflict(w)
    \/ Reread(w)
    \/ Audit(w)
    \/ Fail(w)

Next ==
    \/ \E w \in Workers : Step(w)
    \/ \E area \in AreaIds, values \in Area : AreaChanges(area, values)

Spec == Init /\ [][Next]_vars

-----------------------------------------------------------------------------
(***************************************************************************)
(* Properties                                                              *)
(***************************************************************************)
TypeOK ==
    /\ areas \in [AreaIds -> Area]
    /\ DOMAIN plans \subseteq PlanIds /\ plans \in [DOMAIN plans -> PlanRow]
    /\ audits \subseteq AuditEvent
    /\ requests \in [Workers -> Request]
    /\ failures \in Nat
    /\ lapses \subseteq PlanIds \X Nat

\* No lost update: the row that a revision or a lock replaces is the very row
\* its request read, checked and shows as "before" in the audit trail.  What
\* becomes locked is what the client who locked it was looking at.
WriteReplacesWhatWasRead ==
    [][\A w \in Workers :
          Update(w) \/ Lock(w) => plans[requests[w].id] = requests[w].row]_vars

\* A locked plan never changes again ("a locked plan can only be copied to a
\* new version", transect_plan.go:101), although the UPDATE of a revision does
\* not repeat the state that its request checked earlier.
LockedPlansAreFrozen ==
    [][\A id \in DOMAIN plans :
          plans[id].plan_state = "locked" => plans'[id] = plans[id]]_vars

\* When every request has been served or has ended, the events about a plan form
\* a chain from the version it started with to the one it has, in which only the
\* one event of each request that ended between its write and its event is
\* missing: none of the other versions is left out, and none is made up.
AuditTrailComplete ==
    (\A w \in Workers : requests[w].pc = "idle")
    => \A id \in DOMAIN plans :
          LET told == {event.before : event \in {e \in audits : e.id = id}}
              lost == {lapse[2] : lapse \in {l \in lapses : l[1] = id}}
          IN
          IF id \in DOMAIN SeedPlans
          THEN told \cup lost = SeedPlans[id].version .. plans[id].version - 1
          ELSE \E first \in 0 .. plans[id].version - 1 :
                  told \cup lost = first .. plans[id].version - 1

\* The table behaves as a table of versioned records: new rows are drafts, a
\* draft is revised or locked, and a locked plan is frozen.
Ledger == INSTANCE VersionedRecords WITH
    Ids <- PlanIds, States <- PlanStates, Initial <- "draft",
    Edges <- {"draft"} \X PlanStates, Mutable <- {"draft"},
    FirstVersions <- Nat \ {0},
    table <- [id \in DOMAIN plans |-> [body |-> <<plans[id].area, plans[id].lines>>,
                                       state |-> plans[id].plan_state,
                                       version |-> plans[id].version]]

ImplementsLedger == Ledger!Spec

-----------------------------------------------------------------------------
(***************************************************************************)
(* What the documentation says and the code does not do                    *)
(***************************************************************************)
\* No plan is added to an archived area ("an archived area takes no new
\* plans", transect_plan.go:46).
ArchivedAreasTakeNoPlans ==
    [][\A id \in DOMAIN plans' \ DOMAIN plans :
          areas[plans'[id].area].status # "archived"]_vars

=============================================================================
