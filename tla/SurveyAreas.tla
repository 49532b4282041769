----------------------------- MODULE SurveyAreas -----------------------------
(***************************************************************************)
(* SurveyAreaService: survey areas are created as drafts, revised, and     *)
(* finally archived.                                                       *)
(*                                                                         *)
(* As in SonarRuns, a request is a sequence of separately committed        *)
(* statements.  The service refuses to touch an archived area, but it does *)
(* so on the row it read: the UPDATE is conditional on id and version      *)
(* alone.                                                                  *)
(*                                                                         *)
(* VersionSlack says which versions clients quote.  0: only versions that  *)
(* already exist when the server reads the row, as a client does that      *)
(* quotes what it was shown.  1: also the version that a request still in  *)
(* flight is about to produce, which the API accepts as well.              *)
(***************************************************************************)
EXTENDS Naturals, Lifecycles

CONSTANTS
    AreaIds,       \* primary keys of survey_areas
    Boundaries,    \* what a revision can set, apart from the status
    Workers,       \* workers serving POST /areas and PUT /areas/:id
    MaxVersion,    \* bound: clients quote versions below it
    MaxFailures,   \* bound: requests that end before their last statement
    VersionSlack,  \* how far ahead of the row read a quoted version may be
    SeedAreas,     \* the areas as the database holds them at start
    Nothing        \* a value that is no row or id

AreaValues == [boundary: Boundaries, status: AreaStatuses]

AreaRow == [boundary: Boundaries, status: AreaStatuses, version: Nat \ {0}]

ASSUME BoundsAssumption ==
    MaxVersion \in Nat /\ MaxFailures \in Nat /\ VersionSlack \in Nat

ASSUME SeedAssumption ==
    DOMAIN SeedAreas \subseteq AreaIds /\ SeedAreas \in [DOMAIN SeedAreas -> AreaRow]

ASSUME NothingAssumption == Nothing \notin AreaRow

VARIABLES
    areas,      \* survey_areas: a function from the existing ids to rows
    audits,     \* the audit_events about areas
    requests,   \* the request each worker serves
    failures,   \* how many requests have ended early
    lapses      \* the events that they owed when they ended: <<area, version
                \* replaced>>, or version 0 for that of a creation

vars == <<areas, audits, requests, failures, lapses>>

-----------------------------------------------------------------------------
(***************************************************************************)
(* "row" is the row as read, the "before" of the audit event; "new" is the *)
(* row as inserted or, after an UPDATE, as fetched again.  What a handler  *)
(* no longer uses is cleared.                                              *)
(***************************************************************************)
Request == [pc: {"idle", "update", "reread", "audit"},
            id: AreaIds \cup {Nothing},
            row: AreaRow \cup {Nothing}, new: AreaRow \cup {Nothing},
            values: AreaValues \cup {Nothing}, expected: Nat \cup {Nothing}]

NoRequest == [pc |-> "idle", id |-> Nothing, row |-> Nothing, new |-> Nothing,
              values |-> Nothing, expected |-> Nothing]

\* A snapshot in an event is represented by its version, 0 for no snapshot.
AuditEvent == [id: AreaIds, before: Nat, after: Nat \ {0}]

Init ==
    /\ areas = SeedAreas
    /\ audits = {}
    /\ requests = [w \in Workers |-> NoRequest]
    /\ failures = 0
    /\ lapses = {}

-----------------------------------------------------------------------------
NewArea(boundary) == [boundary |-> boundary, status |-> "draft", version |-> 1]

Create(w, boundary) ==
    /\ requests[w].pc = "idle"
    /\ \E id \in AreaIds \ DOMAIN areas :
          /\ areas' = [known \in DOMAIN areas \cup {id} |->
                          IF known = id THEN NewArea(boundary) ELSE areas[known]]
          /\ requests' = [requests EXCEPT ![w] =
                [NoRequest EXCEPT !.pc = "audit", !.id = id, !.new = NewArea(boundary)]]
    /\ UNCHANGED <<audits, failures, lapses>>

\* Mutant: the archived status is not looked at.
Open_Always(row) == row.status \in AreaStatuses

Open(row) == row.status # "archived"

UpdateReads(w, id, values, expected) ==
    /\ requests[w].pc = "idle"
    /\ Open(areas[id])
    /\ expected <= areas[id].version + VersionSlack /\ expected < MaxVersion
    /\ requests' = [requests EXCEPT ![w] =
          [pc |-> "update", id |-> id, row |-> areas[id], new |-> Nothing,
           values |-> values, expected |-> expected]]
    /\ UNCHANGED <<areas, audits, failures, lapses>>

\* No such area, or an archived one: nothing changes.
UpdateRefused(w, id) ==
    /\ requests[w].pc = "idle"
    /\ id \in DOMAIN areas => ~Open(areas[id])
    /\ UNCHANGED vars

\* Mutant: the UPDATE takes any version.
Matches_AnyVersion(request) == areas[request.id].version \in Nat

\* The condition of the UPDATE: id and version.
Matches(request) == areas[request.id].version = request.expected

Revised(request) ==
    [boundary |-> request.values.boundary, status |-> request.values.status,
     version |-> areas[request.id].version + 1]

Update(w) ==
    /\ requests[w].pc = "update"
    /\ Matches(requests[w])
    /\ areas' = [areas EXCEPT ![requests[w].id] = Revised(requests[w])]
    /\ requests' = [requests EXCEPT ![w] =
          [requests[w] EXCEPT !.pc = "reread", !.values = Nothing, !.expected = Nothing]]
    /\ UNCHANGED <<audits, failures, lapses>>

Conflict(w) ==
    /\ requests[w].pc = "update"
    /\ ~Matches(requests[w])
    /\ requests' = [requests EXCEPT ![w] = NoRequest]
    /\ UNCHANGED <<areas, audits, failures, lapses>>

Reread(w) ==
    /\ requests[w].pc = "reread"
    /\ requests' = [requests EXCEPT ![w] =
          [requests[w] EXCEPT !.pc = "audit", !.new = areas[requests[w].id]]]
    /\ UNCHANGED <<areas, audits, failures, lapses>>

\* The version that the request's write replaced, 0 if it added the row.
Replaced(request) == IF request.row = Nothing THEN 0 ELSE request.row.version

\* Mutant: the event is made with the row that was read alone.
Event_NoAfter(request) ==
    [id |-> request.id, before |-> Replaced(request), after |-> 0]

\* Mutant: both snapshots are taken after the write.
Event_AfterOnly(request) ==
    [id |-> request.id, before |-> request.new.version, after |-> request.new.version]

Event(request) ==
    [id |-> request.id,
     before |-> Replaced(request),
     after |-> request.new.version]

\* The last read, of the view to be returned, changes nothing.
Audit(w) ==
    /\ requests[w].pc = "audit"
    /\ audits' = audits \cup {Event(requests[w])}
    /\ requests' = [requests EXCEPT ![w] = NoRequest]
    /\ UNCHANGED <<areas, failures, lapses>>

\* A statement fails, or the process dies: the request ends where it stands.
Fail(w) ==
    /\ requests[w].pc # "idle" /\ failures < MaxFailures
    /\ requests' = [requests EXCEPT ![w] = NoRequest]
    /\ failures' = failures + 1
    /\ lapses' = IF requests[w].pc \in {"reread", "audit"}
                 THEN lapses \cup {<<requests[w].id, Replaced(requests[w])>>}
                 ELSE lapses
    /\ UNCHANGED <<areas, audits>>

Step(w) ==
    \/ \E boundary \in Boundaries : Create(w, boundary)
    \/ \E id \in DOMAIN areas : \E values \in AreaValues,
          expected \in 1 .. MaxVersion : UpdateReads(w, id, values, expected)
    \/ \E id \in AreaIds : UpdateRefused(w, id)
    \/ Update(w)
    \/ Conflict(w)
    \/ Reread(w)
    \/ Audit(w)
    \/ Fail(w)

Next == \E w \in Workers : Step(w)

Spec == Init /\ [][Next]_vars

-----------------------------------------------------------------------------
(***************************************************************************)
(* Properties                                                              *)
(***************************************************************************)
TypeOK ==
    /\ DOMAIN areas \subseteq AreaIds /\ areas \in [DOMAIN areas -> AreaRow]
    /\ audits \subseteq AuditEvent
    /\ requests \in [Workers -> Request]
    /\ failures \in Nat
    /\ lapses \subseteq AreaIds \X Nat

\* No lost update: the row an update replaces is the very row its request
\* read, checked and shows as "before" in the audit trail, whatever other
\* requests did between its read and its write.
UpdateReplacesWhatWasRead ==
    [][\A w \in Workers : Update(w) => areas[requests[w].id] = requests[w].row]_vars

StartVersion(id) == IF id \in DOMAIN SeedAreas THEN SeedAreas[id].version ELSE 0

Audited(id) ==
    \A v \in StartVersion(id) .. areas[id].version - 1 :
        \/ <<id, v>> \in lapses
        \/ \E event \in audits : event.id = id /\ event.before = v

\* When every request has been served or has ended, the events tell of each
\* area's creation and of each version that was replaced, save for the one event
\* of each request that ended between its write and its event: such a request
\* takes no other event along, and racing requests lose none.
AuditTrailComplete ==
    (\A w \in Workers : requests[w].pc = "idle")
    => \A id \in DOMAIN areas : Audited(id)

\* The table behaves as a table of versioned records that move freely among
\* their statuses until they are archived and frozen.
Ledger == INSTANCE VersionedRecords WITH
    Ids <- AreaIds, States <- AreaStatuses, Initial <- "draft",
    Edges <- {"draft", "active"} \X AreaStatuses, Mutable <- {"draft", "active"},
    FirstVersions <- {1},
    table <- [id \in DOMAIN areas |-> [body |-> areas[id].boundary,
                                       state |-> areas[id].status,
                                       version |-> areas[id].version]]

ImplementsLedger == Ledger!Spec

=============================================================================
