---------------------------- MODULE SurveyPlansProofs ----------------------------
(***************************************************************************)
(* Theorems about SurveyPlans, for any number of plans, areas and workers. *)
(*                                                                         *)
(* The UPDATE of a revision compares versions and nothing else.  As long   *)
(* as clients quote versions that exist (VersionSlack = 0), that is        *)
(* enough: the version quoted is at most the one read, which is at most    *)
(* that of the row, so if the first is the last, the row is the one that   *)
(* was read, and a draft.  The lock repeats the state and needs no more    *)
(* than that for the lifecycle, but not to lock what its client saw.       *)
(***************************************************************************)
EXTENDS SurveyPlans, TLAPS

-----------------------------------------------------------------------------
(***************************************************************************)
(* Types, and what each request refers to.                                 *)
(***************************************************************************)
\* The row to be inserted is new, or continues the versions of its source.
Continues(row, new) ==
    \/ row = Nothing /\ new.version = 1
    \/ row \in PlanRow /\ new.version = row.version + 1

RefersWell(w) ==
    /\ requests[w].pc = "insert" => /\ requests[w].new \in PlanRow
                                    /\ requests[w].new.plan_state = "draft"
                                    /\ Continues(requests[w].row, requests[w].new)
    /\ requests[w].pc = "update" => requests[w].lines \in Lines
    /\ requests[w].pc \in {"update", "lock"} => /\ requests[w].id \in DOMAIN plans
                                                /\ requests[w].row \in PlanRow
                                                /\ requests[w].expected \in Nat
    /\ requests[w].pc = "reread" => requests[w].id \in DOMAIN plans
    /\ requests[w].pc = "audit" => /\ requests[w].id \in DOMAIN plans
                                   /\ requests[w].new \in PlanRow

TypeInv == TypeOK /\ \A w \in Workers : RefersWell(w)

\* A step of one worker leaves the other requests and the areas alone.
LEMMA StepFrame ==
  ASSUME TypeInv, NEW w \in Workers, Step(w)
  PROVE  /\ \A other \in Workers \ {w} : requests'[other] = requests[other]
         /\ areas' = areas
  BY DEF Step, GenerateReadsArea, CreateReadsArea, CreateRefused, CopyReadsPlan, Insert,
         TableFull, UpdateReadsPlan, LockReadsPlan, RevisionRefused, vars, Update, Lock,
         Conflict, Reread, Audit, Fail, TypeInv, TypeOK

\* Three statements write the table, one the audit trail.
LEMMA WritesFrame ==
  ASSUME NEW w \in Workers, Step(w)
  PROVE  /\ Insert(w) \/ Update(w) \/ Lock(w) \/ plans' = plans
         /\ Audit(w) \/ audits' = audits
         /\ Fail(w) \/ UNCHANGED <<failures, lapses>>
<1>1. CASE Fail(w)
  <2>1. plans' = plans /\ audits' = audits
    BY <1>1 DEF Fail
  <2> QED
    BY <1>1, <2>1
<1>2. CASE ~Fail(w)
  <2>1. failures' = failures /\ lapses' = lapses
    BY <1>2 DEF Step, GenerateReadsArea, CreateReadsArea, CreateRefused, CopyReadsPlan, Insert,
             TableFull, UpdateReadsPlan, LockReadsPlan, RevisionRefused, vars, Update, Lock,
             Conflict, Reread, Audit
  <2>2. Insert(w) \/ Update(w) \/ Lock(w) \/ plans' = plans
    BY <1>2 DEF Step, GenerateReadsArea, CreateReadsArea, CreateRefused, CopyReadsPlan,
             TableFull, UpdateReadsPlan, LockReadsPlan, RevisionRefused, vars,
             Conflict, Reread, Audit
  <2>3. Audit(w) \/ audits' = audits
    BY <1>2 DEF Step, GenerateReadsArea, CreateReadsArea, CreateRefused, CopyReadsPlan, Insert,
             TableFull, UpdateReadsPlan, LockReadsPlan, RevisionRefused, vars, Update, Lock,
             Conflict, Reread
  <2> QED
    BY <2>1, <2>2, <2>3
<1> QED
  BY <1>1, <1>2

\* An insert adds the new row of its request and changes no other.
Inserted(w, id) ==
    /\ id \in PlanIds \ DOMAIN plans
    /\ plans' = [known \in DOMAIN plans \cup {id} |->
                    IF known = id THEN requests[w].new ELSE plans[known]]
    /\ requests' = [requests EXCEPT ![w] =
                       [requests[w] EXCEPT !.pc = "audit", !.id = id]]

\* A revision or a lock raises the version of one row and changes no other.
LEMMA WriteRaises ==
  ASSUME TypeInv, NEW w \in Workers, Update(w) \/ Lock(w)
  PROVE  /\ requests[w].id \in DOMAIN plans
         /\ DOMAIN plans' = DOMAIN plans
         /\ plans'[requests[w].id] \in PlanRow
         /\ plans'[requests[w].id].area = plans[requests[w].id].area
         /\ plans'[requests[w].id].version = plans[requests[w].id].version + 1
         /\ plans'[requests[w].id].plan_state \in {plans[requests[w].id].plan_state, "locked"}
         /\ \A other \in DOMAIN plans \ {requests[w].id} : plans'[other] = plans[other]
<1>1. requests[w].id \in DOMAIN plans /\ plans[requests[w].id] \in PlanRow
  BY DEF Update, Lock, TypeInv, TypeOK, RefersWell
<1> DEFINE row == plans[requests[w].id]
<1>2. row.version + 1 \in Nat \ {0} /\ "locked" \in PlanStates
  BY <1>1 DEF PlanRow, PlanStates
<1>3. PICK new \in PlanRow :
        /\ plans' = [plans EXCEPT ![requests[w].id] = new]
        /\ new.area = row.area /\ new.version = row.version + 1
        /\ new.plan_state \in {row.plan_state, "locked"}
  <2>1. CASE Update(w)
    <3> DEFINE new == [row EXCEPT !.lines = requests[w].lines, !.version = row.version + 1]
    <3>1. requests[w].lines \in Lines
      BY <2>1 DEF Update, TypeInv, RefersWell
    <3>2. new \in PlanRow
      BY <1>1, <1>2, <3>1 DEF PlanRow
    <3>3. /\ new.area = row.area /\ new.version = row.version + 1
          /\ new.plan_state = row.plan_state
      BY <1>1 DEF PlanRow
    <3>4. plans' = [plans EXCEPT ![requests[w].id] = new]
      BY <2>1 DEF Update
    <3> HIDE DEF new
    <3> QED
      BY <3>2, <3>3, <3>4
  <2>2. CASE Lock(w)
    <3> DEFINE new == [row EXCEPT !.plan_state = "locked", !.version = row.version + 1]
    <3>1. new \in PlanRow
      BY <1>1, <1>2 DEF PlanRow
    <3>2. /\ new.area = row.area /\ new.version = row.version + 1
          /\ new.plan_state = "locked"
      BY <1>1 DEF PlanRow
    <3>3. plans' = [plans EXCEPT ![requests[w].id] = new]
      BY <2>2 DEF Lock
    <3> HIDE DEF new
    <3> QED
      BY <3>1, <3>2, <3>3
  <2> QED
    BY <2>1, <2>2
<1> QED
  BY <1>1, <1>3

LEMMA TypesStart == Init => TypeInv
BY SeedAssumption, BoundsAssumption
   DEF Init, TypeInv, TypeOK, RefersWell, NoRequest, Request

\* What a step writes has the type of a row.
LEMMA RowsStep ==
  ASSUME TypeInv, NEW w \in Workers, Step(w)
  PROVE  /\ DOMAIN plans' \subseteq PlanIds /\ plans' \in [DOMAIN plans' -> PlanRow]
         /\ DOMAIN plans \subseteq DOMAIN plans'
<1> USE DEF TypeInv, TypeOK
<1>1. CASE Insert(w)
  <2>1. requests[w].new \in PlanRow
    BY <1>1 DEF Insert, RefersWell
  <2>2. PICK id \in PlanIds \ DOMAIN plans :
          plans' = [known \in DOMAIN plans \cup {id} |->
                       IF known = id THEN requests[w].new ELSE plans[known]]
    BY <1>1 DEF Insert
  <2> QED
    BY <2>1, <2>2
<1>2. CASE Update(w) \/ Lock(w)
  <2>1. plans' = [plans EXCEPT ![requests[w].id] = plans'[requests[w].id]]
    BY <1>2 DEF Update, Lock, RefersWell
  <2> QED
    BY <1>2, <2>1, WriteRaises
<1>3. CASE plans' = plans
  BY <1>3
<1> QED
  BY <1>1, <1>2, <1>3, WritesFrame

LEMMA NewRows ==
  ASSUME NEW area \in AreaIds, NEW lines \in Lines
  PROVE  /\ NewPlan(area, lines) \in PlanRow
         /\ NewPlan(area, lines).plan_state = "draft" /\ NewPlan(area, lines).version = 1
  BY DEF NewPlan, PlanRow, PlanStates

LEMMA CopiedRows ==
  ASSUME NEW source \in PlanRow
  PROVE  /\ CopyOf(source) \in PlanRow
         /\ CopyOf(source).plan_state = "draft"
         /\ CopyOf(source).version = source.version + 1
<1>1. source.version + 1 \in Nat \ {0} /\ "draft" \in PlanStates
  BY DEF PlanRow, PlanStates
<1>2. CopyOf(source).plan_state = "draft" /\ CopyOf(source).version = source.version + 1
  BY DEF CopyOf, PlanRow
<1>3. CopyOf(source) \in PlanRow
  BY <1>1 DEF CopyOf, PlanRow
<1> QED
  BY <1>2, <1>3

\* The request that takes the step has its type and refers well.
LEMMA RequestStep ==
  ASSUME TypeInv, NEW w \in Workers, Step(w)
  PROVE  requests' \in [Workers -> Request] /\ RefersWell(w)'
<1> USE DEF TypeInv, TypeOK
<1>1. requests[w] \in Request /\ NoRequest \in Request
  BY DEF Request, NoRequest
<1>2. ASSUME NEW request \in Request, requests' = [requests EXCEPT ![w] = request]
      PROVE  requests' \in [Workers -> Request] /\ requests'[w] = request
  BY <1>2
<1>3. ASSUME NEW area \in AreaIds, NEW lines \in Lines, GenerateReadsArea(w, area, lines)
      PROVE  requests' \in [Workers -> Request] /\ RefersWell(w)'
  <2>1. [NoRequest EXCEPT !.pc = "create", !.area = area, !.lines = lines] \in Request
    BY DEF NoRequest, Request
  <2>2. [NoRequest EXCEPT !.pc = "create", !.area = area, !.lines = lines].pc = "create"
    BY DEF NoRequest
  <2> QED
    BY <1>2, <1>3, <2>1, <2>2 DEF GenerateReadsArea, RefersWell
<1>4. ASSUME NEW area \in AreaIds, NEW lines \in Lines, CreateReadsArea(w, area, lines)
      PROVE  requests' \in [Workers -> Request] /\ RefersWell(w)'
  <2> DEFINE request == Inserting(Nothing, NewPlan(area, lines))
  <2>1. /\ request \in Request /\ request.pc = "insert"
        /\ request.row = Nothing /\ request.new = NewPlan(area, lines)
    BY NewRows DEF Inserting, NoRequest, Request
  <2>2. requests' = [requests EXCEPT ![w] = request]
    BY <1>4 DEF CreateReadsArea
  <2> HIDE DEF request
  <2> QED
    BY <1>2, <2>1, <2>2, NewRows DEF RefersWell, Continues
<1>5. ASSUME NEW id \in DOMAIN plans, CopyReadsPlan(w, id)
      PROVE  requests' \in [Workers -> Request] /\ RefersWell(w)'
  <2> DEFINE request == Inserting(plans[id], CopyOf(plans[id]))
  <2>1. plans[id] \in PlanRow
    OBVIOUS
  <2>2. /\ request \in Request /\ request.pc = "insert"
        /\ request.row = plans[id] /\ request.new = CopyOf(plans[id])
    BY <2>1, CopiedRows DEF Inserting, NoRequest, Request
  <2>3. requests' = [requests EXCEPT ![w] = request]
    BY <1>5 DEF CopyReadsPlan
  <2> HIDE DEF request
  <2> QED
    BY <1>2, <2>1, <2>2, <2>3, CopiedRows DEF RefersWell, Continues
<1>6. CASE Insert(w)
  <2>1. PICK id : Inserted(w, id)
    BY <1>6 DEF Insert, Inserted
  <2>2. id \in DOMAIN plans' /\ requests[w].new \in PlanRow
    BY <1>6, <2>1 DEF Inserted, Insert, RefersWell
  <2> DEFINE request == [requests[w] EXCEPT !.pc = "audit", !.id = id]
  <2>3. /\ request \in Request /\ request.pc = "audit" /\ request.id = id
        /\ request.new = requests[w].new
    BY <1>1, <2>1 DEF Inserted, Request
  <2>4. requests' = [requests EXCEPT ![w] = request]
    BY <2>1 DEF Inserted
  <2> HIDE DEF request
  <2> QED
    BY <1>2, <2>2, <2>3, <2>4 DEF RefersWell
<1>7. ASSUME NEW id \in DOMAIN plans, NEW lines \in Lines, NEW expected \in 1 .. MaxVersion,
             UpdateReadsPlan(w, id, lines, expected)
      PROVE  requests' \in [Workers -> Request] /\ RefersWell(w)'
  <2> DEFINE request == [NoRequest EXCEPT !.pc = "update", !.id = id, !.row = plans[id],
                                          !.lines = lines, !.expected = expected]
  <2>1. plans[id] \in PlanRow /\ id \in PlanIds /\ expected \in Nat
    BY BoundsAssumption
  <2>2. /\ request \in Request /\ request.pc = "update" /\ request.id = id
        /\ request.row = plans[id] /\ request.lines = lines /\ request.expected = expected
    BY <2>1 DEF NoRequest, Request
  <2>3. requests' = [requests EXCEPT ![w] = request] /\ plans' = plans
    BY <1>7 DEF UpdateReadsPlan
  <2> HIDE DEF request
  <2> QED
    BY <1>2, <2>1, <2>2, <2>3 DEF RefersWell
<1>8. ASSUME NEW id \in DOMAIN plans, NEW expected \in 1 .. MaxVersion,
             LockReadsPlan(w, id, expected)
      PROVE  requests' \in [Workers -> Request] /\ RefersWell(w)'
  <2> DEFINE request == [NoRequest EXCEPT !.pc = "lock", !.id = id, !.row = plans[id],
                                          !.expected = expected]
  <2>1. plans[id] \in PlanRow /\ id \in PlanIds /\ expected \in Nat
    BY BoundsAssumption
  <2>2. /\ request \in Request /\ request.pc = "lock" /\ request.id = id
        /\ request.row = plans[id] /\ request.expected = expected
    BY <2>1 DEF NoRequest, Request
  <2>3. requests' = [requests EXCEPT ![w] = request] /\ plans' = plans
    BY <1>8 DEF LockReadsPlan
  <2> HIDE DEF request
  <2> QED
    BY <1>2, <2>1, <2>2, <2>3 DEF RefersWell
<1>9. CASE Update(w) \/ Lock(w)
  <2>1. requests[w].id \in DOMAIN plans'
    BY <1>9, WriteRaises
  <2>2. /\ Written(requests[w]) \in Request /\ Written(requests[w]).pc = "reread"
        /\ Written(requests[w]).id = requests[w].id
    BY <1>1 DEF Written, Request
  <2>3. requests' = [requests EXCEPT ![w] = Written(requests[w])]
    BY <1>9 DEF Update, Lock
  <2> QED
    BY <1>2, <2>1, <2>2, <2>3 DEF RefersWell
<1>10. CASE Reread(w)
  <2>1. requests[w].id \in DOMAIN plans /\ plans[requests[w].id] \in PlanRow
    BY <1>10 DEF Reread, RefersWell
  <2> DEFINE request == [requests[w] EXCEPT !.pc = "audit", !.new = plans[requests[w].id]]
  <2>2. /\ request \in Request /\ request.pc = "audit" /\ request.id = requests[w].id
        /\ request.new = plans[requests[w].id]
    BY <1>1, <2>1 DEF Request
  <2>3. requests' = [requests EXCEPT ![w] = request] /\ plans' = plans
    BY <1>10 DEF Reread
  <2> HIDE DEF request
  <2> QED
    BY <1>2, <2>1, <2>2, <2>3 DEF RefersWell
<1>11. CASE requests' = [requests EXCEPT ![w] = NoRequest]
  BY <1>1, <1>11 DEF RefersWell, NoRequest
<1>12. CASE UNCHANGED vars
  BY <1>12 DEF vars, RefersWell
<1> QED
  BY <1>3, <1>4, <1>5, <1>6, <1>7, <1>8, <1>9, <1>10, <1>11, <1>12
  DEF Step, CreateRefused, TableFull, RevisionRefused, Conflict, Audit, Fail

\* The event of a request has its type.
LEMMA EventTypes ==
  ASSUME TypeInv, NEW w \in Workers, requests[w].pc = "audit"
  PROVE  Event(requests[w]) \in AuditEvent
<1>1. /\ requests[w] \in Request /\ requests[w].id \in PlanIds
      /\ requests[w].new \in PlanRow /\ requests[w].row \in PlanRow \cup {Nothing}
  BY DEF TypeInv, TypeOK, RefersWell, Request
<1> QED
  BY <1>1 DEF Event, Replaced, AuditEvent, PlanRow

\* A lapse names a plan and a version.
LEMMA LapseTypes ==
  ASSUME TypeInv, NEW w \in Workers, Fail(w)
  PROVE  lapses' \subseteq PlanIds \X Nat
<1>1. CASE requests[w].pc \in {"reread", "audit"}
  <2>1. requests[w].id \in PlanIds /\ requests[w].row \in PlanRow \cup {Nothing}
    BY <1>1 DEF TypeInv, TypeOK, RefersWell, Request
  <2>2. Replaced(requests[w]) \in Nat
    BY <2>1 DEF Replaced, PlanRow
  <2> QED
    BY <1>1, <2>1, <2>2 DEF Fail, TypeInv, TypeOK
<1>2. CASE requests[w].pc \notin {"reread", "audit"}
  BY <1>2 DEF Fail, TypeInv, TypeOK
<1> QED
  BY <1>1, <1>2

LEMMA TypesStep ==
  ASSUME TypeInv, NEW w \in Workers, Step(w)
  PROVE  TypeInv'
<1>1. audits' \subseteq AuditEvent
  BY WritesFrame, EventTypes DEF Audit, TypeInv, TypeOK
<1>2. failures' \in Nat /\ lapses' \subseteq PlanIds \X Nat
  BY WritesFrame, LapseTypes DEF Fail, TypeInv, TypeOK
<1>3. ASSUME NEW other \in Workers \ {w}
      PROVE  RefersWell(other)'
  <2>1. requests'[other] = requests[other] /\ DOMAIN plans \subseteq DOMAIN plans'
    BY StepFrame, RowsStep
  <2> QED
    BY <2>1 DEF TypeInv, RefersWell
<1> QED
  BY <1>1, <1>2, <1>3, RowsStep, RequestStep, StepFrame DEF TypeInv, TypeOK

\* Types, and that every request refers to rows that exist: TypeInv is
\* inductive.
THEOREM TypeInvariant == Spec => []TypeInv
<1>1. TypeInv /\ [Next]_vars => TypeInv'
  <2>1. TypeInv /\ UNCHANGED vars => TypeInv'
    BY DEF vars, TypeInv, TypeOK, RefersWell
  <2>2. ASSUME TypeInv, NEW area \in AreaIds, NEW values \in Area, AreaChanges(area, values)
        PROVE  TypeInv'
    BY <2>2 DEF AreaChanges, TypeInv, TypeOK, RefersWell
  <2> QED
    BY <2>1, <2>2, TypesStep DEF Next
<1> QED
  BY <1>1, TypesStart, PTL DEF Spec

\* Areas, plans, audit trail and requests have their types in every behaviour.
THEOREM TypeCorrect == Spec => []TypeOK
<1>1. TypeInv => TypeOK
  BY DEF TypeInv
<1> QED
  BY <1>1, TypeInvariant, PTL

-----------------------------------------------------------------------------
(***************************************************************************)
(* What the version quoted, the row read and the row of the table have to  *)
(* do with each other between the read and the UPDATE.                     *)
(***************************************************************************)
RowIsAsRead(w) ==
    \/ plans[requests[w].id] = requests[w].row
    \/ plans[requests[w].id].version > requests[w].row.version

RaceInv ==
    \A w \in Workers :
        requests[w].pc \in {"update", "lock"}
            => /\ RowIsAsRead(w)
               /\ Draft(requests[w].row)
               /\ requests[w].expected <= requests[w].row.version

\* A matching UPDATE meets the very row its request has read, a draft.
LEMMA MatchIsReadRow ==
  ASSUME TypeInv, RaceInv, NEW w \in Workers, Update(w) \/ Lock(w)
  PROVE  /\ requests[w].id \in DOMAIN plans
         /\ plans[requests[w].id] = requests[w].row
         /\ Draft(requests[w].row)
<1>1. requests[w].pc \in {"update", "lock"}
  BY DEF Update, Lock
<1>2. /\ requests[w].id \in DOMAIN plans /\ plans[requests[w].id] \in PlanRow
      /\ requests[w].row \in PlanRow /\ requests[w].expected \in Nat
  BY <1>1 DEF TypeInv, TypeOK, RefersWell
<1>3. /\ requests[w].expected <= requests[w].row.version
      /\ RowIsAsRead(w) /\ Draft(requests[w].row)
  BY <1>1 DEF RaceInv
<1>4. plans[requests[w].id].version = requests[w].expected
  BY DEF Update, Lock, UpdateMatches, LockMatches
<1>5. ~(plans[requests[w].id].version > requests[w].row.version)
  BY <1>2, <1>3, <1>4 DEF PlanRow
<1> QED
  BY <1>2, <1>3, <1>5 DEF RowIsAsRead

\* A step that changes a row raises its version by one.
LEMMA VersionsRise ==
  ASSUME TypeInv, NEW w \in Workers, Step(w), NEW id \in DOMAIN plans
  PROVE  \/ plans'[id] = plans[id]
         \/ /\ Update(w) \/ Lock(w)
            /\ requests[w].id = id
            /\ plans'[id].version = plans[id].version + 1
<1>1. CASE Update(w) \/ Lock(w)
  BY <1>1, WriteRaises
<1>2. CASE Insert(w)
  <2>1. PICK new : Inserted(w, new)
    BY <1>2 DEF Insert, Inserted
  <2> QED
    BY <2>1 DEF Inserted
<1>3. CASE plans' = plans
  BY <1>3
<1> QED
  BY <1>1, <1>2, <1>3, WritesFrame

\* The two reads after which a request may go on to its UPDATE.
LEMMA ReadsOfRevisions ==
  ASSUME TypeInv, NEW w \in Workers, Step(w), requests'[w].pc \in {"update", "lock"},
         requests' # requests
  PROVE  /\ plans' = plans
         /\ \E id \in DOMAIN plans, expected \in 1 .. MaxVersion :
               /\ requests'[w].id = id /\ requests'[w].row = plans[id]
               /\ requests'[w].expected = expected
               /\ Draft(plans[id]) /\ expected <= plans[id].version + VersionSlack
<1> USE DEF TypeInv, TypeOK
<1>1. requests[w] \in Request
  OBVIOUS
<1>2. ASSUME NEW id \in DOMAIN plans, NEW lines \in Lines, NEW expected \in 1 .. MaxVersion,
             UpdateReadsPlan(w, id, lines, expected)
      PROVE  /\ plans' = plans /\ requests'[w].id = id /\ requests'[w].row = plans[id]
             /\ requests'[w].expected = expected
             /\ Draft(plans[id]) /\ expected <= plans[id].version + VersionSlack
  BY <1>2 DEF UpdateReadsPlan, Quotable, NoRequest
<1>3. ASSUME NEW id \in DOMAIN plans, NEW expected \in 1 .. MaxVersion,
             LockReadsPlan(w, id, expected)
      PROVE  /\ plans' = plans /\ requests'[w].id = id /\ requests'[w].row = plans[id]
             /\ requests'[w].expected = expected
             /\ Draft(plans[id]) /\ expected <= plans[id].version + VersionSlack
  BY <1>3 DEF LockReadsPlan, Quotable, NoRequest
<1>4. ASSUME NEW area \in AreaIds, NEW lines \in Lines,
             \/ GenerateReadsArea(w, area, lines) \/ CreateReadsArea(w, area, lines)
             \/ CreateRefused(w, area, lines)
      PROVE  requests'[w].pc \in {"create", "insert", "idle"}
  <2>1. GenerateReadsArea(w, area, lines) => requests'[w].pc = "create"
    BY DEF GenerateReadsArea, NoRequest
  <2>2. CreateReadsArea(w, area, lines) => requests'[w].pc = "insert"
    BY DEF CreateReadsArea, Inserting, NoRequest
  <2>3. CreateRefused(w, area, lines) => requests'[w].pc = "idle"
    BY DEF CreateRefused, NoRequest
  <2> QED
    BY <1>4, <2>1, <2>2, <2>3
<1>5. ASSUME NEW id \in DOMAIN plans, CopyReadsPlan(w, id)
      PROVE  requests'[w].pc = "insert"
  BY <1>5 DEF CopyReadsPlan, Inserting, NoRequest
<1>6. CASE Insert(w)
  <2>1. PICK id : Inserted(w, id)
    BY <1>6 DEF Insert, Inserted
  <2>2. requests'[w].pc = "audit"
    BY <1>1, <2>1 DEF Inserted, Request
  <2> QED
    BY <2>2
<1>7. CASE Update(w) \/ Lock(w)
  <2>1. requests'[w] = Written(requests[w])
    BY <1>7 DEF Update, Lock
  <2>2. requests'[w].pc = "reread"
    BY <1>1, <2>1 DEF Written, Request
  <2> QED
    BY <2>2
<1>8. CASE Reread(w)
  <2>1. requests'[w] = [requests[w] EXCEPT !.pc = "audit", !.new = plans[requests[w].id]]
    BY <1>8 DEF Reread
  <2>2. requests'[w].pc = "audit"
    BY <1>1, <2>1 DEF Request
  <2> QED
    BY <2>2
<1>9. CASE TableFull(w) \/ Conflict(w) \/ Audit(w) \/ Fail(w)
  <2>1. requests'[w].pc = "idle"
    BY <1>9 DEF TableFull, Conflict, Audit, Fail, NoRequest
  <2> QED
    BY <2>1
<1>10. ASSUME NEW id \in PlanIds, RevisionRefused(w, id)
       PROVE  FALSE
  BY <1>10 DEF RevisionRefused, vars
<1> QED
  BY <1>2, <1>3, <1>4, <1>5, <1>6, <1>7, <1>8, <1>9, <1>10 DEF Step

LEMMA RaceStep ==
  ASSUME VersionSlack = 0, TypeInv, RaceInv, NEW w \in Workers, Step(w)
  PROVE  RaceInv'
<1>1. ASSUME NEW other \in Workers, requests'[other] = requests[other],
             requests'[other].pc \in {"update", "lock"}
      PROVE  /\ RowIsAsRead(other)' /\ Draft(requests'[other].row)
             /\ requests'[other].expected <= requests'[other].row.version
  <2>1. /\ RowIsAsRead(other) /\ Draft(requests[other].row)
        /\ requests[other].expected <= requests[other].row.version
    BY <1>1 DEF RaceInv
  <2>2. /\ requests[other].id \in DOMAIN plans /\ plans[requests[other].id] \in PlanRow
        /\ requests[other].row \in PlanRow
    BY <1>1 DEF TypeInv, TypeOK, RefersWell
  <2>3. \/ plans'[requests[other].id] = plans[requests[other].id]
        \/ plans'[requests[other].id].version = plans[requests[other].id].version + 1
    BY <2>2, VersionsRise
  <2>4. RowIsAsRead(other)'
    BY <1>1, <2>1, <2>2, <2>3 DEF RowIsAsRead, PlanRow
  <2> QED
    BY <1>1, <2>1, <2>4
<1>2. ASSUME requests'[w] # requests[w], requests'[w].pc \in {"update", "lock"}
      PROVE  /\ RowIsAsRead(w)' /\ Draft(requests'[w].row)
             /\ requests'[w].expected <= requests'[w].row.version
  <2>1. PICK id \in DOMAIN plans, expected \in 1 .. MaxVersion :
          /\ requests'[w].id = id /\ requests'[w].row = plans[id] /\ plans' = plans
          /\ requests'[w].expected = expected
          /\ Draft(plans[id]) /\ expected <= plans[id].version + VersionSlack
    BY <1>2, ReadsOfRevisions
  <2>2. plans[id].version \in Nat
    BY DEF TypeInv, TypeOK, PlanRow
  <2> QED
    BY <2>1, <2>2 DEF RowIsAsRead
<1> QED
  BY <1>1, <1>2, StepFrame DEF RaceInv

LEMMA RaceInvariant == ASSUME VersionSlack = 0 PROVE Spec => []RaceInv
<1>1. Init => RaceInv
  BY DEF Init, RaceInv, NoRequest
<1>2. TypeInv /\ RaceInv /\ [Next]_vars => RaceInv'
  <2>1. RaceInv /\ UNCHANGED vars => RaceInv'
    BY DEF RaceInv, RowIsAsRead, vars
  <2>2. ASSUME RaceInv, NEW area \in AreaIds, NEW values \in Area, AreaChanges(area, values)
        PROVE  RaceInv'
    BY <2>2 DEF AreaChanges, RaceInv, RowIsAsRead
  <2> QED
    BY <2>1, <2>2, RaceStep DEF Next
<1> QED
  BY <1>1, <1>2, TypeInvariant, PTL DEF Spec

\* No lost update, and no lock of lines its client has not seen: among clients
\* that quote versions that exist, the row that a revision or a lock replaces
\* is the very row its request read and checked.
THEOREM RevisionsAreNotLost ==
  ASSUME VersionSlack = 0
  PROVE  Spec => WriteReplacesWhatWasRead
<1>1. TypeInv /\ RaceInv /\ [Next]_vars
      => [\A w \in Workers :
             Update(w) \/ Lock(w) => plans[requests[w].id] = requests[w].row]_vars
  BY MatchIsReadRow
<1> QED
  BY <1>1, TypeInvariant, RaceInvariant, PTL DEF Spec, WriteReplacesWhatWasRead

-----------------------------------------------------------------------------
(***************************************************************************)
(* The refinement, and frozen plans.                                       *)
(***************************************************************************)
LEMMA InsertIsCreate ==
  ASSUME TypeInv, NEW w \in Workers, Insert(w)
  PROVE  Ledger!Next
<1>1. PICK id \in PlanIds \ DOMAIN plans :
        plans' = [known \in DOMAIN plans \cup {id} |->
                     IF known = id THEN requests[w].new ELSE plans[known]]
  BY DEF Insert
<1>2. requests[w].new \in PlanRow /\ requests[w].new.plan_state = "draft"
  BY DEF Insert, TypeInv, RefersWell
<1>3. Ledger!Create(id)
  BY <1>1, <1>2 DEF Ledger!Create, Ledger!Others, PlanRow
<1> QED
  BY <1>3 DEF Ledger!Next

LEMMA RevisionIsWrite ==
  ASSUME TypeInv, RaceInv, NEW w \in Workers, Update(w) \/ Lock(w)
  PROVE  Ledger!Next
<1>1. PICK id \in DOMAIN plans :
        id = requests[w].id /\ plans[id] = requests[w].row /\ Draft(plans[id])
  BY MatchIsReadRow
<1>2. /\ DOMAIN plans' = DOMAIN plans
      /\ plans'[id] \in PlanRow
      /\ plans'[id].version = plans[id].version + 1
      /\ \A other \in DOMAIN plans \ {id} : plans'[other] = plans[other]
  BY <1>1, WriteRaises
<1>3. <<plans[id].plan_state, plans'[id].plan_state>> \in {"draft"} \X PlanStates
  BY <1>1, <1>2 DEF Draft, PlanRow
<1>4. Ledger!Write(id)
  BY <1>1, <1>2, <1>3 DEF Ledger!Write, Ledger!Others, Draft
<1>5. id \in PlanIds
  BY DEF TypeInv, TypeOK
<1> QED
  BY <1>4, <1>5 DEF Ledger!Next

\* All the requests together implement the abstract table of the plans: no
\* update is lost, and what is locked is frozen.
THEOREM PlansImplementLedger ==
  ASSUME VersionSlack = 0
  PROVE  Spec => ImplementsLedger
<1>1. ASSUME TypeInv, RaceInv, [Next]_vars
      PROVE  Ledger!Next \/ UNCHANGED plans
  <2>1. ASSUME NEW w \in Workers, Step(w)
        PROVE  Ledger!Next \/ UNCHANGED plans
    BY <1>1, <2>1, InsertIsCreate, RevisionIsWrite, WritesFrame
  <2>2. ASSUME NEW area \in AreaIds, NEW values \in Area, AreaChanges(area, values)
        PROVE  UNCHANGED plans
    BY <2>2 DEF AreaChanges
  <2> QED
    BY <1>1, <2>1, <2>2 DEF Next, vars
<1>2. TypeInv /\ RaceInv /\ [Next]_vars
      => [Ledger!Next]_[id \in DOMAIN plans |->
                           [body |-> <<plans[id].area, plans[id].lines>>,
                            state |-> plans[id].plan_state,
                            version |-> plans[id].version]]
  BY <1>1
<1>3. Init => Ledger!Init
  BY SeedAssumption DEF Init, Ledger!Init, PlanRow
<1> QED
  BY <1>2, <1>3, TypeInvariant, RaceInvariant, PTL
  DEF Spec, ImplementsLedger, Ledger!Spec

\* A locked plan never changes again, although the UPDATE of a revision does
\* not repeat the state that its request checked earlier.
THEOREM LockedPlansStay ==
  ASSUME VersionSlack = 0
  PROVE  Spec => LockedPlansAreFrozen
<1>1. ASSUME TypeInv, RaceInv, [Next]_vars, NEW id \in DOMAIN plans,
             plans[id].plan_state = "locked"
      PROVE  plans'[id] = plans[id]
  <2>1. ASSUME NEW w \in Workers, Step(w)
        PROVE  plans'[id] = plans[id]
    BY <1>1, <2>1, VersionsRise, MatchIsReadRow DEF Draft
  <2>2. ASSUME NEW area \in AreaIds, NEW values \in Area, AreaChanges(area, values)
        PROVE  plans'[id] = plans[id]
    BY <2>2 DEF AreaChanges
  <2> QED
    BY <1>1, <2>1, <2>2 DEF Next, vars
<1>2. TypeInv /\ RaceInv /\ [Next]_vars
      => [\A id \in DOMAIN plans :
             plans[id].plan_state = "locked" => plans'[id] = plans[id]]_vars
  BY <1>1
<1> QED
  BY <1>2, TypeInvariant, RaceInvariant, PTL DEF Spec, LockedPlansAreFrozen

-----------------------------------------------------------------------------
(***************************************************************************)
(* The audit trail: the versions of a plan that events tell of, that       *)
(* requests still owe, or that requests failed to tell of, are those from  *)
(* its first to the one it has.                                            *)
(***************************************************************************)
Owes(w, id, v) ==
    /\ requests[w].pc \in {"reread", "audit"}
    /\ requests[w].id = id /\ Replaced(requests[w]) = v

ToldOf(id, v) ==
    \/ <<id, v>> \in lapses
    \/ \E event \in audits : event.id = id /\ event.before = v

Accounted(id, v) == ToldOf(id, v) \/ \E w \in Workers : Owes(w, id, v)

Writes(w) == Insert(w) \/ Update(w) \/ Lock(w)

\* The first version of a plan that is told of.
Starts(id, first) ==
    IF id \in DOMAIN SeedPlans
    THEN first = SeedPlans[id].version /\ first <= plans[id].version
    ELSE first <= plans[id].version - 1

AccountInv ==
    /\ DOMAIN SeedPlans \subseteq DOMAIN plans
    /\ \A event \in audits : event.id \in DOMAIN plans
    /\ \A lapse \in lapses : lapse[1] \in DOMAIN plans
    /\ \A id \in DOMAIN plans : \E first \in Nat :
          /\ Starts(id, first)
          /\ \A v : Accounted(id, v) <=> v \in first .. plans[id].version - 1

\* What a write makes its request owe.
LEMMA WritesOwe ==
  ASSUME TypeInv, NEW w \in Workers, Writes(w)
  PROVE  /\ requests'[w].pc \in {"reread", "audit"}
         /\ requests'[w].row = requests[w].row
         /\ ~Insert(w) => requests'[w].id = requests[w].id
         /\ requests[w].pc \notin {"reread", "audit"}
<1>1. requests[w] \in Request /\ requests \in [Workers -> Request]
  BY DEF TypeInv, TypeOK
<1>2. CASE Insert(w)
  <2>1. PICK id : Inserted(w, id)
    BY <1>2 DEF Insert, Inserted
  <2>2. requests'[w].pc = "audit" /\ requests'[w].row = requests[w].row
    BY <1>1, <2>1 DEF Inserted, Request
  <2>3. requests[w].pc = "insert"
    BY <1>2 DEF Insert
  <2> QED
    BY <1>2, <2>2, <2>3
<1>3. CASE Update(w) \/ Lock(w)
  <2>1. requests'[w] = Written(requests[w]) /\ requests[w].pc \in {"update", "lock"}
    BY <1>1, <1>3 DEF Update, Lock
  <2>2. /\ Written(requests[w]).pc = "reread" /\ Written(requests[w]).id = requests[w].id
        /\ Written(requests[w]).row = requests[w].row
    BY <1>1 DEF Written, Request
  <2>3. ~Insert(w)
    BY <2>1 DEF Insert
  <2> QED
    BY <2>1, <2>2, <2>3
<1> QED
  BY <1>2, <1>3 DEF Writes

\* A request that neither writes nor audits owes nothing after a step, unless
\* it has only read its row again.
LEMMA OthersOweNothing ==
  ASSUME TypeInv, NEW w \in Workers, Step(w), ~Writes(w), ~Audit(w), ~Reread(w), ~Fail(w),
         requests' # requests
  PROVE  /\ requests[w].pc \notin {"reread", "audit"}
         /\ requests'[w].pc \notin {"reread", "audit"}
<1> USE DEF TypeInv, TypeOK
<1>1. ASSUME NEW area \in AreaIds, NEW lines \in Lines,
             \/ GenerateReadsArea(w, area, lines) \/ CreateReadsArea(w, area, lines)
             \/ CreateRefused(w, area, lines)
      PROVE  /\ requests[w].pc \notin {"reread", "audit"}
             /\ requests'[w].pc \notin {"reread", "audit"}
  <2>1. requests[w].pc \in {"idle", "create"}
    BY <1>1 DEF GenerateReadsArea, CreateReadsArea, CreateRefused, Creating
  <2>2. GenerateReadsArea(w, area, lines) => requests'[w].pc = "create"
    BY DEF GenerateReadsArea, NoRequest
  <2>3. CreateReadsArea(w, area, lines) => requests'[w].pc = "insert"
    BY DEF CreateReadsArea, Inserting, NoRequest
  <2>4. CreateRefused(w, area, lines) => requests'[w].pc = "idle"
    BY DEF CreateRefused, NoRequest
  <2> QED
    BY <1>1, <2>1, <2>2, <2>3, <2>4
<1>2. ASSUME NEW id \in DOMAIN plans, CopyReadsPlan(w, id)
      PROVE  requests[w].pc = "idle" /\ requests'[w].pc = "insert"
  BY <1>2 DEF CopyReadsPlan, Inserting, NoRequest
<1>3. ASSUME NEW id \in DOMAIN plans, NEW lines \in Lines, NEW expected \in 1 .. MaxVersion,
             UpdateReadsPlan(w, id, lines, expected)
      PROVE  requests[w].pc = "idle" /\ requests'[w].pc = "update"
  BY <1>3 DEF UpdateReadsPlan, NoRequest
<1>4. ASSUME NEW id \in DOMAIN plans, NEW expected \in 1 .. MaxVersion,
             LockReadsPlan(w, id, expected)
      PROVE  requests[w].pc = "idle" /\ requests'[w].pc = "lock"
  BY <1>4 DEF LockReadsPlan, NoRequest
<1>5. CASE TableFull(w) \/ Conflict(w)
  <2>1. requests[w].pc \in {"insert", "update", "lock"} /\ requests'[w].pc = "idle"
    BY <1>5 DEF TableFull, Conflict, NoRequest
  <2> QED
    BY <2>1
<1>6. ASSUME NEW id \in PlanIds, RevisionRefused(w, id)
      PROVE  FALSE
  BY <1>6 DEF RevisionRefused, vars
<1> QED
  BY <1>1, <1>2, <1>3, <1>4, <1>5, <1>6 DEF Step, Writes

\* What is accounted for after a step: what was, and the version replaced.
LEMMA AccountsStay ==
  ASSUME TypeInv, NEW w \in Workers, Step(w), NEW id, NEW v
  PROVE  Accounted(id, v)'
            <=> \/ Accounted(id, v)
                \/ Writes(w) /\ requests'[w].id = id /\ Replaced(requests'[w]) = v
<1>1. \A other \in Workers \ {w} : Owes(other, id, v)' <=> Owes(other, id, v)
  BY StepFrame DEF Owes, Replaced
<1>2. CASE Writes(w)
  <2>1. /\ requests'[w].pc \in {"reread", "audit"}
        /\ requests[w].pc \notin {"reread", "audit"}
    BY <1>2, WritesOwe
  <2>2. audits' = audits /\ lapses' = lapses
    BY <1>2 DEF Writes, Insert, Update, Lock
  <2>3. Owes(w, id, v)' <=> requests'[w].id = id /\ Replaced(requests'[w]) = v
    BY <2>1 DEF Owes, Replaced
  <2>4. ~Owes(w, id, v)
    BY <2>1 DEF Owes
  <2>5. ToldOf(id, v)' <=> ToldOf(id, v)
    BY <2>2 DEF ToldOf
  <2> QED
    BY <1>1, <1>2, <2>3, <2>4, <2>5 DEF Accounted
<1>3. CASE Audit(w)
  <2>1. /\ audits' = audits \cup {Event(requests[w])} /\ lapses' = lapses
        /\ requests[w].pc = "audit"
    BY <1>3 DEF Audit
  <2>2. Event(requests[w]).id = requests[w].id /\ Event(requests[w]).before = Replaced(requests[w])
    BY DEF Event, Replaced
  <2>3. ToldOf(id, v)' <=> ToldOf(id, v) \/ Owes(w, id, v)
    BY <2>1, <2>2 DEF ToldOf, Owes
  <2>4. ~Owes(w, id, v)'
    BY <1>3 DEF Audit, Owes, NoRequest, TypeInv, TypeOK
  <2>5. ~Writes(w)
    BY <2>1 DEF Writes, Insert, Update, Lock
  <2> QED
    BY <1>1, <2>3, <2>4, <2>5 DEF Accounted
<1>4. CASE Reread(w)
  <2>1. requests[w] \in Request
    BY DEF TypeInv, TypeOK
  <2>2. requests'[w] = [requests[w] EXCEPT !.pc = "audit", !.new = plans[requests[w].id]]
    BY <1>4 DEF Reread, TypeInv, TypeOK
  <2>3. /\ requests'[w].pc = "audit" /\ requests'[w].id = requests[w].id
        /\ requests'[w].row = requests[w].row
    BY <2>1, <2>2 DEF Request
  <2>4. requests[w].pc = "reread" /\ audits' = audits /\ lapses' = lapses
    BY <1>4 DEF Reread
  <2>5. Owes(w, id, v)' <=> Owes(w, id, v)
    BY <2>3, <2>4 DEF Owes, Replaced
  <2>6. ToldOf(id, v)' <=> ToldOf(id, v)
    BY <2>4 DEF ToldOf
  <2>7. ~Writes(w)
    BY <2>4 DEF Writes, Insert, Update, Lock
  <2> QED
    BY <1>1, <2>5, <2>6, <2>7 DEF Accounted
<1>5. CASE Fail(w)
  <2>1. /\ audits' = audits
        /\ lapses' = IF requests[w].pc \in {"reread", "audit"}
                     THEN lapses \cup {<<requests[w].id, Replaced(requests[w])>>}
                     ELSE lapses
    BY <1>5 DEF Fail
  <2>2. ToldOf(id, v)' <=> ToldOf(id, v) \/ Owes(w, id, v)
    BY <2>1 DEF ToldOf, Owes
  <2>3. ~Owes(w, id, v)'
    BY <1>5 DEF Fail, Owes, NoRequest, TypeInv, TypeOK
  <2>4. CASE ~Writes(w)
    BY <1>1, <2>2, <2>3, <2>4 DEF Accounted
  <2> QED
    BY <1>2, <2>4
<1>6. CASE ~Writes(w) /\ ~Audit(w) /\ ~Reread(w) /\ ~Fail(w)
  <2>1. audits' = audits /\ lapses' = lapses
    BY <1>6, WritesFrame
  <2>2. Owes(w, id, v)' <=> Owes(w, id, v)
    BY <1>6, OthersOweNothing DEF Owes, Replaced
  <2>3. ToldOf(id, v)' <=> ToldOf(id, v)
    BY <2>1 DEF ToldOf
  <2> QED
    BY <1>1, <1>6, <2>2, <2>3 DEF Accounted
<1> QED
  BY <1>2, <1>3, <1>4, <1>5, <1>6

\* A plan that was there keeps its chain, longer by one if it was written.
LEMMA ChainsGrow ==
  ASSUME TypeInv, RaceInv, NEW w \in Workers, Step(w),
         NEW id \in DOMAIN plans, NEW first \in Nat, Starts(id, first),
         \A v : Accounted(id, v) <=> v \in first .. plans[id].version - 1
  PROVE  /\ Starts(id, first)'
         /\ \A v : Accounted(id, v)' <=> v \in first .. plans'[id].version - 1
<1>1. plans[id].version \in Nat \ {0} /\ first <= plans[id].version
  BY DEF TypeInv, TypeOK, PlanRow, Starts
<1>2. CASE (Update(w) \/ Lock(w)) /\ requests[w].id = id
  <2>1. plans'[id].version = plans[id].version + 1
    BY <1>2, WriteRaises
  <2>2. Starts(id, first)'
    BY <1>1, <2>1 DEF Starts
  <2>3. plans[id] = requests[w].row /\ plans[id] \in PlanRow
    BY <1>2, MatchIsReadRow DEF TypeInv, TypeOK
  <2>4. ~Insert(w)
    BY <1>2 DEF Update, Lock, Insert
  <2>5. /\ Writes(w) /\ requests'[w].id = id
        /\ Replaced(requests'[w]) = plans[id].version
    BY <1>2, <2>3, <2>4, WritesOwe, NothingAssumption DEF Writes, Replaced
  <2>6. ASSUME NEW v
        PROVE  Accounted(id, v)' <=> v \in first .. plans'[id].version - 1
    <3>1. Accounted(id, v)' <=> Accounted(id, v) \/ v = plans[id].version
      BY <2>5, AccountsStay
    <3>2. v \in first .. plans'[id].version - 1
             <=> v \in first .. plans[id].version - 1 \/ v = plans[id].version
      BY <1>1, <2>1
    <3> QED
      BY <3>1, <3>2
  <2> QED
    BY <2>2, <2>6
<1>3. CASE ~((Update(w) \/ Lock(w)) /\ requests[w].id = id)
  <2>1. plans'[id] = plans[id]
    BY <1>3, VersionsRise
  <2>2. ~(Writes(w) /\ requests'[w].id = id)
    <3>1. CASE Insert(w)
      <4>1. PICK new : Inserted(w, new)
        BY <3>1 DEF Insert, Inserted
      <4>2. requests'[w].id = new /\ new \notin DOMAIN plans
        BY <4>1 DEF Inserted, TypeInv, TypeOK, Request
      <4> QED
        BY <4>2
    <3>2. CASE ~Insert(w)
      BY <1>3, <3>2, WritesOwe DEF Writes
    <3> QED
      BY <3>1, <3>2
  <2>3. \A v : Accounted(id, v)' <=> Accounted(id, v)
    BY <2>2, AccountsStay
  <2> QED
    BY <2>1, <2>3 DEF Starts
<1> QED
  BY <1>2, <1>3

\* A new plan starts its chain.
LEMMA ChainsStart ==
  ASSUME TypeInv, AccountInv, NEW w \in Workers, Step(w), NEW id \in DOMAIN plans' \ DOMAIN plans
  PROVE  \E first \in Nat :
            /\ Starts(id, first)'
            /\ \A v : Accounted(id, v)' <=> v \in first .. plans'[id].version - 1
<1>1. Insert(w)
  BY WritesFrame, WriteRaises
<1>2. PICK new : Inserted(w, new)
  BY <1>1 DEF Insert, Inserted
<1>3. id = new /\ plans'[id] = requests[w].new
  BY <1>2 DEF Inserted
<1>4. /\ requests[w].new \in PlanRow
      /\ Continues(requests[w].row, requests[w].new)
  BY <1>1 DEF Insert, TypeInv, RefersWell
<1>5. requests'[w].id = id /\ requests'[w].row = requests[w].row
  BY <1>2, <1>3, <1>1, WritesOwe DEF Writes, Inserted, TypeInv, TypeOK, Request
<1>6. PICK first \in Nat : first = Replaced(requests[w]) /\ plans'[id].version = first + 1
  BY <1>3, <1>4, NothingAssumption DEF Continues, Replaced, PlanRow
<1>7. Replaced(requests'[w]) = first
  BY <1>5, <1>6 DEF Replaced
<1>8. ASSUME NEW v
      PROVE  ~Accounted(id, v)
  <2>1. ~ToldOf(id, v)
    BY DEF ToldOf, AccountInv
  <2>2. ASSUME NEW other \in Workers
        PROVE  ~Owes(other, id, v)
    BY DEF Owes, TypeInv, RefersWell
  <2> QED
    BY <2>1, <2>2 DEF Accounted
<1>9. ASSUME NEW v
       PROVE  Accounted(id, v)' <=> v = first
  BY <1>1, <1>5, <1>7, <1>8, AccountsStay DEF Writes
<1>10. ASSUME NEW v
       PROVE  v \in first .. plans'[id].version - 1 <=> v = first
  BY <1>6
<1>11. Starts(id, first)'
  BY <1>6 DEF Starts, AccountInv
<1> QED
  BY <1>6, <1>9, <1>10, <1>11

LEMMA AccountStep ==
  ASSUME TypeInv, RaceInv, AccountInv, NEW w \in Workers, Step(w)
  PROVE  AccountInv'
<1>1. DOMAIN SeedPlans \subseteq DOMAIN plans'
  BY RowsStep DEF AccountInv
<1>2. \A event \in audits' : event.id \in DOMAIN plans'
  <2>1. CASE Audit(w)
    BY <2>1, RowsStep DEF Audit, Event, AccountInv, TypeInv, RefersWell
  <2>2. CASE audits' = audits
    BY <2>2, RowsStep DEF AccountInv
  <2> QED
    BY <2>1, <2>2, WritesFrame
<1>3. \A lapse \in lapses' : lapse[1] \in DOMAIN plans'
  <2>1. CASE Fail(w) /\ requests[w].pc \in {"reread", "audit"}
    BY <2>1, RowsStep DEF Fail, AccountInv, TypeInv, RefersWell
  <2>2. CASE lapses' = lapses
    BY <2>2, RowsStep DEF AccountInv
  <2> QED
    BY <2>1, <2>2, WritesFrame DEF Fail
<1>4. ASSUME NEW id \in DOMAIN plans
      PROVE  \E first \in Nat :
                /\ Starts(id, first)'
                /\ \A v : Accounted(id, v)' <=> v \in first .. plans'[id].version - 1
  <2>1. PICK first \in Nat :
          /\ Starts(id, first)
          /\ \A v : Accounted(id, v) <=> v \in first .. plans[id].version - 1
    BY <1>4 DEF AccountInv
  <2>2. /\ Starts(id, first)'
        /\ \A v : Accounted(id, v)' <=> v \in first .. plans'[id].version - 1
    BY <1>4, <2>1, ChainsGrow
  <2> QED
    BY <2>2
<1> QED
  BY <1>1, <1>2, <1>3, <1>4, ChainsStart DEF AccountInv

\* With no request in flight, the events about a plan form a chain from its first
\* version to the one it has, in which only the one event of each request that
\* ended between its write and its event is missing.
THEOREM AuditTrailIsComplete ==
  ASSUME VersionSlack = 0
  PROVE  Spec => []AuditTrailComplete
<1>1. Init => AccountInv
  <2>1. ASSUME Init, NEW id \in DOMAIN plans
        PROVE  \E first \in Nat :
                  /\ Starts(id, first)
                  /\ \A v : Accounted(id, v) <=> v \in first .. plans[id].version - 1
    <3>1. id \in DOMAIN SeedPlans /\ plans[id] = SeedPlans[id] /\ SeedPlans[id] \in PlanRow
      BY <2>1, SeedAssumption DEF Init
    <3>2. SeedPlans[id].version \in Nat /\ Starts(id, SeedPlans[id].version)
      BY <3>1 DEF Starts, PlanRow
    <3>3. ASSUME NEW v
          PROVE  ~Accounted(id, v)
      BY <2>1 DEF Init, Accounted, ToldOf, Owes, NoRequest
    <3>4. ASSUME NEW v
          PROVE  v \notin SeedPlans[id].version .. plans[id].version - 1
      BY <3>1, <3>2
    <3> QED
      BY <3>2, <3>3, <3>4
  <2> QED
    BY <2>1 DEF Init, AccountInv
<1>2. TypeInv /\ RaceInv /\ AccountInv /\ [Next]_vars => AccountInv'
  <2>1. AccountInv /\ UNCHANGED vars => AccountInv'
    BY DEF AccountInv, Starts, Accounted, ToldOf, Owes, vars
  <2>2. ASSUME AccountInv, NEW area \in AreaIds, NEW values \in Area, AreaChanges(area, values)
        PROVE  AccountInv'
    BY <2>2 DEF AreaChanges, AccountInv, Starts, Accounted, ToldOf, Owes
  <2> QED
    BY <2>1, <2>2, AccountStep DEF Next
<1>3. ASSUME TypeInv, AccountInv, \A w \in Workers : requests[w].pc = "idle",
             NEW id \in DOMAIN plans
      PROVE  LET told == {event.before : event \in {e \in audits : e.id = id}}
                 lost == {lapse[2] : lapse \in {l \in lapses : l[1] = id}}
             IN
             IF id \in DOMAIN SeedPlans
             THEN told \cup lost = SeedPlans[id].version .. plans[id].version - 1
             ELSE \E first \in 0 .. plans[id].version - 1 :
                     told \cup lost = first .. plans[id].version - 1
  <2> DEFINE told == {event.before : event \in {e \in audits : e.id = id}}
             lost == {lapse[2] : lapse \in {l \in lapses : l[1] = id}}
  <2>1. PICK first \in Nat :
          /\ Starts(id, first)
          /\ \A v : Accounted(id, v) <=> v \in first .. plans[id].version - 1
    BY <1>3 DEF AccountInv
  <2>2. ASSUME NEW v
        PROVE  v \in told \cup lost <=> Accounted(id, v)
    <3>1. v \in lost <=> <<id, v>> \in lapses
      BY <1>3 DEF TypeInv, TypeOK
    <3>2. v \in told <=> \E event \in audits : event.id = id /\ event.before = v
      OBVIOUS
    <3>3. Accounted(id, v) <=> ToldOf(id, v)
      BY <1>3 DEF Accounted, Owes
    <3> QED
      BY <3>1, <3>2, <3>3 DEF ToldOf
  <2>3. told \cup lost = first .. plans[id].version - 1
    <3> HIDE DEF told, lost
    <3> QED
      BY <2>1, <2>2
  <2>4. plans[id].version \in Nat
    BY <1>3 DEF TypeInv, TypeOK, PlanRow
  <2> QED
    BY <2>1, <2>3, <2>4 DEF Starts
<1>4. TypeInv /\ AccountInv => AuditTrailComplete
  BY <1>3 DEF AuditTrailComplete
<1> QED
  BY <1>1, <1>2, <1>4, TypeInvariant, RaceInvariant, PTL DEF Spec

================================================================================
