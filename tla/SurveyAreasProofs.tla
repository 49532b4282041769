---------------------------- MODULE SurveyAreasProofs ----------------------------
(***************************************************************************)
(* Theorems about SurveyAreas, for any number of areas, boundaries and     *)
(* workers.                                                                *)
(*                                                                         *)
(* The UPDATE compares versions and nothing else.  As long as clients      *)
(* quote versions that exist (VersionSlack = 0), that is enough: the       *)
(* version quoted is at most the one read, which is at most that of the    *)
(* row, so if the first is the last, the row is the one that was read.     *)
(***************************************************************************)
EXTENDS SurveyAreas, TLAPS

-----------------------------------------------------------------------------
(***************************************************************************)
(* Types, and what each request refers to.                                 *)
(***************************************************************************)
RefersWell(w) ==
    /\ requests[w].pc = "update" => /\ requests[w].id \in DOMAIN areas
                                    /\ requests[w].row \in AreaRow
                                    /\ requests[w].values \in AreaValues
                                    /\ requests[w].expected \in Nat
    /\ requests[w].pc = "reread" => requests[w].id \in DOMAIN areas
    /\ requests[w].pc = "audit" => /\ requests[w].id \in DOMAIN areas
                                   /\ requests[w].new \in AreaRow

TypeInv == TypeOK /\ \A w \in Workers : RefersWell(w)

\* What a step of one worker leaves alone, and what it may do to the table.
LEMMA StepFrame ==
  ASSUME TypeInv, NEW w \in Workers, Step(w)
  PROVE  /\ \A other \in Workers \ {w} : requests'[other] = requests[other]
         /\ DOMAIN areas \subseteq DOMAIN areas'
         /\ ~Update(w) => \A id \in DOMAIN areas : areas'[id] = areas[id]
         /\ Update(w) => /\ areas' = [areas EXCEPT ![requests[w].id] = Revised(requests[w])]
                         /\ DOMAIN areas' = DOMAIN areas
         /\ audits \subseteq audits' /\ lapses \subseteq lapses'
<1> USE DEF TypeInv, TypeOK
<1>1. ASSUME NEW boundary \in Boundaries, Create(w, boundary)
      PROVE  /\ \A other \in Workers \ {w} : requests'[other] = requests[other]
             /\ DOMAIN areas \subseteq DOMAIN areas'
             /\ \A id \in DOMAIN areas : areas'[id] = areas[id]
             /\ ~Update(w) /\ audits' = audits /\ lapses' = lapses
  BY <1>1 DEF Create, Update
<1>2. ASSUME NEW id \in DOMAIN areas, NEW values \in AreaValues,
             NEW expected \in 1 .. MaxVersion, UpdateReads(w, id, values, expected)
      PROVE  /\ \A other \in Workers \ {w} : requests'[other] = requests[other]
             /\ areas' = areas /\ ~Update(w) /\ audits' = audits /\ lapses' = lapses
  BY <1>2 DEF UpdateReads, Update
<1>3. CASE Update(w)
  BY <1>3 DEF Update
<1>4. ASSUME NEW id \in AreaIds, UpdateRefused(w, id)
      PROVE  /\ requests' = requests /\ areas' = areas /\ ~Update(w)
             /\ audits' = audits /\ lapses' = lapses
  BY <1>4 DEF UpdateRefused, vars, Update
<1>5. CASE Conflict(w) \/ Reread(w) \/ Audit(w) \/ Fail(w)
  <2>1. /\ \A other \in Workers \ {w} : requests'[other] = requests[other]
        /\ areas' = areas /\ audits \subseteq audits' /\ lapses \subseteq lapses'
    BY <1>5 DEF Conflict, Reread, Audit, Fail
  <2> QED
    BY <1>3, <2>1
<1> QED
  BY <1>1, <1>2, <1>3, <1>4, <1>5 DEF Step

LEMMA TypesStart == Init => TypeInv
BY SeedAssumption, BoundsAssumption
   DEF Init, TypeInv, TypeOK, RefersWell, NoRequest, Request

\* What a step writes has the type of a row.
LEMMA RowsStep ==
  ASSUME TypeInv, NEW w \in Workers, Step(w)
  PROVE  DOMAIN areas' \subseteq AreaIds /\ areas' \in [DOMAIN areas' -> AreaRow]
<1> USE DEF TypeInv, TypeOK
<1>1. ASSUME NEW boundary \in Boundaries, Create(w, boundary)
      PROVE  DOMAIN areas' \subseteq AreaIds /\ areas' \in [DOMAIN areas' -> AreaRow]
  <2>1. NewArea(boundary) \in AreaRow
    BY DEF NewArea, AreaRow, AreaStatuses
  <2>2. PICK id \in AreaIds \ DOMAIN areas :
          areas' = [known \in DOMAIN areas \cup {id} |->
                       IF known = id THEN NewArea(boundary) ELSE areas[known]]
    BY <1>1 DEF Create
  <2> QED
    BY <2>1, <2>2
<1>2. CASE Update(w)
  <2>1. Revised(requests[w]) \in AreaRow
    BY <1>2 DEF Update, RefersWell, Revised, AreaRow, AreaValues
  <2> QED
    BY <1>2, <2>1 DEF Update
<1>3. CASE UNCHANGED areas
  BY <1>3
<1> QED
  BY <1>1, <1>2, <1>3
  DEF Step, UpdateReads, UpdateRefused, vars, Conflict, Reread, Audit, Fail

\* The request that takes the step has its type and refers well.
LEMMA RequestStep ==
  ASSUME TypeInv, NEW w \in Workers, Step(w)
  PROVE  requests' \in [Workers -> Request] /\ RefersWell(w)'
<1> USE DEF TypeInv, TypeOK
<1>1. requests[w] \in Request /\ NoRequest \in Request
  BY DEF Request, NoRequest
<1>2. ASSUME NEW boundary \in Boundaries, Create(w, boundary)
      PROVE  requests' \in [Workers -> Request] /\ RefersWell(w)'
  <2>1. PICK id \in AreaIds \ DOMAIN areas :
          /\ areas' = [known \in DOMAIN areas \cup {id} |->
                          IF known = id THEN NewArea(boundary) ELSE areas[known]]
          /\ requests' = [requests EXCEPT ![w] =
                [NoRequest EXCEPT !.pc = "audit", !.id = id, !.new = NewArea(boundary)]]
    BY <1>2 DEF Create
  <2>2. NewArea(boundary) \in AreaRow
    BY DEF NewArea, AreaRow, AreaStatuses
  <2>3. [NoRequest EXCEPT !.pc = "audit", !.id = id, !.new = NewArea(boundary)] \in Request
    BY <2>2 DEF NoRequest, Request
  <2>4. /\ requests'[w].pc = "audit" /\ requests'[w].id = id
        /\ requests'[w].new = NewArea(boundary)
    BY <2>1 DEF NoRequest
  <2> QED
    BY <2>1, <2>2, <2>3, <2>4 DEF RefersWell
<1>3. ASSUME NEW id \in DOMAIN areas, NEW values \in AreaValues,
             NEW expected \in 1 .. MaxVersion, UpdateReads(w, id, values, expected)
      PROVE  requests' \in [Workers -> Request] /\ RefersWell(w)'
  <2>1. areas[id] \in AreaRow /\ id \in AreaIds /\ expected \in Nat
    BY BoundsAssumption
  <2> QED
    BY <1>3, <2>1 DEF UpdateReads, Request, RefersWell
<1>4. CASE Update(w)
  <2>1. DOMAIN areas' = DOMAIN areas
    BY <1>4 DEF Update
  <2>2. [requests[w] EXCEPT !.pc = "reread", !.values = Nothing, !.expected = Nothing]
           \in Request
    BY <1>1 DEF Request
  <2> QED
    BY <1>1, <1>4, <2>1, <2>2 DEF Update, RefersWell, Request
<1>5. CASE Reread(w)
  <2>1. areas[requests[w].id] \in AreaRow /\ requests[w].id \in DOMAIN areas
    BY <1>5 DEF Reread, RefersWell
  <2>2. [requests[w] EXCEPT !.pc = "audit", !.new = areas[requests[w].id]] \in Request
    BY <1>1, <2>1 DEF Request
  <2> QED
    BY <1>1, <1>5, <2>1, <2>2 DEF Reread, RefersWell, Request
<1>6. CASE Conflict(w) \/ Audit(w) \/ Fail(w)
  BY <1>1, <1>6 DEF Conflict, Audit, Fail, RefersWell, NoRequest
<1>7. CASE UNCHANGED vars
  BY <1>7 DEF vars, RefersWell
<1> QED
  BY <1>2, <1>3, <1>4, <1>5, <1>6, <1>7 DEF Step, UpdateRefused

\* The event of a request has its type.
LEMMA EventTypes ==
  ASSUME TypeInv, NEW w \in Workers, requests[w].pc = "audit"
  PROVE  Event(requests[w]) \in AuditEvent
<1>1. /\ requests[w] \in Request /\ requests[w].id \in AreaIds
      /\ requests[w].new \in AreaRow /\ requests[w].row \in AreaRow \cup {Nothing}
  BY DEF TypeInv, TypeOK, RefersWell, Request
<1> QED
  BY <1>1 DEF Event, Replaced, AuditEvent, AreaRow

\* A lapse names an area and a version.
LEMMA LapseTypes ==
  ASSUME TypeInv, NEW w \in Workers, Fail(w)
  PROVE  lapses' \subseteq AreaIds \X Nat
<1>1. CASE requests[w].pc \in {"reread", "audit"}
  <2>1. requests[w].id \in AreaIds /\ requests[w].row \in AreaRow \cup {Nothing}
    BY <1>1 DEF TypeInv, TypeOK, RefersWell, Request
  <2>2. Replaced(requests[w]) \in Nat
    BY <2>1 DEF Replaced, AreaRow
  <2> QED
    BY <1>1, <2>1, <2>2 DEF Fail, TypeInv, TypeOK
<1>2. CASE requests[w].pc \notin {"reread", "audit"}
  BY <1>2 DEF Fail, TypeInv, TypeOK
<1> QED
  BY <1>1, <1>2

LEMMA TypesStep ==
  ASSUME TypeInv, NEW w \in Workers, Step(w)
  PROVE  TypeInv'
<1>1. audits' \subseteq AuditEvent
  <2>1. CASE Audit(w)
    BY <2>1, EventTypes DEF Audit, TypeInv, TypeOK
  <2>2. CASE UNCHANGED audits
    BY <2>2 DEF TypeInv, TypeOK
  <2> QED
    BY <2>1, <2>2
    DEF Step, Create, UpdateReads, UpdateRefused, vars, Update, Conflict, Reread, Fail
<1>2. failures' \in Nat
  <2>1. failures' = failures \/ failures' = failures + 1
    BY DEF Step, Create, UpdateReads, UpdateRefused, vars, Update, Conflict, Reread, Audit,
           Fail
  <2> QED
    BY <2>1 DEF TypeInv, TypeOK
<1>3. ASSUME NEW other \in Workers \ {w}
      PROVE  RefersWell(other)'
  BY StepFrame DEF TypeInv, RefersWell
<1>4. lapses' \subseteq AreaIds \X Nat
  <2>1. CASE UNCHANGED lapses
    BY <2>1 DEF TypeInv, TypeOK
  <2> QED
    BY <2>1, LapseTypes
    DEF Step, Create, UpdateReads, UpdateRefused, vars, Update, Conflict, Reread, Audit
<1> QED
  BY <1>1, <1>2, <1>3, <1>4, RowsStep, RequestStep DEF TypeInv, TypeOK

\* Types, and that every request refers to rows that exist: TypeInv is
\* inductive.
THEOREM TypeInvariant == Spec => []TypeInv
<1>1. TypeInv /\ [Next]_vars => TypeInv'
  <2>1. TypeInv /\ UNCHANGED vars => TypeInv'
    BY DEF vars, TypeInv, TypeOK, RefersWell
  <2> QED
    BY <2>1, TypesStep DEF Next
<1> QED
  BY <1>1, TypesStart, PTL DEF Spec

\* Areas, audit trail and requests have their types in every behaviour.
THEOREM TypeCorrect == Spec => []TypeOK
<1>1. TypeInv => TypeOK
  BY DEF TypeInv
<1> QED
  BY <1>1, TypeInvariant, PTL

-----------------------------------------------------------------------------
(***************************************************************************)
(* What the version quoted, the row read and the row of the table have to  *)
(* do with each other between the read and the UPDATE.                     *)
(***************************************************************************)
RowIsAsRead(w) ==
    \/ areas[requests[w].id] = requests[w].row
    \/ areas[requests[w].id].version > requests[w].row.version

RaceInv ==
    \A w \in Workers :
        requests[w].pc = "update" => /\ RowIsAsRead(w)
                                     /\ Open(requests[w].row)
                                     /\ requests[w].expected <= requests[w].row.version

\* A matching UPDATE meets the very row its request has read.
LEMMA MatchIsReadRow ==
  ASSUME TypeInv, RaceInv, NEW w \in Workers, Update(w)
  PROVE  /\ requests[w].id \in DOMAIN areas
         /\ areas[requests[w].id] = requests[w].row
         /\ Open(requests[w].row)
<1>1. /\ requests[w].id \in DOMAIN areas /\ areas[requests[w].id] \in AreaRow
      /\ requests[w].row \in AreaRow /\ requests[w].expected \in Nat
  BY DEF TypeInv, TypeOK, RefersWell, Update
<1>2. /\ areas[requests[w].id].version = requests[w].expected
      /\ requests[w].expected <= requests[w].row.version
      /\ RowIsAsRead(w) /\ Open(requests[w].row)
  BY DEF RaceInv, Update, Matches
<1>3. ~(areas[requests[w].id].version > requests[w].row.version)
  BY <1>1, <1>2 DEF AreaRow
<1> QED
  BY <1>1, <1>2, <1>3 DEF RowIsAsRead

\* No step lowers a version, and a step that changes a row raises it.
LEMMA VersionsRise ==
  ASSUME TypeInv, NEW w \in Workers, Step(w), NEW id \in DOMAIN areas
  PROVE  areas'[id] = areas[id] \/ areas'[id].version = areas[id].version + 1
<1>1. CASE Update(w)
  <2>1. areas' = [areas EXCEPT ![requests[w].id] = Revised(requests[w])]
    BY <1>1 DEF Update
  <2>2. CASE id = requests[w].id
    BY <2>1, <2>2 DEF Revised
  <2>3. CASE id # requests[w].id
    BY <2>1, <2>3
  <2> QED
    BY <2>2, <2>3
<1>2. CASE ~Update(w)
  BY <1>2, StepFrame
<1> QED
  BY <1>1, <1>2

LEMMA RaceStep ==
  ASSUME VersionSlack = 0, TypeInv, RaceInv, NEW w \in Workers, Step(w)
  PROVE  RaceInv'
<1>1. ASSUME NEW other \in Workers \ {w}, requests'[other].pc = "update"
      PROVE  /\ RowIsAsRead(other)' /\ Open(requests'[other].row)
             /\ requests'[other].expected <= requests'[other].row.version
  <2>1. requests'[other] = requests[other]
    BY <1>1, StepFrame
  <2>2. /\ RowIsAsRead(other) /\ Open(requests[other].row)
        /\ requests[other].expected <= requests[other].row.version
    BY <1>1, <2>1 DEF RaceInv
  <2>3. /\ requests[other].id \in DOMAIN areas /\ areas[requests[other].id] \in AreaRow
        /\ requests[other].row \in AreaRow
    BY <1>1, <2>1 DEF TypeInv, TypeOK, RefersWell
  <2>4. \/ areas'[requests[other].id] = areas[requests[other].id]
        \/ areas'[requests[other].id].version = areas[requests[other].id].version + 1
    BY <2>3, VersionsRise
  <2>5. RowIsAsRead(other)'
    BY <2>1, <2>2, <2>3, <2>4 DEF RowIsAsRead, AreaRow
  <2> QED
    BY <2>1, <2>2, <2>5
<1>2. ASSUME requests'[w].pc = "update"
      PROVE  /\ RowIsAsRead(w)' /\ Open(requests'[w].row)
             /\ requests'[w].expected <= requests'[w].row.version
  <2>1. ASSUME NEW id \in DOMAIN areas, NEW values \in AreaValues,
               NEW expected \in 1 .. MaxVersion, UpdateReads(w, id, values, expected)
        PROVE  /\ RowIsAsRead(w)' /\ Open(requests'[w].row)
               /\ requests'[w].expected <= requests'[w].row.version
    <3>1. /\ requests'[w].id = id /\ requests'[w].row = areas[id] /\ areas' = areas
          /\ requests'[w].expected = expected /\ Open(areas[id])
          /\ expected <= areas[id].version + VersionSlack
      BY <2>1 DEF UpdateReads, TypeInv, TypeOK
    <3>2. areas[id].version \in Nat
      BY DEF TypeInv, TypeOK, AreaRow
    <3> QED
      BY <3>1, <3>2 DEF RowIsAsRead
  <2>2. CASE \E id \in AreaIds : UpdateRefused(w, id)
    <3>1. UNCHANGED vars
      BY <2>2 DEF UpdateRefused
    <3> QED
      BY <1>2, <3>1 DEF vars, RaceInv, RowIsAsRead
  <2>3. ASSUME NEW boundary \in Boundaries, Create(w, boundary)
        PROVE  requests'[w].pc # "update"
    BY <2>3 DEF Create, NoRequest, TypeInv, TypeOK
  <2>4. Update(w) \/ Reread(w) => requests'[w].pc # "update"
    <3>1. requests[w] \in Request
      BY DEF TypeInv, TypeOK
    <3>2. Update(w) => requests'[w].pc = "reread"
      BY <3>1 DEF Update, TypeInv, TypeOK, Request
    <3>3. Reread(w) => requests'[w].pc = "audit"
      BY <3>1 DEF Reread, TypeInv, TypeOK, Request
    <3> QED
      BY <3>2, <3>3
  <2>5. Conflict(w) \/ Audit(w) \/ Fail(w) => requests'[w].pc # "update"
    BY DEF Conflict, Audit, Fail, NoRequest, TypeInv, TypeOK
  <2> QED
    BY <1>2, <2>1, <2>2, <2>3, <2>4, <2>5 DEF Step
<1> QED
  BY <1>1, <1>2 DEF RaceInv

LEMMA RaceInvariant == ASSUME VersionSlack = 0 PROVE Spec => []RaceInv
<1>1. Init => RaceInv
  BY DEF Init, RaceInv, NoRequest
<1>2. TypeInv /\ RaceInv /\ [Next]_vars => RaceInv'
  <2>1. RaceInv /\ UNCHANGED vars => RaceInv'
    BY DEF RaceInv, RowIsAsRead, vars
  <2> QED
    BY <2>1, RaceStep DEF Next
<1> QED
  BY <1>1, <1>2, TypeInvariant, PTL DEF Spec

\* No lost update: among clients that quote versions that exist, the row an
\* update replaces is the very row its request read and checked.
THEOREM UpdatesAreNotLost ==
  ASSUME VersionSlack = 0
  PROVE  Spec => UpdateReplacesWhatWasRead
<1>1. TypeInv /\ RaceInv /\ [Next]_vars
      => [\A w \in Workers : Update(w) => areas[requests[w].id] = requests[w].row]_vars
  BY MatchIsReadRow
<1> QED
  BY <1>1, TypeInvariant, RaceInvariant, PTL DEF Spec, UpdateReplacesWhatWasRead

-----------------------------------------------------------------------------
(***************************************************************************)
(* The refinement.                                                         *)
(***************************************************************************)
LEMMA CreateIsCreate ==
  ASSUME TypeInv, NEW w \in Workers, NEW boundary \in Boundaries, Create(w, boundary)
  PROVE  Ledger!Next
<1>1. PICK id \in AreaIds \ DOMAIN areas :
        areas' = [known \in DOMAIN areas \cup {id} |->
                     IF known = id THEN NewArea(boundary) ELSE areas[known]]
  BY DEF Create
<1>2. Ledger!Create(id)
  BY <1>1 DEF Ledger!Create, Ledger!Others, NewArea
<1> QED
  BY <1>2 DEF Ledger!Next

LEMMA UpdateIsWrite ==
  ASSUME TypeInv, RaceInv, NEW w \in Workers, Update(w)
  PROVE  Ledger!Next
<1>1. PICK id \in DOMAIN areas :
        id = requests[w].id /\ areas[id] = requests[w].row /\ Open(areas[id])
  BY MatchIsReadRow
<1>2. areas' = [areas EXCEPT ![id] = Revised(requests[w])]
  BY <1>1 DEF Update
<1>3. areas[id] \in AreaRow /\ id \in AreaIds /\ requests[w].values \in AreaValues
  BY <1>1 DEF TypeInv, TypeOK, RefersWell, Update
<1>4. /\ areas'[id].version = areas[id].version + 1
      /\ areas'[id].status = requests[w].values.status
  BY <1>1, <1>2 DEF Revised
<1>5. /\ <<areas[id].status, areas'[id].status>> \in {"draft", "active"} \X AreaStatuses
      /\ areas[id].status \in {"draft", "active"}
  BY <1>1, <1>3, <1>4 DEF Open, AreaRow, AreaValues, AreaStatuses
<1>6. /\ DOMAIN areas' = DOMAIN areas
      /\ \A other \in DOMAIN areas \ {id} : areas'[other] = areas[other]
  BY <1>2
<1>7. Ledger!Write(id)
  BY <1>1, <1>4, <1>5, <1>6 DEF Ledger!Write, Ledger!Others
<1> QED
  BY <1>3, <1>7 DEF Ledger!Next

\* All the requests together implement the abstract table of the areas: no
\* update is lost, and what is archived is frozen.
THEOREM AreasImplementLedger ==
  ASSUME VersionSlack = 0
  PROVE  Spec => ImplementsLedger
<1>1. ASSUME TypeInv, RaceInv, [Next]_vars
      PROVE  Ledger!Next \/ UNCHANGED areas
  <2>1. ASSUME NEW w \in Workers, Step(w)
        PROVE  Ledger!Next \/ UNCHANGED areas
    BY <1>1, <2>1, CreateIsCreate, UpdateIsWrite
    DEF Step, UpdateReads, UpdateRefused, vars, Conflict, Reread, Audit, Fail
  <2> QED
    BY <1>1, <2>1 DEF Next, vars
<1>2. TypeInv /\ RaceInv /\ [Next]_vars
      => [Ledger!Next]_[id \in DOMAIN areas |-> [body |-> areas[id].boundary,
                                                 state |-> areas[id].status,
                                                 version |-> areas[id].version]]
  BY <1>1
<1>3. Init => Ledger!Init
  BY SeedAssumption DEF Init, Ledger!Init, AreaRow
<1> QED
  BY <1>2, <1>3, TypeInvariant, RaceInvariant, PTL
  DEF Spec, ImplementsLedger, Ledger!Spec

-----------------------------------------------------------------------------
(***************************************************************************)
(* The audit trail: each version that was replaced has its event, a        *)
(* request that still owes it, or the lapse of the request that owed it.   *)
(***************************************************************************)
Owed(id, v) ==
    \E w \in Workers : /\ requests[w].pc \in {"reread", "audit"}
                       /\ requests[w].id = id /\ Replaced(requests[w]) = v

ToldOf(id, v) ==
    \/ <<id, v>> \in lapses
    \/ \E event \in audits : event.id = id /\ event.before = v

AccountInv ==
    /\ DOMAIN SeedAreas \subseteq DOMAIN areas
    /\ \A id \in DOMAIN areas : \A v \in StartVersion(id) .. areas[id].version - 1 :
          ToldOf(id, v) \/ Owed(id, v)

\* What has been accounted for stays so: a request that ends early notes the
\* lapse.
LEMMA AccountsStay ==
  ASSUME TypeInv, NEW w \in Workers, Step(w), NEW id, NEW v,
         ToldOf(id, v) \/ Owed(id, v)
  PROVE  (ToldOf(id, v) \/ Owed(id, v))'
<1>1. audits \subseteq audits' /\ lapses \subseteq lapses'
  BY StepFrame
<1>2. ASSUME ToldOf(id, v) PROVE ToldOf(id, v)'
  BY <1>1, <1>2 DEF ToldOf
<1>3. ASSUME NEW other \in Workers, requests[other].pc \in {"reread", "audit"},
             requests[other].id = id, Replaced(requests[other]) = v
      PROVE  (ToldOf(id, v) \/ Owed(id, v))'
  <2>1. CASE requests'[other] = requests[other]
    BY <1>3, <2>1 DEF Owed, Replaced
  <2>2. CASE other = w
    <3>1. CASE Reread(w)
      <4>1. requests[w] \in Request
        BY DEF TypeInv, TypeOK
      <4>2. /\ requests'[w].pc = "audit" /\ requests'[w].id = requests[w].id
            /\ requests'[w].row = requests[w].row
        BY <3>1, <4>1 DEF Reread, TypeInv, TypeOK, Request
      <4> QED
        BY <1>3, <2>2, <4>2 DEF Owed, Replaced
    <3>2. CASE Audit(w)
      <4>1. Event(requests[w]) \in audits'
        BY <3>2 DEF Audit
      <4> QED
        BY <1>3, <2>2, <4>1 DEF Event, ToldOf, Replaced
    <3>3. CASE UNCHANGED requests
      BY <2>1, <3>3
    <3>4. CASE Fail(w)
      BY <1>3, <2>2, <3>4 DEF Fail, ToldOf
    <3> QED
      BY <1>3, <2>2, <3>1, <3>2, <3>3, <3>4
      DEF Step, Create, UpdateReads, UpdateRefused, vars, Update, Conflict
  <2> QED
    BY <2>1, <2>2, StepFrame
<1> QED
  BY <1>2, <1>3 DEF Owed

LEMMA AccountStep ==
  ASSUME TypeInv, RaceInv, AccountInv, NEW w \in Workers, Step(w)
  PROVE  AccountInv'
<1>1. DOMAIN SeedAreas \subseteq DOMAIN areas'
  BY StepFrame DEF AccountInv
<1>2. ASSUME NEW id \in DOMAIN areas,
             NEW v \in StartVersion(id) .. areas'[id].version - 1
      PROVE  (ToldOf(id, v) \/ Owed(id, v))'
  <2>1. CASE v \in StartVersion(id) .. areas[id].version - 1
    BY <1>2, <2>1, AccountsStay DEF AccountInv
  <2>2. CASE v \notin StartVersion(id) .. areas[id].version - 1
    <3>1. /\ areas[id].version \in Nat /\ StartVersion(id) \in Nat
          /\ areas'[id] = areas[id] \/ areas'[id].version = areas[id].version + 1
      BY VersionsRise, SeedAssumption DEF TypeInv, TypeOK, AreaRow, StartVersion
    <3>2. v = areas[id].version /\ areas'[id] # areas[id]
      BY <2>2, <3>1
    <3>3. Update(w) /\ id = requests[w].id
      BY <3>2, StepFrame
    <3>4. areas[id] = requests[w].row /\ requests[w].row \in AreaRow
      BY <3>3, MatchIsReadRow DEF TypeInv, TypeOK
    <3>5. Replaced(requests[w]) = v
      BY <3>2, <3>4, NothingAssumption DEF Replaced
    <3>6. requests[w] \in Request
      BY DEF TypeInv, TypeOK
    <3>7. /\ requests'[w].pc = "reread" /\ requests'[w].id = id
          /\ requests'[w].row = requests[w].row
      BY <3>3, <3>6 DEF Update, TypeInv, TypeOK, Request
    <3> QED
      BY <3>5, <3>7 DEF Owed, Replaced
  <2> QED
    BY <2>1, <2>2
<1>3. ASSUME NEW id \in DOMAIN areas' \ DOMAIN areas,
             NEW v \in StartVersion(id) .. areas'[id].version - 1
      PROVE  (ToldOf(id, v) \/ Owed(id, v))'
  <2>1. PICK boundary \in Boundaries : Create(w, boundary)
    BY <1>3 DEF Step, UpdateReads, UpdateRefused, vars, Update, Conflict, Reread, Audit, Fail
  <2>2. PICK new \in AreaIds \ DOMAIN areas :
          /\ areas' = [known \in DOMAIN areas \cup {new} |->
                          IF known = new THEN NewArea(boundary) ELSE areas[known]]
          /\ requests' = [requests EXCEPT ![w] =
                [NoRequest EXCEPT !.pc = "audit", !.id = new, !.new = NewArea(boundary)]]
    BY <2>1 DEF Create
  <2>3. id = new /\ areas'[id].version = 1
    BY <1>3, <2>2 DEF NewArea
  <2>4. StartVersion(id) = 0
    BY <1>3 DEF StartVersion, AccountInv
  <2>5. v = 0
    BY <2>3, <2>4
  <2>6. /\ requests'[w].pc = "audit" /\ requests'[w].id = id
        /\ requests'[w].row = Nothing
    BY <2>2, <2>3 DEF NoRequest, TypeInv, TypeOK
  <2> QED
    BY <2>5, <2>6 DEF Owed, Replaced
<1> QED
  BY <1>1, <1>2, <1>3 DEF AccountInv

\* With no request in flight, the events tell of each area's creation and of each
\* version that was replaced, save for the one event of each request that ended
\* between its write and its event.
THEOREM AuditTrailIsComplete ==
  ASSUME VersionSlack = 0
  PROVE  Spec => []AuditTrailComplete
<1>1. Init => AccountInv
  BY SeedAssumption DEF Init, AccountInv, StartVersion, AreaRow
<1>2. TypeInv /\ RaceInv /\ AccountInv /\ [Next]_vars => AccountInv'
  <2>1. AccountInv /\ UNCHANGED vars => AccountInv'
    BY DEF AccountInv, ToldOf, Owed, vars
  <2> QED
    BY <2>1, AccountStep DEF Next
<1>3. AccountInv => AuditTrailComplete
  BY DEF AccountInv, AuditTrailComplete, Audited, ToldOf, Owed
<1> QED
  BY <1>1, <1>2, <1>3, TypeInvariant, RaceInvariant, PTL DEF Spec

================================================================================
