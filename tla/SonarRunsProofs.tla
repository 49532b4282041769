--------------------------- MODULE SonarRunsProofs ---------------------------
(***************************************************************************)
(* Theorems about SonarRuns, for any number of plans, uploads, run ids and *)
(* workers, and any versions that clients quote: types and locked plans,   *)
(* then the races of transitions on one row, the runs table as its readers *)
(* see it, and the audit trail.                                            *)
(***************************************************************************)
EXTENDS SonarRuns, TLAPS

\* What each request in flight refers to exists, and is filled in as far as
\* the handler has come.
RequestsOK ==
    /\ \A i \in Imports :
          /\ imports[i].pc # "idle" => imports[i].upload \in Uploads
          /\ imports[i].pc \in {"audit", "reread"} => imports[i].run \in DOMAIN runs
    /\ \A m \in Moves :
          /\ moves[m].pc # "idle" => /\ moves[m].run \in DOMAIN runs
                                     /\ moves[m].before \in Row
          /\ moves[m].pc = "update" => /\ moves[m].target \in RunStates
                                       /\ moves[m].expected \in ExpectedVersions
          /\ moves[m].pc = "audit" => moves[m].after \in Row

TypeInv == TypeOK /\ RequestsOK

\* The tables and the requests have their types from the start.
LEMMA TypeInit == Init => TypeInv
  BY SeedAssumption, UploadsAssumption
  DEF Init, TypeInv, TypeOK, RequestsOK, ImportRequest, MoveRequest, ImportAnswer,
      NoImport, NoMove

\* What an import inserts is a row.
LEMMA NewRowIsRow ==
  ASSUME NEW upload \in Uploads
  PROVE  NewRow(upload) \in Row
  BY DEF NewRow, Row, RunStates

\* What an insert does to the table and to the request that makes it.
Inserted(i, id) ==
    /\ runs' = [known \in DOMAIN runs \cup {id} |->
                   IF known = id THEN NewRow(imports[i].upload) ELSE runs[known]]
    /\ imports' = [imports EXCEPT ![i].pc = "audit", ![i].run = id]

\* An import worker's step keeps the types.
LEMMA TypeImportStep ==
  ASSUME TypeInv, NEW i \in Imports, ImportStep(i)
  PROVE  TypeInv'
<1> USE DEF TypeInv, TypeOK, RequestsOK, ImportRequest
<1>1. ASSUME NEW upload \in Uploads, ImportReadsPlan(i, upload)
      PROVE  TypeInv'
  BY <1>1 DEF ImportReadsPlan
<1>2. ASSUME NEW upload \in Uploads, ImportRefused(i, upload)
      PROVE  TypeInv'
  BY <1>2 DEF ImportRefused, vars
<1>3. CASE ImportFindsExisting(i)
  BY <1>3 DEF ImportFindsExisting, ImportAnswer
<1>4. CASE ImportFindsNone(i)
  BY <1>4 DEF ImportFindsNone
<1>5. CASE ImportInserts(i)
  <2>1. PICK id \in RunIds \ DOMAIN runs : Inserted(i, id)
    BY <1>5 DEF ImportInserts, Inserted
  <2>2. NewRow(imports[i].upload) \in Row
    BY <1>5, NewRowIsRow DEF ImportInserts
  <2>3. /\ DOMAIN runs' = DOMAIN runs \cup {id}
        /\ runs' \in [DOMAIN runs' -> Row]
    BY <2>1, <2>2 DEF Inserted
  <2>4. /\ imports' \in [Imports -> ImportRequest]
        /\ imports'[i].run = id /\ imports'[i].upload = imports[i].upload
        /\ \A j \in Imports \ {i} : imports'[j] = imports[j]
    BY <2>1 DEF Inserted
  <2>5. UNCHANGED <<plans, audits, moves, lapses>> /\ imports[i].pc = "insert"
    BY <1>5 DEF ImportInserts
  <2> HIDE DEF ImportRequest
  <2> QED
    BY <2>3, <2>4, <2>5
<1>6. CASE ImportDuplicates(i)
  BY <1>6 DEF ImportDuplicates, ImportAnswer
<1>7. CASE ImportAudits(i)
  BY <1>7 DEF ImportAudits, ImportEvent, AuditEvent, NewRow, Row, RunStates
<1>8. CASE ImportAnswers(i)
  BY <1>8 DEF ImportAnswers, ImportAnswer
<1>9. CASE ImportFails(i)
  BY <1>9 DEF ImportFails, NoImport, ImportAnswer
<1> QED
  BY <1>1, <1>2, <1>3, <1>4, <1>5, <1>6, <1>7, <1>8, <1>9 DEF ImportStep

\* A transition worker's step keeps the types.
LEMMA TypeMoveStep ==
  ASSUME TypeInv, NEW m \in Moves, MoveStep(m)
  PROVE  TypeInv'
<1> USE DEF TypeInv, TypeOK, RequestsOK, MoveRequest
<1>1. ASSUME NEW id \in RunIds, NEW target \in RunStates,
             NEW expected \in ExpectedVersions, NEW reasoned \in BOOLEAN,
             MoveReads(m, id, target, expected, reasoned)
      PROVE  TypeInv'
  BY <1>1 DEF MoveReads
<1>2. ASSUME NEW id \in RunIds, NEW target \in RunStates, NEW reasoned \in BOOLEAN,
             MoveRefused(m, id, target, reasoned)
      PROVE  TypeInv'
  BY <1>2 DEF MoveRefused, vars
<1>3. CASE MoveUpdates(m)
  <2>1. PICK id \in DOMAIN runs : id = moves[m].run
    BY <1>3 DEF MoveUpdates
  <2>2. [upload |-> runs[id].upload, run_state |-> moves[m].target,
         version |-> runs[id].version + 1] \in Row
    BY <1>3, <2>1 DEF MoveUpdates, Row
  <2>3. DOMAIN runs' = DOMAIN runs /\ runs' \in [DOMAIN runs' -> Row]
    BY <1>3, <2>1, <2>2 DEF MoveUpdates
  <2>4. /\ moves' \in [Moves -> MoveRequest]
        /\ moves'[m].pc = "reread" /\ moves'[m].run = moves[m].run
        /\ moves'[m].before = moves[m].before
        /\ \A other \in Moves \ {m} : moves'[other] = moves[other]
    BY <1>3 DEF MoveUpdates
  <2>5. UNCHANGED <<plans, audits, imports, lapses>> /\ moves[m].pc = "update"
    BY <1>3 DEF MoveUpdates
  <2> HIDE DEF MoveRequest
  <2> QED
    BY <2>3, <2>4, <2>5
<1>4. CASE MoveConflicts(m)
  BY <1>4 DEF MoveConflicts, NoMove
<1>5. CASE MoveRereads(m)
  BY <1>5 DEF MoveRereads
<1>6. CASE MoveAudits(m)
  BY <1>6 DEF MoveAudits, NoMove, MoveEvent, AuditEvent
<1>7. CASE MoveFails(m)
  <2>1. lapses' \subseteq RunIds \X Nat
    <3>1. CASE moves[m].pc = "update"
      BY <1>7, <3>1 DEF MoveFails
    <3>2. CASE moves[m].pc # "update"
      <4>1. moves[m].run \in RunIds /\ moves[m].before \in Row
        BY <1>7 DEF MoveFails
      <4>2. moves[m].before.version \in Nat
        BY <4>1 DEF Row
      <4> QED
        BY <1>7, <3>2, <4>1, <4>2 DEF MoveFails
    <3> QED
      BY <3>1, <3>2
  <2> QED
    BY <1>7, <2>1 DEF MoveFails, NoMove
<1> QED
  BY <1>1, <1>2, <1>3, <1>4, <1>5, <1>6, <1>7 DEF MoveStep

\* Locking a plan keeps the types.
LEMMA TypeLockPlan ==
  ASSUME TypeInv, NEW p \in Plans, LockPlan(p)
  PROVE  TypeInv'
  BY DEF TypeInv, TypeOK, RequestsOK, LockPlan, PlanStates

\* A step that changes no variable keeps the types.
LEMMA TypeStutter ==
  ASSUME TypeInv, UNCHANGED vars
  PROVE  TypeInv'
  BY DEF TypeInv, TypeOK, RequestsOK, vars

\* The types, and what requests refer to, hold in every behaviour.
THEOREM TypeInvariant == Spec => []TypeInv
<1>1. TypeInv /\ [Next]_vars => TypeInv'
  BY TypeImportStep, TypeMoveStep, TypeLockPlan, TypeStutter DEF Next
<1> QED
  BY TypeInit, <1>1, PTL DEF Spec

\* Every table and every request in flight has its type, in every behaviour of
\* the import and transition handlers.
THEOREM TypeCorrect == Spec => []TypeOK
<1>1. TypeInv => TypeOK
  BY DEF TypeInv
<1> QED
  BY <1>1, TypeInvariant, PTL

-----------------------------------------------------------------------------
(***************************************************************************)
(* Locked plans: the import checked the plan before it looked the track up *)
(* and inserted the row, and nothing unlocks a plan.                       *)
(***************************************************************************)
LockedInv ==
    /\ RunsOnLockedPlans
    /\ \A i \in Imports :
          imports[i].pc # "idle" => plans[imports[i].upload.plan] = "locked"

\* Every body names a plan that exists.
LEMMA UploadHasPlan ==
  ASSUME NEW upload \in Uploads
  PROVE  upload.plan \in Plans
  BY UploadsAssumption

\* An import step keeps runs, and requests in flight, on locked plans.
LEMMA LockedImportStep ==
  ASSUME TypeInv, LockedInv, NEW i \in Imports, ImportStep(i)
  PROVE  LockedInv'
<1> USE DEF LockedInv, RunsOnLockedPlans, TypeInv, TypeOK, RequestsOK
<1>1. ASSUME NEW upload \in Uploads, ImportReadsPlan(i, upload)
      PROVE  LockedInv'
  BY <1>1 DEF ImportReadsPlan, Importable
<1>2. ASSUME NEW upload \in Uploads, ImportRefused(i, upload)
      PROVE  LockedInv'
  BY <1>2 DEF ImportRefused, vars
<1>3. CASE ImportFindsExisting(i)
  BY <1>3 DEF ImportFindsExisting, ImportAnswer
<1>4. CASE ImportFindsNone(i)
  BY <1>4 DEF ImportFindsNone, ImportRequest
<1>5. CASE ImportInserts(i)
  <2>1. PICK id \in RunIds \ DOMAIN runs : Inserted(i, id)
    BY <1>5 DEF ImportInserts, Inserted
  <2>2. plans' = plans /\ imports[i].pc = "insert"
    BY <1>5 DEF ImportInserts
  <2>3. RunsOnLockedPlans'
    BY <2>1, <2>2 DEF Inserted, NewRow
  <2> QED
    BY <2>1, <2>2, <2>3 DEF Inserted, ImportRequest
<1>6. CASE ImportDuplicates(i)
  BY <1>6 DEF ImportDuplicates, ImportAnswer
<1>7. CASE ImportAudits(i)
  BY <1>7 DEF ImportAudits, ImportRequest
<1>8. CASE ImportAnswers(i)
  BY <1>8 DEF ImportAnswers, ImportAnswer
<1>9. CASE ImportFails(i)
  BY <1>9 DEF ImportFails, NoImport, ImportAnswer
<1> QED
  BY <1>1, <1>2, <1>3, <1>4, <1>5, <1>6, <1>7, <1>8, <1>9 DEF ImportStep

\* A transition keeps a run's upload, the plans and the imports.
LEMMA MoveStepFrame ==
  ASSUME TypeInv, NEW m \in Moves, MoveStep(m)
  PROVE  /\ UNCHANGED <<plans, imports>>
         /\ DOMAIN runs' = DOMAIN runs
         /\ \A id \in DOMAIN runs : runs'[id].upload = runs[id].upload
         /\ runs' = runs \/ MoveUpdates(m)
<1> USE DEF TypeInv, TypeOK, RequestsOK
<1>1. ASSUME NEW id \in RunIds, NEW target \in RunStates,
             NEW expected \in ExpectedVersions, NEW reasoned \in BOOLEAN,
             MoveReads(m, id, target, expected, reasoned)
      PROVE  UNCHANGED <<plans, imports, runs>>
  BY <1>1 DEF MoveReads
<1>2. ASSUME NEW id \in RunIds, NEW target \in RunStates, NEW reasoned \in BOOLEAN,
             MoveRefused(m, id, target, reasoned)
      PROVE  UNCHANGED <<plans, imports, runs>>
  BY <1>2 DEF MoveRefused, vars
<1>3. CASE MoveUpdates(m)
  BY <1>3 DEF MoveUpdates
<1>4. CASE MoveConflicts(m) \/ MoveRereads(m) \/ MoveAudits(m) \/ MoveFails(m)
  BY <1>4 DEF MoveConflicts, MoveRereads, MoveAudits, MoveFails
<1> QED
  BY <1>1, <1>2, <1>3, <1>4 DEF MoveStep

\* Runs are on locked plans in every reachable state, although the plan is
\* checked three statements before the run is inserted.
THEOREM RunsStayOnLockedPlans == Spec => []RunsOnLockedPlans
<1>1. Init => LockedInv
  BY SeedAssumption
  DEF Init, LockedInv, RunsOnLockedPlans, NoImport, ImportAnswer
<1>2. ASSUME TypeInv, LockedInv, [Next]_vars
      PROVE  LockedInv'
  <2>1. ASSUME NEW i \in Imports, ImportStep(i)
        PROVE  LockedInv'
    BY <1>2, <2>1, LockedImportStep
  <2>2. ASSUME NEW m \in Moves, MoveStep(m)
        PROVE  LockedInv'
    BY <1>2, <2>2, MoveStepFrame DEF LockedInv, RunsOnLockedPlans
  <2>3. ASSUME NEW p \in Plans, LockPlan(p)
        PROVE  LockedInv'
    <3>1. \A q \in Plans : plans[q] = "locked" => plans'[q] = "locked"
      BY <1>2, <2>3 DEF LockPlan, TypeInv, TypeOK
    <3>2. \A id \in DOMAIN runs : runs[id].upload.plan \in Plans
      BY <1>2, UploadHasPlan DEF TypeInv, TypeOK, Row
    <3>3. \A i \in Imports : imports[i].pc # "idle" => imports[i].upload.plan \in Plans
      BY <1>2, UploadHasPlan DEF TypeInv, RequestsOK
    <3> QED
      BY <1>2, <2>3, <3>1, <3>2, <3>3 DEF LockPlan, LockedInv, RunsOnLockedPlans
  <2>4. CASE UNCHANGED vars
    BY <1>2, <2>4 DEF vars, LockedInv, RunsOnLockedPlans
  <2> QED
    BY <1>2, <2>1, <2>2, <2>3, <2>4 DEF Next
<1>3. LockedInv => RunsOnLockedPlans
  BY DEF LockedInv
<1> QED
  BY <1>1, <1>2, <1>3, TypeInvariant, PTL DEF Spec

-----------------------------------------------------------------------------
(***************************************************************************)
(* Theorems about requests that race for one run, for any number of        *)
(* workers, runs and uploads and any versions that clients quote.          *)
(*                                                                         *)
(* All rest on one fact, RowIsAsRead: the row a transition has read either *)
(* still is the row of the table, or the table has gone on to a higher     *)
(* version and to a state further along the lifecycle.  A row that shows   *)
(* the state the request read is thus the very row it read, although the   *)
(* UPDATE compares its version with one that the client chose.             *)
(***************************************************************************)

RowIsAsRead(m) ==
    \/ runs[moves[m].run] = moves[m].before
    \/ /\ runs[moves[m].run].version > moves[m].before.version
       /\ RunRank[runs[moves[m].run].run_state] > RunRank[moves[m].before.run_state]

\* The request has written its row and not yet made its audit event.
Unaudited(m) == moves[m].pc \in {"reread", "audit"}

\* The checks that the handler made on the row it read.
Checked(m) ==
    /\ CanTransition(RunMoves, moves[m].before.run_state, moves[m].target)
    /\ ~(moves[m].target = "quality_checked" /\ moves[m].before.upload.nav = "invalid")

RaceInv ==
    \A m \in Moves :
        /\ moves[m].pc = "update"
              => /\ RowIsAsRead(m)
                 /\ moves[m].before.upload = runs[moves[m].run].upload
                 /\ Checked(m)
        /\ Unaudited(m) => runs[moves[m].run].version > moves[m].before.version

\* The lifecycle has no cycle: every move raises the rank.
LEMMA MovesRaiseRank ==
  ASSUME NEW from \in RunStates, NEW target \in RunStates,
         CanTransition(RunMoves, from, target)
  PROVE  RunRank[target] > RunRank[from]
  BY DEF CanTransition, RunMoves, RunStates, RunRank

\* Ranks can be compared.
LEMMA RankIsNatural ==
  ASSUME NEW state \in RunStates
  PROVE  RunRank[state] \in Nat
  BY DEF RunStates, RunRank

\* An import step leaves the transitions and every existing row alone.
LEMMA ImportStepFrame ==
  ASSUME TypeInv, NEW i \in Imports, ImportStep(i)
  PROVE  /\ UNCHANGED <<plans, moves>>
         /\ DOMAIN runs \subseteq DOMAIN runs'
         /\ \A id \in DOMAIN runs : runs'[id] = runs[id]
         /\ runs' = runs \/ ImportInserts(i)
<1>1. ASSUME NEW upload \in Uploads,
             ImportReadsPlan(i, upload) \/ ImportRefused(i, upload)
      PROVE  UNCHANGED <<plans, moves, runs>>
  BY <1>1 DEF ImportReadsPlan, ImportRefused, vars
<1>2. CASE ImportFindsExisting(i) \/ ImportFindsNone(i) \/ ImportDuplicates(i)
  BY <1>2 DEF ImportFindsExisting, ImportFindsNone, ImportDuplicates
<1>3. CASE ImportInserts(i)
  BY <1>3 DEF ImportInserts
<1>4. CASE ImportAudits(i) \/ ImportAnswers(i) \/ ImportFails(i)
  BY <1>4 DEF ImportAudits, ImportAnswers, ImportFails
<1> QED
  BY <1>1, <1>2, <1>3, <1>4 DEF ImportStep

\* A row that matches the condition of the UPDATE is the row that was read.
LEMMA MatchIsReadRow ==
  ASSUME TypeInv, RaceInv, NEW m \in Moves, moves[m].pc = "update", RowMatches(moves[m])
  PROVE  runs[moves[m].run] = moves[m].before
<1>1. runs[moves[m].run] \in Row /\ moves[m].before \in Row
  BY DEF TypeInv, TypeOK, RequestsOK
<1>2. RunRank[moves[m].before.run_state] \in Nat
  BY <1>1, RankIsNatural DEF Row
<1>3. ~(RunRank[runs[moves[m].run].run_state] > RunRank[moves[m].before.run_state])
  BY <1>2 DEF RowMatches
<1> QED
  BY <1>3 DEF RaceInv, RowIsAsRead

\* What the UPDATE does to the row: a later version, further along.
LEMMA UpdateGoesOn ==
  ASSUME TypeInv, RaceInv, NEW m \in Moves, MoveUpdates(m)
  PROVE  \E id \in DOMAIN runs :
            /\ id = moves[m].run
            /\ runs[id] = moves[m].before
            /\ runs'[id].upload = runs[id].upload
            /\ runs'[id].run_state = moves[m].target
            /\ runs'[id].version = runs[id].version + 1
            /\ RunRank[runs'[id].run_state] > RunRank[runs[id].run_state]
            /\ \A other \in DOMAIN runs \ {id} : runs'[other] = runs[other]
<1>0. PICK id \in DOMAIN runs : id = moves[m].run
  BY DEF TypeInv, RequestsOK, MoveUpdates
<1>1. runs[id] \in Row /\ moves[m].target \in RunStates
  BY DEF TypeInv, TypeOK, RequestsOK, MoveUpdates
<1>2. runs[id] = moves[m].before
  BY <1>0, MatchIsReadRow DEF MoveUpdates
<1>3. RunRank[moves[m].target] > RunRank[runs[id].run_state]
  <2>1. CanTransition(RunMoves, runs[id].run_state, moves[m].target)
    BY <1>0, <1>2 DEF RaceInv, Checked, MoveUpdates
  <2>2. runs[id].run_state \in RunStates
    BY <1>1 DEF Row
  <2> QED
    BY <1>1, <2>1, <2>2, MovesRaiseRank
<1>4. /\ runs'[id] = [upload |-> runs[id].upload, run_state |-> moves[m].target,
                      version |-> runs[id].version + 1]
      /\ \A other \in DOMAIN runs \ {id} : runs'[other] = runs[other]
  BY <1>0 DEF MoveUpdates, TypeInv, TypeOK
<1> QED
  BY <1>0, <1>2, <1>3, <1>4

-----------------------------------------------------------------------------
(***************************************************************************)
(* RaceInv is inductive.                                                   *)
(***************************************************************************)
\* A request starts by reading the row it will write.
LEMMA RaceReads ==
  ASSUME TypeInv, RaceInv, NEW m \in Moves, NEW id \in RunIds, NEW target \in RunStates,
         NEW expected \in ExpectedVersions, NEW reasoned \in BOOLEAN,
         MoveReads(m, id, target, expected, reasoned)
  PROVE  RaceInv'
<1>1. /\ moves'[m] = [pc |-> "update", run |-> id, target |-> target,
                      expected |-> expected, before |-> runs[id], after |-> Nothing]
      /\ \A n \in Moves \ {m} : moves'[n] = moves[n]
      /\ runs' = runs
  BY DEF MoveReads, TypeInv, TypeOK
<1>2. Checked(m)'
  BY <1>1 DEF MoveReads, Acceptable, Checked
<1> QED
  BY <1>1, <1>2 DEF RaceInv, RowIsAsRead, Unaudited, Checked

\* The UPDATE of one request moves the row on for all of them.
LEMMA RaceUpdates ==
  ASSUME TypeInv, RaceInv, NEW m \in Moves, MoveUpdates(m)
  PROVE  RaceInv'
<1>1. PICK id \in DOMAIN runs :
      /\ id = moves[m].run
      /\ runs[id] = moves[m].before
      /\ runs'[id].upload = runs[id].upload
      /\ runs'[id].version = runs[id].version + 1
      /\ RunRank[runs'[id].run_state] > RunRank[runs[id].run_state]
      /\ \A other \in DOMAIN runs \ {id} : runs'[other] = runs[other]
  BY UpdateGoesOn
<1>2. /\ moves'[m].pc = "reread" /\ moves'[m].run = id
      /\ moves'[m].before = moves[m].before
      /\ \A n \in Moves \ {m} : moves'[n] = moves[n]
  BY <1>1 DEF MoveUpdates, TypeInv, TypeOK, MoveRequest
<1>3. runs[id].version \in Nat /\ RunRank[runs[id].run_state] \in Nat
      /\ RunRank[runs'[id].run_state] \in Nat
  <2>1. runs[id] \in Row /\ runs'[id].run_state \in RunStates
    BY <1>1 DEF TypeInv, TypeOK, RequestsOK, MoveUpdates
  <2> QED
    BY <2>1, RankIsNatural DEF Row
<1>4. ASSUME NEW n \in Moves \ {m}, moves[n].pc # "idle"
      PROVE  /\ moves[n].run \in DOMAIN runs
             /\ moves[n].before.version \in Nat
             /\ RunRank[moves[n].before.run_state] \in Nat
  BY <1>4, RankIsNatural DEF TypeInv, RequestsOK, Row
<1>5. ASSUME NEW n \in Moves \ {m}, moves[n].pc = "update"
      PROVE  RowIsAsRead(n)' /\ moves[n].before.upload = runs'[moves[n].run].upload
  <2>1. CASE moves[n].run = id
    BY <1>1, <1>2, <1>3, <1>4, <1>5, <2>1 DEF RaceInv, RowIsAsRead
  <2>2. CASE moves[n].run # id
    BY <1>1, <1>2, <1>4, <1>5, <2>2 DEF RaceInv, RowIsAsRead
  <2> QED
    BY <2>1, <2>2
<1>6. ASSUME NEW n \in Moves \ {m}, Unaudited(n)
      PROVE  runs'[moves[n].run].version > moves[n].before.version
  BY <1>1, <1>3, <1>4, <1>6 DEF RaceInv, Unaudited
<1>7. \A n \in Moves \ {m} : moves[n].pc = "update"
         => Checked(n)'
  BY <1>2 DEF RaceInv, Checked
<1> QED
  BY <1>1, <1>2, <1>3, <1>5, <1>6, <1>7 DEF RaceInv, Unaudited

\* Every other statement leaves the table alone.
LEMMA RaceOther ==
  ASSUME TypeInv, RaceInv, NEW m \in Moves,
         MoveConflicts(m) \/ MoveRereads(m) \/ MoveAudits(m) \/ MoveFails(m)
  PROVE  RaceInv'
<1>1. runs' = runs /\ \A n \in Moves \ {m} : moves'[n] = moves[n]
  BY DEF MoveConflicts, MoveRereads, MoveAudits, MoveFails, TypeInv, TypeOK
<1>2. CASE MoveRereads(m)
  BY <1>1, <1>2 DEF MoveRereads, RaceInv, RowIsAsRead, Unaudited, Checked,
                    TypeInv, TypeOK, MoveRequest
<1>3. CASE MoveConflicts(m) \/ MoveAudits(m) \/ MoveFails(m)
  <2>1. moves'[m].pc = "idle"
    BY <1>3 DEF MoveConflicts, MoveAudits, MoveFails, NoMove, TypeInv, TypeOK
  <2> QED
    BY <1>1, <2>1 DEF RaceInv, RowIsAsRead, Unaudited, Checked
<1> QED
  BY <1>2, <1>3

\* Requests read, race and write as RaceInv says, in every behaviour.
THEOREM RaceInvariant == Spec => []RaceInv
<1>1. Init => RaceInv
  <2>1. Init => \A m \in Moves : moves[m].pc = "idle"
    BY DEF Init, NoMove
  <2> QED
    BY <2>1 DEF RaceInv, Unaudited
<1>2. ASSUME TypeInv, RaceInv, [Next]_vars
      PROVE  RaceInv'
  <2>1. ASSUME NEW i \in Imports, ImportStep(i)
        PROVE  RaceInv'
    <3>1. moves' = moves /\ \A id \in DOMAIN runs : runs'[id] = runs[id]
      BY <1>2, <2>1, ImportStepFrame
    <3>2. \A m \in Moves : moves[m].pc # "idle" => moves[m].run \in DOMAIN runs
      BY <1>2 DEF TypeInv, RequestsOK
    <3> QED
      BY <1>2, <3>1, <3>2 DEF RaceInv, RowIsAsRead, Unaudited, Checked
  <2>2. ASSUME NEW m \in Moves, MoveStep(m)
        PROVE  RaceInv'
    <3>1. ASSUME NEW id \in RunIds, NEW target \in RunStates, NEW reasoned \in BOOLEAN,
                 MoveRefused(m, id, target, reasoned)
          PROVE  RaceInv'
      BY <1>2, <3>1 DEF MoveRefused, vars, RaceInv, RowIsAsRead, Unaudited, Checked
    <3> QED
      BY <1>2, <2>2, <3>1, RaceReads, RaceUpdates, RaceOther DEF MoveStep
  <2>3. CASE (\E p \in Plans : LockPlan(p)) \/ UNCHANGED vars
    BY <1>2, <2>3 DEF LockPlan, vars, RaceInv, RowIsAsRead, Unaudited, Checked
  <2> QED
    BY <1>2, <2>1, <2>2, <2>3 DEF Next
<1> QED
  BY <1>1, <1>2, TypeInvariant, PTL DEF Spec

-----------------------------------------------------------------------------
(***************************************************************************)
(* What follows for clients and for the audit trail.                       *)
(***************************************************************************)
\* A conflict answered to a request that quoted the version it read means that
\* another request has moved the run on.
THEOREM ConflictsMeanProgress == Spec => ConflictMeansProgress
<1>1. ASSUME TypeInv, RaceInv, NEW m \in Moves, MoveConflicts(m),
             moves[m].expected = moves[m].before.version
      PROVE  runs[moves[m].run].version > moves[m].before.version
  BY <1>1 DEF RaceInv, RowIsAsRead, MoveConflicts, RowMatches
<1>2. TypeInv /\ RaceInv /\ [Next]_vars
      => [\A m \in Moves :
             /\ MoveConflicts(m)
             /\ moves[m].expected = moves[m].before.version
             => runs[moves[m].run].version > moves[m].before.version]_vars
  BY <1>1
<1> QED
  BY <1>2, TypeInvariant, RaceInvariant, PTL DEF Spec, ConflictMeansProgress

\* A run with invalid navigation is imported or rejected, whatever the race.
THEOREM InvalidNavigationStaysOut == Spec => []InvalidNavigationIsNeverUsed
<1>1. Init => InvalidNavigationIsNeverUsed
  BY SeedAssumption DEF Init, InvalidNavigationIsNeverUsed
<1>2. ASSUME TypeInv, RaceInv, InvalidNavigationIsNeverUsed, [Next]_vars
      PROVE  InvalidNavigationIsNeverUsed'
  <2>1. ASSUME NEW i \in Imports, ImportStep(i)
        PROVE  InvalidNavigationIsNeverUsed'
    <3>1. CASE runs' = runs
      BY <1>2, <3>1 DEF InvalidNavigationIsNeverUsed
    <3>2. CASE ImportInserts(i)
      <4>1. PICK id \in RunIds \ DOMAIN runs : Inserted(i, id)
        BY <3>2 DEF ImportInserts, Inserted
      <4> QED
        BY <1>2, <4>1 DEF Inserted, NewRow, InvalidNavigationIsNeverUsed
    <3> QED
      BY <1>2, <2>1, <3>1, <3>2, ImportStepFrame
  <2>2. ASSUME NEW m \in Moves, MoveStep(m)
        PROVE  InvalidNavigationIsNeverUsed'
    <3>1. CASE runs' = runs
      BY <1>2, <3>1 DEF InvalidNavigationIsNeverUsed
    <3>2. CASE MoveUpdates(m)
      <4>1. PICK id \in DOMAIN runs :
              /\ id = moves[m].run
              /\ runs[id] = moves[m].before
              /\ runs'[id].upload = runs[id].upload
              /\ runs'[id].run_state = moves[m].target
              /\ \A other \in DOMAIN runs \ {id} : runs'[other] = runs[other]
        BY <1>2, <3>2, UpdateGoesOn
      <4>2. Checked(m)
        BY <1>2, <3>2 DEF RaceInv, MoveUpdates
      <4>3. runs[id].upload.nav = "invalid" => moves[m].target = "rejected"
        BY <1>2, <4>1, <4>2
        DEF Checked, CanTransition, RunMoves, InvalidNavigationIsNeverUsed
      <4>4. DOMAIN runs' = DOMAIN runs
        BY <1>2, <2>2, MoveStepFrame
      <4> QED
        BY <1>2, <4>1, <4>3, <4>4 DEF InvalidNavigationIsNeverUsed
    <3> QED
      BY <1>2, <2>2, <3>1, <3>2, MoveStepFrame
  <2>3. CASE (\E p \in Plans : LockPlan(p)) \/ UNCHANGED vars
    BY <1>2, <2>3 DEF LockPlan, vars, InvalidNavigationIsNeverUsed
  <2> QED
    BY <1>2, <2>1, <2>2, <2>3 DEF Next
<1> QED
  BY <1>1, <1>2, TypeInvariant, RaceInvariant, PTL DEF Spec

-----------------------------------------------------------------------------
(***************************************************************************)
(* Theorems about the runs table as its readers see it: one track has one  *)
(* run, and the interleaved statements of all requests add up to atomic    *)
(* creations and moves along the lifecycle (VersionedRecords).             *)
(***************************************************************************)

(***************************************************************************)
(* One track, one run: the unique index makes checksums distinct, and each *)
(* successful answer names the run that carries the request's checksum.    *)
(***************************************************************************)
\* The request knows its run: it inserted it, or was answered with it.
KnowsRun(i) ==
    \/ imports[i].pc \in {"audit", "reread"}
    \/ imports[i].answer \in {"created", "existing"}

TracksDiffer ==
    \A id \in DOMAIN runs : \A other \in DOMAIN runs \ {id} :
        checksumRun(runs[id].upload) # checksumRun(runs[other].upload)

TrackInv ==
    /\ TracksDiffer
    /\ \A i \in Imports : KnowsRun(i) => /\ imports[i].run \in DOMAIN runs
                                         /\ SameTrack(imports[i].run, imports[i].upload)

\* An import that leaves the table alone keeps TrackInv if its own request
\* only claims a run that carries its checksum.
LEMMA TrackRequestStep ==
  ASSUME TypeInv, TrackInv, NEW i \in Imports, runs' = runs,
         \A j \in Imports \ {i} : imports'[j] = imports[j],
         KnowsRun(i)' => /\ imports'[i].run \in DOMAIN runs
                         /\ SameTrack(imports'[i].run, imports'[i].upload)
  PROVE  TrackInv'
  BY DEF TrackInv, TracksDiffer, KnowsRun, SameTrack

\* The insert adds a row whose checksum no row had.
LEMMA TrackInserts ==
  ASSUME TypeInv, TrackInv, NEW i \in Imports, ImportInserts(i)
  PROVE  TrackInv'
<1>1. PICK id \in RunIds \ DOMAIN runs : Inserted(i, id)
  BY DEF ImportInserts, Inserted
<1>2. /\ DOMAIN runs' = DOMAIN runs \cup {id}
      /\ runs'[id].upload = imports[i].upload
      /\ \A known \in DOMAIN runs : runs'[known] = runs[known]
  BY <1>1 DEF Inserted, NewRow
<1>3. /\ imports'[i].run = id /\ imports'[i].upload = imports[i].upload
      /\ \A j \in Imports \ {i} : imports'[j] = imports[j]
  BY <1>1 DEF Inserted, TypeInv, TypeOK, ImportRequest
<1>4. \A known \in DOMAIN runs :
         checksumRun(runs[known].upload) # checksumRun(imports[i].upload)
  BY DEF ImportInserts, Insertable, SameTrack
<1>5. TracksDiffer'
  BY <1>2, <1>4 DEF TrackInv, TracksDiffer
<1>6. ASSUME NEW j \in Imports, KnowsRun(j)'
      PROVE  imports'[j].run \in DOMAIN runs' /\ SameTrack(imports[j].run, imports[j].upload)'
  BY <1>2, <1>3, <1>6 DEF TrackInv, KnowsRun, SameTrack
<1> QED
  BY <1>5, <1>6 DEF TrackInv

\* Every step of an import keeps TrackInv.
LEMMA TrackImportStep ==
  ASSUME TypeInv, TrackInv, NEW i \in Imports, ImportStep(i)
  PROVE  TrackInv'
<1> USE DEF TypeInv, TypeOK
<1>1. ASSUME NEW upload \in Uploads, ImportReadsPlan(i, upload)
      PROVE  TrackInv'
  BY <1>1, TrackRequestStep DEF ImportReadsPlan, KnowsRun
<1>2. ASSUME NEW upload \in Uploads, ImportRefused(i, upload)
      PROVE  TrackInv'
  BY <1>2 DEF ImportRefused, vars, TrackInv, TracksDiffer, KnowsRun, SameTrack
<1>3. CASE ImportFindsExisting(i)
  <2>1. PICK id \in DOMAIN runs :
          /\ SameTrack(id, imports[i].upload)
          /\ imports' = [imports EXCEPT ![i] = ImportAnswer("existing", imports[i].upload, id)]
    BY <1>3 DEF ImportFindsExisting
  <2>2. imports'[i].run = id /\ imports'[i].upload = imports[i].upload
    BY <2>1 DEF ImportAnswer
  <2> QED
    BY <1>3, <2>1, <2>2, TrackRequestStep DEF ImportFindsExisting
<1>4. CASE ImportFindsNone(i)
  <2>1. /\ imports'[i].pc = "insert" /\ imports'[i].answer = imports[i].answer
        /\ imports'[i].run = imports[i].run /\ imports'[i].upload = imports[i].upload
    BY <1>4 DEF ImportFindsNone, ImportRequest
  <2> QED
    BY <1>4, <2>1, TrackRequestStep DEF ImportFindsNone, TrackInv, KnowsRun
<1>5. CASE ImportInserts(i)
  BY <1>5, TrackInserts
<1>6. CASE ImportDuplicates(i)
  BY <1>6, TrackRequestStep DEF ImportDuplicates, ImportAnswer, KnowsRun
<1>7. CASE ImportAudits(i)
  <2>1. imports'[i].run = imports[i].run /\ imports'[i].upload = imports[i].upload
    BY <1>7 DEF ImportAudits, ImportRequest
  <2> QED
    BY <1>7, <2>1, TrackRequestStep DEF ImportAudits, TrackInv, KnowsRun
<1>8. CASE ImportAnswers(i)
  <2>1. imports'[i].run = imports[i].run /\ imports'[i].upload = imports[i].upload
    BY <1>8 DEF ImportAnswers, ImportAnswer
  <2> QED
    BY <1>8, <2>1, TrackRequestStep DEF ImportAnswers, TrackInv, KnowsRun
<1>9. CASE ImportFails(i)
  BY <1>9, TrackRequestStep DEF ImportFails, NoImport, ImportAnswer, KnowsRun
<1> QED
  BY <1>1, <1>2, <1>3, <1>4, <1>5, <1>6, <1>7, <1>8, <1>9 DEF ImportStep

\* Two successful answers to bodies with one checksum name one run.
THEOREM TracksHaveOneRun == Spec => []OneTrackOneRun
<1>1. Init => TrackInv
  BY SeedAssumption DEF Init, TrackInv, TracksDiffer, KnowsRun, NoImport, ImportAnswer
<1>2. ASSUME TypeInv, TrackInv, [Next]_vars
      PROVE  TrackInv'
  <2>1. ASSUME NEW i \in Imports, ImportStep(i)
        PROVE  TrackInv'
    BY <1>2, <2>1, TrackImportStep
  <2>2. ASSUME NEW m \in Moves, MoveStep(m)
        PROVE  TrackInv'
    <3>1. /\ imports' = imports /\ DOMAIN runs' = DOMAIN runs
          /\ \A id \in DOMAIN runs : runs'[id].upload = runs[id].upload
      BY <1>2, <2>2, MoveStepFrame
    <3> QED
      BY <1>2, <3>1 DEF TrackInv, TracksDiffer, KnowsRun, SameTrack
  <2>3. CASE (\E p \in Plans : LockPlan(p)) \/ UNCHANGED vars
    BY <1>2, <2>3 DEF LockPlan, vars, TrackInv, TracksDiffer, KnowsRun, SameTrack
  <2> QED
    BY <1>2, <2>1, <2>2, <2>3 DEF Next
<1>3. TrackInv => OneTrackOneRun
  BY DEF TrackInv, TracksDiffer, KnowsRun, SameTrack, OneTrackOneRun
<1> QED
  BY <1>1, <1>2, <1>3, TypeInvariant, PTL DEF Spec

-----------------------------------------------------------------------------
(***************************************************************************)
(* The refinement.                                                         *)
(***************************************************************************)
\* An insert is a creation.
LEMMA InsertIsCreate ==
  ASSUME TypeInv, NEW i \in Imports, ImportInserts(i)
  PROVE  Ledger!Next
<1>1. PICK id \in RunIds \ DOMAIN runs : Inserted(i, id)
  BY DEF ImportInserts, Inserted
<1>2. /\ DOMAIN runs' = DOMAIN runs \cup {id}
      /\ runs'[id] = NewRow(imports[i].upload)
      /\ \A known \in DOMAIN runs : runs'[known] = runs[known]
  BY <1>1 DEF Inserted
<1>3. Ledger!Create(id)
  BY <1>1, <1>2 DEF Ledger!Create, Ledger!Others, NewRow
<1> QED
  BY <1>3 DEF Ledger!Next

\* A matching UPDATE is a move along the lifecycle.
LEMMA UpdateIsWrite ==
  ASSUME TypeInv, RaceInv, NEW m \in Moves, MoveUpdates(m), MoveStep(m)
  PROVE  Ledger!Next
<1>1. PICK id \in DOMAIN runs :
        /\ id = moves[m].run
        /\ runs[id] = moves[m].before
        /\ runs'[id].upload = runs[id].upload
        /\ runs'[id].run_state = moves[m].target
        /\ runs'[id].version = runs[id].version + 1
        /\ \A other \in DOMAIN runs \ {id} : runs'[other] = runs[other]
  BY UpdateGoesOn
<1>2. DOMAIN runs' = DOMAIN runs
  BY MoveStepFrame
<1>3. <<runs[id].run_state, runs'[id].run_state>> \in RunMoves
  BY <1>1 DEF RaceInv, Checked, CanTransition, MoveUpdates
<1>4. Ledger!Write(id)
  BY <1>1, <1>2, <1>3 DEF Ledger!Write, Ledger!Others
<1>5. id \in RunIds
  BY DEF TypeInv, TypeOK
<1> QED
  BY <1>4, <1>5 DEF Ledger!Next

\* A row is a record with a state and a positive version.
LEMMA InitIsLedgerInit ==
  ASSUME Init
  PROVE  Ledger!Init
<1>1. TypeInv
  BY TypeInit
<1> QED
  BY <1>1 DEF Ledger!Init, TypeInv, TypeOK, Row

\* All the requests together implement the abstract table of the runs.
THEOREM RunsImplementLedger == Spec => ImplementsLedger
<1>1. ASSUME TypeInv, RaceInv, [Next]_vars
      PROVE  Ledger!Next \/ UNCHANGED runs
  <2>1. ASSUME NEW i \in Imports, ImportStep(i)
        PROVE  Ledger!Next \/ UNCHANGED runs
    BY <1>1, <2>1, ImportStepFrame, InsertIsCreate
  <2>2. ASSUME NEW m \in Moves, MoveStep(m)
        PROVE  Ledger!Next \/ UNCHANGED runs
    BY <1>1, <2>2, MoveStepFrame, UpdateIsWrite
  <2>3. CASE (\E p \in Plans : LockPlan(p)) \/ UNCHANGED vars
    BY <2>3 DEF LockPlan, vars
  <2> QED
    BY <1>1, <2>1, <2>2, <2>3 DEF Next
<1>2. TypeInv /\ RaceInv /\ [Next]_vars
      => [Ledger!Next]_[id \in DOMAIN runs |-> [body |-> runs[id].upload,
                                                state |-> runs[id].run_state,
                                                version |-> runs[id].version]]
  BY <1>1
<1>3. Init => Ledger!Init
  BY InitIsLedgerInit
<1> QED
  BY <1>2, <1>3, TypeInvariant, RaceInvariant, PTL
  DEF Spec, ImplementsLedger, Ledger!Spec

-----------------------------------------------------------------------------
(***************************************************************************)
(* The audit trail of the runs accounts for every import and every         *)
(* version, save for the one event of each request that ended between its  *)
(* write and its event, and for each version only once.                    *)
(***************************************************************************)
\* The event, the request that is about to make it, or the lapse of one that
\* was.
ImportAccounted(id) ==
    \/ <<id, 0>> \in lapses
    \/ \E event \in audits : event.action = "run.import" /\ event.run = id
    \/ \E i \in Imports : imports[i].pc = "audit" /\ imports[i].run = id

VersionAccounted(id, v) ==
    \/ <<id, v>> \in lapses
    \/ \E event \in audits :
          /\ event.action = "run.transition" /\ event.run = id
          /\ event.before.version = v
    \/ \E m \in Moves :
          /\ Unaudited(m) /\ moves[m].run = id
          /\ moves[m].before.version = v

AccountInv ==
    \A id \in DOMAIN runs :
        /\ id \notin DOMAIN SeedRuns => ImportAccounted(id)
        /\ \A v \in FirstVersion(id) .. runs[id].version - 1 : VersionAccounted(id, v)

\* A run starts at a positive version.
LEMMA FirstVersionPositive ==
  ASSUME NEW id
  PROVE  FirstVersion(id) \in Nat \ {0}
  BY SeedAssumption DEF FirstVersion, Row

\* An import keeps every account of a version: it touches neither the
\* transitions nor their events.
LEMMA ImportKeepsVersions ==
  ASSUME TypeInv, NEW i \in Imports, ImportStep(i), NEW id, NEW v,
         VersionAccounted(id, v)
  PROVE  VersionAccounted(id, v)'
<1>1. moves' = moves
  BY ImportStepFrame
<1>2. audits \subseteq audits' /\ lapses \subseteq lapses'
  BY DEF ImportStep, ImportReadsPlan, ImportRefused, ImportFindsExisting,
         ImportFindsNone, ImportInserts, ImportDuplicates, ImportAudits,
         ImportAnswers, ImportFails, vars
<1> QED
  BY <1>1, <1>2 DEF VersionAccounted, Unaudited

\* An import keeps the account of every import: a lapse is noted.
LEMMA ImportKeepsImports ==
  ASSUME TypeInv, NEW i \in Imports, ImportStep(i), NEW id, ImportAccounted(id)
  PROVE  ImportAccounted(id)'
<1> USE DEF ImportAccounted, TypeInv, TypeOK
<1>1. ASSUME NEW upload \in Uploads,
             ImportReadsPlan(i, upload) \/ ImportRefused(i, upload)
      PROVE  ImportAccounted(id)'
  BY <1>1 DEF ImportReadsPlan, ImportRefused, vars
<1>2. CASE ImportFindsExisting(i) \/ ImportFindsNone(i) \/ ImportDuplicates(i)
           \/ ImportInserts(i) \/ ImportAnswers(i)
  <2>1. /\ audits' = audits /\ imports[i].pc # "audit" /\ lapses' = lapses
        /\ \A j \in Imports \ {i} : imports'[j] = imports[j]
    BY <1>2 DEF ImportFindsExisting, ImportFindsNone, ImportDuplicates, ImportInserts,
                ImportAnswers
  <2> QED
    BY <2>1
<1>3. CASE ImportAudits(i)
  <2>1. /\ ImportEvent(i) \in audits' /\ audits \subseteq audits' /\ lapses' = lapses
        /\ \A j \in Imports \ {i} : imports'[j] = imports[j]
    BY <1>3 DEF ImportAudits
  <2>2. ImportEvent(i).action = "run.import" /\ ImportEvent(i).run = imports[i].run
    BY DEF ImportEvent
  <2> QED
    BY <2>1, <2>2
<1>4. CASE ImportFails(i)
  <2>1. /\ audits' = audits /\ lapses \subseteq lapses'
        /\ imports[i].pc = "audit" => <<imports[i].run, 0>> \in lapses'
        /\ \A j \in Imports \ {i} : imports'[j] = imports[j]
    BY <1>4 DEF ImportFails
  <2> QED
    BY <2>1
<1> QED
  BY <1>1, <1>2, <1>3, <1>4 DEF ImportStep

\* A run stays accounted for when an import takes a step.
LEMMA AccountImportStep ==
  ASSUME TypeInv, AccountInv, NEW i \in Imports, ImportStep(i)
  PROVE  AccountInv'
<1>1. ASSUME NEW id \in DOMAIN runs
      PROVE  /\ id \notin DOMAIN SeedRuns => ImportAccounted(id)'
             /\ \A v \in FirstVersion(id) .. runs'[id].version - 1 :
                   VersionAccounted(id, v)'
  <2>1. runs'[id] = runs[id]
    BY ImportStepFrame
  <2>2. /\ id \notin DOMAIN SeedRuns => ImportAccounted(id)
        /\ \A v \in FirstVersion(id) .. runs[id].version - 1 : VersionAccounted(id, v)
    BY <1>1 DEF AccountInv
  <2> QED
    BY <1>1, <2>1, <2>2, ImportKeepsImports, ImportKeepsVersions
<1>2. ASSUME NEW id \in DOMAIN runs' \ DOMAIN runs
      PROVE  /\ ImportAccounted(id)'
             /\ \A v \in FirstVersion(id) .. runs'[id].version - 1 :
                   VersionAccounted(id, v)'
  <2>1. ImportInserts(i)
    BY <1>2, ImportStepFrame
  <2>2. PICK new \in RunIds \ DOMAIN runs : Inserted(i, new)
    BY <2>1 DEF ImportInserts, Inserted
  <2>3. id = new /\ runs'[id].version = 1
    BY <1>2, <2>2 DEF Inserted, NewRow
  <2>4. ImportAccounted(id)'
    BY <2>2, <2>3 DEF Inserted, ImportAccounted, TypeInv, TypeOK, ImportRequest
  <2>5. FirstVersion(id) \in Nat \ {0}
    BY FirstVersionPositive
  <2> QED
    BY <2>3, <2>4, <2>5
<1> QED
  BY <1>1, <1>2 DEF AccountInv, FirstVersion

\* A transition leaves imports and their events alone.
LEMMA MoveKeepsImports ==
  ASSUME TypeInv, NEW m \in Moves, MoveStep(m), NEW id, ImportAccounted(id)
  PROVE  ImportAccounted(id)'
<1>1. imports' = imports
  BY MoveStepFrame
<1>2. audits \subseteq audits' /\ lapses \subseteq lapses'
  BY DEF MoveStep, MoveReads, MoveRefused, MoveUpdates, MoveConflicts, MoveRereads,
         MoveAudits, MoveFails, vars
<1> QED
  BY <1>1, <1>2 DEF ImportAccounted

\* A transition keeps the account of every version: a lapse is noted.
LEMMA MoveKeepsVersions ==
  ASSUME TypeInv, NEW m \in Moves, MoveStep(m), NEW id, NEW v, VersionAccounted(id, v)
  PROVE  VersionAccounted(id, v)'
<1> USE DEF VersionAccounted, Unaudited, TypeInv, TypeOK
<1>1. ASSUME audits \subseteq audits', lapses \subseteq lapses', ~Unaudited(m),
             \A n \in Moves \ {m} : moves'[n] = moves[n]
      PROVE  VersionAccounted(id, v)'
  BY <1>1
<1>2. ASSUME NEW run \in RunIds, NEW target \in RunStates,
             NEW expected \in ExpectedVersions, NEW reasoned \in BOOLEAN,
             MoveReads(m, run, target, expected, reasoned)
      PROVE  VersionAccounted(id, v)'
  BY <1>1, <1>2 DEF MoveReads
<1>3. ASSUME NEW run \in RunIds, NEW target \in RunStates, NEW reasoned \in BOOLEAN,
             MoveRefused(m, run, target, reasoned)
      PROVE  VersionAccounted(id, v)'
  BY <1>3 DEF MoveRefused, vars
<1>4. CASE MoveUpdates(m) \/ MoveConflicts(m)
  BY <1>1, <1>4 DEF MoveUpdates, MoveConflicts
<1>5. CASE MoveRereads(m)
  <2>1. /\ moves'[m].pc = "audit" /\ moves'[m].run = moves[m].run
        /\ moves'[m].before = moves[m].before
        /\ \A n \in Moves \ {m} : moves'[n] = moves[n]
        /\ audits' = audits /\ lapses' = lapses
    BY <1>5 DEF MoveRereads, MoveRequest
  <2> QED
    BY <2>1
<1>6. CASE MoveAudits(m)
  <2>1. /\ MoveEvent(m) \in audits' /\ audits \subseteq audits' /\ lapses' = lapses
        /\ \A n \in Moves \ {m} : moves'[n] = moves[n]
    BY <1>6 DEF MoveAudits
  <2>2. /\ MoveEvent(m).action = "run.transition" /\ MoveEvent(m).run = moves[m].run
        /\ MoveEvent(m).before = moves[m].before
    BY DEF MoveEvent
  <2> QED
    BY <2>1, <2>2
<1>7. CASE MoveFails(m)
  <2>1. /\ audits' = audits /\ lapses \subseteq lapses'
        /\ \A n \in Moves \ {m} : moves'[n] = moves[n]
        /\ Unaudited(m) => <<moves[m].run, moves[m].before.version>> \in lapses'
    BY <1>7 DEF MoveFails
  <2> QED
    BY <2>1
<1> QED
  BY <1>2, <1>3, <1>4, <1>5, <1>6, <1>7 DEF MoveStep

\* A run stays accounted for when a transition takes a step: what the UPDATE
\* replaces is the row its request holds as "before".
LEMMA AccountMoveStep ==
  ASSUME TypeInv, RaceInv, AccountInv, NEW m \in Moves, MoveStep(m)
  PROVE  AccountInv'
<1>1. SUFFICES ASSUME NEW id \in DOMAIN runs
               PROVE  /\ id \notin DOMAIN SeedRuns => ImportAccounted(id)'
                      /\ \A v \in FirstVersion(id) .. runs'[id].version - 1 :
                            VersionAccounted(id, v)'
  BY MoveStepFrame DEF AccountInv, FirstVersion
<1>2. id \notin DOMAIN SeedRuns => ImportAccounted(id)'
  BY <1>1, MoveKeepsImports DEF AccountInv
<1>3. \A v \in FirstVersion(id) .. runs[id].version - 1 : VersionAccounted(id, v)'
  BY <1>1, MoveKeepsVersions DEF AccountInv
<1>4. CASE runs'[id] = runs[id]
  BY <1>2, <1>3, <1>4
<1>5. CASE runs'[id] # runs[id]
  <2>1. MoveUpdates(m)
    BY <1>5, MoveStepFrame
  <2>2. /\ id = moves[m].run
        /\ runs[id] = moves[m].before
        /\ runs'[id].version = runs[id].version + 1
    BY <1>5, <2>1, UpdateGoesOn
  <2>3. PICK old \in Nat : old = runs[id].version
    BY DEF TypeInv, TypeOK, Row
  <2>4. VersionAccounted(id, old)'
    <3>1. moves'[m].pc = "reread" /\ moves'[m].run = id /\ moves'[m].before.version = old
      BY <2>1, <2>2, <2>3 DEF MoveUpdates, TypeInv, TypeOK, MoveRequest
    <3> QED
      BY <3>1 DEF VersionAccounted, Unaudited
  <2>5. \A v \in FirstVersion(id) .. runs'[id].version - 1 :
           v = old \/ v \in FirstVersion(id) .. runs[id].version - 1
    BY <2>2, <2>3, FirstVersionPositive
  <2> QED
    BY <1>2, <1>3, <2>4, <2>5
<1> QED
  BY <1>4, <1>5

\* In every behaviour every import and every version is told of by an event, by
\* a request that is about to make one, or by the lapse of a request.
THEOREM AccountInvariant == Spec => []AccountInv
<1>1. Init => AccountInv
  BY SeedAssumption DEF Init, AccountInv, FirstVersion, Row
<1>2. ASSUME TypeInv, RaceInv, AccountInv, [Next]_vars
      PROVE  AccountInv'
  <2>1. CASE (\E p \in Plans : LockPlan(p)) \/ UNCHANGED vars
    <3>1. UNCHANGED <<runs, audits, imports, moves, lapses>>
      BY <2>1 DEF LockPlan, vars
    <3>2. \A id : (ImportAccounted(id) => ImportAccounted(id)')
      BY <3>1 DEF ImportAccounted
    <3>3. \A id, v : (VersionAccounted(id, v) => VersionAccounted(id, v)')
      BY <3>1 DEF VersionAccounted, Unaudited
    <3> QED
      BY <1>2, <3>1, <3>2, <3>3 DEF AccountInv, FirstVersion
  <2> QED
    BY <1>2, <2>1, AccountImportStep, AccountMoveStep DEF Next
<1> QED
  BY <1>1, <1>2, TypeInvariant, RaceInvariant, PTL DEF Spec

\* When no request is in flight, the events account for every run's import and
\* versions, save for the one event of each request that ended after its write.
THEOREM AuditTrailIsComplete == Spec => []AuditTrailComplete
<1>1. AccountInv => AuditTrailComplete
  <2> SUFFICES ASSUME AccountInv, Quiescent, NEW id \in DOMAIN runs
               PROVE  Audited(id)
    BY DEF AuditTrailComplete
  <2>1. \A i \in Imports : imports[i].pc # "audit"
    BY DEF Quiescent
  <2>2. \A m \in Moves : ~Unaudited(m)
    BY DEF Quiescent, Unaudited
  <2>3. ImportAccounted(id) => \/ <<id, 0>> \in lapses
                              \/ \E event \in audits : event.action = "run.import" /\ event.run = id
    BY <2>1 DEF ImportAccounted
  <2>4. \A v : VersionAccounted(id, v) => \/ <<id, v>> \in lapses
                                          \/ \E event \in audits :
                                                /\ event.action = "run.transition" /\ event.run = id
                                                /\ event.before.version = v
    BY <2>2 DEF VersionAccounted
  <2> QED
    BY <2>3, <2>4 DEF AccountInv, Audited
<1> QED
  BY <1>1, AccountInvariant, PTL

-----------------------------------------------------------------------------
(***************************************************************************)
(* No version is told of twice.                                            *)
(***************************************************************************)
\* "event" tells of a transition that replaced version v of run id.
TellsOf(event, id, v) ==
    event.action = "run.transition" /\ event.run = id /\ event.before.version = v

\* Events tell of versions that have been replaced; a version that a request is
\* about to tell of is told of by no event and by no other request.
ClaimInv ==
    /\ \A event \in audits :
          event.action = "run.transition"
          => /\ event.run \in DOMAIN runs /\ event.before \in Row
             /\ event.before.version < runs[event.run].version
    /\ \A m \in Moves :
          Unaudited(m)
          => /\ \A n \in Moves \ {m} :
                   Unaudited(n) /\ moves[n].run = moves[m].run
                   => moves[n].before.version # moves[m].before.version
             /\ \A event \in audits :
                   ~TellsOf(event, moves[m].run, moves[m].before.version)

\* An import makes no claim on a version.
LEMMA ClaimImportStep ==
  ASSUME TypeInv, ClaimInv, NEW i \in Imports, ImportStep(i)
  PROVE  ClaimInv'
<1>1. /\ moves' = moves /\ DOMAIN runs \subseteq DOMAIN runs'
      /\ \A id \in DOMAIN runs : runs'[id] = runs[id]
  BY ImportStepFrame
<1>2. \A event \in audits' : event.action = "run.transition" => event \in audits
  <2>1. CASE ImportAudits(i)
    BY <2>1 DEF ImportAudits, ImportEvent
  <2>2. CASE ~ImportAudits(i)
    BY <2>2 DEF ImportStep, ImportReadsPlan, ImportRefused, ImportFindsExisting,
         ImportFindsNone, ImportInserts, ImportDuplicates, ImportAnswers, ImportFails, vars
  <2> QED
    BY <2>1, <2>2
<1> QED
  BY <1>1, <1>2 DEF ClaimInv, Unaudited, TellsOf

\* The UPDATE claims the version it replaces, which is newer than every version
\* claimed or told of before.
LEMMA ClaimUpdates ==
  ASSUME TypeInv, RaceInv, ClaimInv, NEW m \in Moves, MoveUpdates(m)
  PROVE  ClaimInv'
<1>1. PICK id \in DOMAIN runs :
        /\ id = moves[m].run
        /\ runs[id] = moves[m].before
        /\ runs'[id].version = runs[id].version + 1
        /\ \A other \in DOMAIN runs \ {id} : runs'[other] = runs[other]
  BY UpdateGoesOn
<1>2. /\ DOMAIN runs' = DOMAIN runs /\ audits' = audits
      /\ moves'[m].pc = "reread" /\ moves'[m].run = id
      /\ moves'[m].before = runs[id]
      /\ \A n \in Moves \ {m} : moves'[n] = moves[n]
  <2>1. DOMAIN runs' = DOMAIN runs /\ audits' = audits
    BY DEF MoveUpdates
  <2>2. moves[m] \in MoveRequest
    BY DEF TypeInv, TypeOK
  <2>3. moves' = [moves EXCEPT ![m] =
           [moves[m] EXCEPT !.pc = "reread", !.target = Nothing, !.expected = Nothing]]
    BY DEF MoveUpdates
  <2> QED
    BY <1>1, <2>1, <2>2, <2>3 DEF TypeInv, TypeOK, MoveRequest
<1>3. runs[id].version \in Nat
  BY DEF TypeInv, TypeOK, Row
<1>4. \A event \in audits : event.action = "run.transition"
         => event.before.version \in Nat
  BY DEF ClaimInv, Row
<1>5. \A n \in Moves : Unaudited(n) => /\ moves[n].run \in DOMAIN runs
                                       /\ moves[n].before.version \in Nat
                                       /\ runs[moves[n].run].version > moves[n].before.version
  BY DEF TypeInv, RequestsOK, RaceInv, Unaudited, Row
<1>6. ASSUME NEW event \in audits, event.action = "run.transition"
      PROVE  /\ event.run \in DOMAIN runs /\ event.before \in Row
             /\ event.before.version < runs'[event.run].version
             /\ ~TellsOf(event, id, runs[id].version)
  <2>1. event.before.version < runs[event.run].version
    BY <1>6 DEF ClaimInv
  <2>2. CASE event.run = id
    BY <1>1, <1>3, <1>4, <1>6, <2>1, <2>2 DEF ClaimInv, TellsOf
  <2>3. CASE event.run # id
    BY <1>1, <1>6, <2>1, <2>3 DEF ClaimInv, TellsOf
  <2> QED
    BY <2>2, <2>3
<1>7. \A n \in Moves \ {m} : Unaudited(n) /\ moves[n].run = id
         => moves[n].before.version # runs[id].version
  BY <1>3, <1>5
<1> QED
  BY <1>2, <1>6, <1>7 DEF ClaimInv, Unaudited, TellsOf

\* The event takes over the claim of its request.
LEMMA ClaimAudits ==
  ASSUME TypeInv, RaceInv, ClaimInv, NEW m \in Moves, MoveAudits(m)
  PROVE  ClaimInv'
<1>1. /\ runs' = runs /\ audits' = audits \cup {MoveEvent(m)}
      /\ moves'[m].pc = "idle"
      /\ \A n \in Moves \ {m} : moves'[n] = moves[n]
  BY DEF MoveAudits, NoMove, TypeInv, TypeOK
<1>2. /\ Unaudited(m) /\ moves[m].run \in DOMAIN runs /\ moves[m].before \in Row
      /\ moves[m].before.version \in Nat /\ runs[moves[m].run].version \in Nat
      /\ runs[moves[m].run].version > moves[m].before.version
  BY DEF MoveAudits, TypeInv, TypeOK, RequestsOK, RaceInv, Unaudited, Row
<1>3. MoveEvent(m).run = moves[m].run /\ MoveEvent(m).before = moves[m].before
  BY DEF MoveEvent
<1>4. \A event \in audits' : event.action = "run.transition"
         => /\ event.run \in DOMAIN runs /\ event.before \in Row
            /\ event.before.version < runs[event.run].version
  BY <1>1, <1>2, <1>3 DEF ClaimInv
<1>5. ASSUME NEW n \in Moves \ {m}, Unaudited(n)
      PROVE  \A event \in audits' : ~TellsOf(event, moves[n].run, moves[n].before.version)
  <2>1. ~TellsOf(MoveEvent(m), moves[n].run, moves[n].before.version)
    BY <1>2, <1>3, <1>5 DEF ClaimInv, TellsOf
  <2> QED
    BY <1>1, <1>5, <2>1 DEF ClaimInv
<1> QED
  BY <1>1, <1>4, <1>5 DEF ClaimInv, Unaudited, TellsOf

\* Every other statement of a transition keeps or drops claims.
LEMMA ClaimOther ==
  ASSUME TypeInv, ClaimInv, NEW m \in Moves, runs' = runs, audits' = audits,
         Unaudited(m)' => /\ Unaudited(m)
                          /\ moves'[m].run = moves[m].run
                          /\ moves'[m].before = moves[m].before,
         \A n \in Moves \ {m} : moves'[n] = moves[n]
  PROVE  ClaimInv'
<1>1. \A n \in Moves : Unaudited(n)' => /\ Unaudited(n)
                                        /\ moves'[n].run = moves[n].run
                                        /\ moves'[n].before = moves[n].before
  BY DEF Unaudited
<1> QED
  BY <1>1 DEF ClaimInv, TellsOf

\* Claims stay distinct when a transition takes a step.
LEMMA ClaimMoveStep ==
  ASSUME TypeInv, RaceInv, ClaimInv, NEW m \in Moves, MoveStep(m)
  PROVE  ClaimInv'
<1>1. ASSUME NEW run \in RunIds, NEW target \in RunStates,
             NEW expected \in ExpectedVersions, NEW reasoned \in BOOLEAN,
             MoveReads(m, run, target, expected, reasoned)
      PROVE  ClaimInv'
  <2>1. ~Unaudited(m)'
    BY <1>1 DEF MoveReads, Unaudited, TypeInv, TypeOK
  <2> QED
    BY <1>1, <2>1, ClaimOther DEF MoveReads, TypeInv, TypeOK
<1>2. ASSUME NEW run \in RunIds, NEW target \in RunStates, NEW reasoned \in BOOLEAN,
             MoveRefused(m, run, target, reasoned)
      PROVE  ClaimInv'
  BY <1>2, ClaimOther DEF MoveRefused, vars, Unaudited
<1>3. CASE MoveConflicts(m) \/ MoveFails(m)
  <2>1. ~Unaudited(m)'
    BY <1>3 DEF MoveConflicts, MoveFails, NoMove, Unaudited, TypeInv, TypeOK
  <2> QED
    BY <1>3, <2>1, ClaimOther DEF MoveConflicts, MoveFails, TypeInv, TypeOK
<1>4. CASE MoveRereads(m)
  <2>1. Unaudited(m) /\ moves'[m].run = moves[m].run /\ moves'[m].before = moves[m].before
    BY <1>4 DEF MoveRereads, Unaudited, TypeInv, TypeOK, MoveRequest
  <2> QED
    BY <1>4, <2>1, ClaimOther DEF MoveRereads, TypeInv, TypeOK
<1> QED
  BY <1>1, <1>2, <1>3, <1>4, ClaimUpdates, ClaimAudits DEF MoveStep

\* In every behaviour the claims on replaced versions are distinct.
THEOREM ClaimInvariant == Spec => []ClaimInv
<1>1. Init => ClaimInv
  <2>1. Init => audits = {} /\ \A m \in Moves : moves[m].pc = "idle"
    BY DEF Init, NoMove
  <2> QED
    BY <2>1 DEF ClaimInv, Unaudited
<1>2. ASSUME TypeInv, RaceInv, ClaimInv, [Next]_vars
      PROVE  ClaimInv'
  <2>1. CASE (\E p \in Plans : LockPlan(p)) \/ UNCHANGED vars
    BY <1>2, <2>1 DEF LockPlan, vars, ClaimInv, Unaudited, TellsOf
  <2> QED
    BY <1>2, <2>1, ClaimImportStep, ClaimMoveStep DEF Next
<1> QED
  BY <1>1, <1>2, TypeInvariant, RaceInvariant, PTL DEF Spec

\* No transition event repeats a version that an earlier event told of.
THEOREM EventsAreNotRepeated == Spec => VersionReplacedOnce
<1>1. ClaimInv /\ [Next]_vars
      => [\A m \in Moves :
             MoveAudits(m)
             => \A event \in audits :
                   event.action = "run.transition" /\ event.run = moves[m].run
                   => event.before.version # moves[m].before.version]_vars
  BY DEF ClaimInv, MoveAudits, Unaudited, TellsOf
<1> QED
  BY <1>1, ClaimInvariant, PTL DEF Spec, VersionReplacedOnce

=============================================================================
