---------------------------- MODULE RunsDeskProofs ----------------------------
(***************************************************************************)
(* Theorems about RunsDesk, for any number of runs, of requests under way, *)
(* of rows on a page and of moves by other desks.                          *)
(***************************************************************************)
EXTENDS RunsDesk, TLAPS

-----------------------------------------------------------------------------
(***************************************************************************)
(* What the desk knows of a run, in its store or in an answer on its way,  *)
(* is the row of the table, or the table has gone on to a higher version.  *)
(***************************************************************************)
KnownRow(row) ==
    /\ row \in Row /\ row.id \in DOMAIN runs
    /\ row = RowOf(row.id) \/ runs[row.id].version > row.version

\* A list of such rows, with no run on it twice.
KnownList(rows) ==
    /\ rows \in Seq(Row)
    /\ \A n \in DOMAIN rows : KnownRow(rows[n])
    /\ \A n, m \in DOMAIN rows : n # m => rows[n].id # rows[m].id

Requests ==
    [kind : {"none", "list", "quality", "import", "transition"},
     at : {"idle", "sent", "written", "answered"},
     run : RunIds \cup {Nothing}, shown : Row \cup {Nothing},
     expected : Nat \cup {Nothing}, target : RunStates \cup {Nothing},
     answer : Row \cup Seq(Row) \cup {Nothing}]

\* What a request refers to, and what its answer can be.
RequestOK(s) ==
    /\ requests[s].kind = "none" => requests[s] = Idle
    /\ requests[s].kind # "none" => requests[s].at # "idle"
    /\ requests[s].kind = "list" =>
          /\ requests[s].at \in {"sent", "answered"}
          /\ requests[s].at = "answered" => KnownList(requests[s].answer)
    /\ requests[s].kind = "quality" => requests[s].at = "sent" /\ requests[s].run \in RunIds
    /\ requests[s].kind \in {"import", "transition"} =>
          /\ requests[s].run \in RunIds
          /\ requests[s].at = "written" => requests[s].run \in DOMAIN runs
          /\ requests[s].at = "answered" => /\ KnownRow(requests[s].answer)
                                            /\ requests[s].answer.id = requests[s].run
    /\ requests[s].kind = "transition" /\ requests[s].at = "sent" =>
          /\ KnownRow(requests[s].shown) /\ requests[s].shown.id = requests[s].run
          /\ requests[s].expected = requests[s].shown.version
          /\ requests[s].expected < MaxVersion
          /\ requests[s].target \in RunStates

TableOK ==
    /\ runs \in [DOMAIN runs -> [run_state : RunStates, version : 1 .. MaxVersion]]
    /\ DOMAIN runs \subseteq RunIds

StoreOK ==
    /\ KnownList(items)
    /\ selected # Nothing => KnownRow(selected)
    /\ quality \in RunIds \cup {Nothing} /\ loading \in BOOLEAN

DeskInv ==
    /\ TableOK
    /\ StoreOK
    /\ requests \in [Slots -> Requests]
    /\ \A s \in Slots : RequestOK(s)

\* Rows are only added, and only go on to the next version.
TableGoesOn ==
    /\ DOMAIN runs \subseteq DOMAIN runs'
    /\ \A id \in DOMAIN runs : runs'[id] = runs[id] \/ runs'[id].version = runs[id].version + 1

LEMMA DeskStarts == Init => DeskInv
<1> SUFFICES ASSUME Init PROVE DeskInv
  OBVIOUS
<1>1. TableOK
  BY DeskAssumption DEF Init, TableOK, RunStates
<1>2. StoreOK
  <2>1. items \in Seq(Row) /\ DOMAIN items = {}
    BY DEF Init
  <2>2. KnownList(items)
    BY <2>1 DEF KnownList
  <2> QED
    BY <2>2 DEF Init, StoreOK
<1>3. \A s \in Slots : requests[s] = Idle
  BY DEF Init
<1>4. Idle \in Requests /\ Idle.kind = "none"
  BY DEF Idle, Request, Requests
<1> QED
  BY <1>1, <1>2, <1>3, <1>4 DEF Init, DeskInv, RequestOK

\* What is known stays known while the table goes on.
LEMMA KnownStays ==
  ASSUME TableOK, TableGoesOn, NEW row, KnownRow(row)
  PROVE  KnownRow(row)'
<1>1. row.version \in Nat /\ runs[row.id].version \in Nat
  BY DeskAssumption DEF KnownRow, Row, TableOK
<1>2. CASE runs'[row.id] = runs[row.id]
  BY <1>2 DEF KnownRow, RowOf, TableGoesOn
<1>3. CASE runs'[row.id].version = runs[row.id].version + 1
  BY <1>1, <1>3 DEF KnownRow, RowOf, TableGoesOn
<1> QED
  BY <1>2, <1>3 DEF TableGoesOn, KnownRow

LEMMA ListStays ==
  ASSUME TableOK, TableGoesOn, NEW rows, KnownList(rows)
  PROVE  KnownList(rows)'
BY KnownStays DEF KnownList

\* The row of the table is known.
LEMMA RowIsKnown ==
  ASSUME TableOK, NEW id \in DOMAIN runs
  PROVE  KnownRow(RowOf(id)) /\ RowOf(id).id = id
BY DEF TableOK, KnownRow, RowOf, Row

\* A request that nothing happens to stays as it should be.
LEMMA RequestStays ==
  ASSUME DeskInv, TableGoesOn, NEW s \in Slots, requests'[s] = requests[s]
  PROVE  RequestOK(s)'
<1>1. RequestOK(s) /\ TableOK
  BY DEF DeskInv
<1>2. \A row : KnownRow(row) => KnownRow(row)'
  BY <1>1, KnownStays
<1>3. \A rows : KnownList(rows) => KnownList(rows)'
  BY <1>1, ListStays
<1>4. Idle' = Idle
  BY DEF Idle, Request
<1> QED
  BY <1>1, <1>2, <1>3, <1>4 DEF RequestOK, TableGoesOn

\* A step of the request in slot s, and of it alone.
LEMMA OneRequestMoves ==
  ASSUME DeskInv, TableOK', TableGoesOn, NEW s \in Slots, NEW request \in Requests,
         requests' = [requests EXCEPT ![s] = request], RequestOK(s)', StoreOK'
  PROVE  DeskInv'
<1>1. requests' \in [Slots -> Requests] /\ \A other \in Slots \ {s} : requests'[other] = requests[other]
  BY DEF DeskInv
<1>2. \A other \in Slots \ {s} : RequestOK(other)'
  BY <1>1, RequestStays
<1> QED
  BY <1>1, <1>2 DEF DeskInv

\* The store stays as it should be when nothing happens to it.
LEMMA StoreStays ==
  ASSUME DeskInv, TableGoesOn, UNCHANGED <<items, selected, quality>>, loading' \in BOOLEAN
  PROVE  StoreOK'
<1>1. KnownList(items)'
  BY ListStays DEF DeskInv, StoreOK, KnownList, KnownRow
<1>2. selected' # Nothing => KnownRow(selected)'
  BY KnownStays DEF DeskInv, StoreOK, KnownRow
<1> QED
  BY <1>1, <1>2 DEF DeskInv, StoreOK

-----------------------------------------------------------------------------
(***************************************************************************)
(* The steps.                                                              *)
(***************************************************************************)
\* A request that is sent, with nothing in it that could go stale.
LEMMA SentRequests ==
  ASSUME NEW kind \in {"list", "quality", "import"}, NEW run \in RunIds \cup {Nothing}
  PROVE  Request(kind, run, Nothing, Nothing, Nothing) \in Requests
BY DEF Request, Requests

LEMMA IdleIsRequest == Idle \in Requests /\ Idle.kind = "none" /\ Idle.at = "idle"
BY DEF Idle, Request, Requests

LEMMA TableWaits ==
  ASSUME DeskInv, UNCHANGED runs
  PROVE  TableOK' /\ TableGoesOn
BY DEF DeskInv, TableOK, TableGoesOn

LEMMA ClicksKeep ==
  ASSUME DeskInv, NEW s \in Slots, Clicks(s)
  PROVE  DeskInv'
<1>1. UNCHANGED runs
  BY DEF Clicks, Fetch, Select, Import, Transition
<1>2. TableOK' /\ TableGoesOn
  BY <1>1, TableWaits
<1>3. CASE Fetch(s)
  <2> DEFINE request == Request("list", Nothing, Nothing, Nothing, Nothing)
  <2>1. requests' = [requests EXCEPT ![s] = request] /\ request \in Requests
    BY <1>3, SentRequests DEF Fetch, Send
  <2>2. StoreOK'
    BY <1>2, <1>3, StoreStays DEF Fetch
  <2>3. requests'[s] = request
    BY <2>1 DEF DeskInv
  <2>4. RequestOK(s)'
    BY <2>3 DEF RequestOK, Request
  <2> QED
    BY <1>2, <2>1, <2>2, <2>4, OneRequestMoves
<1>4. ASSUME NEW item \in ToSet(items), Select(s, item)
      PROVE  DeskInv'
  <2> DEFINE request == QualityOf(item.id)
  <2>1. KnownRow(item)
    BY <1>4 DEF ToSet, DeskInv, StoreOK, KnownList
  <2>2. requests' = [requests EXCEPT ![s] = request] /\ request \in Requests
    BY <1>4, <2>1, SentRequests DEF Select, Send, QualityOf, KnownRow, Row
  <2>3. StoreOK'
    <3>1. KnownList(items)'
      BY <1>2, <1>4, ListStays DEF Select, DeskInv, StoreOK, KnownList, KnownRow
    <3>2. KnownRow(item)'
      BY <1>2, <2>1, KnownStays DEF DeskInv
    <3> QED
      BY <1>4, <3>1, <3>2 DEF Select, Unread, StoreOK, DeskInv
  <2>4. requests'[s] = request
    BY <2>2 DEF DeskInv
  <2>5. RequestOK(s)'
    BY <2>1, <2>4 DEF RequestOK, Request, QualityOf, KnownRow, Row
  <2> QED
    BY <1>2, <2>2, <2>3, <2>5, OneRequestMoves
<1>5. ASSUME NEW id \in RunIds, Import(s, id)
      PROVE  DeskInv'
  <2> DEFINE request == Request("import", id, Nothing, Nothing, Nothing)
  <2>1. requests' = [requests EXCEPT ![s] = request] /\ request \in Requests
    BY <1>5, SentRequests DEF Import, Send
  <2>2. StoreOK'
    BY <1>2, <1>5, StoreStays DEF Import, storeVars, DeskInv, StoreOK
  <2>3. requests'[s] = request
    BY <2>1 DEF DeskInv
  <2>4. RequestOK(s)'
    BY <2>3 DEF RequestOK, Request
  <2> QED
    BY <1>2, <2>1, <2>2, <2>4, OneRequestMoves
<1>6. ASSUME NEW target \in Targets, Transition(s, target)
      PROVE  DeskInv'
  <2> DEFINE request == Request("transition", selected.id, selected, selected.version, target)
  <2>1. KnownRow(selected) /\ selected.version < MaxVersion
    BY <1>6 DEF Transition, DeskInv, StoreOK
  <2>2. selected \in Row /\ selected.id \in RunIds /\ selected.version \in Nat
    BY <2>1, DeskAssumption DEF KnownRow, Row
  <2>3. target \in RunStates
    BY <1>6, DeskAssumption
  <2>4. request \in Requests
    BY <2>2, <2>3 DEF Request, Requests
  <2>5. requests' = [requests EXCEPT ![s] = request]
    BY <1>6 DEF Transition, Send, Quoted
  <2>6. StoreOK'
    BY <1>2, <1>6, StoreStays DEF Transition, storeVars, DeskInv, StoreOK
  <2>7. requests'[s] = request
    BY <2>5 DEF DeskInv
  <2>8. KnownRow(selected)'
    <3>1. \A row : KnownRow(row) => KnownRow(row)'
      BY <1>2, KnownStays DEF DeskInv
    <3> QED
      BY <1>6, <2>1, <3>1 DEF Transition, storeVars
  <2>9. RequestOK(s)'
    <3>1. KnownRow(requests[s].shown)' /\ requests'[s].shown = selected
      <4>1. requests'[s].shown = selected
        BY <2>7 DEF Request
      <4> QED
        BY <1>6, <2>8, <4>1 DEF Transition, storeVars
    <3> QED
      BY <2>1, <2>2, <2>3, <2>7, <3>1 DEF RequestOK, Request
  <2> QED
    BY <1>2, <2>4, <2>5, <2>6, <2>9, OneRequestMoves
<1> QED
  BY <1>3, <1>4, <1>5, <1>6 DEF Clicks

\* The server: what it inserts and moves, and what it answers.
LEMMA InsertGoesOn ==
  ASSUME TableOK, NEW id \in RunIds \ DOMAIN runs, runs' = Inserted(id)
  PROVE  TableOK' /\ TableGoesOn /\ id \in DOMAIN runs'
<1>1. [run_state |-> "imported", version |-> 1] \in [run_state : RunStates, version : 1 .. MaxVersion]
  BY DeskAssumption DEF RunStates
<1> QED
  BY <1>1 DEF TableOK, TableGoesOn, Inserted

LEMMA MoveGoesOn ==
  ASSUME TableOK, NEW id \in DOMAIN runs, runs[id].version < MaxVersion,
         NEW target \in RunStates, runs' = Moved(id, target)
  PROVE  TableOK' /\ TableGoesOn
<1>1. [run_state |-> target, version |-> runs[id].version + 1]
          \in [run_state : RunStates, version : 1 .. MaxVersion]
  BY DeskAssumption DEF TableOK
<1> QED
  BY <1>1 DEF TableOK, TableGoesOn, Moved

\* An answer to an import or a transition is the row of the table.
LEMMA AnswersKeep ==
  ASSUME DeskInv, NEW s \in Slots, requests[s].kind \in {"import", "transition"},
         requests[s].run \in DOMAIN runs, Advance(s, "answered", RowOf(requests[s].run)),
         UNCHANGED <<runs, storeVars>>
  PROVE  DeskInv'
<1> DEFINE row == RowOf(requests[s].run)
           request == [requests[s] EXCEPT !.at = "answered", !.answer = row]
<1>1. TableOK' /\ TableGoesOn
  BY TableWaits
<1>2. KnownRow(row) /\ row.id = requests[s].run
  BY RowIsKnown DEF DeskInv
<1>3. request \in Requests /\ requests' = [requests EXCEPT ![s] = request]
  BY <1>2 DEF Advance, DeskInv, Requests, KnownRow
<1>4. StoreOK'
  BY <1>1, StoreStays DEF storeVars, DeskInv, StoreOK
<1>5. /\ requests'[s].kind = requests[s].kind /\ requests'[s].run = requests[s].run
      /\ requests'[s].at = "answered" /\ requests'[s].answer = row
  BY <1>3 DEF DeskInv, Requests
<1>6. KnownRow(requests[s].answer)'
  BY <1>2, <1>5 DEF KnownRow, RowOf
<1>7. RequestOK(s)'
  BY <1>2, <1>5, <1>6 DEF RequestOK, DeskInv, TableOK
<1> QED
  BY <1>1, <1>3, <1>4, <1>7, OneRequestMoves

\* A page of the table lists known rows, none of them twice.
LEMMA PageIsKnown ==
  ASSUME TableOK, NEW page \in BoundedSeq(DOMAIN runs, PageSize), Listed(page)
  PROVE  KnownList([n \in DOMAIN page |-> RowOf(page[n])])
<1> DEFINE rows == [n \in DOMAIN page |-> RowOf(page[n])]
<1>1. PICK size \in 0 .. PageSize : page \in [1 .. size -> DOMAIN runs]
  BY DEF BoundedSeq, SeqOf
<1>2. \A n \in DOMAIN page : page[n] \in DOMAIN runs
  BY <1>1
<1>3. \A n \in DOMAIN rows : KnownRow(rows[n]) /\ rows[n].id = page[n]
  BY <1>2, RowIsKnown
<1>4. rows \in Seq(Row)
  <2>1. rows \in [1 .. size -> Row]
    BY <1>1, <1>3 DEF KnownRow
  <2> QED
    BY <2>1, <1>1, DeskAssumption
<1>5. ASSUME NEW n \in DOMAIN rows, NEW m \in DOMAIN rows, n # m
      PROVE  page[n] # page[m]
  <2>1. n \in Int /\ m \in Int /\ DOMAIN rows = DOMAIN page /\ DOMAIN page = 1 .. size
    BY <1>1, DeskAssumption
  <2>2. Rank[page[n]] \in Nat
    BY <1>2, DeskAssumption DEF TableOK
  <2>3. CASE n < m
    BY <2>1, <2>2, <2>3 DEF Listed
  <2>4. CASE m < n
    BY <2>1, <2>2, <2>4 DEF Listed
  <2> QED
    BY <1>5, <2>1, <2>3, <2>4
<1> QED
  BY <1>3, <1>4, <1>5 DEF KnownList

LEMMA ServesKeep ==
  ASSUME DeskInv, NEW s \in Slots, Serves(s)
  PROVE  DeskInv'
<1>1. TableOK /\ RequestOK(s) /\ requests[s] \in Requests
  BY DEF DeskInv
<1>2. CASE ServesList(s)
  <2>1. PICK page \in BoundedSeq(DOMAIN runs, PageSize) :
           /\ Listed(page)
           /\ Advance(s, "answered", [n \in DOMAIN page |-> RowOf(page[n])])
    BY <1>2 DEF ServesList
  <2> DEFINE rows == [n \in DOMAIN page |-> RowOf(page[n])]
             request == [requests[s] EXCEPT !.at = "answered", !.answer = rows]
  <2>2. KnownList(rows)
    BY <1>1, <2>1, PageIsKnown
  <2> HIDE DEF rows
  <2>3. UNCHANGED <<runs, storeVars>> /\ requests[s].kind = "list"
    BY <1>2 DEF ServesList
  <2>4. TableOK' /\ TableGoesOn
    BY <2>3, TableWaits
  <2>5. StoreOK'
    BY <2>3, <2>4, StoreStays DEF storeVars, DeskInv, StoreOK
  <2>6. request \in Requests
    BY <1>1, <2>2 DEF KnownList, Requests
  <2>7. requests' = [requests EXCEPT ![s] = request]
    BY <2>1 DEF Advance, rows, DeskInv
  <2>8. requests'[s].kind = "list" /\ requests'[s].at = "answered" /\ requests'[s].answer = rows
    BY <1>1, <2>3, <2>7 DEF DeskInv, Requests
  <2>9. \A known : KnownList(known) => KnownList(known)'
    BY <1>1, <2>4, ListStays
  <2>10. KnownList(requests[s].answer)'
    BY <2>2, <2>8, <2>9
  <2>11. RequestOK(s)'
    BY <2>8, <2>10 DEF RequestOK
  <2> QED
    BY <2>4, <2>5, <2>6, <2>7, <2>11, OneRequestMoves
<1>3. CASE ServesImport(s)
  <2> DEFINE id == requests[s].run
  <2>1. requests[s].kind = "import" /\ id \in RunIds /\ UNCHANGED storeVars
    BY <1>1, <1>3 DEF ServesImport, RequestOK
  <2>2. CASE id \in DOMAIN runs
    BY <1>3, <2>1, <2>2, AnswersKeep DEF ServesImport
  <2>3. CASE id \notin DOMAIN runs
    <3> DEFINE request == [requests[s] EXCEPT !.at = "written", !.answer = Nothing]
    <3>1. runs' = Inserted(id) /\ requests' = [requests EXCEPT ![s] = request]
      BY <1>3, <2>3 DEF ServesImport, Advance, DeskInv
    <3>2. TableOK' /\ TableGoesOn /\ id \in DOMAIN runs'
      BY <1>1, <2>1, <2>3, <3>1, InsertGoesOn
    <3>3. request \in Requests
      BY <1>1 DEF Requests
    <3>4. StoreOK'
      BY <2>1, <3>2, StoreStays DEF storeVars, DeskInv, StoreOK
    <3>5. requests'[s].kind = "import" /\ requests'[s].at = "written" /\ requests'[s].run = id
      BY <1>1, <2>1, <3>1 DEF DeskInv, Requests
    <3>6. RequestOK(s)'
      BY <2>1, <3>2, <3>5 DEF RequestOK
    <3> QED
      BY <3>1, <3>2, <3>3, <3>4, <3>6, OneRequestMoves
  <2> QED
    BY <2>2, <2>3
<1>4. CASE ServesTransition(s)
  <2> DEFINE id == requests[s].run
             request == [Request("transition", id, Nothing, Nothing, Nothing)
                            EXCEPT !.at = "written"]
  <2>1. /\ requests[s].kind = "transition" /\ requests[s].at = "sent" /\ UNCHANGED storeVars
        /\ runs[id].version = requests[s].expected /\ runs' = Moved(id, requests[s].target)
        /\ requests' = [requests EXCEPT ![s] = request]
    BY <1>4 DEF ServesTransition, Request, DeskInv
  <2>2. id \in DOMAIN runs /\ runs[id].version < MaxVersion /\ requests[s].target \in RunStates
    BY <1>1, <2>1 DEF RequestOK, KnownRow
  <2>3. TableOK' /\ TableGoesOn
    BY <1>1, <2>1, <2>2, MoveGoesOn
  <2>4. request \in Requests /\ request.kind = "transition" /\ request.at = "written" /\ request.run = id
    BY <1>1, <2>2 DEF Request, Requests, TableOK
  <2>5. StoreOK'
    BY <2>1, <2>3, StoreStays DEF storeVars, DeskInv, StoreOK
  <2>6. requests'[s] = request /\ id \in DOMAIN runs'
    BY <2>1, <2>2, <2>3 DEF DeskInv, TableGoesOn
  <2>7. RequestOK(s)'
    BY <2>4, <2>6, <2>3 DEF RequestOK, TableOK
  <2> QED
    BY <2>1, <2>3, <2>4, <2>5, <2>7, OneRequestMoves
<1>5. CASE Rereads(s)
  <2>1. requests[s].at = "written" /\ Advance(s, "answered", RowOf(requests[s].run))
        /\ UNCHANGED <<runs, storeVars>>
    BY <1>5 DEF Rereads
  <2>2. requests[s].kind \in {"import", "transition"} /\ requests[s].run \in DOMAIN runs
    BY <1>1, <2>1, IdleIsRequest DEF RequestOK, Requests
  <2> QED
    BY <2>1, <2>2, AnswersKeep
<1> QED
  BY <1>2, <1>3, <1>4, <1>5 DEF Serves

\* The store, when an answer arrives.
LEMMA EndedKeeps ==
  ASSUME DeskInv, NEW s \in Slots, Ended(s), TableOK', TableGoesOn, StoreOK'
  PROVE  DeskInv'
<1>1. requests'[s] = Idle
  BY DEF Ended, DeskInv
<1>2. RequestOK(s)'
  BY <1>1, IdleIsRequest DEF RequestOK, Idle, Request
<1> QED
  BY <1>2, IdleIsRequest, OneRequestMoves DEF Ended

LEMMA ImportedIsListed ==
  ASSUME KnownList(items), NEW row, KnownRow(row)
  PROVE  KnownList(WithImported(row))
<1>1. CASE \E n \in DOMAIN items : items[n].id = row.id
  BY <1>1 DEF WithImported
<1>2. CASE ~ \E n \in DOMAIN items : items[n].id = row.id
  <2> DEFINE rows == <<row>> \o items
  <2>1. items \in Seq(Row) /\ row \in Row
    BY DEF KnownList, KnownRow
  <2>2. /\ rows \in Seq(Row) /\ DOMAIN rows = 1 .. Len(items) + 1 /\ DOMAIN items = 1 .. Len(items)
        /\ rows[1] = row /\ Len(items) \in Nat
        /\ \A n \in DOMAIN rows : n # 1 => rows[n] = items[n - 1] /\ n - 1 \in DOMAIN items
    BY <2>1
  <2> HIDE DEF rows
  <2>3. \A n \in DOMAIN rows : KnownRow(rows[n])
    BY <2>2 DEF KnownList
  <2>4. \A n, m \in DOMAIN rows : n # m => rows[n].id # rows[m].id
    <3> SUFFICES ASSUME NEW n \in DOMAIN rows, NEW m \in DOMAIN rows, n # m
                 PROVE  rows[n].id # rows[m].id
      OBVIOUS
    <3>1. CASE n = 1 \/ m = 1
      BY <1>2, <2>2, <3>1
    <3>2. CASE n # 1 /\ m # 1
      <4>1. n - 1 # m - 1
        BY <2>2
      <4> QED
        BY <2>2, <3>2, <4>1 DEF KnownList
    <3> QED
      BY <3>1, <3>2
  <2>5. KnownList(rows)
    BY <2>2, <2>3, <2>4 DEF KnownList
  <2> QED
    BY <1>2, <2>5 DEF WithImported, rows
<1> QED
  BY <1>1, <1>2

LEMMA EndsKeep ==
  ASSUME DeskInv, NEW s \in Slots, Ends(s)
  PROVE  DeskInv'
<1>1. /\ TableOK /\ RequestOK(s) /\ requests[s] \in Requests
      /\ KnownList(items) /\ (selected # Nothing => KnownRow(selected))
      /\ quality \in RunIds \cup {Nothing} /\ loading \in BOOLEAN
  BY DEF DeskInv, StoreOK
<1>2. UNCHANGED runs
  BY DEF Ends, ListArrives, QualityArrives, ImportArrives, TransitionArrives, Fails
<1>3. TableOK' /\ TableGoesOn
  BY <1>2, TableWaits
<1>4. /\ \A row : KnownRow(row) => KnownRow(row)'
      /\ \A rows : KnownList(rows) => KnownList(rows)'
  BY <1>1, <1>3, KnownStays, ListStays
<1>5. CASE ListArrives(s)
  <2>1. KnownList(requests[s].answer) /\ items' = requests[s].answer
    BY <1>1, <1>5 DEF ListArrives, RequestOK
  <2>2. KnownList(items)'
    BY <1>4, <2>1
  <2>3. selected' # Nothing => KnownRow(selected)'
    <3>1. items' \in Seq(Row) /\ (items' # <<>> => 1 \in DOMAIN items')
      BY <2>1 DEF KnownList
    <3>2. CASE selected' = selected
      BY <1>1, <1>4, <3>2
    <3>3. CASE selected' = items'[1] /\ items' # <<>>
      BY <2>2, <3>1, <3>3 DEF KnownList
    <3> QED
      BY <1>5, <3>2, <3>3 DEF ListArrives
  <2>4. StoreOK'
    BY <1>1, <1>5, <2>2, <2>3 DEF ListArrives, StoreOK
  <2> QED
    BY <1>3, <1>5, <2>4, EndedKeeps DEF ListArrives
<1>6. CASE QualityArrives(s)
  <2>1. StoreOK'
    BY <1>1, <1>4, <1>6 DEF QualityArrives, RequestOK, StoreOK
  <2> QED
    BY <1>3, <1>6, <2>1, EndedKeeps DEF QualityArrives
<1>7. CASE ImportArrives(s)
  <2> DEFINE row == requests[s].answer
             request == QualityOf(requests[s].run)
  <2>1. KnownRow(row) /\ requests[s].run \in RunIds
    BY <1>1, <1>7 DEF ImportArrives, RequestOK
  <2>2. KnownList(WithImported(row))
    BY <1>1, <2>1, ImportedIsListed
  <2>3. /\ items' = WithImported(row) /\ selected' = row /\ quality' = Nothing
        /\ loading' = loading /\ requests' = [requests EXCEPT ![s] = request]
    BY <1>7 DEF ImportArrives, Unread
  <2>4. StoreOK'
    BY <1>1, <1>4, <2>1, <2>2, <2>3 DEF StoreOK
  <2>5. request \in Requests
    BY <2>1, SentRequests DEF QualityOf
  <2>6. requests'[s] = request
    BY <2>3 DEF DeskInv
  <2>7. RequestOK(s)'
    BY <2>1, <2>6 DEF RequestOK, Request, QualityOf
  <2> QED
    BY <1>3, <2>3, <2>4, <2>5, <2>7, OneRequestMoves
<1>8. CASE TransitionArrives(s)
  <2> DEFINE row == requests[s].answer
  <2>1. KnownRow(row) /\ row.id = requests[s].run
    BY <1>1, <1>8 DEF TransitionArrives, RequestOK
  <2>2. /\ items' = [n \in DOMAIN items |-> IF items[n].id = requests[s].run THEN row ELSE items[n]]
        /\ selected' = row
    BY <1>8 DEF TransitionArrives
  <2>3. KnownList(items')
    <3>1. items \in [1 .. Len(items) -> Row] /\ Len(items) \in Nat
      BY <1>1 DEF KnownList
    <3>2. items' \in [1 .. Len(items) -> Row]
      BY <2>1, <2>2, <3>1 DEF KnownRow
    <3>3. items' \in Seq(Row) /\ DOMAIN items' = DOMAIN items
      BY <3>1, <3>2
    <3>4. \A n \in DOMAIN items : KnownRow(items'[n]) /\ items'[n].id = items[n].id
      BY <1>1, <2>1, <2>2 DEF KnownList
    <3> QED
      BY <1>1, <3>3, <3>4 DEF KnownList
  <2>4. StoreOK'
    BY <1>1, <1>4, <1>8, <2>1, <2>2, <2>3 DEF TransitionArrives, StoreOK
  <2> QED
    BY <1>3, <1>8, <2>4, EndedKeeps DEF TransitionArrives
<1>9. CASE Fails(s)
  <2>1. StoreOK'
    BY <1>1, <1>4, <1>9 DEF Fails, LoadingAfterError, StoreOK
  <2> QED
    BY <1>3, <1>9, <2>1, EndedKeeps DEF Fails
<1> QED
  BY <1>5, <1>6, <1>7, <1>8, <1>9 DEF Ends

LEMMA OthersKeep ==
  ASSUME DeskInv, NEW id \in RunIds, OthersWrite(id)
  PROVE  DeskInv'
<1>1. TableOK' /\ TableGoesOn
  BY InsertGoesOn, MoveGoesOn, DeskAssumption DEF OthersWrite, DeskInv
<1>2. StoreOK'
  BY <1>1, StoreStays DEF OthersWrite, storeVars, DeskInv, StoreOK
<1>3. \A s \in Slots : RequestOK(s)'
  BY <1>1, RequestStays DEF OthersWrite
<1> QED
  BY <1>1, <1>2, <1>3 DEF OthersWrite, DeskInv

LEMMA DeskInvariant == Spec => []DeskInv
<1>1. DeskInv /\ [Next]_vars => DeskInv'
  <2> SUFFICES ASSUME DeskInv, [Next]_vars PROVE DeskInv'
    OBVIOUS
  <2>1. CASE \E s \in Slots : Clicks(s) \/ Serves(s) \/ Ends(s)
    BY <2>1, ClicksKeep, ServesKeep, EndsKeep
  <2>2. CASE \E id \in RunIds : OthersWrite(id)
    BY <2>2, OthersKeep
  <2>3. CASE UNCHANGED vars
    <3>1. UNCHANGED runs /\ UNCHANGED <<items, selected, quality, loading>> /\ UNCHANGED requests
      BY <2>3 DEF vars, storeVars
    <3>2. TableOK' /\ TableGoesOn
      BY <3>1, TableWaits
    <3>3. StoreOK'
      BY <3>1, <3>2, StoreStays DEF DeskInv, StoreOK
    <3>4. \A s \in Slots : RequestOK(s)'
      BY <3>1, <3>2, RequestStays
    <3> QED
      BY <3>1, <3>2, <3>3, <3>4 DEF DeskInv
  <2> QED
    BY <2>1, <2>2, <2>3 DEF Next
<1> QED
  BY <1>1, DeskStarts, PTL DEF Spec

(***************************************************************************)
(* Types of table, store and requests; and no run is on the list twice,    *)
(* although fetch and import, in either order, both put it there.          *)
(***************************************************************************)
THEOREM TypeCorrect == Spec => []TypeOK
<1>1. DeskInv => TypeOK
  <2> SUFFICES ASSUME DeskInv PROVE TypeOK
    OBVIOUS
  <2>1. ToSet(items) \subseteq Row
    BY DEF DeskInv, StoreOK, KnownList, KnownRow, ToSet
  <2>2. selected \in Row \cup {Nothing}
    BY DEF DeskInv, StoreOK, KnownRow
  <2> QED
    BY <2>1, <2>2 DEF DeskInv, TableOK, StoreOK, KnownList, TypeOK
<1> QED
  BY <1>1, DeskInvariant, PTL

(***************************************************************************)
(* The button's version is that of the row it was shown with, and a row    *)
(* that was shown and has the version of the table's is the table's: the   *)
(* transition that is carried out is one of the row that was on the        *)
(* screen (transition of sonar-run-store.ts, the buttons of RunsPage.tsx). *)
(***************************************************************************)
THEOREM DecisionsAreOnWhatWasShown == Spec => DecisionIsOnWhatWasShown
<1>1. ASSUME DeskInv, NEW s \in Slots, ServesTransition(s)
      PROVE  RowOf(requests[s].run) = requests[s].shown
  <2>1. RequestOK(s) /\ TableOK
    BY <1>1 DEF DeskInv
  <2>2. /\ KnownRow(requests[s].shown) /\ requests[s].shown.id = requests[s].run
        /\ runs[requests[s].run].version = requests[s].shown.version
    BY <1>1, <2>1 DEF ServesTransition, RequestOK
  <2>3. requests[s].shown.version \in Nat
    BY <2>2, DeskAssumption DEF KnownRow, Row
  <2> QED
    BY <2>2, <2>3 DEF KnownRow
<1>2. DeskInv /\ [Next]_vars
      => [\A s \in Slots : ServesTransition(s) => RowOf(requests[s].run) = requests[s].shown]_vars
  BY <1>1
<1> QED
  BY <1>2, DeskInvariant, PTL DEF Spec, DecisionIsOnWhatWasShown

-----------------------------------------------------------------------------
(***************************************************************************)
(* Evidence: as long as no two requests that choose what is shown have     *)
(* overlapped since the last selection, there is at most one of them, and  *)
(* it is about the selected run.                                           *)
(***************************************************************************)
Chooses(s) == requests[s].kind \in {"quality", "import", "transition"}

EvidenceInv ==
    /\ EvidenceIsOfTheSelected
    /\ ~overlapped =>
          /\ \A s, other \in Slots : s # other => ~Chooses(s) \/ ~Chooses(other)
          /\ \A s \in Slots : requests[s].kind \in {"quality", "transition"} =>
                selected # Nothing /\ requests[s].run = selected.id

\* A step that leaves the choice to the requests that were choosing.
LEMMA NoNewChoice ==
  ASSUME EvidenceInv, UNCHANGED <<selected, overlapped>>, quality' \in {quality, Nothing},
         \A s \in Slots : /\ Chooses(s)' => Chooses(s)
                          /\ requests'[s].kind \in {"quality", "transition"} =>
                                /\ requests[s].kind \in {"quality", "transition"}
                                /\ requests'[s].run = requests[s].run
  PROVE  EvidenceInv'
<1>1. EvidenceIsOfTheSelected'
  BY DEF EvidenceInv, EvidenceIsOfTheSelected
<1>2. ASSUME ~overlapped', NEW s \in Slots, NEW other \in Slots, s # other
      PROVE  ~Chooses(s)' \/ ~Chooses(other)'
  <2>1. ~Chooses(s) \/ ~Chooses(other)
    BY <1>2 DEF EvidenceInv
  <2> QED
    BY <2>1
<1>3. ASSUME ~overlapped', NEW s \in Slots, requests'[s].kind \in {"quality", "transition"}
      PROVE  selected' # Nothing /\ requests'[s].run = selected'.id
  BY <1>3 DEF EvidenceInv
<1> QED
  BY <1>1, <1>2, <1>3 DEF EvidenceInv

LEMMA EvidenceClicks ==
  ASSUME DeskInv, EvidenceInv, NEW s \in Slots, Clicks(s)
  PROVE  EvidenceInv'
<1>1. CASE Fetch(s)
  <2>1. /\ UNCHANGED <<selected, quality, overlapped>>
        /\ requests' = [requests EXCEPT ![s] = Request("list", Nothing, Nothing, Nothing, Nothing)]
    BY <1>1 DEF Fetch, Send
  <2>2. requests'[s].kind = "list" /\ \A other \in Slots \ {s} : requests'[other] = requests[other]
    BY <2>1 DEF DeskInv, Request
  <2> QED
    BY <2>1, <2>2, NoNewChoice DEF Chooses
<1>2. ASSUME NEW item \in ToSet(items), Select(s, item)
      PROVE  EvidenceInv'
  <2>1. item # Nothing
    BY <1>2, NothingAssumption DEF ToSet, DeskInv, StoreOK, KnownList, KnownRow
  <2>2. /\ selected' = item /\ quality' = Nothing /\ overlapped' = Choosing(s)
        /\ requests' = [requests EXCEPT ![s] = QualityOf(item.id)]
    BY <1>2 DEF Select, Send, Unread
  <2>3. /\ requests'[s].kind = "quality" /\ requests'[s].run = item.id
        /\ \A other \in Slots \ {s} : requests'[other] = requests[other]
    BY <2>2 DEF DeskInv, Request, QualityOf
  <2>4. EvidenceIsOfTheSelected'
    BY <2>2 DEF EvidenceIsOfTheSelected
  <2>5. ~overlapped' => \A other \in Slots \ {s} : ~Chooses(other)'
    BY <2>2, <2>3 DEF Choosing, Chooses
  <2> QED
    BY <2>1, <2>2, <2>3, <2>4, <2>5 DEF EvidenceInv, Chooses
<1>3. ASSUME NEW id \in RunIds, Import(s, id)
      PROVE  EvidenceInv'
  <2>1. /\ UNCHANGED <<selected, quality>> /\ overlapped' = (overlapped \/ Choosing(s))
        /\ requests' = [requests EXCEPT ![s] = Request("import", id, Nothing, Nothing, Nothing)]
    BY <1>3 DEF Import, Send, storeVars
  <2>2. requests'[s].kind = "import" /\ \A other \in Slots \ {s} : requests'[other] = requests[other]
    BY <2>1 DEF DeskInv, Request
  <2>3. EvidenceIsOfTheSelected'
    BY <2>1 DEF EvidenceInv, EvidenceIsOfTheSelected
  <2>4. ~overlapped' => ~overlapped /\ \A other \in Slots \ {s} : ~Chooses(other)'
    BY <2>1, <2>2 DEF Choosing, Chooses
  <2>5. ~overlapped => \A other \in Slots : requests[other].kind \in {"quality", "transition"} =>
                          selected # Nothing /\ requests[other].run = selected.id
    BY DEF EvidenceInv
  <2> QED
    BY <2>1, <2>2, <2>3, <2>4, <2>5 DEF EvidenceInv, Chooses
<1>4. ASSUME NEW target \in Targets, Transition(s, target)
      PROVE  EvidenceInv'
  <2>1. /\ UNCHANGED <<selected, quality>> /\ overlapped' = (overlapped \/ Choosing(s))
        /\ requests' = [requests EXCEPT ![s] = Request("transition", selected.id, selected,
                                                      selected.version, target)]
        /\ selected # Nothing
    BY <1>4 DEF Transition, Send, storeVars, Quoted
  <2>2. /\ requests'[s].kind = "transition" /\ requests'[s].run = selected.id
        /\ \A other \in Slots \ {s} : requests'[other] = requests[other]
    BY <2>1 DEF DeskInv, Request
  <2> QED
    BY <2>1, <2>2 DEF EvidenceInv, EvidenceIsOfTheSelected, Choosing, Chooses
<1> QED
  BY <1>1, <1>2, <1>3, <1>4 DEF Clicks

LEMMA EvidenceServes ==
  ASSUME DeskInv, EvidenceInv, NEW s \in Slots, Serves(s)
  PROVE  EvidenceInv'
<1>1. UNCHANGED <<selected, quality, overlapped>>
  BY DEF Serves, ServesList, ServesImport, ServesTransition, Rereads, storeVars
<1>2. /\ \A other \in Slots \ {s} : requests'[other] = requests[other]
      /\ requests'[s].kind = requests[s].kind /\ requests'[s].run = requests[s].run
  <2>1. requests[s] \in Requests
    BY DEF DeskInv
  <2>2. CASE ServesTransition(s)
    BY <2>1, <2>2 DEF ServesTransition, Request, DeskInv, Requests
  <2>3. CASE \E at, answer : Advance(s, at, answer)
    BY <2>1, <2>3 DEF Advance, DeskInv, Requests
  <2> QED
    BY <2>2, <2>3 DEF Serves, ServesList, ServesImport, Rereads
<1> QED
  BY <1>1, <1>2, NoNewChoice DEF Chooses

LEMMA EvidenceEnds ==
  ASSUME DeskInv, EvidenceInv, NEW s \in Slots, Ends(s)
  PROVE  EvidenceInv'
<1>1. Ended(s) => /\ requests'[s].kind = "none"
                  /\ \A other \in Slots \ {s} : requests'[other] = requests[other]
  BY IdleIsRequest DEF Ended, DeskInv
<1>2. RequestOK(s)
  BY DEF DeskInv
<1>3. CASE Fails(s)
  BY <1>1, <1>3, NoNewChoice DEF Fails, Chooses
<1>4. CASE ListArrives(s)
  <2>1. CASE selected' = selected
    BY <1>1, <1>4, <2>1, NoNewChoice DEF ListArrives, Chooses
  <2>2. CASE selected = Nothing
    BY <1>1, <1>4, <2>2 DEF ListArrives, EvidenceInv, EvidenceIsOfTheSelected, Chooses
  <2> QED
    BY <1>4, <2>1, <2>2 DEF ListArrives
<1>5. CASE QualityArrives(s)
  BY <1>1, <1>5 DEF QualityArrives, EvidenceInv, EvidenceIsOfTheSelected, Chooses
<1>6. CASE ImportArrives(s)
  <2> DEFINE row == requests[s].answer
  <2>1. row # Nothing /\ row.id = requests[s].run
    BY <1>2, <1>6, NothingAssumption DEF ImportArrives, RequestOK, KnownRow
  <2>2. /\ selected' = row /\ quality' = Nothing /\ overlapped' = Choosing(s)
        /\ requests' = [requests EXCEPT ![s] = QualityOf(requests[s].run)]
    BY <1>6 DEF ImportArrives, Unread
  <2>3. /\ requests'[s].kind = "quality" /\ requests'[s].run = row.id
        /\ \A other \in Slots \ {s} : requests'[other] = requests[other]
    BY <2>1, <2>2 DEF DeskInv, Request, QualityOf
  <2> QED
    BY <2>1, <2>2, <2>3 DEF EvidenceInv, EvidenceIsOfTheSelected, Choosing, Chooses
<1>7. CASE TransitionArrives(s)
  <2> DEFINE row == requests[s].answer
  <2>1. row # Nothing /\ row.id = requests[s].run
    BY <1>2, <1>7, NothingAssumption DEF TransitionArrives, RequestOK, KnownRow
  <2>2. selected' = row /\ UNCHANGED <<quality, overlapped>> /\ requests[s].kind = "transition"
    BY <1>7 DEF TransitionArrives
  <2>3. requests'[s].kind = "none" /\ \A other \in Slots \ {s} : requests'[other] = requests[other]
    BY <1>1, <1>7 DEF TransitionArrives
  <2>4. ~overlapped => \A other \in Slots \ {s} : ~Chooses(other)
    BY <2>2 DEF EvidenceInv, Chooses
  <2>5. ~overlapped => selected # Nothing /\ row.id = selected.id
    BY <2>1, <2>2 DEF EvidenceInv
  <2> QED
    BY <2>1, <2>2, <2>3, <2>4, <2>5 DEF EvidenceInv, EvidenceIsOfTheSelected, Chooses
<1> QED
  BY <1>3, <1>4, <1>5, <1>6, <1>7 DEF Ends

(***************************************************************************)
(* The evidence on the screen is that of the selected run, or answers have *)
(* overtaken each other (the store's select sets quality when it arrives). *)
(***************************************************************************)
THEOREM EvidenceIsRight == Spec => []EvidenceIsOfTheSelected
<1>1. Init => EvidenceInv
  BY IdleIsRequest DEF Init, EvidenceInv, EvidenceIsOfTheSelected, Chooses
<1>2. DeskInv /\ EvidenceInv /\ [Next]_vars => EvidenceInv'
  <2> SUFFICES ASSUME DeskInv, EvidenceInv, [Next]_vars PROVE EvidenceInv'
    OBVIOUS
  <2>1. CASE \E s \in Slots : Clicks(s) \/ Serves(s) \/ Ends(s)
    BY <2>1, EvidenceClicks, EvidenceServes, EvidenceEnds
  <2>2. CASE (\E id \in RunIds : OthersWrite(id)) \/ UNCHANGED vars
    <3>1. UNCHANGED <<selected, quality, overlapped, requests>>
      BY <2>2 DEF OthersWrite, vars, storeVars
    <3> QED
      BY <3>1, NoNewChoice DEF Chooses
  <2> QED
    BY <2>1, <2>2 DEF Next
<1>3. EvidenceInv => EvidenceIsOfTheSelected
  BY DEF EvidenceInv
<1> QED
  BY <1>1, <1>2, <1>3, DeskInvariant, PTL DEF Spec

-----------------------------------------------------------------------------
(***************************************************************************)
(* What makes SpinnerEnds a matter of requests that end: the progress bar  *)
(* is never left behind by a refresh that is over, however it ended.       *)
(***************************************************************************)
SpinnerHasRequest == loading => \E s \in Slots : requests[s].kind = "list"

LEMMA SpinnerEndsWithList ==
  ASSUME DeskInv, SpinnerHasRequest, NEW s \in Slots, Ends(s)
  PROVE  SpinnerHasRequest'
<1>1. \A other \in Slots \ {s} : requests'[other] = requests[other]
  BY DEF DeskInv, Ends, ListArrives, QualityArrives, ImportArrives, TransitionArrives, Fails, Ended
<1>2. ASSUME loading' PROVE loading /\ requests[s].kind # "list"
  BY <1>2 DEF Ends, ListArrives, QualityArrives, ImportArrives, TransitionArrives, Fails,
              LoadingAfterError
<1> QED
  BY <1>1, <1>2 DEF SpinnerHasRequest

(***************************************************************************)
(* While the progress bar is shown, a refresh is under way (the store's    *)
(* fetch sets loading and takes it back in every way it can end).          *)
(***************************************************************************)
THEOREM SpinnerIsOfARefresh == Spec => []SpinnerHasRequest
<1>1. Init => SpinnerHasRequest
  BY DEF Init, SpinnerHasRequest
<1>2. DeskInv /\ SpinnerHasRequest /\ [Next]_vars => SpinnerHasRequest'
  <2> SUFFICES ASSUME DeskInv, SpinnerHasRequest, [Next]_vars PROVE SpinnerHasRequest'
    OBVIOUS
  <2>1. ASSUME NEW s \in Slots, Fetch(s) PROVE SpinnerHasRequest'
    <3>1. requests'[s].kind = "list"
      BY <2>1 DEF Fetch, Send, Request, DeskInv
    <3> QED
      BY <3>1 DEF SpinnerHasRequest
  <2>2. ASSUME NEW s \in Slots, Clicks(s), ~Fetch(s) PROVE SpinnerHasRequest'
    <3>1. loading' = loading /\ requests[s] = Idle
          /\ \A other \in Slots \ {s} : requests'[other] = requests[other]
      BY <2>2 DEF Clicks, Select, Import, Transition, Send, storeVars, DeskInv
    <3>2. requests[s].kind # "list"
      BY <3>1, IdleIsRequest
    <3> QED
      BY <3>1, <3>2 DEF SpinnerHasRequest
  <2>3. ASSUME NEW s \in Slots, Serves(s) PROVE SpinnerHasRequest'
    <3>1. loading' = loading
      BY <2>3 DEF Serves, ServesList, ServesImport, ServesTransition, Rereads, storeVars
    <3>2. /\ \A other \in Slots \ {s} : requests'[other] = requests[other]
          /\ requests'[s].kind = requests[s].kind
      <4>1. requests[s] \in Requests
        BY DEF DeskInv
      <4>2. CASE ServesTransition(s)
        BY <4>1, <4>2 DEF ServesTransition, Request, DeskInv, Requests
      <4>3. CASE \E at, answer : Advance(s, at, answer)
        BY <4>1, <4>3 DEF Advance, DeskInv, Requests
      <4> QED
        BY <2>3, <4>2, <4>3 DEF Serves, ServesList, ServesImport, Rereads
    <3>3. \A other \in Slots : requests'[other].kind = requests[other].kind
      BY <3>2
    <3> QED
      BY <3>1, <3>3 DEF SpinnerHasRequest
  <2>4. CASE (\E id \in RunIds : OthersWrite(id)) \/ UNCHANGED vars
    <3>1. UNCHANGED <<loading, requests>>
      BY <2>4 DEF OthersWrite, vars, storeVars
    <3> QED
      BY <3>1 DEF SpinnerHasRequest
  <2> QED
    BY <2>1, <2>2, <2>3, <2>4, SpinnerEndsWithList DEF Next
<1> QED
  BY <1>1, <1>2, DeskInvariant, PTL DEF Spec

=============================================================================
