------------------------------- MODULE RunsDesk -------------------------------
(***************************************************************************)
(* The track processing desk: the browser's store of runs and the page     *)
(* whose buttons call it, against a runs table that other desks write to.  *)
(* A call sends its request and goes on when the answer arrives: answers   *)
(* come in any order, late, as an error, or not at all, and meet whatever  *)
(* the store has become since.                                             *)
(*                                                                         *)
(* The table is the one SonarRuns is shown to implement: single writes     *)
(* along the lifecycle, conditional on the version.  What a transition or  *)
(* a new import answers is read again after the write.                     *)
(***************************************************************************)
EXTENDS Naturals, Sequences, SequencesExt, Lifecycles

CONSTANTS
    RunIds,        \* all runs there can be
    Rank,          \* their order by started_at, then id
    PageSize,      \* page_size=100
    Before,        \* the runs imported before the page was opened
    Slots,         \* the requests this desk can have under way
    Nothing,       \* null
    Targets,       \* bound: the states runs are moved to
    MaxVersion     \* bound: up to which version runs are written

VARIABLES
    runs,          \* the table: id -> [run_state, version]
    items,         \* the list: rows as some answer showed them
    selected,      \* the row the buttons act on
    quality,       \* the run whose evidence is shown
    loading,       \* the progress bar
    requests,      \* slot -> the request under way
    overlapped     \* history: requests that choose what is shown overlapped

storeVars == <<items, selected, quality, loading>>
vars == <<runs, storeVars, requests, overlapped>>

ASSUME DeskAssumption ==
    /\ Rank \in [RunIds -> Nat] /\ \A id, other \in RunIds : id # other => Rank[id] # Rank[other]
    /\ Before \subseteq RunIds /\ PageSize \in Nat \ {0}
    /\ Nothing \notin RunIds /\ Targets \subseteq RunStates /\ MaxVersion \in Nat \ {0}

Row == [id : RunIds, run_state : RunStates, version : 1 .. MaxVersion]

ASSUME NothingAssumption == Nothing \notin Row

RowOf(id) == [id |-> id, run_state |-> runs[id].run_state, version |-> runs[id].version]

Request(kind, run, shown, expected, target) ==
    [kind |-> kind, at |-> "sent", run |-> run, shown |-> shown,
     expected |-> expected, target |-> target, answer |-> Nothing]

Idle == [Request("none", Nothing, Nothing, Nothing, Nothing) EXCEPT !.at = "idle"]

QualityOf(id) == Request("quality", id, Nothing, Nothing, Nothing)

Init ==
    /\ runs = [id \in Before |-> [run_state |-> "imported", version |-> 1]]
    /\ items = <<>> /\ selected = Nothing /\ quality = Nothing /\ loading = FALSE
    /\ requests = [s \in Slots |-> Idle]
    /\ overlapped = FALSE

\* A request other than that of s whose answer sets selected or quality.
Choosing(s) ==
    \E other \in Slots \ {s} : requests[other].kind \in {"quality", "import", "transition"}

Send(s, request) ==
    /\ requests[s] = Idle
    /\ requests' = [requests EXCEPT ![s] = request]

-----------------------------------------------------------------------------
\* What the page's buttons start.

Fetch(s) ==
    /\ Send(s, Request("list", Nothing, Nothing, Nothing, Nothing))
    /\ loading' = TRUE
    /\ UNCHANGED <<runs, items, selected, quality, overlapped>>

\* Mutant: the evidence of the run selected before stays until the next has come.
Unread_Kept == quality

\* What is shown of a row before its evidence has come.
Unread == Nothing

Select(s, item) ==
    /\ Send(s, QualityOf(item.id))
    /\ selected' = item /\ quality' = Unread
    /\ overlapped' = Choosing(s)
    /\ UNCHANGED <<runs, items, loading>>

Import(s, id) ==
    /\ Send(s, Request("import", id, Nothing, Nothing, Nothing))
    /\ overlapped' = (overlapped \/ Choosing(s))
    /\ UNCHANGED <<runs, storeVars>>

\* Mutant: the version is looked up in the list, which may have been refreshed.
Quoted_FromList(item) ==
    IF \E n \in DOMAIN items : items[n].id = item.id
    THEN items[CHOOSE n \in DOMAIN items : items[n].id = item.id].version
    ELSE item.version

\* The version a button quotes: that of the row it stands next to.
Quoted(item) == item.version

Transition(s, target) ==
    /\ selected # Nothing
    /\ CanTransition(RunMoves, selected.run_state, target)
    /\ selected.version < MaxVersion
    /\ Send(s, Request("transition", selected.id, selected, Quoted(selected), target))
    /\ overlapped' = (overlapped \/ Choosing(s))
    /\ UNCHANGED <<runs, storeVars>>

-----------------------------------------------------------------------------
\* The server.

Advance(s, at, answer) ==
    requests' = [requests EXCEPT ![s].at = at, ![s].answer = answer]

\* The first page, newest first: a run that is not on it is older than all that are.
Listed(page) ==
    /\ \A n, m \in DOMAIN page : n < m => Rank[page[n]] > Rank[page[m]]
    /\ \A id \in DOMAIN runs \ ToSet(page) :
          Len(page) = PageSize /\ \A n \in DOMAIN page : Rank[page[n]] > Rank[id]

ServesList(s) ==
    /\ requests[s].kind = "list" /\ requests[s].at = "sent"
    /\ \E page \in BoundedSeq(DOMAIN runs, PageSize) :
          /\ Listed(page)
          /\ Advance(s, "answered", [n \in DOMAIN page |-> RowOf(page[n])])
    /\ UNCHANGED <<runs, storeVars, overlapped>>

Inserted(id) ==
    [known \in DOMAIN runs \cup {id} |->
        IF known = id THEN [run_state |-> "imported", version |-> 1] ELSE runs[known]]

Moved(id, target) ==
    [runs EXCEPT ![id] = [run_state |-> target, version |-> @.version + 1]]

ServesImport(s) ==
    /\ requests[s].kind = "import" /\ requests[s].at = "sent"
    /\ LET id == requests[s].run
       IN  IF id \in DOMAIN runs
           THEN Advance(s, "answered", RowOf(id)) /\ runs' = runs
           ELSE Advance(s, "written", Nothing) /\ runs' = Inserted(id)
    /\ UNCHANGED <<storeVars, overlapped>>

\* Otherwise the answer is a conflict: see Fails.
ServesTransition(s) ==
    /\ requests[s].kind = "transition" /\ requests[s].at = "sent"
    /\ runs[requests[s].run].version = requests[s].expected
    /\ CanTransition(RunMoves, runs[requests[s].run].run_state, requests[s].target)
    /\ runs' = Moved(requests[s].run, requests[s].target)
    /\ requests' = [requests EXCEPT ![s] = [Request("transition", @.run, Nothing, Nothing, Nothing)
                                               EXCEPT !.at = "written"]]
    /\ UNCHANGED <<storeVars, overlapped>>

Rereads(s) ==
    /\ requests[s].at = "written"
    /\ Advance(s, "answered", RowOf(requests[s].run))
    /\ UNCHANGED <<runs, storeVars, overlapped>>

\* The other desks.
OthersWrite(id) ==
    /\ \/ id \notin DOMAIN runs /\ runs' = Inserted(id)
       \/ /\ id \in DOMAIN runs /\ runs[id].version < MaxVersion
          /\ \E target \in Targets :
                CanTransition(RunMoves, runs[id].run_state, target) /\ runs' = Moved(id, target)
    /\ UNCHANGED <<storeVars, requests, overlapped>>

-----------------------------------------------------------------------------
\* What the store does with an answer.

Ended(s) == requests' = [requests EXCEPT ![s] = Idle]

ListArrives(s) ==
    /\ requests[s].kind = "list" /\ requests[s].at = "answered"
    /\ items' = requests[s].answer
    /\ selected' = IF selected = Nothing /\ items' # <<>> THEN items'[1] ELSE selected
    /\ loading' = FALSE
    /\ Ended(s)
    /\ UNCHANGED <<runs, quality, overlapped>>

\* The evidence of a run never changes: it can be read at any moment.
QualityArrives(s) ==
    /\ requests[s].kind = "quality"
    /\ quality' = requests[s].run
    /\ Ended(s)
    /\ UNCHANGED <<runs, items, selected, loading, overlapped>>

\* Mutant: the imported run is put on the list in any case.
WithImported_Always(row) == <<row>> \o items

WithImported(row) ==
    IF \E n \in DOMAIN items : items[n].id = row.id THEN items ELSE <<row>> \o items

\* The page then selects the imported run, which sends for its evidence.
ImportArrives(s) ==
    /\ requests[s].kind = "import" /\ requests[s].at = "answered"
    /\ items' = WithImported(requests[s].answer)
    /\ selected' = requests[s].answer /\ quality' = Unread
    /\ requests' = [requests EXCEPT ![s] = QualityOf(requests[s].run)]
    /\ overlapped' = Choosing(s)
    /\ UNCHANGED <<runs, loading>>

TransitionArrives(s) ==
    /\ requests[s].kind = "transition" /\ requests[s].at = "answered"
    /\ items' = [n \in DOMAIN items |-> IF items[n].id = requests[s].run
                                        THEN requests[s].answer ELSE items[n]]
    /\ selected' = requests[s].answer
    /\ Ended(s)
    /\ UNCHANGED <<runs, quality, loading, overlapped>>

\* Mutant: fetch without its finally.
LoadingAfterError_Kept(s) == loading

\* The progress bar after a call that ended with an error: fetch's finally.
LoadingAfterError(s) == loading /\ requests[s].kind # "list"

\* An error answer or a lost connection, whether or not the request was served.
Fails(s) ==
    /\ requests[s] # Idle
    /\ loading' = LoadingAfterError(s)
    /\ Ended(s)
    /\ UNCHANGED <<runs, items, selected, quality, overlapped>>

-----------------------------------------------------------------------------

Clicks(s) ==
    \/ Fetch(s)
    \/ \E item \in ToSet(items) : Select(s, item)
    \/ \E id \in RunIds : Import(s, id)
    \/ \E target \in Targets : Transition(s, target)

Serves(s) == ServesList(s) \/ ServesImport(s) \/ ServesTransition(s) \/ Rereads(s)

Ends(s) ==
    ListArrives(s) \/ QualityArrives(s) \/ ImportArrives(s) \/ TransitionArrives(s) \/ Fails(s)

Next ==
    \/ \E s \in Slots : Clicks(s) \/ Serves(s) \/ Ends(s)
    \/ \E id \in RunIds : OthersWrite(id)

\* The server closes a connection after its write timeout, so every request
\* ends one way or another.  Nobody has to click, and nothing has to succeed.
Spec == Init /\ [][Next]_vars /\ \A s \in Slots : WF_vars(Ends(s))

-----------------------------------------------------------------------------

\* Types; and no run is listed twice, although fetch and import, which answer
\* in either order, both put it on the list.
TypeOK ==
    /\ runs \in [DOMAIN runs -> [run_state : RunStates, version : 1 .. MaxVersion]]
    /\ DOMAIN runs \subseteq RunIds
    /\ ToSet(items) \subseteq Row /\ selected \in Row \cup {Nothing}
    /\ quality \in RunIds \cup {Nothing} /\ loading \in BOOLEAN
    /\ DOMAIN requests = Slots
    /\ \A n, m \in DOMAIN items : n # m => items[n].id # items[m].id

(***************************************************************************)
(* A decision is carried out on the row that was on the screen when it was *)
(* made: however stale the desk is after refreshes, late answers and other *)
(* desks' work, it either conflicts or replaces the very row it was about. *)
(***************************************************************************)
DecisionIsOnWhatWasShown ==
    [][\A s \in Slots :
          ServesTransition(s) => RowOf(requests[s].run) = requests[s].shown]_vars

(***************************************************************************)
(* Evidence on the screen is that of the selected run, also when a request *)
(* for it failed, unless requests that choose what is shown overlapped     *)
(* since the last selection (then a late answer can show another's).       *)
(***************************************************************************)
EvidenceIsOfTheSelected ==
    quality # Nothing /\ ~overlapped => selected # Nothing /\ quality = selected.id

\* The progress bar does not stay, whether the list comes or not.
SpinnerEnds == loading ~> ~loading

=============================================================================
