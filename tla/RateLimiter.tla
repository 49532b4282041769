----------------------------- MODULE RateLimiter -----------------------------
(***************************************************************************)
(* middleware.RateLimiter: at most Capacity requests of one client in one  *)
(* window.  A request reads the clock first and takes the mutex later, so  *)
(* windows meet the readings out of their order; the map of clients is     *)
(* cleaned by whichever request finds it larger than MaxClients.           *)
(*                                                                         *)
(* The clock is Go's monotonic clock: it never runs back.  It starts again *)
(* with every process, and so does the map.                                *)
(***************************************************************************)
EXTENDS Integers, FiniteSets

CONSTANTS
    Keys,         \* one per scope and client address
    Capacity,     \* capacity
    Window,       \* window
    MaxClients,   \* entries above which stale ones are evicted: 2000
    MaxDelay,     \* how long a request can take from its reading to the mutex
    Requests,     \* the requests being served: one goroutine each
    MaxTime,      \* bound: where the clock stops
    MaxCount      \* bound: how many requests each client sends in one window

ASSUME LimitsAssumption ==
    /\ Capacity \in Nat \ {0} /\ Window \in Nat \ {0} /\ MaxClients \in Nat
    /\ MaxTime \in Nat /\ MaxCount \in [Keys -> Nat]

\* The mutex is held for a few instructions; a window is a minute.
ASSUME DelayAssumption == MaxDelay \in 0 .. Window

VARIABLES
    clock,        \* what time.Now() reads
    clients,      \* l.clients: key -> [started, count], for the keys it holds
    asking,       \* waiting request -> its key and its reading, now
    forgotten,    \* history: the evicted entry of each key not held since
    recent        \* history: key -> its requests that were admitted lately

limiterVars == <<clock, clients, asking, forgotten, recent>>

Times == 0 .. MaxTime
Ages == 0 .. Window + MaxDelay - 1
Unopened == [started |-> 0, count |-> 0]

\* NewRateLimiter, when the process starts.
LimiterInit ==
    /\ clock = 0
    /\ clients = <<>>
    /\ asking = <<>>
    /\ forgotten = [k \in Keys |-> Unopened]
    /\ recent = [k \in Keys |-> {}]

LimiterRestarts ==
    /\ clock' = 0
    /\ clients' = <<>>
    /\ asking' = <<>>
    /\ forgotten' = [k \in Keys |-> Unopened]
    /\ recent' = [k \in Keys |-> {}]

-----------------------------------------------------------------------------

\* now := time.Now(), before l.mu.Lock().
Ask(r, k) ==
    /\ r \notin DOMAIN asking
    /\ k \in DOMAIN clients =>
          clients[k].count < MaxCount[k] \/ clock - clients[k].started >= Window
    /\ asking' = [x \in DOMAIN asking \cup {r} |->
                     IF x = r THEN [key |-> k, now |-> clock] ELSE asking[x]]
    /\ UNCHANGED <<clock, clients, forgotten, recent>>

\* Mutant: a reading from before the window restarts it as well.
Expired_EitherWay(entry, now) == now - entry.started >= Window \/ now < entry.started

\* Mutant: the window has ended only after its last moment.
Expired_Late(entry, now) == now - entry.started > Window

Expired(entry, now) == now - entry.started >= Window

\* Mutant: entries are evicted as soon as their window has ended.
Stale_Ended(entry, now) == now - entry.started >= Window

Stale(entry, now) == now - entry.started > 2 * Window

\* Mutant: the request that opens a window is not counted in it.
Counted_FirstFree(k, now) ==
    IF k \notin DOMAIN clients \/ Expired(clients[k], now)
    THEN [started |-> now, count |-> 0]
    ELSE [clients[k] EXCEPT !.count = @ + 1]

\* The entry of a key after a request with this reading was counted.
Counted(k, now) ==
    IF k \notin DOMAIN clients \/ Expired(clients[k], now)
    THEN [started |-> now, count |-> 1]
    ELSE [clients[k] EXCEPT !.count = @ + 1]

CountedClients(k, now) ==
    [x \in DOMAIN clients \cup {k} |-> IF x = k THEN Counted(k, now) ELSE clients[x]]

Evicted(held, now) ==
    IF Cardinality(DOMAIN held) > MaxClients
    THEN {k \in DOMAIN held : Stale(held[k], now)}
    ELSE {}

\* The decision on a waiting request, were it given the mutex now.
Admitted(r) == Counted(asking[r].key, asking[r].now).count <= Capacity

\* An admission is told from the others of the same moment by its number.
NextAdmitted(admitted, now) ==
    [at |-> now, number |-> 1 + Cardinality({a \in admitted : a.at = now})]

\* Everything between l.mu.Lock() and l.mu.Unlock().
Count(r) ==
    /\ r \in DOMAIN asking
    /\ LET k == asking[r].key
           now == asking[r].now
           held == CountedClients(k, now)
           gone == Evicted(held, now)
       IN  /\ clients' = [x \in DOMAIN held \ gone |-> held[x]]
           /\ forgotten' = [x \in Keys |-> IF x \in gone THEN held[x]
                                          ELSE IF x = k THEN Unopened ELSE forgotten[x]]
           /\ recent' = IF Admitted(r)
                        THEN [recent EXCEPT ![k] = @ \cup {NextAdmitted(recent[k], clock)}]
                        ELSE recent
    /\ asking' = [x \in DOMAIN asking \ {r} |-> asking[x]]
    /\ UNCHANGED clock

\* Time passes, but no request is kept from the mutex for more than MaxDelay.
Tick ==
    /\ clock < MaxTime
    /\ \A r \in DOMAIN asking : clock - asking[r].now < MaxDelay
    /\ clock' = clock + 1
    /\ recent' = [k \in Keys |-> {a \in recent[k] : clock' - a.at \in Ages}]
    /\ UNCHANGED <<clients, asking, forgotten>>

LimiterNext ==
    \/ \E r \in Requests : Count(r) \/ \E k \in Keys : Ask(r, k)
    \/ Tick
    \/ LimiterRestarts

LimiterSpec == LimiterInit /\ [][LimiterNext]_limiterVars

-----------------------------------------------------------------------------

Entry == [started : Times, count : Nat \ {0}]
Admission == [at : Times, number : Nat \ {0}]

LimiterTypeOK ==
    /\ clock \in Times
    /\ DOMAIN clients \subseteq Keys /\ clients \in [DOMAIN clients -> Entry]
    /\ DOMAIN asking \subseteq Requests
    /\ asking \in [DOMAIN asking -> [key : Keys, now : Times]]
    /\ forgotten \in [Keys -> Entry \cup {Unopened}]
    /\ recent \in [Keys -> SUBSET Admission]

\* How many requests of a key were admitted with an age in ages.
AdmittedWithin(k, ages) == Cardinality({a \in recent[k] : clock - a.at \in ages})

(***************************************************************************)
(* A client that times its requests to the edge of a window can have twice *)
(* the capacity admitted in less than a window's time.  When readings are  *)
(* late at the mutex a third window can be involved, but no request of it  *)
(* that opened it: three times the capacity, less one, is the limit.       *)
(***************************************************************************)
BurstBound ==
    \A k \in Keys : AdmittedWithin(k, 0 .. Window - 1)
                       <= IF MaxDelay = 0 THEN 2 * Capacity ELSE 3 * Capacity - 1

(***************************************************************************)
(* A request is refused only if the whole capacity was given to its key in *)
(* the last Window before its reading: who waits as long as Retry-After    *)
(* says (a minute, the window of every limiter) is not refused on account  *)
(* of older requests, in whatever order readings met the window.           *)
(***************************************************************************)
RefusalIsDeserved ==
    \A r \in DOMAIN asking :
        Admitted(r) \/ AdmittedWithin(asking[r].key,
                                      0 .. (clock - asking[r].now) + Window - 1) >= Capacity

(***************************************************************************)
(* Cleaning the map is never felt: each request is counted as a limiter    *)
(* that remembers every window would count it, although the request that   *)
(* cleans, and those after it, come with readings older than the clock.    *)
(***************************************************************************)
Windows == INSTANCE FixedWindows WITH
    windows <- [k \in Keys |-> IF k \in DOMAIN clients THEN clients[k] ELSE forgotten[k]]

ImplementsFixedWindows == Windows!Spec

=============================================================================
