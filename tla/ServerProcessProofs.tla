-------------------------- MODULE ServerProcessProofs --------------------------
(***************************************************************************)
(* Theorems about ServerProcess and the limiter in it, for any capacity,   *)
(* window, number of clients and requests, accounts, crashes and           *)
(* alterations of users.                                                   *)
(***************************************************************************)
EXTENDS ServerProcess, FiniteSetTheorems, TLAPS

-----------------------------------------------------------------------------
\* The limiter.

\* Admissions of the past, those of this moment numbered from 1 on.
Numbered(admitted, time) ==
    /\ IsFiniteSet(admitted)
    /\ \A a \in admitted : a.at <= time
    /\ \E n \in Nat : {a \in admitted : a.at = time} = {[at |-> time, number |-> i] : i \in 1 .. n}

LEMMA NextIsNew ==
    ASSUME NEW time \in Times, NEW admitted \in SUBSET Admission, Numbered(admitted, time),
           NEW a, a = NextAdmitted(admitted, time)
    PROVE  /\ a \in Admission /\ a.at = time /\ a \notin admitted
           /\ Numbered(admitted \cup {a}, time)
<1> DEFINE now == {b \in admitted : b.at = time}
           Upto(n) == {[at |-> time, number |-> i] : i \in 1 .. n}
<1>1. PICK n \in Nat : now = Upto(n)
  BY DEF Numbered
<1>2. Cardinality(now) = n
  <2> DEFINE f == [i \in 1 .. n |-> [at |-> time, number |-> i]]
  <2>1. \A i \in 1 .. n : f[i] \in Upto(n) /\ f[i].number = i
    OBVIOUS
  <2>2. \A b \in Upto(n) : \E i \in 1 .. n : f[i] = b
    OBVIOUS
  <2>3. f \in [1 .. n -> Upto(n)]
    BY <2>1
  <2> HIDE DEF f, Upto
  <2>4. f \in Bijection(1 .. n, Upto(n))
    BY <2>1, <2>2, <2>3 DEF Bijection, Injection, IsInjective, Surjection
  <2>5. ExistsBijection(1 .. n, Upto(n))
    BY <2>4 DEF ExistsBijection
  <2>6. Cardinality(Upto(n)) = n
    BY <2>5, FS_CountingElements
  <2> QED BY <1>1, <2>6
<1>3. a = [at |-> time, number |-> n + 1]
  BY <1>2 DEF NextAdmitted
<1>4. a \in Admission /\ a.at = time
  BY <1>3 DEF Admission
<1>5. a \notin Upto(n)
  <2>1. \A b \in Upto(n) : b.number \in 1 .. n
    OBVIOUS
  <2>2. a.number = n + 1
    BY <1>3
  <2> HIDE DEF Upto
  <2> QED BY <2>1, <2>2
<1>6. a \notin admitted
  BY <1>1, <1>4, <1>5
<1>7. {b \in admitted \cup {a} : b.at = time} = Upto(n + 1)
  <2>1. {b \in admitted \cup {a} : b.at = time} = now \cup {a}
    BY <1>4
  <2>2. Upto(n + 1) = Upto(n) \cup {a}
    <3>1. 1 .. n + 1 = (1 .. n) \cup {n + 1}
      OBVIOUS
    <3> QED BY <1>3, <3>1
  <2> QED BY <1>1, <2>1, <2>2
<1>8. IsFiniteSet(admitted \cup {a})
  BY FS_AddElement DEF Numbered
<1>9. \A b \in admitted \cup {a} : b.at <= time
  BY <1>4 DEF Numbered, Times
<1> QED BY <1>4, <1>6, <1>7, <1>8, <1>9 DEF Numbered

LEMMA OlderStayNumbered ==
    ASSUME NEW time \in Times, NEW admitted \in SUBSET Admission, Numbered(admitted, time),
           NEW older \in SUBSET admitted
    PROVE  Numbered(older, time + 1)
<1>1. \A a \in older : a.at <= time + 1 /\ a.at # time + 1
  BY DEF Numbered, Admission, Times
<1>2. {a \in older : a.at = time + 1} = {[at |-> time + 1, number |-> i] : i \in 1 .. 0}
  BY <1>1
<1>3. IsFiniteSet(older)
  BY FS_Subset DEF Numbered
<1> QED BY <1>1, <1>2, <1>3 DEF Numbered

LEMMA NoneAreNumbered == \A time : Numbered({}, time)
<1> SUFFICES ASSUME NEW time PROVE Numbered({}, time)
  OBVIOUS
<1>1. {a \in {} : a.at = time} = {[at |-> time, number |-> i] : i \in 1 .. 0}
  OBVIOUS
<1>2. IsFiniteSet({})
  BY FS_EmptySet
<1> QED BY <1>1, <1>2 DEF Numbered

(***************************************************************************)
(* Readings are at most MaxDelay old, and what was evicted is more than    *)
(* two windows older than the clock: MaxDelay being at most a window, no   *)
(* reading still under way can belong to an evicted window.                *)
(***************************************************************************)
LimiterInv ==
    /\ LimiterTypeOK
    /\ \A r \in DOMAIN asking :
          asking[r].now <= clock /\ clock - asking[r].now <= MaxDelay
    /\ \A k \in Keys :
          forgotten[k].count > 0 => clock - forgotten[k].started > 2 * Window
    /\ \A k \in Keys : Numbered(recent[k], clock)

windowsNow == [k \in Keys |-> IF k \in DOMAIN clients THEN clients[k] ELSE forgotten[k]]

LEMMA LimiterStarts == LimiterInit => LimiterInv /\ Windows!Init
<1> SUFFICES ASSUME LimiterInit PROVE LimiterInv /\ Windows!Init
  OBVIOUS
<1>1. LimiterInv
  BY LimitsAssumption, DelayAssumption, NoneAreNumbered
  DEF LimiterInit, LimiterInv, LimiterTypeOK, Times, Ages, Unopened, Entry
<1>2. Windows!Init
  BY DEF LimiterInit, Windows!Init, Unopened, Windows!Unopened
<1> QED BY <1>1, <1>2

LEMMA RestartIsReset == LimiterRestarts => LimiterInv' /\ Windows!Reset
<1> SUFFICES ASSUME LimiterRestarts PROVE LimiterInv' /\ Windows!Reset
  OBVIOUS
<1>1. LimiterInv'
  BY LimitsAssumption, DelayAssumption, NoneAreNumbered
  DEF LimiterRestarts, LimiterInv, LimiterTypeOK, Times, Ages, Unopened, Entry
<1>2. Windows!Reset
  BY DEF LimiterRestarts, Windows!Reset, Unopened, Windows!Unopened
<1> QED BY <1>1, <1>2

LEMMA AskKeepsWindows ==
    ASSUME LimiterInv, NEW r \in Requests, NEW k \in Keys, Ask(r, k)
    PROVE  LimiterInv' /\ UNCHANGED windowsNow
<1>1. asking'[r] = [key |-> k, now |-> clock] /\ DOMAIN asking' = DOMAIN asking \cup {r}
  BY DEF Ask
<1>2. \A x \in DOMAIN asking' : x # r => x \in DOMAIN asking /\ asking'[x] = asking[x]
  BY DEF Ask
<1>3. asking' \in [DOMAIN asking' -> [key : Keys, now : Times]]
  BY <1>1, <1>2 DEF Ask, LimiterInv, LimiterTypeOK
<1>4. LimiterTypeOK'
  BY <1>1, <1>3 DEF Ask, LimiterInv, LimiterTypeOK
<1>5. \A x \in DOMAIN asking' :
         asking'[x].now <= clock' /\ clock' - asking'[x].now <= MaxDelay
  <2> SUFFICES ASSUME NEW x \in DOMAIN asking'
               PROVE  asking'[x].now <= clock' /\ clock' - asking'[x].now <= MaxDelay
    OBVIOUS
  <2>1. CASE x = r
    BY <2>1, <1>1, DelayAssumption DEF Ask, LimiterInv, LimiterTypeOK, Times
  <2>2. CASE x # r
    BY <2>2, <1>2 DEF Ask, LimiterInv
  <2> QED BY <2>1, <2>2
<1> QED BY <1>4, <1>5 DEF Ask, LimiterInv, windowsNow

LEMMA TickKeepsWindows ==
    ASSUME LimiterInv, Tick
    PROVE  LimiterInv' /\ UNCHANGED windowsNow
<1>1. clock' = clock + 1 /\ clock' \in Times
  BY LimitsAssumption DEF Tick, LimiterInv, LimiterTypeOK, Times
<1>2. recent' \in [Keys -> SUBSET Admission]
  BY DEF Tick, LimiterInv, LimiterTypeOK
<1>3. LimiterTypeOK'
  BY <1>1, <1>2 DEF Tick, LimiterInv, LimiterTypeOK
<1>4. \A r \in DOMAIN asking' :
         asking'[r].now <= clock' /\ clock' - asking'[r].now <= MaxDelay
  BY <1>1, DelayAssumption DEF Tick, LimiterInv, LimiterTypeOK, Times
<1>5. \A k \in Keys : forgotten'[k].count > 0 => clock' - forgotten'[k].started > 2 * Window
  BY <1>1, LimitsAssumption DEF Tick, LimiterInv, LimiterTypeOK, Times, Entry, Unopened
<1>6. \A k \in Keys : Numbered(recent[k], clock)'
  <2> SUFFICES ASSUME NEW k \in Keys PROVE Numbered(recent'[k], clock + 1)
    BY <1>1
  <2>1. recent'[k] \in SUBSET recent[k]
    BY DEF Tick
  <2>2. recent[k] \in SUBSET Admission /\ clock \in Times /\ Numbered(recent[k], clock)
    BY DEF LimiterInv, LimiterTypeOK
  <2> QED BY <2>1, <2>2, OlderStayNumbered
<1> QED BY <1>3, <1>4, <1>5, <1>6 DEF Tick, LimiterInv, windowsNow

LEMMA CountedIsAnEntry ==
    ASSUME LimiterInv, NEW k \in Keys, NEW now \in Times
    PROVE  Counted(k, now) \in Entry
BY DEF LimiterInv, LimiterTypeOK, Counted, Entry

(***************************************************************************)
(* A request with this reading is counted: it opens a window a whole       *)
(* Window after the start of the one before, or is one more in it.         *)
(***************************************************************************)
CountedAs(entry, now, next) ==
    \/ /\ entry.count > 0 => now - entry.started >= Window
       /\ next = [started |-> now, count |-> 1]
    \/ /\ entry.count > 0 /\ now - entry.started < Window
       /\ next = [started |-> entry.started, count |-> entry.count + 1]

LEMMA CountIsAWindowStep ==
    ASSUME LimiterInv, NEW r \in Requests, Count(r),
           NEW k, k = asking[r].key
    PROVE  /\ k \in Keys /\ LimiterInv' /\ Windows!Request(k)
           /\ CountedAs(windowsNow[k], asking[r].now, windowsNow'[k])
           /\ \A x \in Keys \ {k} : windowsNow'[x] = windowsNow[x]
           /\ Admitted(r) <=> windowsNow'[k].count <= Capacity
<1> DEFINE now == asking[r].now
           held == CountedClients(k, now)
           gone == Evicted(held, now)
<1>1. /\ r \in DOMAIN asking /\ k \in Keys /\ now \in Times
      /\ now <= clock /\ clock - now <= MaxDelay
  BY DEF Count, LimiterInv, LimiterTypeOK
<1>2. /\ DOMAIN held = DOMAIN clients \cup {k}
      /\ held[k] = Counted(k, now)
      /\ \A x \in DOMAIN held : x # k => x \in DOMAIN clients /\ held[x] = clients[x]
  BY DEF CountedClients
<1>3. held[k] \in Entry
  BY <1>1, <1>2, CountedIsAnEntry
<1>4. \A x \in DOMAIN held : x \in Keys /\ held[x] \in Entry
  BY <1>1, <1>2, <1>3 DEF LimiterInv, LimiterTypeOK
<1>5. gone \subseteq DOMAIN held /\ \A x \in gone : now - held[x].started > 2 * Window
  BY DEF Evicted, Stale
<1>6. /\ DOMAIN clients' = DOMAIN held \ gone
      /\ \A x \in DOMAIN clients' : clients'[x] = held[x]
      /\ clients' = [x \in DOMAIN held \ gone |-> held[x]]
      /\ forgotten' = [x \in Keys |-> IF x \in gone THEN held[x]
                                     ELSE IF x = k THEN Unopened ELSE forgotten[x]]
      /\ asking' = [x \in DOMAIN asking \ {r} |-> asking[x]]
      /\ recent' = IF Admitted(r)
                   THEN [recent EXCEPT ![k] = @ \cup {NextAdmitted(recent[k], clock)}]
                   ELSE recent
      /\ clock' = clock
  BY DEF Count
<1>7. LimiterTypeOK'
  <2>1. recent' \in [Keys -> SUBSET Admission]
    <3>1. recent \in [Keys -> SUBSET Admission] /\ Numbered(recent[k], clock) /\ clock \in Times
      BY <1>1 DEF LimiterInv, LimiterTypeOK
    <3>2. NextAdmitted(recent[k], clock) \in Admission
      <4>1. recent[k] \in SUBSET Admission
        BY <1>1, <3>1
      <4> QED BY <3>1, <4>1, NextIsNew
    <3> QED BY <1>1, <1>6, <3>1, <3>2
  <2>2. clients' \in [DOMAIN clients' -> Entry] /\ DOMAIN clients' \subseteq Keys
    BY <1>4, <1>6
  <2>3. forgotten' \in [Keys -> Entry \cup {Unopened}]
    BY <1>4, <1>5, <1>6 DEF LimiterInv, LimiterTypeOK
  <2>4. DOMAIN asking' \subseteq Requests /\ asking' \in [DOMAIN asking' -> [key : Keys, now : Times]]
    BY <1>6 DEF LimiterInv, LimiterTypeOK
  <2> QED BY <1>6, <2>1, <2>2, <2>3, <2>4 DEF LimiterInv, LimiterTypeOK
<1>8. \A x \in Keys : forgotten'[x].count > 0 => clock' - forgotten'[x].started > 2 * Window
  <2> SUFFICES ASSUME NEW x \in Keys, forgotten'[x].count > 0
               PROVE  clock - forgotten'[x].started > 2 * Window
    BY <1>6
  <2>1. CASE x \in gone
    <3>1. forgotten'[x] = held[x] /\ now - held[x].started > 2 * Window /\ held[x].started \in Int
      BY <2>1, <1>4, <1>5, <1>6 DEF Entry, Times
    <3>2. now \in Int /\ clock \in Int /\ Window \in Int /\ now <= clock
      BY <1>1, LimitsAssumption DEF Times, LimiterInv, LimiterTypeOK
    <3> HIDE DEF held, now
    <3> QED BY <3>1, <3>2
  <2>2. CASE x \notin gone
    <3>1. x # k
      BY <2>2, <1>6 DEF Unopened
    <3> QED BY <2>2, <3>1, <1>6 DEF LimiterInv
  <2> QED BY <2>1, <2>2
<1>9. LimiterInv'
  <2>1. \A x \in DOMAIN asking' :
           asking'[x].now <= clock' /\ clock' - asking'[x].now <= MaxDelay
    <3>1. \A x \in DOMAIN asking' : x \in DOMAIN asking /\ asking'[x] = asking[x]
      BY <1>6
    <3> QED BY <3>1, <1>6 DEF LimiterInv
  <2>2. \A x \in Keys : (forgotten[x].count > 0 => clock - forgotten[x].started > 2 * Window)'
    BY <1>8
  <2>3. \A x \in Keys : Numbered(recent[x], clock)'
    <3> SUFFICES ASSUME NEW x \in Keys PROVE Numbered(recent'[x], clock)
      BY <1>6
    <3>1. recent[x] \in SUBSET Admission /\ clock \in Times /\ Numbered(recent[x], clock)
      BY DEF LimiterInv, LimiterTypeOK
    <3>2. \/ recent'[x] = recent[x]
          \/ recent'[x] = recent[x] \cup {NextAdmitted(recent[x], clock)}
      BY <1>1, <1>6 DEF LimiterInv, LimiterTypeOK
    <3> QED BY <3>1, <3>2, NextIsNew
  <2> HIDE DEF now, held, gone
  <2> QED BY <2>1, <2>2, <2>3, <1>7 DEF LimiterInv
<1>10. windowsNow' = [windowsNow EXCEPT ![k] = held[k]]
  <2>1. \A x \in Keys : windowsNow'[x] = IF x = k THEN held[k] ELSE windowsNow[x]
    <3> SUFFICES ASSUME NEW x \in Keys
                 PROVE  windowsNow'[x] = IF x = k THEN held[k] ELSE windowsNow[x]
      OBVIOUS
    <3>1. windowsNow'[x] = IF x \in DOMAIN clients' THEN clients'[x] ELSE forgotten'[x]
      BY DEF windowsNow
    <3>2. CASE x \in DOMAIN held
      <4>1. windowsNow'[x] = held[x]
        BY <3>1, <3>2, <1>6
      <4> QED BY <4>1, <3>2, <1>2 DEF windowsNow
    <3>3. CASE x \notin DOMAIN held
      BY <3>1, <3>3, <1>2, <1>5, <1>6 DEF windowsNow
    <3> QED BY <3>2, <3>3
  <2> HIDE DEF held
  <2> QED BY <2>1 DEF windowsNow
<1>11. /\ \/ Windows!Opens(windowsNow[k], held[k])
          \/ Windows!CountsOneMore(windowsNow[k], held[k])
       /\ CountedAs(windowsNow[k], now, held[k])
  <2>1. CASE k \in DOMAIN clients /\ ~Expired(clients[k], now)
    <3>1. windowsNow[k] = clients[k] /\ clients[k] \in Entry
      BY <2>1, <1>1 DEF windowsNow, LimiterInv, LimiterTypeOK
    <3>2. held[k] = [clients[k] EXCEPT !.count = @ + 1]
      BY <2>1, <1>2 DEF Counted
    <3>3. windowsNow[k].count > 0
      BY <3>1 DEF Entry
    <3>4. held[k] = [windowsNow[k] EXCEPT !.count = @ + 1]
      BY <3>1, <3>2
    <3>5. CountedAs(windowsNow[k], now, held[k])
      <4>1. held[k] = [started |-> windowsNow[k].started, count |-> windowsNow[k].count + 1]
        BY <3>1, <3>2 DEF Entry
      <4>2. now - windowsNow[k].started < Window
        BY <1>1, <2>1, <3>1, LimitsAssumption DEF Expired, Entry, Times
      <4> HIDE DEF held, now
      <4> QED BY <3>3, <4>1, <4>2 DEF CountedAs
    <3> HIDE DEF held
    <3> QED BY <3>3, <3>4, <3>5 DEF Windows!CountsOneMore
  <2>2. CASE k \notin DOMAIN clients \/ Expired(clients[k], now)
    <3>1. held[k] = [started |-> now, count |-> 1]
      BY <2>2, <1>2 DEF Counted
    <3>2. windowsNow[k].count > 0 => now - windowsNow[k].started >= Window
      <4>1. CASE k \in DOMAIN clients
        BY <4>1, <2>2, <1>1 DEF windowsNow, Expired
      <4>2. CASE k \notin DOMAIN clients
        <5>1. windowsNow[k] = forgotten[k] /\ forgotten[k].started \in Int
          BY <4>2, <1>1 DEF windowsNow, LimiterInv, LimiterTypeOK, Entry, Unopened, Times
        <5>2. forgotten[k].count > 0 => clock - forgotten[k].started > 2 * Window
          BY <1>1 DEF LimiterInv
        <5>3. /\ now \in Int /\ clock \in Int /\ Window \in Nat
              /\ clock - now <= Window
          BY <1>1, LimitsAssumption, DelayAssumption DEF Times, LimiterInv, LimiterTypeOK
        <5> HIDE DEF now
        <5> QED BY <5>1, <5>2, <5>3
      <4> QED BY <4>1, <4>2
    <3> HIDE DEF held, now
    <3>3. CountedAs(windowsNow[k], now, held[k])
      BY <3>1, <3>2 DEF CountedAs
    <3> QED BY <1>1, <3>1, <3>2, <3>3 DEF Windows!Opens
  <2> QED BY <2>1, <2>2
<1>12. windowsNow'[k] = held[k] /\ \A x \in Keys \ {k} : windowsNow'[x] = windowsNow[x]
  <2> HIDE DEF held
  <2> QED BY <1>1, <1>10 DEF windowsNow
<1>13. Admitted(r) <=> held[k].count <= Capacity
  BY <1>2 DEF Admitted
<1>14. Windows!Request(k)
  <2> HIDE DEF held
  <2> QED BY <1>10, <1>11, <1>12 DEF Windows!Request, windowsNow
<1> HIDE DEF held
<1> QED BY <1>1, <1>9, <1>11, <1>12, <1>13, <1>14

LEMMA LimiterSteps ==
    ASSUME LimiterInv, LimiterNext
    PROVE  LimiterInv' /\ (Windows!Next \/ UNCHANGED windowsNow)
<1>1. ASSUME NEW r \in Requests, Count(r)
      PROVE  LimiterInv' /\ Windows!Next
  <2>1. PICK k : k = asking[r].key
    OBVIOUS
  <2> QED BY <1>1, <2>1, CountIsAWindowStep DEF Windows!Next
<1>2. ASSUME NEW r \in Requests, NEW k \in Keys, Ask(r, k)
      PROVE  LimiterInv' /\ UNCHANGED windowsNow
  BY <1>2, AskKeepsWindows
<1>3. CASE LimiterRestarts
  BY <1>3, RestartIsReset DEF Windows!Next
<1> QED BY <1>1, <1>2, <1>3, TickKeepsWindows DEF LimiterNext

(***************************************************************************)
(* The limiter implements one that never evicts: middleware/audit.go:57-63 *)
(* cannot be felt, for every capacity, window, delay and number of         *)
(* clients.                                                                *)
(***************************************************************************)
THEOREM EvictionIsNotFelt == LimiterSpec => ImplementsFixedWindows
<1>1. LimiterInv /\ UNCHANGED limiterVars => LimiterInv' /\ UNCHANGED windowsNow
  BY DEF LimiterInv, LimiterTypeOK, limiterVars, windowsNow
<1>2. LimiterInv /\ [LimiterNext]_limiterVars
         => LimiterInv' /\ [Windows!Next]_windowsNow
  BY <1>1, LimiterSteps
<1>3. LimiterInit => LimiterInv /\ Windows!Init
  BY LimiterStarts
<1> QED BY <1>2, <1>3, PTL DEF LimiterSpec, ImplementsFixedWindows, Windows!Spec, windowsNow

-----------------------------------------------------------------------------
(***************************************************************************)
(* How many requests a limiter admits.  Each admission of the last         *)
(* Window + MaxDelay has a place: a window, named by its start, and a      *)
(* number in it.  No two have the same place; windows are Window apart,    *)
(* and what was admitted in one came at most Window + MaxDelay after its   *)
(* start, the one that opened it at most MaxDelay.                         *)
(***************************************************************************)
Place == [started : Int, number : 1 .. Capacity]

InItsPlace(a, place) ==
    /\ place.started <= a.at /\ a.at < place.started + Window + MaxDelay
    /\ place.number = 1 => a.at <= place.started + MaxDelay

Apart(place, other) ==
    \/ place.started = other.started
    \/ place.started + Window <= other.started
    \/ other.started + Window <= place.started

\* The places given out by the key's window, entry, and those before it.
Behind(place, entry) ==
    /\ entry.count > 0
    /\ \/ place.started = entry.started /\ place.number <= entry.count
       \/ place.started + Window <= entry.started

Placed(place, admitted, entry, time) ==
    /\ place \in [admitted -> Place]
    /\ \A a \in admitted : InItsPlace(a, place[a]) /\ Behind(place[a], entry)
    /\ \A a, b \in admitted : Apart(place[a], place[b]) /\ (place[a] = place[b] => a = b)
    /\ \A n \in 1 .. Capacity :
          n <= entry.count /\ time - entry.started < Window + MaxDelay =>
              \E a \in admitted : place[a] = [started |-> entry.started, number |-> n]

HasPlaces(admitted, entry, time) == \E place : Placed(place, admitted, entry, time)

AnEntry == [started : Int, count : Nat]

LEMMA NoneHavePlaces ==
    \A time : HasPlaces({}, Unopened, time)
<1> SUFFICES ASSUME NEW time PROVE HasPlaces({}, Unopened, time)
  OBVIOUS
<1> DEFINE place == [a \in {} |-> 0]
<1>1. Placed(place, {}, Unopened, time)
  BY DEF Placed, Unopened
<1> QED BY <1>1 DEF HasPlaces

\* Time passes: who is too old to count is left out.
LEMMA TimeKeepsPlaces ==
    ASSUME NEW time \in Int, NEW admitted \in SUBSET [at : Int, number : Nat],
           NEW entry \in AnEntry, HasPlaces(admitted, entry, time),
           NEW older, older = {a \in admitted : (time + 1) - a.at \in Ages},
           \A a \in admitted : a.at <= time
    PROVE  HasPlaces(older, entry, time + 1)
<1>1. PICK place : Placed(place, admitted, entry, time)
  BY DEF HasPlaces
<1> DEFINE kept == [a \in older |-> place[a]]
<1>2. kept \in [older -> Place] /\ \A a \in older : a \in admitted /\ kept[a] = place[a]
  BY <1>1 DEF Placed
<1>3. /\ \A a \in older : InItsPlace(a, kept[a]) /\ Behind(kept[a], entry)
      /\ \A a, b \in older : Apart(kept[a], kept[b]) /\ (kept[a] = kept[b] => a = b)
  BY <1>1, <1>2 DEF Placed
<1>4. ASSUME NEW n \in 1 .. Capacity, n <= entry.count,
             (time + 1) - entry.started < Window + MaxDelay
      PROVE  \E a \in older : kept[a] = [started |-> entry.started, number |-> n]
  <2>1. entry.started \in Int /\ Window \in Int /\ MaxDelay \in Int
    BY LimitsAssumption, DelayAssumption DEF AnEntry
  <2>2. time - entry.started < Window + MaxDelay
    BY <1>4, <2>1
  <2>3. PICK a \in admitted : place[a] = [started |-> entry.started, number |-> n]
    BY <1>1, <1>4, <2>2 DEF Placed
  <2>4. entry.started <= a.at /\ a.at <= time /\ a.at \in Int
    BY <1>1, <2>3 DEF Placed, InItsPlace
  <2>5. (time + 1) - a.at \in Ages
    BY <1>4, <2>1, <2>4 DEF Ages
  <2> QED BY <1>2, <2>3, <2>5
<1>5. Placed(kept, older, entry, time + 1)
  <2> HIDE DEF kept
  <2> QED BY <1>2, <1>3, <1>4 DEF Placed
<1> QED BY <1>5 DEF HasPlaces

LEMMA PlacesStayBehind ==
    ASSUME NEW entry \in AnEntry, NEW now \in Int, NEW next, CountedAs(entry, now, next),
           NEW place \in Place, Behind(place, entry)
    PROVE  Behind(place, next) /\ (place.started = next.started => place.number < next.count)
<1>1. Window \in Nat \ {0} /\ Capacity \in Nat \ {0}
  BY LimitsAssumption
<1>2. place.started \in Int /\ place.number \in 1 .. Capacity /\ entry.started \in Int /\ entry.count \in Nat
  BY DEF Place, AnEntry
<1>3. CASE entry.count > 0 /\ now - entry.started >= Window /\ next = [started |-> now, count |-> 1]
  <2>1. place.started + Window <= now
    BY <1>1, <1>2, <1>3 DEF Behind
  <2> QED BY <1>1, <1>2, <1>3, <2>1 DEF Behind
<1>4. CASE next = [started |-> entry.started, count |-> entry.count + 1]
  <2>1. next.started = entry.started /\ next.count = entry.count + 1
    BY <1>4
  <2> QED BY <1>1, <1>2, <2>1 DEF Behind
<1> QED BY <1>3, <1>4 DEF CountedAs, Behind

LEMMA RefusedTakesNoPlace ==
    ASSUME NEW time \in Int, NEW admitted, NEW entry \in AnEntry, HasPlaces(admitted, entry, time),
           NEW now \in Int, NEW next, CountedAs(entry, now, next), ~(next.count <= Capacity)
    PROVE  HasPlaces(admitted, next, time)
<1>1. PICK place : Placed(place, admitted, entry, time)
  BY DEF HasPlaces
<1>2. Capacity \in Nat \ {0} /\ entry.count \in Nat
  BY LimitsAssumption DEF AnEntry
<1>3. next = [started |-> entry.started, count |-> entry.count + 1]
  BY <1>2 DEF CountedAs
<1>4. next.started = entry.started /\ \A n \in 1 .. Capacity : n <= entry.count
  BY <1>2, <1>3
<1>5. \A a \in admitted : InItsPlace(a, place[a]) /\ Behind(place[a], next)
  BY <1>1, PlacesStayBehind DEF Placed
<1>6. Placed(place, admitted, next, time)
  BY <1>1, <1>4, <1>5 DEF Placed
<1> QED BY <1>6 DEF HasPlaces

LEMMA AdmittedTakesPlace ==
    ASSUME NEW time \in Int, NEW admitted, NEW entry \in AnEntry, HasPlaces(admitted, entry, time),
           entry.count > 0 => entry.started <= time,
           NEW now \in Int, now <= time, time - now <= MaxDelay,
           NEW next, CountedAs(entry, now, next), next.count <= Capacity,
           NEW a, a.at = time, a \notin admitted
    PROVE  HasPlaces(admitted \cup {a}, next, time)
<1>1. PICK place : Placed(place, admitted, entry, time)
  BY DEF HasPlaces
<1> DEFINE own == [started |-> next.started, number |-> next.count]
           after == [b \in admitted \cup {a} |-> IF b = a THEN own ELSE place[b]]
<1>2. /\ Window \in Nat \ {0} /\ Capacity \in Nat \ {0} /\ MaxDelay \in Nat
      /\ entry.started \in Int /\ entry.count \in Nat
  BY LimitsAssumption, DelayAssumption DEF AnEntry
<1>3. /\ next.started \in Int /\ next.count \in 1 .. Capacity
      /\ next.started <= time /\ time < next.started + Window + MaxDelay
      /\ next.count = 1 => time <= next.started + MaxDelay
  <2>1. CASE next = [started |-> now, count |-> 1]
    BY <1>2, <2>1
  <2>2. CASE /\ entry.count > 0 /\ now - entry.started < Window
             /\ next = [started |-> entry.started, count |-> entry.count + 1]
    <3>1. next.started = entry.started /\ next.count = entry.count + 1
      BY <2>2
    <3> QED BY <1>2, <2>2, <3>1
  <2> QED BY <2>1, <2>2 DEF CountedAs
<1>4. /\ own \in Place /\ own.started = next.started /\ own.number = next.count
      /\ InItsPlace(a, own) /\ Behind(own, next)
  BY <1>3 DEF Place, InItsPlace, Behind
<1> HIDE DEF own
<1>5. /\ \A b \in admitted : after[b] = place[b] /\ b # a
      /\ after[a] = own
      /\ \A b \in admitted : place[b] \in Place
  BY <1>1 DEF Placed
<1>6. after \in [admitted \cup {a} -> Place]
  BY <1>4, <1>5
<1> HIDE DEF after
<1>7. \A b \in admitted : /\ InItsPlace(b, place[b]) /\ Behind(place[b], next)
                          /\ place[b].started = next.started => place[b].number < next.count
  BY <1>1, <1>5, PlacesStayBehind DEF Placed
<1>8. \A b \in admitted : Apart(place[b], own) /\ Apart(own, place[b]) /\ place[b] # own
  <2> TAKE b \in admitted
  <2>1. place[b].started = own.started \/ place[b].started + Window <= own.started
    BY <1>4, <1>7 DEF Behind
  <2>2. place[b] # own
    BY <1>3, <1>4, <1>5, <1>7 DEF Place
  <2> QED BY <2>1, <2>2 DEF Apart
<1>9. Apart(own, own)
  BY DEF Apart
<1>10. \A b, c \in admitted \cup {a} : Apart(after[b], after[c]) /\ (after[b] = after[c] => b = c)
  <2> TAKE b, c \in admitted \cup {a}
  <2>1. CASE b = a /\ c = a
    BY <1>5, <1>9, <2>1
  <2>2. CASE b \in admitted /\ c \in admitted
    BY <1>1, <1>5, <2>2 DEF Placed
  <2>3. CASE b = a /\ c \in admitted
    BY <1>5, <1>8, <2>3
  <2>4. CASE b \in admitted /\ c = a
    BY <1>5, <1>8, <2>4
  <2> QED BY <2>1, <2>2, <2>3, <2>4
<1>11. ASSUME NEW n \in 1 .. Capacity, n <= next.count, time - next.started < Window + MaxDelay
       PROVE  \E b \in admitted \cup {a} : after[b] = [started |-> next.started, number |-> n]
  <2>1. CASE n = next.count
    BY <1>5, <2>1 DEF own
  <2>2. CASE n # next.count
    <3>1. entry.count > 0 /\ next.started = entry.started /\ n <= entry.count
      <4>1. CASE next = [started |-> now, count |-> 1]
        BY <1>11, <2>2, <4>1
      <4>2. CASE entry.count > 0 /\ next = [started |-> entry.started, count |-> entry.count + 1]
        <5>1. next.count = entry.count + 1 /\ next.started = entry.started
          BY <4>2
        <5> QED BY <1>2, <1>11, <2>2, <4>2, <5>1
      <4> QED BY <4>1, <4>2 DEF CountedAs
    <3>2. PICK b \in admitted : place[b] = [started |-> entry.started, number |-> n]
      BY <1>1, <1>11, <3>1 DEF Placed
    <3> QED BY <1>5, <3>1, <3>2
  <2> QED BY <2>1, <2>2
<1>12. \A b \in admitted \cup {a} : InItsPlace(b, after[b]) /\ Behind(after[b], next)
  BY <1>4, <1>5, <1>7
<1>13. Placed(after, admitted \cup {a}, next, time)
  BY <1>6, <1>10, <1>11, <1>12 DEF Placed
<1> QED BY <1>13 DEF HasPlaces

(***************************************************************************)
(* The bounds.  Two places with starts in the same stretch of length       *)
(* Window have the same start: three stretches reach back as far as an     *)
(* admission of the last Window can, and the third has no place 1.         *)
(***************************************************************************)
LEMMA PlacesBoundBursts ==
    ASSUME NEW time \in Int, NEW admitted \in SUBSET [at : Int, number : Nat], NEW entry,
           HasPlaces(admitted, entry, time), \A a \in admitted : a.at <= time
    PROVE  Cardinality({a \in admitted : time - a.at \in 0 .. Window - 1})
              <= IF MaxDelay = 0 THEN 2 * Capacity ELSE 3 * Capacity - 1
<1>1. PICK place : Placed(place, admitted, entry, time)
  BY DEF HasPlaces
<1> DEFINE burst == {a \in admitted : time - a.at \in 0 .. Window - 1}
           bound == IF MaxDelay = 0 THEN 2 * Capacity ELSE 3 * Capacity - 1
           s(a) == place[a].started
           n(a) == place[a].number
           f == [a \in burst |-> IF s(a) > time - Window THEN n(a)
                                 ELSE IF s(a) > time - 2 * Window THEN Capacity + n(a)
                                 ELSE 2 * Capacity + n(a) - 1]
<1>2. Window \in Nat \ {0} /\ Capacity \in Nat \ {0} /\ MaxDelay \in Nat /\ MaxDelay <= Window
  BY LimitsAssumption, DelayAssumption
<1>3. \A a \in burst : /\ s(a) \in Int /\ n(a) \in 1 .. Capacity /\ a.at \in Int
                       /\ time - a.at < Window /\ a.at <= time
                       /\ s(a) <= a.at /\ a.at < s(a) + Window + MaxDelay
                       /\ n(a) = 1 => a.at <= s(a) + MaxDelay
  BY <1>1, <1>2 DEF Placed, InItsPlace, Place
<1>4. \A a, b \in burst : /\ \/ s(a) = s(b) \/ s(a) + Window <= s(b) \/ s(b) + Window <= s(a)
                          /\ s(a) = s(b) /\ n(a) = n(b) => a = b
  <2> TAKE a, b \in burst
  <2>1. Apart(place[a], place[b]) /\ (place[a] = place[b] => a = b)
    BY <1>1 DEF Placed
  <2>2. place[a] \in Place /\ place[b] \in Place
    BY <1>1 DEF Placed
  <2>3. s(a) = s(b) /\ n(a) = n(b) => place[a] = place[b]
    BY <2>2 DEF Place
  <2> QED BY <2>1, <2>3 DEF Apart
<1> HIDE DEF s, n, burst
<1>5. \A a \in burst : s(a) <= time /\ s(a) > time - 3 * Window
  BY <1>2, <1>3
<1>6. \A a \in burst : ~(s(a) > time - 2 * Window) => n(a) # 1 /\ MaxDelay # 0
  BY <1>2, <1>3
<1>7. \A a \in burst : f[a] \in 1 .. bound
  BY <1>2, <1>3, <1>6
<1>8. \A a, b \in burst : f[a] = f[b] => a = b
  <2> TAKE a, b \in burst
  <2> HAVE f[a] = f[b]
  <2>1. /\ s(a) \in Int /\ s(b) \in Int /\ n(a) \in 1 .. Capacity /\ n(b) \in 1 .. Capacity
        /\ s(a) <= time /\ s(a) > time - 3 * Window /\ s(b) <= time /\ s(b) > time - 3 * Window
        /\ ~(s(a) > time - 2 * Window) => n(a) # 1
        /\ ~(s(b) > time - 2 * Window) => n(b) # 1
    BY <1>3, <1>5, <1>6
  <2>2. \/ s(a) > time - Window /\ s(b) > time - Window
        \/ s(a) \in time - 2 * Window + 1 .. time - Window /\ s(b) \in time - 2 * Window + 1 .. time - Window
        \/ ~(s(a) > time - 2 * Window) /\ ~(s(b) > time - 2 * Window)
    BY <1>2, <2>1
  <2>3. s(a) = s(b)
    BY <1>2, <1>4, <2>1, <2>2
  <2>4. n(a) = n(b)
    BY <1>2, <2>1, <2>3
  <2> QED BY <1>4, <2>3, <2>4
<1>9. f \in Injection(burst, 1 .. bound)
  <2>1. f \in [burst -> 1 .. bound]
    BY <1>7
  <2> HIDE DEF f
  <2> QED BY <1>8, <2>1 DEF Injection, IsInjective
<1>10. bound \in Nat
  BY <1>2
<1>11. IsFiniteSet(1 .. bound) /\ Cardinality(1 .. bound) = bound
  <2> HIDE DEF bound
  <2>1. Cardinality(1 .. bound) = bound - 1 + 1
    BY <1>10, FS_Interval
  <2> QED BY <1>10, <2>1, FS_Interval
<1>12. Cardinality(burst) <= Cardinality(1 .. bound)
  <2> HIDE DEF f, bound
  <2> QED BY <1>9, <1>11, FS_Injection
<1> QED BY <1>11, <1>12 DEF burst

LEMMA PlacesBackRefusals ==
    ASSUME NEW time \in Int, NEW admitted \in SUBSET [at : Int, number : Nat],
           NEW entry \in AnEntry, HasPlaces(admitted, entry, time), IsFiniteSet(admitted),
           \A a \in admitted : a.at <= time,
           NEW now \in Int, now <= time, time - now <= MaxDelay,
           now - entry.started < Window, entry.count >= Capacity
    PROVE  Cardinality({a \in admitted : time - a.at \in 0 .. (time - now) + Window - 1}) >= Capacity
<1>1. PICK place : Placed(place, admitted, entry, time)
  BY DEF HasPlaces
<1>2. /\ Window \in Nat \ {0} /\ Capacity \in Nat \ {0} /\ MaxDelay \in Nat
      /\ entry.started \in Int /\ entry.count \in Nat
  BY LimitsAssumption, DelayAssumption DEF AnEntry
<1> DEFINE deserved == {a \in admitted : time - a.at \in 0 .. (time - now) + Window - 1}
           spot(n) == [started |-> entry.started, number |-> n]
           f == [n \in 1 .. Capacity |-> CHOOSE a \in admitted : place[a] = spot(n)]
<1>3. \A n \in 1 .. Capacity : f[n] \in admitted /\ place[f[n]] = spot(n)
  <2> TAKE n \in 1 .. Capacity
  <2>1. \E a \in admitted : place[a] = spot(n)
    BY <1>1, <1>2 DEF Placed
  <2> QED BY <2>1
<1> HIDE DEF f
<1>4. \A n \in 1 .. Capacity : f[n] \in deserved
  <2> TAKE n \in 1 .. Capacity
  <2>1. PICK a \in admitted : a = f[n] /\ place[a] = spot(n)
    BY <1>3
  <2>2. place[a].started = entry.started
    BY <2>1
  <2>3. entry.started <= a.at /\ a.at \in Int /\ a.at <= time
    BY <1>1, <2>2 DEF Placed, InItsPlace
  <2>4. time - a.at \in 0 .. (time - now) + Window - 1
    BY <1>2, <2>3
  <2> QED BY <2>1, <2>4
<1>5. \A n, m \in 1 .. Capacity : f[n] = f[m] => n = m
  <2> TAKE n, m \in 1 .. Capacity
  <2>1. spot(n).number = n /\ spot(m).number = m
    OBVIOUS
  <2> HIDE DEF spot
  <2> QED BY <1>3, <2>1
<1>6. f \in [1 .. Capacity -> deserved]
  BY <1>4 DEF f
<1>7. f \in Injection(1 .. Capacity, deserved)
  <2> HIDE DEF deserved
  <2> QED BY <1>5, <1>6 DEF Injection, IsInjective
<1>8. IsFiniteSet(deserved)
  BY FS_Subset
<1>9. Cardinality(1 .. Capacity) = Capacity
  BY <1>2, FS_Interval
<1>10. Cardinality(1 .. Capacity) <= Cardinality(deserved)
  <2> HIDE DEF deserved
  <2> QED BY <1>7, <1>8, FS_Injection
<1>11. Cardinality(deserved) \in Nat
  <2> HIDE DEF deserved
  <2> QED BY <1>8, FS_CardinalityType
<1> QED BY <1>2, <1>9, <1>10, <1>11

\* The window of each key has places for its admissions, and is not to come.
PlacesInv ==
    \A k \in Keys : /\ windowsNow[k].started <= clock
                    /\ HasPlaces(recent[k], windowsNow[k], clock)

LEMMA WindowsAreEntries ==
    ASSUME LimiterInv
    PROVE  /\ clock \in Int
           /\ \A k \in Keys : /\ windowsNow[k] \in AnEntry
                              /\ recent[k] \in SUBSET [at : Int, number : Nat]
                              /\ IsFiniteSet(recent[k]) /\ \A a \in recent[k] : a.at <= clock
<1> SUFFICES ASSUME NEW k \in Keys
             PROVE  /\ clock \in Int
                    /\ windowsNow[k] \in AnEntry
                    /\ recent[k] \in SUBSET [at : Int, number : Nat]
                    /\ IsFiniteSet(recent[k]) /\ \A a \in recent[k] : a.at <= clock
  BY DEF LimiterInv, LimiterTypeOK, Times
<1>1. recent[k] \in SUBSET Admission /\ Numbered(recent[k], clock) /\ clock \in Int
  BY DEF LimiterInv, LimiterTypeOK, Times
<1>2. windowsNow[k] \in AnEntry
  BY DEF LimiterInv, LimiterTypeOK, windowsNow, AnEntry, Entry, Unopened, Times
<1> QED BY <1>1, <1>2 DEF Admission, Times, Numbered

LEMMA PlacesStart ==
    /\ LimiterInit => PlacesInv
    /\ LimiterRestarts => PlacesInv'
<1>1. LimiterInit => PlacesInv
  BY NoneHavePlaces DEF LimiterInit, PlacesInv, windowsNow, Unopened
<1>2. LimiterRestarts => PlacesInv'
  <2> SUFFICES ASSUME LimiterRestarts, NEW k \in Keys
               PROVE  windowsNow'[k].started <= clock' /\ HasPlaces(recent'[k], windowsNow'[k], clock')
    BY DEF PlacesInv
  <2>1. recent'[k] = {} /\ windowsNow'[k] = Unopened /\ clock' = 0
    BY DEF LimiterRestarts, windowsNow
  <2> QED BY <2>1, NoneHavePlaces DEF Unopened
<1> QED BY <1>1, <1>2

LEMMA LimiterKeepsPlaces ==
    ASSUME LimiterInv, PlacesInv, LimiterNext
    PROVE  PlacesInv'
<1>1. CASE LimiterRestarts
  BY <1>1, PlacesStart
<1>2. ASSUME NEW r \in Requests, NEW k \in Keys, Ask(r, k)
      PROVE  PlacesInv'
  <2>1. UNCHANGED <<windowsNow, clock, recent>>
    BY <1>2 DEF Ask, windowsNow
  <2> QED BY <2>1 DEF PlacesInv
<1>3. CASE Tick
  <2> SUFFICES ASSUME NEW k \in Keys
               PROVE  windowsNow'[k].started <= clock' /\ HasPlaces(recent'[k], windowsNow'[k], clock')
    BY DEF PlacesInv
  <2>1. /\ clock' = clock + 1 /\ windowsNow' = windowsNow
        /\ recent'[k] = {a \in recent[k] : (clock + 1) - a.at \in Ages}
    BY <1>3 DEF Tick, windowsNow
  <2>2. /\ clock \in Int /\ windowsNow[k] \in AnEntry
        /\ recent[k] \in SUBSET [at : Int, number : Nat] /\ \A a \in recent[k] : a.at <= clock
        /\ windowsNow[k].started <= clock /\ HasPlaces(recent[k], windowsNow[k], clock)
    BY WindowsAreEntries DEF PlacesInv
  <2>3. HasPlaces(recent'[k], windowsNow[k], clock + 1)
    BY <2>1, <2>2, TimeKeepsPlaces
  <2>4. windowsNow[k].started <= clock + 1
    BY <2>2 DEF AnEntry
  <2> QED BY <2>1, <2>3, <2>4
<1>4. ASSUME NEW r \in Requests, Count(r)
      PROVE  PlacesInv'
  <2> DEFINE k == asking[r].key
             now == asking[r].now
  <2>1. /\ k \in Keys
        /\ CountedAs(windowsNow[k], now, windowsNow'[k])
        /\ \A x \in Keys \ {k} : windowsNow'[x] = windowsNow[x]
        /\ Admitted(r) <=> windowsNow'[k].count <= Capacity
    BY <1>4, CountIsAWindowStep
  <2>2. /\ clock' = clock
        /\ recent' = IF Admitted(r)
                     THEN [recent EXCEPT ![k] = @ \cup {NextAdmitted(recent[k], clock)}]
                     ELSE recent
    BY <1>4 DEF Count
  <2>3. now \in Int /\ now <= clock /\ clock - now <= MaxDelay
    BY <1>4 DEF Count, LimiterInv, LimiterTypeOK, Times
  <2> HIDE DEF k, now
  <2>4. \A x \in Keys \ {k} : recent'[x] = recent[x]
    BY <2>1, <2>2 DEF LimiterInv, LimiterTypeOK
  <2>5. /\ clock \in Int /\ windowsNow[k] \in AnEntry
        /\ windowsNow[k].started <= clock /\ HasPlaces(recent[k], windowsNow[k], clock)
    BY <2>1, WindowsAreEntries DEF PlacesInv
  <2>6. windowsNow'[k].started <= clock
    BY <2>1, <2>3, <2>5 DEF CountedAs
  <2>7. HasPlaces(recent'[k], windowsNow'[k], clock)
    <3>1. CASE Admitted(r)
      <4> DEFINE a == NextAdmitted(recent[k], clock)
      <4>1. recent'[k] = recent[k] \cup {a}
        BY <2>1, <2>2, <3>1 DEF LimiterInv, LimiterTypeOK
      <4>2. a.at = clock /\ a \notin recent[k]
        <5>1. clock \in Times /\ Numbered(recent[k], clock)
          BY <2>1 DEF LimiterInv, LimiterTypeOK
        <5>2. recent[k] \in SUBSET Admission
          BY <2>1 DEF LimiterInv, LimiterTypeOK
        <5>3. \A time \in Times, admitted \in SUBSET Admission :
                 Numbered(admitted, time) => /\ NextAdmitted(admitted, time).at = time
                                             /\ NextAdmitted(admitted, time) \notin admitted
          BY NextIsNew
        <5> QED BY <5>1, <5>2, <5>3
      <4> HIDE DEF a
      <4>3. windowsNow'[k].count <= Capacity
        BY <2>1, <3>1
      <4>4. HasPlaces(recent[k] \cup {a}, windowsNow'[k], clock)
        BY <2>1, <2>3, <2>5, <4>2, <4>3, AdmittedTakesPlace
      <4> QED BY <4>1, <4>4
    <3>2. CASE ~Admitted(r)
      <4>1. recent'[k] = recent[k]
        BY <2>2, <3>2
      <4> QED BY <2>1, <2>3, <2>5, <3>2, <4>1, RefusedTakesNoPlace
    <3> QED BY <3>1, <3>2
  <2> SUFFICES ASSUME NEW x \in Keys
               PROVE  windowsNow'[x].started <= clock' /\ HasPlaces(recent'[x], windowsNow'[x], clock')
    BY DEF PlacesInv
  <2>8. CASE x = k
    BY <2>2, <2>6, <2>7, <2>8
  <2>9. CASE x # k
    BY <2>1, <2>2, <2>4, <2>9 DEF PlacesInv
  <2> QED BY <2>8, <2>9
<1> QED BY <1>1, <1>2, <1>3, <1>4 DEF LimiterNext

LEMMA PlacesBound == LimiterInv /\ PlacesInv => BurstBound
<1> SUFFICES ASSUME LimiterInv, PlacesInv, NEW k \in Keys
             PROVE  AdmittedWithin(k, 0 .. Window - 1)
                       <= IF MaxDelay = 0 THEN 2 * Capacity ELSE 3 * Capacity - 1
  BY DEF BurstBound
<1>1. /\ clock \in Int /\ recent[k] \in SUBSET [at : Int, number : Nat]
      /\ \A a \in recent[k] : a.at <= clock
      /\ HasPlaces(recent[k], windowsNow[k], clock)
  BY WindowsAreEntries DEF PlacesInv
<1> QED BY <1>1, PlacesBoundBursts DEF AdmittedWithin

LEMMA PlacesDeserve == LimiterInv /\ PlacesInv => RefusalIsDeserved
<1> SUFFICES ASSUME LimiterInv, PlacesInv, NEW r \in DOMAIN asking, ~Admitted(r)
             PROVE  AdmittedWithin(asking[r].key, 0 .. (clock - asking[r].now) + Window - 1) >= Capacity
  BY DEF RefusalIsDeserved
<1> DEFINE k == asking[r].key
           now == asking[r].now
<1>1. k \in Keys /\ now \in Int /\ now <= clock /\ clock - now <= MaxDelay
  BY DEF LimiterInv, LimiterTypeOK, Times
<1>2. /\ clock \in Int /\ recent[k] \in SUBSET [at : Int, number : Nat]
      /\ IsFiniteSet(recent[k]) /\ \A a \in recent[k] : a.at <= clock
      /\ windowsNow[k] \in AnEntry /\ HasPlaces(recent[k], windowsNow[k], clock)
  BY <1>1, WindowsAreEntries DEF PlacesInv
<1>3. Capacity \in Nat \ {0} /\ Window \in Nat
  BY LimitsAssumption
<1>4. ~(Counted(k, now).count <= Capacity)
  BY DEF Admitted
<1>5. k \in DOMAIN clients /\ ~Expired(clients[k], now)
  BY <1>3, <1>4 DEF Counted
<1>6. windowsNow[k] = clients[k] /\ Counted(k, now) = [clients[k] EXCEPT !.count = @ + 1]
  BY <1>1, <1>5 DEF windowsNow, Counted
<1> HIDE DEF k, now
<1>7. windowsNow[k].started \in Int /\ windowsNow[k].count \in Nat
  BY <1>2 DEF AnEntry
<1>8. now - windowsNow[k].started < Window
  BY <1>1, <1>3, <1>5, <1>6, <1>7 DEF Expired
<1>9. windowsNow[k].count >= Capacity
  <2>1. clients[k] \in AnEntry
    BY <1>2, <1>6
  <2>2. Counted(k, now).count = windowsNow[k].count + 1
    BY <1>6, <2>1 DEF AnEntry
  <2> QED BY <1>3, <1>4, <1>7, <2>2
<1>10. AdmittedWithin(k, 0 .. (clock - now) + Window - 1) >= Capacity
  BY <1>1, <1>2, <1>8, <1>9, PlacesBackRefusals DEF AdmittedWithin
<1> QED BY <1>10 DEF k, now

\* A client has twice the capacity admitted in a window's time, or three times
\* less one when requests can be late at the mutex, whatever limits are set
\* and however many clients are evicted (RateLimiter.Middleware).
THEOREM BurstsAreBounded == LimiterSpec => []BurstBound
<1>1. LimiterInv /\ PlacesInv /\ [LimiterNext]_limiterVars => (LimiterInv /\ PlacesInv)'
  <2>1. LimiterInv /\ PlacesInv /\ UNCHANGED limiterVars => (LimiterInv /\ PlacesInv)'
    BY DEF LimiterInv, LimiterTypeOK, PlacesInv, limiterVars, windowsNow
  <2> QED BY <2>1, LimiterSteps, LimiterKeepsPlaces
<1> QED BY <1>1, LimiterStarts, PlacesStart, PlacesBound, PTL DEF LimiterSpec

\* Who is refused had the whole capacity in the Window before its reading.
THEOREM RefusalsAreDeserved == LimiterSpec => []RefusalIsDeserved
<1>1. LimiterInv /\ PlacesInv /\ [LimiterNext]_limiterVars => (LimiterInv /\ PlacesInv)'
  <2>1. LimiterInv /\ PlacesInv /\ UNCHANGED limiterVars => (LimiterInv /\ PlacesInv)'
    BY DEF LimiterInv, LimiterTypeOK, PlacesInv, limiterVars, windowsNow
  <2> QED BY <2>1, LimiterSteps, LimiterKeepsPlaces
<1> QED BY <1>1, LimiterStarts, PlacesStart, PlacesDeserve, PTL DEF LimiterSpec

-----------------------------------------------------------------------------
\* The process.

\* What the limiter sees of each step: one of its own, or nothing.
LEMMA ProcessStepsTheLimiter ==
    ASSUME Next
    PROVE  LimiterNext \/ UNCHANGED limiterVars
<1>1. ASSUME NEW r \in Requests, NEW token \in known, NEW k \in Keys, Enter(r, token, k)
      PROVE  LimiterNext
  BY <1>1 DEF Enter, LimiterNext
<1>2. ASSUME NEW r \in Requests, Passes(r)
      PROVE  LimiterNext
  BY <1>2 DEF Passes, LimiterNext
<1>3. Dies => LimiterNext
  BY DEF Dies, LimiterNext
<1>4. CASE Serves
  <2>1. ASSUME NEW r \in Requests, Returns(r)
        PROVE  UNCHANGED limiterVars
    BY <2>1 DEF Returns
  <2> QED BY <1>1, <1>2, <1>4, <2>1 DEF Serves
<1>5. CASE Crash \/ StoppedEarly \/ ShutsDown \/ DrainTimesOut
  BY <1>3, <1>5 DEF Crash, StoppedEarly, ShutsDown, DrainTimesOut
<1>6. CASE TimePasses
  BY <1>6 DEF TimePasses, LimiterNext
<1>7. CASE Start \/ SeedsAccount \/ SeedsDemo \/ Listen \/ Drain
  BY <1>7 DEF Start, SeedsAccount, SeedsDemo, SeedCounts, SeedInserts, SeedLooksUp,
              Listen, Drain
<1>8. ASSUME NEW u \in Staff, NEW row \in Grants, AltersUser(u, row)
      PROVE  UNCHANGED limiterVars
  BY <1>8 DEF AltersUser
<1> QED BY <1>4, <1>5, <1>6, <1>7, <1>8 DEF Next

(***************************************************************************)
(* The limiter of the running server implements one that never evicts, as  *)
(* often as the process dies and starts again.                             *)
(***************************************************************************)
THEOREM ServerEvictionIsNotFelt == Spec => ImplementsFixedWindows
<1>1. LimiterInv /\ UNCHANGED limiterVars => LimiterInv' /\ UNCHANGED windowsNow
  BY DEF LimiterInv, LimiterTypeOK, limiterVars, windowsNow
<1>2. LimiterInv /\ [Next]_vars => LimiterInv' /\ [Windows!Next]_windowsNow
  BY <1>1, LimiterSteps, ProcessStepsTheLimiter DEF vars
<1>3. Init => LimiterInv /\ Windows!Init
  BY LimiterStarts DEF Init
<1> QED BY <1>2, <1>3, PTL DEF Spec, ImplementsFixedWindows, Windows!Spec, windowsNow

(***************************************************************************)
(* The limiter of the running server admits no more, and refuses no sooner *)
(* than the limiter by itself, as often as the process dies.               *)
(***************************************************************************)
THEOREM ServerLimitsAreKept == Spec => [](BurstBound /\ RefusalIsDeserved)
<1> DEFINE Inv == LimiterInv /\ PlacesInv
<1>1. Inv /\ UNCHANGED limiterVars => Inv'
  BY DEF LimiterInv, LimiterTypeOK, PlacesInv, limiterVars, windowsNow
<1>2. Inv /\ [Next]_vars => Inv'
  BY <1>1, LimiterSteps, LimiterKeepsPlaces, ProcessStepsTheLimiter DEF vars
<1>3. Init => Inv
  BY LimiterStarts, PlacesStart DEF Init
<1>4. Inv => BurstBound /\ RefusalIsDeserved
  BY PlacesBound, PlacesDeserve
<1> QED BY <1>2, <1>3, <1>4, PTL DEF Spec

-----------------------------------------------------------------------------
\* The demo survey.

Full == {"area", "plan", "run"}

\* What a start can find: nothing, the whole survey, or a torn one.
Found ==
    \/ demo \in {{}, Full} /\ ~torn
    \/ demo \in {{"area"}, {"area", "plan"}} /\ torn

(***************************************************************************)
(* How far seed is says which rows there are.                              *)
(***************************************************************************)
SeedInv ==
    /\ phase \in {"off", "seeding", "serving", "draining", "stopped"}
    /\ seedStep \in SeedSteps
    /\ phase \in {"off", "stopped"} => seedStep = "accounts"
    /\ phase \in {"serving", "draining"} => seedStep = "listen"
    /\ seedStep \in {"accounts", "count"} => Found
    /\ seedStep = "area" => demo = {} /\ ~torn
    /\ seedStep \in {"planner", "plan"} => demo = {"area"} /\ ~torn
    /\ seedStep \in {"processor", "run"} => demo = {"area", "plan"} /\ ~torn
    /\ seedStep = "listen" => Found /\ demo # {}

LEMMA SeedStarts == Init => SeedInv
BY DEF Init, SeedInv, SeedSteps, Found

\* A process that dies leaves what a start can find.
LEMMA DeathLeavesSeed ==
    ASSUME SeedInv, Dies, phase' \in {"off", "stopped"}
    PROVE  SeedInv'
<1>1. UNCHANGED demo /\ seedStep' = "accounts"
      /\ torn' = (torn \/ seedStep \in {"planner", "plan", "processor", "run"})
  BY DEF Dies, databaseVars
<1>2. CASE seedStep \in {"planner", "plan", "processor", "run"}
  BY <1>1, <1>2 DEF SeedInv, SeedSteps, Found
<1>3. CASE seedStep \in {"accounts", "count", "area", "listen"}
  BY <1>1, <1>3 DEF SeedInv, SeedSteps, Found
<1> QED BY <1>2, <1>3 DEF SeedInv, SeedSteps

LEMMA SeedGoesOn ==
    ASSUME SeedInv, [Next]_vars
    PROVE  SeedInv'
<1>1. CASE Start
  BY <1>1 DEF Start, SeedInv, SeedSteps, Found, databaseVars
<1>2. CASE SeedsAccount
  BY <1>2 DEF SeedsAccount, SeedInv, SeedSteps, Found
<1>3. CASE SeedsDemo
  <2>1. CASE SeedCounts
    BY <2>1 DEF SeedCounts, AlreadySeeded, SeedInv, SeedSteps, Found, Full, databaseVars
  <2>2. CASE SeedInserts("area", "planner")
    BY <2>2 DEF SeedInserts, SeedInv, SeedSteps, Found, Full
  <2>3. CASE SeedLooksUp("planner", Planner, "plan")
    BY <2>3 DEF SeedLooksUp, SeedInv, SeedSteps, Found, databaseVars
  <2>4. CASE SeedInserts("plan", "processor")
    BY <2>4 DEF SeedInserts, SeedInv, SeedSteps, Found, Full
  <2>5. CASE SeedLooksUp("processor", Processor, "run")
    BY <2>5 DEF SeedLooksUp, SeedInv, SeedSteps, Found, databaseVars
  <2>6. CASE SeedInserts("run", "listen")
    BY <2>6 DEF SeedInserts, SeedInv, SeedSteps, Found, Full
  <2> QED BY <1>3, <2>1, <2>2, <2>3, <2>4, <2>5, <2>6 DEF SeedsDemo
<1>4. CASE Listen \/ Drain
  BY <1>4 DEF Listen, Drain, SeedInv, SeedSteps, Found, databaseVars
<1>5. CASE Crash \/ StoppedEarly \/ ShutsDown \/ DrainTimesOut
  BY <1>5, DeathLeavesSeed DEF Crash, StoppedEarly, ShutsDown, DrainTimesOut
<1>6. CASE Serves \/ TimePasses
  <2>1. UNCHANGED <<demo, phase, seedStep, torn>>
    BY <1>6 DEF Serves, Passes, Returns, Enter, TimePasses, databaseVars, lifeVars
  <2> QED BY <2>1 DEF SeedInv, Found
<1>7. CASE \E u \in Staff, row \in Grants : AltersUser(u, row)
  BY <1>7 DEF AltersUser, SeedInv, SeedSteps, Found, lifeVars
<1>8. CASE UNCHANGED vars
  BY <1>8 DEF vars, databaseVars, lifeVars, SeedInv, SeedSteps, Found
<1> QED BY <1>1, <1>2, <1>3, <1>4, <1>5, <1>6, <1>7, <1>8 DEF Next

(***************************************************************************)
(* A serving server has the whole demo survey or knows of a start that     *)
(* died between its rows (config.go:103-131), for any accounts and however *)
(* often it crashed.                                                       *)
(***************************************************************************)
THEOREM DemoSurveyIsWhole == Spec => []DemoIsWhole
<1>1. SeedInv => DemoIsWhole
  BY DEF SeedInv, Found, Full, DemoIsWhole
<1> QED BY <1>1, SeedStarts, SeedGoesOn, PTL DEF Spec

-----------------------------------------------------------------------------
\* Access.

Seeded(a) == [role |-> SeedRole[a], active |-> TRUE]

AccessTypes ==
    /\ account \in DOMAIN SeedAccounts
    /\ DOMAIN users \subseteq Accounts /\ users \in [DOMAIN users -> User]
    /\ DOMAIN claims = DOMAIN asking /\ claims \in [DOMAIN claims -> Claims]
    /\ overtaken \subseteq DOMAIN claims /\ handling \subseteq Requests
    /\ granted \in [Accounts -> User] /\ known \subseteq Claims

(***************************************************************************)
(* The table holds what each user was granted last, whatever seed has done *)
(* since, and so do the claims of a request until its user is altered.     *)
(***************************************************************************)
GrantsOK ==
    /\ \A u \in Accounts :
          granted[u] = IF u \in DOMAIN users THEN users[u] ELSE Seeded(u)
    /\ \A r \in DOMAIN claims \ overtaken :
          granted[claims[r].user] = [role |-> claims[r].role, active |-> TRUE]

AccessInv == AccessTypes /\ GrantsOK

\* What AccessInv looks at.
accessState == <<account, users, claims, handling, DOMAIN asking, overtaken, granted, known>>

LEMMA AccountsAreSeeded ==
    /\ 1 \in DOMAIN SeedAccounts
    /\ \A i \in DOMAIN SeedAccounts :
          /\ SeedAccounts[i] \in Accounts /\ Seeded(SeedAccounts[i]) \in User
          /\ i # Len(SeedAccounts) => i + 1 \in DOMAIN SeedAccounts
<1>1. SeedAccounts \in Seq(Accounts) /\ SeedAccounts # <<>>
  BY AccountsAssumption
<1>2. DOMAIN SeedAccounts = 1 .. Len(SeedAccounts) /\ Len(SeedAccounts) \in Nat \ {0}
  BY <1>1
<1> QED BY <1>1, <1>2, AccountsAssumption DEF Accounts, Seeded, User

LEMMA TokensAreClaims ==
    ASSUME NEW table, table \in [DOMAIN table -> User]
    PROVE  LoginClaims(table) \subseteq Claims
BY AccountsAssumption DEF LoginClaims, Claims, User

LEMMA AccessStarts == Init => AccessInv
<1>1. \A a \in Accounts : Seeded(a) \in User
  BY AccountsAssumption DEF Seeded, User
<1> QED BY <1>1, AccountsAreSeeded
        DEF Init, LimiterInit, AccessInv, AccessTypes, GrantsOK, Seeded

\* A start that finds its account leaves it, and one that does not gives it
\* what it was to be granted.
LEMMA SeedingKeepsGrants ==
    ASSUME AccessInv, SeedsAccount
    PROVE  AccessInv'
<1> DEFINE a == SeedAccounts[account]
<1>1. /\ account \in DOMAIN SeedAccounts /\ a \in Accounts /\ Seeded(a) \in User
      /\ account' \in DOMAIN SeedAccounts
  BY AccountsAreSeeded DEF AccessInv, AccessTypes, SeedsAccount
<1>2. /\ DOMAIN users' = DOMAIN users \cup {a}
      /\ \A x \in DOMAIN users' : users'[x] = IF x \in DOMAIN users THEN users[x] ELSE Seeded(x)
      /\ users' \in [DOMAIN users' -> User]
  <2> HIDE DEF a
  <2>1. users' = FirstOrCreate(a)
    BY DEF SeedsAccount, a
  <2>2. CASE a \in DOMAIN users
    BY <2>1, <2>2 DEF FirstOrCreate, AccessInv, AccessTypes
  <2>3. CASE a \notin DOMAIN users
    <3>1. users' = [x \in DOMAIN users \cup {a} |-> IF x = a THEN Seeded(a) ELSE users[x]]
      BY <2>1, <2>3 DEF FirstOrCreate, Seeded
    <3> QED BY <3>1, <2>3, <1>1 DEF AccessInv, AccessTypes
  <2> QED BY <2>2, <2>3
<1>3. UNCHANGED <<asking, claims, handling, overtaken, granted, known>>
  BY DEF SeedsAccount, limiterVars, accessVars, grantVars
<1> HIDE DEF a
<1> QED BY <1>1, <1>2, <1>3 DEF AccessInv, AccessTypes, GrantsOK

LEMMA EnteringKeepsGrants ==
    ASSUME AccessInv, NEW r \in Requests, NEW token \in known, NEW k \in Keys,
           Enter(r, token, k)
    PROVE  AccessInv'
<1>1. /\ r \notin DOMAIN claims /\ token \in Claims
      /\ claims' = [x \in DOMAIN claims \cup {r} |-> IF x = r THEN token ELSE claims[x]]
      /\ DOMAIN asking' = DOMAIN asking \cup {r}
      /\ UNCHANGED <<account, users, handling, overtaken, granted, known>>
  BY DEF Enter, Ask, AccessInv, AccessTypes, databaseVars, lifeVars, grantVars
<1>2. granted[token.user] = [role |-> token.role, active |-> TRUE]
  <2>1. /\ token.user \in DOMAIN users /\ token.user \in Accounts
        /\ users[token.user] \in User
        /\ users[token.user].active /\ users[token.user].role = token.role
    BY <1>1 DEF Enter, Authentic, Claims, AccessInv, AccessTypes
  <2>2. users[token.user] = [role |-> token.role, active |-> TRUE]
    BY <2>1 DEF User
  <2> QED BY <2>1, <2>2 DEF AccessInv, GrantsOK
<1>3. \A x \in DOMAIN claims' \ overtaken' :
         granted'[claims'[x].user] = [role |-> claims'[x].role, active |-> TRUE]
  BY <1>1, <1>2 DEF AccessInv, GrantsOK
<1>4. claims' \in [DOMAIN claims' -> Claims]
  BY <1>1 DEF AccessInv, AccessTypes
<1> QED BY <1>1, <1>3, <1>4 DEF AccessInv, AccessTypes, GrantsOK

LEMMA PassingKeepsGrants ==
    ASSUME AccessInv, NEW r \in Requests, Passes(r)
    PROVE  AccessInv'
<1>1. /\ claims' = [x \in DOMAIN claims \ {r} |-> claims[x]]
      /\ DOMAIN asking' = DOMAIN asking \ {r}
      /\ overtaken' = overtaken \ {r} /\ handling' \in {handling, handling \cup {r}}
      /\ UNCHANGED <<account, users, granted, known>>
  BY DEF Passes, Count, databaseVars, lifeVars, grantVars
<1> QED BY <1>1 DEF AccessInv, AccessTypes, GrantsOK

LEMMA AlteringKeepsGrants ==
    ASSUME AccessInv, NEW u \in Staff, NEW row \in Grants, AltersUser(u, row)
    PROVE  AccessInv'
<1>1. u \in Accounts /\ u \in DOMAIN users /\ row \in User
  BY AccountsAssumption DEF AltersUser, AccessInv, AccessTypes
<1>2. /\ users' = [users EXCEPT ![u] = row] /\ granted' = [granted EXCEPT ![u] = row]
      /\ overtaken' = overtaken \cup {r \in DOMAIN claims : claims[r].user = u}
      /\ UNCHANGED <<account, claims, handling, asking>>
  BY DEF AltersUser, limiterVars, lifeVars
<1>3. users' \in [DOMAIN users' -> User] /\ DOMAIN users' = DOMAIN users
  BY <1>1, <1>2 DEF AccessInv, AccessTypes
<1>4. known' \subseteq Claims
  BY <1>3, TokensAreClaims DEF AltersUser, AccessInv, AccessTypes
<1>5. AccessTypes'
  BY <1>1, <1>2, <1>3, <1>4 DEF AccessInv, AccessTypes
<1>6. \A r \in DOMAIN claims' \ overtaken' :
         granted'[claims'[r].user] = [role |-> claims'[r].role, active |-> TRUE]
  <2>1. \A r \in DOMAIN claims' \ overtaken' :
           r \in DOMAIN claims \ overtaken /\ claims[r].user # u /\ claims[r].user \in Accounts
    BY <1>2 DEF AccessInv, AccessTypes, Claims
  <2> QED BY <1>2, <2>1 DEF AccessInv, AccessTypes, GrantsOK
<1>7. \A x \in Accounts :
         granted'[x] = IF x \in DOMAIN users' THEN users'[x] ELSE Seeded(x)
  BY <1>1, <1>2, <1>3 DEF AccessInv, AccessTypes, GrantsOK
<1> QED BY <1>5, <1>6, <1>7 DEF AccessInv, GrantsOK

LEMMA AccessGoesOn ==
    ASSUME AccessInv, [Next]_vars
    PROVE  AccessInv'
<1>1. CASE UNCHANGED accessState
  BY <1>1 DEF accessState, AccessInv, AccessTypes, GrantsOK
<1>2. CASE Start \/ SeedsDemo \/ Drain \/ TimePasses \/ UNCHANGED vars
  <2>1. UNCHANGED accessState
    BY <1>2 DEF Start, SeedsDemo, SeedCounts, SeedInserts, SeedLooksUp, Drain, TimePasses,
               Tick, vars, limiterVars, databaseVars, lifeVars, accessVars, grantVars,
               accessState
  <2> QED BY <1>1, <2>1
<1>3. CASE Crash \/ StoppedEarly \/ ShutsDown \/ DrainTimesOut
  <2>1. /\ claims' = <<>> /\ handling' = {} /\ overtaken' = {} /\ account' = 1 /\ asking' = <<>>
        /\ UNCHANGED <<users, granted, known>>
    BY <1>3 DEF Crash, StoppedEarly, ShutsDown, DrainTimesOut, Dies, LimiterRestarts,
               databaseVars, grantVars
  <2> QED BY <2>1, AccountsAreSeeded DEF AccessInv, AccessTypes, GrantsOK
<1>4. CASE Listen
  <2>1. /\ known' = known \cup LoginClaims(users)
        /\ UNCHANGED <<account, users, claims, handling, asking, overtaken, granted>>
    BY <1>4 DEF Listen, limiterVars, databaseVars, accessVars
  <2>2. LoginClaims(users) \subseteq Claims
    BY TokensAreClaims DEF AccessInv, AccessTypes
  <2> QED BY <2>1, <2>2 DEF AccessInv, AccessTypes, GrantsOK
<1>5. ASSUME NEW r \in Requests, Returns(r)
      PROVE  AccessInv'
  <2>1. /\ handling' \subseteq handling
        /\ UNCHANGED <<account, users, claims, asking, overtaken, granted, known>>
    BY <1>5 DEF Returns, limiterVars, databaseVars, lifeVars, grantVars
  <2> QED BY <2>1 DEF AccessInv, AccessTypes, GrantsOK
<1> QED BY <1>2, <1>3, <1>4, <1>5, SeedingKeepsGrants, EnteringKeepsGrants, PassingKeepsGrants,
           AlteringKeepsGrants DEF Next, Serves

(***************************************************************************)
(* The tables, the limiter, the requests in flight and the steps of seed   *)
(* have their types in every state.                                        *)
(***************************************************************************)
THEOREM ServerTypes == Spec => []TypeOK
<1>1. LimiterInv /\ UNCHANGED limiterVars => LimiterInv'
  BY DEF LimiterInv, LimiterTypeOK, limiterVars
<1>2. LimiterInv /\ [Next]_vars => LimiterInv'
  BY <1>1, LimiterSteps, ProcessStepsTheLimiter DEF vars
<1>3. Init => LimiterInv
  BY LimiterStarts DEF Init
<1>4. SeedInv => demo \in {{}, {"area"}, {"area", "plan"}, {"area", "plan", "run"}}
  BY DEF SeedInv, SeedSteps, Found, Full
<1>5. LimiterInv /\ SeedInv /\ AccessInv => TypeOK
  BY <1>4 DEF LimiterInv, SeedInv, AccessInv, AccessTypes, TypeOK
<1> QED BY <1>2, <1>3, <1>5, SeedStarts, SeedGoesOn, AccessStarts, AccessGoesOn, PTL
        DEF Spec

(***************************************************************************)
(* A handler runs for what the user was granted last (auth.go:12-31 and    *)
(* rbac.go, with the account lookup of support.go:25-31), for any users,   *)
(* roles, tokens, restarts and reseedings.                                 *)
(***************************************************************************)
THEOREM RevocationIsFinal == Spec => []RevocationTakesHold
<1>1. AccessInv => RevocationTakesHold
  BY DEF AccessInv, GrantsOK, RevocationTakesHold, Handled, Allowed
<1> QED BY <1>1, AccessStarts, AccessGoesOn, PTL DEF Spec

=============================================================================
