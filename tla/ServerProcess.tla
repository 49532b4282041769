---------------------------- MODULE ServerProcess ----------------------------
(***************************************************************************)
(* The life of the server: it is started, seeds the database, serves, and  *)
(* ends by a signal, by an error, or by a crash at any moment; compose     *)
(* starts it again unless it was stopped.  While it serves, a request to   *)
(* POST /runs/import passes the token check, the import limiter and the    *)
(* role check before its handler.                                          *)
(*                                                                         *)
(* Users and demo rows are in the database and outlive the process; the    *)
(* limiter and the requests in flight are its memory.  A token is signed   *)
(* with a secret of the environment and outlives it too.  No handler       *)
(* changes a user: that is an administrator's work in the database.        *)
(***************************************************************************)
EXTENDS RateLimiter, Sequences

CONSTANTS
    SeedAccounts,     \* accounts: the usernames seed creates, in order
    SeedRole,         \* username -> the role seed gives it
    Roles,            \* the roles a user can have
    ImportRoles,      \* the roles RBAC lets import runs
    Planner,          \* the account the demo plan is created by
    Processor,        \* the account the demo run is imported by
    Staff,            \* the users that log in and are altered
    Grants,           \* the rows an administrator leaves
    MaxCrashes,       \* bound: how often in a row a start can fail
    MaxAlterations    \* bound: how often an administrator alters a user

VARIABLES
    phase,            \* "off", "seeding", "serving", "draining", "stopped"
    seedStep,         \* what seed does next
    account,          \* the account it does next, while seedStep is "accounts"
    users,            \* table users: username -> [role, active]
    demo,             \* the rows of the demo survey that are in the database
    claims,           \* request before its handler -> what its token claims
    handling,         \* the requests whose handlers run
    granted,          \* history: username -> what it was granted last
    known,            \* the claims of the tokens that were issued
    overtaken,        \* history: requests whose user was altered meanwhile
    torn,             \* history: a seed died between two demo rows
    crashes,          \* how often it crashed since it served last
    alterations       \* counts up to MaxAlterations

databaseVars == <<users, demo>>
lifeVars == <<phase, seedStep, account, crashes, torn>>
accessVars == <<claims, handling, overtaken>>
grantVars == <<granted, known, alterations>>
vars == <<limiterVars, databaseVars, lifeVars, accessVars, grantVars>>

Accounts == {SeedAccounts[i] : i \in DOMAIN SeedAccounts}
User == [role : Roles, active : BOOLEAN]
Claims == [user : Accounts, role : Roles]
SeedSteps == {"accounts", "count", "area", "planner", "plan", "processor", "run", "listen"}

ASSUME AccountsAssumption ==
    /\ SeedAccounts \in Seq(Accounts) /\ SeedAccounts # <<>>
    /\ SeedRole \in [Accounts -> Roles] /\ ImportRoles \subseteq Roles
    /\ Grants \subseteq User /\ Staff \cup {Planner, Processor} \subseteq Accounts

Init ==
    /\ LimiterInit
    /\ phase = "off" /\ seedStep = "accounts" /\ account = 1
    /\ users = <<>> /\ demo = {}
    /\ claims = <<>> /\ handling = {} /\ overtaken = {}
    /\ granted = [a \in Accounts |-> [role |-> SeedRole[a], active |-> TRUE]]
    /\ known = {} /\ torn = FALSE
    /\ crashes = 0 /\ alterations = 0

-----------------------------------------------------------------------------
\* Startup.

\* By compose after a crash, by an operator after a stop.
Start ==
    /\ phase \in {"off", "stopped"}
    /\ phase' = "seeding"
    /\ UNCHANGED <<limiterVars, databaseVars, accessVars, grantVars,
                    seedStep, account, crashes, torn>>

\* Mutant: db.Save, the account is written back as seed knows it.
FirstOrCreate_Saves(a) ==
    [x \in DOMAIN users \cup {a} |->
        IF x = a THEN [role |-> SeedRole[a], active |-> TRUE] ELSE users[x]]

\* FirstOrCreate: the row that is there is left as it is.
FirstOrCreate(a) ==
    IF a \in DOMAIN users THEN users
    ELSE [x \in DOMAIN users \cup {a} |->
             IF x = a THEN [role |-> SeedRole[a], active |-> TRUE] ELSE users[x]]

SeedsAccount ==
    /\ phase = "seeding" /\ seedStep = "accounts"
    /\ users' = FirstOrCreate(SeedAccounts[account])
    /\ IF account = Len(SeedAccounts)
       THEN seedStep' = "count" /\ account' = 1
       ELSE seedStep' = seedStep /\ account' = account + 1
    /\ UNCHANGED <<limiterVars, demo, phase, crashes, torn, accessVars, grantVars>>

\* Mutant: seeded when there are users.
AlreadySeeded_ByUsers == users # <<>>

\* Mutant: every start inserts the survey.
AlreadySeeded_Never == FALSE

\* count > 0: the survey is there, or what was left of it.
AlreadySeeded == "area" \in demo

SeedCounts ==
    /\ phase = "seeding" /\ seedStep = "count"
    /\ seedStep' = IF AlreadySeeded THEN "listen" ELSE "area"
    /\ UNCHANGED <<limiterVars, databaseVars, phase, account, crashes, torn,
                    accessVars, grantVars>>

\* Area and run have a unique code: a second insert would be an error.
SeedInserts(row, next) ==
    /\ phase = "seeding" /\ seedStep = row
    /\ row \notin demo
    /\ demo' = demo \cup {row}
    /\ seedStep' = next
    /\ UNCHANGED <<limiterVars, users, phase, account, crashes, torn,
                    accessVars, grantVars>>

\* The lookup of the account a row is inserted for; it may be inactive.
SeedLooksUp(step, owner, next) ==
    /\ phase = "seeding" /\ seedStep = step
    /\ owner \in DOMAIN users
    /\ seedStep' = next
    /\ UNCHANGED <<limiterVars, databaseVars, phase, account, crashes, torn,
                    accessVars, grantVars>>

SeedsDemo ==
    \/ SeedCounts
    \/ SeedInserts("area", "planner")
    \/ SeedLooksUp("planner", Planner, "plan")
    \/ SeedInserts("plan", "processor")
    \/ SeedLooksUp("processor", Processor, "run")
    \/ SeedInserts("run", "listen")

\* Login: a token for an active account, with the role it has now.  Tokens
\* are not withdrawn, so it is enough that everybody logs in at once.
LoginClaims(table) ==
    {[user |-> u, role |-> table[u].role] :
        u \in {x \in Staff \cap DOMAIN table : table[x].active}}

\* router.New makes the limiters, ListenAndServe accepts requests.
Listen ==
    /\ phase = "seeding" /\ seedStep = "listen"
    /\ phase' = "serving"
    /\ known' = known \cup LoginClaims(users)
    /\ crashes' = 0
    /\ UNCHANGED <<limiterVars, databaseVars, seedStep, account, torn,
                    accessVars, granted, alterations>>

-----------------------------------------------------------------------------
\* The end of a process.

\* Its memory is gone; what it had written stays.
Dies ==
    /\ LimiterRestarts
    /\ claims' = <<>> /\ handling' = {} /\ overtaken' = {}
    /\ seedStep' = "accounts" /\ account' = 1
    /\ torn' = (torn \/ seedStep \in {"planner", "plan", "processor", "run"})
    /\ UNCHANGED <<databaseVars, grantVars>>

\* Killed, out of memory, or os.Exit(1) after a statement of seed failed.
Crash ==
    /\ phase \in {"seeding", "serving", "draining"}
    /\ IF phase = "seeding"
       THEN crashes < MaxCrashes /\ crashes' = crashes + 1
       ELSE crashes' = 0
    /\ phase' = IF phase = "draining" THEN "stopped" ELSE "off"
    /\ Dies

\* Nothing listens for signals before the server listens.
StoppedEarly ==
    /\ phase = "seeding"
    /\ phase' = "stopped"
    /\ Dies
    /\ UNCHANGED crashes

\* server.Shutdown: no new connections, ten seconds for the requests of
\* those that there are.
Drain ==
    /\ phase = "serving"
    /\ phase' = "draining"
    /\ UNCHANGED <<limiterVars, databaseVars, seedStep, account, crashes, torn,
                    accessVars, grantVars>>

\* No request waits for the limiter and no handler runs.
Drained == claims = <<>> /\ handling = {}

\* All requests have ended, or the ten seconds have passed: os.Exit(1).
ShutsDown ==
    /\ phase = "draining" /\ Drained
    /\ phase' = "stopped"
    /\ Dies
    /\ UNCHANGED crashes

DrainTimesOut ==
    /\ phase = "draining" /\ ~Drained
    /\ phase' = "stopped"
    /\ Dies
    /\ UNCHANGED crashes
-----------------------------------------------------------------------------
\* Access.

\* Mutant: the role in the token is believed.
Authentic_ByTokenRole(token) ==
    token.user \in DOMAIN users /\ users[token.user].active

\* Parse, for claims of a token that has not expired.
Authentic(token) ==
    /\ token.user \in DOMAIN users
    /\ users[token.user].active
    /\ users[token.user].role = token.role

(***************************************************************************)
(* The request passes Parse and reads the clock for the limiter.  A user   *)
(* that is altered between the two makes no difference to either: it is    *)
(* overtaken, as one that is altered later.  Shutdown does not turn away   *)
(* what comes by a connection that was accepted before it.                 *)
(***************************************************************************)
Enter(r, token, k) ==
    /\ phase \in {"serving", "draining"}
    /\ r \notin handling
    /\ token \in known /\ Authentic(token)
    /\ Ask(r, k)
    /\ claims' = [x \in DOMAIN claims \cup {r} |-> IF x = r THEN token ELSE claims[x]]
    /\ UNCHANGED <<databaseVars, lifeVars, handling, overtaken, grantVars>>

\* RBAC looks at the claims, not at the database.
Allowed(token) == token.role \in ImportRoles

\* The limiter and RBAC let the request through to its handler.
Handled(r) == Admitted(r) /\ Allowed(claims[r])

\* The limiter decides, then RBAC; the handler starts, or the request ends.
Passes(r) ==
    /\ phase \in {"serving", "draining"}
    /\ Count(r)
    /\ claims' = [x \in DOMAIN claims \ {r} |-> claims[x]]
    /\ handling' = IF Handled(r) THEN handling \cup {r} ELSE handling
    /\ overtaken' = overtaken \ {r}
    /\ UNCHANGED <<databaseVars, lifeVars, grantVars>>

\* The handler returns; what it has done is the subject of other modules.
Returns(r) ==
    /\ phase \in {"serving", "draining"}
    /\ r \in handling
    /\ handling' = handling \ {r}
    /\ UNCHANGED <<limiterVars, databaseVars, lifeVars, claims, overtaken, grantVars>>

Serves ==
    \E r \in Requests :
        \/ Passes(r) \/ Returns(r)
        \/ \E token \in known, k \in Keys : Enter(r, token, k)

TimePasses ==
    /\ phase \in {"serving", "draining"}
    /\ Tick
    /\ UNCHANGED <<databaseVars, lifeVars, accessVars, grantVars>>

\* An administrator gives a user another role, or takes its access away.
AltersUser(u, row) ==
    /\ u \in DOMAIN users /\ users[u] # row
    /\ alterations < MaxAlterations
    /\ alterations' = alterations + 1
    /\ users' = [users EXCEPT ![u] = row]
    /\ granted' = [granted EXCEPT ![u] = row]
    /\ overtaken' = overtaken \cup {r \in DOMAIN claims : claims[r].user = u}
    /\ known' = known \cup (IF phase \in {"serving", "draining"}
                            THEN LoginClaims(users') ELSE {})
    /\ UNCHANGED <<limiterVars, demo, lifeVars, claims, handling>>

-----------------------------------------------------------------------------

Next ==
    \/ Start \/ SeedsAccount \/ SeedsDemo \/ Listen
    \/ Crash \/ StoppedEarly \/ Drain \/ ShutsDown \/ DrainTimesOut
    \/ Serves \/ TimePasses
    \/ \E u \in Staff, row \in Grants : AltersUser(u, row)

(***************************************************************************)
(* compose restarts what crashed (restart: unless-stopped), main goes on   *)
(* from statement to statement, and Shutdown returns at its deadline.      *)
(* Nobody has to send, answer or finish a request.                         *)
(***************************************************************************)
Fairness ==
    /\ WF_vars(phase = "off" /\ Start)
    /\ WF_vars(SeedsAccount \/ SeedsDemo \/ Listen)
    /\ WF_vars(ShutsDown \/ DrainTimesOut)

Spec == Init /\ [][Next]_vars /\ Fairness

-----------------------------------------------------------------------------

\* Types, of the limiter as well; each request in flight has its claims, and
\* each row of the demo survey follows the one before it.
TypeOK ==
    /\ LimiterTypeOK
    /\ phase \in {"off", "seeding", "serving", "draining", "stopped"}
    /\ seedStep \in SeedSteps /\ account \in DOMAIN SeedAccounts
    /\ DOMAIN users \subseteq Accounts /\ users \in [DOMAIN users -> User]
    /\ demo \in {{}, {"area"}, {"area", "plan"}, {"area", "plan", "run"}}
    /\ DOMAIN claims = DOMAIN asking /\ claims \in [DOMAIN claims -> Claims]
    /\ overtaken \subseteq DOMAIN claims /\ handling \subseteq Requests
    /\ granted \in [Accounts -> User] /\ known \subseteq Claims

(***************************************************************************)
(* A server that serves has the demo survey in full, whatever its earlier  *)
(* starts came to, unless one of them ended between two rows of it: then   *)
(* the survey stays as torn as it is, since seed only counts areas.        *)
(***************************************************************************)
DemoIsWhole ==
    phase \in {"serving", "draining"} =>
        (demo = {"area", "plan", "run"}) = ~torn

(***************************************************************************)
(* What an administrator takes from a user stays taken: a handler runs for *)
(* an allowed role, and that is what the user was granted last, whatever   *)
(* tokens there are and however often the server was seeded again, unless  *)
(* the user was altered after the request's token had been checked.        *)
(***************************************************************************)
RevocationTakesHold ==
    \A r \in DOMAIN claims \ overtaken :
        Handled(r) =>
            /\ claims[r].role \in ImportRoles
            /\ granted[claims[r].user] = [role |-> claims[r].role, active |-> TRUE]

(***************************************************************************)
(* However often the server dies while it seeds, what it leaves behind     *)
(* never keeps a later start from serving, unless an operator stops it;    *)
(* and a stop is carried out although requests in flight may not end.      *)
(***************************************************************************)
StartsAndStopsComplete ==
    /\ (phase \in {"off", "seeding"}) ~> (phase \in {"serving", "stopped"})
    /\ (phase = "draining") ~> (phase = "stopped")

=============================================================================
