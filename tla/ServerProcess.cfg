\* Starts, crashes, stops, two clients at the import limiter, one alteration.
SPECIFICATION Spec
CONSTANTS
    k1 = k1
    k2 = k2
    Keys = {k1, k2}
    Capacity = 1
    Window = 1
    MaxClients = 1
    MaxDelay = 1
    Requests = {1, 2}
    MaxTime = 3
    MaxCount <- Sends
    SeedAccounts <- TwoAccounts
    SeedRole <- RoleOf
    Roles = {"survey_planner", "data_processor"}
    ImportRoles = {"data_processor"}
    Planner = "planner"
    Processor = "processor"
    Staff = {"processor"}
    Grants <- Alterations
    MaxCrashes = 1
    MaxAlterations = 1
INVARIANTS
    TypeOK
    DemoIsWhole
    RevocationTakesHold
    BurstBound
    RefusalIsDeserved
PROPERTIES
    ImplementsFixedWindows
    StartsAndStopsComplete
CHECK_DEADLOCK FALSE
