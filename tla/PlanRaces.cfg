\* Two workers create, copy, revise and lock plans, quoting versions that exist.
SPECIFICATION Spec
CONSTANTS
    area = area
    plan = plan
    copy = copy
    w1 = w1
    w2 = w2
    Nothing = Nothing
    AreaIds = {area}
    PlanIds = {plan, copy}
    Boundaries = {"north"}
    Lines = {"coarse", "fine"}
    LinesFor <- MCLinesFor
    Workers = {w1, w2}
    MaxVersion = 3
    MaxFailures = 1
    VersionSlack = 0
    SeedAreas <- ActiveArea
    SeedPlans <- DraftPlan
SYMMETRY Symmetry
INVARIANTS
    TypeOK
    AuditTrailComplete
PROPERTIES
    WriteReplacesWhatWasRead
    ImplementsLedger
