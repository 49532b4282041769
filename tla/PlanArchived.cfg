\* Plans join an area that has been archived.
SPECIFICATION Spec
CONSTANTS
    area = area
    plan = plan
    copy = copy
    w1 = w1
    w2 = w2
    Nothing = Nothing
    AreaIds = {area}
    PlanIds = {plan, copy}
    Boundaries = {"north"}
    Lines = {"coarse", "fine"}
    LinesFor <- MCLinesFor
    Workers = {w1, w2}
    MaxVersion = 3
    MaxFailures = 1
    VersionSlack = 0
    SeedAreas <- ActiveArea
    SeedPlans <- DraftPlan
SYMMETRY Symmetry
PROPERTY ArchivedAreasTakeNoPlans
