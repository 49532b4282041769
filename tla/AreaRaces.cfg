\* Two workers create, revise and archive areas, quoting versions that exist.
SPECIFICATION Spec
CONSTANTS
    demo = demo
    a1 = a1
    w1 = w1
    w2 = w2
    Nothing = Nothing
    AreaIds = {a1}
    Boundaries = {"north", "south"}
    Workers = {w1, w2}
    MaxVersion = 4
    MaxFailures = 1
    VersionSlack = 0
    SeedAreas <- EmptyTable
SYMMETRY Symmetry
INVARIANTS
    TypeOK
    AuditTrailComplete
PROPERTIES
    UpdateReplacesWhatWasRead
    ImplementsLedger
