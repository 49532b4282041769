\* Two import and two transition workers race for the runs of clashing bodies.
SPECIFICATION Spec
CONSTANTS
    p1 = p1
    p2 = p2
    i1 = i1
    i2 = i2
    m1 = m1
    m2 = m2
    r1 = r1
    r2 = r2
    old = old
    Nothing = Nothing
    Plans = {p1, p2}
    Codes = {"c1", "c2", "c3"}
    Tracks = {"t1", "t2"}
    SoundTracks = {"t1", "t2"}
    Uploads <- RaceUploads
    RunIds = {r1, r2, old}
    ExpectedVersions = {1, 2, 3}
    Imports = {i1, i2}
    Moves = {m1, m2}
    SeedPlans <- OnePlanLocked
    SeedRuns <- SupersededRun
SYMMETRY RaceSymmetry
INVARIANTS
    TypeOK
    InvalidNavigationIsNeverUsed
    AuditTrailComplete
    RunsOnLockedPlans
    OneTrackOneRun
PROPERTIES
    ConflictMeansProgress
    VersionReplacedOnce
    ImplementsLedger
