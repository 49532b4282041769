\* One reviewer who writes long notes.
SPECIFICATION Spec
CONSTANTS
    a1 = a1
    a2 = a2
    r1 = r1
    r2 = r2
    g1 = g1
    g2 = g2
    d1 = d1
    d2 = d2
    v1 = v1
    v2 = v2
    Nothing = Nothing
    Areas = {a1}
    Boundaries = {"strip"}
    Resolutions = {"fine"}
    Infeasible = {}
    Runs = {r1}
    RunArea <- InOneArea
    Algorithms = {"grid"}
    GapIds = {g1}
    Notes = {"brief", "long", "longest"}
    NoteLength <- Lengths
    BaseLength = 51
    Capacity = 1200
    ExpectedVersions = {1, 2, 3, 4}
    Detectors = {}
    Reviewers = {v1}
    SeedAreas <- StartAreas
    SeedRunStates <- AllProcessed
    SeedGaps <- OneGap
INVARIANTS
    ReviewsCanBeFinished
