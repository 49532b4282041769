\* Two detection workers in two areas, while boundaries, resolutions and runs
\* change.
SPECIFICATION Spec
CONSTANTS
    a1 = a1
    a2 = a2
    r1 = r1
    r2 = r2
    g1 = g1
    g2 = g2
    d1 = d1
    d2 = d2
    v1 = v1
    v2 = v2
    Nothing = Nothing
    Areas = {a1, a2}
    Boundaries = {"strip", "field"}
    Resolutions = {"fine", "coarse"}
    Infeasible <- StripIsTooThin
    Runs = {r1, r2}
    RunArea <- RunsApart
    Algorithms = {"grid"}
    GapIds = {g1, g2}
    Notes = {"brief"}
    NoteLength <- Lengths
    BaseLength = 51
    Capacity = 1200
    ExpectedVersions = {1}
    Detectors = {d1, d2}
    Reviewers = {}
    SeedAreas <- StartAreas
    SeedRunStates <- OneRunOutdated
    SeedGaps <- NoGaps
SYMMETRY Symmetry
INVARIANTS
    GapsRestOnProcessedRuns
    OneInputOneGap
