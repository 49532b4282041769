\* One desk, two runs, two requests at once, other desks that write as well.
SPECIFICATION Spec
CONSTANTS
    Nothing = Nothing
    RunIds = {"new", "old"}
    Rank <- OldestFirst
    PageSize = 1
    Before = {"old"}
    Slots = {1, 2}
    Targets = {"quality_checked", "rejected"}
    MaxVersion = 3
INVARIANTS
    TypeOK
    EvidenceIsOfTheSelected
PROPERTIES
    DecisionIsOnWhatWasShown
    SpinnerEnds
