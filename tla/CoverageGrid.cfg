\* Every small boundary, plan and survey, analysed before and after the
\* recommended line was flown.  A computation ends when it is answered.
SPECIFICATION Spec
CONSTANTS
    Nothing = Nothing
    Boundaries <- SmallBoundaries
    Resolutions = {2, 4}
    Surveys <- SmallSurveys
    Plans <- SmallPlans
    MaxCells = 50
    PlannedRun = 0
    Resurvey = 9
CHECK_DEADLOCK FALSE
INVARIANTS
    TypeOK
    ResultIsOfTheWholeGrid
    InsideMeansInside
    AreaIsThatOfTheCells
    PlannedSurveyReachesFarSide
    RecommendationClosesGap
