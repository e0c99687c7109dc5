SPECIFICATION FairSpec
CONSTANTS
    Players = {p1, p2, p3}
    Duration = 3
    InitialLength = 4
    LengthGain = 1
    ScoreValue = 2
    TargetFood = 2
    MaxMeal = 1
    Nobody = Nobody
INVARIANTS
    DeathsToldOnce
    ResultAfterDeaths
    WinnerDeserves
PROPERTIES
    DeadStayDead
    ImplementsOutline
    MatchEnds
CHECK_DEADLOCK FALSE
