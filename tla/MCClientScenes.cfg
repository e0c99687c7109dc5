SPECIFICATION FairSpec
CONSTANTS
    MaxUp = 2
    MaxDown = 4
INVARIANTS
    SceneFits
    StartOffered
PROPERTIES
    ResultsShown
    LoadingEnds
CHECK_DEADLOCK FALSE
