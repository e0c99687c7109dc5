SPECIFICATION Spec
CONSTANTS
    Players = {me, p1, p2}
    Me = me
    Duration = 5
    MaxSize = 3
    Delay = 2
    MaxDown = 2
    MaxEvents = 2
SYMMETRY Interchangeable
INVARIANTS
    ViewPaced
    StandingTrue
PROPERTIES
    ViewNeverGoesBack
CHECK_DEADLOCK FALSE
