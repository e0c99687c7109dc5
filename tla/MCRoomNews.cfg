SPECIFICATION Spec
CONSTANTS
    Players = {p1, p2, p3}
    Rooms = {r1, r2}
    MaxPlayers = 3
    MaxDrivers = 2
    Nobody = Nobody
    Nowhere = Nowhere
SYMMETRY Interchangeable
CONSTRAINT OneMatch
INVARIANTS
    RosterKnown
    FewPassedOver
CHECK_DEADLOCK FALSE
