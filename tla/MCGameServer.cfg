SPECIFICATION Spec
CONSTANTS
    Players = {p1, p2, p3, p4, p5}
    Rooms = {r1, r2, r3}
    MinPlayers = 2
    MaxPlayers = 3
    MatchTicks = 1
    NoRoom = NoRoom
    NoPlayer = NoPlayer
SYMMETRY Interchangeable
CONSTRAINT NoGame
INVARIANTS
    QueueExclusive
    RosterBounded
    MatchmakerAwake
