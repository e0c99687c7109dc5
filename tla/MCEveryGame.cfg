SPECIFICATION FairSpec
CONSTANTS
    Players = {p1, p2}
    Rooms = {r1}
    MinPlayers = 2
    MaxPlayers = 2
    MatchTicks = 2
    NoRoom = NoRoom
    NoPlayer = NoPlayer
PROPERTIES
    EveryGameEnds
