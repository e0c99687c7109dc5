SPECIFICATION FairSpec
CONSTANTS
    Players = {p1, p2, p3}
    Rooms = {r1}
    MinPlayers = 2
    MaxPlayers = 3
    MatchTicks = 2
    NoRoom = NoRoom
    NoPlayer = NoPlayer
INVARIANTS
    TypeOK
    RegistryAgrees
    SessionAgrees
    NoGhosts
    HostLeads
    WorldMatchesRoster
    RoomDriven
PROPERTIES
    ImplementsLobby
    NoLateJoin
    HandlersReturn
    StartedRoomsClose
