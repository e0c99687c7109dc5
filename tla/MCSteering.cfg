SPECIFICATION SteeringSpec
CONSTANTS
    Players = {me}
    Me = me
    Window = 2
    MaxMessages = 2
    Horizon = 9
    Half = 2
    Threshold = 2
    MaxTurn = 1
    Interval = 2
    PingInterval = 4
    TickTime = 2
    FrameTime = 1
    MaxDelay = 1
INVARIANTS
    WindowRespected
    SteeringFollows
    InputsPass
PROPERTIES
    RefusedForCause
CHECK_DEADLOCK FALSE
