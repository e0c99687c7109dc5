SPECIFICATION FairSpec
CONSTANTS
    Connectors = {c1, c2}
    Closers = {q1}
    Sockets = {s1, s2, s3}
    None = None
INVARIANTS
    ConnectedTells
    LossToldOnce
PROPERTIES
    CallsReturn
CHECK_DEADLOCK FALSE
