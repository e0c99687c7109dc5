SPECIFICATION Spec
CONSTANTS
    Players = {p1, p2, p3}
    StaleLimit = 2
INVARIANTS
    StaleBounded
PROPERTIES
    OrderKept
    ImplementsSet
