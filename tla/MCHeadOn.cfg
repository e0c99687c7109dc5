CONSTANTS
    Snakes = {a, b, c}
SYMMETRY Symmetry
SPECIFICATION CheckSpec
INVARIANTS
    MutualKill
CHECK_DEADLOCK FALSE
