SPECIFICATION Spec
CONSTANTS
    Walls <- AllWalls
    MaxCoef = 60
INVARIANTS
    TableCovers
CHECK_DEADLOCK FALSE
