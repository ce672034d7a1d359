\* The shipped walls and odd ones; those past the plate table reach MaxCoef and stop.
SPECIFICATION Spec
CONSTANTS
    Walls <- AllWalls
    MaxCoef = 60
INVARIANTS
    TypeOK
    LeastSection
    RecordedSupports
PROPERTIES
    StandsWithinTable
CHECK_DEADLOCK FALSE
