SPECIFICATION Spec
CONSTANTS
    Jobs <- TallJobs
    MaxCoeff = 180
INVARIANTS
    TrueLoadResisted
CHECK_DEADLOCK FALSE
