SPECIFICATION Spec
CONSTANTS
    Jobs <- WeakSoilJobs
    MaxCoeff = 300
INVARIANTS
    BearingHolds
CHECK_DEADLOCK FALSE
