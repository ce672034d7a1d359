\* Soils the settlement loop has to widen the footing for; below the pressure
\* floor it reaches MaxCoeff and stops.
SPECIFICATION Spec
CONSTANTS
    Jobs <- WeakSoilJobs
    MaxCoeff = 300
INVARIANTS
    UnwidenedChecksStand
    WritesLeastFooting
    SlidingResisted
    OverturningResisted
    ToeSideEccentricity
    StaleEccentricityIsSafe
    WeakSoilNeverSettles
PROPERTIES
    SettlesAboveFloor
CHECK_DEADLOCK FALSE
