\* The seals of both scripts, wide and thin ones, and screws too soft for the shear.
SPECIFICATION Spec
CONSTANTS
    Seals <- AllSeals
INVARIANTS
    TypeOK
    LeastScrew
    ShearCarried
    RecordedSeals
