\* Every documented height under the materials of both scripts, other sites, and two
\* heights for which the first loop goes on until MaxCoeff stops it.
SPECIFICATION Spec
CONSTANTS
    Jobs <- AllJobs
    MaxCoeff = 200
INVARIANTS
    TypeOK
    Proportions
    NoNeedlessWidening
    RecordedDesign
    NegativeLoadNeverSlides
PROPERTIES
    OnlyWidens
    ImplementsFlowChart
    Terminates
CHECK_DEADLOCK FALSE
