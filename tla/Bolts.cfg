\* Both scripts, with short to long flanges, and concrete and spans for which the
\* retries can go on for ever.
SPECIFICATION Spec
CONSTANTS
    Anchors <- AllAnchors
    MaxDepth = 12
INVARIANTS
    TypeOK
    BoltOnFileHolds
    NoLargerThanNeeded
    RetriesNeverReachTheSeal
    ErrorsFollowTheFile
    EdgeRetriesAreHopeless
    ShearRetriesAreHopeless
    RecordedHoles
PROPERTIES
    WrittenOnce
    Ended
