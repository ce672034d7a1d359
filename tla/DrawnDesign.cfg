\* The two scripts as they are shipped, nothing killed.
SPECIFICATION Spec
CONSTANTS
    Scripts <- ShippedScripts
    FirstHeight = 5
    FirstFolders <- RecordedFolders
    MaxRuns = 3
    MaxKills = 0
INVARIANTS
    PassedDimensionsAgree
CHECK_DEADLOCK FALSE
