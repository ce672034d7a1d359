\* Scripts that succeed, fail and hang, one after the other, and programs that are killed.
SPECIFICATION Spec
CONSTANTS
    Scripts <- AllScripts
    FirstHeight = 5
    FirstFolders <- RecordedFolders
    MaxRuns = 3
    MaxKills = 1
INVARIANTS
    TypeOK
    FilesAgeInOrder
    DrawsOneDesign
    OnlyKillsLeaveHalves
PROPERTIES
    OtherFoldersUntouched
    DesignsAreDrawn
\* The user may start no script any more, and an endless design only ends when killed.
CHECK_DEADLOCK FALSE
