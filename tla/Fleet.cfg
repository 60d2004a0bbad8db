SPECIFICATION FairSpec
CONSTANTS
    Node <- MCNode
    StartVersions <- MCStartVersions
    TargetVersion <- MCTargetVersion
INVARIANTS
    TypeOK
    OneMinorApart
    FinishedAtTarget
PROPERTIES
    EventuallyFinished
CHECK_DEADLOCK FALSE
