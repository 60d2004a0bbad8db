SPECIFICATION FairSpec
CONSTANTS
    Upgrade = {"a", "b"}
    Duration = 1
    Touched = {"a"}
    Target <- Targets
    AllowDowngrade = {}
    FirstServer <- v27
    MaxRecreated = 0
    CacheLag = FALSE
PROPERTIES
    DeletionEnds
CHECK_DEADLOCK FALSE
