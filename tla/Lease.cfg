SPECIFICATION FairSpec
CONSTANTS
    Upgrade = {"a", "b"}
    Duration = 1
    Touched = {"a"}
    Target <- Targets
    AllowDowngrade = {"a"}
    FirstServer <- v27
    MaxRecreated = 1
    CacheLag = TRUE
INVARIANTS
    SoleRunner
PROPERTIES
    NoLiveLeaseStolen
    EveryUpgradeServed
    DeletionEnds
CHECK_DEADLOCK FALSE
