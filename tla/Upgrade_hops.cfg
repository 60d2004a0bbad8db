SPECIFICATION KUFairSpec
CONSTANTS
    Node = {1, 2}
    Group = {1, 2}
    GroupOf <- TwoNodes
    Role <- RoleOf
    Provider <- Kubeadm
    Strategy <- InPlaceOnly
    BatchSize <- NoBatchSize
    MaxUnavailable <- NoLimit
    DrainForce = FALSE
    KnownVersion <- To29
    InitVersions <- MixedFleet
    JoinVersions = {}
    LateNode = {}
    Pod = {}
    DaemonPod = {}
    BlockedPod = {}
    InitPods <- NoPods
    TargetVersions = {}
    PausableGroup = {}
    MaxFlaps = 1
    Faults = {"ttl"}
    Wanted <- v29
    SkipGroup = {}
PROPERTIES
    ImplementsFleet
    
CHECK_DEADLOCK FALSE
