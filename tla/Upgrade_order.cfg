SPECIFICATION KUSpec
CONSTANTS
    Node = {1, 2, 3}
    Group = {1, 2}
    GroupOf <- ThreeNodes
    Role <- RoleOf
    Provider <- Kubeadm
    Strategy <- InPlaceOnly
    BatchSize <- NoBatchSize
    MaxUnavailable <- NoLimit
    DrainForce = FALSE
    KnownVersion <- To29
    InitVersions <- AllAt27
    JoinVersions = {}
    LateNode = {}
    Pod = {}
    DaemonPod = {}
    BlockedPod = {}
    InitPods <- NoPods
    TargetVersions = {}
    PausableGroup = {}
    MaxFlaps = 0
    Faults = {}
    Wanted <- v29
    SkipGroup = {}
INVARIANTS
    ControlPlaneFirst
CHECK_DEADLOCK FALSE
