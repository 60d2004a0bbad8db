SPECIFICATION KUSpec
CONSTANTS
    Node = {1, 2, 3, 4, 5}
    Group = {1, 2, 3}
    GroupOf <- ThreeAndTwo
    Role <- RoleOf
    Provider <- Kubeadm
    Strategy <- InPlaceOnly
    BatchSize <- NoBatchSize
    MaxUnavailable <- NoLimit
    DrainForce = FALSE
    KnownVersion <- To28
    InitVersions <- HalfWay
    JoinVersions = {}
    LateNode = {}
    Pod = {}
    DaemonPod = {}
    BlockedPod = {}
    InitPods <- NoPods
    TargetVersions = {}
    PausableGroup = {1}
    MaxFlaps = 0
    Faults = {"api", "job", "ttl"}
    Wanted <- v28
    SkipGroup = {}
INVARIANTS
    KUTypeOK
    ControlPlaneFirst
    
    CordonBound
    ApplyOnce
    
PROPERTIES
    ImplementsFleet
CHECK_DEADLOCK FALSE
