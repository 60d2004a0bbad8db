SPECIFICATION FairSpec
CONSTANTS
    Node = {1, 2}
    Group = {"workers"}
    GroupOf <- AllWorkers
    Role <- WorkerRole
    Provider <- Kubeadm
    Strategy <- InPlaceOnly
    BatchSize <- NoBatchSize
    MaxUnavailable <- NoLimit
    DrainForce = TRUE
    KnownVersion <- TwoHops
    InitVersions <- MixedInit
    JoinVersions = {}
    LateNode = {}
    Pod = {}
    DaemonPod = {}
    BlockedPod = {}
    InitPods <- NoPods
    TargetVersions <- OneHopTarget
    PausableGroup = {}
    MaxFlaps = 0
    Faults = {}
PROPERTIES
    GroupSettles
CHECK_DEADLOCK FALSE
