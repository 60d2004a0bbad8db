SPECIFICATION FairSpec
CONSTANTS
    Node = {1, 2, 3}
    Group = {"workers"}
    GroupOf <- AllWorkers
    Role <- WorkerRole
    Provider <- Kubeadm
    Strategy <- InPlaceOnly
    BatchSize <- NoBatchSize
    MaxUnavailable <- WorkersLimit
    DrainForce = TRUE
    KnownVersion <- OneHop
    InitVersions <- AllAt27
    JoinVersions = {}
    LateNode = {}
    Pod = {"daemon", "budgeted", "web"}
    DaemonPod = {"daemon"}
    BlockedPod = {"budgeted"}
    InitPods <- WorkersPods
    TargetVersions <- OneHopTarget
    PausableGroup = {}
    MaxFlaps = 0
    Faults = {"job", "ttl", "cache"}
PROPERTIES
    GroupSettles
    CordonReleased
CHECK_DEADLOCK FALSE
