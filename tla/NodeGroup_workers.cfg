SPECIFICATION Spec
CONSTANTS
    Node = {1, 2, 3}
    Group = {"workers"}
    GroupOf <- AllWorkers
    Role <- WorkerRole
    Provider <- Kubeadm
    Strategy <- InPlaceOnly
    BatchSize <- NoBatchSize
    MaxUnavailable <- WorkersLimit
    DrainForce = TRUE
    KnownVersion <- TwoHops
    InitVersions <- MixedWorkers
    JoinVersions = {}
    LateNode = {}
    Pod = {"daemon", "budgeted", "web"}
    DaemonPod = {"daemon"}
    BlockedPod = {"budgeted"}
    InitPods <- WorkersPods
    TargetVersions <- TwoHopTargets
    PausableGroup = {}
    MaxFlaps = 0
    Faults = {"api", "job", "cache"}
INVARIANTS
    TypeOK
    CordonBound
    DrainedBeforeUpgrade
    CompleteMeansDone
PROPERTIES
    ForceOnlyAfterTimeout
    NeverDowngrade
CHECK_DEADLOCK FALSE
