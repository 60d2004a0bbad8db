SPECIFICATION Spec
CONSTANTS
    Node = {1, 2, 3, 4}
    Group = {"eks", "manual", "workers"}
    GroupOf <- ChildGroup
    Role <- WorkerRole
    Provider <- ChildProvider
    Strategy <- ChildStrategy
    BatchSize <- NoBatchSize
    MaxUnavailable <- NoLimit
    DrainForce = TRUE
    KnownVersion <- OneHop
    InitVersions <- AllAt27
    JoinVersions <- OneHop
    LateNode = {4}
    Pod = {}
    DaemonPod = {}
    BlockedPod = {}
    InitPods <- NoPods
    TargetVersions <- OneHopTarget
    PausableGroup = {"manual"}
    MaxFlaps = 1
    Faults = {"api", "adapter"}
INVARIANTS
    
    CompleteMeansDone
CHECK_DEADLOCK FALSE
