-------------------------- MODULE NodeGroupUpgrade --------------------------
(***************************************************************************)
(* The NodeGroupUpgrade controller (internal/controller/nodegroupupgrade_  *)
(* *.go) with the kubeadm and generic adapters (pkg/provider), the drain,  *)
(* cordon and health helpers (pkg/k8sutil), and the cluster they act on:   *)
(* nodes, pods, and the executor Jobs that upgrade a node in place.        *)
(*                                                                         *)
(* A reconcile is one action: everything the handler of the current phase  *)
(* does between reading the object and returning.  A reconcile that only   *)
(* waits (or whose status write fails before any other effect) changes     *)
(* nothing and is a stuttering step.  A reconcile that dies in the middle, *)
(* or whose status write is lost (conflict, crash), leaves its effects on  *)
(* the cluster and an older status: the fault "api".                       *)
(*                                                                         *)
(* Every variable is indexed by group or by node, so that                  *)
(* KubernetesUpgrade can run the parent controller on several groups.      *)
(***************************************************************************)
EXTENDS K8sVersion

CONSTANTS
    Node,              \* node names; their order is the order of spec.nodes
    Group,             \* node groups
    GroupOf,           \* the group of each node
    Role,              \* spec.role of each group
    Provider,          \* spec.provider of each group
    Strategy,          \* spec.strategy of each group
    BatchSize,         \* spec.batchSize of each group, 0 when unset
    MaxUnavailable,    \* spec.maxUnavailable of each group
    DrainForce,        \* spec.drain.force
    KnownVersion,      \* the versions that occur in the instance
    InitVersions,      \* the kubelet versions the cluster may start with
    JoinVersions,      \* the versions of nodes that join or are recreated
    LateNode,          \* nodes that are not in the cluster at the start
    Pod, DaemonPod,    \* pods, and those a drain leaves alone
    BlockedPod,        \* pods whose eviction is refused (disruption budget)
    InitPods,          \* where the pods are at the start
    TargetVersions,    \* the targets the parent may apply
    PausableGroup,     \* the groups an administrator may pause
    MaxFlaps,          \* bound on the times a node loses Ready
    Faults             \* which of "api", "adapter", "job", "ttl", "cache" may occur

ASSUME NodeAssumption ==
    /\ Node \subseteq Nat /\ IsFiniteSet(Node)
    /\ GroupOf \in [Node -> Group]
    /\ LateNode \subseteq Node
    /\ Role \in [Group -> {"ControlPlane", "Worker"}]
    /\ Provider \in [Group -> {"Kubeadm", "Generic", "Stub", "Unregistered"}]
    /\ Strategy \in [Group -> {"InPlace", "Replace"}]

ASSUME LimitAssumption ==
    /\ BatchSize \in [Group -> Int]
    /\ MaxUnavailable \in
         [Group -> [kind : {"unset", "count", "percent"}, value : Nat]]
    /\ DrainForce \in BOOLEAN
    /\ MaxFlaps \in Nat

ASSUME VersionAssumption ==
    /\ KnownVersion \subseteq Version
    /\ InitVersions \subseteq [Node -> KnownVersion]
    /\ JoinVersions \subseteq KnownVersion
    /\ TargetVersions \subseteq KnownVersion
    /\ KnownVersion # {}

ASSUME PodAssumption ==
    /\ DaemonPod \subseteq Pod
    /\ BlockedPod \subseteq Pod
    /\ InitPods \in [Node -> SUBSET Pod]

VARIABLES
    child,         \* the groups whose NodeGroupUpgrade object exists
    spec,          \* .spec of each child, written by the parent
    status,        \* .status of each child, written by this controller
    present,       \* the nodes that exist as Node objects
    version,       \* kubelet version of each node
    ready,         \* the nodes whose Ready condition is true
    cordoned,      \* the nodes with spec.unschedulable
    flaps,         \* how often some node lost Ready
    pods,          \* the pods bound to each node
    terminating,   \* the pods with a deletion timestamp
    overdue,       \* the nodes whose drain timeout has elapsed
    job,           \* the executor Job of a node for a version
    applied        \* history: the Jobs created to run "kubeadm upgrade apply"

childVars == <<child, spec, status>>
nodeVars  == <<present, version, ready, cordoned, flaps>>
podVars   == <<pods, terminating, overdue>>
jobVars   == <<job, applied>>
vars      == <<childVars, nodeVars, podVars, jobVars>>

NGPhase == {"", "Draining", "Upgrading", "Verifying",
            "Complete", "Failed", "Paused"}

NodePhase == {"", "Draining", "Drained", "Upgrading", "Upgraded",
              "Ready", "Failed"}

JobState == {"none", "running", "installed", "complete", "failed"}

(* status.nodeProgress is kept as the set of its nodes (seeded), those     *)
(* with a StartedAt, those with a CompletedAt, their phases, and the one   *)
(* ToVersion initNodeProgress gives to all of them.                        *)
Status == [phase : NGPhase, seeded : SUBSET Node, started : SUBSET Node,
           completed : SUBSET Node, nodePhase : [Node -> NodePhase],
           to : KnownVersion]

ChildSpec == [target : KnownVersion, hold : BOOLEAN, paused : BOOLEAN,
              nodes : SUBSET Node]

(* Types: among them, every node keeps its phase when a batch is marked.   *)
TypeOK ==
    /\ child \subseteq Group
    /\ spec \in [Group -> ChildSpec]
    /\ status \in [Group -> Status]
    /\ present \subseteq Node
    /\ version \in [Node -> KnownVersion]
    /\ ready \subseteq Node
    /\ cordoned \subseteq Node
    /\ flaps \in 0..MaxFlaps
    /\ pods \in [Node -> SUBSET Pod]
    /\ terminating \subseteq Pod
    /\ overdue \subseteq Node
    /\ job \in [Node -> [KnownVersion -> JobState]]
    /\ applied \subseteq Node \X KnownVersion

-----------------------------------------------------------------------------
(* Helpers of the controller.                                              *)

Member(g) == {n \in Node : GroupOf[n] = g}

Target(g) == spec[g].target

(* activeBatch: nodes with a StartedAt and no CompletedAt. *)
Active(g) == status[g].started \ status[g].completed

(* ResolveConcurrency: batchSize wins over maxUnavailable, a percentage is *)
(* rounded down, the default is 1, and the result is clamped to [1, total].*)
RequestedLimit(total, batchSize, maxUnavailable) ==
    IF batchSize > 0 THEN batchSize
    ELSE IF maxUnavailable.kind = "count" THEN maxUnavailable.value
    ELSE IF maxUnavailable.kind = "percent"
    THEN (maxUnavailable.value * total) \div 100
    ELSE 1

Clamp(x, lo, hi) == IF x < lo THEN lo ELSE IF x > hi THEN hi ELSE x

ResolveConcurrency(total, batchSize, maxUnavailable) ==
    IF total <= 0 THEN 0
    ELSE Clamp(RequestedLimit(total, batchSize, maxUnavailable), 1, total)

(* The concurrency limit of group g; buildDesiredChild pins the control    *)
(* plane to batches of one.                                                *)
Limit(g) ==
    ResolveConcurrency(Cardinality(spec[g].nodes),
                       IF Role[g] = "ControlPlane" THEN 1 ELSE BatchSize[g],
                       MaxUnavailable[g])

(* The first k nodes of S, in the order of spec.nodes. *)
FirstOf(S, k) == {n \in S : Cardinality({m \in S : m < n}) < k}

(* Mutants: the limit is checked one node too late; the limit is applied   *)
(* before the completed nodes are filtered out.                            *)
NextBatchOneTooMany(g) ==
    FirstOf(spec[g].nodes \ status[g].completed, Limit(g) + 1)

NextBatchLimitsFirst(g) ==
    FirstOf(spec[g].nodes, Limit(g)) \ status[g].completed

(* NextBatch, called only when no node is in progress. *)
NextBatch(g) == FirstOf(spec[g].nodes \ status[g].completed, Limit(g))

(* A pass over the nodes of S that an API error or a crash cuts short has  *)
(* handled the nodes before some node of S.                                *)
CutShort(S) ==
    IF "api" \in Faults THEN {{m \in S : m < n} : n \in S} ELSE {}

(* Whether the status write at the end of a pass is lost. *)
Losses == IF "api" \in Faults THEN BOOLEAN ELSE {FALSE}

(* needsReset: the group completed a hop with another target.  The mutant  *)
(* never resets.                                                           *)
NeedsResetNever(g) == FALSE

NeedsReset(g) ==
    /\ status[g].phase = "Complete"
    /\ status[g].seeded # {}
    /\ status[g].to # Target(g)

(* Guards common to every handler: Reconcile returns early for a paused or *)
(* a held group.                                                           *)
Reconciling(g, phase) ==
    /\ g \in child
    /\ ~spec[g].paused
    /\ ~spec[g].hold
    /\ status[g].phase = phase

SetPhase(g, phase) == status' = [status EXCEPT ![g].phase = phase]

(* Node phases after marking the nodes of S; the mutant forgets the others.*)
MarkOnly(g, S, phase) == [n \in S |-> phase]

Mark(g, S, phase) ==
    [n \in Node |-> IF n \in S THEN phase ELSE status[g].nodePhase[n]]

-----------------------------------------------------------------------------
(* Pending and reset.                                                      *)

ReconcilePending(g) ==
    /\ Reconciling(g, "")
    /\ status' = [status EXCEPT ![g].phase = "Draining",
                                ![g].seeded = spec[g].nodes,
                                ![g].to = Target(g)]
    /\ UNCHANGED <<child, spec, nodeVars, podVars, jobVars>>

(* A child that completed an earlier hop starts over: nodeProgress is      *)
(* emptied, which forgets every StartedAt, CompletedAt and node phase.     *)
Reset(g) ==
    /\ Reconciling(g, "Complete")
    /\ NeedsReset(g)
    /\ status' = [status EXCEPT ![g].phase = "", ![g].seeded = {},
                                ![g].started = {}, ![g].completed = {},
                                ![g].nodePhase = [n \in Node |-> ""]]
    /\ UNCHANGED <<child, spec, nodeVars, podVars, jobVars>>

-----------------------------------------------------------------------------
(* Draining.                                                               *)

(* The pods DrainNode counts: DaemonSet pods are skipped. *)
Evictable(n) == pods[n] \ DaemonPod

(* Mutant: a pod whose eviction was accepted counts as gone. *)
DrainedIfNoneBlocked(n) == Evictable(n) \cap BlockedPod = {}

(* DrainResult.Remaining() = 0. *)
Drained(n) == Evictable(n) = {}

(* Mutants: force does not wait for the timeout; force is never applied. *)
MayForceDeleteAtOnce(S, n) == DrainForce /\ n \in S
MayForceDeleteNever(S, n) == FALSE

(* handleStuckDrain deletes blocked pods of a node that has a progress     *)
(* entry, if force is set and the timeout has elapsed.                     *)
MayForceDelete(S, n) == DrainForce /\ n \in S /\ n \in overdue

(* The pods of n that get a deletion timestamp in a drain pass: evictions  *)
(* that are not refused, and forced deletions.                             *)
Deleted(S, n) ==
    IF MayForceDelete(S, n) THEN Evictable(n) ELSE Evictable(n) \ BlockedPod

(* One drain pass: take up the active batch or start the next one (the     *)
(* first status write), cordon and drain its nodes in order, and move on   *)
(* when no node has an evictable pod left.  A node of spec.nodes without a *)
(* progress entry is drained like the others but leaves no mark in status. *)
DrainPass(g) ==
    /\ Reconciling(g, "Draining")
    /\ LET batch   == IF Active(g) # {} THEN Active(g) ELSE NextBatch(g)
           fresh   == (batch \cap status[g].seeded) \ Active(g)
           reach   == {n \in batch : \A m \in batch : m <= n => m \in present}
           drained == {n \in batch : Drained(n)}
       IN  /\ batch # {}
           /\ overdue' = overdue \ fresh
           /\ \E handled \in {reach} \cup CutShort(reach), lost \in Losses :
                LET saved == handled = batch /\ ~lost IN
                /\ cordoned' = cordoned \cup handled
                /\ terminating' = terminating \cup
                       UNION {Deleted(Active(g), n) : n \in handled}
                /\ status' = [status EXCEPT
                     ![g].started = @ \cup fresh,
                     ![g].nodePhase =
                        [n \in Node |->
                           IF saved /\ n \in drained \cap (Active(g) \cup fresh)
                           THEN "Drained"
                           ELSE IF n \in fresh THEN "Draining" ELSE @[n]],
                     ![g].phase =
                        IF saved /\ drained = batch THEN "Upgrading" ELSE @]
    /\ UNCHANGED <<child, spec, present, version, ready, flaps, pods, jobVars>>

(* No node is active and none is left to start. *)
CompleteGroup(g) ==
    /\ Reconciling(g, "Draining")
    /\ Active(g) = {} /\ NextBatch(g) = {}
    /\ SetPhase(g, "Complete")
    /\ UNCHANGED <<child, spec, nodeVars, podVars, jobVars>>

-----------------------------------------------------------------------------
(* Upgrading and verifying: what both phases share.                        *)

ControlPlaneNode == {n \in present : Role[GroupOf[n]] = "ControlPlane"}

(* CheckControlPlaneHealth: a majority of the control-plane nodes is Ready,*)
(* or there are none to be seen.                                           *)
CheckControlPlaneHealth ==
    \/ ControlPlaneNode = {}
    \/ Cardinality(ControlPlaneNode \cap ready)
          >= Cardinality(ControlPlaneNode) \div 2 + 1

InPlace(g) == Strategy[g] = "InPlace"

Implemented(g) == Provider[g] \in {"Kubeadm", "Generic"}

(* Precheck and Verify of the two implemented adapters.  The etcd quorum   *)
(* checks of Precheck for a control-plane group may also answer "not yet": *)
(* that is a pass that waits.                                              *)
AdapterReady(g) == InPlace(g) => CheckControlPlaneHealth

(* The conditions reconcileVerifying waits for on every active node. *)
NodesVerified(g) ==
    \A n \in Active(g) :
        n \in present /\ n \in ready /\ version[n] = Target(g)

(* The adapter is looked up, and asked, in these states. *)
AtAdapter(g) ==
    \/ Reconciling(g, "Upgrading") /\ Active(g) # {}
    \/ Reconciling(g, "Verifying") /\ Active(g) # {} /\ NodesVerified(g)

(* Both phases go back to Draining when no node is active. *)
NothingActive(g) ==
    /\ Reconciling(g, "Upgrading") \/ Reconciling(g, "Verifying")
    /\ Active(g) = {}
    /\ SetPhase(g, "Draining")
    /\ UNCHANGED <<child, spec, nodeVars, podVars, jobVars>>

NoAdapter(g) ==
    /\ AtAdapter(g)
    /\ Provider[g] = "Unregistered"
    /\ SetPhase(g, "Failed")
    /\ UNCHANGED <<child, spec, nodeVars, podVars, jobVars>>

(* handleAdapterError: a provider that is not implemented pauses the       *)
(* group, any other error of Precheck, PollBatch or Verify fails it.       *)
HandleAdapterError(g) ==
    /\ AtAdapter(g)
    /\ \/ Provider[g] = "Stub" /\ SetPhase(g, "Paused")
       \/ Implemented(g) /\ "adapter" \in Faults /\ SetPhase(g, "Failed")
    /\ UNCHANGED <<child, spec, nodeVars, podVars, jobVars>>

-----------------------------------------------------------------------------
(* Upgrading.                                                              *)

(* Mutant: only a node exactly at the target is skipped. *)
NeedsUpgradeUnlessEqual(g, n) == version[n] # Target(g)

(* A node at or past the target is skipped. *)
NeedsUpgrade(g, n) == Before(version[n], Target(g))

ToUpgrade(g) == {n \in Active(g) : NeedsUpgrade(g, n)}

(* needsBegin, after the skipped nodes were marked "Upgraded". *)
NeedsBegin(g) ==
    \E n \in ToUpgrade(g) :
        status[g].nodePhase[n] \notin {"Upgrading", "Upgraded"}

(* The guards of a pass that reaches BeginBatch or PollBatch. *)
UpgradePassEnabled(g) ==
    /\ Reconciling(g, "Upgrading")
    /\ Active(g) # {}
    /\ Implemented(g)
    /\ AdapterReady(g)
    /\ Active(g) \subseteq present

(* Mutant: every batch of the control plane may claim "apply". *)
IsFirstControlPlaneUpgradeAlways(g) == TRUE

IsFirstControlPlaneUpgrade(g) ==
    ~(status[g].to = Target(g) /\ status[g].completed # {})

(* kubeadm BeginBatch creates the Jobs of the nodes in S that have none    *)
(* for this target; the first node of the batch runs "apply" if the group  *)
(* is the control plane and no node completed this target yet.             *)
CreateJobs(g, S) ==
    LET created == {n \in S : job[n][Target(g)] = "none"}
        first   == FirstOf(ToUpgrade(g), 1)
    IN  /\ job' = [n \in Node |->
                      IF n \in created
                      THEN [job[n] EXCEPT ![Target(g)] = "running"]
                      ELSE job[n]]
        /\ applied' = IF Role[g] = "ControlPlane" /\ IsFirstControlPlaneUpgrade(g)
                      THEN applied \cup ((created \cap first) \X {Target(g)})
                      ELSE applied

(* PollBatch runs in the same pass as BeginBatch and reads the informer    *)
(* cache, which may not have seen a Job the pass has just created.         *)
Unseen(g) ==
    IF "cache" \in Faults /\ NeedsBegin(g)
    THEN SUBSET {n \in ToUpgrade(g) : job[n][Target(g)] = "none"}
    ELSE {{}}

(* jobResult, for the Jobs as they are after BeginBatch.  A Job that is    *)
(* missing counts as failed.  The mutant takes every unfinished Job for a  *)
(* failed one.                                                             *)
PolledFailedUnlessComplete(g, unseen) ==
    {n \in ToUpgrade(g) : job'[n][Target(g)] # "complete"}

PolledFailed(g, unseen) ==
    {n \in ToUpgrade(g) :
        n \in unseen \/ job'[n][Target(g)] \in {"none", "failed"}}

PolledUpgraded(g) == {n \in ToUpgrade(g) : job'[n][Target(g)] = "complete"}

(* Results are applied in batch order up to the first failure. *)
ApplyResults(g, unseen) ==
    LET failed  == FirstOf(PolledFailed(g, unseen), 1)
        applies == {n \in ToUpgrade(g) : \A f \in failed : n < f}
        done    == (Active(g) \ ToUpgrade(g)) \cup (PolledUpgraded(g) \cap applies)
    IN  status' = [status EXCEPT
          ![g].nodePhase = [n \in Node |->
              IF n \in failed THEN "Failed"
              ELSE IF n \in done THEN "Upgraded"
              ELSE IF n \in ToUpgrade(g) /\ NeedsBegin(g) THEN "Upgrading"
              ELSE @[n]],
          ![g].phase = IF failed # {} THEN "Failed"
                       ELSE IF done = Active(g) THEN "Verifying" ELSE @]

UpgradePassInPlace(g) ==
    /\ UpgradePassEnabled(g) /\ InPlace(g)
    /\ IF NeedsBegin(g) THEN CreateJobs(g, ToUpgrade(g)) ELSE UNCHANGED jobVars
    /\ \E unseen \in Unseen(g) : ApplyResults(g, unseen)
    /\ UNCHANGED <<child, spec, nodeVars, podVars>>

(* The generic adapter's Replace: BeginBatch deletes the Node objects and  *)
(* PollBatch, which reads the informer cache, sees them gone or not.  A    *)
(* batch that was already begun and whose nodes exist is in progress, and  *)
(* one whose nodes are gone fails in activeBatchNodes: both wait.          *)
UpgradePassReplace(g) ==
    /\ UpgradePassEnabled(g) /\ ~InPlace(g)
    /\ NeedsBegin(g) \/ ToUpgrade(g) = {}
    /\ present' = present \ ToUpgrade(g)
    /\ \E gone \in BOOLEAN :
         /\ ToUpgrade(g) = {} => gone
         /\ status' = [status EXCEPT
              ![g].nodePhase = [n \in Node |->
                  IF n \in Active(g)
                  THEN IF gone \/ n \notin ToUpgrade(g) THEN "Upgraded" ELSE "Upgrading"
                  ELSE @[n]],
              ![g].phase = IF gone THEN "Verifying" ELSE @]
    /\ UNCHANGED <<child, spec, version, ready, cordoned, flaps, podVars, jobVars>>

(* BeginBatch handled the nodes of S and the pass ended there: the         *)
(* controller died (status unchanged), or a create, a delete or the        *)
(* PollBatch that follows was refused (the group fails).                   *)
BeginBatchCutShort(g) ==
    /\ UpgradePassEnabled(g) /\ NeedsBegin(g)
    /\ \E S \in SUBSET ToUpgrade(g) :
         /\ IF InPlace(g)
            THEN CreateJobs(g, S) /\ UNCHANGED present
            ELSE present' = present \ S /\ UNCHANGED jobVars
         /\ \/ "api" \in Faults /\ UNCHANGED status
            \/ "adapter" \in Faults /\ SetPhase(g, "Failed")
    /\ UNCHANGED <<child, spec, version, ready, cordoned, flaps, podVars>>

-----------------------------------------------------------------------------
(* Verifying.                                                              *)

(* Uncordon of every node of the batch; the mutant stops after the first.  *)
UncordonFirst(S) == cordoned' = cordoned \ FirstOf(S, 1)

Uncordon(S) == cordoned' = cordoned \ S

VerifyPass(g) ==
    /\ Reconciling(g, "Verifying")
    /\ Active(g) # {} /\ NodesVerified(g)
    /\ Implemented(g) /\ AdapterReady(g)
    /\ \E handled \in {Active(g)} \cup CutShort(Active(g)), lost \in Losses :
         /\ Uncordon(handled)
         /\ IF handled = Active(g) /\ ~lost
            THEN status' = [status EXCEPT
                   ![g].completed = @ \cup Active(g),
                   ![g].nodePhase = Mark(g, Active(g), "Ready"),
                   ![g].phase = "Draining"]
            ELSE UNCHANGED status
    /\ UNCHANGED <<child, spec, present, version, ready, flaps, podVars, jobVars>>

ReconcileGroup(g) ==
    \/ ReconcilePending(g) \/ Reset(g)
    \/ DrainPass(g) \/ CompleteGroup(g)
    \/ NothingActive(g) \/ NoAdapter(g) \/ HandleAdapterError(g)
    \/ UpgradePassInPlace(g) \/ UpgradePassReplace(g) \/ BeginBatchCutShort(g)
    \/ VerifyPass(g)

-----------------------------------------------------------------------------
(* The cluster: executor Jobs, nodes and pods.                             *)

SetJob(n, v, state) == job' = [job EXCEPT ![n][v] = state]

(* upgrade.sh: the new kubelet is installed and the node reports it before *)
(* the Job's pod exits and the Job is marked complete.                     *)
JobInstalls(n, v) ==
    /\ job[n][v] = "running" /\ n \in present
    /\ SetJob(n, v, "installed")
    /\ version' = [version EXCEPT ![n] = v]
    /\ UNCHANGED <<childVars, present, ready, cordoned, flaps, podVars, applied>>

JobCompletes(n, v) ==
    /\ job[n][v] = "installed"
    /\ SetJob(n, v, "complete")
    /\ UNCHANGED <<childVars, nodeVars, podVars, applied>>

(* The script fails for the last time, or activeDeadlineSeconds is over. *)
JobFails(n, v) ==
    /\ "job" \in Faults
    /\ job[n][v] \in {"running", "installed"}
    /\ SetJob(n, v, "failed")
    /\ UNCHANGED <<childVars, nodeVars, podVars, applied>>

(* ttlSecondsAfterFinished removes a finished Job. *)
JobExpires(n, v) ==
    /\ "ttl" \in Faults
    /\ job[n][v] \in {"complete", "failed"}
    /\ SetJob(n, v, "none")
    /\ UNCHANGED <<childVars, nodeVars, podVars, applied>>

NodeLosesReady(n) ==
    /\ n \in present \cap ready /\ flaps < MaxFlaps
    /\ ready' = ready \ {n}
    /\ flaps' = flaps + 1
    /\ UNCHANGED <<childVars, present, version, cordoned, podVars, jobVars>>

NodeRecovers(n) ==
    /\ n \in present \ ready
    /\ ready' = ready \cup {n}
    /\ UNCHANGED <<childVars, present, version, cordoned, flaps, podVars, jobVars>>

(* A node joins, or a deleted node is recreated under its name. *)
NodeJoins(n) ==
    /\ n \notin present
    /\ \E v \in JoinVersions : version' = [version EXCEPT ![n] = v]
    /\ present' = present \cup {n}
    /\ ready' = ready \cup {n}
    /\ cordoned' = cordoned \ {n}
    /\ UNCHANGED <<childVars, flaps, podVars, jobVars>>

(* A terminating pod is gone; a pod without a node is scheduled to a node  *)
(* that is not cordoned.                                                   *)
PodTerminates(p) ==
    /\ p \in terminating
    /\ terminating' = terminating \ {p}
    /\ pods' = [n \in Node |-> pods[n] \ {p}]
    /\ UNCHANGED <<childVars, nodeVars, overdue, jobVars>>

PodScheduled(p, n) ==
    /\ \A m \in Node : p \notin pods[m]
    /\ n \in present \ cordoned
    /\ pods' = [pods EXCEPT ![n] = @ \cup {p}]
    /\ UNCHANGED <<childVars, nodeVars, terminating, overdue, jobVars>>

(* spec.drain.timeoutSeconds after a node's StartedAt; it matters only to  *)
(* a node that still has pods to drain.                                    *)
DrainTimesOut(n) ==
    /\ n \in Active(GroupOf[n]) \ overdue
    /\ ~Drained(n)
    /\ overdue' = overdue \cup {n}
    /\ UNCHANGED <<childVars, nodeVars, pods, terminating, jobVars>>

Cluster ==
    \/ \E n \in Node, v \in KnownVersion :
          JobInstalls(n, v) \/ JobCompletes(n, v) \/ JobFails(n, v) \/ JobExpires(n, v)
    \/ \E n \in Node :
          NodeLosesReady(n) \/ NodeRecovers(n) \/ NodeJoins(n) \/ DrainTimesOut(n)
    \/ \E p \in Pod : PodTerminates(p) \/ \E n \in Node : PodScheduled(p, n)

-----------------------------------------------------------------------------
(* The parent, seen from the child: it applies a spec (held) and releases  *)
(* the hold.  It raises the target once every member has reached it, the   *)
(* condition of reconcilePostchecks, and refreshes spec.nodes.             *)

ApplySpec(g, v) ==
    /\ child' = child \cup {g}
    /\ spec' = [spec EXCEPT ![g].target = v, ![g].hold = TRUE,
                            ![g].nodes = Member(g) \cap present]
    /\ UNCHANGED <<status, nodeVars, podVars, jobVars>>

ParentApplies(g, v) ==
    /\ \/ g \notin child
       \/ Target(g) = v /\ spec[g].nodes # Member(g) \cap present
       \/ /\ Before(Target(g), v)
          /\ \A n \in Member(g) \cap present : AtLeast(version[n], Target(g))
    /\ ApplySpec(g, v)

ClearHold(g) == spec' = [spec EXCEPT ![g].hold = FALSE]

ParentReleases(g) ==
    /\ g \in child /\ spec[g].hold
    /\ ClearHold(g)
    /\ UNCHANGED <<child, status, nodeVars, podVars, jobVars>>

(* spec.paused, set by an administrator. *)
TogglePause(g) ==
    /\ g \in child \cap PausableGroup
    /\ spec' = [spec EXCEPT ![g].paused = ~@]
    /\ UNCHANGED <<child, status, nodeVars, podVars, jobVars>>

NoSpec == [target |-> CHOOSE v \in KnownVersion : TRUE, hold |-> TRUE,
           paused |-> FALSE, nodes |-> {}]

NoStatus == [phase |-> "", seeded |-> {}, started |-> {}, completed |-> {},
             nodePhase |-> [n \in Node |-> ""],
             to |-> CHOOSE v \in KnownVersion : TRUE]

Init ==
    /\ child = {}
    /\ spec = [g \in Group |-> NoSpec]
    /\ status = [g \in Group |-> NoStatus]
    /\ present = Node \ LateNode
    /\ version \in InitVersions
    /\ ready = Node
    /\ cordoned = {}
    /\ flaps = 0
    /\ pods = InitPods
    /\ terminating = {}
    /\ overdue = {}
    /\ job = [n \in Node |-> [v \in KnownVersion |-> "none"]]
    /\ applied = {}

Parent(g) ==
    \/ \E v \in TargetVersions : ParentApplies(g, v)
    \/ ParentReleases(g)
    \/ TogglePause(g)

Next == (\E g \in Group : ReconcileGroup(g) \/ Parent(g)) \/ Cluster

Spec == Init /\ [][Next]_vars

(* A started Job runs to its end, pods terminate, nodes recover and time   *)
(* passes.  Nothing is assumed of the scheduler, of faults, or of nodes    *)
(* that join.                                                              *)
ClusterFairness ==
    /\ \A n \in Node, v \in KnownVersion :
         WF_vars(JobInstalls(n, v)) /\ WF_vars(JobCompletes(n, v))
    /\ \A n \in Node : WF_vars(NodeRecovers(n)) /\ WF_vars(DrainTimesOut(n))
    /\ \A p \in Pod : WF_vars(PodTerminates(p))

(* The work queue retries a group until its reconcile succeeds, and the    *)
(* parent releases the group.                                              *)
Fairness ==
    /\ \A g \in Group : WF_vars(ReconcileGroup(g)) /\ WF_vars(ParentReleases(g))
    /\ ClusterFairness

FairSpec == Spec /\ Fairness

-----------------------------------------------------------------------------
(* Properties.                                                             *)

(* reconcileDraining and NextBatch, across lost status writes, partial     *)
(* uncordons and nodes that join: of the nodes of a group, at most as many *)
(* as ResolveConcurrency allows are cordoned or gone at any time.          *)
CordonBound ==
    \A g \in Group :
        Cardinality({n \in spec[g].nodes : n \in cordoned \/ n \notin present})
            <= Limit(g)

(* The hand-over from reconcileDraining to BeginBatch: while the executor  *)
(* of a node has not yet replaced the kubelet, the node is cordoned and    *)
(* carries no pod a drain should have removed.                             *)
DrainedBeforeUpgrade ==
    \A n \in Node, v \in KnownVersion :
        job[n][v] = "running" => n \in cordoned /\ Evictable(n) = {}

(* reconcileUpgrading's guard against dispatching a Job that installs an   *)
(* older version: no step makes the kubelet of a node older, unless an     *)
(* outside system recreated the node.                                      *)
NeverDowngrade ==
    [][\A n \in present : AtLeast(version'[n], version[n])]_vars

(* reconcileVerifying: a group that reports Complete for its current       *)
(* target has left none of the nodes it set out to upgrade cordoned or     *)
(* behind the target.                                                      *)
CompleteMeansDone ==
    \A g \in Group :
        status[g].phase = "Complete" /\ status[g].to = Target(g) =>
            \A n \in status[g].seeded :
                n \notin cordoned /\ AtLeast(version[n], Target(g))

(* kubeadm BeginBatch: at most one node of the control plane is told to    *)
(* run "kubeadm upgrade apply" for a version.                              *)
ApplyOnce ==
    \A v \in KnownVersion :
        Cardinality({n \in Node : <<n, v>> \in applied}) <= 1

(* handleStuckDrain: a pod whose eviction is refused is deleted only if    *)
(* drain.force is set and the drain of its node has timed out.             *)
ForceOnlyAfterTimeout ==
    [][\A p \in BlockedPod :
          p \in terminating' \ terminating =>
              DrainForce /\ \E n \in overdue : p \in pods[n]]_vars

(* PollBatch: "A missing Job is treated as a failure: BeginBatch should    *)
(* always have created one, so its absence means something deleted it"     *)
(* (pkg/provider/kubeadm/adapter.go): a node is recorded as failed only if *)
(* its Job for the target has failed or is gone.                           *)
FailedMeansJobGone ==
    \A g \in Group, n \in Node :
        status[g].phase = "Failed" /\ status[g].nodePhase[n] = "Failed" =>
            job[n][status[g].to] \in {"failed", "none"}

(* A released group comes to an end: Complete, Failed, or Paused because   *)
(* its provider is not implemented.                                        *)
GroupSettles ==
    \A g \in Group :
        g \in child /\ ~spec[g].hold ~>
            status[g].phase \in {"Complete", "Failed", "Paused"}

(* No node stays cordoned behind a group that goes on or succeeds.         *)
CordonReleased ==
    \A n \in Node :
        n \in cordoned ~>
            n \notin cordoned \/ status[GroupOf[n]].phase \in {"Failed", "Paused"}

=============================================================================
