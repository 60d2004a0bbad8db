------------------------- MODULE KubernetesUpgrade --------------------------
(***************************************************************************)
(* The KubernetesUpgrade controller (internal/controller/kubernetesupgrade *)
(* _*.go) on top of the NodeGroupUpgrade controller: one upgrade that      *)
(* holds the mutual-exclusion lease, its step plan, and the children it    *)
(* creates, holds and releases, hop after hop.  The two controllers run    *)
(* concurrently: every reconcile of either is one action, and they meet    *)
(* only in the children's spec and status and in the nodes.                *)
(***************************************************************************)
EXTENDS NodeGroupUpgrade

CONSTANTS
    Wanted,        \* spec.targetVersion of the upgrade
    SkipGroup      \* groups with groupOverrides[].skip

ASSUME UpgradeAssumption ==
    /\ Wanted \in KnownVersion
    /\ SkipGroup \subseteq Group
    /\ Group \subseteq Nat      \* their order is the order of group names

(* The hops ComputeStepPlan and NextGroupTarget build from known versions  *)
(* are known.                                                              *)
ASSUME HopAssumption ==
    \A v \in KnownVersion, minor \in 0..Wanted.minor :
        v.minor < minor /\ minor < Wanted.minor => V(v.major, minor, 0) \in KnownVersion

VARIABLES
    kuPhase,       \* status.phase
    plan,          \* status.stepPlan
    stepIndex,     \* status.currentStepIndex, counted from 1
    discovered,    \* status.discoveredGroups
    start          \* history: the versions the fleet started with

kuVars  == <<kuPhase, plan, stepIndex, discovered, start>>
allVars == <<vars, kuVars>>

KUPhase == {"", "Discovering", "Prechecks", "ControlPlaneUpgrade",
            "WorkersUpgrade", "Postchecks", "Complete", "Failed"}

(* Types, and the index of the current step within the plan.               *)
KUTypeOK ==
    /\ TypeOK
    /\ kuPhase \in KUPhase
    /\ plan \in Seq([from : Version, to : Version])
    /\ IF plan = << >> THEN stepIndex = 1 ELSE stepIndex \in 1..Len(plan)
    /\ discovered \subseteq Group
    /\ start \in [Node -> KnownVersion]

clusterVars == <<nodeVars, podVars, jobVars>>

-----------------------------------------------------------------------------

(* DiscoverGroups: the groups of the nodes that exist. *)
LiveMember(g) == Member(g) \cap present

DiscoverGroups == {g \in Group : LiveMember(g) # {}}

GroupCurrentVersion(g) == OldestVersion({version[n] : n \in LiveMember(g)})

OldestVersionAcrossGroups ==
    OldestVersion({GroupCurrentVersion(g) : g \in DiscoverGroups})

ReconcilePendingKU ==
    /\ kuPhase = ""
    /\ kuPhase' = "Discovering"
    /\ UNCHANGED <<vars, plan, stepIndex, discovered, start>>

(* The plan is computed once and saved before any child is touched. *)
PlanNow ==
    IF plan = << >>
    THEN ComputeStepPlan(OldestVersionAcrossGroups, Wanted, FALSE)
    ELSE Plan(plan)

(* buildDesiredChild and the server-side apply of the children in S: the   *)
(* target, the hold and the node list change, the status does not.  The    *)
(* mutant forgets the hold.                                                *)
DesiredSpecNotHeld(g, hopTarget) ==
    [spec[g] EXCEPT !.target = NextGroupTarget(GroupCurrentVersion(g), hopTarget),
                    !.hold = FALSE,
                    !.nodes = LiveMember(g)]

DesiredSpec(g, hopTarget) ==
    [spec[g] EXCEPT !.target = NextGroupTarget(GroupCurrentVersion(g), hopTarget),
                    !.hold = TRUE,
                    !.nodes = LiveMember(g)]

(* PruneCandidates: children of groups that are gone, if safe to delete. *)
PruneCandidates ==
    {g \in child \ DiscoverGroups : status[g].phase \in {"", "Complete"}}

(* The plan is saved, the children are applied in the order of their       *)
(* groups, orphans are pruned, and the phase is saved last.  A cluster     *)
(* without nodes in scope, for which the code falls back to the version of *)
(* the API server, is left out.                                            *)
ReconcileDiscovering ==
    /\ kuPhase = "Discovering"
    /\ DiscoverGroups # {}
    /\ LET p    == PlanNow
           apply == DiscoverGroups \ SkipGroup
       IN  /\ plan' = p.steps
           /\ IF ~p.ok \/ p.steps = << >>
              THEN /\ kuPhase' = IF p.ok THEN "Complete" ELSE "Failed"
                   /\ UNCHANGED <<childVars, discovered>>
              ELSE \E S \in {apply} \cup CutShort(apply), lost \in Losses,
                      pruned \in SUBSET PruneCandidates :
                     /\ S # apply => pruned = {}
                     /\ ~lost => pruned = PruneCandidates \/ S # apply
                     /\ spec' = [g \in Group |->
                                   IF g \in S
                                   THEN DesiredSpec(g, p.steps[stepIndex].to)
                                   ELSE spec[g]]
                     /\ child' = (child \cup S) \ pruned
                     /\ status' = [g \in Group |->
                                     IF g \in pruned THEN NoStatus ELSE status[g]]
                     /\ IF S = apply /\ ~lost
                        THEN kuPhase' = "Prechecks" /\ discovered' = apply
                        ELSE UNCHANGED <<kuPhase, discovered>>
    /\ UNCHANGED <<clusterVars, stepIndex, start>>

AllNodesReady == present \subseteq ready

ReconcilePrechecks ==
    /\ kuPhase = "Prechecks"
    /\ AllNodesReady
    /\ kuPhase' = IF \E g \in discovered : Role[g] = "ControlPlane"
                  THEN "ControlPlaneUpgrade" ELSE "WorkersUpgrade"
    /\ UNCHANGED <<vars, plan, stepIndex, discovered, start>>

(* clearHold on the children in S. *)
ReleaseHolds(S) ==
    spec' = [g \in Group |-> IF g \in S THEN [spec[g] EXCEPT !.hold = FALSE]
                             ELSE spec[g]]

(* Mutant: one complete child is enough. *)
AnyComplete(S) == \E g \in S : status[g].phase = "Complete"

AllComplete(S) == \A g \in S : status[g].phase = "Complete"

Children(role) == {g \in child : Role[g] = role}

(* The control-plane child is released, and its phase read. *)
ReconcileControlPlane ==
    /\ kuPhase = "ControlPlaneUpgrade"
    /\ LET cp == Children("ControlPlane")
       IN  /\ ReleaseHolds(cp)
           /\ \E lost \in Losses :
                kuPhase' =
                  IF lost THEN kuPhase
                  ELSE IF AllComplete(cp)
                  THEN "WorkersUpgrade"
                  ELSE IF \E g \in cp : status[g].phase = "Failed"
                  THEN "Failed" ELSE kuPhase
    /\ UNCHANGED <<child, status, clusterVars, plan, stepIndex, discovered, start>>

(* All worker children are released; the pass ends at the first one that   *)
(* has failed (the order of the list is that of the cache).                *)
ReconcileWorkers ==
    /\ kuPhase = "WorkersUpgrade"
    /\ LET workers == Children("Worker")
           failed  == {g \in workers : status[g].phase = "Failed"}
       IN  \/ /\ failed = {}
              /\ ReleaseHolds(workers)
              /\ kuPhase' = IF AllComplete(workers)
                            THEN "Postchecks" ELSE kuPhase
           \/ /\ \E S \in SUBSET workers :
                    Cardinality(S \cap failed) = 1 /\ ReleaseHolds(S)
              /\ kuPhase' = "Failed"
           \/ /\ "api" \in Faults
              /\ \E S \in SUBSET (workers \ failed) : ReleaseHolds(S)
              /\ UNCHANGED kuPhase
    /\ UNCHANGED <<child, status, clusterVars, plan, stepIndex, discovered, start>>

(* Mutant: every group counts as caught up. *)
CaughtUpAnyway(g) == TRUE

CaughtUp(g) == AtLeast(GroupCurrentVersion(g), plan[stepIndex].to)

(* Mutant: one step more than the plan has. *)
MoreStepsThanPlanned == stepIndex <= Len(plan)

MoreSteps == stepIndex < Len(plan)

ReconcilePostchecks ==
    /\ kuPhase = "Postchecks"
    /\ AllNodesReady
    /\ IF ~\A g \in DiscoverGroups : CaughtUp(g)
       THEN kuPhase' = "Discovering" /\ UNCHANGED stepIndex
       ELSE IF MoreSteps
       THEN kuPhase' = "Discovering" /\ stepIndex' = stepIndex + 1
       ELSE kuPhase' = "Complete" /\ UNCHANGED stepIndex
    /\ UNCHANGED <<vars, plan, discovered, start>>

ReconcileKU ==
    \/ ReconcilePendingKU \/ ReconcileDiscovering \/ ReconcilePrechecks
    \/ ReconcileControlPlane \/ ReconcileWorkers \/ ReconcilePostchecks

KUInit ==
    /\ Init
    /\ kuPhase = ""
    /\ plan = << >>
    /\ stepIndex = 1
    /\ discovered = {}
    /\ start = version

KUNext ==
    \/ ReconcileKU
    \/ (\E g \in Group : ReconcileGroup(g) \/ TogglePause(g)) /\ UNCHANGED kuVars
    \/ Cluster /\ UNCHANGED kuVars

KUSpec == KUInit /\ [][KUNext]_allVars

(* Both work queues retry.  From the second pass on the parent holds and   *)
(* releases its children again and again while it waits for the fleet, so  *)
(* a child is enabled only now and then: its reconcile is strongly fair,   *)
(* which the growing back-off of the parent's requeues justifies.          *)
KUFairness ==
    /\ WF_allVars(ReconcileKU)
    /\ \A g \in Group : SF_vars(ReconcileGroup(g))
    /\ ClusterFairness

KUFairSpec == KUSpec /\ KUFairness

-----------------------------------------------------------------------------
(* Properties.                                                             *)

(* The promise of the whole upgrade: FleetUpgrade, with the hop of the     *)
(* plan as the fleet's hop.                                                *)
Fleet == INSTANCE FleetUpgrade WITH
            StartVersions <- InitVersions,
            TargetVersion <- Wanted,
            hop           <- stepIndex,
            finished      <- (kuPhase = "Complete")

(* Whatever the two controllers, the Jobs and the faults do, the fleet     *)
(* moves as FleetUpgrade says: up, one minor at a time, hop by hop, and    *)
(* Complete only at the end.                                               *)
ImplementsFleet == Fleet!Spec

(* The parent's hold (clearHold: "control-plane completes before workers   *)
(* start"): no executor runs on a worker for a version that some           *)
(* control-plane node has not reached.                                     *)
ControlPlaneFirst ==
    \A n \in Node \ ControlPlaneNode, v \in KnownVersion :
        job[n][v] = "running" =>
            \A c \in ControlPlaneNode : AtLeast(version[c], v)

(* The end of the upgrade: Complete is reported only when every child has  *)
(* finished and no node is left cordoned.                                  *)
CompleteLeavesNothingBehind ==
    kuPhase = "Complete" => AllComplete(discovered) /\ cordoned = {}

(* Without a failing Job, adapter or API call, every hop of a fleet whose  *)
(* groups are not mixed is driven to completion, although Jobs expire and  *)
(* nodes lose Ready on the way.                                            *)
UpgradeCompletes ==
    (\A n, m \in Node : GroupOf[n] = GroupOf[m] => start[n] = start[m])
        => <>(kuPhase = "Complete")
=============================================================================
