---------------------------- MODULE FleetUpgrade ----------------------------
(***************************************************************************)
(* What a KubernetesUpgrade promises of the fleet, without controllers,    *)
(* children, Jobs or failures: kubelets move up, one minor at a time,      *)
(* through the hops of one plan; the plan moves to its next hop only when  *)
(* the whole fleet has reached the current one; and the upgrade is         *)
(* finished only when the whole fleet has reached the last.                *)
(*                                                                         *)
(* KubernetesUpgrade implements this specification (see                    *)
(* MCKubernetesUpgrade).                                                   *)
(***************************************************************************)
EXTENDS K8sVersion

CONSTANTS Node,             \* the nodes in the upgrade's scope
          StartVersions,    \* the version assignments the fleet may start with
          TargetVersion     \* spec.targetVersion

ASSUME FleetAssumption ==
    /\ Node # {}
    /\ StartVersions \subseteq [Node -> Version]
    /\ TargetVersion \in Version

VARIABLES version,          \* kubelet version of each node
          start,            \* history: the versions the fleet started with
          plan,             \* status.stepPlan
          hop,              \* status.currentStepIndex (1-based)
          finished          \* the upgrade reported Complete

vars == <<version, start, plan, hop, finished>>

HopTarget == plan[hop].to

(* Mutant: the hop counts as reached only by nodes exactly on it. *)
ReachedHopExactly == \A n \in Node : version[n] = HopTarget

ReachedHop == \A n \in Node : AtLeast(version[n], HopTarget)

Init ==
    /\ version \in StartVersions
    /\ start = version
    /\ plan = << >>
    /\ hop = 1
    /\ finished = FALSE

(* The plan is made once, from the oldest version in the fleet. *)
MakePlan ==
    /\ plan = << >> /\ ~finished
    /\ LET p == ComputeStepPlan(OldestVersion({version[n] : n \in Node}),
                                TargetVersion, FALSE)
       IN  /\ p.ok
           /\ plan' = p.steps
           /\ finished' = (p.steps = << >>)
    /\ UNCHANGED <<version, start, hop>>

UpgradeNode(n) ==
    /\ plan # << >> /\ ~finished
    /\ Before(version[n], HopTarget)
    /\ \E v \in {HopTarget, NextGroupTarget(version[n], HopTarget)} :
         /\ WithinOneMinor(version[n], v)
         /\ version' = [version EXCEPT ![n] = v]
    /\ UNCHANGED <<start, plan, hop, finished>>

(* Mutant: one hop more than the plan has. *)
MoreHopsThanPlanned == hop <= Len(plan)

MoreHops == hop < Len(plan)

AdvanceHop ==
    /\ plan # << >> /\ ~finished
    /\ ReachedHop
    /\ IF MoreHops
       THEN hop' = hop + 1 /\ UNCHANGED finished
       ELSE finished' = TRUE /\ UNCHANGED hop
    /\ UNCHANGED <<version, start, plan>>

Next == MakePlan \/ (\E n \in Node : UpgradeNode(n)) \/ AdvanceHop

Spec == Init /\ [][Next]_vars

FairSpec == Spec /\ WF_vars(Next)

-----------------------------------------------------------------------------

(* Types, and the index of the current hop within the plan: the controller *)
(* reads status.stepPlan[currentStepIndex] without a bounds check.         *)
TypeOK ==
    /\ version \in [Node -> Version]
    /\ start \in [Node -> Version]
    /\ plan \in Seq([from : Version, to : Version])
    /\ IF plan = << >> THEN hop = 1 ELSE hop \in 1..Len(plan)
    /\ finished \in BOOLEAN

(* The plan made by ComputeStepPlan and the gate of reconcilePostchecks    *)
(* keep the fleet together: a node the upgrade has moved is never more     *)
(* than one minor version ahead of a node that is behind it.               *)
OneMinorApart ==
    \A m, n \in Node :
        version[n] # start[n] /\ Before(version[m], version[n])
            => WithinOneMinor(version[m], version[n])

(* The upgrade is reported Complete (end of reconcilePostchecks) only when *)
(* every node is at the requested version or was beyond it.                *)
FinishedAtTarget ==
    finished => \A n \in Node : AtLeast(version[n], TargetVersion)

(* Every hop is completed: the plan runs to its end, also when some nodes  *)
(* start ahead of some of its hops.                                        *)
EventuallyFinished == <>finished
=============================================================================
